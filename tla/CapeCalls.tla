----------------------------- MODULE CapeCalls -----------------------------
(***************************************************************************)
(* What the functions of libplc-gpio, leds.c, spi.c and afe.c do to the    *)
(* hardware, as sequences of the steps another thread may come between:    *)
(* the two accesses of a read-modify-write of a GPIO bank, the two system  *)
(* calls of the read of a register, the lock of the LEDs.  CapeDevices     *)
(* gives each step its effect.  A register is the set of its flags.        *)
(***************************************************************************)
EXTENDS Sequences, Integers

Step(op) == <<[op |-> op]>>
On(b) == IF b THEN 1 ELSE 0

\* plc_gpio_pin_out_set: "*addr_out = *addr_out | mask", a load and a store of the bank.
PinOutSet(pin, on) == <<[op |-> "load", pin |-> pin], [op |-> "store", pin |-> pin, on |-> on]>>
PinOutToggle(pin) == <<[op |-> "load", pin |-> pin], [op |-> "flip", pin |-> pin]>>

(***************************************************************************)
(* leds.c.  The application's LED of the second cape is on at low level.   *)
(***************************************************************************)
LevelOn(version) == On(version < 2)

LedsCreate(version) ==
  PinOutSet("app", LevelOn(version)) \o PinOutSet("tx", 0) \o PinOutSet("rx", 0)
    \o Step("ledsReady")
LedsRelease(version) ==
  Step("ledsGone") \o PinOutSet("rx", 0) \o PinOutSet("tx", 0)
    \o PinOutSet("app", 1 - LevelOn(version))

\* "Led access mutexed because can be called from different threads".
Locked(calls) == Step("lock") \o calls \o Step("unlock")
ToggleAppActivity == Locked(PinOutToggle("app"))
SetAppActivity(version, on) ==
  Locked(PinOutSet("app", IF on = 1 THEN LevelOn(version) ELSE 1 - LevelOn(version)))
SetTxActivity(on) == Locked(PinOutSet("tx", on))
SetRxActivity(on) == Locked(PinOutSet("rx", on))

(***************************************************************************)
(* spi.c: commands.  "Command execution in half-duplex mode": one system   *)
(* call sends the register, another one receives its value.                *)
(***************************************************************************)
WriteCommand(reg, value) == <<[op |-> "write", reg |-> reg, value |-> value]>>
ReadCommand(reg) == <<[op |-> "ask", reg |-> reg], [op |-> "answer", reg |-> reg]>>
\* The value last read, with the flags of mask replaced, is written.
WriteBack(reg, mask, content) ==
  <<[op |-> "writeBack", reg |-> reg, mask |-> mask, content |-> content]>>
\* The flags of mask in the value last read are asserted to be content.
Expect(mask, content) == <<[op |-> "expect", mask |-> mask, content |-> content]>>
Remember(field, value) == <<[op |-> "remember", field |-> field, value |-> value]>>

\* Mutant: the speed is given to the driver for the DAC only.
SetDacModeKeepsSpeed(enable) ==
  <<[op |-> "dacMode", on |-> enable], [op |-> "bits", on |-> enable]>>
    \o (IF enable = 1 THEN <<[op |-> "speed", on |-> enable]>> ELSE <<>>)
    \o PinOutSet("dac", enable)

\* spi_set_dac_mode: the record first, then the driver, then the pin.
SetDacMode(enable) ==
  <<[op |-> "dacMode", on |-> enable], [op |-> "bits", on |-> enable],
    [op |-> "speed", on |-> enable]>> \o PinOutSet("dac", enable)

TransferDacBuffer(samples) == <<[op |-> "transfer", samples |-> samples]>>
TransferDacSample(sample) == TransferDacBuffer(<<sample>>)

SpiRelease == Step("closeSpi") \o PinOutSet("dac", 0)

(***************************************************************************)
(* afe.c: the registers of the AFE031.                                     *)
(***************************************************************************)
Enable1 == {"pa", "tx", "rx", "dac"}
Enable2 == {"zc", "ref1", "ref2", "pa_out"}
CalibMask == {"calib_tx", "calib_rx", "calib_tx_pga"}
Overloads == {"thermal", "current"}

SetRegValue(reg, content) ==
  WriteCommand(reg, content) \o ReadCommand(reg)
    \o Expect(Enable1 \cup Enable2, content)
RegSetMask(reg, mask, content) ==
  ReadCommand(reg) \o WriteBack(reg, mask, content)
    \o ReadCommand(reg) \o Expect(mask, content)
SetGains(mask, gains) ==
  ReadCommand("gain_select") \o WriteBack("gain_select", mask, gains)
    \o ReadCommand("gain_select") \o Expect(mask, gains)

TxGains == {"tx_pga_lo", "tx_pga_hi"}
RxGains == {"rx_pga1_lo", "rx_pga1_hi", "rx_pga2_lo", "rx_pga2_hi"}

Configure(settings) ==
  RegSetMask("control1", {"ca_cbcd"}, IF settings.cenelec_a THEN {} ELSE {"ca_cbcd"})
    \o ReadCommand("control2") \o WriteBack("control2", {"int"}, {"enable_overloads"})
    \o ReadCommand("control2") \o Expect({"enable_overloads"}, {"enable_overloads"})
    \o SetGains(TxGains \cup RxGains, settings.gains)
    \o Remember("gains", settings.gains)

ClearOverloads == ReadCommand("reset") \o WriteBack("reset", Overloads, {})
GetOverloads == ReadCommand("reset")

ActivateBlocks(blocks) ==
  SetRegValue("enable1", blocks \cap Enable1)
    \o SetRegValue("enable2", blocks \cap Enable2)
    \o Remember("blocks", blocks) \o ClearOverloads
DisableAll == ActivateBlocks({})

Calibration(mode) ==
  CASE mode = "none" -> {}
    [] mode = "dac_txpga_txfilter" -> {"calib_tx"}
    [] mode = "dac_txpga_rxpga1_rxfilter_rxpga2" -> {"calib_rx"}
    [] mode = "dac_txpga" -> {"calib_tx_pga"}
SetCalibrationMode(mode) ==
  RegSetMask("control1", CalibMask, Calibration(mode))
    \o Remember("calibration", mode) \o ClearOverloads

SetStandby(standby) ==
  PinOutSet("shutdown", standby) \o Remember("standby", standby)

\* plc_afe_set_flags_callback: the callbacks first, then the initial values, each of
\* them read from a file and then stored.
SetFlagsCallback(pins) ==
  [k \in 1..Len(pins) |-> [op |-> "hook", flag |-> pins[k]]]
    \o [k \in 1..2 * Len(pins) |->
          [op |-> IF k % 2 = 1 THEN "get" ELSE "put", flag |-> pins[(k + 1) \div 2]]]

\* plc_afe_create up to the test of the revision, and plc_afe_release.
AfeProbe ==
  PinOutSet("shutdown", 0) \o WriteCommand("reset", {"soft_reset"}) \o ReadCommand("revision")
    \o WriteCommand("reset", {"soft_reset"}) \o ReadCommand("revision")
AfeRelease(standby, pins) ==
  (IF standby = 1 THEN SetStandby(0) ELSE <<>>) \o DisableAll \o SetStandby(1)
    \o [k \in 1..Len(pins) |-> [op |-> "unhook", flag |-> pins[k]]]
=============================================================================
