---------------------------- MODULE CapeDevices ----------------------------
(***************************************************************************)
(* The cape as plc-cape-lab uses it: plc_cape_create, the initialisation   *)
(* and the communication of controller.c, the release; over libplc-gpio,   *)
(* leds.c, spi.c and afe.c (whose steps CapeCalls lists), the schedulers   *)
(* tx_sched_afe_sync.c and tx_sched_alsa.c, and the character device of    *)
(* SpiDev.  The threads are the user's one, that of the communication      *)
(* timer, the supervisor's (an LED), those that send and receive and one   *)
(* for each pin with a callback; and the device may be unbound.            *)
(***************************************************************************)
EXTENDS SpiDev, CapeCalls

CONSTANTS
  Versions,     \* plc_cape_version
  Boards,       \* what answers the SPI: "afe031", "other revision", "absent", "emulated"
  Settings,     \* records [cenelec_a, gains, calibration, blocks, minBps, bySample,
                \* periodic]: the last one is communication_interval_ms > 0
  FlagPins,     \* the input pins with a callback, in the order of their installation
  Frames,       \* the samples of a buffer to send
  Periods,      \* the samples of a period an ALSA device may settle on
  MaxSamples,   \* bound: samples of a run
  MaxInits,     \* bound: initialisations of the controller
  MaxEvents     \* bound: edges, toggles of the LED and menu items

ASSUME CapeAssumption ==
  "cape" \in Openers /\ Frames \in Nat \ {0} /\ Periods \subseteq Nat \ {0}

VARIABLES
  stage,        \* of the user's thread: which function it is in
  todo,         \* of each thread: the steps to take
  acc,          \* of each thread: the value last read from a register, bank or pin
  board, version, settings,
  bank,         \* the pins that are high, of each bank of GPIO
  wanted,       \* history: the last level given to each pin
  mutex,        \* mutex_activity: who has it, "free", or "none" when there is none
  reg, asked,   \* the registers of the AFE, and the one it will answer
  afe,          \* plc_afe: blocks, calibration, gains, standby
  spi,          \* struct spi: dacMode, rate
  driver,       \* what the SPI driver was given: bits, speed
  tx,           \* the transmission: thread, end, filled (samples so far), pcm, len; and rx, on
  line,         \* the samples received by the DAC or the sound card
  comm,         \* a communication is in progress
  supervisor,   \* the supervisor's timer exists
  pins,         \* of each input pin: level, callback (its threads so far), end, wake, freed
  thread,       \* of each callback's thread: at, pending, value
  flags,        \* plc_afe's copy of the pins
  happened,     \* history: the rare events of the run
  events,       \* how many events there have been
  dead          \* "no", or what ended the program

gpio == <<bank, wanted, mutex>>
chip == <<reg, asked>>
flagVars == <<pins, thread, flags>>
control == <<stage, settings, comm, supervisor>>
vars == <<spidevVars, stage, todo, acc, board, version, settings, gpio, chip, afe, spi, driver,
          tx, line, comm, supervisor, flagVars, happened, events, dead>>

Threads == {"main", "comm", "blink", "tx", "rx"}
Flags == {FlagPins[k] : k \in DOMAIN FlagPins}
Generations == 1..MaxInits

\* The three flags have a pin each.
ASSUME PinsAssumption ==
  /\ FlagPins \in Seq(Flags) /\ MaxInits \in Nat
  /\ \A j, k \in DOMAIN FlagPins : FlagPins[j] = FlagPins[k] => j = k

\* afe.h: the gains of the two chains, the modes of calibration and the blocks.
ASSUME SettingsAssumption ==
  \A s \in Settings :
    /\ s.periodic \in BOOLEAN /\ s.blocks \subseteq Enable1 \cup Enable2
    /\ s.gains \subseteq TxGains \cup RxGains
    /\ s.calibration \in {"none", "dac_txpga_txfilter", "dac_txpga_rxpga1_rxfilter_rxpga2",
                          "dac_txpga"}

Emulated == board = "emulated"
Alsa == Emulated
Idle(t) == todo[t] = <<>>
Alive == dead = "no" /\ ~ fault
Unlinking(i) == \E d \in SpiDevices : removing[d] = i

\* The bank and the mask of each output pin.
Mask(pin) == IF version < 2 /\ pin \in {"tx", "rx"} THEN "usr3" ELSE pin
Bank(pin) ==
  IF pin \in {"shutdown", "dac"} \/ (version >= 2 /\ pin \in {"app", "tx"}) THEN 0 ELSE 1
Pins == {"shutdown", "dac", "app", "tx", "rx"}

\* spi_sps_to_bps: the lowest of 12 MHz, 6 MHz, 3 MHz, ... that is not below minBps.
SpsToBps(minBps) ==
  IF minBps > 12000000 THEN 12000000
  ELSE CHOOSE b \in {12000000 \div 2^k : k \in 0..10} :
         b >= minBps /\ (b \div 2) < minBps

NoRegs ==
  [r \in {"enable1", "enable2", "gain_select", "control1", "control2", "reset", "revision"} |->
     IF r = "revision" /\ board \in {"afe031", "emulated"} THEN {"expected"} ELSE {}]

Init ==
  /\ SpidevInit
  /\ stage = "start" /\ todo = [t \in Threads |-> <<>>] /\ acc = [t \in Threads |-> {}]
  /\ board \in Boards /\ version \in (IF board = "emulated" THEN {1} ELSE Versions)
  /\ settings \in Settings
  /\ bank = [b \in 0..1 |-> {}] /\ wanted = [p \in Pins |-> 0] /\ mutex = "none"
  /\ reg = NoRegs /\ asked = "none"
  /\ afe = [blocks |-> {}, calibration |-> "none", gains |-> {}, standby |-> 0]
  /\ spi = [dacMode |-> 0, rate |-> 0]
  /\ driver = [bits |-> 0, speed |-> 0]
  /\ tx = [thread |-> "none", end |-> FALSE, filled |-> 0, pcm |-> FALSE, len |-> Frames,
            rx |-> FALSE]
  /\ line = <<>> /\ comm = FALSE /\ supervisor = FALSE
  /\ pins = [f \in Flags |-> [level |-> 0, callback |-> 0, end |-> FALSE, wake |-> FALSE,
                              freed |-> FALSE]]
  /\ thread = [k \in Flags \X Generations |-> [at |-> "none", pending |-> FALSE, value |-> 0]]
  /\ flags = [f \in Flags |-> 0]
  /\ happened = {} /\ events = 0 /\ dead = "no"

(***************************************************************************)
(* One step of a thread.  Each of these is the effect of a kind of step on *)
(* what it changes; Do gives the rest.                                     *)
(***************************************************************************)
Next1(t) == Head(todo[t])
Is(t, op) == Alive /\ todo[t] # <<>> /\ Head(todo[t]).op = op
Advance(t) == todo' = [todo EXCEPT ![t] = Tail(@)]
Take(t, value) == acc' = [acc EXCEPT ![t] = value]
Die(reason) == dead' = reason

UserFrame == UNCHANGED <<stage, board, version, settings, comm, supervisor, events>>

LoadPin(t) ==
  /\ Is(t, "load")
  /\ Take(t, bank[Bank(Next1(t).pin)]) /\ Advance(t)
  /\ UserFrame
  /\ UNCHANGED <<spidevVars, gpio, chip, afe, spi, driver, tx, line, flagVars, happened, dead>>

StorePin(t) ==
  /\ Is(t, "store") \/ Is(t, "flip")
  /\ LET m == Mask(Next1(t).pin)
         high == IF Next1(t).op = "flip" THEN m \notin acc[t] ELSE Next1(t).on = 1 IN
       IF Emulated THEN UNCHANGED <<bank, wanted>>
       ELSE /\ bank' = [bank EXCEPT ![Bank(Next1(t).pin)] =
                          IF high THEN acc[t] \cup {m} ELSE acc[t] \ {m}]
            /\ wanted' = [p \in Pins |-> IF Mask(p) = m THEN On(high) ELSE wanted[p]]
  /\ Advance(t)
  /\ UserFrame
  /\ UNCHANGED <<spidevVars, acc, mutex, chip, afe, spi, driver, tx, line, flagVars, happened, dead>>

\* mutex_activity; plc_leds_release destroys it whoever uses it.
Lock(t) ==
  /\ Is(t, "lock") /\ mutex \in {"free", "none"}
  /\ IF mutex = "none" THEN Die("leds") /\ UNCHANGED <<mutex, todo>>
     ELSE mutex' = t /\ Advance(t) /\ UNCHANGED dead
  /\ UserFrame
  /\ UNCHANGED <<spidevVars, acc, bank, wanted, chip, afe, spi, driver, tx, line, flagVars, happened>>

UnlockLeds(t) ==
  /\ Is(t, "unlock") \/ Is(t, "ledsReady") \/ Is(t, "ledsGone")
  /\ IF Next1(t).op = "ledsGone"
     THEN mutex' = "none" /\ dead' = IF mutex = "free" THEN dead ELSE "leds"
     ELSE mutex' = "free" /\ dead' = IF Next1(t).op = "unlock" /\ mutex = "none" THEN "leds" ELSE dead
  /\ Advance(t)
  /\ UserFrame
  /\ UNCHANGED <<spidevVars, acc, bank, wanted, chip, afe, spi, driver, tx, line, flagVars, happened>>

(***************************************************************************)
(* spi_write_command and spi_read_command: never in DAC mode.  When the    *)
(* driver is gone a write does nothing and a read gives zero; the AFE      *)
(* answers the register it was last asked for, and spi_read_command        *)
(* asserts that it is the one it wants.                                    *)
(***************************************************************************)
Reaches == Emulated \/ Bound(filp["cape"])
RegisterStep(t) == Is(t, "write") \/ Is(t, "writeBack") \/ Is(t, "ask") \/ Is(t, "answer")

InDacMode(t) ==
  /\ RegisterStep(t) /\ spi.dacMode = 1
  /\ Die("dac")
  /\ UserFrame
  /\ UNCHANGED <<spidevVars, todo, acc, gpio, chip, afe, spi, driver, tx, line, flagVars, happened>>

Written(t) ==
  IF Next1(t).op = "write" THEN Next1(t).value
  ELSE (acc[t] \ Next1(t).mask) \cup Next1(t).content

WriteRegister(t) ==
  /\ Is(t, "write") \/ Is(t, "writeBack")
  /\ spi.dacMode = 0
  /\ IF ~ Reaches \/ Next1(t).reg = "revision" THEN UNCHANGED chip
     ELSE /\ asked' = "none"
          /\ reg' = IF ~ Emulated /\ "soft_reset" \in Written(t) THEN NoRegs
                    ELSE [reg EXCEPT ![Next1(t).reg] = Written(t)]
  /\ Advance(t)
  /\ UserFrame
  /\ UNCHANGED <<spidevVars, acc, gpio, afe, spi, driver, tx, line, flagVars, happened, dead>>

AskRegister(t) ==
  /\ Is(t, "ask") /\ spi.dacMode = 0
  /\ asked' = IF Reaches THEN Next1(t).reg ELSE asked
  /\ Advance(t)
  /\ UserFrame
  /\ UNCHANGED <<spidevVars, acc, gpio, reg, afe, spi, driver, tx, line, flagVars, happened, dead>>

AnswerRegister(t) ==
  /\ Is(t, "answer") /\ spi.dacMode = 0
  /\ IF Emulated \/ (Reaches /\ asked = Next1(t).reg /\ board # "absent")
     THEN Take(t, reg[Next1(t).reg]) /\ UNCHANGED dead
     ELSE IF ~ Reaches THEN Take(t, {}) /\ UNCHANGED dead
     ELSE Die("echo") /\ UNCHANGED acc
  /\ Advance(t)
  /\ UserFrame
  /\ UNCHANGED <<spidevVars, gpio, chip, afe, spi, driver, tx, line, flagVars, happened>>

ExpectRegister(t) ==
  /\ Is(t, "expect")
  /\ dead' = IF acc[t] \cap Next1(t).mask = Next1(t).content THEN dead ELSE "readback"
  /\ Advance(t)
  /\ UserFrame
  /\ UNCHANGED <<spidevVars, acc, gpio, chip, afe, spi, driver, tx, line, flagVars, happened>>

RememberField(t) ==
  /\ Is(t, "remember")
  /\ afe' = [afe EXCEPT ![Next1(t).field] = Next1(t).value]
  /\ Advance(t)
  /\ UserFrame
  /\ UNCHANGED <<spidevVars, acc, gpio, chip, spi, driver, tx, line, flagVars, happened, dead>>

(***************************************************************************)
(* spi_set_dac_mode: bits per word and speed are written to the driver and *)
(* asserted to read back; an error of the system call is asserted away.    *)
(***************************************************************************)
DacMode(t) ==
  /\ Is(t, "dacMode")
  /\ spi' = [spi EXCEPT !.dacMode = Next1(t).on]
  /\ Advance(t)
  /\ UserFrame
  /\ UNCHANGED <<spidevVars, acc, gpio, chip, afe, driver, tx, line, flagVars, happened, dead>>

SetDriver(t) ==
  /\ Is(t, "bits") \/ Is(t, "speed")
  /\ IF Emulated THEN UNCHANGED <<driver, dead>>
     ELSE IF ~ Reaches THEN Die("driver") /\ UNCHANGED driver
     ELSE /\ driver' = IF Next1(t).op = "bits"
                       THEN [driver EXCEPT !.bits = IF Next1(t).on = 1 THEN 10 ELSE 16]
                       ELSE [driver EXCEPT !.speed = IF Next1(t).on = 1 THEN spi.rate ELSE 20000]
          /\ UNCHANGED dead
  /\ Advance(t)
  /\ UserFrame
  /\ UNCHANGED <<spidevVars, acc, gpio, chip, afe, spi, tx, line, flagVars, happened>>

\* spi_transfer_dac_buffer and _sample: a message that fails is only reported.
TransferDac(t) ==
  /\ Is(t, "transfer")
  /\ LET samples == Next1(t).samples IN
       IF spi.dacMode = 0 THEN Die("sample") /\ UNCHANGED line
       ELSE /\ line' = IF Message(filp["cape"], 2 * Len(samples)) < 0 THEN line ELSE line \o samples
            /\ UNCHANGED dead
  /\ Advance(t)
  /\ UserFrame
  /\ UNCHANGED <<spidevVars, acc, gpio, chip, afe, spi, driver, tx, flagVars, happened>>

(***************************************************************************)
(* plc_gpio_sysfs_pin: plc_gpio_sysfs_pin_callback starts a thread, and a  *)
(* second call another one; the release ends and joins the last.  An edge  *)
(* is an event for each file open on the pin.                              *)
(***************************************************************************)
Hook(t) ==
  /\ Is(t, "hook")
  /\ LET f == Next1(t).flag
         g == pins[f].callback + 1 IN
       IF Emulated THEN UNCHANGED <<pins, thread, happened>>
       ELSE /\ pins' = [pins EXCEPT ![f].callback = g, ![f].end = FALSE, ![f].wake = FALSE]
            /\ thread' = [thread EXCEPT ![<<f, g>>].at = "begin"]
            /\ happened' = happened \cup (IF g > 1 THEN {"reinitialised"} ELSE {})
  /\ Advance(t)
  /\ UserFrame
  /\ UNCHANGED <<spidevVars, acc, gpio, chip, afe, spi, driver, tx, line, flags, dead>>

GetPin(t) ==
  /\ Is(t, "get")
  /\ Take(t, IF Emulated THEN 0 ELSE pins[Next1(t).flag].level) /\ Advance(t)
  /\ UserFrame
  /\ UNCHANGED <<spidevVars, gpio, chip, afe, spi, driver, tx, line, flagVars, happened, dead>>

PutFlag(t) ==
  /\ Is(t, "put")
  /\ flags' = [flags EXCEPT ![Next1(t).flag] = acc[t]]
  /\ Take(t, {}) /\ Advance(t)
  /\ UserFrame
  /\ UNCHANGED <<spidevVars, gpio, chip, afe, spi, driver, tx, line, pins, thread, happened, dead>>

Unhook(t) ==
  /\ Is(t, "unhook")
  /\ LET f == Next1(t).flag
         running == pins[f].callback # 0 IN
       \/ /\ running /\ ~ pins[f].end
          /\ pins' = [pins EXCEPT ![f].end = TRUE, ![f].wake = TRUE]
          /\ UNCHANGED todo
       \/ /\ running => pins[f].end /\ thread[<<f, pins[f].callback>>].at = "gone"
          /\ pins' = [pins EXCEPT ![f].freed = TRUE]
          /\ Advance(t)
  /\ UserFrame
  /\ UNCHANGED <<spidevVars, acc, gpio, chip, afe, spi, driver, tx, line, thread, flags, happened,
                 dead>>

CallbackFrame ==
  UNCHANGED <<spidevVars, stage, todo, acc, board, version, settings, gpio, chip, afe, spi,
              driver, tx, line, comm, supervisor, pins, happened, events>>

\* thread_gpio_pin: "Clear previous events", then the loop.
CallbackBegins(f, g) ==
  /\ Alive /\ thread[<<f, g>>].at = "begin"
  /\ thread' = [thread EXCEPT ![<<f, g>>] = [@ EXCEPT !.at = "test", !.pending = FALSE]]
  /\ CallbackFrame /\ UNCHANGED <<flags, dead>>

\* The thread of an earlier callback is not joined: it finds its pin freed.
CallbackOrphaned(f, g) ==
  /\ Alive /\ pins[f].freed
  /\ \/ thread[<<f, g>>].at \in {"test", "get", "put"}
     \/ thread[<<f, g>>].at = "poll" /\ thread[<<f, g>>].pending
  /\ Die("pin")
  /\ CallbackFrame /\ UNCHANGED <<thread, flags>>

CallbackTests(f, g) ==
  /\ Alive /\ ~ pins[f].freed /\ thread[<<f, g>>].at = "test"
  /\ thread' = [thread EXCEPT ![<<f, g>>].at = IF pins[f].end THEN "gone" ELSE "poll"]
  /\ CallbackFrame /\ UNCHANGED <<flags, dead>>

\* poll returns; the read of the file takes the event.
CallbackWakes(f, g) ==
  /\ Alive /\ ~ pins[f].freed /\ thread[<<f, g>>].at = "poll"
  /\ thread[<<f, g>>].pending \/ (pins[f].wake /\ g = pins[f].callback)
  /\ thread' = [thread EXCEPT ![<<f, g>>] =
       [@ EXCEPT !.pending = FALSE, !.at = IF thread[<<f, g>>].pending THEN "get" ELSE "test"]]
  /\ CallbackFrame /\ UNCHANGED <<flags, dead>>

CallbackReads(f, g) ==
  /\ Alive /\ ~ pins[f].freed /\ thread[<<f, g>>].at = "get"
  /\ thread' = [thread EXCEPT ![<<f, g>>] = [@ EXCEPT !.at = "put", !.value = pins[f].level]]
  /\ CallbackFrame /\ UNCHANGED <<flags, dead>>

\* Mutant: the event is taken after the callback.
CallbackStoresThenTakes(f, g) ==
  /\ Alive /\ ~ pins[f].freed /\ thread[<<f, g>>].at = "put"
  /\ flags' = [flags EXCEPT ![f] = thread[<<f, g>>].value]
  /\ thread' = [thread EXCEPT ![<<f, g>>] = [@ EXCEPT !.at = "test", !.pending = FALSE]]
  /\ CallbackFrame /\ UNCHANGED dead

\* afe_set_tx_flag_callback, _rx_ and _ok_.
CallbackStores(f, g) ==
  /\ Alive /\ ~ pins[f].freed /\ thread[<<f, g>>].at = "put"
  /\ flags' = [flags EXCEPT ![f] = thread[<<f, g>>].value]
  /\ thread' = [thread EXCEPT ![<<f, g>>].at = "test"]
  /\ CallbackFrame /\ UNCHANGED dead

\* The level of a pin changes; installing the callbacks, a change may be missed.
Edge(f) ==
  /\ Alive /\ events < MaxEvents /\ ~ Emulated
  /\ pins' = [pins EXCEPT ![f].level = 1 - @]
  /\ thread' = [k \in DOMAIN thread |->
       IF k[1] = f /\ thread[k].at \in {"poll", "test", "get", "put"}
       THEN [thread[k] EXCEPT !.pending = TRUE] ELSE thread[k]]
  /\ happened' = happened \cup
       (IF \/ \E k \in DOMAIN todo["main"] : todo["main"][k].op \in {"hook", "get", "put"}
           \/ \E k \in DOMAIN thread : thread[k].at = "begin"
        THEN {"edge while hooking"} ELSE {})
  /\ events' = events + 1
  /\ UNCHANGED <<spidevVars, stage, todo, acc, board, version, settings, gpio, chip, afe, spi,
                 driver, tx, line, comm, supervisor, flags, dead>>

(***************************************************************************)
(* The thread that sends, with tx_sched_afe_sync or tx_sched_alsa.         *)
(***************************************************************************)
\* A 10-bit sample as the sound card wants it.
Converted(x) == (x * 64 - 32768) % 65536
FillNext == [k \in 1..tx.len |-> tx.filled + k]

\* tx_sched_sync_flush_and_wait_buffer and tx_sched_alsa_flush_and_wait_buffer.
FlushBuffer(samples) ==
  IF Alsa THEN <<[op |-> "writei", samples |-> [k \in DOMAIN samples |-> Converted(samples[k])]]>>
  ELSE IF settings.bySample
  THEN [k \in DOMAIN samples |-> TransferDacSample(samples[k])[1]]
  ELSE TransferDacBuffer(samples)

TxCycle ==
  /\ Alive /\ tx.thread = "loop" /\ Idle("tx")
  /\ IF tx.end THEN tx' = [tx EXCEPT !.thread = "gone"] /\ UNCHANGED todo
     ELSE /\ tx.filled + tx.len <= MaxSamples
          /\ todo' = [todo EXCEPT !["tx"] = FlushBuffer(FillNext)]
          /\ tx' = [tx EXCEPT !.filled = @ + tx.len]
  /\ UserFrame
  /\ UNCHANGED <<spidevVars, acc, gpio, chip, afe, spi, driver, line, flagVars, happened, dead>>

\* Mutant: the buffer is not advanced by the frames that were taken.
WriteBufferAgain(t) ==
  /\ Is(t, "writei")
  /\ LET samples == Next1(t).samples IN
       \E n \in 1..Len(samples) :
         /\ line' = line \o SubSeq(samples, 1, n)
         /\ todo' = [todo EXCEPT ![t] =
              (IF n = Len(samples) THEN <<>>
               ELSE <<[op |-> "writei", samples |-> SubSeq(samples, 1, Len(samples) - n)]>>)
              \o Tail(@)]
  /\ UNCHANGED dead
  /\ UserFrame
  /\ UNCHANGED <<spidevVars, acc, gpio, chip, afe, spi, driver, tx, flagVars, happened>>

\* write_buffer: snd_pcm_writei takes some of the frames; after an underrun it gives an
\* error, which is asserted away.
WriteBuffer(t) ==
  /\ Is(t, "writei")
  /\ LET samples == Next1(t).samples IN
       \/ \E n \in 1..Len(samples) :
            /\ line' = line \o SubSeq(samples, 1, n)
            /\ todo' = [todo EXCEPT ![t] =
                 (IF n = Len(samples) THEN <<>>
                  ELSE <<[op |-> "writei", samples |-> SubSeq(samples, n + 1, Len(samples))]>>)
                 \o Tail(@)]
            /\ UNCHANGED dead
       \/ /\ line # <<>> /\ Die("underrun")
          /\ UNCHANGED <<line, todo>>
  /\ UserFrame
  /\ UNCHANGED <<spidevVars, acc, gpio, chip, afe, spi, driver, tx, flagVars, happened>>

\* The LED of the reception follows the data of each buffer.
RxCycle ==
  /\ Alive /\ tx.rx /\ Idle("rx") /\ events < MaxEvents
  /\ \E detected \in {0, 1} : todo' = [todo EXCEPT !["rx"] = SetRxActivity(detected)]
  /\ events' = events + 1
  /\ UNCHANGED <<spidevVars, stage, acc, board, version, settings, gpio, chip, afe, spi, driver,
                 tx, line, comm, supervisor, flagVars, happened, dead>>

(***************************************************************************)
(* controller_start_communication, _stop_communication and the functions   *)
(* around them, as sequences of steps.                                     *)
(***************************************************************************)
\* Mutant: the blocks are disabled before the DAC mode is left.
StopCommunicationInDacMode ==
  Step("joinRx") \o SetRxActivity(0) \o Step("requestStop") \o Step("joinTx")
    \o SetTxActivity(0) \o DisableAll \o SetDacMode(0) \o Step("commOff")

StopCommunication ==
  Step("joinRx") \o SetRxActivity(0) \o Step("requestStop") \o Step("joinTx")
    \o SetTxActivity(0) \o SetDacMode(0) \o DisableAll \o Step("commOff")

\* controller_deactivate, with a communication in progress and without one.
Deactivate(inProgress) ==
  (IF inProgress THEN StopCommunication ELSE <<>>)
    \o Step("supervisorOff") \o SetAppActivity(version, 1)

StartCommunication ==
  ActivateBlocks(settings.blocks) \o SetDacMode(1)
    \o Step("startTx") \o SetTxActivity(1) \o Step("startRx") \o Step("commOn")

\* controller_activate_async: a periodic communication is left to the timer.
Activate == Step("supervisorOn") \o (IF settings.periodic THEN <<>> ELSE StartCommunication)

\* "Error at stage 1" and "Error at stage 2" of controller_start_communication, and the
\* deactivation of whoever called it.
AbandonTx == SetDacMode(0) \o DisableAll \o Deactivate(FALSE)
AbandonRx == Step("requestStop") \o Step("joinTx") \o SetTxActivity(0) \o AbandonTx

InitializeCape(s) ==
  SetStandby(0) \o Configure(s) \o SetFlagsCallback(FlagPins)
    \o SetCalibrationMode(s.calibration) \o Step("configure")
TerminateCape == DisableAll \o SetStandby(1)
ReleaseCape == AfeRelease(1, FlagPins) \o SpiRelease \o LedsRelease(version)

TxFrame == UNCHANGED <<spidevVars, acc, gpio, chip, afe, driver, line, flagVars, happened>>

\* plc_tx_create: spi_configure_sps; the driver hears of it with the next DAC mode.
ConfigureSpi(t) ==
  /\ Is(t, "configure")
  /\ spi' = [spi EXCEPT !.rate = IF Alsa THEN @ ELSE SpsToBps(settings.minBps)]
  /\ tx' = [tx EXCEPT !.len = Frames]
  /\ Advance(t) /\ UserFrame /\ TxFrame /\ UNCHANGED dead

\* plc_tx_start_transmission: tx_sched_alsa_start opens the device, which settles on a
\* period, or fails; tx_sched_sync_start does nothing.
StartTx(t) ==
  /\ Is(t, "startTx")
  /\ \/ /\ tx' = [tx EXCEPT !.thread = "loop", !.end = FALSE, !.pcm = Alsa]
        /\ ~ Alsa
        /\ Advance(t) /\ UNCHANGED dead
     \/ \E len \in Periods :
          /\ Alsa /\ ~ tx.pcm
          /\ tx' = [tx EXCEPT !.thread = "loop", !.end = FALSE, !.pcm = TRUE, !.len = len]
          /\ Advance(t) /\ UNCHANGED dead
     \/ /\ Alsa /\ ~ tx.pcm
        /\ todo' = [todo EXCEPT ![t] = AbandonTx]
        /\ UNCHANGED <<tx, dead>>
     \/ /\ tx.pcm /\ Die("pcm") /\ UNCHANGED <<tx, todo>>
  /\ UserFrame /\ TxFrame /\ UNCHANGED spi

StartRx(t) ==
  /\ Is(t, "startRx")
  /\ \/ tx' = [tx EXCEPT !.rx = TRUE] /\ Advance(t)
     \/ todo' = [todo EXCEPT ![t] = AbandonRx] /\ UNCHANGED tx
  /\ UserFrame /\ TxFrame /\ UNCHANGED <<spi, dead>>

\* plc_tx_stop_transmission and rx_stop_capture: a request, then the join.
StopThread(t) ==
  /\ \/ Is(t, "requestStop") /\ tx' = [tx EXCEPT !.end = TRUE]
     \/ /\ Is(t, "joinTx") /\ tx.thread = "gone"
        /\ tx' = [tx EXCEPT !.thread = "none", !.pcm = FALSE]
     \/ Is(t, "joinRx") /\ Idle("rx") /\ tx' = [tx EXCEPT !.rx = FALSE]
  /\ Advance(t) /\ UserFrame /\ TxFrame /\ UNCHANGED <<spi, dead>>

Communication(t) ==
  /\ Is(t, "commOn") \/ Is(t, "commOff")
  /\ comm' = (Next1(t).op = "commOn")
  /\ Advance(t) /\ TxFrame
  /\ UNCHANGED <<stage, board, version, settings, supervisor, events, spi, tx, dead>>

\* timer_delete does not wait for a notification that has begun.
Supervisor(t) ==
  /\ Is(t, "supervisorOn") \/ Is(t, "supervisorOff")
  /\ supervisor' = (Next1(t).op = "supervisorOn")
  /\ happened' = happened \cup
       (IF Next1(t).op = "supervisorOff" /\ ~ Idle("blink") THEN {"late toggle"} ELSE {})
  /\ Advance(t)
  /\ UNCHANGED <<stage, board, version, settings, comm, events, spi, tx, dead, spidevVars, acc,
                 gpio, chip, afe, driver, line, flagVars>>

CloseSpi(t) ==
  /\ Is(t, "closeSpi")
  /\ IF filp["cape"] = 0 THEN UNCHANGED <<spidevVars, happened>>
     ELSE /\ CloseNode("cape")
          /\ happened' = happened \cup
               (IF Unlinking(filp["cape"]) THEN {"closed while unbinding"} ELSE {})
  /\ Advance(t) /\ UserFrame
  /\ UNCHANGED <<acc, gpio, chip, afe, spi, driver, tx, line, flagVars, dead>>

StepOf(t) ==
  \/ LoadPin(t) \/ StorePin(t) \/ Lock(t) \/ UnlockLeds(t)
  \/ InDacMode(t) \/ WriteRegister(t) \/ AskRegister(t) \/ AnswerRegister(t)
  \/ ExpectRegister(t) \/ RememberField(t) \/ DacMode(t) \/ SetDriver(t) \/ TransferDac(t)
  \/ Hook(t) \/ GetPin(t) \/ PutFlag(t) \/ Unhook(t)
  \/ WriteBuffer(t) \/ ConfigureSpi(t) \/ StartTx(t) \/ StartRx(t) \/ StopThread(t)
  \/ Communication(t) \/ Supervisor(t) \/ CloseSpi(t)

(***************************************************************************)
(* The user's thread: plc_cape_create, whose failures release what there   *)
(* is, then the menu.                                                      *)
(***************************************************************************)
Call(calls, next) ==
  /\ todo' = [todo EXCEPT !["main"] = calls]
  /\ stage' = next
At(s) == Alive /\ stage = s /\ Idle("main")
MainFrame ==
  UNCHANGED <<acc, board, version, gpio, chip, afe, spi, driver, tx, line, comm, supervisor,
              flagVars, dead>>

Create ==
  /\ At("start")
  /\ Call(LedsCreate(version), "leds")
  /\ MainFrame /\ UNCHANGED <<spidevVars, settings, happened, events>>

\* "Error at GPIO initialization": /dev/mem cannot be opened.
CreateFails ==
  /\ At("start") /\ ~ Emulated
  /\ Call(<<>>, "failed")
  /\ MainFrame /\ UNCHANGED <<spidevVars, settings, happened, events>>

SpiCreate ==
  /\ At("leds")
  /\ IF Emulated THEN Call(<<>>, "spi") /\ UNCHANGED spidevVars
     ELSE /\ \E i \in Listed : Bound(i) /\ OpenNode("cape", i)
          /\ Call(SetDacMode(0), "spi")
  /\ MainFrame /\ UNCHANGED <<settings, happened, events>>

\* The driver's debugfs file, the node or its mode.
SpiCreateFails ==
  /\ At("leds") /\ ~ Emulated
  /\ Call(LedsRelease(version), "failed")
  /\ MainFrame /\ UNCHANGED <<spidevVars, settings, happened, events>>

AfeCreate ==
  /\ At("spi")
  /\ Call(AfeProbe, "probe")
  /\ MainFrame /\ UNCHANGED <<spidevVars, settings, happened, events>>

Defaults == [cenelec_a |-> FALSE, gains |-> {}]
AfeCreated ==
  /\ At("probe")
  /\ IF Emulated THEN Call(<<>>, "created")
     ELSE IF acc["main"] = {"expected"} THEN Call(Configure(Defaults), "created")
     ELSE Call(PinOutSet("shutdown", 1) \o LedsRelease(version) \o SpiRelease, "failed")
  /\ MainFrame /\ UNCHANGED <<spidevVars, settings, happened, events>>

\* controller_initialize, the first time and after controller_terminate.
Initialize ==
  /\ At("created") /\ \A f \in Flags : pins[f].callback < MaxInits
  /\ \E s \in Settings : settings' = s /\ Call(InitializeCape(s), "idle")
  /\ MainFrame /\ UNCHANGED <<spidevVars, happened, events>>

Menu == At("idle") /\ events < MaxEvents
MenuActivate ==
  /\ Menu /\ ~ supervisor /\ Idle("comm")
  /\ Call(Activate, "idle") /\ events' = events + 1
  /\ MainFrame /\ UNCHANGED <<spidevVars, settings, happened>>

MenuDeactivate ==
  /\ At("idle") /\ supervisor /\ Idle("comm")
  /\ Call(Deactivate(comm), "stopping")
  /\ MainFrame /\ UNCHANGED <<spidevVars, settings, happened, events>>

Deactivated ==
  /\ At("stopping")
  /\ Call(<<>>, "idle")
  /\ MainFrame /\ UNCHANGED <<spidevVars, settings, happened, events>>

\* controller_clear_overloads and controller_log_overloads: at any time.
MenuOverloads ==
  /\ Menu
  /\ Call(ClearOverloads, "idle") \/ Call(GetOverloads, "idle")
  /\ happened' = happened \cup
       (IF comm \/ ~ Idle("comm") THEN {"overloads while communicating"} ELSE {})
  /\ events' = events + 1
  /\ MainFrame /\ UNCHANGED <<spidevVars, settings>>

Quiescent == ~ comm /\ ~ supervisor /\ Idle("comm")
MenuSettings ==
  /\ Menu /\ Quiescent
  /\ Call(TerminateCape, "created") /\ events' = events + 1
  /\ MainFrame /\ UNCHANGED <<spidevVars, settings, happened>>

MenuExit ==
  /\ At("idle") /\ Quiescent
  /\ Call(TerminateCape \o ReleaseCape, "released")
  /\ MainFrame /\ UNCHANGED <<spidevVars, settings, happened, events>>

(***************************************************************************)
(* The timers: the start and the end of the communication, and the LED at  *)
(* 1 Hz.  Without an interval the timer only ends the communication and    *)
(* deactivates; with one it is armed again for the next.                   *)
(***************************************************************************)
TimerStarts ==
  /\ Alive /\ settings.periodic /\ supervisor /\ ~ comm /\ Idle("comm") /\ stage = "idle"
  /\ todo' = [todo EXCEPT !["comm"] = StartCommunication]
  /\ happened' = happened \cup
       (IF ~ Idle("main") THEN {"overloads while communicating"} ELSE {})
  /\ UserFrame
  /\ UNCHANGED <<spidevVars, acc, gpio, chip, afe, spi, driver, tx, line, flagVars, dead>>

TimerStops ==
  /\ Alive /\ comm /\ Idle("comm") /\ stage = "idle"
  /\ todo' = [todo EXCEPT !["comm"] =
                IF settings.periodic THEN StopCommunication ELSE Deactivate(TRUE)]
  /\ UserFrame
  /\ UNCHANGED <<spidevVars, acc, gpio, chip, afe, spi, driver, tx, line, flagVars, happened, dead>>

TimerToggles ==
  /\ Alive /\ supervisor /\ Idle("blink") /\ events < MaxEvents
  /\ todo' = [todo EXCEPT !["blink"] = ToggleAppActivity]
  /\ events' = events + 1
  /\ UNCHANGED <<spidevVars, stage, acc, board, version, settings, gpio, chip, afe, spi, driver,
                 tx, line, comm, supervisor, flagVars, happened, dead>>

(***************************************************************************)
(* The devices come and go, and another program uses the node.             *)
(***************************************************************************)
UserUnchanged ==
  UNCHANGED <<stage, todo, acc, board, version, settings, gpio, chip, afe, spi, driver, tx, line,
              comm, supervisor, flagVars, dead>>
Others == Openers \ {"cape"}

KernelEvent ==
  /\ events < MaxEvents /\ events' = events + 1
  /\ \/ (\E d \in SpiDevices : RemoveDetach(d)) /\ happened' = happened \cup {"unbound"}
     \/ (\E p \in Others, i \in Listed : OpenNode(p, i)) /\ UNCHANGED happened

KernelGoesOn ==
  /\ UNCHANGED events
  /\ \/ /\ \/ \E d \in SpiDevices : Probe(d) \/ RemoveUnlink(d)
           \/ \E p \in Others : BeginIoctl(p) \/ BeginReadWrite(p) \/ EndCall(p)
        /\ UNCHANGED happened
     \/ \E p \in Others :
          /\ CloseNode(p)
          /\ happened' = happened \cup
               (IF Unlinking(filp[p]) THEN {"closed while unbinding"} ELSE {})

Kernel == Alive /\ ~ Emulated /\ UserUnchanged /\ (KernelEvent \/ KernelGoesOn)

Main ==
  \/ Create \/ CreateFails \/ SpiCreate \/ SpiCreateFails \/ AfeCreate \/ AfeCreated
  \/ Initialize \/ MenuActivate \/ MenuDeactivate \/ Deactivated
  \/ MenuOverloads \/ MenuSettings \/ MenuExit

Callback ==
  \E f \in Flags, g \in Generations :
    \/ CallbackBegins(f, g) \/ CallbackOrphaned(f, g) \/ CallbackTests(f, g)
    \/ CallbackWakes(f, g) \/ CallbackReads(f, g) \/ CallbackStores(f, g)

Next ==
  \/ Main \/ (\E t \in Threads : StepOf(t))
  \/ TxCycle \/ RxCycle \/ TimerStarts \/ TimerStops \/ TimerToggles
  \/ Callback \/ (\E f \in Flags : Edge(f)) \/ Kernel

Spec == Init /\ [][Next]_vars

(***************************************************************************)
(* Properties.                                                             *)
(***************************************************************************)
TypeOK ==
  /\ SpidevTypeOK
  /\ \A b \in 0..1 : bank[b] \subseteq Pins \cup {"usr3"}
  /\ mutex \in Threads \cup {"free", "none"} /\ flags \in [Flags -> {0, 1}]
  /\ dead \in {"no", "leds", "dac", "echo", "readback", "driver", "sample", "pin", "underrun", "pcm"}

\* With the functions of the cape at rest and the device there, what plc_afe and spi
\* remember is what the AFE and the driver have: blocks, calibration, gains, bits per word,
\* speed (afe.c, spi.c).  On the first cape so do the pins of the standby and the DAC mode, and
\* each output pin has the level it was last given; on the second one the LEDs share a bank
\* with the pins of the AFE, and the mutex of the LEDs (leds.c:94) does not keep one store
\* from undoing the other.
ChipAgrees ==
  dead = "no" /\ Idle("main") /\ Idle("comm") /\ stage = "idle"
    /\ (Emulated \/ Bound(filp["cape"])) =>
    /\ reg["enable1"] \cup reg["enable2"] = afe.blocks
    /\ reg["control1"] \cap CalibMask = Calibration(afe.calibration)
    /\ reg["gain_select"] = afe.gains
    /\ ~ Emulated =>
         /\ driver.bits = (IF spi.dacMode = 1 THEN 10 ELSE 16)
         /\ driver.speed = (IF spi.dacMode = 1 THEN spi.rate ELSE 20000)
    /\ comm <=> spi.dacMode = 1
    /\ version < 2 => \A p \in Pins : (Mask(p) \in bank[Bank(p)]) = (wanted[p] = 1)
    /\ ~ Emulated /\ version < 2 =>
         /\ ("shutdown" \in bank[0]) = (afe.standby = 1)
         /\ ("dac" \in bank[0]) = (spi.dacMode = 1)

\* Once the callbacks are installed, plc_afe has the level of each pin whenever its
\* threads wait for the next edge; unless an edge came while the callback was installed: before
\* the initial level was stored, or before the thread cleared "previous events".
FlagsFollowPins ==
  dead = "no" /\ stage \in {"idle", "stopping"} /\ "edge while hooking" \notin happened
    /\ (\A k \in DOMAIN todo["main"] : todo["main"][k].op \notin {"hook", "get", "put"}) =>
    \A f \in Flags :
      pins[f].callback # 0
        /\ (\A g \in 1..pins[f].callback :
               thread[<<f, g>>].at = "poll" /\ ~ thread[<<f, g>>].pending) =>
        flags[f] = pins[f].level

\* The program ends in an assertion, or uses what was released, only after what is known
\* to lead there.  The assertions of a register (spi.c:417-484): the overloads asked for
\* during a communication or while the timer's thread starts or ends one, the AFE that is not
\* there, or the device unbound (spi.c:330-342).
RegisterFailures ==
  /\ dead \in {"dac", "echo"} =>
       "overloads while communicating" \in happened \/ (dead = "echo" /\ board = "absent")
  /\ dead = "readback" => "unbound" \in happened

\* The lock of the LEDs (leds.c): a toggle later than its timer.
LedFailures == dead = "leds" => "late toggle" \in happened

\* A pin that is freed under the thread of its callback: the callback installed twice.
PinFailures == dead = "pin" => "reinitialised" \in happened

\* The assertions of a sample, of the device of ALSA and of its buffer: only an underrun.
SoundFailures == dead \notin {"sample", "pcm"} /\ (dead = "underrun" => Alsa)

\* The driver refuses its parameters, or uses freed memory: the device unbound, or a node
\* closed while its device is unbound.
DriverFailures ==
  /\ dead = "driver" => "unbound" \in happened
  /\ fault => "closed while unbinding" \in happened

\* Each of these ends is known.
FailuresAreKnown ==
  RegisterFailures /\ LedFailures /\ PinFailures /\ SoundFailures /\ DriverFailures

\* What reaches the DAC or the sound card is what was filled, in order and once: over the
\* SPI as it is, over ALSA converted and in whatever parts the device takes it
\* (tx_sched_afe_sync.c, write_buffer of tx_sched_alsa.c).
SentInOrder ==
  /\ Alsa => line = [k \in DOMAIN line |-> Converted(k)]
  /\ ~ Alsa /\ "unbound" \notin happened => line = [k \in DOMAIN line |-> k]
=============================================================================
