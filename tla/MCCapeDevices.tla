--------------------------- MODULE MCCapeDevices ---------------------------
(* The first cape: with the AFE, without it, with another chip and emulated. *)
EXTENDS CapeDevices

MCSettings ==
  {[cenelec_a |-> FALSE, gains |-> {"tx_pga_lo"}, calibration |-> "none",
    blocks |-> {"dac", "tx", "ref2"}, minBps |-> 187501, bySample |-> FALSE, periodic |-> TRUE],
   [cenelec_a |-> TRUE, gains |-> {"tx_pga_hi", "rx_pga1_lo"}, calibration |-> "dac_txpga",
    blocks |-> {"rx", "ref2"}, minBps |-> 750000, bySample |-> TRUE, periodic |-> FALSE]}
MCFlagPins == <<"tx_flag">>
=============================================================================
