-------------------------- MODULE MCFreqResponse --------------------------
(* A DAC of 12 samples per second, a preloaded buffer of five and a DMA     *)
(* buffer of two; three samples to record in buffers of two; sweeps of one  *)
(* to three tones, among them zero, one whose cycle is longer than the      *)
(* buffer, and references under, among and over the tones.                  *)
EXTENDS FreqResponse

MCSweeps == [emulated \in BOOLEAN |->
  [ini |-> 4, end |-> 6, iterations |-> IF emulated THEN 3 ELSE 2, ref |-> 5]]

Option(opt, value) == [opt |-> opt, value |-> value]
MCCommandLines ==
  {<<>>, <<Option("help", 0)>>, <<Option("B", 2)>>, <<Option("C", 1), Option("D", 2)>>,
   <<Option("D", 9), Option("T", "tx")>>,
   <<Option("C", 0), Option("D", 6), Option("H", 1), Option("U", 0)>>,
   <<Option("A", 3), Option("D", 0), Option("C", 3)>>,
   <<Option("D", 0), Option("A", 0)>>, <<Option("D", 0), Option("A", 0), Option("B", 0)>>}
=============================================================================
