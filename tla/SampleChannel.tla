--------------------------- MODULE SampleChannel ---------------------------
(***************************************************************************)
(* What a reader of /dev/adchs_plc is promised during one capture: the     *)
(* samples arrive complete and in the order of conversion until more than  *)
(* Capacity of them wait unreleased, and nothing is promised afterwards.   *)
(***************************************************************************)
EXTENDS Integers, Sequences

CONSTANT Capacity   \* samples the channel holds without loss

VARIABLES
  sent,    \* samples put in the channel since the capture started
  got,     \* samples handed to the reader; the n-th one sent is numbered n - 1
  freed,   \* samples whose room has been given back to the sender
  lost     \* an overflow has happened

chVars == <<sent, got, freed, lost>>

ChInit ==
  /\ sent = 0
  /\ got = << >>
  /\ freed = 0
  /\ lost = FALSE

Send ==
  /\ sent' = sent + 1
  /\ lost' = (lost \/ sent + 1 - freed > Capacity)
  /\ UNCHANGED <<got, freed>>

\* got grows by one sample: the next one that was sent, or anything after a loss.
Receive ==
  /\ got' \in Seq(Int)
  /\ Len(got') = Len(got) + 1
  /\ \A i \in 1..Len(got) : got'[i] = got[i]
  /\ lost \/ (Len(got) < sent /\ got'[Len(got')] = Len(got))
  /\ UNCHANGED <<sent, freed, lost>>

Release ==
  /\ freed' = Len(got)
  /\ UNCHANGED <<sent, got, lost>>

\* A new capture starts.
Reset ==
  /\ sent' = 0
  /\ got' = << >>
  /\ freed' = 0
  /\ lost' = FALSE

ChNext == Send \/ Receive \/ Release \/ Reset

ChSpec == ChInit /\ [][ChNext]_chVars
=============================================================================
