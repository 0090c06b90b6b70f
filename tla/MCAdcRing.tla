----------------------------- MODULE MCAdcRing -----------------------------
(* A ring of four words, small enough to be lapped within a few interrupts,*)
(* and reads shorter and longer than it.                                   *)
EXTENDS AdcRing
=============================================================================
