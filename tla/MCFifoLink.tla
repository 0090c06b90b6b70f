----------------------------- MODULE MCFifoLink -----------------------------
(* Buffers of different lengths on the two sides, and a FIFO that holds    *)
(* more than one of either but not a whole number of them.                 *)
EXTENDS FifoLink
=============================================================================
