------------------------------ MODULE MCTxDma ------------------------------
(* Two processes are enough to tell the one that uses the driver from the  *)
(* one before, and five generations to tell a repeated, a skipped and a    *)
(* reordered buffer from the next one.                                     *)
EXTENDS TxDma
=============================================================================
