-------------------------- MODULE MCTxAsyncThread --------------------------
(* The two buffers of the code, or three, and generations enough to tell a *)
(* repeated, a skipped and a reordered buffer from the next one.           *)
EXTENDS TxAsyncThread
=============================================================================
