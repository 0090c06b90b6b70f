---------------------------- MODULE MCController ----------------------------
(* Two callback threads: one may still be in a call when the timer of the  *)
(* same or of a later activation expires.                                  *)
EXTENDS Controller
=============================================================================
