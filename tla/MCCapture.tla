----------------------------- MODULE MCCapture -----------------------------
(* Each device with each mode of reception and of demodulation, files of no *)
(* sample, of one and a half buffers and of two; ALSA periods shorter than, *)
(* equal to and longer than the buffer.                                     *)
EXTENDS Capture, TLC

MCIirA == 0 :> 1 @@ 1 :> -1
MCIirB == 0 :> 2 @@ 1 :> 1
MCCarrier == 0 :> 0 @@ 1 :> 1 @@ 2 :> 0 @@ 3 :> -1

MCSetups ==
  {s \in [device : {"bbb", "alsa"}, mode : {"sample", "buffer", "kernel"},
          demod : {"none", "real_time", "deferred"}, toFile : {0, 3, 4},
          period : {1, 2, 3}, demodulator : {"abs", "cos"}] :
     /\ s.device = "bbb" => s.period = 2
     /\ s.mode = "sample" => s.device = "bbb" /\ s.demod = "none" /\ s.toFile = 0
     /\ s.demod = "none" => s.demodulator = "abs"}
=============================================================================
