------------------------------- MODULE Capture -------------------------------
(***************************************************************************)
(* Reception in plc-cape-lab: rx.c over a capture of libplc-adc (adc_bbb,  *)
(* adc_alsa) and a decoder.  The user's thread starts and stops; a capture *)
(* thread fills buffers and calls rx_on_buffer_completed for each, which   *)
(* looks for data and, from the first buffer that has any on, stores the   *)
(* samples for a file and decodes them in real time; rx_stop_capture       *)
(* decodes the stored ones when the demodulation is deferred.              *)
(*                                                                         *)
(* The samples of a capture are 1, 2, ...; the decoder is its filter.      *)
(***************************************************************************)
EXTENDS SignalIir

CONSTANTS
  Setups,      \* records [device, mode, demod, toFile, period, demodulator]
  Left,        \* what malloc may leave in the buffers of the filter
  MaxSamples   \* bound: samples of a capture

\* The ALSA capture has no samples one by one: "TODO: To be implemented".
ASSUME SetupsAssumption ==
  /\ MaxSamples \in Nat
  /\ \A s \in Setups :
       /\ s.toFile \in Nat /\ s.period \in Nat \ {0} /\ s.demodulator \in {"abs", "cos"}
       /\ s.mode = "sample" => s.device # "alsa"

VARIABLES
  setup,     \* the settings; period is the one the ALSA device settles on
  user,      \* "off", "on", "stopping" (in the join) or "aborted"
  thread,    \* the capture thread: what it does next
  end,       \* end_thread
  frozen,    \* the driver's read does not come back any more
  captured,  \* the samples read since the capture began
  buffer,    \* those of the buffer being filled
  open,      \* the buffers of rx are allocated
  detected,  \* rx_data_detected
  file,      \* buffer_to_file_rx
  dec,       \* the decoder's filter, Terminated when it has none
  first,     \* history: the buffer in which data were first detected
  left,      \* history: what the filter found in its buffers
  heard,     \* history: the samples decoded
  result,    \* history: what the filter made of them
  outside    \* history: samples were read past the end of a buffer

adc == <<thread, end, frozen, captured, buffer>>
reception == <<open, detected, file, dec, first, left, heard, result, outside>>
captureVars == <<setup, user, adc, reception>>

Terminated == [in |-> <<>>, out |-> <<>>, counter |-> 0, demodulator |-> "none"]
UserBuffering == setup.device = "bbb" /\ setup.mode = "buffer"
Sampling == setup.mode = "sample"
Size == IF setup.device = "alsa" THEN setup.period ELSE Chunk

CaptureTypeOK ==
  /\ setup \in Setups /\ user \in {"off", "on", "stopping", "aborted"}
  /\ thread \in {"none", "begin", "read", "analyse", "store", "decode", "loop", "gone"}
  /\ captured \in 0..MaxSamples /\ Len(buffer) <= Size /\ Len(file) <= setup.toFile

CaptureInit ==
  /\ setup \in Setups
  /\ user = "off" /\ thread = "none" /\ end = FALSE /\ frozen = FALSE
  /\ captured = 0 /\ buffer = <<>>
  /\ open = FALSE /\ detected = FALSE /\ file = <<>> /\ dec = Terminated
  /\ first = 0 /\ left = 0 /\ heard = <<>> /\ result = <<>> /\ outside = FALSE

(***************************************************************************)
(* rx_start_capture.  The decoder asserts that it is not initialised; only *)
(* the ALSA capture can fail, and then rx frees its buffers and leaves the *)
(* decoder as it is.                                                       *)
(***************************************************************************)
StartCapture ==
  /\ user = "off" /\ dec = Terminated
  /\ user' = "on" /\ thread' = "begin" /\ end' = FALSE
  /\ captured' = 0 /\ buffer' = <<>>
  /\ open' = TRUE /\ detected' = FALSE /\ file' = <<>>
  /\ \E garbage \in Left : dec' = IirCreate(setup.demodulator, garbage) /\ left' = garbage
  /\ first' = 0 /\ heard' = <<>> /\ result' = <<>>
  /\ UNCHANGED <<setup, frozen, outside>>

StartCaptureFails ==
  /\ user = "off" /\ dec = Terminated /\ setup.device = "alsa" /\ ~ Sampling
  /\ \E garbage \in Left : dec' = IirCreate(setup.demodulator, garbage) /\ left' = garbage
  /\ detected' = FALSE /\ file' = <<>> /\ first' = 0 /\ heard' = <<>> /\ result' = <<>>
  /\ UNCHANGED <<setup, user, adc, open, outside>>

\* "assert(decoder->signal_iir == NULL)".
StartAgainAborts ==
  /\ user = "off" /\ dec # Terminated
  /\ user' = "aborted"
  /\ UNCHANGED <<setup, adc, reception>>

(***************************************************************************)
(* The capture thread: adc_thread_capture_samples, or thread_adc_rx_buffer *)
(* of rx.c with a sample at a time, which calls nothing.  end_thread is    *)
(* tested between two buffers.                                             *)
(***************************************************************************)
Running == user \in {"on", "stopping"}

ThreadBegins ==
  /\ Running /\ thread = "begin"
  /\ thread' = "loop"
  /\ UNCHANGED <<setup, user, end, frozen, captured, buffer, reception>>

TestEnd ==
  /\ Running /\ thread = "loop"
  /\ ~ end => captured + Size <= MaxSamples
  /\ thread' = IF end THEN "gone" ELSE "read"
  /\ buffer' = IF Sampling /\ Len(buffer) < Chunk THEN buffer ELSE <<>>
  /\ UNCHANGED <<setup, user, end, frozen, captured, reception>>

\* n more samples of the buffer; a read of the driver may give none (-1 / 2 is 0).
ReadSamples(n) ==
  /\ captured' = captured + n
  /\ buffer' = buffer \o [k \in 1..n |-> captured + k]
  /\ thread' = CASE Sampling -> "loop"
                 [] ~ Sampling /\ Len(buffer') = Size -> "analyse"
                 [] OTHER -> "read"

Amounts ==
  CASE Sampling \/ UserBuffering -> {1}
    [] setup.device = "alsa" -> {Size}
    [] OTHER -> 0..Size - Len(buffer)

Read ==
  /\ Running /\ thread = "read" /\ ~ frozen
  /\ \E n \in Amounts : ReadSamples(n)
  /\ UNCHANGED <<setup, user, end, frozen, reception>>

\* "the 'read' call in 'adc_custom_capture_cycle' can freeze".
Freeze ==
  /\ Running /\ thread = "read" /\ setup.device = "bbb" /\ setup.mode = "kernel"
  /\ frozen' = TRUE
  /\ UNCHANGED <<setup, user, thread, end, captured, buffer, reception>>

\* snd_pcm_readi gives an error after an overrun, and is asserted not to.
Overrun ==
  /\ Running /\ thread = "read" /\ setup.device = "alsa" /\ ~ Sampling
  /\ user' = "aborted"
  /\ UNCHANGED <<setup, adc, reception>>

(***************************************************************************)
(* rx_on_buffer_completed.                                                 *)
(***************************************************************************)
Analyse ==
  /\ Running /\ thread = "analyse"
  /\ \E data \in BOOLEAN :
       /\ detected' = (detected \/ data)
       /\ first' = IF data /\ ~ detected THEN buffer[1] ELSE first
       /\ thread' = IF detected \/ data THEN "store" ELSE "loop"
  /\ UNCHANGED <<setup, user, end, frozen, captured, buffer, open, file, dec, left,
                 heard, result, outside>>

Smaller(a, b) == IF a < b THEN a ELSE b

\* Mutant: a whole buffer is stored while something remains.
StoreWholeBuffers ==
  /\ Running /\ thread = "store"
  /\ file' = IF Len(file) < setup.toFile THEN file \o buffer ELSE file
  /\ outside' = (outside \/ Chunk > Len(buffer))
  /\ thread' = IF setup.demod = "real_time" THEN "decode" ELSE "loop"
  /\ UNCHANGED <<setup, user, end, frozen, captured, buffer, open, detected, dec,
                 first, left, heard, result>>

\* adc_buffer_samples or what remains, whatever the size of the buffer.
Store ==
  /\ Running /\ thread = "store"
  /\ LET copied == Smaller(setup.toFile - Len(file), Chunk)
     IN /\ file' = file \o SubSeq(buffer, 1, Smaller(copied, Len(buffer)))
        /\ outside' = (outside \/ copied > Len(buffer))
  /\ thread' = IF setup.demod = "real_time" THEN "decode" ELSE "loop"
  /\ UNCHANGED <<setup, user, end, frozen, captured, buffer, open, detected, dec,
                 first, left, heard, result>>

\* The decoder takes chunk_samples, what is outside of the buffer as 0.
ChunkOf(samples) == [k \in 1..Chunk |-> IF k <= Len(samples) THEN samples[k] ELSE 0]

Decode ==
  /\ Running /\ thread = "decode"
  /\ dec' = Process(dec, ChunkOf(buffer))
  /\ heard' = heard \o ChunkOf(buffer)
  /\ result' = result \o Output(dec')
  /\ outside' = (outside \/ Len(buffer) < Chunk)
  /\ thread' = "loop"
  /\ UNCHANGED <<setup, user, end, frozen, captured, buffer, open, detected, file,
                 first, left>>

(***************************************************************************)
(* rx_stop_capture.  The join of the captures gives up after five seconds, *)
(* and is asserted not to: only a frozen thread takes so long.             *)
(***************************************************************************)
\* Mutant: the thread is not told.
StopCaptureUntold ==
  /\ user = "on"
  /\ user' = "stopping"
  /\ UNCHANGED <<setup, adc, reception>>

StopCapture ==
  /\ user = "on"
  /\ user' = "stopping" /\ end' = TRUE
  /\ UNCHANGED <<setup, thread, frozen, captured, buffer, reception>>

JoinTimesOut ==
  /\ user = "stopping" /\ frozen
  /\ user' = "aborted"
  /\ UNCHANGED <<setup, adc, reception>>

\* The deferred demodulation takes the whole chunks of the file.
Deferred ==
  IF setup.demod = "deferred" THEN SubSeq(file, 1, (Len(file) \div Chunk) * Chunk) ELSE <<>>

\* The chunks one after another, each with what the one before left in the filter.
ProcessAll(iir, samples) ==
  LET chunks == Len(samples) \div Chunk
      Nth(k) == SubSeq(samples, (k - 1) * Chunk + 1, k * Chunk)
      after[k \in 0..chunks] == IF k = 0 THEN iir ELSE Process(after[k - 1], Nth(k))
  IN [n \in 1..chunks * Chunk |-> Output(after[(n - 1) \div Chunk + 1])[((n - 1) % Chunk) + 1]]

\* Mutant: the decoder is not terminated.
JoinedKeepingDecoder ==
  /\ user = "stopping" /\ thread = "gone"
  /\ user' = "off" /\ thread' = "none"
  /\ heard' = heard \o Deferred
  /\ result' = result \o ProcessAll(dec, Deferred)
  /\ open' = FALSE
  /\ UNCHANGED <<setup, end, frozen, captured, buffer, detected, file, dec, first, left, outside>>

Joined ==
  /\ user = "stopping" /\ thread = "gone"
  /\ user' = "off" /\ thread' = "none"
  /\ heard' = heard \o Deferred
  /\ result' = result \o ProcessAll(dec, Deferred)
  /\ open' = FALSE /\ dec' = Terminated
  /\ UNCHANGED <<setup, end, frozen, captured, buffer, detected, file, first, left, outside>>

ThreadStep == ThreadBegins \/ TestEnd \/ Read \/ Analyse \/ Store \/ Decode

CaptureNext ==
  \/ ThreadStep \/ Freeze \/ Overrun
  \/ StartCapture \/ StartCaptureFails \/ StartAgainAborts
  \/ StopCapture \/ JoinTimesOut \/ Joined

\* The threads run, samples keep coming, and the join returns.
Fairness == WF_captureVars(ThreadStep) /\ WF_captureVars(JoinTimesOut \/ Joined)
CaptureSpec == CaptureInit /\ [][CaptureNext]_captureVars /\ Fairness
-----------------------------------------------------------------------------
\* The period of the device is the buffer asked for, as rx takes for granted.
Agreed == Size = Chunk

\* The samples from the first buffer with data on.
Consecutive(samples) == \A k \in 1..Len(samples) : samples[k] = first + k - 1

\* The file has, without gaps, the samples from the first buffer with data on,
\* up to its size, even when that is reached in the middle of a buffer
\* (rx.c:134); after the capture none of them is missing.
FileIsWhatWasCaptured ==
  Agreed =>
    /\ Consecutive(file)
    /\ user = "off" /\ thread = "none" /\ detected
         => Len(file) = Smaller(setup.toFile, captured - first + 1)

\* Decoding in chunks is decoding the whole signal, from what the filter found
\* in its buffers: every chunk takes up where the one before ended.
ChunksAreSeamless ==
  Agreed => /\ Consecutive(heard)
            /\ result = Whole(setup.demodulator, left, heard)

\* The callback never runs on what rx_stop_capture has released; only a frozen
\* read or a fault of the ALSA device ends in an assertion, and only a period
\* shorter than the buffer makes rx read what is not there.
FailuresAreKnown ==
  /\ thread \in {"analyse", "store", "decode"} => open /\ dec # Terminated
  /\ user = "aborted" => frozen \/ setup.device = "alsa"
  /\ outside => setup.device = "alsa" /\ setup.period < Chunk

\* A stop ends: with the capture off, or in the assertion after the timeout.
StopEnds == user = "stopping" ~> user \in {"off", "aborted"}
=============================================================================
