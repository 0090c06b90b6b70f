------------------------------ MODULE SignalIir ------------------------------
(***************************************************************************)
(* plc_signal_iir of libplc-tools: the demodulation and the filter that    *)
(* the decoders run over each chunk of samples.  What goes from one chunk  *)
(* to the next is the end of the two buffers and samples_counter.          *)
(* Coefficients and samples are small integers with a[0] = 1.              *)
(***************************************************************************)
EXTENDS Integers, Sequences, FiniteSets, Functions

CONSTANTS
  Chunk,        \* chunk_samples
  IirA, IirB,   \* the coefficients, functions on 0 .. Taps - 1
  Carrier,      \* one period of the demodulating cosine, a function from 0 on
  DataOffset    \* buffer_in_offset

ASSUME SignalIirAssumption ==
  /\ Chunk \in Nat \ {0}
  /\ IsFiniteSet(DOMAIN IirB) /\ 0 \in DOMAIN IirB /\ DOMAIN IirA = DOMAIN IirB
  /\ DOMAIN IirB = 0..Cardinality(DOMAIN IirB) - 1
  /\ Chunk >= Cardinality(DOMAIN IirB)

Taps == DOMAIN IirB
Count == Cardinality(Taps)
Places == 0..Count + Chunk - 1    \* of buffer_in_f and of buffer_out_f

\* plc_signal_iir_create and the setting of the demodulator: the first Count
\* places are cleared and the rest is what malloc leaves there.
IirCreate(demodulator, left) ==
  LET cleared == [n \in Places |-> IF n < Count THEN 0 ELSE left]
  IN [in |-> cleared, out |-> cleared, counter |-> 0, demodulator |-> demodulator]

\* Mutant: nothing is chained.
NotChained(buffer) == buffer

\* "Chain previous in/out values", in ascending order of the places.
Chained(buffer) ==
  [n \in Places |-> IF n < Count THEN buffer[Chunk + n] ELSE buffer[n]]

Abs(x) == IF x < 0 THEN -x ELSE x

\* The n-th sample of a chunk whose first one is number counter.
Demodulated(demodulator, counter, sample) ==
  IF demodulator = "abs" THEN Abs(sample - DataOffset)
  ELSE (sample - DataOffset) * Carrier[counter % Cardinality(DOMAIN Carrier)]

\* The output of the filter at place n, from the inputs and outputs before it.
Response(in, out, n) ==
  SumFunction([k \in Taps |-> IirB[k] * in[n - k]])
  - SumFunction([k \in Taps \ {0} |-> IirA[k] * out[n - k]])

\* plc_signal_iir_process_chunk: only the cosine counts the samples.
Process(iir, chunk) ==
  LET in == [n \in Places |->
               IF n < Count THEN Chained(iir.in)[n]
               ELSE Demodulated(iir.demodulator, iir.counter + n - Count, chunk[n - Count + 1])]
      before == Chained(iir.out)
      out[n \in Places] == IF n < Count THEN before[n] ELSE Response(in, out, n)
  IN [iir EXCEPT !.in = in, !.out = out,
                 !.counter = IF iir.demodulator = "cos" THEN @ + Chunk ELSE @]

\* plc_signal_get_buffer_out
Output(iir) == [n \in 1..Chunk |-> iir.out[Count + n - 1]]

(***************************************************************************)
(* What is promised: the filter of the whole signal, from what the filter  *)
(* starts with.                                                            *)
(***************************************************************************)
Whole(demodulator, left, samples) ==
  LET in == [n \in 1 - Count..Len(samples) |->
               IF n < 1 THEN left ELSE Demodulated(demodulator, n - 1, samples[n])]
      out[n \in 1 - Count..Len(samples)] == IF n < 1 THEN left ELSE Response(in, out, n)
  IN [n \in 1..Len(samples) |-> out[n]]
=============================================================================
