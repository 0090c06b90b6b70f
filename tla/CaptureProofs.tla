---------------------------- MODULE CaptureProofs ----------------------------
(***************************************************************************)
(* Proofs about the captures of plc-cape-lab: from a FIFO that the         *)
(* transmission of the same process fills (FifoLink), for buffers and a    *)
(* FIFO of any length; and from the ADC or the sound card (Capture), for   *)
(* buffers, files and filters of any size.  Last the filter of signal.c:   *)
(* what it makes of the chunks is what it would make of the whole signal.  *)
(***************************************************************************)
EXTENDS FifoLink, Capture, FiniteSetTheorems, SequenceTheorems, WellFoundedInduction, TLAPS

(***************************************************************************)
(*                          Capture from a FIFO                            *)
(***************************************************************************)
\* The FIFO has a reader, or one that the open of the other side lets in.
HasReader == fifo_rx \/ rx = "opening"

\* The capture's thread exists only between its start and its join, and it
\* reads only from an open FIFO.
ReaderInv ==
  /\ ctl \in {"idle", "starting", "rx_stopped", "requesting", "joining_tx"} => rx = "off"
  /\ rx \in {"test", "read"} => fifo_rx

\* From the open on, and as long as the descriptor is not -1, there is a reader.
WriterInv == fifo_tx \/ tx \in {"opened", "pace", "write", "writing"} => HasReader

\* What remains of a buffer under way is not zero.
RestInv ==
  /\ tx \in {"opening", "opened", "pace", "write", "writing"} => bytes_to_write > 0
  /\ rx = "read" => bytes_to_read > 0

FifoInv == TypeOK /\ ReaderInv /\ WriterInv /\ RestInv
-----------------------------------------------------------------------------
LEMMA FifoInit == Init => FifoInv
<1> SUFFICES ASSUME Init PROVE FifoInv
  OBVIOUS
<1>1. end_thread_tx \in BOOLEAN /\ fifo_tx \in BOOLEAN /\ writer \in BOOLEAN
  BY Zenon DEF Init
<1>2. end_thread_rx \in BOOLEAN /\ fifo_rx \in BOOLEAN
  BY Zenon DEF Init
<1>3. /\ ctl = "idle" /\ tx = "off" /\ rx = "off"
      /\ bytes_to_write = 0 /\ bytes_to_read = 0 /\ pipe = 0
  BY Zenon DEF Init
<1>4. ~fifo_tx
  BY Zenon DEF Init
<1>5. TypeOK
  BY <1>1, <1>2, <1>3, FifoAssumption DEF FifoAssumption, TypeOK, Ctl, Tx, Rx
<1>6. ReaderInv /\ RestInv
  BY <1>3 DEF ReaderInv, RestInv
<1>7. WriterInv
  BY <1>3, <1>4 DEF WriterInv
<1> QED
  BY <1>5, <1>6, <1>7 DEF FifoInv

LEMMA ControllerPreserves == FifoInv /\ Controller => FifoInv'
<1> SUFFICES ASSUME FifoInv, Controller PROVE FifoInv'
  OBVIOUS
<1> USE FifoAssumption DEF FifoAssumption, FifoInv, TypeOK, ReaderInv, WriterInv, RestInv,
        HasReader,
       Ctl, Tx, Rx, txVars, rxVars
<1>1. CASE StartTx
  BY <1>1 DEF StartTx
<1>2. CASE StartRx
  BY <1>2 DEF StartRx
<1>3. CASE StopRx
  BY <1>3 DEF StopRx
<1>4. CASE JoinRx
  BY <1>4 DEF JoinRx
<1>5. CASE StopTx
  BY <1>5 DEF StopTx
<1>6. CASE RequestStop
  BY <1>6 DEF RequestStop
<1>7. CASE JoinTx
  BY <1>7 DEF JoinTx
<1> QED
  BY <1>1, <1>2, <1>3, <1>4, <1>5, <1>6, <1>7 DEF Controller

LEMMA TxThreadPreserves == FifoInv /\ TxThread => FifoInv'
<1> SUFFICES ASSUME FifoInv, TxThread PROVE FifoInv'
  OBVIOUS
<1> USE FifoAssumption DEF FifoAssumption, FifoInv, TypeOK, ReaderInv, WriterInv, RestInv,
        HasReader,
       Ctl, Tx, Rx, rxVars
<1>1. CASE TxTest
  BY <1>1 DEF TxTest
<1>2. CASE Fill
  BY <1>2 DEF Fill
<1>3. CASE Flush
  BY <1>3 DEF Flush
<1>4. CASE TxOpens
  BY <1>4 DEF TxOpens
<1>5. CASE TxAssigns
  BY <1>5 DEF TxAssigns
<1>6. CASE Pace
  BY <1>6 DEF Pace
<1>7. CASE Write
  BY <1>7 DEF Write
<1>8. CASE WritePiece
  BY <1>8 DEF WritePiece
<1> QED
  BY <1>1, <1>2, <1>3, <1>4, <1>5, <1>6, <1>7, <1>8 DEF TxThread

LEMMA RxThreadPreserves == FifoInv /\ RxThread => FifoInv'
<1> SUFFICES ASSUME FifoInv, RxThread PROVE FifoInv'
  OBVIOUS
<1> USE FifoAssumption DEF FifoAssumption, FifoInv, TypeOK, ReaderInv, WriterInv, RestInv,
        HasReader,
       Ctl, Tx, Rx, txVars
<1>1. CASE RxBegins
  BY <1>1 DEF RxBegins
<1>2. CASE RxOpens
  BY <1>2 DEF RxOpens
<1>3. CASE RxTest
  BY <1>3 DEF RxTest
<1>4. CASE ReadPiece
  BY <1>4 DEF ReadPiece
<1> QED
  BY <1>1, <1>2, <1>3, <1>4 DEF RxThread

LEMMA FifoInvariance == Spec => []FifoInv
<1>1. FifoInv /\ [Next]_vars => FifoInv'
  <2> SUFFICES ASSUME FifoInv, [Next]_vars PROVE FifoInv'
    OBVIOUS
  <2>1. CASE UNCHANGED vars
    BY <2>1 DEF vars, txVars, rxVars, FifoInv, TypeOK, ReaderInv, WriterInv, RestInv, HasReader
  <2> QED
    BY <2>1, ControllerPreserves, TxThreadPreserves, RxThreadPreserves DEF Next
<1> QED
  BY <1>1, FifoInit, PTL DEF Spec

(* The types, among them that neither side goes past its buffer and the     *)
(* FIFO never holds more than it can.                                       *)
THEOREM TypeCorrect == Spec => []TypeOK
<1>1. FifoInv => TypeOK
  BY DEF FifoInv
<1> QED
  BY <1>1, FifoInvariance, PTL

(* The transmission never writes to a FIFO without a reader.                *)
THEOREM PipeSafety == Spec => []PipeNotBroken
<1>1. FifoInv => PipeNotBroken
  BY DEF FifoInv, WriterInv, HasReader, PipeNotBroken
<1> QED
  BY <1>1, FifoInvariance, PTL
(***************************************************************************)
(*                 Capture from the ADC or the sound card                  *)
(***************************************************************************)
Called == thread \in {"analyse", "store", "decode"}
Initialised(d) == "demodulator" \in DOMAIN d /\ d.demodulator # "none"

(* The samples captured that the file, and the decoder, have had the chance *)
(* to take.                                                                 *)
Seen == captured - (IF thread \in {"read", "analyse", "store"} THEN Len(buffer) ELSE 0)
Heard == captured - (IF thread = "read" \/ Called THEN Len(buffer) ELSE 0)

(* A thread has the buffers of rx and an initialised decoder; a decoder     *)
(* outlives its capture only after a start that failed.                     *)
ThreadInv ==
  /\ thread \in {"none", "begin", "read", "analyse", "store", "decode", "loop", "gone"}
  /\ user \in {"off", "on", "stopping", "aborted"}
  /\ user = "off" => thread = "none"
  /\ thread # "none" => open /\ Initialised(dec)
  /\ thread \in {"store", "decode"} => detected
  /\ user = "off" /\ dec # Terminated => setup.device = "alsa"
  /\ user = "aborted" => frozen \/ setup.device = "alsa"
  /\ outside => setup.device = "alsa" /\ setup.period < Chunk

(* The buffer holds the last samples captured.                              *)
BufferInv ==
  /\ setup \in Setups /\ captured \in 0..MaxSamples
  /\ buffer \in Seq(Nat) /\ Len(buffer) <= Size
  /\ Called => ~ Sampling /\ Len(buffer) = Size
  /\ thread = "read" =>
       /\ Len(buffer) < Size
       /\ setup.device = "alsa" => Len(buffer) = 0
       /\ captured + (IF Sampling THEN 1 ELSE Size - Len(buffer)) <= MaxSamples
  /\ ~ Sampling /\ (Called \/ thread = "read") =>
       /\ Len(buffer) <= captured
       /\ \A k \in 1..Len(buffer) : buffer[k] = captured - Len(buffer) + k

(* From the first buffer with data on, the file has what it could take, up  *)
(* to its size.                                                             *)
FileInv ==
  /\ file \in Seq(Nat) /\ Len(file) <= setup.toFile
  /\ ~ detected => Len(file) = 0
  /\ detected => ~ Sampling /\ first \in Nat \ {0} /\ first <= Heard + 1
  /\ detected /\ Agreed =>
       /\ Len(file) = Smaller(setup.toFile, Seen - first + 1)
       /\ Consecutive(file)

(* And the decoder every sample, or those of the file at the end.           *)
HeardInv ==
  /\ heard \in Seq(Nat)
  /\ ~ detected => Len(heard) = 0
  /\ thread = "decode" => setup.demod = "real_time"
  /\ thread # "none" /\ setup.demod # "real_time" => Len(heard) = 0
  /\ detected /\ Agreed => Consecutive(heard)
  /\ detected /\ Agreed /\ thread # "none" /\ setup.demod = "real_time" =>
       Len(heard) = Heard - first + 1

IInv == ThreadInv /\ BufferInv /\ FileInv /\ HeardInv
-----------------------------------------------------------------------------
(* The sizes are what the assumptions make them.                            *)
LEMMA Sizes ==
  ASSUME setup \in Setups
  PROVE  /\ Chunk \in Nat \ {0} /\ MaxSamples \in Nat /\ setup.toFile \in Nat
         /\ Size \in Nat \ {0}
         /\ setup.device # "alsa" => Size = Chunk
         /\ setup.device = "alsa" => Size = setup.period /\ ~ Sampling
         /\ setup.demodulator # "none"
  BY SignalIirAssumption, SetupsAssumption
     DEF SignalIirAssumption, SetupsAssumption, Size, Sampling

(* A decoder that has a filter is not one that was terminated, and decoding *)
(* keeps it.                                                                *)
LEMMA NotTerminated == ASSUME NEW d, Initialised(d) PROVE d # Terminated
  BY DEF Initialised, Terminated

LEMMA Created == ASSUME setup \in Setups, NEW g PROVE Initialised(IirCreate(setup.demodulator, g))
<1>1. setup.demodulator # "none"  BY Sizes
<1> QED  BY <1>1 DEF Initialised, IirCreate

LEMMA Processed == ASSUME NEW d, NEW c, Initialised(d) PROVE Initialised(Process(d, c))
<1> DEFINE in == [n \in Places |->
               IF n < Count THEN Chained(d.in)[n]
               ELSE Demodulated(d.demodulator, d.counter + n - Count, c[n - Count + 1])]
           before == Chained(d.out)
           out[n \in Places] == IF n < Count THEN before[n] ELSE Response(in, out, n)
           counter == IF d.demodulator = "cos" THEN d.counter + Chunk ELSE d.counter
<1>1. Process(d, c) = [d EXCEPT !.in = in, !.out = out, !.counter = counter]
  BY Zenon DEF Process
<1> HIDE DEF in, out, counter
<1> QED  BY <1>1 DEF Initialised

LEMMA InitEstablishes == CaptureInit => IInv
<1> SUFFICES ASSUME CaptureInit PROVE IInv  OBVIOUS
<1>1. setup \in Setups  BY DEF CaptureInit
<1>2. /\ user = "off" /\ thread = "none" /\ captured = 0 /\ buffer = <<>>
      /\ detected = FALSE /\ file = <<>> /\ dec = Terminated /\ heard = <<>> /\ outside = FALSE
  BY DEF CaptureInit
<1>3. <<>> \in Seq(Nat) /\ Len(<<>>) = 0  BY EmptySeq
<1> QED  BY <1>1, <1>2, <1>3, Sizes DEF IInv, ThreadInv, BufferInv, FileInv, HeardInv, Called
-----------------------------------------------------------------------------
LEMMA Unchanged == ASSUME IInv, UNCHANGED captureVars PROVE IInv'
<1>1. /\ setup' = setup /\ user' = user /\ thread' = thread /\ frozen' = frozen
      /\ captured' = captured /\ buffer' = buffer
      /\ open' = open /\ detected' = detected /\ file' = file /\ dec' = dec /\ first' = first
      /\ heard' = heard /\ outside' = outside
  BY DEF captureVars, adc, reception
<1>2. ThreadInv'  BY <1>1 DEF IInv, ThreadInv, Initialised
<1>3. BufferInv'  BY <1>1 DEF IInv, BufferInv, Called, Size, Sampling
<1>4. FileInv'
  BY <1>1 DEF IInv, FileInv, Called, Seen, Heard, Agreed, Consecutive, Size, Sampling
<1>5. HeardInv'  BY <1>1 DEF IInv, HeardInv, Called, Heard, Agreed, Consecutive, Size
<1> QED  BY <1>2, <1>3, <1>4, <1>5 DEF IInv

LEMMA StartKeeps == ASSUME IInv, StartCapture PROVE IInv'
<1>1. PICK g \in Left : dec' = IirCreate(setup.demodulator, g)  BY DEF StartCapture
<1>2. setup \in Setups  BY DEF IInv, BufferInv
<1>3. Initialised(dec)'  BY <1>1, <1>2, Created DEF Initialised
<1>4. /\ user' = "on" /\ thread' = "begin" /\ open' = TRUE /\ captured' = 0 /\ buffer' = <<>>
      /\ detected' = FALSE /\ file' = <<>> /\ heard' = <<>> /\ setup' = setup
      /\ outside' = outside /\ frozen' = frozen
  BY DEF StartCapture
<1>5. <<>> \in Seq(Nat) /\ Len(<<>>) = 0  BY EmptySeq
<1>6. ThreadInv'  BY <1>3, <1>4 DEF IInv, ThreadInv
<1>7. BufferInv'  BY <1>2, <1>4, <1>5, Sizes DEF BufferInv, Called, Size
<1>8. FileInv' /\ HeardInv'  BY <1>2, <1>4, <1>5, Sizes DEF FileInv, HeardInv
<1> QED  BY <1>6, <1>7, <1>8 DEF IInv

LEMMA FailureKeeps == ASSUME IInv, StartCaptureFails PROVE IInv'
<1>1. PICK g \in Left : dec' = IirCreate(setup.demodulator, g)  BY DEF StartCaptureFails
<1>2. setup \in Setups  BY DEF IInv, BufferInv
<1>3. /\ user = "off" /\ setup.device = "alsa" /\ detected' = FALSE /\ file' = <<>>
      /\ heard' = <<>> /\ setup' = setup /\ user' = user /\ open' = open /\ outside' = outside
      /\ thread' = thread /\ frozen' = frozen /\ captured' = captured /\ buffer' = buffer
  BY DEF StartCaptureFails, adc
<1>4. <<>> \in Seq(Nat) /\ Len(<<>>) = 0  BY EmptySeq
<1>5. thread = "none"  BY <1>3 DEF IInv, ThreadInv
<1>6. ThreadInv'  BY <1>3, <1>5 DEF IInv, ThreadInv
<1>7. BufferInv'  BY <1>3, <1>5 DEF IInv, BufferInv, Called, Size
<1>8. FileInv' /\ HeardInv'
  BY <1>2, <1>3, <1>4, <1>5, Sizes DEF FileInv, HeardInv
<1> QED  BY <1>6, <1>7, <1>8 DEF IInv

(* What ends the program, and what only the user or the driver sees.        *)
LEMMA EndsKeep ==
  ASSUME IInv, StartAgainAborts \/ Overrun \/ JoinTimesOut \/ StopCapture \/ Freeze
  PROVE  IInv'
<1>1. /\ setup' = setup /\ thread' = thread /\ captured' = captured /\ buffer' = buffer
      /\ UNCHANGED reception
  BY DEF StartAgainAborts, Overrun, JoinTimesOut, StopCapture, Freeze, adc
<1>2. /\ open' = open /\ detected' = detected /\ file' = file /\ dec' = dec /\ first' = first
      /\ heard' = heard /\ outside' = outside
  BY <1>1 DEF reception
<1>3. BufferInv' /\ FileInv' /\ HeardInv'
  BY <1>1, <1>2 DEF IInv, BufferInv, FileInv, HeardInv, Called, Seen, Heard, Agreed,
                    Consecutive, Size, Sampling
<1>4. ThreadInv'
  BY <1>1, <1>2 DEF IInv, ThreadInv, Initialised, StartAgainAborts, Overrun, JoinTimesOut,
                    StopCapture, Freeze, adc
<1> QED  BY <1>3, <1>4 DEF IInv

LEMMA BeginKeeps == ASSUME IInv, ThreadBegins PROVE IInv'
<1>1. /\ thread = "begin" /\ thread' = "loop" /\ Running
      /\ setup' = setup /\ user' = user /\ frozen' = frozen /\ captured' = captured
      /\ buffer' = buffer
      /\ open' = open /\ detected' = detected /\ file' = file /\ dec' = dec /\ first' = first
      /\ heard' = heard /\ outside' = outside
  BY DEF ThreadBegins, reception
<1>2. ThreadInv'  BY <1>1 DEF IInv, ThreadInv, Initialised, Running
<1>3. BufferInv'  BY <1>1 DEF IInv, BufferInv, Called, Size
<1>4. FileInv'
  BY <1>1 DEF IInv, FileInv, Called, Seen, Heard, Agreed, Consecutive, Size, Sampling
<1>5. HeardInv'  BY <1>1 DEF IInv, HeardInv, Called, Heard, Agreed, Consecutive, Size
<1> QED  BY <1>2, <1>3, <1>4, <1>5 DEF IInv

LEMMA TestKeeps == ASSUME IInv, TestEnd PROVE IInv'
<1>1. /\ thread = "loop" /\ thread' \in {"gone", "read"} /\ Running
      /\ thread' = "read" => captured + Size <= MaxSamples
      /\ buffer' = IF Sampling /\ Len(buffer) < Chunk THEN buffer ELSE <<>>
      /\ setup' = setup /\ user' = user /\ frozen' = frozen /\ captured' = captured
      /\ open' = open /\ detected' = detected /\ file' = file /\ dec' = dec /\ first' = first
      /\ heard' = heard /\ outside' = outside
  BY DEF TestEnd, reception
<1>2. <<>> \in Seq(Nat) /\ Len(<<>>) = 0  BY EmptySeq
<1>3. setup \in Setups  BY DEF IInv, BufferInv
<1>4. ~ Sampling => Len(buffer') = 0  BY <1>1, <1>2
<1>5. ThreadInv'  BY <1>1 DEF IInv, ThreadInv, Initialised, Running
<1>6. BufferInv'
  <2>1. buffer' \in Seq(Nat) /\ Len(buffer') < Size
    BY <1>1, <1>2, <1>3, Sizes DEF IInv, BufferInv
  <2>2. ~ Called'  BY <1>1 DEF Called
  <2>3. Size' = Size /\ Sampling' = Sampling  BY <1>1 DEF Size, Sampling
  <2>4. setup.device = "alsa" => Len(buffer') = 0  BY <1>3, <1>4, Sizes
  <2>5. captured \in 0..MaxSamples /\ MaxSamples \in Nat /\ Size \in Nat \ {0}
    BY <1>3, Sizes DEF IInv, BufferInv
  <2>6. thread' = "read" =>
          captured' + (IF Sampling' THEN 1 ELSE Size' - Len(buffer')) <= MaxSamples
    <3>1. CASE Sampling  BY <1>1, <2>3, <2>5, <3>1
    <3>2. CASE ~ Sampling  BY <1>1, <1>4, <2>3, <2>5, <3>2
    <3> QED  BY <3>1, <3>2
  <2>7. ~ Sampling' => /\ Len(buffer') <= captured'
                       /\ \A k \in 1..Len(buffer') : buffer'[k] = captured' - Len(buffer') + k
    BY <1>1, <1>4, <2>3, <2>5
  <2>8. setup' \in Setups /\ captured' \in 0..MaxSamples /\ Len(buffer') <= Size'
    BY <1>1, <1>3, <2>1, <2>3, <2>5, LenProperties
  <2>9. thread' = "read" =>
          /\ Len(buffer') < Size'
          /\ setup'.device = "alsa" => Len(buffer') = 0
    BY <1>1, <2>1, <2>3, <2>4
  <2> QED  BY <2>1, <2>2, <2>6, <2>7, <2>8, <2>9 DEF BufferInv
<1>7. FileInv'
  <2>1. CASE detected
    <3>1. Seen' = Seen /\ Heard' = Heard
      BY <1>1, <1>4, <2>1 DEF Seen, Heard, Called, IInv, FileInv, BufferInv
    <3> QED  BY <1>1, <3>1 DEF IInv, FileInv, Agreed, Consecutive, Size, Sampling
  <2>2. CASE ~ detected  BY <1>1, <2>2 DEF IInv, FileInv
  <2> QED  BY <2>1, <2>2
<1>8. HeardInv'
  <2>1. CASE detected
    <3>1. Heard' = Heard
      BY <1>1, <1>4, <2>1 DEF Heard, Called, IInv, FileInv, BufferInv
    <3> QED  BY <1>1, <3>1 DEF IInv, HeardInv, Agreed, Consecutive, Size
  <2>2. CASE ~ detected  BY <1>1, <2>2 DEF IInv, HeardInv
  <2> QED  BY <2>1, <2>2
<1> QED  BY <1>5, <1>6, <1>7, <1>8 DEF IInv
-----------------------------------------------------------------------------
(* Sequences of consecutive numbers that join.                              *)
LEMMA Continued ==
  ASSUME NEW s \in Seq(Nat), NEW t \in Seq(Nat), NEW f \in Nat,
         \A k \in 1..Len(s) : s[k] = f + k - 1,
         \A k \in 1..Len(t) : t[k] = f + Len(s) + k - 1
  PROVE  /\ s \o t \in Seq(Nat) /\ Len(s \o t) = Len(s) + Len(t)
         /\ \A k \in 1..Len(s \o t) : (s \o t)[k] = f + k - 1
<1>1. Len(s) \in Nat /\ Len(t) \in Nat  BY LenProperties
<1>2. /\ s \o t \in Seq(Nat) /\ Len(s \o t) = Len(s) + Len(t)
      /\ \A i \in 1 .. Len(s) + Len(t) : (s \o t)[i] = IF i <= Len(s) THEN s[i] ELSE t[i - Len(s)]
  BY ConcatProperties
<1> QED  OBVIOUS

LEMMA ReadKeeps == ASSUME IInv, Read PROVE IInv'
<1>1. PICK n \in Amounts : ReadSamples(n)  BY DEF Read
<1>2. /\ thread = "read" /\ Running /\ setup' = setup /\ user' = user /\ frozen' = frozen
      /\ open' = open /\ detected' = detected /\ file' = file /\ dec' = dec /\ first' = first
      /\ heard' = heard /\ outside' = outside
  BY DEF Read, reception
<1>3. setup \in Setups  BY DEF IInv, BufferInv
<1>4. /\ captured \in Nat /\ buffer \in Seq(Nat) /\ Len(buffer) \in Nat /\ Size \in Nat
      /\ Len(buffer) < Size
      /\ captured + (IF Sampling THEN 1 ELSE Size - Len(buffer)) <= MaxSamples
  BY <1>2, <1>3, Sizes, LenProperties DEF IInv, BufferInv
<1>5. /\ n \in Nat /\ Len(buffer) + n <= Size
      /\ Sampling => n = 1
      /\ setup.device = "alsa" /\ ~ Sampling => Len(buffer) + n = Size
  <2>1. CASE Sampling \/ UserBuffering
    <3>1. Amounts = {1}  BY Zenon, <1>3, <2>1, Sizes DEF Amounts, UserBuffering
    <3>2. setup.device # "alsa"  BY <1>3, <2>1, Sizes DEF UserBuffering
    <3> QED  BY <1>4, <3>1, <3>2
  <2>2. CASE ~ (Sampling \/ UserBuffering) /\ setup.device = "alsa"
    <3>1. Amounts = {Size}  BY Zenon, <2>2 DEF Amounts
    <3>2. Len(buffer) = 0  BY <1>2, <2>2 DEF IInv, BufferInv
    <3> QED  BY <1>4, <2>2, <3>1, <3>2
  <2>3. CASE ~ (Sampling \/ UserBuffering) /\ setup.device # "alsa"
    <3>1. Amounts = 0..Size - Len(buffer)  BY Zenon, <2>3 DEF Amounts
    <3> QED  BY <1>4, <2>3, <3>1
  <2> QED  BY <2>1, <2>2, <2>3
<1> DEFINE more == [k \in 1..n |-> captured + k]
<1>6. captured' = captured + n /\ buffer' = buffer \o more
  BY <1>1 DEF ReadSamples
<1>7. more \in Seq(Nat) /\ Len(more) = n /\ \A k \in 1..n : more[k] = captured + k
  BY <1>4, <1>5
<1> HIDE DEF more
<1>8. /\ buffer' \in Seq(Nat) /\ Len(buffer') = Len(buffer) + n
      /\ \A i \in 1..Len(buffer) + n :
           buffer'[i] = IF i <= Len(buffer) THEN buffer[i] ELSE more[i - Len(buffer)]
  BY <1>4, <1>6, <1>7, ConcatProperties
<1>9. /\ Sampling => thread' = "loop"
      /\ ~ Sampling => thread' = IF Len(buffer') = Size THEN "analyse" ELSE "read"
  <2>1. Size' = Size /\ Sampling' = Sampling  BY <1>2 DEF Size, Sampling
  <2>2. thread' = CASE Sampling -> "loop"
                    [] ~ Sampling /\ Len(buffer') = Size -> "analyse"
                    [] OTHER -> "read"
    BY <1>1 DEF ReadSamples
  <2> QED  BY Zenon, <2>2
<1>10. ThreadInv'  BY <1>2, <1>9 DEF IInv, ThreadInv, Initialised, Running
<1>11. captured' \in 0..MaxSamples
  BY <1>3, <1>4, <1>5, <1>6, Sizes
<1>12. BufferInv'
  <2>1. Size' = Size /\ Sampling' = Sampling  BY <1>2 DEF Size, Sampling
  <2>2. Called' => ~ Sampling' /\ Len(buffer') = Size'
    BY <1>9, <2>1 DEF Called
  <2>3. thread' = "read" =>
          /\ Len(buffer') < Size'
          /\ setup'.device = "alsa" => Len(buffer') = 0
          /\ captured' + (IF Sampling' THEN 1 ELSE Size' - Len(buffer')) <= MaxSamples
    <3> SUFFICES ASSUME thread' = "read"
                 PROVE  /\ Len(buffer') < Size'
                        /\ setup'.device = "alsa" => Len(buffer') = 0
                        /\ captured' + (IF Sampling' THEN 1 ELSE Size' - Len(buffer')) <= MaxSamples
      OBVIOUS
    <3>1. ~ Sampling /\ Len(buffer') # Size  BY <1>9
    <3>2. setup.device # "alsa"  BY <1>5, <1>8, <3>1
    <3>3. /\ captured \in Nat /\ n \in Nat /\ Size \in Nat /\ Len(buffer) \in Nat
          /\ MaxSamples \in Nat /\ Len(buffer') = Len(buffer) + n /\ captured' = captured + n
          /\ Len(buffer) + n <= Size /\ captured + (Size - Len(buffer)) <= MaxSamples
      BY <1>3, <1>4, <1>5, <1>6, <1>8, <3>1, Sizes
    <3>4. Len(buffer') < Size /\ captured' + (Size - Len(buffer')) <= MaxSamples
      BY <3>1, <3>3
    <3> QED  BY <1>2, <2>1, <3>1, <3>2, <3>4
  <2>4. ~ Sampling' => /\ Len(buffer') <= captured'
                       /\ \A k \in 1..Len(buffer') : buffer'[k] = captured' - Len(buffer') + k
    BY <1>2, <1>4, <1>5, <1>6, <1>7, <1>8, <2>1 DEF IInv, BufferInv
  <2> QED  BY <1>2, <1>3, <1>4, <1>5, <1>8, <1>11, <2>1, <2>2, <2>3, <2>4 DEF BufferInv
<1>13. detected => Seen' = Seen /\ Heard' = Heard
  <2>1. detected => ~ Sampling  BY DEF IInv, FileInv
  <2> QED  BY <1>2, <1>4, <1>5, <1>6, <1>8, <1>9, <2>1 DEF Seen, Heard, Called
<1>14. FileInv'  BY <1>2, <1>13 DEF IInv, FileInv, Agreed, Consecutive, Size, Sampling
<1>15. HeardInv'  BY <1>2, <1>9, <1>13 DEF IInv, HeardInv, Agreed, Consecutive, Size
<1> QED  BY <1>10, <1>12, <1>14, <1>15 DEF IInv

LEMMA AnalyseKeeps == ASSUME IInv, Analyse PROVE IInv'
<1>1. PICK data \in BOOLEAN :
        /\ detected' = (detected \/ data)
        /\ first' = IF data /\ ~ detected THEN buffer[1] ELSE first
        /\ thread' = IF detected \/ data THEN "store" ELSE "loop"
  BY DEF Analyse
<1>2. /\ thread = "analyse" /\ Running /\ setup' = setup /\ user' = user /\ frozen' = frozen
      /\ captured' = captured /\ buffer' = buffer
      /\ open' = open /\ file' = file /\ dec' = dec
      /\ heard' = heard /\ outside' = outside
  BY DEF Analyse
<1>3. setup \in Setups /\ ~ Sampling  BY <1>2 DEF IInv, BufferInv, Called
<1>4. /\ captured \in Nat /\ Size \in Nat \ {0} /\ Len(buffer) = Size /\ Size <= captured
      /\ \A k \in 1..Len(buffer) : buffer[k] = captured - Len(buffer) + k
      /\ Seen = captured - Size /\ Heard = captured - Size
  BY <1>2, <1>3, Sizes DEF IInv, BufferInv, Called, Seen, Heard
<1>5. ThreadInv'  BY <1>1, <1>2 DEF IInv, ThreadInv, Initialised, Running
<1>6. BufferInv'  BY <1>1, <1>2, <1>3 DEF IInv, BufferInv, Called, Size, Sampling
<1>7. detected' => Seen' = Seen /\ Heard' = Heard
  BY <1>1, <1>2 DEF Seen, Heard, Called
<1>8. detected' /\ ~ detected => first' = Seen + 1
  BY <1>1, <1>4
<1>9. CASE ~ detected'
  <2>1. ~ detected  BY <1>1, <1>9
  <2>2. FileInv'  BY <1>2, <1>9, <2>1 DEF IInv, FileInv
  <2>3. HeardInv'  BY <1>1, <1>2, <1>9, <2>1 DEF IInv, HeardInv
  <2> QED  BY <1>5, <1>6, <2>2, <2>3 DEF IInv
<1>10. CASE detected' /\ ~ detected
  <2>1. Len(file) = 0 /\ Len(heard) = 0  BY <1>10 DEF IInv, FileInv, HeardInv
  <2>2. setup.toFile \in Nat  BY <1>3, Sizes
  <2>3. FileInv'
    BY <1>2, <1>3, <1>4, <1>7, <1>8, <1>10, <2>1, <2>2
       DEF IInv, FileInv, Agreed, Consecutive, Smaller, Sampling
  <2>4. HeardInv'
    BY <1>1, <1>2, <1>4, <1>7, <1>8, <1>10, <2>1 DEF IInv, HeardInv, Agreed, Consecutive
  <2> QED  BY <1>5, <1>6, <2>3, <2>4 DEF IInv
<1>11. CASE detected' /\ detected
  <2>1. first' = first  BY <1>1, <1>11
  <2>2. FileInv'
    BY <1>2, <1>7, <1>11, <2>1 DEF IInv, FileInv, Agreed, Consecutive, Size, Sampling
  <2>3. HeardInv'
    BY <1>1, <1>2, <1>7, <1>11, <2>1 DEF IInv, HeardInv, Agreed, Consecutive, Size
  <2> QED  BY <1>5, <1>6, <2>2, <2>3 DEF IInv
<1> QED  BY <1>9, <1>10, <1>11

(* A file of at most t samples, of which it has what there was of r, takes  *)
(* what it can of z more.                                                   *)
LEMMA Filled ==
  ASSUME NEW t \in Nat, NEW r \in Nat, NEW z \in Nat \ {0}, NEW l \in Nat, NEW k,
         l = IF t < r THEN t ELSE r,
         k = IF t - l < z THEN t - l ELSE z
  PROVE  l + k = IF t < r + z THEN t ELSE r + z
<1>1. CASE t < r
  <2>1. l = t /\ t - l = 0  BY <1>1
  <2> QED  BY <1>1, <2>1
<1>2. CASE ~ (t < r)
  <2>1. l = r  BY <1>2
  <2>2. CASE t - r < z  BY <1>2, <2>1, <2>2
  <2>3. CASE ~ (t - r < z)  BY <1>2, <2>1, <2>3
  <2> QED  BY <2>2, <2>3
<1> QED  BY <1>1, <1>2

LEMMA StoreKeeps == ASSUME IInv, Store PROVE IInv'
<1> DEFINE copied == Smaller(setup.toFile - Len(file), Chunk)
           taken == Smaller(copied, Len(buffer))
           part == SubSeq(buffer, 1, taken)
<1>1. /\ thread = "store" /\ Running /\ setup' = setup /\ user' = user /\ frozen' = frozen
      /\ captured' = captured /\ buffer' = buffer /\ open' = open /\ detected' = detected
      /\ first' = first /\ dec' = dec /\ heard' = heard
      /\ thread' = IF setup.demod = "real_time" THEN "decode" ELSE "loop"
  BY DEF Store
<1>2. file' = file \o part /\ outside' = (outside \/ copied > Len(buffer))
  BY DEF Store
<1>3. setup \in Setups /\ ~ Sampling  BY <1>1 DEF IInv, BufferInv, Called
<1>4. /\ captured \in Nat /\ Chunk \in Nat \ {0} /\ Size \in Nat \ {0} /\ setup.toFile \in Nat
      /\ Len(buffer) = Size /\ Size <= captured /\ buffer \in Seq(Nat)
      /\ \A k \in 1..Size : buffer[k] = captured - Size + k
      /\ Seen = captured - Size /\ Heard = captured - Size
  BY <1>1, <1>3, Sizes DEF IInv, BufferInv, Called, Seen, Heard
<1>5. file \in Seq(Nat) /\ Len(file) \in Nat /\ Len(file) <= setup.toFile
  BY LenProperties DEF IInv, FileInv
<1>6. /\ copied \in Nat /\ copied <= setup.toFile - Len(file) /\ copied <= Chunk
      /\ taken \in Nat /\ taken <= copied /\ taken <= Size
      /\ Size = Chunk => taken = Smaller(setup.toFile - Len(file), Size)
  BY <1>4, <1>5 DEF Smaller
<1> HIDE DEF copied, taken
<1>7. part \in Seq(Nat) /\ Len(part) = taken /\ \A k \in 1..taken : part[k] = captured - Size + k
  <2>1. \A k \in 1..taken : buffer[k] \in Nat  BY <1>4, <1>6, ElementOfSeq
  <2>2. /\ part \in Seq(Nat) /\ Len(part) = IF 1 <= taken THEN taken - 1 + 1 ELSE 0
        /\ \A k \in 1..taken - 1 + 1 : part[k] = buffer[1 + k - 1]
    BY <1>6, <2>1, SubSeqProperties
  <2> QED  BY <1>4, <1>6, <2>2
<1> HIDE DEF part
<1>8. file' \in Seq(Nat) /\ Len(file') = Len(file) + taken
  BY <1>2, <1>5, <1>7, ConcatProperties
<1>9. ThreadInv'
  <2>1. copied > Len(buffer) => setup.device = "alsa" /\ setup.period < Chunk
    BY <1>3, <1>4, <1>6, Sizes
  <2> QED  BY <1>1, <1>2, <2>1 DEF IInv, ThreadInv, Initialised, Running
<1>10. BufferInv'  BY <1>1 DEF IInv, BufferInv, Called, Size, Sampling
<1>11. /\ Seen' = captured /\ Heard' \in Nat /\ Heard <= Heard'
       /\ setup.demod = "real_time" => Heard' = Heard
  <2>1. thread' = "decode" => Seen' = captured - 0 /\ Heard' = captured - Len(buffer)
    BY <1>1 DEF Seen, Heard, Called
  <2>2. thread' = "loop" => Seen' = captured - 0 /\ Heard' = captured - 0
    BY <1>1 DEF Seen, Heard, Called
  <2> QED  BY <1>1, <1>4, <2>1, <2>2
<1>12. FileInv'
  <2>1. CASE ~ detected
    \* The thread stores when data were detected.
    <3>1. FALSE  BY <1>1, <2>1 DEF IInv, ThreadInv
    <3> QED  BY <3>1
  <2>2. CASE detected /\ ~ Agreed
    <3>1. ~ Agreed'  BY <1>1, <2>2 DEF Agreed, Size
    <3> QED  BY <1>1, <1>3, <1>4, <1>5, <1>6, <1>8, <1>11, <2>2, <3>1 DEF IInv, FileInv, Sampling
  <2>3. CASE detected /\ Agreed
    <3>1. /\ first \in Nat \ {0} /\ first <= captured - Size + 1 /\ Size = Chunk
          /\ Len(file) = Smaller(setup.toFile, captured - Size - first + 1)
          /\ \A k \in 1..Len(file) : file[k] = first + k - 1
      BY <1>4, <2>3 DEF IInv, FileInv, Agreed, Consecutive
    <3>2. \A k \in 1..Len(part) : part[k] = first + Len(file) + k - 1
      <4>1. CASE Len(file) = setup.toFile  BY <1>4, <1>5, <1>6, <1>7, <4>1, SMTT(30)
      <4>2. CASE Len(file) # setup.toFile
        <5>1. Len(file) = captured - Size - first + 1
          BY <1>4, <1>5, <3>1, <4>2, SMTT(30) DEF Smaller
        <5>2. captured - Size = first + Len(file) - 1 /\ Len(file) \in Nat
          BY <1>4, <1>5, <3>1, <5>1, SMTT(30)
        <5>3. TAKE k \in 1..Len(part)
        <5>4. k \in Nat /\ part[k] = captured - Size + k  BY <1>6, <1>7
        <5> QED  BY <1>4, <3>1, <5>2, <5>4, SMTT(30)
      <4> QED  BY <4>1, <4>2
    <3>3. \A k \in 1..Len(file') : file'[k] = first + k - 1
      BY <1>2, <1>5, <1>7, <3>1, <3>2, Continued, ZenonT(60)
    <3>4. Len(file') = Smaller(setup.toFile, captured - first + 1)
      <4> DEFINE rest == captured - Size - first + 1
      <4>1. /\ rest \in Nat /\ captured - first + 1 = rest + Size
            /\ Len(file) = IF setup.toFile < rest THEN setup.toFile ELSE rest
        BY <1>4, <3>1 DEF Smaller
      <4>2. taken = IF setup.toFile - Len(file) < Size THEN setup.toFile - Len(file) ELSE Size
        BY <1>6, <3>1 DEF Smaller
      <4> HIDE DEF rest
      <4>3. Len(file) + taken = IF setup.toFile < rest + Size THEN setup.toFile ELSE rest + Size
        BY <1>4, <1>5, <4>1, <4>2, Filled
      <4> QED  BY <1>8, <4>1, <4>3 DEF Smaller
    <3>5. Len(file') <= setup.toFile  BY <1>4, <1>5, <1>6, <1>8
    <3>6. first' \in Nat \ {0} /\ first' <= Heard' + 1
      <4>1. first <= Heard + 1 /\ Heard \in Int  BY <1>4, <3>1
      <4>2. first \in Nat \ {0} /\ first' = first  BY <1>1, <3>1
      <4>3. Heard' \in Nat /\ Heard <= Heard'  BY <1>11
      <4>4. \A a, b, c \in Int : a <= b + 1 /\ b <= c => a <= c + 1  OBVIOUS
      <4>5. first \in Int /\ Heard' \in Int  BY <4>2, <4>3
      <4>6. first <= Heard' + 1  BY <4>1, <4>3, <4>4, <4>5, Zenon
      <4> QED  BY <4>2, <4>6
    <3>7. Consecutive(file)'  BY <1>1, <3>3 DEF Consecutive
    <3>8. ~ Sampling' /\ detected'  BY <1>1, <1>3, <2>3 DEF Sampling
    <3>9. Len(file') = Smaller(setup'.toFile, Seen' - first' + 1)  BY <1>1, <1>11, <3>4
    <3>10. Len(file') <= setup'.toFile  BY <1>1, <3>5
    <3> QED  BY <1>8, <3>6, <3>7, <3>8, <3>9, <3>10 DEF FileInv
  <2> QED  BY <2>1, <2>2, <2>3
<1>13. HeardInv'
  BY <1>1, <1>11 DEF IInv, HeardInv, Agreed, Consecutive, Size
<1> QED  BY <1>9, <1>10, <1>12, <1>13 DEF IInv

(* What the decoder is given is a chunk, whatever the buffer.               *)
LEMMA ChunkGiven ==
  ASSUME setup \in Setups, NEW s \in Seq(Nat)
  PROVE  ChunkOf(s) \in Seq(Nat) /\ Len(ChunkOf(s)) = Chunk
<1>1. Chunk \in Nat /\ Len(s) \in Nat  BY Sizes, LenProperties
<1>2. \A k \in 1..Chunk : (IF k <= Len(s) THEN s[k] ELSE 0) \in Nat  BY <1>1, ElementOfSeq
<1> QED  BY <1>1, <1>2 DEF ChunkOf

(* It is the buffer when their sizes agree.                                 *)
LEMMA ChunkIsBuffer ==
  ASSUME Agreed, setup \in Setups, NEW s \in Seq(Nat), Len(s) = Size
  PROVE  /\ ChunkOf(s) \in Seq(Nat) /\ Len(ChunkOf(s)) = Size
         /\ \A k \in 1..Size : ChunkOf(s)[k] = s[k]
<1>1. Chunk \in Nat /\ Size = Chunk  BY Sizes DEF Agreed
<1>2. \A k \in 1..Chunk : s[k] \in Nat  BY <1>1, ElementOfSeq
<1> QED  BY <1>1, <1>2 DEF ChunkOf

LEMMA DecodeKeeps == ASSUME IInv, Decode PROVE IInv'
<1>1. /\ thread = "decode" /\ Running /\ setup' = setup /\ user' = user /\ frozen' = frozen
      /\ captured' = captured /\ buffer' = buffer /\ open' = open /\ detected' = detected
      /\ first' = first /\ file' = file /\ thread' = "loop"
      /\ dec' = Process(dec, ChunkOf(buffer)) /\ heard' = heard \o ChunkOf(buffer)
      /\ outside' = (outside \/ Len(buffer) < Chunk)
  BY DEF Decode
<1>2. setup \in Setups /\ ~ Sampling  BY <1>1 DEF IInv, BufferInv, Called
<1>3. /\ captured \in Nat /\ Chunk \in Nat \ {0} /\ Size \in Nat \ {0}
      /\ Len(buffer) = Size /\ Size <= captured /\ buffer \in Seq(Nat)
      /\ \A k \in 1..Size : buffer[k] = captured - Size + k
  <2>1. BufferInv /\ Called  BY <1>1 DEF IInv, Called
  <2>2. /\ captured \in 0..MaxSamples /\ buffer \in Seq(Nat) /\ Len(buffer) = Size
        /\ Len(buffer) <= captured
        /\ \A k \in 1..Len(buffer) : buffer[k] = captured - Len(buffer) + k
    BY <1>2, <2>1 DEF BufferInv
  <2> QED  BY <1>2, <2>2, Sizes
<1>3a. Seen = captured - 0 /\ Heard = captured - Size  BY <1>1, <1>3 DEF Seen, Heard, Called
<1>4. Initialised(dec')  BY <1>1, Processed DEF IInv, ThreadInv
<1>5. ThreadInv'
  <2>1. Len(buffer) < Chunk => setup.device = "alsa" /\ setup.period < Chunk
    BY <1>2, <1>3, Sizes
  <2> QED  BY <1>1, <1>4, <2>1 DEF IInv, ThreadInv, Running
<1>6. BufferInv'  BY <1>1 DEF IInv, BufferInv, Called, Size, Sampling
<1>7. Seen' = captured /\ Heard' = captured
  <2>1. Seen' = captured - 0 /\ Heard' = captured - 0  BY <1>1 DEF Seen, Heard, Called
  <2> QED  BY <1>3, <2>1
<1>8. detected  BY <1>1 DEF IInv, ThreadInv
<1>9. FileInv'
  BY <1>1, <1>3, <1>3a, <1>7 DEF IInv, FileInv, Agreed, Consecutive, Size, Sampling
<1>10. heard \in Seq(Nat) /\ Len(heard) \in Nat /\ setup.demod = "real_time"
  BY <1>1, LenProperties DEF IInv, HeardInv
<1>11. ChunkOf(buffer) \in Seq(Nat)  BY <1>2, <1>3, ChunkGiven
<1>12. heard' \in Seq(Nat)  BY <1>1, <1>10, <1>11, ConcatProperties
<1>13. HeardInv'
  <2>1. CASE ~ Agreed
    <3>1. ~ Agreed'  BY <1>1, <2>1 DEF Agreed, Size
    <3> QED  BY <1>1, <1>8, <1>10, <1>12, <3>1 DEF HeardInv
  <2>2. CASE Agreed
    <3>1. /\ ChunkOf(buffer) \in Seq(Nat) /\ Len(ChunkOf(buffer)) = Size
          /\ \A k \in 1..Size : ChunkOf(buffer)[k] = captured - Size + k
      BY <1>2, <1>3, <2>2, ChunkIsBuffer
    <3>2. /\ first \in Nat \ {0} /\ Len(heard) = captured - Size - first + 1
          /\ \A k \in 1..Len(heard) : heard[k] = first + k - 1
      BY <1>1, <1>3a, <1>8, <1>10, <2>2 DEF IInv, FileInv, HeardInv, Consecutive
    <3>3. \A k \in 1..Len(ChunkOf(buffer)) : ChunkOf(buffer)[k] = first + Len(heard) + k - 1
      BY <1>3, <3>1, <3>2
    <3>4. /\ Len(heard') = Len(heard) + Size
          /\ \A k \in 1..Len(heard') : heard'[k] = first + k - 1
      BY <1>1, <1>10, <3>1, <3>2, <3>3, Continued, ZenonT(60)
    <3>5. Len(heard') = captured - first + 1  BY <1>3, <3>2, <3>4
    <3> QED  BY <1>1, <1>7, <1>8, <1>10, <1>12, <3>4, <3>5 DEF HeardInv, Consecutive
  <2> QED  BY <2>1, <2>2
<1> QED  BY <1>5, <1>6, <1>9, <1>13 DEF IInv

(* The deferred decoding takes the chunks that the file has whole.          *)
LEMMA DeferredIs ==
  ASSUME IInv, setup.demod = "deferred"
  PROVE  /\ Deferred \in Seq(Nat)
         /\ Len(Deferred) = (Len(file) \div Chunk) * Chunk
         /\ Len(Deferred) \in 0..Len(file)
         /\ \A k \in 1..Len(Deferred) : Deferred[k] = file[k]
<1> DEFINE whole == (Len(file) \div Chunk) * Chunk
<1>1. file \in Seq(Nat) /\ Len(file) \in Nat /\ Chunk \in Nat \ {0}
  BY LenProperties, Sizes DEF IInv, BufferInv, FileInv
<1>2. whole \in 0..Len(file)
  <2>1. \A n \in Nat, c \in Nat \ {0} : (n \div c) * c \in 0..n  OBVIOUS
  <2> QED  BY <1>1, <2>1
<1>3. Deferred = SubSeq(file, 1, whole)  BY DEF Deferred
<1> HIDE DEF whole
<1>4. \A k \in 1..whole : file[k] \in Nat  BY <1>1, <1>2, ElementOfSeq
<1>5. /\ Deferred \in Seq(Nat) /\ Len(Deferred) = IF 1 <= whole THEN whole - 1 + 1 ELSE 0
      /\ \A k \in 1..whole - 1 + 1 : Deferred[k] = file[1 + k - 1]
  BY <1>2, <1>3, <1>4, SubSeqProperties
<1>6. Len(Deferred) = whole /\ \A k \in 1..whole : Deferred[k] = file[k]  BY <1>2, <1>5
<1> QED  BY <1>2, <1>5, <1>6 DEF whole

LEMMA JoinedKeeps == ASSUME IInv, Joined PROVE IInv'
<1>1. /\ thread = "gone" /\ user' = "off" /\ thread' = "none" /\ setup' = setup
      /\ frozen' = frozen /\ captured' = captured /\ buffer' = buffer /\ open' = FALSE
      /\ detected' = detected /\ first' = first /\ file' = file /\ dec' = Terminated
      /\ outside' = outside /\ heard' = heard \o Deferred
  BY DEF Joined
<1>2. setup \in Setups /\ Chunk \in Nat \ {0}  BY Sizes DEF IInv, BufferInv
<1>3. ThreadInv'  BY <1>1 DEF IInv, ThreadInv
<1>4. BufferInv'  BY <1>1 DEF IInv, BufferInv, Called, Size
<1>5. Seen' = Seen /\ Heard' = Heard  BY <1>1 DEF Seen, Heard, Called
<1>6. FileInv'
  BY <1>1, <1>5 DEF IInv, FileInv, Agreed, Consecutive, Size, Sampling
<1>7. file \in Seq(Nat) /\ Len(file) \in Nat /\ heard \in Seq(Nat)
  BY LenProperties DEF IInv, FileInv, HeardInv
<1>9. CASE setup.demod = "deferred"
  <2>3. /\ Deferred \in Seq(Nat) /\ Len(Deferred) \in 0..Len(file)
        /\ \A k \in 1..Len(Deferred) : Deferred[k] = file[k]
    BY <1>9, DeferredIs
  <2>4. Len(heard) = 0  BY <1>1, <1>9 DEF IInv, HeardInv
  <2>5. /\ heard' \in Seq(Nat) /\ Len(heard') = Len(Deferred)
        /\ \A k \in 1..Len(heard') : heard'[k] = file[k]
    BY <1>1, <1>7, <2>3, <2>4, ConcatProperties
  <2>6. detected /\ Agreed => \A k \in 1..Len(heard') : heard'[k] = first + k - 1
    BY <1>7, <2>3, <2>5 DEF IInv, FileInv, Consecutive
  <2>7. ~ detected => Len(heard') = 0  BY <1>7, <2>3, <2>5 DEF IInv, FileInv
  <2> QED  BY <1>1, <1>3, <1>4, <1>6, <2>5, <2>6, <2>7
           DEF IInv, HeardInv, Agreed, Consecutive, Size
<1>10. CASE setup.demod # "deferred"
  <2>1. Deferred = <<>>  BY <1>10 DEF Deferred
  <2>2. heard' = heard  BY <1>1, <1>7, <2>1, ConcatEmptySeq
  <2>3. HeardInv'  BY <1>1, <1>5, <2>2 DEF IInv, HeardInv, Agreed, Consecutive, Size
  <2> QED  BY <1>3, <1>4, <1>6, <2>3 DEF IInv
<1> QED  BY <1>9, <1>10
-----------------------------------------------------------------------------
LEMMA InductiveStep == IInv /\ [CaptureNext]_captureVars => IInv'
<1> SUFFICES ASSUME IInv, [CaptureNext]_captureVars PROVE IInv'  OBVIOUS
<1>1. CASE UNCHANGED captureVars  BY <1>1, Unchanged
<1>2. CASE ThreadStep
  BY <1>2, BeginKeeps, TestKeeps, ReadKeeps, AnalyseKeeps, StoreKeeps, DecodeKeeps
     DEF ThreadStep
<1>3. CASE StartCapture \/ StartCaptureFails  BY <1>3, StartKeeps, FailureKeeps
<1>4. CASE Freeze \/ Overrun \/ StartAgainAborts \/ StopCapture \/ JoinTimesOut
  BY <1>4, EndsKeep
<1>5. CASE Joined  BY <1>5, JoinedKeeps
<1> QED  BY <1>1, <1>2, <1>3, <1>4, <1>5 DEF CaptureNext

LEMMA Invariance == CaptureSpec => []IInv
BY InitEstablishes, InductiveStep, PTL DEF CaptureSpec

(* The variables of a capture keep their types: the buffer is never filled  *)
(* beyond its size, nor the file beyond the one asked for.                  *)
THEOREM CaptureTypes == CaptureSpec => []CaptureTypeOK
<1>1. IInv => CaptureTypeOK
  BY DEF IInv, ThreadInv, BufferInv, FileInv, CaptureTypeOK
<1> QED  BY <1>1, Invariance, PTL

(* The file of a capture has the samples from the first buffer with data on *)
(* without gaps, and all that fit, whatever the sizes of the buffers and of *)
(* the file, and whenever data appear and the user stops.                   *)
THEOREM FileWhole == CaptureSpec => []FileIsWhatWasCaptured
<1>1. IInv => FileIsWhatWasCaptured
  <2> SUFFICES ASSUME IInv, Agreed
               PROVE  /\ Consecutive(file)
                      /\ user = "off" /\ thread = "none" /\ detected
                           => Len(file) = Smaller(setup.toFile, captured - first + 1)
    BY DEF FileIsWhatWasCaptured
  <2>1. Consecutive(file)
    <3>1. CASE detected  BY <3>1 DEF IInv, FileInv
    <3>2. CASE ~ detected  BY <3>2 DEF IInv, FileInv, Consecutive
    <3> QED  BY <3>1, <3>2
  <2>2. ASSUME thread = "none", detected
        PROVE  Len(file) = Smaller(setup.toFile, captured - first + 1)
    <3>1. Seen = captured - 0  BY <2>2 DEF Seen
    <3>2. captured \in Int  BY Sizes DEF IInv, BufferInv
    <3> QED  BY <2>2, <3>1, <3>2 DEF IInv, FileInv
  <2> QED  BY <2>1, <2>2
<1> QED  BY <1>1, Invariance, PTL

(* So do the samples that the decoder is given, as they come or at the end. *)
LEMMA HeardWhole == ASSUME IInv, Agreed PROVE Consecutive(heard)
<1>1. CASE detected  BY <1>1 DEF IInv, HeardInv
<1>2. CASE ~ detected  BY <1>2 DEF IInv, HeardInv, Consecutive
<1> QED  BY <1>1, <1>2

(* The callback never runs on what rx_stop_capture released, and the known  *)
(* causes are the only ones of an assertion and of a read past a buffer.    *)
THEOREM KnownFailures == CaptureSpec => []FailuresAreKnown
<1>1. IInv => FailuresAreKnown
  BY NotTerminated DEF IInv, ThreadInv, FailuresAreKnown
<1> QED  BY <1>1, Invariance, PTL
(***************************************************************************)
(*                  The filter, chunk after chunk                          *)
(***************************************************************************)
(* Numbers are well-founded: a set of them that is not empty has a least    *)
(* one, and so a set with 0 and the number after each of its own has all.   *)
LEMMA LessIsWellFounded == IsWellFoundedOn({ss \in Nat \X Nat : ss[1] < ss[2]}, Nat)
  BY NatLessThanWellFounded DEF OpToRel

LEMMA LeastNatural ==
  ASSUME NEW T, T \subseteq Nat, T # {} PROVE \E x \in T : \A y \in T : x <= y
<1> DEFINE R == {ss \in Nat \X Nat : ss[1] < ss[2]}
<1>1. IsWellFoundedOn(R, Nat)  BY LessIsWellFounded
<1> HIDE DEF R
<1>2. PICK x \in T : \A y \in T : <<y, x>> \notin R  BY <1>1, WFMin
<1>3. \A y \in T : ~ (y < x)  BY <1>2 DEF R
<1> QED  BY <1>3

LEMMA InductionOnSet ==
  ASSUME NEW T, NEW m \in Nat, 0 \in T, \A n \in 0..m - 1 : n \in T => n + 1 \in T
  PROVE  0..m \subseteq T
<1> DEFINE U == (0..m) \ T
<1>1. SUFFICES ASSUME U # {} PROVE FALSE  OBVIOUS
<1>2. U \subseteq Nat  OBVIOUS
<1>3. PICK x \in U : \A y \in U : x <= y
  <2> HIDE DEF U
  <2> QED  BY <1>1, <1>2, LeastNatural
<1>4. x \in 0..m /\ x # 0 /\ x - 1 \in 0..m - 1 /\ (x - 1) + 1 = x  OBVIOUS
<1>5. x - 1 \notin U  BY <1>3, <1>4
<1> QED  BY <1>4, <1>5

(* The taps are numbered from 0, and a chunk has as many samples or more.   *)
LEMMA TapsAre ==
  Count \in Nat \ {0} /\ Taps = 0..Count - 1 /\ Chunk \in Nat \ {0} /\ Chunk >= Count
<1>1. Count \in Nat /\ Taps = 0..Count - 1 /\ 0 \in Taps
  BY SignalIirAssumption, FS_CardinalityType DEF SignalIirAssumption, Taps, Count
<1> QED  BY <1>1, SignalIirAssumption DEF SignalIirAssumption, Taps, Count

(* The response depends on the inputs and the outputs of the taps.          *)
LEMMA ResponseOf ==
  ASSUME NEW in, NEW out, NEW i \in Int, NEW in2, NEW out2, NEW j \in Int,
         \A k \in 0..Count - 1 : in[i - k] = in2[j - k],
         \A k \in 1..Count - 1 : out[i - k] = out2[j - k]
  PROVE  Response(in, out, i) = Response(in2, out2, j)
<1>1. [k \in Taps |-> IirB[k] * in[i - k]] = [k \in Taps |-> IirB[k] * in2[j - k]]
  BY TapsAre
<1>2. [k \in Taps \ {0} |-> IirA[k] * out[i - k]] = [k \in Taps \ {0} |-> IirA[k] * out2[j - k]]
  BY TapsAre
<1> QED  BY <1>1, <1>2, Zenon DEF Response

(* Two filters that begin alike and hear the same, d places apart, stay     *)
(* alike.                                                                   *)
BeginAlike(in, f, in2, g, s, lo, hi, d) ==
  /\ lo \in Int /\ hi \in Int /\ s \in Int /\ d \in Int /\ lo + Count <= s + 1
  /\ \A n \in lo..hi : in[n] = in2[n + d]
  /\ \A n \in lo..hi : n < s => f[n] = g[n + d]
  /\ \A n \in lo..hi : n >= s => f[n] = Response(in, f, n)
  /\ \A n \in lo..hi : n >= s => g[n + d] = Response(in2, g, n + d)

LEMMA FiltersAgree ==
  ASSUME NEW in, NEW f, NEW in2, NEW g, NEW s, NEW lo, NEW hi, NEW d,
         BeginAlike(in, f, in2, g, s, lo, hi, d)
  PROVE  \A n \in lo..hi : f[n] = g[n + d]
<1> USE DEF BeginAlike
<1> DEFINE T == {m \in Nat : \A n \in lo..hi : n <= s + m - 1 => f[n] = g[n + d]}
<1>1. 0 \in T  OBVIOUS
<1>2. ASSUME NEW m \in Nat, m \in T PROVE m + 1 \in T
  <2> SUFFICES ASSUME NEW n \in lo..hi, n <= s + m PROVE f[n] = g[n + d]  OBVIOUS
  <2>1. CASE n <= s + m - 1  BY <1>2, <2>1
  <2>2. CASE n = s + m
    <3>1. \A k \in 0..Count - 1 : in[n - k] = in2[(n + d) - k]
      <4> SUFFICES ASSUME NEW k \in 0..Count - 1 PROVE in[n - k] = in2[(n + d) - k]  OBVIOUS
      <4>1. n - k \in lo..hi /\ (n - k) + d = (n + d) - k  BY <2>2, TapsAre
      <4> QED  BY <4>1
    <3>2. \A k \in 1..Count - 1 : f[n - k] = g[(n + d) - k]
      <4> SUFFICES ASSUME NEW k \in 1..Count - 1 PROVE f[n - k] = g[(n + d) - k]  OBVIOUS
      <4>1. n - k \in lo..hi /\ (n - k) + d = (n + d) - k /\ n - k <= s + m - 1  BY <2>2, TapsAre
      <4>2. f[n - k] = g[(n - k) + d]  BY <1>2, <4>1
      <4> QED  BY <4>1, <4>2
    <3>3. Response(in, f, n) = Response(in2, g, n + d)  BY <3>1, <3>2, ResponseOf
    <3> QED  BY <2>2, <3>3
  <2> QED  BY <2>1, <2>2
<1> HIDE DEF T
<1>3. ASSUME NEW m \in Nat PROVE m \in T
  <2>1. 0..m \subseteq T  BY <1>1, <1>2, InductionOnSet
  <2> QED  BY <2>1
<1> SUFFICES ASSUME NEW n \in lo..hi PROVE f[n] = g[n + d]  OBVIOUS
<1>4. CASE n < s  BY <1>4
<1>5. CASE n >= s
  <2>1. n - s + 1 \in T  BY <1>3, <1>5
  <2> QED  BY <1>5, <2>1 DEF T
<1> QED  BY <1>4, <1>5

(* f filters in from place s on, after what is before; there is such an f   *)
(* for each input and each beginning that covers the taps.                  *)
IsFiltered(in, before, s, lo, hi, f) ==
  f = [n \in lo..hi |-> IF n < s THEN before[n] ELSE Response(in, f, n)]

LEMMA FilteredAt ==
  ASSUME NEW in, NEW before, NEW s, NEW lo, NEW hi, NEW f, IsFiltered(in, before, s, lo, hi, f),
         NEW n \in lo..hi
  PROVE  f[n] = IF n < s THEN before[n] ELSE Response(in, f, n)
  BY DEF IsFiltered

LEMMA FilterExists ==
  ASSUME NEW lo \in Int, NEW hi \in Int, NEW s \in Int, NEW in, NEW before, lo + Count <= s + 1
  PROVE  \E f : IsFiltered(in, before, s, lo, hi, f)
<1> DEFINE T == {m \in Nat : \E f : IsFiltered(in, before, s, lo, s + m - 1, f)}
<1>1. 0 \in T
  <2> DEFINE f == [n \in lo..s - 1 |-> before[n]]
  <2>1. f = [n \in lo..s - 1 |-> IF n < s THEN before[n] ELSE Response(in, f, n)]  OBVIOUS
  <2> HIDE DEF f
  <2>2. IsFiltered(in, before, s, lo, s + 0 - 1, f)  BY <2>1 DEF IsFiltered
  <2> QED  BY <2>2
<1>2. ASSUME NEW m \in Nat, m \in T PROVE m + 1 \in T
  <2>1. PICK f : IsFiltered(in, before, s, lo, s + m - 1, f)  BY <1>2
  <2> DEFINE g == [n \in lo..s + m |-> IF n = s + m THEN Response(in, f, n) ELSE f[n]]
  <2>2. ASSUME NEW n \in lo..s + m PROVE g[n] = IF n < s THEN before[n] ELSE Response(in, g, n)
    <3>1. CASE n < s
      <4>1. n \in lo..s + m - 1 /\ n # s + m  BY <3>1
      <4> QED  BY <2>1, <3>1, <4>1 DEF IsFiltered
    <3>2. CASE ~ (n < s)
      <4>1. \A k \in 1..Count - 1 : f[n - k] = g[n - k]
        <5> SUFFICES ASSUME NEW k \in 1..Count - 1 PROVE f[n - k] = g[n - k]  OBVIOUS
        <5>1. n - k \in lo..s + m /\ n - k # s + m  BY <3>2, TapsAre
        <5> QED  BY <5>1
      <4>2. g[n] = Response(in, f, n)
        <5>1. CASE n = s + m  BY <5>1
        <5>2. CASE n # s + m
          <6>1. n \in lo..s + m - 1 /\ g[n] = f[n]  BY <5>2
          <6> HIDE DEF g
          <6> QED  BY <2>1, <3>2, <6>1 DEF IsFiltered
        <5> QED  BY <5>1, <5>2
      <4> HIDE DEF g
      <4>3. Response(in, f, n) = Response(in, g, n)  BY <4>1, ResponseOf
      <4> QED  BY <3>2, <4>2, <4>3
    <3> QED  BY <3>1, <3>2
  <2>3. g = [n \in lo..s + m |-> g[n]]  OBVIOUS
  <2> HIDE DEF g
  <2>4. g = [n \in lo..s + m |-> IF n < s THEN before[n] ELSE Response(in, g, n)]
    BY <2>2, <2>3
  <2>5. s + (m + 1) - 1 = s + m  OBVIOUS
  <2>6. IsFiltered(in, before, s, lo, s + (m + 1) - 1, g)  BY <2>4, <2>5 DEF IsFiltered
  <2> QED  BY <2>6
<1> HIDE DEF T
<1>3. CASE hi < s
  <2> DEFINE f == [n \in lo..hi |-> before[n]]
  <2>1. f = [n \in lo..hi |-> IF n < s THEN before[n] ELSE Response(in, f, n)]  BY <1>3
  <2> HIDE DEF f
  <2> QED  BY <2>1 DEF IsFiltered
<1>4. CASE hi >= s
  <2>1. hi - s + 1 \in Nat /\ s + (hi - s + 1) - 1 = hi  BY <1>4
  <2>2. 0..hi - s + 1 \subseteq T  BY <1>1, <1>2, <2>1, InductionOnSet
  <2>3. hi - s + 1 \in T  BY <2>1, <2>2
  <2> QED  BY <2>1, <2>3 DEF T
<1> QED  BY <1>3, <1>4
-----------------------------------------------------------------------------
(* What Process and Whole put into the filter, and what Whole gets from it. *)
HeardBy(iir, chunk) ==
  [n \in Places |->
     IF n < Count THEN Chained(iir.in)[n]
     ELSE Demodulated(iir.demodulator, iir.counter + n - Count, chunk[n - Count + 1])]
Upto(out, m) == [n \in 1..m |-> out[n]]
WholeIn(demodulator, start, samples) ==
  [n \in 1 - Count..Len(samples) |->
     IF n < 1 THEN start ELSE Demodulated(demodulator, n - 1, samples[n])]
WholeOut(demodulator, start, samples) ==
  CHOOSE out : out = [n \in 1 - Count..Len(samples) |->
    IF n < 1 THEN start ELSE Response(WholeIn(demodulator, start, samples), out, n)]

(* A chunk is filtered after the end of the one before, a whole signal after*)
(* what the filter starts with.                                             *)
LEMMA ProcessFilters ==
  ASSUME NEW iir, NEW chunk, iir = [in |-> iir.in, out |-> iir.out, counter |-> iir.counter,
                                    demodulator |-> iir.demodulator]
  PROVE  LET p == Process(iir, chunk) IN
         /\ p = [in |-> HeardBy(iir, chunk), out |-> p.out, counter |-> p.counter,
                 demodulator |-> iir.demodulator]
         /\ p.counter = IF iir.demodulator = "cos" THEN iir.counter + Chunk ELSE iir.counter
         /\ IsFiltered(HeardBy(iir, chunk), Chained(iir.out), Count, 0, Count + Chunk - 1, p.out)
<1> DEFINE in == HeardBy(iir, chunk)
           before == Chained(iir.out)
           out == CHOOSE out : out = [n \in Places |->
                    IF n < Count THEN before[n] ELSE Response(in, out, n)]
           c == IF iir.demodulator = "cos" THEN iir.counter + Chunk ELSE iir.counter
           p == Process(iir, chunk)
<1>1. p = [iir EXCEPT !.in = in, !.out = out,
                      !.counter = IF iir.demodulator = "cos" THEN @ + Chunk ELSE @]
  BY Zenon DEF Process, HeardBy
<1> HIDE DEF in, out, p
<1>2. p = [in |-> in, out |-> out, counter |-> c, demodulator |-> iir.demodulator]
  BY <1>1
<1>3. \E f : f = [n \in Places |-> IF n < Count THEN before[n] ELSE Response(in, f, n)]
  <2>1. 0 + Count <= Count + 1 /\ Count + Chunk - 1 \in Int  BY TapsAre
  <2>2. \E f : IsFiltered(in, before, Count, 0, Count + Chunk - 1, f)
    <3> HIDE DEF before
    <3>1. Count \in Int /\ 0 \in Int  BY TapsAre
    <3> QED  BY <2>1, <3>1, FilterExists
  <2> QED  BY <2>2, Zenon DEF IsFiltered, Places
<1>4. out = [n \in Places |-> IF n < Count THEN before[n] ELSE Response(in, out, n)]
  BY <1>3, Zenon DEF out
<1>5. IsFiltered(in, before, Count, 0, Count + Chunk - 1, out)
  BY <1>4, Zenon DEF IsFiltered, Places
<1> QED  BY <1>2, <1>5 DEF in, p

LEMMA WholeFiltered ==
  ASSUME NEW demodulator, NEW start, NEW samples, Len(samples) \in Nat
  PROVE  /\ IsFiltered(WholeIn(demodulator, start, samples), [n \in Int |-> start], 1, 1 - Count,
                       Len(samples), WholeOut(demodulator, start, samples))
         /\ Whole(demodulator, start, samples)
            = Upto(WholeOut(demodulator, start, samples), Len(samples))
<1> DEFINE in == WholeIn(demodulator, start, samples)
           out == WholeOut(demodulator, start, samples)
           before == [n \in Int |-> start]
<1>1. Whole(demodulator, start, samples) = Upto(out, Len(samples))
  BY Zenon DEF Whole, WholeIn, WholeOut, Upto
<1>2. \E f : IsFiltered(in, before, 1, 1 - Count, Len(samples), f)
  <2> DEFINE lo == 1 - Count
             hi == Len(samples)
             s == 1
  <2>1. lo \in Int /\ hi \in Int /\ s \in Int /\ lo + Count <= s + 1  BY TapsAre
  <2> HIDE DEF in, before, lo, hi, s
  <2>2. \E f : IsFiltered(in, before, s, lo, hi, f)  BY <2>1, FilterExists
  <2> QED  BY <2>2, Zenon DEF lo, hi, s
<1>3. \A f : IsFiltered(in, before, 1, 1 - Count, Len(samples), f)
             <=> f = [n \in 1 - Count..Len(samples) |-> IF n < 1 THEN start ELSE Response(in, f, n)]
  <2> SUFFICES ASSUME NEW f
               PROVE [n \in 1 - Count..Len(samples) |->
                        IF n < 1 THEN before[n] ELSE Response(in, f, n)]
               = [n \in 1 - Count..Len(samples) |-> IF n < 1 THEN start ELSE Response(in, f, n)]
    BY DEF IsFiltered
  <2>1. \A n \in 1 - Count..Len(samples) : before[n] = start  BY TapsAre
  <2> HIDE DEF before
  <2> QED  BY <2>1
<1>4. IsFiltered(in, before, 1, 1 - Count, Len(samples), out)
  <2>1. \E f : f = [n \in 1 - Count..Len(samples) |-> IF n < 1 THEN start ELSE Response(in, f, n)]
    BY <1>2, <1>3
  <2>2. out = [n \in 1 - Count..Len(samples) |-> IF n < 1 THEN start ELSE Response(in, out, n)]
    BY <2>1, Zenon DEF WholeOut
  <2> QED  BY <1>3, <2>2
<1> QED  BY <1>1, <1>4
-----------------------------------------------------------------------------
(* The concatenation of two sequences, by their places.                     *)
Fills(a, m) == a = [n \in 1..m |-> a[n]]
OneAndOther(a, b, m, l) == a \o b = [n \in 1..m + l |-> IF n <= m THEN a[n] ELSE b[n - m]]
LEMMA Joining ==
  ASSUME NEW m \in Nat, NEW l \in Nat, NEW a, NEW b, Fills(a, m), Fills(b, l)
  PROVE  OneAndOther(a, b, m, l)
<1>1. a = [n \in 1..m |-> a[n]] /\ b = [n \in 1..l |-> b[n]]  BY DEF Fills
<1>2. Len(a) = m /\ Len(b) = l  BY <1>1
<1> QED  BY <1>1, <1>2 DEF OneAndOther

(* What the filter keeps of the samples that it has heard: their number, if *)
(* the demodulation counts them, and the last inputs and outputs, as many   *)
(* as taps.                                                                 *)
Memory(iir, demodulator, start, samples) ==
  /\ iir = [in |-> iir.in, out |-> iir.out, counter |-> iir.counter, demodulator |-> demodulator]
  /\ demodulator = "cos" => iir.counter = Len(samples)
  /\ \A n \in 0..Count - 1 :
       LET k == Len(samples) - Count + 1 + n IN
       /\ iir.in[Chunk + n] = WholeIn(demodulator, start, samples)[k]
       /\ iir.out[Chunk + n] = WholeOut(demodulator, start, samples)[k]

(* A created filter has heard nothing.                                      *)
LEMMA CreatedMemory ==
  ASSUME NEW demodulator, NEW start
  PROVE  Memory(IirCreate(demodulator, start), demodulator, start, <<>>)
<1> DEFINE h == <<>>
           iir == IirCreate(demodulator, start)
<1>1. Len(h) = 0  OBVIOUS
<1>2. \A n \in 0..Count - 1 : iir.in[Chunk + n] = start /\ iir.out[Chunk + n] = start
  <2>1. \A n \in 0..Count - 1 : Chunk + n \in Places /\ ~ (Chunk + n < Count)
    BY TapsAre DEF Places
  <2> QED  BY <2>1 DEF IirCreate
<1>3. iir = [in |-> iir.in, out |-> iir.out, counter |-> iir.counter, demodulator |-> demodulator]
      /\ iir.counter = 0
  BY DEF IirCreate
<1> HIDE DEF h, iir
<1>4. IsFiltered(WholeIn(demodulator, start, h), [n \in Int |-> start], 1, 1 - Count, 0,
                 WholeOut(demodulator, start, h))
  <2>1. Len(h) \in Nat  BY <1>1
  <2>2. IsFiltered(WholeIn(demodulator, start, h), [n \in Int |-> start], 1, 1 - Count, Len(h),
                   WholeOut(demodulator, start, h))
    BY <2>1, WholeFiltered, Zenon
  <2> QED  BY <1>1, <2>2
<1>5. ASSUME NEW n \in 0..Count - 1
      PROVE  LET k == Len(h) - Count + 1 + n IN
             WholeIn(demodulator, start, h)[k] = start /\ WholeOut(demodulator, start, h)[k] = start
  <2>1. 0 - Count + 1 + n \in 1 - Count..0  BY TapsAre
  <2> QED  BY <1>1, <1>4, <2>1 DEF IsFiltered, WholeIn
<1>6. Memory(iir, demodulator, start, h)  BY <1>1, <1>2, <1>3, <1>5 DEF Memory
<1> QED  BY <1>6 DEF h, iir

GoesOn(iir, demodulator, start, h, chunk) ==
  Whole(demodulator, start, h \o chunk)
  = Whole(demodulator, start, h) \o Output(Process(iir, chunk))

(* A chunk goes on where the one before ended: the output for it comes after*)
(* what a whole signal gives until then, and so does the memory.            *)
LEMMA ProcessGoesOn ==
  ASSUME NEW iir, NEW demodulator \in {"abs", "cos"}, NEW start,
         NEW S, NEW h \in Seq(S), NEW chunk \in Seq(S), Len(chunk) = Chunk,
         Memory(iir, demodulator, start, h)
  PROVE  /\ Memory(Process(iir, chunk), demodulator, start, h \o chunk)
         /\ GoesOn(iir, demodulator, start, h, chunk)
<1> DEFINE m == Len(h)
           all == h \o chunk
           p == Process(iir, chunk)
           in == HeardBy(iir, chunk)
           V == WholeIn(demodulator, start, h)
           W == WholeOut(demodulator, start, h)
           V2 == WholeIn(demodulator, start, all)
           W2 == WholeOut(demodulator, start, all)
           before == [n \in Int |-> start]
           last == Count + Chunk - 1
           d == m + 1 - Count
<1>1. /\ m \in Nat /\ Len(all) = m + Chunk /\ all \in Seq(S)
      /\ \A n \in 1..m : all[n] = h[n]
      /\ \A n \in 1..Chunk : all[m + n] = chunk[n]
  BY TapsAre
<1>2. /\ p = [in |-> in, out |-> p.out, counter |-> p.counter, demodulator |-> demodulator]
      /\ p.counter = IF demodulator = "cos" THEN iir.counter + Chunk ELSE iir.counter
      /\ IsFiltered(in, Chained(iir.out), Count, 0, last, p.out)
  <2>1. iir.demodulator = demodulator  BY DEF Memory
  <2>2. iir = [in |-> iir.in, out |-> iir.out, counter |-> iir.counter,
               demodulator |-> iir.demodulator]
    BY <2>1 DEF Memory
  <2> QED  BY <2>1, <2>2, ProcessFilters
<1>3. /\ IsFiltered(V, before, 1, 1 - Count, m, W)
      /\ Whole(demodulator, start, h) = [n \in 1..m |-> W[n]]
  <2>1. Len(h) \in Nat  BY <1>1
  <2>2. IsFiltered(V, before, 1, 1 - Count, Len(h), W)  BY <2>1, WholeFiltered, Zenon
  <2>3. Whole(demodulator, start, h) = Upto(W, Len(h))  BY <2>1, WholeFiltered, Zenon
  <2> QED  BY <2>2, <2>3 DEF Upto
<1>4. /\ IsFiltered(V2, before, 1, 1 - Count, m + Chunk, W2)
      /\ Whole(demodulator, start, all) = [n \in 1..m + Chunk |-> W2[n]]
  <2>1. Len(all) \in Nat /\ Len(all) = m + Chunk  BY <1>1, TapsAre
  <2>2. IsFiltered(V2, before, 1, 1 - Count, Len(all), W2)  BY <2>1, WholeFiltered, Zenon
  <2>3. Whole(demodulator, start, all) = Upto(W2, Len(all))  BY <2>1, WholeFiltered, Zenon
  <2> QED  BY <2>1, <2>2, <2>3 DEF Upto
<1>5. \A n \in 1 - Count..m : V[n] = V2[n]
  BY <1>1, TapsAre DEF WholeIn
<1>6. \A n \in 0..last :
        in[n] = IF n < Count THEN iir.in[Chunk + n]
                ELSE Demodulated(demodulator, iir.counter + n - Count, chunk[n - Count + 1])
  <2>1. Places = 0..last /\ iir.demodulator = demodulator  BY DEF Places, Memory
  <2> QED  BY <2>1 DEF HeardBy, Chained
<1>7. \A n \in 0..last : n < Count => Chained(iir.out)[n] = iir.out[Chunk + n]
  BY DEF Places, Chained
<1>8. \A n \in 1 - Count..m + Chunk :
        V2[n] = IF n < 1 THEN start ELSE Demodulated(demodulator, n - 1, all[n])
  BY <1>1 DEF WholeIn
<1>9. \A n \in 0..Count - 1 : iir.in[Chunk + n] = V[n + d] /\ iir.out[Chunk + n] = W[n + d]
  <2> SUFFICES ASSUME NEW n \in 0..Count - 1
               PROVE  iir.in[Chunk + n] = V[n + d] /\ iir.out[Chunk + n] = W[n + d]
    OBVIOUS
  <2>1. m - Count + 1 + n = n + d  BY <1>1, TapsAre
  <2> QED  BY <2>1 DEF Memory
<1>10. demodulator = "cos" => iir.counter = m  BY DEF Memory
<1> HIDE DEF all, p, in, V, W, V2, W2, before, m
<1>11. \A n \in 1 - Count..m : W[n] = W2[n]
  <2>1. \A n \in 1 - Count..m : /\ n < 1 => W[n] = start
                                /\ n >= 1 => W[n] = Response(V, W, n)
    <3> SUFFICES ASSUME NEW n \in 1 - Count..m
                 PROVE (n < 1 => W[n] = start) /\ (n >= 1 => W[n] = Response(V, W, n))
      OBVIOUS
    <3>1. W[n] = IF n < 1 THEN before[n] ELSE Response(V, W, n)  BY <1>3, FilteredAt
    <3>2. n \in Int /\ before[n] = start  BY <1>1, TapsAre DEF before
    <3> QED  BY <3>1, <3>2
  <2>2. \A n \in 1 - Count..m : /\ n < 1 => W2[n] = start
                                /\ n >= 1 => W2[n] = Response(V2, W2, n)
    <3> SUFFICES ASSUME NEW n \in 1 - Count..m
                 PROVE (n < 1 => W2[n] = start) /\ (n >= 1 => W2[n] = Response(V2, W2, n))
      OBVIOUS
    <3>1. n \in Int /\ n \in 1 - Count..m + Chunk /\ before[n] = start
      BY <1>1, TapsAre DEF before
    <3>2. W2[n] = IF n < 1 THEN before[n] ELSE Response(V2, W2, n)  BY <1>4, <3>1, FilteredAt
    <3> QED  BY <3>1, <3>2
  <2> DEFINE lo == 1 - Count
             s == 1
             e == 0
  <2>3. lo \in Int /\ s \in Int /\ e \in Int /\ m \in Int /\ lo + Count <= s + 1
    BY <1>1, TapsAre
  <2>4. \A n \in lo..m : n + e = n /\ n \in Int  BY <2>3
  <2>5. /\ \A n \in lo..m : V[n] = V2[n + e]
        /\ \A n \in lo..m : n < s => W[n] = W2[n + e]
        /\ \A n \in lo..m : n >= s => W[n] = Response(V, W, n)
        /\ \A n \in lo..m : n >= s => W2[n + e] = Response(V2, W2, n + e)
    BY <1>5, <2>1, <2>2, <2>4
  <2> HIDE DEF lo, s, e
  <2>6. BeginAlike(V, W, V2, W2, s, lo, m, e)  BY <2>3, <2>5 DEF BeginAlike
  <2>7. \A n \in lo..m : W[n] = W2[n + e]
    BY <2>6, FiltersAgree
  <2> QED  BY <2>4, <2>7 DEF lo
<1>12. \A n \in 0..last : n + d \in 1 - Count..m + Chunk
  BY <1>1, TapsAre
<1>13. \A n \in 0..last : in[n] = V2[n + d]
  <2> SUFFICES ASSUME NEW n \in 0..last PROVE in[n] = V2[n + d]  OBVIOUS
  <2>1. CASE n < Count
    <3>1. n \in 0..Count - 1 /\ n + d \in 1 - Count..m  BY <1>1, <2>1, TapsAre
    <3> QED  BY <1>5, <1>6, <1>9, <2>1, <3>1
  <2>2. CASE ~ (n < Count)
    <3>1. /\ n - Count + 1 \in 1..Chunk /\ n + d = m + (n - Count + 1)
          /\ ~ (n + d < 1) /\ (n + d) - 1 = m + n - Count
      BY <1>1, <2>2, TapsAre
    <3>2. all[n + d] = chunk[n - Count + 1]  BY <1>1, <3>1
    <3>3. V2[n + d] = Demodulated(demodulator, (n + d) - 1, chunk[n - Count + 1])
      <4> DEFINE x == n + d
      <4>1. x \in 1 - Count..m + Chunk /\ ~ (x < 1)  BY <1>12, <3>1
      <4>2. all[x] = chunk[n - Count + 1]  BY <3>2
      <4> HIDE DEF x
      <4>3. V2[x] = Demodulated(demodulator, x - 1, chunk[n - Count + 1])  BY <1>8, <4>1, <4>2
      <4>4. x = n + d /\ x - 1 = (n + d) - 1  BY DEF x
      <4> HIDE DEF d
      <4> QED  BY <4>3, <4>4
    <3>4. in[n] = Demodulated(demodulator, iir.counter + n - Count, chunk[n - Count + 1])
      BY <1>6, <2>2
    <3>5. CASE demodulator = "abs"  BY <3>3, <3>4, <3>5 DEF Demodulated
    <3>6. CASE demodulator = "cos"  BY <1>10, <3>1, <3>3, <3>4, <3>6
    <3> QED  BY <3>5, <3>6
  <2> QED  BY <2>1, <2>2
<1>14. \A n \in 0..last : p.out[n] = W2[n + d]
  <2> DEFINE z == 0
  <2>1. z \in Int /\ last \in Int /\ Count \in Int /\ d \in Int /\ z + Count <= Count + 1
    BY <1>1, TapsAre
  <2>2. \A n \in z..last : n < Count => p.out[n] = W2[n + d]
    <3> SUFFICES ASSUME NEW n \in 0..last, n < Count PROVE p.out[n] = W2[n + d]  OBVIOUS
    <3>1. p.out[n] = iir.out[Chunk + n]  BY <1>2, <1>7 DEF IsFiltered
    <3>2. n \in 0..Count - 1 /\ n + d \in 1 - Count..m  BY <1>1, TapsAre
    <3> QED  BY <1>9, <1>11, <3>1, <3>2
  <2>3. \A n \in z..last : n >= Count => p.out[n] = Response(in, p.out, n)
    <3> SUFFICES ASSUME NEW n \in 0..last, n >= Count PROVE p.out[n] = Response(in, p.out, n)
      OBVIOUS
    <3>1. ~ (n < Count)  BY TapsAre
    <3> QED  BY <1>2, <3>1, FilteredAt
  <2>4. \A n \in z..last : n >= Count => W2[n + d] = Response(V2, W2, n + d)
    <3> SUFFICES ASSUME NEW n \in 0..last, n >= Count PROVE W2[n + d] = Response(V2, W2, n + d)
      OBVIOUS
    <3>1. n + d \in 1 - Count..m + Chunk /\ ~ (n + d < 1)  BY <1>1, <1>12, TapsAre
    <3> HIDE DEF d
    <3> QED  BY <1>4, <3>1 DEF IsFiltered
  <2>5. \A n \in z..last : in[n] = V2[n + d]  BY <1>13
  <2> DEFINE f == p.out
  <2> HIDE DEF z, last, d, f
  <2>6. BeginAlike(in, f, V2, W2, Count, z, last, d)
    BY <2>1, <2>2, <2>3, <2>4, <2>5 DEF f, BeginAlike
  <2>7. \A n \in z..last : f[n] = W2[n + d]  BY <2>6, FiltersAgree
  <2> QED  BY <2>7 DEF z, f
<1>15. Memory(p, demodulator, start, all)
  <2>1. p.in = in /\ p.demodulator = demodulator  BY <1>2
  <2>2. p = [in |-> p.in, out |-> p.out, counter |-> p.counter, demodulator |-> demodulator]
    BY <1>2, <2>1
  <2>3. demodulator = "cos" => p.counter = Len(all)  BY <1>1, <1>2, <1>10
  <2>4. ASSUME NEW n \in 0..Count - 1
        PROVE  LET k == Len(all) - Count + 1 + n IN
               p.in[Chunk + n] = V2[k] /\ p.out[Chunk + n] = W2[k]
    <3>1. Chunk + n \in 0..last /\ Len(all) - Count + 1 + n = (Chunk + n) + d
      BY <1>1, TapsAre
    <3> QED  BY <1>13, <1>14, <2>1, <3>1
  <2> QED  BY <2>2, <2>3, <2>4 DEF Memory, V2, W2
<1>16. Whole(demodulator, start, all) = Whole(demodulator, start, h) \o Output(p)
  <2> DEFINE a == Whole(demodulator, start, h)
             b == Output(p)
             c == Whole(demodulator, start, all)
  <2>1. b = [n \in 1..Chunk |-> p.out[Count + n - 1]]  BY DEF Output
  <2>2. \A n \in 1..Chunk : b[n] = W2[m + n]
    <3> SUFFICES ASSUME NEW n \in 1..Chunk PROVE b[n] = W2[m + n]  OBVIOUS
    <3>1. Count + n - 1 \in 0..last /\ (Count + n - 1) + d = m + n  BY <1>1, TapsAre
    <3> QED  BY <1>14, <2>1, <3>1
  <2>3. \A n \in 1..m : a[n] = W2[n]  BY <1>1, <1>3, <1>11, TapsAre
  <2>4. Len(a) = m /\ a = [n \in 1..m |-> a[n]]  BY <1>1, <1>3
  <2>5. Len(b) = Chunk /\ b = [n \in 1..Chunk |-> b[n]]  BY <2>1, TapsAre
  <2>6. c = [n \in 1..m + Chunk |-> W2[n]]  BY <1>4
  <2> HIDE DEF a, b, c
  <2>7. a \o b = [n \in 1..m + Chunk |-> IF n <= m THEN a[n] ELSE b[n - m]]
    <3>1. Fills(a, m) /\ Fills(b, Chunk)  BY <2>4, <2>5, Zenon DEF Fills
    <3>2. m \in Nat /\ Chunk \in Nat  BY <1>1, TapsAre
    <3>3. OneAndOther(a, b, m, Chunk)  BY <3>1, <3>2, Joining, Zenon
    <3> QED  BY <3>3, Zenon DEF OneAndOther
  <2>8. ASSUME NEW n \in 1..m + Chunk PROVE (IF n <= m THEN a[n] ELSE b[n - m]) = W2[n]
    <3>1. CASE n <= m  BY <1>1, <2>3, <3>1
    <3>2. CASE ~ (n <= m)
      <4>1. n - m \in 1..Chunk /\ m + (n - m) = n  BY <1>1, <3>2, TapsAre
      <4> QED  BY <2>2, <3>2, <4>1
    <3> QED  BY <3>1, <3>2
  <2>9. c = a \o b  BY <2>6, <2>7, <2>8
  <2> QED  BY <2>9 DEF a, b, c
<1> QED  BY <1>15, <1>16 DEF all, p, GoesOn
-----------------------------------------------------------------------------
(* The filter after each of so many chunks, and the outputs for them.       *)
NthChunk(samples, k) == SubSeq(samples, (k - 1) * Chunk + 1, k * Chunk)
IsAfter(f, iir, samples, chunks) ==
  f = [k \in 0..chunks |-> IF k = 0 THEN iir ELSE Process(f[k - 1], NthChunk(samples, k))]

Outputs(f, chunks) ==
  [n \in 1..chunks * Chunk |-> Output(f[(n - 1) \div Chunk + 1])[((n - 1) % Chunk) + 1]]

LEMMA AfterExists ==
  ASSUME NEW iir, NEW samples, NEW chunks \in Nat PROVE \E f : IsAfter(f, iir, samples, chunks)
<1> DEFINE T == {c \in Nat : \E f : IsAfter(f, iir, samples, c)}
<1>1. 0 \in T
  <2> DEFINE f == [k \in 0..0 |-> iir]
  <2>1. f = [k \in 0..0 |-> IF k = 0 THEN iir ELSE Process(f[k - 1], NthChunk(samples, k))]
    OBVIOUS
  <2> HIDE DEF f
  <2>2. IsAfter(f, iir, samples, 0)  BY <2>1 DEF IsAfter
  <2> QED  BY <2>2
<1>2. ASSUME NEW c \in Nat, c \in T PROVE c + 1 \in T
  <2>1. PICK f : IsAfter(f, iir, samples, c)  BY <1>2
  <2> DEFINE g == [k \in 0..c + 1 |->
                     IF k = c + 1 THEN Process(f[c], NthChunk(samples, c + 1)) ELSE f[k]]
  <2>2. ASSUME NEW k \in 0..c + 1
        PROVE  g[k] = IF k = 0 THEN iir ELSE Process(g[k - 1], NthChunk(samples, k))
    <3>1. k - 1 # c + 1 /\ (k = c + 1 => k - 1 = c) /\ (k # c + 1 => k \in 0..c)
          /\ (k # 0 => k - 1 \in 0..c + 1)
      OBVIOUS
    <3>2. k # 0 => g[k - 1] = f[k - 1]  BY <3>1
    <3>3. CASE k = c + 1  BY <3>1, <3>2, <3>3
    <3>4. CASE k # c + 1
      <4>1. g[k] = f[k]  BY <3>4
      <4> HIDE DEF g
      <4>2. f[k] = IF k = 0 THEN iir ELSE Process(f[k - 1], NthChunk(samples, k))
        BY <2>1, <3>1, <3>4 DEF IsAfter
      <4> QED  BY <3>2, <4>1, <4>2
    <3> QED  BY <3>3, <3>4
  <2>3. g = [k \in 0..c + 1 |-> g[k]]  OBVIOUS
  <2> HIDE DEF g
  <2>4. IsAfter(g, iir, samples, c + 1)  BY <2>2, <2>3 DEF IsAfter
  <2> QED  BY <2>4
<1> HIDE DEF T
<1>3. 0..chunks \subseteq T  BY <1>1, <1>2, InductionOnSet
<1> QED  BY <1>3 DEF T

LEMMA ProcessAllAre ==
  ASSUME NEW iir, NEW samples, Len(samples) \in Nat
  PROVE  \E f : /\ IsAfter(f, iir, samples, Len(samples) \div Chunk)
                /\ ProcessAll(iir, samples) = Outputs(f, Len(samples) \div Chunk)
<1> DEFINE chunks == Len(samples) \div Chunk
           after == CHOOSE f : f = [k \in 0..chunks |->
                      IF k = 0 THEN iir ELSE Process(f[k - 1], NthChunk(samples, k))]
<1>1. chunks \in Nat  BY TapsAre
<1>2. ProcessAll(iir, samples) = Outputs(after, chunks)
  BY Zenon DEF ProcessAll, NthChunk, Outputs
<1> HIDE DEF chunks
<1>3. IsAfter(after, iir, samples, chunks)
  <2>1. \E f : f = [k \in 0..chunks |->
                      IF k = 0 THEN iir ELSE Process(f[k - 1], NthChunk(samples, k))]
    BY <1>1, AfterExists DEF IsAfter
  <2> HIDE DEF after
  <2>2. after = [k \in 0..chunks |->
                   IF k = 0 THEN iir ELSE Process(after[k - 1], NthChunk(samples, k))]
    BY <2>1, Zenon DEF after
  <2> QED  BY <2>2, Zenon DEF IsAfter
<1> HIDE DEF after
<1> QED  BY <1>2, <1>3, Zenon DEF chunks

(* Where a sample is: in a chunk, at a place.                               *)
LEMMA PlaceInChunk ==
  ASSUME NEW k \in Nat, NEW j \in 1..Chunk
  PROVE  LET n == k * Chunk + j IN (n - 1) \div Chunk = k /\ ((n - 1) % Chunk) + 1 = j
<1> DEFINE n == k * Chunk + j
<1>1. Chunk \in Nat \ {0} /\ k * Chunk \in Nat  BY TapsAre
<1>2. n - 1 = k * Chunk + (j - 1) /\ j - 1 \in 0..Chunk - 1  BY <1>1
<1>3. \A c \in Nat \ {0}, q, r \in Nat :
        r < c => (q * c + r) \div c = q /\ (q * c + r) % c = r
  OBVIOUS
<1>4. (k * Chunk + (j - 1)) \div Chunk = k /\ (k * Chunk + (j - 1)) % Chunk = j - 1
  BY <1>1, <1>2, <1>3
<1> QED  BY <1>1, <1>2, <1>4

(* One chunk more of a signal.                                              *)
LEMMA ChunksOf ==
  ASSUME NEW S, NEW samples \in Seq(S), NEW k \in Nat, (k + 1) * Chunk <= Len(samples)
  PROVE  LET h == SubSeq(samples, 1, k * Chunk)
             c == NthChunk(samples, k + 1) IN
         /\ h \in Seq(S) /\ c \in Seq(S) /\ Len(h) = k * Chunk /\ Len(c) = Chunk
         /\ SubSeq(samples, 1, (k + 1) * Chunk) = h \o c
<1> DEFINE a == k * Chunk
           b == (k + 1) * Chunk
           h == SubSeq(samples, 1, a)
           c == SubSeq(samples, a + 1, b)
<1>1. a \in Nat /\ b = a + Chunk /\ Chunk \in Nat \ {0} /\ ((k + 1) - 1) * Chunk = a
      /\ b <= Len(samples)
  BY TapsAre
<1>2. NthChunk(samples, k + 1) = c  BY <1>1 DEF NthChunk
<1> HIDE DEF a, b
<1>3. h \in Seq(S) /\ c \in Seq(S) /\ Len(h) = a /\ Len(c) = Chunk
      /\ SubSeq(samples, 1, b) = h \o c
  BY <1>1
<1> QED  BY <1>2, <1>3 DEF a, b

(* So many chunks of a signal give what the whole of it gives.              *)
InChunks(samples) == Len(samples) = (Len(samples) \div Chunk) * Chunk
IsWhole(iir, demodulator, start, samples) ==
  ProcessAll(iir, samples) = Whole(demodulator, start, samples)

LEMMA ProcessAllIsWhole ==
  ASSUME NEW iir, NEW demodulator \in {"abs", "cos"}, NEW start, NEW S, NEW samples \in Seq(S),
         InChunks(samples), Memory(iir, demodulator, start, <<>>)
  PROVE  IsWhole(iir, demodulator, start, samples)
<1> DEFINE chunks == Len(samples) \div Chunk
           Begin(k) == SubSeq(samples, 1, k * Chunk)
           W(k) == Whole(demodulator, start, Begin(k))
<1>1. Len(samples) \in Nat /\ chunks \in Nat /\ Chunk \in Nat \ {0}  BY TapsAre
<1>2. PICK after : /\ IsAfter(after, iir, samples, chunks)
                   /\ ProcessAll(iir, samples) = Outputs(after, chunks)
  <2>1. Len(samples) \in Nat  BY <1>1
  <2> QED  BY <2>1, ProcessAllAre, Zenon
<1> DEFINE P(n) == Output(after[(n - 1) \div Chunk + 1])[((n - 1) % Chunk) + 1]
           T == {k \in 0..chunks : /\ Memory(after[k], demodulator, start, Begin(k))
                                   /\ W(k) = [n \in 1..k * Chunk |-> P(n)]}
<1>3. Begin(0) = <<>>  BY <1>1
<1>4. 0 \in T
  <2>1. after[0] = iir  BY <1>1, <1>2 DEF IsAfter
  <2>2. Whole(demodulator, start, <<>>) = [n \in 1..0 |-> P(n)]
    <3> DEFINE e == <<>>
    <3>1. Len(e) \in Nat /\ Len(e) = 0  OBVIOUS
    <3> HIDE DEF e, P
    <3>2. Whole(demodulator, start, e) = Upto(WholeOut(demodulator, start, e), Len(e))
      BY <3>1, WholeFiltered, Zenon
    <3>3. Whole(demodulator, start, e) = [n \in 1..0 |-> P(n)]  BY <3>1, <3>2 DEF Upto
    <3> QED  BY <3>3, Zenon DEF e
  <2>3. 0 * Chunk = 0 /\ 0 \in 0..chunks  BY <1>1
  <2>4. Memory(after[0], demodulator, start, Begin(0))  BY <1>3, <2>1
  <2> HIDE DEF Begin, P
  <2>5. W(0) = [n \in 1..0 * Chunk |-> P(n)]  BY <1>3, <2>2, <2>3
  <2> QED  BY <2>3, <2>4, <2>5
<1>5. ASSUME NEW k \in 0..chunks - 1, k \in T PROVE k + 1 \in T
  <2> DEFINE c == NthChunk(samples, k + 1)
  <2>1. (k + 1) * Chunk <= Len(samples) /\ k \in Nat /\ k + 1 \in 0..chunks /\ k + 1 # 0
        /\ (k + 1) - 1 = k /\ (k + 1) * Chunk = k * Chunk + Chunk /\ k * Chunk \in Nat
    BY <1>1
  <2>2. /\ Begin(k) \in Seq(S) /\ c \in Seq(S) /\ Len(Begin(k)) = k * Chunk /\ Len(c) = Chunk
        /\ Begin(k + 1) = Begin(k) \o c
    BY <2>1, ChunksOf
  <2>3. after[k + 1] = Process(after[k], c)
    BY <1>2, <2>1 DEF IsAfter
  <2>4. Memory(after[k], demodulator, start, Begin(k)) /\ W(k) = [n \in 1..k * Chunk |-> P(n)]
    BY <1>5
  <2>5. /\ Memory(after[k + 1], demodulator, start, Begin(k + 1))
        /\ W(k + 1) = W(k) \o Output(after[k + 1])
    <3> HIDE DEF c
    <3>1. /\ Memory(Process(after[k], c), demodulator, start, Begin(k) \o c)
          /\ Whole(demodulator, start, Begin(k) \o c) = W(k) \o Output(Process(after[k], c))
      <4> DEFINE h == Begin(k)
                 a == after[k]
      <4>1. h \in Seq(S) /\ c \in Seq(S) /\ Len(c) = Chunk /\ Memory(a, demodulator, start, h)
        BY <2>2, <2>4
      <4> HIDE DEF h, a
      <4>2. Memory(Process(a, c), demodulator, start, h \o c)
        BY <4>1, ProcessGoesOn, ZenonT(30)
      <4>3. GoesOn(a, demodulator, start, h, c)
        BY <4>1, ProcessGoesOn, ZenonT(30)
      <4> QED  BY <4>2, <4>3, Zenon DEF h, a, GoesOn
    <3> QED  BY <2>2, <2>3, <3>1
  <2>6. \A j \in 1..Chunk : Output(after[k + 1])[j] = P(k * Chunk + j)
    <3> SUFFICES ASSUME NEW j \in 1..Chunk PROVE Output(after[k + 1])[j] = P(k * Chunk + j)
      OBVIOUS
    <3>1. ((k * Chunk + j) - 1) \div Chunk = k /\ (((k * Chunk + j) - 1) % Chunk) + 1 = j
      BY <2>1, PlaceInChunk
    <3> QED  BY <3>1
  <2>7. W(k + 1) = [n \in 1..(k + 1) * Chunk |-> P(n)]
    <3> DEFINE a == W(k)
               b == Output(after[k + 1])
               m == k * Chunk
    <3>1. a = [n \in 1..m |-> P(n)] /\ b = [n \in 1..Chunk |-> b[n]]
      BY <2>4 DEF Output
    <3>2. W(k + 1) = a \o b /\ m \in Nat /\ (k + 1) * Chunk = m + Chunk  BY <2>1, <2>5
    <3>3. \A j \in 1..Chunk : b[j] = P(m + j)  BY <2>6
    <3> HIDE DEF a, b, m, P, W
    <3>4. a \o b = [n \in 1..m + Chunk |-> IF n <= m THEN a[n] ELSE b[n - m]]
      <4>1. Fills(a, m) /\ Fills(b, Chunk)  BY <3>1 DEF Fills
      <4>2. m \in Nat /\ Chunk \in Nat  BY <1>1, <3>2
      <4>3. OneAndOther(a, b, m, Chunk)  BY <4>1, <4>2, Joining, Zenon
      <4> QED  BY <4>3, Zenon DEF OneAndOther
    <3>5. ASSUME NEW n \in 1..m + Chunk PROVE (IF n <= m THEN a[n] ELSE b[n - m]) = P(n)
      <4>1. CASE n <= m  BY <3>1, <3>2, <4>1
      <4>2. CASE ~ (n <= m)
        <5>1. n - m \in 1..Chunk /\ m + (n - m) = n  BY <1>1, <3>2, <4>2
        <5> QED  BY <3>3, <4>2, <5>1
      <4> QED  BY <4>1, <4>2
    <3> QED  BY <3>2, <3>4, <3>5
  <2> QED  BY <2>1, <2>5, <2>7
<1>6. chunks \in T
  <2> HIDE DEF T
  <2>1. 0..chunks \subseteq T  BY <1>1, <1>4, <1>5, InductionOnSet
  <2> QED  BY <1>1, <2>1
<1>7. W(chunks) = [n \in 1..chunks * Chunk |-> P(n)]  BY <1>6
<1>8. Begin(chunks) = samples
  <2>1. chunks * Chunk = Len(samples)  BY DEF InChunks
  <2> HIDE DEF chunks
  <2> QED  BY <1>1, <2>1
<1>9. Outputs(after, chunks) = [n \in 1..chunks * Chunk |-> P(n)]  BY Zenon DEF Outputs
<1> QED  BY <1>2, <1>7, <1>8, <1>9, Zenon DEF IsWhole
-----------------------------------------------------------------------------
(* The inductive invariant: the result is that of the whole signal so far,  *)
(* and the filter remembers the end of it.                                  *)
WholeInv ==
  /\ result = Whole(setup.demodulator, left, heard)
  /\ dec # Terminated => Memory(dec, setup.demodulator, left, heard)

LEMMA WholeOfNothing ==
  ASSUME NEW demodulator, NEW start PROVE Whole(demodulator, start, <<>>) = <<>>
<1> DEFINE e == <<>>
           out == WholeOut(demodulator, start, e)
<1>1. Len(e) \in Nat /\ Len(e) = 0  OBVIOUS
<1> HIDE DEF e, out
<1>2. Whole(demodulator, start, e) = Upto(out, Len(e))  BY <1>1, WholeFiltered, Zenon DEF out
<1>3. Upto(out, 0) = <<>>  BY DEF Upto
<1> QED  BY <1>1, <1>2, <1>3, Zenon DEF e

LEMMA WholeIsSeq ==
  ASSUME NEW demodulator, NEW start, NEW samples, Len(samples) \in Nat
  PROVE  \E S : Whole(demodulator, start, samples) \in Seq(S)
<1> DEFINE out == WholeOut(demodulator, start, samples)
           m == Len(samples)
<1>1. Whole(demodulator, start, samples) = Upto(out, m)  BY WholeFiltered, Zenon
<1> HIDE DEF out, m
<1>2. m \in Nat  BY DEF m
<1>3. Upto(out, m) \in Seq({out[n] : n \in 1..m})  BY <1>2 DEF Upto
<1> QED  BY <1>1, <1>3

(* For a filter of plc_signal_iir_create, the algorithm on its own.         *)
THEOREM FilterIsSeamless ==
  ASSUME NEW demodulator \in {"abs", "cos"}, NEW start, NEW S, NEW samples \in Seq(S),
         InChunks(samples)
  PROVE  ProcessAll(IirCreate(demodulator, start), samples) = Whole(demodulator, start, samples)
<1>1. Memory(IirCreate(demodulator, start), demodulator, start, <<>>)  BY CreatedMemory, Zenon
<1> DEFINE iir == IirCreate(demodulator, start)
<1> HIDE DEF iir
<1>2. IsWhole(iir, demodulator, start, samples)
  BY <1>1, ProcessAllIsWhole, ZenonT(30) DEF iir
<1> QED  BY <1>2, Zenon DEF IsWhole, iir

LEMMA SeamInit == CaptureInit => WholeInv
<1> SUFFICES ASSUME CaptureInit PROVE WholeInv  OBVIOUS
<1>1. heard = <<>> /\ result = <<>> /\ dec = Terminated  BY Zenon DEF CaptureInit
<1> QED  BY <1>1, WholeOfNothing, Zenon DEF WholeInv

LEMMA StartSeams == ASSUME IInv, StartCapture \/ StartCaptureFails PROVE WholeInv'
<1>1. PICK g \in Left : dec' = IirCreate(setup.demodulator, g) /\ left' = g
  BY DEF StartCapture, StartCaptureFails
<1>2. heard' = <<>> /\ result' = <<>> /\ setup' = setup
  BY Zenon DEF StartCapture, StartCaptureFails
<1>3. Memory(dec', setup'.demodulator, left', heard')
  BY <1>1, <1>2, CreatedMemory, Zenon
<1>4. result' = Whole(setup'.demodulator, left', heard')  BY <1>2, WholeOfNothing, Zenon
<1> QED  BY <1>3, <1>4, Zenon DEF WholeInv

LEMMA DecodeSeams == ASSUME IInv, WholeInv, Decode PROVE WholeInv'
<1> DEFINE c == ChunkOf(buffer)
<1>1. /\ thread = "decode" /\ setup' = setup /\ left' = left
      /\ dec' = Process(dec, c) /\ heard' = heard \o c /\ result' = result \o Output(dec')
  BY DEF Decode
<1>2. dec # Terminated  BY <1>1, NotTerminated DEF IInv, ThreadInv
<1>3. setup \in Setups /\ setup.demodulator \in {"abs", "cos"} /\ Chunk \in Nat \ {0}
  BY SetupsAssumption, Sizes DEF IInv, BufferInv, SetupsAssumption
<1>4. heard \in Seq(Nat) /\ buffer \in Seq(Nat)  BY DEF IInv, HeardInv, BufferInv
<1>5. c \in Seq(Nat) /\ Len(c) = Chunk  BY <1>3, <1>4, ChunkGiven
<1> HIDE DEF c
<1>6. Memory(dec, setup.demodulator, left, heard)  BY <1>2 DEF WholeInv
<1>7. Memory(Process(dec, c), setup.demodulator, left, heard \o c)
  BY <1>3, <1>4, <1>5, <1>6, ProcessGoesOn, ZenonT(30)
<1>8. GoesOn(dec, setup.demodulator, left, heard, c)
  BY <1>3, <1>4, <1>5, <1>6, ProcessGoesOn, ZenonT(30)
<1>9. Whole(setup.demodulator, left, heard \o c) = result \o Output(Process(dec, c))
  BY <1>8, Zenon DEF GoesOn, WholeInv
<1> QED  BY <1>1, <1>7, <1>9, Zenon DEF WholeInv

LEMMA JoinedSeams == ASSUME IInv, WholeInv, Joined PROVE WholeInv'
<1>1. /\ thread = "gone" /\ setup' = setup /\ left' = left /\ dec' = Terminated
      /\ heard' = heard \o Deferred /\ result' = result \o ProcessAll(dec, Deferred)
  BY DEF Joined
<1>2. dec # Terminated  BY <1>1, NotTerminated DEF IInv, ThreadInv
<1>3. setup \in Setups /\ setup.demodulator \in {"abs", "cos"} /\ Chunk \in Nat \ {0}
  BY SetupsAssumption, Sizes DEF IInv, BufferInv, SetupsAssumption
<1>4. heard \in Seq(Nat) /\ Len(heard) \in Nat  BY LenProperties DEF IInv, HeardInv
<1>5. PICK S : result \in Seq(S)  BY <1>4, WholeIsSeq DEF WholeInv
<1>6. Memory(dec, setup.demodulator, left, heard)  BY <1>2 DEF WholeInv
<1>7. Whole(setup.demodulator, left, heard \o Deferred) = result \o ProcessAll(dec, Deferred)
  <2>1. CASE setup.demod = "deferred"
    <3>1. /\ Deferred \in Seq(Nat) /\ Len(Deferred) = (Len(file) \div Chunk) * Chunk
          /\ Len(file) \in Nat
      BY <2>1, DeferredIs, LenProperties DEF IInv, FileInv
    <3>2. InChunks(Deferred)
      <4> DEFINE q == Len(file) \div Chunk
      <4>1. q \in Nat /\ Len(Deferred) = q * Chunk  BY <1>3, <3>1
      <4> HIDE DEF q
      <4>2. \A c \in Nat \ {0}, n \in Nat : (n * c) \div c = n  OBVIOUS
      <4> QED  BY <1>3, <4>1, <4>2 DEF InChunks
    <3>3. heard = <<>>  BY <1>1, <1>4, <2>1, EmptySeq DEF IInv, HeardInv
    <3>4. result = <<>>  BY <3>3, WholeOfNothing, Zenon DEF WholeInv
    <3>5. Memory(dec, setup.demodulator, left, <<>>)  BY <1>6, <3>3, Zenon
    <3>6. IsWhole(dec, setup.demodulator, left, Deferred)
      BY <1>3, <3>1, <3>2, <3>5, ProcessAllIsWhole, ZenonT(30)
    <3>7. heard \o Deferred = Deferred  BY <3>1, <3>3, ConcatEmptySeq
    <3>8. PICK R : Whole(setup.demodulator, left, Deferred) \in Seq(R)
      BY <3>1, WholeIsSeq, LenProperties
    <3>9. result \o ProcessAll(dec, Deferred) = Whole(setup.demodulator, left, Deferred)
      BY <3>4, <3>6, <3>8, ConcatEmptySeq DEF IsWhole
    <3> QED  BY <3>7, <3>9, Zenon
  <2>2. CASE setup.demod # "deferred"
    <3>1. Deferred = <<>>  BY <2>2 DEF Deferred
    <3> DEFINE e == <<>>
    <3>2. Len(e) \in Nat /\ Len(e) = 0  OBVIOUS
    <3> HIDE DEF e
    <3>3. Len(e) \div Chunk = 0  BY <1>3, <3>2
    <3>4. PICK f : ProcessAll(dec, e) = Outputs(f, Len(e) \div Chunk)
      BY <3>2, ProcessAllAre, Zenon
    <3>5. ProcessAll(dec, e) = <<>>  BY <1>3, <3>3, <3>4 DEF Outputs
    <3>6. result \o <<>> = result /\ heard \o <<>> = heard  BY <1>4, <1>5, ConcatEmptySeq
    <3> QED  BY <3>1, <3>5, <3>6, Zenon DEF e, WholeInv
  <2> QED  BY <2>1, <2>2
<1> QED  BY <1>1, <1>7, Zenon DEF WholeInv

LEMMA OthersSeam ==
  ASSUME WholeInv, UNCHANGED <<setup, dec, left, heard, result>> PROVE WholeInv'
  BY Zenon DEF WholeInv

LEMMA SeamStep == IInv /\ WholeInv /\ [CaptureNext]_captureVars => WholeInv'
<1> SUFFICES ASSUME IInv, WholeInv, [CaptureNext]_captureVars PROVE WholeInv'  OBVIOUS
<1>1. CASE StartCapture \/ StartCaptureFails  BY <1>1, StartSeams
<1>2. CASE Decode  BY <1>2, DecodeSeams
<1>3. CASE Joined  BY <1>3, JoinedSeams
<1>4. CASE ThreadBegins \/ TestEnd \/ Read \/ Freeze
  BY <1>4, OthersSeam DEF ThreadBegins, TestEnd, Read, Freeze, reception
<1>5. CASE Analyse \/ Store  BY <1>5, OthersSeam DEF Analyse, Store
<1>6. CASE Overrun \/ StartAgainAborts \/ StopCapture \/ JoinTimesOut
  BY <1>6, OthersSeam DEF Overrun, StartAgainAborts, StopCapture, JoinTimesOut, reception
<1>7. CASE UNCHANGED captureVars  BY <1>7, OthersSeam DEF captureVars, reception
<1> QED  BY <1>1, <1>2, <1>3, <1>4, <1>5, <1>6, <1>7 DEF CaptureNext, ThreadStep

(* Decoding in chunks, as the buffers come or at the end from the file, is  *)
(* filtering the whole signal once: whatever the coefficients and their     *)
(* number, the demodulator, the size of the chunks, what malloc left in the *)
(* buffers of the filter, and whenever data appear and the user stops.      *)
THEOREM Seamless == CaptureSpec => []ChunksAreSeamless
<1>1. IInv /\ WholeInv => ChunksAreSeamless
  BY HeardWhole DEF ChunksAreSeamless, WholeInv
<1> QED  BY <1>1, Invariance, SeamInit, SeamStep, PTL DEF CaptureSpec
=============================================================================
