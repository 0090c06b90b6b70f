----------------------------- MODULE RingProofs -----------------------------
(***************************************************************************)
(* Proofs about the two rings of the samples received: the driver's        *)
(* (AdcRing), for every length, FIFO depth, threshold and read size, and   *)
(* the oscilloscope's with its plot area (Scope), for every size, chunk,   *)
(* configuration and number of events; and about the ring of the buffers   *)
(* that one thread fills and another sends (TxAsyncThread), for any number *)
(* of buffers and generations.                                             *)
(***************************************************************************)
EXTENDS AdcRing, Scope, TxAsyncThread, SequenceTheorems, TLAPS

(***************************************************************************)
(* The driver's ring (AdcRing).                                            *)
(***************************************************************************)
\* Samples drained but not yet given back by a finished read.
Lag == produced - Consumed

\* The ring slot of the d-th sample after the read pointer.
SlotAhead(d) ==
  IF dma_samples_cur_read + d < N THEN dma_samples_cur_read + d
                                  ELSE dma_samples_cur_read + d - N

\* What a read in progress remembers of its snapshot still fits the ring.
SnapshotInv ==
  /\ pc # "copy" => copied = 0
  /\ pc = "copy" =>
       /\ Total <= samples_count
       /\ samples_to_read <= N - dma_samples_cur_read
       /\ samples_to_read_after_overflow < N
       /\ wrapped => samples_to_read = N - dma_samples_cur_read
       /\ ~wrapped => samples_to_read_after_overflow = 0

\* The distance between the pointers is the lag.
PointersMeasureLag ==
  /\ Lag \in 0..(N - 1)
  /\ dma_samples_cur_write >= dma_samples_cur_read =>
       Lag = dma_samples_cur_write - dma_samples_cur_read
  /\ dma_samples_cur_write < dma_samples_cur_read =>
       Lag = N - dma_samples_cur_read + dma_samples_cur_write

\* The unread slots hold the unread samples.
UnreadHeld ==
  \A d \in 0..(Lag - 1) : dma_samples[SlotAhead(d)] = Consumed + d

\* Until the ring is lapped the pointers measure the lag, the unread slots
\* hold the unread samples, and a read never copies more than the lag.
Unlapped ==
  /\ PointersMeasureLag
  /\ UnreadHeld
  /\ pc = "copy" => Total <= Lag

RingInv == ~lapped => Unlapped

AdcRingInv == TypeOK /\ SnapshotInv /\ RingInv /\ InOrder /\ ReportIsOverflow
-----------------------------------------------------------------------------
(* The types hold in every reachable state, whatever the constants: in     *)
(* particular the read pointer stays in dma_samples..dma_samples_end and   *)
(* the write pointer below dma_samples_end (tiadc_irq, adchs_read).        *)
LEMMA TypeAndSnapshotInit == Init => TypeOK /\ SnapshotInv
<1> SUFFICES ASSUME Init PROVE TypeOK /\ SnapshotInv
  OBVIOUS
<1> USE RingAssumption DEF RingAssumption, Init, Total
<1>1. dma_samples \in [0..(N - 1) -> Int]
  BY DEF Stale
<1>2. out \in Seq(Int)
  BY DEF Init
<1>3. /\ overrun \in BOOLEAN /\ data_avail \in BOOLEAN
      /\ continuous_transfer_started \in BOOLEAN /\ wrapped \in BOOLEAN
      /\ reported \in BOOLEAN /\ lapped \in BOOLEAN
  BY Zenon
<1> QED
  BY <1>1, <1>2, <1>3 DEF TypeOK, SnapshotInv, Pc

(* What a look at the write pointer makes the read copy.                   *)
LEMMA SnapshotBounds ==
  ASSUME TypeOK, ReadSnapshot
  PROVE  /\ samples_to_read' \in 0..MaxCount /\ samples_to_read_after_overflow' \in 0..MaxCount
         /\ Total' \in 0..samples_count
         /\ samples_to_read' <= N - dma_samples_cur_read /\ samples_to_read_after_overflow' < N
         /\ wrapped' \in BOOLEAN
         /\ wrapped' => samples_to_read' = N - dma_samples_cur_read
         /\ ~wrapped' => samples_to_read_after_overflow' = 0
<1> DEFINE first == IF dma_samples_cur_write >= dma_samples_cur_read
                    THEN dma_samples_cur_write - dma_samples_cur_read
                    ELSE N - dma_samples_cur_read
           second == IF dma_samples_cur_write >= dma_samples_cur_read \/ first > samples_count
                     THEN 0 ELSE dma_samples_cur_write
           c == samples_to_read'
           d == samples_to_read_after_overflow'
<1>1. /\ N \in Nat /\ MaxCount \in Nat /\ samples_count \in 0..MaxCount
      /\ dma_samples_cur_read \in 0..N /\ dma_samples_cur_write \in 0..(N - 1)
  BY RingAssumption DEF RingAssumption, TypeOK
<1>2. /\ c = Lesser(first, samples_count) /\ d = Lesser(second, samples_count - c)
      /\ wrapped' = (second # 0)
  BY DEF ReadSnapshot
<1>3. /\ first \in 0..(N - dma_samples_cur_read) /\ second \in 0..(N - 1)
      /\ second # 0 => first <= samples_count /\ first = N - dma_samples_cur_read
  BY <1>1
<1> HIDE DEF first, second, c, d
<1>4. c \in 0..samples_count /\ c <= first /\ (first <= samples_count => c = first)
  BY <1>1, <1>2, <1>3 DEF Lesser
<1>5. d \in 0..(N - 1) /\ c + d \in 0..samples_count /\ d \in 0..samples_count
      /\ (second = 0 => d = 0)
  BY <1>1, <1>2, <1>3, <1>4 DEF Lesser
<1>6. c \in 0..MaxCount /\ d \in 0..MaxCount /\ c <= N - dma_samples_cur_read /\ d < N
  BY <1>1, <1>3, <1>4, <1>5
<1>7. wrapped' \in BOOLEAN /\ (wrapped' => second # 0) /\ (~wrapped' => second = 0)
  BY <1>2, Zenon
<1>8. Total' = c + d
  BY DEF Total, c, d
<1>9. (second # 0 => c = N - dma_samples_cur_read) /\ (second = 0 => d = 0)
  BY <1>3, <1>4, <1>5
<1> QED
  BY <1>5, <1>6, <1>7, <1>8, <1>9, Zenon DEF c, d

LEMMA TypeAndSnapshotStep ==
  TypeOK /\ SnapshotInv /\ [Next]_vars => TypeOK' /\ SnapshotInv'
<1> SUFFICES ASSUME TypeOK, SnapshotInv, [Next]_vars
             PROVE  TypeOK' /\ SnapshotInv'
  OBVIOUS
<1> USE RingAssumption DEF RingAssumption, TypeOK, SnapshotInv, Total, Pc
<1>1. CASE Convert
  <2>1. fifo' \in 0..Depth /\ fifo <= fifo'
    BY <1>1 DEF Convert
  <2>2. overrun' \in BOOLEAN
    BY <1>1, Zenon DEF Convert
  <2> QED
    BY <1>1, <2>1, <2>2 DEF Convert, ringVars, readVars
<1>2. CASE IrqOverrun
  <2>1. overrun' \in BOOLEAN
    BY <1>2, Zenon DEF IrqOverrun
  <2>2. fifo' \in 0..Depth /\ fifo1count' \in 0..fifo'
    BY <1>2 DEF IrqOverrun
  <2>3. UNCHANGED <<dma_samples, dma_samples_cur_write, produced, reported, lapped,
                    samples_count, samples_to_read, samples_to_read_after_overflow,
                    wrapped, copied, out, dma_samples_cur_read, data_avail,
                    continuous_transfer_started, pc>>
    BY <1>2 DEF IrqOverrun, ringVars, readVars
  <2> QED
    BY <2>1, <2>2, <2>3
<1>3. CASE IrqThreshold
  BY <1>3 DEF IrqThreshold, ringVars, readVars
<1>4. CASE IrqDrain
  <2>1. reported' \in BOOLEAN /\ lapped' \in BOOLEAN /\ data_avail' \in BOOLEAN
    BY <1>4, Zenon DEF IrqDrain
  <2>2. /\ fifo' \in 0..Depth /\ fifo1count' \in 0..fifo'
        /\ dma_samples' \in [0..(N - 1) -> Int] /\ dma_samples_cur_write' \in 0..(N - 1)
        /\ produced' \in Nat
    BY <1>4 DEF IrqDrain, NextWrite
  <2> QED
    BY <1>4, <2>1, <2>2 DEF IrqDrain, readVars
<1>5. CASE StartCapture
  BY <1>5 DEF StartCapture, ThreadRuns, Stale
<1>6. CASE StopCapture
  BY <1>6 DEF StopCapture, ThreadRuns, hwVars, ringVars, readVars
<1>7. ASSUME NEW count \in 1..MaxCount, Read(count)
      PROVE  TypeOK' /\ SnapshotInv'
  BY <1>7 DEF Read, ThreadRuns, hwVars, ringVars
<1>8. CASE ReadInterrupted
  BY <1>8 DEF ReadInterrupted, ThreadRuns, hwVars, ringVars, readVars
<1>9. CASE ReadWoken
  BY <1>9 DEF ReadWoken, ThreadRuns, hwVars, ringVars, readVars
<1>10. CASE ReadSnapshot
  <2>1. /\ pc' = "copy" /\ copied' = 0 /\ samples_count' = samples_count
        /\ UNCHANGED <<fifo, overrun, fifo1count, dma_samples, dma_samples_cur_write, produced,
                       reported, lapped, dma_samples_cur_read, data_avail,
                       continuous_transfer_started, out>>
    BY <1>10 DEF ReadSnapshot, ThreadRuns, hwVars, ringVars
  <2>2. SnapshotInv'
    BY <1>10, <2>1, SnapshotBounds
  <2>3. TypeOK'
    BY <1>10, <2>1, SnapshotBounds
  <2> QED
    BY <2>2, <2>3
<1>11. CASE CopyWord
  <2>1. Source \in 0..(N - 1)
    BY <1>11 DEF CopyWord, Source, ThreadRuns
  <2>2. out' \in Seq(Int)
    BY <1>11, <2>1 DEF CopyWord
  <2> QED
    BY <1>11, <2>2 DEF CopyWord, ThreadRuns, hwVars, ringVars
<1>12. CASE ReadReturn
  BY <1>12 DEF ReadReturn, ThreadRuns, hwVars, ringVars
<1>13. CASE UNCHANGED vars
  BY <1>13 DEF vars, hwVars, ringVars, readVars
<1> QED
  BY <1>1, <1>2, <1>3, <1>4, <1>5, <1>6, <1>7, <1>8, <1>9, <1>10, <1>11, <1>12,
     <1>13 DEF Next

THEOREM TypeCorrect == Spec => []TypeOK
BY TypeAndSnapshotInit, TypeAndSnapshotStep, PTL DEF Spec
-----------------------------------------------------------------------------
(* The ring invariant.                                                     *)

LEMMA RingInit == Init => RingInv /\ InOrder /\ ReportIsOverflow
<1> SUFFICES ASSUME Init PROVE RingInv /\ InOrder /\ ReportIsOverflow
  OBVIOUS
<1>1. ReportIsOverflow
  BY DEF Init, ReportIsOverflow
<1>2. InOrder
  BY DEF Init, InOrder
<1>3. Consumed = 0 /\ Lag = 0 /\ pc # "copy"
  <2>1. Len(out) = 0
    BY EmptySeq DEF Init
  <2>2. copied = 0 /\ produced = 0 /\ pc = "user"
    BY DEF Init
  <2> QED
    BY <2>1, <2>2 DEF Lag, Consumed
<1>4. RingInv
  BY <1>3, RingAssumption
     DEF RingAssumption, Init, RingInv, Unlapped, PointersMeasureLag, UnreadHeld
<1> QED
  BY <1>1, <1>2, <1>4

LEMMA Pointers ==
  ASSUME TypeOK
  PROVE  /\ N \in Nat /\ N > 1
         /\ produced \in Nat
         /\ Consumed \in Int
         /\ Lag \in Int
         /\ Total \in Nat
         /\ dma_samples \in [0..(N - 1) -> Int]
         /\ dma_samples_cur_write \in 0..(N - 1)
         /\ dma_samples_cur_read \in 0..N
BY RingAssumption DEF RingAssumption, TypeOK, Consumed, Lag, Total

\* Draining a sample: it becomes the last of the unread ones.
LEMMA DrainKeepsRing ==
  ASSUME AdcRingInv, TypeOK', IrqDrain
  PROVE  RingInv' /\ InOrder' /\ ReportIsOverflow'
<1>1. TypeOK
  BY DEF AdcRingInv
<1>2. ~lapped' => Unlapped /\ ~(produced + 1 - Consumed >= N)
  <2>1. ~lapped' => ~lapped /\ ~(produced + 1 - Consumed >= N)
    BY Zenon DEF IrqDrain
  <2> QED
    BY <2>1 DEF AdcRingInv, RingInv
<1>3. /\ Consumed' = Consumed /\ pc' = pc /\ Total' = Total /\ out' = out
      /\ dma_samples_cur_read' = dma_samples_cur_read
      /\ produced' = produced + 1
      /\ dma_samples_cur_write' = NextWrite
      /\ dma_samples' = [dma_samples EXCEPT ![dma_samples_cur_write] = produced]
  BY DEF IrqDrain, Consumed, Total, readVars
<1>4. ASSUME ~lapped' PROVE Unlapped'
  <2>1. PointersMeasureLag /\ UnreadHeld /\ (pc = "copy" => Total <= Lag)
    BY <1>2, <1>4 DEF Unlapped
  <2>2. Lag' = Lag + 1 /\ Lag + 1 < N /\ Lag \in Nat
    BY <1>1, <1>2, <1>3, <1>4, <2>1, Pointers, SMTT(30) DEF Lag, PointersMeasureLag
  <2>3. dma_samples_cur_write = SlotAhead(Lag)
    BY <1>1, <2>1, Pointers, SMTT(30) DEF PointersMeasureLag, SlotAhead
  <2>4. PointersMeasureLag'
    <3>1. CASE dma_samples_cur_write + 1 = N
      BY <1>1, <1>3, <2>1, <2>2, <3>1, Pointers, SMTT(30) DEF PointersMeasureLag, NextWrite
    <3>2. CASE dma_samples_cur_write + 1 # N
      <4>1. dma_samples_cur_write' = dma_samples_cur_write + 1
        BY <1>3, <3>2 DEF NextWrite
      <4>2. dma_samples_cur_read' = dma_samples_cur_read
        BY <1>3
      <4>3. CASE dma_samples_cur_write >= dma_samples_cur_read
        BY <1>1, <2>1, <2>2, <4>1, <4>2, <4>3, Pointers, SMTT(30) DEF PointersMeasureLag
      <4>4. CASE dma_samples_cur_write < dma_samples_cur_read
        BY <1>1, <2>1, <2>2, <4>1, <4>2, <4>4, Pointers, SMTT(30) DEF PointersMeasureLag
      <4> QED
        BY <1>1, <4>3, <4>4, Pointers
    <3> QED
      BY <3>1, <3>2
  <2>5. ASSUME NEW d \in 0..(Lag' - 1)
        PROVE  dma_samples'[SlotAhead(d)'] = (Consumed + d)'
    <3>1. d \in 0..Lag
      BY <2>2
    <3>2. SlotAhead(d) \in 0..(N - 1)
      BY <1>1, <2>2, <3>1, Pointers, SMTT(30) DEF SlotAhead
    <3>3. SlotAhead(d)' = SlotAhead(d)
      BY <1>3 DEF SlotAhead
    <3>4. CASE d = Lag
      BY <1>1, <1>3, <2>3, <3>2, <3>3, <3>4, Pointers DEF Lag
    <3>5. CASE d # Lag
      <4>1. d \in 0..(Lag - 1)
        BY <2>2, <3>5
      <4>2. SlotAhead(d) # SlotAhead(Lag)
        BY <1>1, <2>2, <4>1, Pointers, SMTT(30) DEF SlotAhead
      <4>3. dma_samples[SlotAhead(d)] = Consumed + d
        BY <2>1, <4>1 DEF UnreadHeld
      <4> QED
        BY <1>1, <1>3, <2>3, <3>2, <3>3, <4>2, <4>3, Pointers
    <3> QED
      BY <3>4, <3>5
  <2>6. pc' = "copy" => Total' <= Lag'
    BY <1>1, <1>3, <2>1, <2>2, Pointers
  <2> QED
    BY <2>4, <2>5, <2>6 DEF Unlapped, UnreadHeld
<1>5. RingInv'
  BY <1>4 DEF RingInv
<1>6. InOrder'
  BY <1>2, <1>3, Zenon DEF AdcRingInv, InOrder, IrqDrain
<1>7. ReportIsOverflow'
  <2>1. ~lapped' => NextWrite # dma_samples_cur_read
    BY <1>1, <1>2, Pointers, SMTT(30) DEF Unlapped, PointersMeasureLag, NextWrite, Lag
  <2> QED
    BY <2>1, Zenon DEF AdcRingInv, ReportIsOverflow, IrqDrain, MeetsReader
<1> QED
  BY <1>5, <1>6, <1>7

\* A step that touches neither the ring nor what was read from it.
LEMMA FrameKeepsRing ==
  ASSUME AdcRingInv,
         UNCHANGED <<dma_samples, dma_samples_cur_write, dma_samples_cur_read,
                     produced, lapped, reported, copied, out>>,
         pc' = "copy" => pc = "copy" /\ Total' = Total
  PROVE  RingInv' /\ InOrder' /\ ReportIsOverflow'
<1>1. InOrder' /\ ReportIsOverflow'
  BY Zenon DEF AdcRingInv, InOrder, ReportIsOverflow
<1>2. Lag' = Lag /\ Consumed' = Consumed
  BY DEF Lag, Consumed
<1>3. PointersMeasureLag => PointersMeasureLag'
  BY <1>2 DEF PointersMeasureLag
<1>4. UnreadHeld => UnreadHeld'
  BY <1>2 DEF UnreadHeld, SlotAhead
<1>5. (pc = "copy" => Total <= Lag) => (pc' = "copy" => Total' <= Lag')
  BY <1>2
<1> QED
  BY <1>1, <1>3, <1>4, <1>5 DEF AdcRingInv, RingInv, Unlapped

LEMMA StartKeepsRing ==
  ASSUME AdcRingInv, StartCapture
  PROVE  RingInv' /\ InOrder' /\ ReportIsOverflow'
<1>1. /\ copied' = 0 /\ out' = << >> /\ produced' = 0 /\ pc' = "user"
      /\ dma_samples_cur_read' = 0 /\ dma_samples_cur_write' = 0
  BY DEF StartCapture, ThreadRuns, AdcRingInv, SnapshotInv
<1>2. Lag' = 0
  <2>1. Len(out') = 0
    BY <1>1, EmptySeq
  <2>2. copied' = 0 /\ produced' = 0
    BY <1>1
  <2> QED
    BY <2>1, <2>2 DEF Lag, Consumed
<1>3. RingInv'
  BY <1>1, <1>2, RingAssumption
     DEF RingAssumption, RingInv, Unlapped, PointersMeasureLag, UnreadHeld
<1>4. InOrder'
  BY <1>1, EmptySeq DEF InOrder
<1>5. ReportIsOverflow'
  BY DEF StartCapture, ReportIsOverflow
<1> QED
  BY <1>3, <1>4, <1>5

\* The snapshot never asks for more than the lag.
LEMMA SnapshotKeepsRing ==
  ASSUME AdcRingInv, TypeOK', ReadSnapshot
  PROVE  RingInv' /\ InOrder' /\ ReportIsOverflow'
<1>1. TypeOK
  BY DEF AdcRingInv
<1>2. /\ UNCHANGED <<dma_samples, dma_samples_cur_write, dma_samples_cur_read,
                     produced, lapped, reported, copied, out>>
      /\ pc = "snapshot" /\ copied = 0
  BY DEF ReadSnapshot, ThreadRuns, AdcRingInv, SnapshotInv, ringVars
<1>3. Lag' = Lag /\ Consumed' = Consumed
  BY <1>2 DEF Lag, Consumed
<1>4. ASSUME PointersMeasureLag PROVE Total' <= Lag'
  <2>1. samples_count \in Nat
    BY <1>1 DEF TypeOK
  <2>2. CASE dma_samples_cur_write >= dma_samples_cur_read
    BY <1>1, <1>3, <1>4, <2>1, <2>2, Pointers, SMTT(30)
       DEF ReadSnapshot, Lesser, PointersMeasureLag, Total
  <2>3. CASE ~(dma_samples_cur_write >= dma_samples_cur_read)
    <3>1. Lag = N - dma_samples_cur_read + dma_samples_cur_write
      BY <1>1, <1>4, <2>3, Pointers DEF PointersMeasureLag
    <3> QED
      BY <1>1, <1>3, <2>1, <2>3, <3>1, Pointers, SMTT(30) DEF ReadSnapshot, Lesser, Total
  <2> QED
    BY <2>2, <2>3
<1>5. PointersMeasureLag => PointersMeasureLag'
  BY <1>2, <1>3 DEF PointersMeasureLag
<1>6. UnreadHeld => UnreadHeld'
  BY <1>2, <1>3 DEF UnreadHeld, SlotAhead
<1>7. RingInv'
  BY <1>2, <1>4, <1>5, <1>6 DEF AdcRingInv, RingInv, Unlapped
<1>8. InOrder' /\ ReportIsOverflow'
  BY <1>2, Zenon DEF AdcRingInv, InOrder, ReportIsOverflow
<1> QED
  BY <1>7, <1>8

\* The word copied is the next sample of the capture.
LEMMA CopyReadsNext ==
  ASSUME AdcRingInv, CopyWord, ~lapped
  PROVE  dma_samples[Source] = Len(out)
<1>1. TypeOK /\ SnapshotInv /\ Unlapped /\ pc = "copy" /\ copied < Total
  BY DEF AdcRingInv, RingInv, CopyWord, ThreadRuns
<1>2. /\ copied \in Nat /\ samples_to_read \in Nat
      /\ samples_to_read_after_overflow \in Nat /\ Len(out) \in Nat
  BY <1>1, LenProperties DEF TypeOK, Total
<1>3. copied \in 0..(Lag - 1)
  BY <1>1, <1>2, Pointers DEF Unlapped
<1>4. Source = SlotAhead(copied)
  <2>1. CASE copied < samples_to_read
    BY <1>1, <1>2, <2>1, Pointers, SMTT(30) DEF Source, SlotAhead, SnapshotInv
  <2>2. CASE ~(copied < samples_to_read)
    <3>1. wrapped /\ samples_to_read = N - dma_samples_cur_read
      BY <1>1, <1>2, <2>2 DEF SnapshotInv, Total, TypeOK
    <3> QED
      BY <1>1, <1>2, <2>2, <3>1, Pointers, SMTT(30) DEF Source, SlotAhead
  <2> QED
    BY <2>1, <2>2
<1>5. dma_samples[SlotAhead(copied)] = Consumed + copied
  BY <1>1, <1>3 DEF Unlapped, UnreadHeld
<1> QED
  BY <1>2, <1>4, <1>5 DEF Consumed

LEMMA CopyKeepsRing ==
  ASSUME AdcRingInv, TypeOK', CopyWord
  PROVE  RingInv' /\ InOrder' /\ ReportIsOverflow'
<1>1. /\ UNCHANGED <<dma_samples, dma_samples_cur_write, dma_samples_cur_read,
                     produced, lapped, reported>>
      /\ out' = Append(out, dma_samples[Source]) /\ copied' = copied + 1
      /\ pc = "copy" /\ pc' = pc /\ Total' = Total
  BY DEF CopyWord, ThreadRuns, ringVars, Total
<1>2. out \in Seq(Int) /\ dma_samples[Source] \in Int /\ copied \in Nat
  <2>1. Source \in 0..(N - 1)
    BY <1>1, RingAssumption
       DEF RingAssumption, AdcRingInv, TypeOK, SnapshotInv, CopyWord, Source, Total
  <2>2. TypeOK
    BY DEF AdcRingInv
  <2>3. out \in Seq(Int) /\ dma_samples \in [0..(N - 1) -> Int]
    BY <2>2 DEF TypeOK
  <2>4. copied \in Nat
    BY <2>2, Pointers DEF TypeOK
  <2> QED
    BY <2>1, <2>3, <2>4
<1>3. /\ Len(out') = Len(out) + 1 /\ Len(out) \in Nat
      /\ out'[Len(out) + 1] = dma_samples[Source]
      /\ \A i \in 1..Len(out) : out'[i] = out[i]
  BY <1>1, <1>2, AppendProperties, LenProperties
<1>4. Consumed' = Consumed /\ Lag' = Lag
  BY <1>1, <1>2, <1>3 DEF Consumed, Lag
<1>5. PointersMeasureLag => PointersMeasureLag'
  BY <1>1, <1>4 DEF PointersMeasureLag
<1>6. UnreadHeld => UnreadHeld'
  BY <1>1, <1>4 DEF UnreadHeld, SlotAhead
<1>7. RingInv'
  BY <1>1, <1>4, <1>5, <1>6 DEF AdcRingInv, RingInv, Unlapped
<1>8. InOrder'
  <2> SUFFICES ASSUME ~lapped, NEW i \in 1..(Len(out) + 1) PROVE out'[i] = i - 1
    BY <1>1, <1>3 DEF InOrder
  <2>1. CASE i = Len(out) + 1
    BY <1>3, <2>1, CopyReadsNext
  <2>2. CASE i # Len(out) + 1
    BY <1>3, <2>2 DEF AdcRingInv, InOrder
  <2> QED
    BY <2>1, <2>2
<1>9. ReportIsOverflow'
  BY <1>1 DEF AdcRingInv, ReportIsOverflow
<1> QED
  BY <1>7, <1>8, <1>9

\* The read pointer moves by what was copied, and the lag shrinks by as much.
LEMMA ReturnKeepsRing ==
  ASSUME AdcRingInv, ReadReturn
  PROVE  RingInv' /\ InOrder' /\ ReportIsOverflow'
<1>1. /\ UNCHANGED <<dma_samples, dma_samples_cur_write, produced, lapped, reported, out>>
      /\ dma_samples_cur_read' = IF wrapped THEN samples_to_read_after_overflow
                                 ELSE dma_samples_cur_read + samples_to_read
      /\ copied = Total /\ copied' = 0 /\ pc = "copy" /\ pc' = "user"
  BY DEF ReadReturn, ThreadRuns, ringVars
<1>2. TypeOK /\ SnapshotInv
  BY DEF AdcRingInv
<1>3. /\ samples_to_read \in Nat /\ samples_to_read_after_overflow \in Nat
      /\ Len(out) \in Nat /\ Total = samples_to_read + samples_to_read_after_overflow
      /\ wrapped \in BOOLEAN
  BY <1>2, LenProperties DEF TypeOK, Total
<1>4. Consumed' = Consumed + Total /\ Lag' = Lag - Total
  BY <1>1, <1>2, <1>3, Pointers DEF Consumed, Lag
<1>5. /\ samples_to_read <= N - dma_samples_cur_read
      /\ wrapped => samples_to_read = N - dma_samples_cur_read
      /\ ~wrapped => samples_to_read_after_overflow = 0
  BY <1>1, <1>2 DEF SnapshotInv
<1>6. /\ N \in Nat /\ Lag \in Int /\ Consumed \in Int
      /\ dma_samples_cur_write \in 0..(N - 1) /\ dma_samples_cur_read \in 0..N
  BY <1>2, Pointers
<1>7. ASSUME ~lapped' PROVE Unlapped'
  <2>1. PointersMeasureLag /\ UnreadHeld /\ Total <= Lag
    BY <1>1, <1>7 DEF AdcRingInv, RingInv, Unlapped
  <2>2. /\ PointersMeasureLag'
        /\ \A d \in 0..(Lag - Total - 1) : SlotAhead(d)' = SlotAhead(d + Total)
    <3>1. CASE wrapped
      <4>1. dma_samples_cur_read' = Total - (N - dma_samples_cur_read)
        BY <1>1, <1>3, <1>5, <1>6, <3>1
      <4>2. /\ dma_samples_cur_write < dma_samples_cur_read
            /\ Lag = N - dma_samples_cur_read + dma_samples_cur_write
            /\ Total >= N - dma_samples_cur_read
        BY <1>3, <1>5, <1>6, <2>1, <3>1 DEF PointersMeasureLag
      <4>3. PointersMeasureLag'
        BY <1>1, <1>3, <1>4, <1>6, <2>1, <4>1, <4>2 DEF PointersMeasureLag
      <4>4. ASSUME NEW d \in 0..(Lag - Total - 1)
            PROVE  SlotAhead(d)' = SlotAhead(d + Total)
        BY <1>3, <1>6, <2>1, <4>1, <4>2 DEF SlotAhead
      <4> QED
        BY <4>3, <4>4
    <3>2. CASE ~wrapped
      <4>1. dma_samples_cur_read' = dma_samples_cur_read + Total
        BY <1>1, <1>3, <1>5, <1>6, <3>2
      <4>2. dma_samples_cur_read + Total <= N
        BY <1>3, <1>5, <1>6, <3>2
      <4>3. CASE dma_samples_cur_write >= dma_samples_cur_read
        BY <1>1, <1>3, <1>4, <1>6, <2>1, <4>1, <4>2, <4>3 DEF PointersMeasureLag, SlotAhead
      <4>4. CASE dma_samples_cur_write < dma_samples_cur_read
        BY <1>1, <1>3, <1>4, <1>6, <2>1, <4>1, <4>2, <4>4 DEF PointersMeasureLag, SlotAhead
      <4> QED
        BY <1>6, <4>3, <4>4
    <3> QED
      BY <1>3, <3>1, <3>2
  <2>3. ASSUME NEW d \in 0..(Lag' - 1)
        PROVE  dma_samples'[SlotAhead(d)'] = (Consumed + d)'
    <3>1. d \in 0..(Lag - Total - 1) /\ d + Total \in 0..(Lag - 1)
      BY <1>3, <1>4, <1>6
    <3>2. dma_samples[SlotAhead(d + Total)] = Consumed + (d + Total)
      BY <2>1, <3>1 DEF UnreadHeld
    <3> QED
      BY <1>1, <1>3, <1>4, <1>6, <2>2, <3>1, <3>2
  <2> QED
    BY <1>1, <2>2, <2>3 DEF Unlapped, UnreadHeld
<1>8. InOrder' /\ ReportIsOverflow'
  BY <1>1, Zenon DEF AdcRingInv, InOrder, ReportIsOverflow
<1> QED
  BY <1>7, <1>8 DEF RingInv
-----------------------------------------------------------------------------
(* The results.                                                            *)

LEMMA InductiveStep == AdcRingInv /\ [Next]_vars => AdcRingInv'
<1> SUFFICES ASSUME AdcRingInv, [Next]_vars PROVE AdcRingInv'
  OBVIOUS
<1>1. TypeOK' /\ SnapshotInv'
  BY TypeAndSnapshotStep DEF AdcRingInv
<1> SUFFICES RingInv' /\ InOrder' /\ ReportIsOverflow'
  BY <1>1 DEF AdcRingInv
<1>2. ASSUME Convert \/ IrqOverrun \/ IrqThreshold \/ StopCapture \/ ReadWoken
                     \/ ReadInterrupted \/ UNCHANGED vars
                     \/ \E count \in 1..MaxCount : Read(count)
      PROVE  RingInv' /\ InOrder' /\ ReportIsOverflow'
  <2>1. /\ UNCHANGED <<dma_samples, dma_samples_cur_write, dma_samples_cur_read,
                       produced, lapped, reported, copied, out>>
        /\ pc' = "copy" => pc = "copy" /\ Total' = Total
    BY <1>2 DEF Convert, IrqOverrun, IrqThreshold, StopCapture, ReadWoken,
       ReadInterrupted, Read, vars, hwVars, ringVars, readVars, Total
  <2> QED
    BY <2>1, FrameKeepsRing
<1> QED
  BY <1>1, <1>2, DrainKeepsRing, StartKeepsRing, SnapshotKeepsRing, CopyKeepsRing,
     ReturnKeepsRing DEF Next

(* The inductive invariant of the capture.                                 *)
THEOREM Invariance == Spec => []AdcRingInv
<1>1. Init => AdcRingInv
  BY TypeAndSnapshotInit, RingInit DEF AdcRingInv
<1> QED
  BY <1>1, InductiveStep, PTL DEF Spec

(* adchs_read never touches memory outside dma_samples nor copies more     *)
(* than the caller's buffer holds, however the handler interleaves.        *)
THEOREM BoundsSafety == Spec => []ReadStaysInBounds
<1>1. AdcRingInv => ReadStaysInBounds
  <2> SUFFICES ASSUME TypeOK, SnapshotInv, pc = "copy"
               PROVE  Total <= samples_count /\ (copied < Total => Source \in 0..(N - 1))
    BY DEF AdcRingInv, ReadStaysInBounds
  <2> QED
    BY RingAssumption DEF RingAssumption, TypeOK, SnapshotInv, Source, Total
<1> QED
  BY <1>1, Invariance, PTL

(* Without a lap of the ring the client receives exactly the samples of    *)
(* the capture, in order and without a gap.                                *)
THEOREM OrderSafety == Spec => []InOrder
<1>1. AdcRingInv => InOrder
  BY DEF AdcRingInv
<1> QED
  BY <1>1, Invariance, PTL

(* "Read underflow!" is never a false alarm.                               *)
THEOREM ReportSafety == Spec => []ReportIsOverflow
<1>1. AdcRingInv => ReportIsOverflow
  BY DEF AdcRingInv
<1> QED
  BY <1>1, Invariance, PTL

(* The handler misses an overflow only while the read pointer rests at     *)
(* dma_samples_end.                                                        *)
THEOREM ReportCompleteness == Spec => ReportedUnlessAtEnd
<1>1. AdcRingInv /\ [Next]_vars =>
        [~lapped /\ lapped' => reported' \/ dma_samples_cur_read = N]_vars
  <2> SUFFICES ASSUME AdcRingInv, Next, ~lapped, lapped', dma_samples_cur_read # N
               PROVE  reported'
    BY Zenon
  <2>1. IrqDrain
    BY Zenon DEF Next, Convert, IrqOverrun, IrqThreshold, StartCapture, StopCapture,
       Read, ReadInterrupted, ReadWoken, ReadSnapshot, CopyWord, ReadReturn, ringVars
  <2>2. TypeOK /\ PointersMeasureLag
    BY DEF AdcRingInv, RingInv, Unlapped
  <2>3. produced + 1 - Consumed >= N
    BY <2>1, Zenon DEF IrqDrain
  <2>4. Lag = N - 1
    BY <2>2, <2>3, Pointers DEF Lag, PointersMeasureLag
  <2>5. NextWrite = dma_samples_cur_read
    BY <2>2, <2>4, Pointers DEF NextWrite, PointersMeasureLag
  <2> QED
    BY <2>1, <2>5, Zenon DEF IrqDrain, MeetsReader
<1> QED
  BY <1>1, Invariance, PTL DEF Spec, ReportedUnlessAtEnd

(* The driver refines the bounded in-order channel of capacity N - 1.      *)
THEOREM Refinement == Spec => ImplementsChannel
<1>1. Init => Channel!ChInit
  <2> SUFFICES ASSUME Init PROVE Channel!ChInit
    OBVIOUS
  <2>1. copied = 0 /\ Len(out) = 0
    BY EmptySeq DEF Init
  <2>2. Consumed = 0
    BY <2>1 DEF Consumed
  <2> QED
    BY <2>2 DEF Init, Channel!ChInit
<1>2. AdcRingInv /\ AdcRingInv' /\ [Next]_vars => [Channel!ChNext]_(Channel!chVars)
  <2> SUFFICES ASSUME AdcRingInv, AdcRingInv', [Next]_vars
               PROVE  Channel!ChNext \/ UNCHANGED Channel!chVars
    OBVIOUS
  <2>1. TypeOK /\ SnapshotInv
    BY DEF AdcRingInv
  <2>2. CASE IrqDrain
    <3>1. Consumed' = Consumed /\ out' = out /\ produced' = produced + 1
      BY <2>2 DEF IrqDrain, readVars, Consumed
    <3>2. lapped' = (lapped \/ produced + 1 - Consumed >= N)
      BY <2>2 DEF IrqDrain
    <3>3. produced + 1 - Consumed >= N <=> produced + 1 - Consumed > N - 1
      BY <2>1, Pointers
    <3>4. lapped' = (lapped \/ produced + 1 - Consumed > N - 1)
      BY <3>2, <3>3, Zenon
    <3> QED
      BY <3>1, <3>4 DEF Channel!ChNext, Channel!Send
  <2>3. CASE CopyWord
    <3>1. /\ out' = Append(out, dma_samples[Source]) /\ copied' = copied + 1
          /\ produced' = produced /\ lapped' = lapped
      BY <2>3 DEF CopyWord, ringVars
    <3>2. out \in Seq(Int) /\ out' \in Seq(Int) /\ copied \in Nat
      BY <2>1, Pointers DEF AdcRingInv, TypeOK
    <3>3. dma_samples[Source] \in Int
      <4>1. Source \in 0..(N - 1)
        BY <2>1, <2>3, RingAssumption
           DEF RingAssumption, TypeOK, SnapshotInv, CopyWord, ThreadRuns, Source, Total
      <4> QED
        BY <2>1, <4>1, Pointers
    <3>4. /\ Len(out') = Len(out) + 1 /\ Len(out) \in Nat
          /\ out'[Len(out')] = dma_samples[Source]
          /\ \A i \in 1..Len(out) : out'[i] = out[i]
      BY <3>1, <3>2, <3>3, AppendProperties, LenProperties
    <3>5. Consumed' = Consumed
      BY <3>1, <3>2, <3>4 DEF Consumed
    <3>6. ASSUME ~lapped PROVE Len(out) < produced /\ out'[Len(out')] = Len(out)
      <4>1. Total <= Lag /\ copied < Total
        BY <2>3, <3>6 DEF AdcRingInv, RingInv, Unlapped, CopyWord, ThreadRuns
      <4>2. Len(out) < produced
        BY <2>1, <3>2, <3>4, <4>1, Pointers DEF Lag, Consumed
      <4> QED
        BY <2>3, <3>4, <3>6, <4>2, CopyReadsNext
    <3> QED
      BY <3>1, <3>2, <3>4, <3>5, <3>6 DEF Channel!ChNext, Channel!Receive
  <2>4. CASE ReadReturn
    <3>1. /\ copied' = 0 /\ out' = out /\ produced' = produced /\ lapped' = lapped
      BY <2>4 DEF ReadReturn, ringVars
    <3>2. Consumed' = Len(out)
      BY <2>1, <3>1, LenProperties DEF Consumed, TypeOK
    <3> QED
      BY <3>1, <3>2 DEF Channel!ChNext, Channel!Release
  <2>5. CASE StartCapture
    <3>1. /\ copied' = 0 /\ out' = << >> /\ produced' = 0 /\ lapped' = FALSE
      BY <2>1, <2>5 DEF StartCapture, ThreadRuns, SnapshotInv
    <3>2. Len(out') = 0
      BY <3>1, EmptySeq
    <3>3. copied' = 0
      BY <3>1
    <3>4. Consumed' = 0
      BY <3>2, <3>3 DEF Consumed
    <3> QED
      BY <3>1, <3>4 DEF Channel!ChNext, Channel!Reset
  <2>6. CASE ~(IrqDrain \/ CopyWord \/ ReadReturn \/ StartCapture)
    <3>1. UNCHANGED <<produced, out, copied, lapped>>
      BY <2>6 DEF Next, Convert, IrqOverrun, IrqThreshold, StopCapture, ReadWoken,
         ReadInterrupted, ReadSnapshot, Read, vars, hwVars, ringVars, readVars
    <3> QED
      BY <3>1 DEF Channel!chVars, Consumed
  <2> QED
    BY <2>2, <2>3, <2>4, <2>5, <2>6
<1> QED
  BY <1>1, <1>2, Invariance, PTL DEF Spec, ImplementsChannel, Channel!ChSpec

-----------------------------------------------------------------------------
(***************************************************************************)
(* The oscilloscope (Scope).  The parts of its inductive invariant: types; *)
(* who may do what; the viewer; the counter of the ring; the trigger;      *)
(* where the samples are, in the ring, in the chunk and in the buffer, by  *)
(* their distance from the clock of the capture.                           *)
(***************************************************************************)
(* The types of the plot area that the rest relies on.                    *)
AreaFields ==
  {"count", "cur", "left", "width", "plotCount", "ini", "valid", "gen", "fill", "shown", "interval",
   "time", "range", "static", "grid", "fft", "fftCount", "fftFresh", "fftLeft", "fftWidth",
   "sticky", "cursors", "diff", "from", "to"}

IsArea(a) ==
  /\ DOMAIN a = AreaFields
  /\ a.count \in Nat /\ a.cur \in Nat /\ a.plotCount \in Nat
  /\ a.left \in Nat /\ a.width \in Int /\ a.ini \in Nat
  /\ a.fill \in [last : 0..Ticks, whole : BOOLEAN, excused : BOOLEAN]
  /\ a.time \in Nat
  /\ a.fftLeft \in Int /\ a.fftWidth \in Int /\ a.from \in Int /\ a.to \in Int

(* The viewer is no longer than the buffer and the transform as long as the *)
(* viewer, and the samples of each buffer follow each other.               *)
AreaInv(a) ==
  /\ IsArea(a) /\ a.count > 0
  /\ a.plotCount <= a.count /\ a.cur <= a.count
  /\ a.fft => a.fftCount = a.plotCount
  /\ ~a.fft => a.fftCount = -1
  /\ a.fill.whole /\ a.shown

(* The viewer ends inside the buffer.                                      *)
AreaSettled(a) == Round(a.left) + a.plotCount <= a.count

ThreadFields ==
  {"pc", "toEnd", "chunk", "value", "looked", "based", "hit", "alone", "gen", "view", "fresh",
   "dropped"}
AppFields ==
  {"window", "recording", "end", "trigger", "rate", "interval", "plugin", "wanted", "file",
   "menuAfe", "dialogs", "killed"}
BudgetFields == {"events", "loads", "starts", "chunks", "which"}

(* The types that the other parts rely on.                                 *)
Typed ==
  /\ DOMAIN thread = ThreadFields
  /\ thread.toEnd \in 0..RingSize /\ thread.view \in Nat /\ thread.value \in Nat
  /\ thread.chunk \in Seq(0..Ticks)
  /\ DOMAIN app = AppFields
  /\ app.rate \in Nat \ {0} /\ app.interval \in Nat \ {0} /\ app.file \in Files \cup {NoFile}
  /\ DOMAIN budget = BudgetFields /\ budget.chunks \subseteq 1..RingSize
  /\ mouse \in [mode : Modes, pressed : BOOLEAN, prev : Int, track : BOOLEAN]
  /\ adc \in [on : BOOLEAN, clock : 0..Ticks - 1, callback : {"none", "store"}, value : Nat]
  /\ ring \in [cells : [0..RingSize - 1 -> 0..Ticks], cur : 0..RingSize - 1, pop : 0..RingSize,
               stored : 0..RingSize, paused : BOOLEAN]
  /\ dropped \in BOOLEAN /\ raced \in BOOLEAN /\ overlap \in BOOLEAN

(* Who may do what: a thread lives while the interface records, it         *)
(* captures between its start and its stop, and a window without a thread  *)
(* is gone, unless it was killed.                                          *)
ControlInv ==
  /\ ~app.recording => thread.pc = "none"
  /\ thread.pc \in {"none", "start", "stopped", "done"} => ~adc.on
  /\ thread.pc \in {"none", "start", "done"} => adc.callback = "none"
  /\ ui \notin {"closed", "out"} => app.window /\ ~app.killed
  /\ ui \in {"closed", "out"} /\ ~app.killed => thread.pc = "none"
  /\ FailuresAreKnown

(* The viewer when it is at rest, and what an exchange will make of it.    *)
ViewInv ==
  /\ AreaInv(area)
  /\ ui # "clamp" => AreaSettled(area)
  /\ ui # "clamp" /\ ~overlap /\ thread.pc # "view" => area.ini = Round(area.left)
  /\ ui # "clamp" /\ ~overlap /\ thread.pc = "view" => thread.view = Round(area.left)

(* The samples in the ring that are counted, those that the callback is    *)
(* about to count included, and the place of a cell, the oldest first.     *)
Counting == IF adc.callback = "store" THEN adc.value ELSE ring.stored
Place(i) == (i - ring.cur + RingSize) % RingSize
Precedes(s, m, t) == s < Ticks /\ (s + m) % Ticks = t

(* What is popped is the whole ring, even when the callback interferes.    *)
CountInv ==
  /\ adc.callback = "store" => adc.value >= ring.stored
  /\ thread.pc \in {"first", "second", "store"} => ring.stored = RingSize
  /\ thread.pc = "store" => thread.value = 0
  /\ thread.pc = "second" => Len(thread.chunk) = thread.toEnd
  /\ thread.pc \in {"store", "trigger", "push", "copy"} => Len(thread.chunk) = RingSize

(* What follows holds until a race, and again once the ring is cleared.    *)
CellsInv ==
  \A i \in 0..RingSize - 1 :
    Place(i) >= RingSize - Counting => Precedes(ring.cells[i], RingSize - Place(i), adc.clock)

PopInv ==
  /\ Popping => adc.callback = "none"
  /\ thread.pc \in {"first", "second", "store"} => ~dropped
  /\ thread.pc = "rewind" => ring.stored = 0
  /\ thread.pc \in {"loop", "wait", "first", "store", "trigger", "push", "copy", "view", "pushed"}
       => ring.pop < RingSize /\ (ring.pop + Counting) % RingSize = ring.cur
  /\ thread.pc = "first" => thread.toEnd = RingSize - ring.pop
  /\ thread.pc = "second" => ring.pop = 0 /\ thread.toEnd = RingSize - ring.cur

ChunkInv ==
  /\ thread.pc \in {"second", "store"} =>
       \A k \in 1..Len(thread.chunk) : Precedes(thread.chunk[k], RingSize - k + 1, adc.clock)
  /\ thread.pc \in {"trigger", "push", "copy"} =>
       /\ \A k \in 2..RingSize : Follows(thread.chunk[k - 1], thread.chunk[k])
       /\ ~dropped => Precedes(thread.chunk[RingSize], Counting + 1, adc.clock)

(* The chunk continues what is in the buffer, but after an excuse.         *)
Continues == area.cur > 0 /\ ~area.fill.excused /\ ~thread.fresh

FillInv ==
  Continues =>
    /\ thread.pc \in {"loop", "wait"} /\ ~dropped =>
         Precedes(area.fill.last, Counting + 1, adc.clock)
    /\ thread.pc \in {"first", "second", "store"} /\ ~thread.dropped =>
         Precedes(area.fill.last, RingSize + 1, adc.clock)
    /\ thread.pc \in {"trigger", "push", "copy"} /\ ~thread.dropped =>
         Follows(area.fill.last, thread.chunk[1])

(* What a trigger that is looked for means for the buffer.                 *)
TriggerInv ==
  /\ thread.based /\ ~thread.hit => area.cur = 0 \/ thread.fresh
  /\ thread.pc \in {"push", "copy"} => (thread.based => thread.hit)
  /\ thread.pc \in {"none", "start", "view", "pushed", "pause", "resume", "clear", "rewind"}
       => area.cur = 0 \/ thread.fresh

(* Until the callback interferes with a pop or a resume.                  *)
SeamInv == ~raced => CellsInv /\ PopInv /\ ChunkInv /\ FillInv

(* A chunk is only kept while it is popped and pushed.                     *)
EmptyInv ==
  thread.pc \notin {"second", "store", "trigger", "push", "copy"} => thread.chunk = <<>>

ScopeInv ==
  /\ Typed /\ ControlInv /\ ViewInv /\ CountInv /\ TriggerInv /\ SeamInv /\ EmptyInv
  /\ OnlyKnownOverreads
-----------------------------------------------------------------------------
(* Only what is neither the samples, nor the viewer, nor the transform.    *)
Keeps(a, b) ==
  /\ IsArea(b)
  /\ b.count = a.count /\ b.cur = a.cur /\ b.left = a.left /\ b.plotCount = a.plotCount
  /\ b.ini = a.ini /\ b.fill = a.fill /\ b.shown = a.shown /\ b.fft = a.fft
  /\ b.fftCount = a.fftCount

LEMMA FieldNames ==
 /\ "count" \in AreaFields /\ "cur" \in AreaFields /\ "left" \in AreaFields
 /\ "width" \in AreaFields /\ "plotCount" \in AreaFields /\ "ini" \in AreaFields
 /\ "valid" \in AreaFields /\ "gen" \in AreaFields /\ "fill" \in AreaFields
 /\ "shown" \in AreaFields /\ "interval" \in AreaFields /\ "time" \in AreaFields
 /\ "range" \in AreaFields /\ "static" \in AreaFields /\ "grid" \in AreaFields
 /\ "fft" \in AreaFields /\ "fftCount" \in AreaFields /\ "fftFresh" \in AreaFields
 /\ "fftLeft" \in AreaFields /\ "fftWidth" \in AreaFields /\ "sticky" \in AreaFields
 /\ "cursors" \in AreaFields /\ "diff" \in AreaFields /\ "from" \in AreaFields
 /\ "to" \in AreaFields
BY DEF AreaFields
-----------------------------------------------------------------------------
(* Halves are rounded up, and the parts of a sample are not lost.          *)
LEMMA RoundProperties ==
  /\ \A x \in Nat : Round(x) \in Nat
  /\ \A m \in Nat : Round(Parts * m) = m
  /\ \A x, n \in Nat : x <= Parts * n => Round(x) <= n
<1> USE PartsAssumption
<1> DEFINE D == 2 * Parts
<1>0. D \in Nat \ {0} /\ Parts \in Nat /\ Parts < D
  OBVIOUS
<1>1. ASSUME NEW x \in Nat PROVE Round(x) = (2 * x + Parts) \div D
  BY <1>1 DEF Round
<1>d. ASSUME NEW e \in Nat, NEW y \in Nat, e > 0
      PROVE  y \div e \in Nat /\ e * (y \div e) <= y /\ y < e * (y \div e) + e
  BY <1>d
<1>2. ASSUME NEW x \in Nat
      PROVE  /\ Round(x) \in Nat
             /\ D * Round(x) <= 2 * x + Parts
             /\ 2 * x + Parts < D * Round(x) + D
  <2> DEFINE y == 2 * x + Parts
  <2>1. y \in Nat
    OBVIOUS
  <2>2. Round(x) = y \div D
    BY <1>1
  <2>3. D \in Nat /\ D > 0
    OBVIOUS
  <2> HIDE DEF D, y
  <2>4. y \div D \in Nat /\ D * (y \div D) <= y /\ y < D * (y \div D) + D
    BY <1>d, <2>1, <2>3
  <2>5. Round(x) \in Nat /\ D * Round(x) <= y /\ y < D * Round(x) + D
    BY <2>2, <2>4
  <2>. QED BY <2>5 DEF y
<1>3. ASSUME NEW m \in Nat, NEW k \in Nat, k < m PROVE D * k + D <= D * m
  <2> HIDE DEF D
  <2>1. k + 1 <= m /\ D * (k + 1) = D * k + D
    BY <1>0, <1>3
  <2>2. D * (m - (k + 1)) >= 0
    BY <1>0, <2>1
  <2>. QED BY <1>0, <2>1, <2>2
<1>4. ASSUME NEW m \in Nat PROVE 2 * (Parts * m) + Parts = D * m + Parts /\ Parts * m \in Nat
  OBVIOUS
<1>5. ASSUME NEW x \in Nat, NEW n \in Nat, x <= Parts * n PROVE Round(x) <= n
  <2>1. 2 * x + Parts <= D * n + Parts
    BY <1>4, <1>5
  <2>a. D * Round(x) <= 2 * x + Parts /\ Round(x) \in Nat
    BY <1>2
  <2>b. D * n \in Nat /\ D * Round(x) \in Nat
    BY <2>a
  <2> HIDE DEF D
  <2>2. D * Round(x) <= D * n + Parts /\ Round(x) \in Nat
    BY <2>1, <2>a, <2>b
  <2>3. ASSUME n < Round(x) PROVE FALSE
    BY <1>0, <1>3, <2>2, <2>3
  <2>. QED BY <2>2, <2>3
<1>6. ASSUME NEW m \in Nat PROVE Round(Parts * m) = m
  <2>1. Round(Parts * m) <= m /\ Round(Parts * m) \in Nat
    BY <1>2, <1>4, <1>5
  <2>2. D * m + Parts < D * Round(Parts * m) + D
    BY <1>2, <1>4
  <2>3. ASSUME Round(Parts * m) < m PROVE FALSE
    BY <1>0, <1>3, <2>1, <2>2, <2>3
  <2>. QED BY <2>1, <2>3
<1>. QED BY <1>2, <1>5, <1>6

-----------------------------------------------------------------------------
(* The grid, the cursors and the colours keep the samples and the viewer.  *)
LEMMA GridKeeps ==
  ASSUME NEW a, IsArea(a)
  PROVE  Keeps(a, WithStaticGrid(a))
BY FieldNames DEF IsArea, Keeps, WithStaticGrid, UpdateStaticGrid

LEMMA KeepsTransitive ==
  ASSUME NEW a, NEW b, NEW c, Keeps(a, b), Keeps(b, c)
  PROVE  Keeps(a, c)
BY DEF Keeps

LEMMA KeepsInv ==
  ASSUME NEW a, NEW b, AreaInv(a), Keeps(a, b)
  PROVE  /\ AreaInv(b)
         /\ AreaSettled(a) => AreaSettled(b)
BY DEF Keeps, AreaInv, AreaSettled

LEMMA CosmeticsKeep ==
  ASSUME NEW a, IsArea(a)
  PROVE  /\ Keeps(a, a)
         /\ \A range : Keeps(a, SetRange(a, range))
         /\ \A static : Keeps(a, SetStaticGrid(a, static))
         /\ \A sticky : Keeps(a, SetSticky(a, sticky))
         /\ Keeps(a, ResetCursor(a))
         /\ \A x \in Int : Keeps(a, SetCursorIni(a, x)) /\ Keeps(a, SetCursorEnd(a, x))
         /\ \A static, range : Keeps(a, Configure(a, static, range))
         /\ Keeps(a, Drawn(a))
<1>1. ASSUME NEW b, Keeps(a, b) PROVE Keeps(a, WithStaticGrid(b))
  BY <1>1, GridKeeps, KeepsTransitive DEF Keeps
<1>2. Keeps(a, a)
  BY DEF Keeps
<1>3. ASSUME NEW range, NEW static
      PROVE  Keeps(a, [a EXCEPT !.range = range]) /\ Keeps(a, [a EXCEPT !.static = static])
  BY FieldNames DEF Keeps, IsArea
<1>4. ASSUME NEW range, NEW static
      PROVE  Keeps(a, SetRange(a, range)) /\ Keeps(a, SetStaticGrid(a, static))
  BY <1>1, <1>3 DEF SetRange, SetStaticGrid
<1>5. ASSUME NEW sticky
      PROVE  Keeps(a, SetSticky(a, sticky)) /\ Keeps(a, ResetCursor(a))
  BY FieldNames DEF Keeps, IsArea, SetSticky, ResetCursor
<1>6. ASSUME NEW x \in Int
      PROVE  Keeps(a, SetCursorIni(a, x)) /\ Keeps(a, SetCursorEnd(a, x))
  BY FieldNames DEF Keeps, IsArea, SetCursorIni, SetCursorEnd
<1>7. ASSUME NEW static, NEW range
      PROVE  Keeps(a, Configure(a, static, range))
  <2> DEFINE none == <<0, 0, DefaultRange>>
             b == [a EXCEPT !.time = DefaultTime, !.range = DefaultRange, !.static = FALSE,
                            !.grid = none]
             c == [b EXCEPT !.static = static, !.range = range]
  <2>1. ConfigurationDefaults(a) = b
    BY DEF ConfigurationDefaults
  <2>2. Keeps(a, b)
    <3> HIDE DEF none
    <3>. QED BY DefaultsAssumption, FieldNames DEF Keeps, IsArea
  <2> HIDE DEF b
  <2>3. Keeps(b, c)
    BY <2>2, FieldNames DEF Keeps, IsArea
  <2>4. Keeps(a, WithStaticGrid(c))
    BY <1>1, <2>2, <2>3, KeepsTransitive
  <2>. QED BY <2>1, <2>4 DEF Configure, EndConfiguration
<1>8. Keeps(a, Drawn(a))
  BY FieldNames DEF Keeps, IsArea, Drawn, RecalculateFft
<1>. QED BY <1>2, <1>4, <1>5, <1>6, <1>7, <1>8

-----------------------------------------------------------------------------
(* The samples stay, and the buffer they are collected in. *)
SameFill(a, b) ==
  /\ b.count = a.count /\ b.cur = a.cur /\ b.fill = a.fill /\ b.shown = a.shown

(* Only the viewer is another one, and it is not longer than the buffer.   *)
Resized(a, b) ==
  /\ IsArea(b) /\ SameFill(a, b) /\ b.plotCount <= b.count
  /\ b.fft = a.fft /\ b.fftCount = a.fftCount

LEMMA RoundInt == \A x \in Int : Round(x) \in Int
BY PartsAssumption DEF Round

LEMMA ShareInt == \A ratio, x \in Int : Share(ratio, x) \in Int
BY PartsAssumption DEF Share

LEMMA LimitProperties ==
  ASSUME NEW x \in Int, NEW lo \in Int, NEW hi \in Int, lo <= hi
  PROVE  /\ Limit(x, lo, hi) \in lo..hi
         /\ x \in lo..hi => Limit(x, lo, hi) = x
BY DEF Limit

LEMMA KeepsSameFill ==
  ASSUME NEW a, NEW b, Keeps(a, b)
  PROVE  SameFill(a, b)
BY DEF Keeps, SameFill

(* New buffers: empty, with the viewer over all of them and a transform of *)
(* their own.                                                              *)
LEMMA BuffersFftInv ==
  ASSUME NEW a, IsArea(a), ~a.fft => a.fftCount = -1
  PROVE  LET b == WithBuffersFft(a)
         IN  /\ IsArea(b) /\ SameFill(a, b)
             /\ b.left = a.left /\ b.plotCount = a.plotCount /\ b.ini = a.ini
             /\ b.fft <=> a.fft
             /\ b.fft => b.fftCount = b.plotCount
             /\ ~b.fft => b.fftCount = -1
<1> DEFINE b == WithBuffersFft(a)
           f == [a EXCEPT !.fftCount = -1]
           p == (f.plotCount * Parts) \div 2
           q == f.plotCount
           h == [f EXCEPT !.fftCount = q, !.fftFresh = FALSE]
           g == [h EXCEPT !.fftLeft = 0, !.fftWidth = p]
<1>1. CASE a.fft
  <2>1. b = g
    BY <1>1 DEF WithBuffersFft, InitFft, ReleaseFft
  <2>2. IsArea(f)
    BY FieldNames DEF IsArea
  <2>3. /\ SameFill(a, f) /\ f.left = a.left /\ f.plotCount = a.plotCount /\ f.ini = a.ini
        /\ f.fft
    BY <1>1, FieldNames DEF IsArea, SameFill
  <2> HIDE DEF f
  <2>4. p \in Int /\ q \in Int /\ q = f.plotCount
    BY <2>2, PartsAssumption, FieldNames DEF IsArea
  <2> HIDE DEF p, q
  <2>5. IsArea(h)
    BY <2>2, <2>4, FieldNames DEF IsArea
  <2>6. /\ SameFill(f, h) /\ h.left = f.left /\ h.plotCount = f.plotCount /\ h.ini = f.ini
        /\ h.fftCount = q /\ h.fft
    BY <2>2, <2>3, FieldNames DEF IsArea, SameFill
  <2> HIDE DEF h
  <2>7. IsArea(g)
    BY <2>4, <2>5, FieldNames DEF IsArea
  <2>8. /\ SameFill(h, g) /\ g.left = h.left /\ g.plotCount = h.plotCount /\ g.ini = h.ini
        /\ g.fftCount = h.fftCount /\ g.fft
    BY <2>5, <2>6, FieldNames DEF IsArea, SameFill
  <2> HIDE DEF g, b
  <2>. QED BY <1>1, <2>1, <2>3, <2>4, <2>6, <2>7, <2>8 DEF SameFill, b
<1>2. CASE ~a.fft
  BY <1>2 DEF WithBuffersFft, SameFill
<1>. QED BY <1>1, <1>2

LEMMA InitBuffersInv ==
  ASSUME NEW a, IsArea(a), NEW interval \in Nat \ {0}, a.time > 0, ~a.fft => a.fftCount = -1
  PROVE  LET b == InitBuffers(a, interval)
         IN  AreaInv(b) /\ AreaSettled(b) /\ b.ini = Round(b.left) /\ b.cur = 0
<1> DEFINE b0 == AllocatedBuffers(a, interval)
           b1 == WithDefaultViewer(b0)
           b2 == SetBufferAddresses(b1)
           b3 == WithBuffersFft(b2)
           b4 == WithStaticGrid(b3)
<1>1. /\ IsArea(b0) /\ b0.fill = Empty /\ b0.fftCount = a.fftCount
      /\ b0.shown /\ Empty.whole /\ b0.count > 0
      /\ b0.fft <=> a.fft
  <2> DEFINE n == Samples(interval, a.time)
             g == 1 - a.gen
  <2>1. n \in Nat /\ n > 0
    <3>1. a.time \in Nat /\ a.time > 0
      BY FieldNames DEF IsArea
    <3>2. \A t \in Nat : t > 0 => (interval + t - 1) \div t \in Nat
      OBVIOUS
    <3>3. \A t, y \in Nat : t > 0 /\ y >= t => y \div t > 0
      OBVIOUS
    <3>4. interval + a.time - 1 \in Nat /\ interval + a.time - 1 >= a.time
      BY <3>1
    <3>. QED BY <3>1, <3>2, <3>3, <3>4 DEF Samples
  <2>3. Empty \in [last : 0..Ticks, whole : BOOLEAN, excused : BOOLEAN] /\ Empty.whole
    BY DefaultsAssumption DEF Empty
  <2>4. b0 = [a EXCEPT !.valid = FALSE, !.interval = interval, !.count = n, !.gen = g,
                       !.fill = Empty, !.shown = TRUE]
    BY DEF AllocatedBuffers
  <2> DEFINE c == [a EXCEPT !.valid = FALSE, !.interval = interval, !.count = n]
             d == [c EXCEPT !.gen = g, !.fill = Empty, !.shown = TRUE]
  <2>5. IsArea(c) /\ c.count > 0 /\ c.fftCount = a.fftCount /\ (c.fft <=> a.fft)
    <3> HIDE DEF n
    <3>. QED BY <2>1, FieldNames DEF IsArea
  <2>6. /\ IsArea(d) /\ d.count > 0 /\ d.fill = Empty /\ d.fftCount = c.fftCount /\ d.shown
        /\ d.fft <=> c.fft
    <3> HIDE DEF c, g
    <3>. QED BY <2>3, <2>5, FieldNames DEF IsArea
  <2>7. b0 = d
    <3> HIDE DEF n, g, b0
    <3>. QED BY <2>4
  <2> HIDE DEF b0, c, d
  <2>. QED BY <2>3, <2>5, <2>6, <2>7
<1>2. Round(0) = 0
  <2>1. 0 = Parts * 0
    BY PartsAssumption
  <2>. QED BY <2>1, RoundProperties
<1>3. /\ IsArea(b1) /\ b1.left = 0 /\ b1.plotCount <= b1.count /\ b1.count > 0
      /\ b1.fill = Empty /\ b1.shown /\ b1.fftCount = b0.fftCount
      /\ b1.fft <=> b0.fft
  <2> DEFINE n == b0.count
             m == Parts * n
             v == Parts * DefaultViewer
             w == Limit(v, 0, m)
             r == Round(w)
  <2> HIDE DEF b0
  <2>1. n \in Nat
    BY <1>1, FieldNames DEF IsArea
  <2>2. m \in Nat /\ v \in Nat
    BY <2>1, PartsAssumption, DefaultsAssumption
  <2>3. w \in Nat /\ w <= m
    <3> HIDE DEF m, v
    <3>. QED BY <2>2, LimitProperties
  <2>4. r \in Nat /\ r <= n
    <3> HIDE DEF w, n
    <3>. QED BY <2>1, <2>3, RoundProperties
  <2>5. b1 = [b0 EXCEPT !.left = 0, !.width = w, !.plotCount = r]
    BY DEF WithDefaultViewer
  <2> HIDE DEF w, r, b1, m, n
  <2>6. IsArea(b1)
    BY <1>1, <2>3, <2>4, <2>5, FieldNames DEF IsArea
  <2>7. /\ b1.left = 0 /\ b1.plotCount = r /\ b1.count = b0.count
        /\ b1.fill = b0.fill /\ b1.fftCount = b0.fftCount
    BY <1>1, <2>5, FieldNames DEF IsArea
  <2>8. /\ b1.shown <=> b0.shown
        /\ b1.fft <=> b0.fft
    BY <1>1, <2>5, FieldNames DEF IsArea
  <2>. QED BY <1>1, <2>4, <2>6, <2>7, <2>8 DEF n
<1>4. /\ IsArea(b2) /\ b2.left = 0 /\ b2.plotCount <= b2.count /\ b2.count > 0 /\ b2.ini = 0
      /\ b2.cur = 0
      /\ b2.fill = Empty /\ b2.shown /\ b2.fftCount = b1.fftCount
      /\ b2.fft <=> b1.fft
  <2>1. Round(b1.left) = 0
    BY <1>2, <1>3
  <2> HIDE DEF b1
  <2>. QED BY <1>3, <2>1, FieldNames DEF IsArea, SetBufferAddresses
<1> HIDE DEF b0, b1, b2
<1>5. ~b2.fft => b2.fftCount = -1
  BY <1>1, <1>3, <1>4
<1>6. /\ IsArea(b3) /\ SameFill(b2, b3)
      /\ b3.left = 0 /\ b3.plotCount <= b3.count /\ b3.count > 0 /\ b3.ini = 0
      /\ b3.fft => b3.fftCount = b3.plotCount
      /\ ~b3.fft => b3.fftCount = -1
  BY <1>4, <1>5, BuffersFftInv DEF SameFill
<1> HIDE DEF b3
<1>7. AreaInv(b3) /\ AreaSettled(b3) /\ b3.ini = Round(b3.left) /\ b3.cur = 0
  <2>1. b3.plotCount \in Nat /\ b3.count \in Nat /\ b3.left = 0 /\ b3.cur = 0
    BY <1>4, <1>6, FieldNames DEF IsArea, SameFill
  <2>2. AreaSettled(b3) /\ b3.ini = Round(b3.left)
    BY <1>2, <1>6, <2>1 DEF AreaSettled
  <2>. QED BY <1>1, <1>4, <1>6, <2>1, <2>2 DEF AreaInv, SameFill
<1>8. Keeps(b3, b4)
  BY <1>6, GridKeeps
<1>9. InitBuffers(a, interval) = b4
  BY DEF InitBuffers, b0, b1, b2, b3
<1> HIDE DEF b4
<1>. QED BY <1>7, <1>8, <1>9, KeepsInv DEF Keeps

(* The buffers are allocated again, or nothing changes.                    *)
LEMMA SetOscBufferInv ==
  ASSUME NEW a, AreaInv(a), NEW interval \in Nat \ {0}, NEW time \in Nat \ {0}
  PROVE  LET b == SetOscBuffer(a, interval, time)
         IN  \/ b = a
             \/ AreaInv(b) /\ AreaSettled(b) /\ b.ini = Round(b.left) /\ b.cur = 0
<1>1. CASE interval = a.interval /\ time = a.time
  BY <1>1 DEF SetOscBuffer
<1>2. CASE ~(interval = a.interval /\ time = a.time)
  <2> DEFINE c == [a EXCEPT !.time = time]
  <2>1. IsArea(c) /\ c.time > 0 /\ (~c.fft => c.fftCount = -1)
    BY FieldNames DEF AreaInv, IsArea
  <2>2. SetOscBuffer(a, interval, time) = InitBuffers(c, interval)
    BY <1>2 DEF SetOscBuffer
  <2> HIDE DEF c
  <2>. QED BY <2>1, <2>2, InitBuffersInv
<1>. QED BY <1>1, <1>2

-----------------------------------------------------------------------------
LEMMA WidthResizes ==
  ASSUME NEW a, IsArea(a), a.count > 0, NEW w \in Int
  PROVE  Resized(a, SetViewerWidth(a, w))
<1> DEFINE r == Round(w)
           m == Parts * a.count
           b1 == [a EXCEPT !.width = Parts, !.plotCount = 1]
           b2 == [a EXCEPT !.width = m, !.plotCount = a.count]
           b3 == [a EXCEPT !.width = w, !.plotCount = r]
           b == IF r < 0 THEN b1 ELSE IF r > a.count THEN b2 ELSE b3
<1>1. SetViewerWidth(a, w) = WithStaticGrid(b)
  BY DEF SetViewerWidth
<1>2. r \in Int /\ m \in Int /\ Parts \in Int
  BY RoundInt, PartsAssumption DEF IsArea
<1> HIDE DEF r, m
<1>3. Resized(a, b1) /\ Resized(a, b2)
  BY <1>2, FieldNames DEF Resized, SameFill, IsArea
<1>4. r >= 0 /\ r <= a.count => Resized(a, b3)
  BY <1>2, FieldNames DEF Resized, SameFill, IsArea
<1>5. a.count \in Int
  BY DEF IsArea
<1>6. Resized(a, b)
  <2> HIDE DEF b1, b2, b3
  <2>. QED BY <1>2, <1>3, <1>4, <1>5
<1> HIDE DEF b
<1>7. Keeps(b, WithStaticGrid(b))
  BY <1>6, GridKeeps DEF Resized
<1>. QED BY <1>1, <1>6, <1>7 DEF Resized, Keeps, SameFill

LEMMA ResizedTransitive ==
  ASSUME NEW a, NEW b, NEW c, Resized(a, b), Resized(b, c) \/ Keeps(b, c)
  PROVE  Resized(a, c)
BY DEF Resized, SameFill, Keeps

(* The operations of the user on the viewer, before they are limited. *)
LEMMA ViewerResizes ==
  ASSUME NEW a, AreaInv(a)
  PROVE  /\ Resized(a, AutoScaleX(a))
         /\ \A delta \in Int : Resized(a, ScaleViewer(a, delta))
         /\ \A range : \A w \in Int : Resized(a, SetViewerWidth(SetRange(a, range), w))
         /\ \A range : Resized(a, SetRange(ResetCursor(SetSticky(ZoomSamples(a), FALSE)), range))
<1> USE DEF AreaInv
<1>1. Resized(a, AutoScaleX(a))
  <2>1. Parts * DefaultViewer \in Int
    BY PartsAssumption, DefaultsAssumption
  <2>. QED BY <2>1, WidthResizes DEF AutoScaleX
<1>2. ASSUME NEW l \in Int
      PROVE  Resized(a, [a EXCEPT !.left = AtLeastZero(l)])
  <2>1. AtLeastZero(l) \in Nat
    BY DEF AtLeastZero
  <2>. QED BY <2>1, FieldNames DEF Resized, SameFill, IsArea
<1>3. ASSUME NEW l \in Int, NEW v \in Int
      PROVE  Resized(a, SetViewerWidth([a EXCEPT !.left = AtLeastZero(l)], v))
  <2> DEFINE b == [a EXCEPT !.left = AtLeastZero(l)]
  <2>1. Resized(a, b)
    BY <1>2
  <2> HIDE DEF b
  <2>2. Resized(b, SetViewerWidth(b, v))
    BY <2>1, WidthResizes DEF Resized, SameFill
  <2>. QED BY <2>1, <2>2, ResizedTransitive DEF b
<1>4. ASSUME NEW delta \in Int
      PROVE  Resized(a, ScaleViewer(a, delta))
  <2>1. a.left - (delta * a.plotCount) \div 2 \in Int
    <3>1. delta * a.plotCount \in Int /\ a.left \in Int
      BY DEF IsArea
    <3>. QED BY <3>1
  <2>2. a.width + delta * a.plotCount \in Int
    BY DEF IsArea
  <2>3. ScaleViewer(a, delta)
          = SetViewerWidth([a EXCEPT !.left = AtLeastZero(a.left - (delta * a.plotCount) \div 2)],
                           a.width + delta * a.plotCount)
    BY DEF ScaleViewer
  <2>. QED BY <1>3, <2>1, <2>2, <2>3
<1>5. ASSUME NEW range, NEW w \in Int
      PROVE  Resized(a, SetViewerWidth(SetRange(a, range), w))
  <2>1. Keeps(a, SetRange(a, range))
    BY CosmeticsKeep
  <2>2. Resized(SetRange(a, range), SetViewerWidth(SetRange(a, range), w))
    BY <2>1, WidthResizes DEF Keeps
  <2>. QED BY <2>1, <2>2 DEF Resized, Keeps, SameFill
<1>6. Resized(a, ZoomSamples(a))
  <2>1. CursorFrom(a) \in Int /\ CursorTo(a) \in Int
    BY DEF CursorFrom, CursorTo, IsArea
  <2> DEFINE from == Share(CursorFrom(a), a.width)
             v == Share(CursorTo(a) - CursorFrom(a), a.width)
  <2>2. from \in Int /\ v \in Int /\ a.left \in Int
    <3>1. CursorTo(a) - CursorFrom(a) \in Int /\ a.width \in Int /\ a.left \in Int
      BY <2>1 DEF IsArea
    <3>. QED BY <2>1, <3>1, ShareInt
  <2>3. ZoomSamples(a) = SetViewerWidth([a EXCEPT !.left = AtLeastZero(a.left + from)], v)
    BY DEF ZoomSamples
  <2> HIDE DEF from, v
  <2>. QED BY <1>3, <2>2, <2>3
<1>7. ASSUME NEW range
      PROVE  Resized(a, SetRange(ResetCursor(SetSticky(ZoomSamples(a), FALSE)), range))
  <2> DEFINE z == ZoomSamples(a)
             y == SetSticky(z, FALSE)
             x == ResetCursor(y)
  <2> HIDE DEF z
  <2>1. Resized(a, z) /\ IsArea(z)
    BY <1>6 DEF Resized, z
  <2>2. Keeps(z, y)
    BY <2>1, CosmeticsKeep
  <2> HIDE DEF y
  <2>3. Keeps(y, x)
    BY <2>2, CosmeticsKeep DEF Keeps
  <2> HIDE DEF x
  <2>4. Keeps(x, SetRange(x, range))
    BY <2>3, CosmeticsKeep DEF Keeps
  <2>5. Keeps(z, SetRange(x, range))
    BY <2>2, <2>3, <2>4, KeepsTransitive
  <2>6. Resized(a, SetRange(x, range))
    BY <2>1, <2>5, ResizedTransitive
  <2>. QED BY <2>6 DEF x, y, z
<1>. QED BY <1>1, <1>4, <1>5, <1>7

(* The transform is allocated again for the viewer.                        *)
LEMMA NewFftInv ==
  ASSUME NEW a, AreaInv(a), NEW b, Resized(a, b)
  PROVE  AreaInv(WithNewFft(b)) /\ SameFill(a, WithNewFft(b))
<1>1. ~b.fft => b.fftCount = -1
  BY DEF Resized, AreaInv
<1> DEFINE c == WithBuffersFft(b)
           d == IF b.fft THEN RecalculateFft(c) ELSE b
<1>2. /\ IsArea(c) /\ SameFill(b, c) /\ c.plotCount = b.plotCount
      /\ c.fft <=> b.fft
      /\ c.fft => c.fftCount = c.plotCount
      /\ ~c.fft => c.fftCount = -1
  BY <1>1, BuffersFftInv DEF Resized
<1>3. AreaInv(c) /\ SameFill(a, c)
  BY <1>2 DEF AreaInv, Resized, SameFill
<1>4. Keeps(c, RecalculateFft(c))
  BY <1>2, FieldNames DEF Keeps, IsArea, RecalculateFft
<1>5. AreaInv(RecalculateFft(c)) /\ SameFill(a, RecalculateFft(c))
  BY <1>3, <1>4, KeepsInv, KeepsSameFill DEF SameFill
<1>6. ~b.fft => c = b
  BY DEF WithBuffersFft
<1>7. WithNewFft(b) = d
  BY DEF WithNewFft
<1> HIDE DEF c
<1>. QED BY <1>3, <1>5, <1>6, <1>7

LEMMA MoveInv ==
  ASSUME NEW a, AreaInv(a), NEW delta \in Int
  PROVE  AreaInv(MoveViewer(a, delta)) /\ SameFill(a, MoveViewer(a, delta))
<1> DEFINE l == AtLeastZero(a.left + delta * a.plotCount)
           b == [a EXCEPT !.left = l]
<1>1. l \in Nat
  <2>1. a.left + delta * a.plotCount \in Int
    BY DEF AreaInv, IsArea
  <2>. QED BY <2>1 DEF AtLeastZero
<1>2. MoveViewer(a, delta) = b
  BY DEF MoveViewer
<1> HIDE DEF l
<1>3. IsArea(b) /\ SameFill(a, b) /\ b.plotCount = a.plotCount /\ b.fftCount = a.fftCount
  BY <1>1, FieldNames DEF AreaInv, IsArea, SameFill
<1>4. b.fft <=> a.fft
  BY FieldNames DEF AreaInv, IsArea
<1> HIDE DEF b
<1>. QED BY <1>2, <1>3, <1>4 DEF AreaInv, SameFill

(* The second half of move_viewer_x leaves the viewer inside the buffer.   *)
LEMMA ClampSettles ==
  ASSUME NEW a, AreaInv(a)
  PROVE  LET b == ClampViewer(a)
         IN  AreaInv(b) /\ SameFill(a, b) /\ AreaSettled(b) /\ b.ini = Round(b.left)
<1> DEFINE beyond == Round(a.left) + a.plotCount > a.count
           n == a.count - a.plotCount
           m == Parts * n
           i == IF beyond THEN n ELSE Round(a.left)
           l == IF beyond THEN m ELSE a.left
           b == [a EXCEPT !.ini = i, !.left = l]
           c == IF b.fft THEN RecalculateFft(b) ELSE b
<1>1. a.count \in Nat /\ a.plotCount \in Nat /\ a.left \in Nat /\ n \in Nat
  BY DEF AreaInv, IsArea
<1>2. Round(a.left) \in Nat /\ Round(m) = n /\ m \in Nat
  <2> HIDE DEF n
  <2>1. m \in Nat
    BY <1>1, PartsAssumption
  <2>. QED BY <1>1, <2>1, RoundProperties
<1>3. i \in Nat /\ l \in Nat /\ i = Round(l) /\ i + a.plotCount <= a.count
  <2>1. CASE beyond
    <3>1. i = n /\ l = m
      BY <2>1
    <3>2. i + a.plotCount <= a.count
      BY <1>1, <3>1
    <3> HIDE DEF i, l, m, n, beyond
    <3>. QED BY <1>1, <1>2, <3>1, <3>2
  <2>2. CASE ~beyond
    BY <1>1, <1>2, <2>2
  <2>. QED BY <2>1, <2>2
<1>4. ClampViewer(a) = c
  BY DEF ClampViewer
<1> HIDE DEF i, l, beyond
<1>5. /\ IsArea(b) /\ SameFill(a, b) /\ b.plotCount = a.plotCount /\ b.ini = i /\ b.left = l
      /\ b.fftCount = a.fftCount
  BY <1>3, FieldNames DEF AreaInv, IsArea, SameFill
<1>6. b.fft <=> a.fft
  BY FieldNames DEF AreaInv, IsArea
<1> HIDE DEF b
<1>7. AreaInv(b) /\ AreaSettled(b)
  BY <1>3, <1>5, <1>6 DEF AreaInv, SameFill, AreaSettled
<1>8. Keeps(b, c)
  BY <1>5, FieldNames DEF Keeps, IsArea, RecalculateFft
<1> HIDE DEF c
<1>9. AreaInv(c) /\ AreaSettled(c)
  BY <1>7, <1>8, KeepsInv
<1>. QED BY <1>3, <1>4, <1>5, <1>8, <1>9 DEF Keeps, SameFill

LEMMA ZoomFftKeeps ==
  ASSUME NEW a, AreaInv(a)
  PROVE  Keeps(a, ResetCursor(SetSticky(ZoomFft(a), FALSE)))
<1> DEFINE z == ZoomFft(a)
           y == SetSticky(z, FALSE)
           l == AtLeastZero(a.fftLeft + Share(CursorFrom(a), a.fftWidth))
           w == Share(CursorTo(a) - CursorFrom(a), a.fftWidth)
<1>1. CursorFrom(a) \in Int /\ CursorTo(a) \in Int /\ a.fftWidth \in Int /\ a.fftLeft \in Int
  BY DEF CursorFrom, CursorTo, AreaInv, IsArea
<1>2. l \in Int /\ w \in Int
  <2>1. CursorTo(a) - CursorFrom(a) \in Int
    BY <1>1
  <2>2. Share(CursorFrom(a), a.fftWidth) \in Int /\ w \in Int
    BY <1>1, <2>1, ShareInt
  <2>3. a.fftLeft + Share(CursorFrom(a), a.fftWidth) \in Int
    BY <1>1, <2>2
  <2>. QED BY <2>2, <2>3 DEF AtLeastZero
<1>3. z = [a EXCEPT !.fftLeft = l, !.fftWidth = w]
  BY DEF ZoomFft
<1> HIDE DEF l, w, z
<1>4. Keeps(a, z)
  BY <1>2, <1>3, FieldNames DEF AreaInv, Keeps, IsArea
<1>5. Keeps(z, y)
  <2>1. IsArea(z)
    BY <1>4 DEF Keeps
  <2>. QED BY <2>1, CosmeticsKeep, Zenon
<1> HIDE DEF y
<1>6. Keeps(y, ResetCursor(y))
  <2>1. IsArea(y)
    BY <1>5 DEF Keeps
  <2>. QED BY <2>1, CosmeticsKeep, Zenon
<1>7. Keeps(a, ResetCursor(y))
  BY <1>4, <1>5, <1>6, KeepsTransitive
<1>. QED BY <1>7 DEF y, z

(* Turning the transform on and off keeps the samples and the viewer.      *)
LEMMA SetPlotFftInv ==
  ASSUME NEW a, AreaInv(a)
  PROVE  LET b == SetPlotFft(a)
         IN  /\ AreaInv(b) /\ SameFill(a, b)
             /\ b.left = a.left /\ b.plotCount = a.plotCount /\ b.ini = a.ini
<1>1. CASE a.fft
  <2> DEFINE f == [a EXCEPT !.fft = FALSE]
             g == [f EXCEPT !.fftCount = -1]
  <2>1. SetPlotFft(a) = g
    BY <1>1 DEF SetPlotFft, ReleaseFft
  <2>2. IsArea(g) /\ SameFill(a, g) /\ g.plotCount = a.plotCount /\ g.fftCount = -1
        /\ g.left = a.left /\ g.ini = a.ini
    BY FieldNames DEF AreaInv, IsArea, SameFill
  <2>3. ~g.fft
    BY FieldNames DEF AreaInv, IsArea
  <2> HIDE DEF f, g
  <2>. QED BY <2>1, <2>2, <2>3 DEF AreaInv, SameFill
<1>2. CASE ~a.fft
  <2> DEFINE f == [a EXCEPT !.fft = TRUE]
             p == (f.plotCount * Parts) \div 2
             q == f.plotCount
             g == [f EXCEPT !.fftCount = q, !.fftFresh = FALSE, !.fftLeft = 0, !.fftWidth = p]
             h == [g EXCEPT !.fftFresh = TRUE]
  <2>1. SetPlotFft(a) = h
    BY <1>2 DEF SetPlotFft, InitFft, RecalculateFft
  <2>2. IsArea(f) /\ SameFill(a, f) /\ f.plotCount = a.plotCount
        /\ f.left = a.left /\ f.ini = a.ini
    BY FieldNames DEF AreaInv, IsArea, SameFill
  <2>3. f.fft
    BY FieldNames DEF AreaInv, IsArea
  <2> HIDE DEF f
  <2>4. p \in Int /\ q \in Int
    BY <2>2, PartsAssumption DEF IsArea
  <2> HIDE DEF p, q
  <2>5. IsArea(h) /\ SameFill(f, h) /\ h.plotCount = f.plotCount /\ h.fftCount = q
        /\ h.left = f.left /\ h.ini = f.ini
    BY <2>2, <2>4, FieldNames DEF IsArea, SameFill
  <2>6. h.fft <=> f.fft
    BY <2>2, FieldNames DEF IsArea
  <2> HIDE DEF h
  <2>7. IsArea(h) /\ SameFill(a, h) /\ h.plotCount = a.plotCount /\ h.fftCount = h.plotCount
        /\ h.left = a.left /\ h.ini = a.ini /\ h.fft
    BY <2>2, <2>3, <2>5, <2>6 DEF SameFill, q
  <2>. QED BY <2>1, <2>7 DEF AreaInv, SameFill
<1>. QED BY <1>1, <1>2

(* The plot area that the constructor leaves.                              *)
LEMMA NewAreaInv ==
  LET a == NewArea(DefaultInterval)
  IN  AreaInv(a) /\ AreaSettled(a) /\ a.ini = Round(a.left) /\ a.cur = 0
<1> DEFINE z == [count |-> 0, cur |-> 0, left |-> 0, width |-> 0, plotCount |-> 0, ini |-> 0,
                 valid |-> FALSE, gen |-> 0, fill |-> Empty, shown |-> TRUE, interval |-> 0,
                 time |-> 0, range |-> 0, static |-> FALSE, grid |-> <<0, 0, 0>>, fft |-> FALSE,
                 fftCount |-> -1, fftFresh |-> FALSE, fftLeft |-> 0, fftWidth |-> 0,
                 sticky |-> FALSE, cursors |-> FALSE, diff |-> FALSE, from |-> 0, to |-> 0]
           d == ConfigurationDefaults(z)
<1>1. Empty \in [last : 0..Ticks, whole : BOOLEAN, excused : BOOLEAN]
  BY DefaultsAssumption DEF Empty
<1>2. IsArea(z) /\ ~z.fft /\ z.fftCount = -1
  BY <1>1 DEF IsArea, AreaFields
<1>3. NewArea(DefaultInterval) = InitBuffers(d, DefaultInterval)
  BY DEF NewArea
<1> HIDE DEF z
<1>4. IsArea(d) /\ d.time > 0 /\ (~d.fft => d.fftCount = -1)
  <2> DEFINE none == <<0, 0, DefaultRange>>
  <2>1. d = [z EXCEPT !.time = DefaultTime, !.range = DefaultRange, !.static = FALSE, !.grid = none]
    BY DEF ConfigurationDefaults
  <2> HIDE DEF none, d
  <2>. QED BY <1>2, <2>1, DefaultsAssumption, FieldNames DEF IsArea
<1> HIDE DEF d
<1>. QED BY <1>3, <1>4, InitBuffersInv, SettingsAssumption

-----------------------------------------------------------------------------
(* The samples and the viewer stay.                                        *)
Same(a, b) ==
  AreaInv(b) /\ SameFill(a, b) /\ b.left = a.left /\ b.plotCount = a.plotCount /\ b.ini = a.ini

(* What a handler does to the plot area: nothing to the viewer, half of a  *)
(* change of it, the other half, or new buffers.                           *)
AreaStep ==
  \/ Same(area, area') /\ (ui' # "clamp" => ui # "clamp") /\ (~overlap' => ~overlap)
  \/ AreaInv(area') /\ SameFill(area, area') /\ ui' = "clamp"
  \/ /\ AreaInv(area') /\ (SameFill(area, area') \/ area'.cur = 0)
     /\ AreaSettled(area') /\ area'.ini = Round(area'.left)
     /\ thread.pc = "view" => overlap'

LEMMA KeepsSame ==
  ASSUME NEW a, NEW b, AreaInv(a), Keeps(a, b)
  PROVE  Same(a, b)
BY KeepsInv, KeepsSameFill DEF Same, Keeps

LEMMA RedrawsStep ==
  ASSUME NEW a, Typed, AreaInv(area), Same(area, a), Changes(a), UNCHANGED ui
  PROVE  AreaStep
BY DEF Changes, AreaStep, Typed

LEMMA KeptStep ==
  ASSUME Typed, AreaInv(area), UNCHANGED <<area, overlap>>, ui' # "clamp" => ui # "clamp"
  PROVE  AreaStep
<1>1. Same(area, area)
  BY DEF Same, SameFill
<1>. QED BY <1>1 DEF AreaStep

LEMMA WidthStep ==
  ASSUME NEW a, Typed, AreaInv(area), Resized(area, a), ChangesWidth(a)
  PROVE  AreaStep
<1>1. AreaInv(WithNewFft(a)) /\ SameFill(area, WithNewFft(a))
  BY NewFftInv
<1>. QED BY <1>1 DEF ChangesWidth, Changes, AreaStep

LEMMA BuffersStep ==
  ASSUME NEW a, Typed, AreaInv(area), Same(area, a), NEW interval \in Nat \ {0},
         NEW time \in Nat \ {0}, Changes(SetOscBuffer(a, interval, time)),
         ui' # "clamp" => ui # "clamp"
  PROVE  AreaStep
<1> DEFINE b == SetOscBuffer(a, interval, time)
<1>1. \/ b = a
      \/ AreaInv(b) /\ AreaSettled(b) /\ b.ini = Round(b.left) /\ b.cur = 0
  BY SetOscBufferInv DEF Same
<1>2. area' = b /\ overlap' = (overlap \/ (thread.pc = "view" /\ b # area))
  BY DEF Changes
<1> HIDE DEF b
<1>3. CASE b = a
  BY <1>2, <1>3 DEF AreaStep, Typed
<1>4. CASE b = area
  <2>1. Same(area, area)
    BY DEF Same, SameFill
  <2>. QED BY <1>2, <1>4, <2>1 DEF AreaStep, Typed
<1>5. CASE b # a /\ b # area
  BY <1>1, <1>2, <1>5 DEF AreaStep
<1>. QED BY <1>3, <1>4, <1>5

LEMMA LoadStep ==
  ASSUME Typed, AreaInv(area), ui # "clamp", NEW f \in Files, NEW cape, Load(f, cape)
  PROVE  AreaStep
<1>1. CASE UNCHANGED <<area, overlap, ui>>
  BY <1>1, KeptStep
<1>2. CASE Changes(LoadedArea(f)) /\ ui' = "rest"
  <2> DEFINE a == IF f.area THEN Configure(area, f.static, f.range) ELSE area
             interval == LoadedApp(f).interval
             time == LoadedApp(f).rate
  <2>1. Same(area, a)
    <3>1. Keeps(area, Configure(area, f.static, f.range)) /\ Keeps(area, area)
      BY CosmeticsKeep DEF AreaInv
    <3>. QED BY <3>1, KeepsSame
  <2>2. interval \in Nat \ {0} /\ time \in Nat \ {0}
    <3>1. interval = IF f.app THEN f.interval ELSE app.interval
      BY DEF LoadedApp, Typed, AppFields
    <3>2. time = IF f.recorder THEN f.rate ELSE app.rate
      BY DEF LoadedApp, Typed, AppFields
    <3>. QED BY <3>1, <3>2, SettingsAssumption DEF Typed
  <2>3. LoadedArea(f) = SetOscBuffer(a, interval, time)
    BY DEF LoadedArea
  <2> HIDE DEF a, interval, time
  <2>. QED BY <1>2, <2>1, <2>2, <2>3, BuffersStep
<1>. QED BY <1>1, <1>2 DEF Load, Fail

(* Every handler of the interface makes one of these steps.                *)
LEMMA UserArea ==
  ASSUME Typed, ViewInv, User
  PROVE  AreaStep
<1> USE DEF ViewInv
<1>k. ASSUME NEW b, Keeps(area, b), Redraws(b) PROVE AreaStep
  BY <1>k, KeepsSame, RedrawsStep DEF Redraws
<1>1. CASE Start \/ Stop \/ Quit \/ QuitJoined \/ Joined \/ CloseWindow
  BY <1>1, KeptStep DEF Start, Stop, Quit, QuitJoined, Joined, CloseWindow, UiRests
<1>2. CASE Exit \/ MenuAfe \/ MenuSaveSamples
  BY <1>2, KeptStep DEF Exit, MenuAfe, MenuSaveSamples, MenuKeeps, Fail
<1>3. ASSUME NEW d, ShowSettings(d) PROVE AreaStep
  BY <1>3, KeptStep DEF ShowSettings
<1>4. CASE Activate
  BY <1>4, KeptStep, LoadStep DEF Activate
<1>5. CASE LoadConfiguration
  BY <1>5, LoadStep DEF LoadConfiguration, UiRests
<1>6. CASE ReloadConfiguration
  <2>1. app.file \in Files
    BY <1>6 DEF ReloadConfiguration, Typed
  <2>. QED BY <1>6, <2>1, LoadStep DEF ReloadConfiguration, UiRests
<1>7. CASE Clamp
  BY <1>7, ClampSettles DEF Clamp, AreaStep
<1>8. CASE Draw
  <2>1. Same(area, area')
    BY <1>8, CosmeticsKeep, KeepsSame DEF Draw, AreaInv
  <2>. QED BY <1>8, <2>1 DEF Draw, AreaStep
<1>9. CASE MenuAutoScaleX
  BY <1>9, ViewerResizes, WidthStep DEF MenuAutoScaleX
<1>10. CASE MenuToggleStaticGrid
  BY <1>10, <1>k, CosmeticsKeep DEF MenuToggleStaticGrid, AreaInv
<1>11. CASE MenuToggleFft
  <2>1. CASE UNCHANGED <<area, overlap, ui>>
    BY <2>1, KeptStep
  <2>2. CASE Changes(SetPlotFft(area)) /\ UNCHANGED ui
    BY <2>2, SetPlotFftInv, RedrawsStep DEF Same
  <2>. QED BY <1>11, <2>1, <2>2 DEF MenuToggleFft, Fail
<1>12. ASSUME NEW range, MenuAutoScaleY(range) PROVE AreaStep
  BY <1>12, CosmeticsKeep, KeepsSame, RedrawsStep DEF MenuAutoScaleY, AreaInv
<1>13. ASSUME NEW p \in Preferences, NEW ok, ApplyPreferences(p, ok) PROVE AreaStep
  <2>1. Same(area, area)
    BY DEF Same, SameFill
  <2>2. p.interval \in Nat \ {0} /\ p.rate \in Nat \ {0}
    BY SettingsAssumption
  <2>. QED BY <1>13, <2>1, <2>2, BuffersStep DEF ApplyPreferences
<1>14. ASSUME NEW w \in Widths, NEW range, NEW ok, ApplyGraphSettings(w, range, ok)
       PROVE  AreaStep
  <2>1. w \in Int
    BY SettingsAssumption
  <2>. QED BY <1>14, <2>1, ViewerResizes, WidthStep DEF ApplyGraphSettings
<1>15. ASSUME NEW m, SetDragging(m) PROVE AreaStep
  <2> DEFINE a == SetSticky(area, m = "sticky")
  <2>1. Keeps(area, a)
    BY CosmeticsKeep DEF AreaInv
  <2>2. Redraws(IF m \in {"free", "sticky"} THEN ResetCursor(a) ELSE a)
    BY <1>15 DEF SetDragging
  <2> HIDE DEF a
  <2>3. Keeps(area, ResetCursor(a))
    BY <2>1, CosmeticsKeep, KeepsTransitive DEF Keeps
  <2>. QED BY <1>k, <2>1, <2>2, <2>3
<1>16. ASSUME NEW x \in Positions, Press(x) PROVE AreaStep
  <2>1. Keeps(area, SetCursorIni(area, x)) /\ Keeps(area, area)
    BY CosmeticsKeep, SettingsAssumption DEF AreaInv
  <2>. QED BY <1>16, <1>k, <2>1 DEF Press
<1>17. ASSUME NEW x \in Positions, NEW control, Hover(x, control) PROVE AreaStep
  <2>1. Keeps(area, SetCursorIni(area, x)) /\ Keeps(area, area)
    BY CosmeticsKeep, SettingsAssumption DEF AreaInv
  <2>. QED BY <1>17, <1>k, <2>1 DEF Hover
<1>18. ASSUME NEW x \in Positions, NEW range, Motion(x, range) PROVE AreaStep
  <2>1. /\ Keeps(area, SetCursorEnd(area, x)) /\ Keeps(area, area)
        /\ Keeps(area, SetRange(area, range))
    BY CosmeticsKeep, SettingsAssumption DEF AreaInv
  <2>2. mouse.prev - x \in Int
    BY SettingsAssumption DEF Typed
  <2>3. CASE Moves(MoveViewer(area, mouse.prev - x))
    BY <2>2, <2>3, MoveInv DEF Moves, Changes, AreaStep
  <2>4. CASE ChangesWidth(ScaleViewer(area, mouse.prev - x))
    BY <2>2, <2>4, ViewerResizes, WidthStep
  <2>5. CASE Redraws(SetRange(area, range))
    BY <1>k, <2>1, <2>5
  <2>6. CASE Redraws(IF mouse.track THEN SetCursorEnd(area, x) ELSE area)
    BY <1>k, <2>1, <2>6
  <2>7. Drags(x, range)
    BY <1>18 DEF Motion
  <2>. QED BY <2>3, <2>4, <2>5, <2>6, <2>7 DEF Drags
<1>19. ASSUME NEW range, Release(range) PROVE AreaStep
  <2>1. Keeps(area, area) /\ Keeps(area, ResetCursor(SetSticky(ZoomFft(area), FALSE)))
    BY CosmeticsKeep, ZoomFftKeeps DEF AreaInv
  <2>2. CASE Redraws(area)
    BY <1>k, <2>1, <2>2
  <2>3. CASE Redraws(ResetCursor(SetSticky(ZoomFft(area), FALSE)))
    BY <1>k, <2>1, <2>3
  <2>4. CASE ChangesWidth(SetRange(ResetCursor(SetSticky(ZoomSamples(area), FALSE)), range))
    BY <2>4, ViewerResizes, WidthStep
  <2>. QED BY <1>19, <2>2, <2>3, <2>4 DEF Release
<1>. QED BY <1>1, <1>2, <1>3, <1>4, <1>5, <1>6, <1>7, <1>8, <1>9, <1>10, <1>11, <1>12, <1>13, <1>14,
            <1>15, <1>16, <1>17, <1>18, <1>19
         DEF User, Menu, Graph, PreferencesDialog, GraphDialog, Mouse, MouseModes

-----------------------------------------------------------------------------
(* What the numbers of the samples, which wrap around, rest on.            *)
LEMMA ModProperties ==
  ASSUME NEW m \in Nat \ {0}
  PROVE  /\ \A x \in Int : x % m \in 0..m - 1
         /\ \A x \in 0..m - 1 : x % m = x
         /\ \A x \in Nat : m <= x /\ x < 2 * m => x % m = x - m
<1>1. \A x \in Int : x % m \in 0..m - 1
  OBVIOUS
<1>2. \A x \in 0..m - 1 : x % m = x
  OBVIOUS
<1>3. \A x \in Nat : m <= x /\ x < 2 * m => x % m = x - m
  OBVIOUS
<1>. QED BY <1>1, <1>2, <1>3

LEMMA ModUnique ==
  ASSUME NEW m \in Nat \ {0}, NEW q \in Int, NEW r \in 0..m - 1
  PROVE  (q * m + r) % m = r
<1> DEFINE x == q * m + r
           p == x \div m
           s == x % m
<1>1. x \in Int
  OBVIOUS
<1>2. x = p * m + s /\ p \in Int /\ s \in 0..m - 1
  <2> HIDE DEF x
  <2>. QED BY <1>1
<1>3. (q - p) * m = s - r
  <2>1. x = q * m + r
    OBVIOUS
  <2> HIDE DEF x, p, s
  <2>. QED BY <1>2, <2>1
<1> DEFINE d == q - p
<1>4. d \in Int /\ d * m = s - r
  BY <1>2, <1>3
<1> HIDE DEF d, p, s, x
<1>5. d * m < m /\ d * m > -m
  BY <1>2, <1>4
<1>6. d = 0
  <2>1. ASSUME d >= 1 PROVE FALSE
    <3>1. (d - 1) * m >= 0
      BY <1>4, <2>1
    <3>2. (d - 1) * m = d * m - m
      BY <1>4
    <3>. QED BY <1>4, <1>5, <3>1, <3>2
  <2>2. ASSUME d <= -1 PROVE FALSE
    <3>1. (-1 - d) * m >= 0
      BY <1>4, <2>2
    <3>2. (-1 - d) * m = -m - d * m
      BY <1>4
    <3>. QED BY <1>4, <1>5, <3>1, <3>2
  <2>. QED BY <1>4, <2>1, <2>2
<1>7. s = r
  BY <1>2, <1>4, <1>6
<1>. QED BY <1>7 DEF s, x

LEMMA ModAdd ==
  ASSUME NEW m \in Nat \ {0}, NEW a \in Nat, NEW b \in Nat
  PROVE  ((a % m) + b) % m = (a + b) % m
<1> DEFINE p == a \div m
           s == a % m
           t == s + b
           q == t \div m
           r == t % m
<1>1. a = p * m + s /\ p \in Int /\ s \in 0..m - 1
  OBVIOUS
<1>2. t \in Int
  BY <1>1
<1>3. t = q * m + r /\ q \in Int /\ r \in 0..m - 1
  <2> HIDE DEF t
  <2>. QED BY <1>2
<1>4. a + b = (p + q) * m + r
  <2>1. t = s + b
    OBVIOUS
  <2> HIDE DEF p, s, t, q, r
  <2>. QED BY <1>1, <1>3, <2>1
<1>5. ((p + q) * m + r) % m = r
  <2> DEFINE n == p + q
  <2>1. n \in Int /\ r \in 0..m - 1
    BY <1>1, <1>3
  <2> HIDE DEF n, r
  <2>2. (n * m + r) % m = r
    BY <2>1, ModUnique
  <2>. QED BY <2>2 DEF n
<1>. QED BY <1>4, <1>5

LEMMA ModDivides ==
  ASSUME NEW m \in Nat \ {0}, NEW x \in Int
  PROVE  x = (x \div m) * m + (x % m) /\ x \div m \in Int /\ x % m \in 0..m - 1
OBVIOUS

LEMMA ModCancel ==
  ASSUME NEW m \in Nat \ {0}, NEW x \in 0..m - 1, NEW y \in 0..m - 1, NEW c \in Nat,
         (x + c) % m = (y + c) % m
  PROVE  x = y
<1> DEFINE u == x + c
           v == y + c
           p == u \div m
           q == v \div m
           r == u % m
           s == v % m
           d == p - q
<1>1. u \in Int /\ v \in Int /\ s = r /\ u - v = x - y
  OBVIOUS
<1>2. u = p * m + r /\ p \in Int /\ r \in 0..m - 1
  <2> HIDE DEF u
  <2>. QED BY <1>1, ModDivides
<1>3. v = q * m + s /\ q \in Int
  <2> HIDE DEF v
  <2>. QED BY <1>1, ModDivides
<1>6. d \in Int /\ d * m = p * m - q * m
  <2> HIDE DEF p, q
  <2>. QED BY <1>2, <1>3
<1> HIDE DEF d, p, q, r, s, u, v
<1>7. p * m \in Int /\ q * m \in Int /\ d * m \in Int
  BY <1>2, <1>3, <1>6
<1>8. x = d * m + y
  <2> DEFINE P == p * m
             Q == q * m
             D == d * m
  <2>1. u = P + r
    BY <1>2
  <2>2. v = Q + r
    BY <1>1, <1>3
  <2>3. D = P - Q
    BY <1>6
  <2>4. P \in Int /\ Q \in Int /\ D \in Int
    BY <1>7
  <2> HIDE DEF P, Q, D
  <2>5. x = D + y
    BY <1>1, <1>2, <2>1, <2>2, <2>3, <2>4
  <2>. QED BY <2>5 DEF D
<1>9. (d * m + y) % m = y
  BY <1>6, ModUnique
<1>10. x % m = x
  BY ModProperties
<1>. QED BY <1>8, <1>9, <1>10

LEMMA PrecedesShift ==
  ASSUME NEW s, NEW m \in Nat, NEW t, NEW n \in Nat, s \in 0..Ticks, Precedes(s, m, t)
  PROVE  Precedes(s, m + n, (t + n) % Ticks)
<1>1. s < Ticks /\ (s + m) % Ticks = t /\ s + m \in Nat /\ Ticks \in Nat \ {0}
  BY DefaultsAssumption DEF Precedes
<1>2. (((s + m) % Ticks) + n) % Ticks = (s + m + n) % Ticks
  BY <1>1, ModAdd
<1>3. s + m + n = s + (m + n)
  BY <1>1
<1>. QED BY <1>1, <1>2, <1>3 DEF Precedes

LEMMA PrecedesFollows ==
  ASSUME NEW s \in 0..Ticks, NEW t \in 0..Ticks, NEW m \in Nat, NEW clock,
         Precedes(s, m + 1, clock), Precedes(t, m, clock)
  PROVE  Follows(s, t)
<1> DEFINE u == (s + 1) % Ticks
<1>1. Ticks \in Nat \ {0} /\ s < Ticks /\ t < Ticks
  BY DefaultsAssumption DEF Precedes
<1>2. u \in 0..Ticks - 1 /\ t \in 0..Ticks - 1
  <2>1. s + 1 \in Int
    OBVIOUS
  <2>. QED BY <1>1, <2>1, ModProperties
<1>3. (u + m) % Ticks = (s + 1 + m) % Ticks
  <2> DEFINE x == s + 1
  <2>1. x \in Nat
    OBVIOUS
  <2> HIDE DEF x
  <2>2. ((x % Ticks) + m) % Ticks = (x + m) % Ticks
    BY <1>1, <2>1, ModAdd
  <2>. QED BY <2>2 DEF x
<1>4. s + 1 + m = s + (m + 1)
  OBVIOUS
<1>5. (u + m) % Ticks = (t + m) % Ticks
  BY <1>3, <1>4 DEF Precedes
<1> HIDE DEF u
<1>6. u = t
  BY <1>1, <1>2, <1>5, ModCancel
<1>. QED BY <1>1, <1>6 DEF Follows, u

LEMMA PrecedesNumber ==
  ASSUME NEW x \in Nat, NEW d \in Nat
  PROVE  x % Ticks \in 0..Ticks - 1 /\ Precedes(x % Ticks, d, (x + d) % Ticks)
<1>1. Ticks \in Nat \ {0}
  BY DefaultsAssumption
<1>2. x % Ticks \in 0..Ticks - 1
  BY <1>1, ModProperties
<1>3. ((x % Ticks) + d) % Ticks = (x + d) % Ticks
  BY <1>1, ModAdd
<1>. QED BY <1>1, <1>2, <1>3 DEF Precedes

(* The places of the cells when n of them are written.                     *)
LEMMA PlaceMoves ==
  ASSUME NEW i \in 0..RingSize - 1, NEW c \in 0..RingSize - 1, NEW n \in 1..RingSize
  PROVE  LET p == (i - c + RingSize) % RingSize
             d == (c + n) % RingSize
             q == (i - d + RingSize) % RingSize
         IN  /\ d \in 0..RingSize - 1
             /\ p \in 0..RingSize - 1
             /\ p < n => q = RingSize - n + p
             /\ p >= n => q = p - n
<1>1. RingSize \in Nat \ {0}
  BY ChunksAssumption
<1> DEFINE P(a, b) == (a - b + RingSize) % RingSize
           d == (c + n) % RingSize
<1>2. ASSUME NEW a \in 0..RingSize - 1, NEW b \in 0..RingSize - 1
      PROVE  P(a, b) = IF a >= b THEN a - b ELSE a - b + RingSize
  <2> DEFINE x == a - b + RingSize
  <2>1. x \in Nat /\ x < 2 * RingSize
    BY <1>1
  <2>2. x % RingSize = IF x >= RingSize THEN x - RingSize ELSE x
    <3> HIDE DEF x
    <3>1. CASE x >= RingSize
      BY <1>1, <2>1, <3>1, ModProperties
    <3>2. CASE x < RingSize
      <4>1. x \in 0..RingSize - 1
        BY <1>1, <2>1, <3>2
      <4>2. x % RingSize = x
        BY <1>1, <4>1, ModProperties
      <4>. QED BY <1>1, <2>1, <3>2, <4>2
    <3>. QED BY <1>1, <2>1, <3>1, <3>2
  <2>. QED BY <1>1, <2>2
<1>3. d = IF c + n >= RingSize THEN c + n - RingSize ELSE c + n
  <2> DEFINE x == c + n
  <2>1. x \in Nat /\ x < 2 * RingSize
    BY <1>1
  <2>2. x % RingSize = IF x >= RingSize THEN x - RingSize ELSE x
    <3> HIDE DEF x
    <3>1. CASE x >= RingSize
      BY <1>1, <2>1, <3>1, ModProperties
    <3>2. CASE x < RingSize
      <4>1. x \in 0..RingSize - 1
        BY <1>1, <2>1, <3>2
      <4>2. x % RingSize = x
        BY <1>1, <4>1, ModProperties
      <4>. QED BY <1>1, <2>1, <3>2, <4>2
    <3>. QED BY <1>1, <2>1, <3>1, <3>2
  <2>. QED BY <1>1, <2>2
<1>4. d \in 0..RingSize - 1
  BY <1>1, <1>3
<1>5. P(i, c) = (IF i >= c THEN i - c ELSE i - c + RingSize)
      /\ P(i, d) = (IF i >= d THEN i - d ELSE i - d + RingSize)
  BY <1>2, <1>4
<1> HIDE DEF P, d
<1>6. /\ d \in 0..RingSize - 1
      /\ P(i, c) \in 0..RingSize - 1
      /\ P(i, c) < n => P(i, d) = RingSize - n + P(i, c)
      /\ P(i, c) >= n => P(i, d) = P(i, c) - n
  BY <1>1, <1>3, <1>4, <1>5
<1>. QED BY <1>6 DEF P, d

-----------------------------------------------------------------------------
(* A chunk whose samples follow each other and what is in the buffer, or   *)
(* that there is an excuse for.                                            *)
Fits(a, s, excuse) ==
  \/ excuse
  \/ /\ a.cur > 0 /\ ~a.fill.excused => Follows(a.fill.last, s[1])
     /\ \A k \in 2..Len(s) : Follows(s[k - 1], s[k])

LEMMA AppendedWhole ==
  ASSUME NEW a, IsArea(a), a.fill.whole, NEW s \in Seq(0..Ticks), s # <<>>, NEW excuse \in BOOLEAN,
         Fits(a, s, excuse)
  PROVE  LET f == Appended(a, s, excuse)
         IN  /\ f \in [last : 0..Ticks, whole : BOOLEAN, excused : BOOLEAN]
             /\ f.whole
             /\ ~f.excused => f.last = s[Len(s)] /\ ~excuse
<1> DEFINE old == IF a.cur = 0 THEN Empty ELSE a.fill
           f == Appended(a, s, excuse)
<1>1. old \in [last : 0..Ticks, whole : BOOLEAN, excused : BOOLEAN] /\ old.whole
  BY DefaultsAssumption DEF Empty, IsArea
<1>2. a.cur \in Nat /\ (a.cur > 0 => old = a.fill)
  BY DEF IsArea
<1>3. s[Len(s)] \in 0..Ticks
  <2>1. Len(s) \in 1..Len(s)
    BY EmptySeq, LenProperties
  <2>. QED BY <2>1, ElementOfSeq
<1> HIDE DEF old
<1> DEFINE excused == old.excused \/ excuse
           follows == /\ a.cur > 0 => Follows(old.last, s[1])
                      /\ \A k \in 2..Len(s) : Follows(s[k - 1], s[k])
           last == IF excused THEN Ticks ELSE s[Len(s)]
           whole == excused \/ (old.whole /\ follows)
<1>4. f = [last |-> last, whole |-> whole, excused |-> excused]
  BY DEF Appended, old
<1>5. excused \/ follows
  BY <1>2 DEF Fits
<1>6. excused \in BOOLEAN
  BY <1>1
<1>7. whole = TRUE
  BY <1>1, <1>5
<1>8. last \in 0..Ticks /\ (~excused => last = s[Len(s)] /\ ~excuse)
  BY <1>3, DefaultsAssumption
<1> HIDE DEF f, excused, follows, last, whole
<1>. QED BY <1>4, <1>6, <1>7, <1>8 DEF f

(* A chunk that fits keeps the buffer whole.                               *)
LEMMA PushInv ==
  ASSUME NEW a, AreaInv(a), NEW s \in Seq(0..Ticks), s # <<>>, NEW excuse \in BOOLEAN,
         Fits(a, s, excuse)
  PROVE  LET b == PushBuffer(a, s, excuse)
         IN  /\ AreaInv(b)
             /\ b.count = a.count /\ b.left = a.left /\ b.plotCount = a.plotCount /\ b.ini = a.ini
             /\ ~Full(b) /\ ~b.fill.excused => b.fill.last = s[Len(s)] /\ ~excuse
<1> DEFINE l == Limit(a.count - a.cur, 0, Len(s))
           t == SubSeq(s, 1, l)
           f == Appended(a, t, excuse)
           c == a.cur + l
           b == [a EXCEPT !.fill = f, !.cur = c]
<1>1. Len(s) \in Nat /\ Len(s) > 0 /\ a.count \in Nat /\ a.cur \in Nat /\ a.cur <= a.count
  BY EmptySeq, LenProperties DEF AreaInv, IsArea
<1>2. /\ l \in 0..Len(s) /\ a.cur + l <= a.count
      /\ a.cur + l < a.count => l = Len(s)
      /\ l = 0 => a.cur = a.count
  BY <1>1 DEF Limit
<1> HIDE DEF l
<1>3. t \in Seq(0..Ticks) /\ Len(t) = l /\ \A k \in 1..l : t[k] = s[k]
  <2>1. \A k \in 1..l : k \in 1..Len(s)
    BY <1>1, <1>2
  <2>2. \A k \in 1..l : s[k] \in 0..Ticks
    BY <2>1, ElementOfSeq
  <2>3. l \in Int /\ l >= 0 /\ l - 1 + 1 = l
    BY <1>1, <1>2
  <2>. QED BY <2>2, <2>3, SubSeqProperties
<1>4. Fitting(a, s) = t
  BY DEF Fitting, l
<1> HIDE DEF t
<1>5. CASE t = <<>>
  <2>1. l = 0
    BY <1>3, <1>5
  <2>2. PushBuffer(a, s, excuse) = a /\ Full(a)
    BY <1>2, <1>4, <1>5, <2>1 DEF PushBuffer, Full
  <2>. QED BY <2>2
<1>6. CASE t # <<>>
  <2>0. l > 0
    BY <1>2, <1>3, <1>6, EmptySeq
  <2>1. Fits(a, t, excuse)
    <3>1. t[1] = s[1]
      BY <1>2, <1>3, <2>0
    <3>2. \A k \in 2..Len(t) : t[k] = s[k] /\ t[k - 1] = s[k - 1] /\ k \in 2..Len(s)
      BY <1>1, <1>2, <1>3
    <3>. QED BY <3>1, <3>2 DEF Fits
  <2>2. /\ f \in [last : 0..Ticks, whole : BOOLEAN, excused : BOOLEAN]
        /\ f.whole
        /\ ~f.excused => f.last = t[Len(t)] /\ ~excuse
    BY <1>3, <1>6, <2>1, AppendedWhole DEF AreaInv
  <2>3. PushBuffer(a, s, excuse) = b
    BY <1>3, <1>4, <1>6 DEF PushBuffer
  <2>4. c \in Nat /\ c <= a.count
    BY <1>1, <1>2
  <2> HIDE DEF c, f
  <2>5. /\ IsArea(b) /\ b.count = a.count /\ b.left = a.left /\ b.plotCount = a.plotCount
        /\ b.ini = a.ini
        /\ b.cur = c /\ b.fill = f /\ b.fftCount = a.fftCount
    BY <2>2, <2>4, FieldNames DEF AreaInv, IsArea
  <2>6. (b.fft <=> a.fft) /\ (b.shown <=> a.shown)
    BY FieldNames DEF AreaInv, IsArea
  <2> HIDE DEF b
  <2>7. AreaInv(b)
    BY <2>2, <2>4, <2>5, <2>6 DEF AreaInv
  <2>8. ~Full(b) => t[Len(t)] = s[Len(s)]
    BY <1>1, <1>2, <1>3, <2>0, <2>5, SMTT(30) DEF Full, c
  <2>. QED BY <2>2, <2>3, <2>5, <2>7, <2>8
<1>. QED BY <1>5, <1>6

(* The exchange of the buffers, up to the position of the viewer.          *)
LEMMA SwapInv ==
  ASSUME NEW a, AreaInv(a)
  PROVE  LET b == SwapBuffers(a)
         IN  /\ AreaInv(b) /\ b.cur = 0
             /\ b.count = a.count /\ b.left = a.left /\ b.plotCount = a.plotCount /\ b.ini = a.ini
<1> DEFINE w == a.fill.whole
           c == [a EXCEPT !.cur = 0, !.shown = w, !.fill = Empty]
           b == [c EXCEPT !.fftFresh = FALSE, !.valid = TRUE]
<1>1. Empty \in [last : 0..Ticks, whole : BOOLEAN, excused : BOOLEAN] /\ Empty.whole /\ w
  BY DefaultsAssumption DEF Empty, AreaInv
<1> HIDE DEF w
<1>2. /\ IsArea(c) /\ c.count = a.count /\ c.left = a.left /\ c.plotCount = a.plotCount
      /\ c.ini = a.ini
      /\ c.cur = 0 /\ c.fill = Empty /\ c.fftCount = a.fftCount
  BY <1>1, FieldNames DEF AreaInv, IsArea
<1>3. (c.fft <=> a.fft) /\ c.shown
  BY <1>1, FieldNames DEF AreaInv, IsArea
<1> HIDE DEF c
<1>4. /\ IsArea(b) /\ b.count = c.count /\ b.left = c.left /\ b.plotCount = c.plotCount
      /\ b.ini = c.ini
      /\ b.cur = c.cur /\ b.fill = c.fill /\ b.fftCount = c.fftCount
  BY <1>2, FieldNames DEF IsArea
<1>5. (b.fft <=> c.fft) /\ (b.shown <=> c.shown)
  BY <1>2, FieldNames DEF IsArea
<1> HIDE DEF b
<1>6. SwapBuffers(a) = b
  BY DEF SwapBuffers, b, c, w
<1>7. b.count > 0 /\ b.plotCount <= b.count /\ b.cur <= b.count
  BY <1>2, <1>4 DEF AreaInv, IsArea
<1>8. (b.fft => b.fftCount = b.plotCount) /\ (~b.fft => b.fftCount = -1)
  BY <1>2, <1>3, <1>4, <1>5 DEF AreaInv
<1>9. b.fill.whole /\ b.shown
  BY <1>1, <1>2, <1>3, <1>4, <1>5
<1>10. AreaInv(b)
  BY <1>4, <1>7, <1>8, <1>9 DEF AreaInv
<1>. QED BY <1>2, <1>4, <1>6, <1>10
-----------------------------------------------------------------------------
(* The records of the program, for the updates of their fields.            *)
LEMMA AppNames ==
  /\ "window" \in AppFields /\ "recording" \in AppFields /\ "end" \in AppFields
  /\ "trigger" \in AppFields /\ "rate" \in AppFields /\ "interval" \in AppFields
  /\ "plugin" \in AppFields /\ "wanted" \in AppFields /\ "file" \in AppFields
  /\ "menuAfe" \in AppFields /\ "dialogs" \in AppFields /\ "killed" \in AppFields
BY DEF AppFields

LEMMA ThreadNames ==
  /\ "pc" \in ThreadFields /\ "toEnd" \in ThreadFields /\ "chunk" \in ThreadFields
  /\ "value" \in ThreadFields /\ "looked" \in ThreadFields /\ "based" \in ThreadFields
  /\ "hit" \in ThreadFields /\ "alone" \in ThreadFields /\ "gen" \in ThreadFields
  /\ "view" \in ThreadFields /\ "fresh" \in ThreadFields /\ "dropped" \in ThreadFields
BY DEF ThreadFields

ThreadTyped(t) ==
  /\ DOMAIN t = ThreadFields
  /\ t.toEnd \in 0..RingSize /\ t.view \in Nat /\ t.value \in Nat
  /\ t.chunk \in Seq(0..Ticks)

LEMMA NewThreads ==
  LET s == [NoThread EXCEPT !.pc = "start"]
      d == [NoThread EXCEPT !.pc = "done"]
  IN  /\ ThreadTyped(NoThread) /\ ThreadTyped(s) /\ ThreadTyped(d)
      /\ NoThread.pc = "none" /\ NoThread.fresh /\ ~NoThread.based
      /\ s.pc = "start" /\ s.fresh /\ ~s.based
      /\ d.pc = "done" /\ d.fresh /\ ~d.based
<1>1. << >> \in Seq(0..Ticks)
  OBVIOUS
<1>2. 0 \in 0..RingSize
  BY ChunksAssumption
<1>. QED BY <1>1, <1>2 DEF ThreadTyped, ThreadFields, NoThread

AppTyped(a) ==
  /\ DOMAIN a = AppFields
  /\ a.rate \in Nat \ {0} /\ a.interval \in Nat \ {0} /\ a.file \in Files \cup {NoFile}

BudgetTyped(b) ==
  DOMAIN b = BudgetFields /\ b.chunks \subseteq 1..RingSize

MouseTyped == mouse \in [mode : Modes, pressed : BOOLEAN, prev : Int, track : BOOLEAN]

AdcTyped == adc \in [on : BOOLEAN, clock : 0..Ticks - 1, callback : {"none", "store"}, value : Nat]

RingTyped ==
  ring \in [cells : [0..RingSize - 1 -> 0..Ticks], cur : 0..RingSize - 1, pop : 0..RingSize,
            stored : 0..RingSize, paused : BOOLEAN]

FlagsTyped == dropped \in BOOLEAN /\ raced \in BOOLEAN /\ overlap \in BOOLEAN

LEMMA TypedParts ==
  Typed <=> /\ ThreadTyped(thread) /\ AppTyped(app) /\ BudgetTyped(budget) /\ MouseTyped
            /\ AdcTyped /\ RingTyped /\ FlagsTyped
BY DEF Typed, ThreadTyped, AppTyped, BudgetTyped, MouseTyped, AdcTyped, RingTyped, FlagsTyped

(* A handler that neither records nor ends the program, whatever it draws. *)
Quiet ==
  /\ UNCHANGED <<thread, ring, adc, dropped, raced, failed>>
  /\ app'.recording = app.recording /\ app'.window = app.window /\ app'.killed = app.killed
  /\ ui \notin {"closed", "out"} /\ ui' \notin {"closed", "out"}
  /\ AppTyped(app') /\ BudgetTyped(budget') /\ MouseTyped' /\ overlap' \in BOOLEAN

LEMMA SpentTyped ==
  ASSUME NEW what, BudgetTyped(budget), Spent(what), what # "chunks"
  PROVE  BudgetTyped(budget')
BY DEF BudgetTyped, Spent, BudgetFields

LEMMA ChangesOverlap ==
  ASSUME NEW a, FlagsTyped, Changes(a)
  PROVE  overlap' \in BOOLEAN
BY DEF FlagsTyped, Changes

LEMMA RestQuiet ==
  ASSUME Typed, UiRests, UiKeeps, UNCHANGED <<thread, app>>, BudgetTyped(budget'), MouseTyped',
         overlap' \in BOOLEAN, ui' \in {"rest", "clamp"}
  PROVE  Quiet
BY TypedParts DEF Quiet, UiRests, UiKeeps

(* The known failures of a handler, while a thread records or not.         *)
Fails ==
  \E what \in {"the_configuration_is_not_loaded", "there_is_a_plugin_already",
               "the_plugin_has_no_cape", "there_is_no_plugin"} : Fail(what)

LEMMA LoadQuiet ==
  ASSUME Typed, ui \in {"start", "rest"}, NEW f \in Files, NEW cape, Load(f, cape)
  PROVE  Quiet \/ Fails
<1> DEFINE l == LoadedApp(f)
           m == IF ui = "start" THEN l.plugin ELSE l.menuAfe
           a == [l EXCEPT !.menuAfe = m]
           b == [budget EXCEPT !.loads = @ - 1]
<1>1. CASE /\ app' = a
           /\ Changes(LoadedArea(f)) /\ ui' = "rest" /\ budget' = b
           /\ UiKeeps /\ UNCHANGED <<thread, mouse>>
  <2>1. AppTyped(l) /\ l.recording = app.recording /\ l.window = app.window /\ l.killed = app.killed
    <3> DEFINE wanted == IF f.app THEN f.plugin ELSE app.wanted
               interval == IF f.app THEN f.interval ELSE app.interval
               rate == IF f.recorder THEN f.rate ELSE app.rate
    <3>1. l = [app EXCEPT !.interval = interval, !.wanted = wanted, !.plugin = wanted,
                          !.rate = rate, !.file = f]
      BY DEF LoadedApp
    <3>2. interval \in Nat \ {0} /\ rate \in Nat \ {0}
      BY SettingsAssumption, TypedParts DEF AppTyped
    <3> HIDE DEF wanted, interval, rate, l
    <3>. QED BY <3>1, <3>2, TypedParts, AppNames DEF AppTyped
  <2> HIDE DEF l, m
  <2>2. AppTyped(a) /\ a.recording = l.recording /\ a.window = l.window /\ a.killed = l.killed
    BY <2>1, AppNames DEF AppTyped
  <2>3. BudgetTyped(b)
    BY TypedParts DEF BudgetTyped, BudgetFields
  <2> HIDE DEF a, b
  <2>4. overlap' \in BOOLEAN
    BY <1>1, ChangesOverlap, TypedParts
  <2>. QED BY <1>1, <2>1, <2>2, <2>3, <2>4, TypedParts DEF Quiet, UiKeeps, MouseTyped
<1>. QED BY <1>1 DEF Load, Fails

(* Most handlers leave the recorder and the life of the window alone.      *)
LEMMA UserQuiet ==
  ASSUME Typed, ViewInv, User
  PROVE  Quiet \/ Fails \/ Start \/ Quit \/ Joined \/ QuitJoined \/ CloseWindow \/ Exit
<1>t. /\ AppTyped(app) /\ BudgetTyped(budget) /\ MouseTyped /\ FlagsTyped
      /\ \A x \in Positions : x \in Int
  BY TypedParts, SettingsAssumption
<1>s. ASSUME NEW what \in {"events", "loads", "starts"}, Spent(what) PROVE BudgetTyped(budget')
  BY <1>s, <1>t, SpentTyped
<1>o. ASSUME NEW a, Changes(a) PROVE overlap' \in BOOLEAN
  BY <1>o, <1>t, ChangesOverlap
<1>1. CASE Stop
  BY <1>1, <1>t, AppNames
     DEF Stop, Quiet, UiRests, UiKeeps, AppTyped, MouseTyped, FlagsTyped, BudgetTyped
<1>2. ASSUME NEW d, ShowSettings(d) PROVE Quiet
  <2> DEFINE e == app.dialogs \cup {d}
  <2>1. app' = [app EXCEPT !.dialogs = e]
    BY <1>2 DEF ShowSettings
  <2> HIDE DEF e
  <2>2. AppTyped(app') /\ app'.recording = app.recording /\ app'.window = app.window
        /\ app'.killed = app.killed
    BY <1>t, <2>1, AppNames DEF AppTyped
  <2>. QED BY <1>2, <1>s, <1>t, <2>2
           DEF ShowSettings, Quiet, UiRests, UiKeeps, MouseTyped, FlagsTyped
<1>3. CASE Activate
  <2>1. CASE /\ ui' = "rest" /\ UiKeeps
             /\ UNCHANGED <<area, thread, app, mouse, budget, overlap, over>>
    BY <1>3, <1>t, <2>1
       DEF Activate, Quiet, UiKeeps, MouseTyped, FlagsTyped
  <2>. QED BY <1>3, <2>1, LoadQuiet DEF Activate
<1>4. CASE LoadConfiguration
  BY <1>4, LoadQuiet DEF LoadConfiguration, UiRests
<1>5. CASE ReloadConfiguration
  <2>1. app.file \in Files
    BY <1>5 DEF ReloadConfiguration, Typed
  <2>. QED BY <1>5, <2>1, LoadQuiet DEF ReloadConfiguration, UiRests
<1>6. CASE MenuAfe
  BY <1>6 DEF MenuAfe, Fails
<1>7. ASSUME NEW p \in Preferences, NEW ok, ApplyPreferences(p, ok) PROVE Quiet
  <2> DEFINE e == Closed("preferences", ok)
             r == p.rate
             t == p.trigger
  <2>1. app' = [app EXCEPT !.rate = r, !.trigger = t, !.dialogs = e]
    BY <1>7 DEF ApplyPreferences
  <2>2. r \in Nat \ {0}
    BY SettingsAssumption
  <2> HIDE DEF e, r, t
  <2>3. AppTyped(app') /\ app'.recording = app.recording /\ app'.window = app.window
        /\ app'.killed = app.killed
    BY <1>t, <2>1, <2>2, AppNames DEF AppTyped
  <2>. QED BY <1>7, <1>s, <1>o, <1>t, <2>3
           DEF ApplyPreferences, Quiet, UiRests, UiKeeps, MouseTyped
<1>8. CASE Clamp
  BY <1>8, <1>t DEF Clamp, Quiet, UiKeeps, MouseTyped
<1>9. ASSUME NEW w, NEW range, NEW ok, ApplyGraphSettings(w, range, ok) PROVE Quiet
  <2> DEFINE e == Closed("graph", ok)
  <2>1. app' = [app EXCEPT !.dialogs = e]
    BY <1>9 DEF ApplyGraphSettings
  <2> HIDE DEF e
  <2>2. AppTyped(app') /\ app'.recording = app.recording /\ app'.window = app.window
        /\ app'.killed = app.killed
    BY <1>t, <2>1, AppNames DEF AppTyped
  <2>. QED BY <1>9, <1>s, <1>o, <1>t, <2>2
           DEF ApplyGraphSettings, ChangesWidth, Quiet, UiRests, UiKeeps, MouseTyped
<1>10. CASE MenuAutoScaleX
  BY <1>10, <1>s, <1>o, <1>t, RestQuiet
     DEF MenuAutoScaleX, MenuKeeps, ChangesWidth, MouseTyped
<1>11. ASSUME NEW range, MenuAutoScaleY(range) PROVE Quiet
  BY <1>11, <1>s, <1>o, <1>t, RestQuiet DEF MenuAutoScaleY, MenuKeeps, MouseTyped, UiRests
<1>12. CASE MenuToggleStaticGrid
  BY <1>12, <1>s, <1>o, <1>t, RestQuiet
     DEF MenuToggleStaticGrid, MenuKeeps, Redraws, MouseTyped, UiRests
<1>13. CASE MenuToggleFft
  <2>1. area.fft \/ FftIsReleased(area)
    BY DEF ViewInv, AreaInv, FftIsReleased
  <2>. QED BY <1>13, <1>s, <1>o, <1>t, <2>1, RestQuiet
           DEF MenuToggleFft, MenuKeeps, MouseTyped, UiRests
<1>14. CASE MenuSaveSamples
  BY <1>14, <1>t, RestQuiet DEF MenuSaveSamples, MenuKeeps, MouseTyped, UiRests, FlagsTyped
<1>15. CASE Draw
  BY <1>15, <1>t, RestQuiet DEF Draw, MenuKeeps, MouseTyped, UiRests, FlagsTyped
<1>16. ASSUME NEW m \in Modes, SetDragging(m) PROVE Quiet
  <2>1. MouseTyped'
    BY <1>16, <1>t DEF SetDragging, MouseTyped
  <2>. QED BY <1>16, <1>s, <1>o, <2>1, RestQuiet DEF SetDragging, Redraws, UiRests
<1>17. ASSUME NEW x \in Positions, Press(x) PROVE Quiet
  <2>1. MouseTyped'
    BY <1>17, <1>t DEF Press, MouseTyped
  <2>. QED BY <1>17, <1>s, <1>o, <2>1, RestQuiet DEF Press, Redraws, UiRests
<1>18. ASSUME NEW x \in Positions, NEW control \in BOOLEAN, Hover(x, control) PROVE Quiet
  <2>1. MouseTyped'
    BY <1>18, <1>t DEF Hover, MouseTyped
  <2>. QED BY <1>18, <1>s, <1>o, <2>1, RestQuiet DEF Hover, Redraws, UiRests
<1>19. ASSUME NEW x \in Positions, NEW range, Motion(x, range) PROVE Quiet
  <2>1. MouseTyped'
    <3>1. CASE mouse.mode \in CursorModes
      <4> DEFINE track == mouse.track \/ x # area.from
      <4>1. mouse' = [mouse EXCEPT !.track = track]
        BY <1>19, <3>1 DEF Motion
      <4>2. track \in BOOLEAN
        BY <1>t DEF MouseTyped
      <4> HIDE DEF track
      <4>. QED BY <1>t, <4>1, <4>2 DEF MouseTyped
    <3>2. CASE mouse.mode \notin CursorModes
      BY <1>19, <1>t, <3>2 DEF Motion, MouseTyped
    <3>. QED BY <3>1, <3>2
  <2>2. overlap' \in BOOLEAN /\ ui' \in {"rest", "clamp"}
    <3>1. Drags(x, range) /\ ui = "rest"
      BY <1>19 DEF Motion, UiRests
    <3>. QED BY <1>o, <3>1 DEF Drags, Moves, ChangesWidth, Redraws
  <2>. QED BY <1>19, <1>s, <2>1, <2>2, RestQuiet DEF Motion
<1>20. ASSUME NEW range, Release(range) PROVE Quiet
  <2>1. MouseTyped'
    BY <1>20, <1>t DEF Release, MouseTyped, Modes
  <2>2. overlap' \in BOOLEAN /\ ui' \in {"rest", "clamp"}
    BY <1>20, <1>o DEF Release, UiRests, ChangesWidth, Redraws
  <2>. QED BY <1>20, <1>t, <2>1, <2>2, RestQuiet DEF Release, BudgetTyped
<1>. QED BY <1>1, <1>2, <1>3, <1>4, <1>5, <1>6, <1>7, <1>8, <1>9, <1>10, <1>11, <1>12, <1>13, <1>14,
            <1>15, <1>16, <1>17, <1>18, <1>19, <1>20
         DEF User, Menu, Graph, PreferencesDialog, GraphDialog, Mouse, MouseModes

(* Only the start of a recording and its end replace the thread.           *)
Replaced ==
  /\ thread.pc \in {"none", "done"}
  /\ thread' \in {NoThread, [NoThread EXCEPT !.pc = "start"]}

LEMMA UserInv ==
  ASSUME Typed, ControlInv, ViewInv, User
  PROVE  /\ Typed' /\ ControlInv'
         /\ UNCHANGED <<ring, adc, dropped, raced>>
         /\ UNCHANGED thread \/ Replaced
<1>t. /\ ThreadTyped(thread) /\ AppTyped(app) /\ BudgetTyped(budget) /\ MouseTyped
      /\ AdcTyped /\ RingTyped /\ FlagsTyped
  BY TypedParts
<1>p. /\ ThreadTyped(thread') /\ AppTyped(app') /\ BudgetTyped(budget') /\ MouseTyped'
      /\ AdcTyped' /\ RingTyped' /\ FlagsTyped'
      => Typed'
  BY DEF Typed, ThreadTyped, AppTyped, BudgetTyped, MouseTyped, AdcTyped, RingTyped, FlagsTyped
<1>n. /\ ThreadTyped(NoThread) /\ ThreadTyped([NoThread EXCEPT !.pc = "start"])
      /\ NoThread.pc = "none" /\ [NoThread EXCEPT !.pc = "start"].pc = "start"
  BY NewThreads
<1>f. ASSUME Alive PROVE failed = "none"
  BY <1>f DEF Alive
<1>1. CASE Quiet
  <2>1. Typed'
    BY <1>1, <1>p, <1>t DEF Quiet, AdcTyped, RingTyped, FlagsTyped
  <2>2. ControlInv'
    BY <1>1 DEF Quiet, ControlInv, FailuresAreKnown
  <2>. QED BY <1>1, <2>1, <2>2 DEF Quiet
<1>2. CASE Fails
  <2>1. PICK what \in {"the_configuration_is_not_loaded", "there_is_a_plugin_already",
                       "the_plugin_has_no_cape", "there_is_no_plugin"} : Fail(what)
    BY <1>2 DEF Fails
  <2>2. Typed'
    BY <1>p, <1>t, <2>1 DEF Fail, AdcTyped, RingTyped, FlagsTyped, MouseTyped
  <2>3. ControlInv'
    BY <2>1 DEF Fail, ControlInv, FailuresAreKnown
  <2>. QED BY <2>1, <2>2, <2>3 DEF Fail
<1>3. CASE Start
  <2> DEFINE s == [NoThread EXCEPT !.pc = "start"]
  <2>1. thread' = s /\ thread.pc = "none" /\ failed' = "none" /\ UNCHANGED <<ui, adc>>
    BY <1>3 DEF Start, UiRests, UiKeeps, Alive, ControlInv
  <2> HIDE DEF s
  <2>2. AppTyped(app') /\ app'.recording /\ app'.window = app.window /\ app'.killed = app.killed
    BY <1>3, <1>t, AppNames DEF Start, AppTyped
  <2>3. BudgetTyped(budget')
    BY <1>3, <1>t, SpentTyped DEF Start
  <2>4. Typed'
    BY <1>3, <1>n, <1>p, <1>t, <2>1, <2>2, <2>3
       DEF Start, UiKeeps, AdcTyped, RingTyped, FlagsTyped, MouseTyped, s
  <2>5. ControlInv'
    BY <1>n, <1>3, <2>1, <2>2 DEF Start, UiRests, ControlInv, FailuresAreKnown, s
  <2>. QED BY <1>3, <2>1, <2>4, <2>5 DEF Start, UiKeeps, Replaced, s
<1>4. CASE Quit
  <2> DEFINE e == app.end \/ app.recording
             w == app.recording
  <2>1. app' = [app EXCEPT !.end = e, !.window = w] /\ UNCHANGED <<thread, adc, failed>>
    BY <1>4 DEF Quit, UiKeeps
  <2>2. ui' = IF w THEN "quit" ELSE "closed"
    BY <1>4 DEF Quit
  <2> HIDE DEF e
  <2>3. AppTyped(app') /\ app'.recording = w /\ app'.window = w /\ app'.killed = app.killed
    <3> HIDE DEF w
    <3>1. app'.recording = app.recording
      BY <1>t, <2>1, AppNames DEF AppTyped
    <3>. QED BY <1>t, <2>1, <3>1, AppNames DEF AppTyped, w
  <2>4. Typed'
    BY <1>4, <1>p, <1>t, <2>3
       DEF Quit, UiKeeps, AdcTyped, RingTyped, FlagsTyped, MouseTyped
  <2>5. ~app.killed
    BY <1>4 DEF Quit, UiRests, ControlInv
  <2>6. ControlInv'
    BY <2>1, <2>2, <2>3, <2>5 DEF ControlInv, FailuresAreKnown
  <2>. QED BY <1>4, <2>4, <2>6 DEF Quit, UiKeeps
<1>5. CASE Joined \/ QuitJoined
  <2> DEFINE w == IF Joined THEN app.window ELSE FALSE
  <2>1. /\ thread.pc = "done" /\ thread' = NoThread
        /\ UNCHANGED <<ring, adc, dropped, raced, failed, mouse, budget, overlap>>
    BY <1>5 DEF Joined, QuitJoined, UiKeeps
  <2>2. /\ AppTyped(app') /\ ~app'.recording /\ app'.killed = app.killed
        /\ ui' = "rest" => app'.window = app.window
    BY <1>5, <1>t, AppNames DEF Joined, QuitJoined, AppTyped
  <2>3. Typed'
    BY <1>n, <1>p, <1>t, <2>1, <2>2 DEF AdcTyped, RingTyped, FlagsTyped, MouseTyped
  <2>4. ui \notin {"closed", "out"} /\ ui' \in {"rest", "closed"}
    BY <1>5 DEF Joined, QuitJoined
  <2>5. ControlInv'
    BY <1>n, <2>1, <2>2, <2>4 DEF ControlInv, FailuresAreKnown
  <2>. QED BY <2>1, <2>3, <2>5 DEF Replaced
<1>6. CASE CloseWindow
  <2>1. /\ UNCHANGED <<thread, ring, adc, dropped, raced, failed, mouse, overlap>>
        /\ ui' = "closed" /\ failed = "none"
    BY <1>6 DEF CloseWindow, UiKeeps, UiRests, Alive
  <2>2. AppTyped(app') /\ app'.recording = app.recording /\ app'.killed
    BY <1>6, <1>t, AppNames DEF CloseWindow, AppTyped
  <2>3. BudgetTyped(budget')
    BY <1>6, <1>t, SpentTyped DEF CloseWindow
  <2>4. Typed'
    BY <1>p, <1>t, <2>1, <2>2, <2>3 DEF AdcTyped, RingTyped, FlagsTyped, MouseTyped
  <2>5. ControlInv'
    BY <2>1, <2>2 DEF ControlInv, FailuresAreKnown
  <2>. QED BY <2>1, <2>4, <2>5
<1>7. CASE Exit
  <2>1. UNCHANGED <<thread, ring, adc, dropped, raced, mouse, overlap, app, budget>>
    BY <1>7 DEF Exit, Fail, UiKeeps
  <2>2. Typed'
    BY <1>p, <1>t, <2>1 DEF AdcTyped, RingTyped, FlagsTyped, MouseTyped
  <2>3. ControlInv'
    BY <1>7, <2>1 DEF Exit, Fail, UiKeeps, ControlInv, FailuresAreKnown
  <2>. QED BY <2>1, <2>2, <2>3
<1>. QED BY <1>1, <1>2, <1>3, <1>4, <1>5, <1>6, <1>7, UserQuiet

(* The handlers keep what is known of the viewer.                          *)
LEMMA UserView ==
  ASSUME Typed, ControlInv, ViewInv, User
  PROVE  ViewInv' /\ (SameFill(area, area') \/ area'.cur = 0)
<1>1. AreaStep
  BY UserArea
<1>2. UNCHANGED thread \/ (thread.pc # "view" /\ thread'.pc # "view")
  BY UserInv, NewThreads DEF Replaced
<1>3. CASE Same(area, area') /\ (ui' # "clamp" => ui # "clamp") /\ (~overlap' => ~overlap)
  <2>1. /\ AreaInv(area') /\ SameFill(area, area') /\ area'.left = area.left
        /\ area'.plotCount = area.plotCount /\ area'.ini = area.ini /\ area'.count = area.count
    BY <1>3 DEF Same, SameFill
  <2>2. AreaSettled(area) => AreaSettled(area')
    BY <2>1 DEF AreaSettled
  <2>3. Round(area'.left) = Round(area.left)
    BY <2>1
  <2>4. thread'.pc = "view" => thread.pc = "view" /\ thread'.view = thread.view
    BY <1>2
  <2>5. thread'.pc # "view" => thread.pc # "view"
    BY <1>2
  <2>. QED BY <1>3, <2>1, <2>2, <2>3, <2>4, <2>5 DEF ViewInv
<1>4. CASE AreaInv(area') /\ SameFill(area, area') /\ ui' = "clamp"
  BY <1>4 DEF ViewInv
<1>5. CASE /\ AreaInv(area') /\ (SameFill(area, area') \/ area'.cur = 0)
           /\ AreaSettled(area') /\ area'.ini = Round(area'.left)
           /\ thread.pc = "view" => overlap'
  BY <1>2, <1>5 DEF ViewInv
<1>. QED BY <1>1, <1>3, <1>4, <1>5 DEF AreaStep, Same

(* Which is what keeps the viewer inside the buffer.                       *)
LEMMA ViewedInside ==
  ASSUME ViewInv, ui = "rest", thread.pc # "view", ~overlap
  PROVE  InBuffer(area) /\ Round(area.left) + area.plotCount <= area.count
<1>1. /\ area.ini = Round(area.left) /\ Round(area.left) + area.plotCount <= area.count
      /\ area.ini \in Nat /\ area.plotCount \in Nat /\ area.count \in Nat
  BY DEF ViewInv, AreaSettled, AreaInv, IsArea
<1>. QED BY <1>1 DEF InBuffer, Viewed

(* What a handler reads is inside its buffer or one of the known cases.    *)
LEMMA UserReads ==
  ASSUME ViewInv, OnlyKnownOverreads, User
  PROVE  OnlyKnownOverreads'
<1> DEFINE Known == {"the_ring_in_a_race", "widened", "empty_transform", "cursors", "graph"}
<1>0. over \subseteq Known
  BY DEF OnlyKnownOverreads
<1>e. ASSUME NEW a PROVE Emptied(a) \subseteq Known
  BY DEF Emptied
<1>w. ASSUME NEW a, ChangesWidth(a) PROVE over' \subseteq Known
  BY <1>0, <1>e, <1>w DEF ChangesWidth
<1>r. ASSUME UiRests PROVE RangeRead = {}
  BY <1>r, ViewedInside DEF RangeRead, UiRests
<1>d. ASSUME UiRests, ~overlap, thread.pc # "view" PROVE Overreads(area) \subseteq Known
  <2>1. InBuffer(area)
    BY <1>d, ViewedInside DEF UiRests
  <2>2. area.fft => area.plotCount <= area.fftCount
    BY DEF ViewInv, AreaInv, IsArea
  <2>3. ~("samples" \in Overreads(area)) /\ ~("transform" \in Overreads(area))
    BY <2>1, <2>2 DEF Overreads, TransformFits
  <2>. QED BY <2>3 DEF Overreads
<1>1. CASE UNCHANGED over
  BY <1>0, <1>1 DEF OnlyKnownOverreads
<1>2. CASE over' \subseteq Known
  BY <1>2 DEF OnlyKnownOverreads
<1>3. CASE Draw
  BY <1>0, <1>2, <1>3, <1>d DEF Draw
<1>4. CASE MenuSaveSamples \/ \E range : MenuAutoScaleY(range)
  BY <1>1, <1>4, <1>r DEF MenuSaveSamples, MenuAutoScaleY
<1>5. CASE Clamp \/ MenuToggleFft
  BY <1>0, <1>1, <1>2, <1>5, <1>e DEF Clamp, MenuToggleFft, Fail
<1>6. CASE MenuAutoScaleX \/ \E w, range, ok : ApplyGraphSettings(w, range, ok)
  BY <1>2, <1>6, <1>w DEF MenuAutoScaleX, ApplyGraphSettings
<1>7. ASSUME NEW x, NEW range, Motion(x, range) PROVE OnlyKnownOverreads'
  BY <1>1, <1>2, <1>7, <1>w DEF Motion, Drags, Moves, Redraws
<1>8. ASSUME NEW range, Release(range) PROVE OnlyKnownOverreads'
  BY <1>1, <1>2, <1>8, <1>w DEF Release, Redraws
<1>9. CASE Start \/ Stop \/ Quit \/ QuitJoined \/ Joined \/ CloseWindow \/ MenuAfe
           \/ MenuToggleStaticGrid
  BY <1>1, <1>9
     DEF Start, Stop, Quit, QuitJoined, Joined, CloseWindow, MenuAfe, MenuToggleStaticGrid,
         Redraws, Fail
<1>10. CASE Exit
  BY <1>1, <1>10 DEF Exit, Fail
<1>11. ASSUME NEW f, NEW cape, Load(f, cape) PROVE OnlyKnownOverreads'
  BY <1>1, <1>11 DEF Load, Fail
<1>12. CASE Activate \/ LoadConfiguration \/ ReloadConfiguration
  BY <1>1, <1>11, <1>12 DEF Activate, LoadConfiguration, ReloadConfiguration
<1>13. ASSUME NEW d, ShowSettings(d) PROVE OnlyKnownOverreads'
  BY <1>1, <1>13 DEF ShowSettings
<1>14. ASSUME NEW p, NEW ok, ApplyPreferences(p, ok) PROVE OnlyKnownOverreads'
  BY <1>1, <1>14 DEF ApplyPreferences
<1>15. ASSUME NEW m, SetDragging(m) PROVE OnlyKnownOverreads'
  BY <1>1, <1>15 DEF SetDragging, Redraws
<1>16. ASSUME NEW x, Press(x) PROVE OnlyKnownOverreads'
  BY <1>1, <1>16 DEF Press, Redraws
<1>17. ASSUME NEW x, NEW control, Hover(x, control) PROVE OnlyKnownOverreads'
  BY <1>1, <1>17 DEF Hover, Redraws
<1>. QED BY <1>3, <1>4, <1>5, <1>6, <1>7, <1>8, <1>9, <1>10, <1>12, <1>13, <1>14, <1>15, <1>16,
            <1>17
         DEF User, Menu, Graph, PreferencesDialog, GraphDialog, Mouse, MouseModes

-----------------------------------------------------------------------------
(* What is popped are the cells from the read position on.                 *)
LEMMA FromRingTyped ==
  ASSUME RingTyped, NEW n \in Nat
  PROVE  /\ FromRing(n) \in Seq(0..Ticks) /\ Len(FromRing(n)) = n
         /\ ~raced /\ ring.pop + n <= RingSize =>
              \A k \in 1..n : FromRing(n)[k] = ring.cells[ring.pop + k - 1]
<1> DEFINE cell(k) ==
      IF ring.pop + k - 1 < RingSize /\ ~raced THEN ring.cells[ring.pop + k - 1] ELSE Ticks
<1>1. RingSize \in Nat /\ Ticks \in Nat
  BY ChunksAssumption, DefaultsAssumption
<1>2. ASSUME NEW k \in 1..n PROVE cell(k) \in 0..Ticks
  <2>1. CASE ring.pop + k - 1 < RingSize
    <3>1. ring.pop + k - 1 \in 0..RingSize - 1
      BY <1>1, <2>1 DEF RingTyped
    <3>2. ring.cells[ring.pop + k - 1] \in 0..Ticks
      BY <3>1 DEF RingTyped
    <3>. QED BY <1>1, <3>2
  <2>2. CASE ~(ring.pop + k - 1 < RingSize)
    BY <1>1, <2>2
  <2>. QED BY <2>1, <2>2
<1>3. FromRing(n) = [k \in 1..n |-> cell(k)]
  BY DEF FromRing
<1> HIDE DEF cell
<1>4. FromRing(n) \in [1..n -> 0..Ticks]
  BY <1>2, <1>3
<1>5. FromRing(n) \in Seq(0..Ticks) /\ Len(FromRing(n)) = n
  <2> DEFINE f == FromRing(n)
             m == Len(f)
  <2> HIDE DEF f
  <2>1. f \in Seq(0..Ticks)
    BY <1>4, SeqDef DEF f
  <2>2. m \in Nat /\ DOMAIN f = 1..m
    BY <2>1, LenProperties
  <2>3. DOMAIN f = 1..n
    BY <1>4 DEF f
  <2> HIDE DEF m
  <2>4. n > 0 => n \in 1..m
    BY <2>2, <2>3
  <2>5. m > 0 => m \in 1..n
    BY <2>2, <2>3
  <2>6. m = n
    BY <2>2, <2>4, <2>5
  <2>. QED BY <2>1, <2>6 DEF f, m
<1>6. ASSUME ~raced, ring.pop + n <= RingSize, NEW k \in 1..n
      PROVE  FromRing(n)[k] = ring.cells[ring.pop + k - 1]
  <2>1. ring.pop + k - 1 < RingSize
    BY <1>1, <1>6 DEF RingTyped
  <2>. QED BY <1>3, <1>6, <2>1 DEF cell
<1>. QED BY <1>5, <1>6

LEMMA RecorderTyped ==
  ASSUME Typed, CountInv, ViewInv, Recorder
  PROVE  Typed'
<1>t. /\ ThreadTyped(thread) /\ AppTyped(app) /\ BudgetTyped(budget) /\ MouseTyped
      /\ AdcTyped /\ RingTyped /\ FlagsTyped
  BY TypedParts
<1>p. /\ ThreadTyped(thread') /\ AppTyped(app') /\ BudgetTyped(budget') /\ MouseTyped'
      /\ AdcTyped' /\ RingTyped' /\ FlagsTyped'
      => Typed'
  BY DEF Typed, ThreadTyped, AppTyped, BudgetTyped, MouseTyped, AdcTyped, RingTyped, FlagsTyped
<1>k. UNCHANGED <<app, budget, mouse>> => AppTyped(app') /\ BudgetTyped(budget') /\ MouseTyped'
  BY <1>t DEF MouseTyped
<1>u. /\ UNCHANGED thread => ThreadTyped(thread')
      /\ UNCHANGED adc => AdcTyped'
      /\ UNCHANGED ring => RingTyped'
      /\ UNCHANGED <<dropped, raced, overlap>> => FlagsTyped'
      /\ UNCHANGED <<dropped, overlap>> /\ Race => FlagsTyped'
  BY <1>t DEF AdcTyped, RingTyped, FlagsTyped, Race
<1>g. ASSUME NEW next, Goto(next) PROVE ThreadTyped(thread')
  BY <1>g, <1>t, ThreadNames DEF Goto, ThreadTyped
<1>r. RingSize \in Nat \ {0} /\ Ticks \in Nat \ {0} /\ 0 \in 0..RingSize /\ 0 \in 0..Ticks - 1
  BY ChunksAssumption, DefaultsAssumption
<1>f. ASSUME NEW what, Fail(what) PROVE Typed'
  BY <1>f, <1>k, <1>p, <1>u DEF Fail
<1>1. ASSUME NEW ok \in BOOLEAN, StartRecording(ok) PROVE Typed'
  <2>1. CASE ~Fail("captured_twice")
    <3>1. /\ ring' = [ring EXCEPT !.pop = 0, !.stored = 0] /\ adc' = [adc EXCEPT !.on = ok]
          /\ UNCHANGED <<dropped, raced, overlap, app, budget, mouse>>
          /\ Goto("pause")
      BY <1>1, <2>1 DEF StartRecording, ThreadKeeps
    <3>2. RingTyped'
      BY <1>r, <1>t, <3>1 DEF RingTyped
    <3>3. AdcTyped'
      BY <1>t, <3>1 DEF AdcTyped
    <3>. QED BY <1>g, <1>k, <1>p, <1>u, <3>1, <3>2, <3>3
  <2>. QED BY <1>f, <2>1
<1>2. CASE Pause \/ Resume
  <2>1. /\ RingTyped' /\ UNCHANGED <<adc, dropped, raced, overlap, app, budget, mouse>>
        /\ Goto("resume") \/ Goto("clear")
    BY <1>2, <1>t DEF Pause, Resume, RingTyped, ThreadKeeps
  <2>. QED BY <1>g, <1>k, <1>p, <1>u, <2>1
<1>3. CASE ResumeClears
  <2>1. /\ AdcTyped' /\ UNCHANGED <<dropped, overlap, app, budget, mouse>>
        /\ Goto("rewind") /\ FlagsTyped'
    BY <1>3, <1>r, <1>t DEF ResumeClears, AdcTyped, ThreadKeeps, FlagsTyped
  <2>2. RingTyped'
    <3> DEFINE cells == [i \in DOMAIN ring.cells |-> Ticks]
    <3>1. cells \in [0..RingSize - 1 -> 0..Ticks]
      BY <1>r, <1>t DEF RingTyped
    <3>2. ring' = [ring EXCEPT !.stored = 0, !.cells = cells]
      BY <1>3 DEF ResumeClears
    <3> HIDE DEF cells
    <3>. QED BY <1>r, <1>t, <3>1, <3>2 DEF RingTyped
  <2>. QED BY <1>g, <1>k, <1>p, <1>u, <2>1, <2>2
<1>4. CASE ResumeRewinds
  <2> DEFINE based == IF thread.looked THEN thread.based ELSE ThresholdBased
  <2>1. thread' = [thread EXCEPT !.pc = "loop", !.looked = TRUE, !.based = based]
    BY <1>4 DEF ResumeRewinds
  <2> HIDE DEF based
  <2>2. ThreadTyped(thread')
    BY <1>t, <2>1, ThreadNames DEF ThreadTyped
  <2>3. RingTyped'
    BY <1>4, <1>r, <1>t DEF ResumeRewinds, RingTyped
  <2>. QED BY <1>4, <1>k, <1>p, <1>u, <2>2, <2>3 DEF ResumeRewinds, ThreadKeeps
<1>5. CASE Loop \/ PushBegins
  <2>1. ThreadTyped(thread')
    <3>1. CASE Loop
      BY <1>g, <3>1 DEF Loop
    <3>2. CASE PushBegins
      <4> DEFINE gen == area.gen
      <4>1. thread' = [thread EXCEPT !.pc = "copy", !.gen = gen]
        BY <3>2 DEF PushBegins
      <4> HIDE DEF gen
      <4>. QED BY <1>t, <4>1, ThreadNames DEF ThreadTyped
    <3>. QED BY <1>5, <3>1, <3>2
  <2>. QED BY <1>5, <1>k, <1>p, <1>u, <2>1 DEF Loop, PushBegins, ThreadKeeps
<1>6. CASE PopBegins
  <2> DEFINE n == RingSize - ring.pop
             d == dropped
  <2>1. n \in 0..RingSize
    BY <1>r, <1>t DEF RingTyped
  <2>2. thread' = [thread EXCEPT !.pc = "first", !.toEnd = n, !.dropped = d]
    BY <1>6 DEF PopBegins
  <2> HIDE DEF n, d
  <2>3. ThreadTyped(thread')
    BY <1>t, <2>1, <2>2, ThreadNames DEF ThreadTyped
  <2>4. FlagsTyped'
    BY <1>6, <1>t DEF PopBegins, FlagsTyped
  <2>. QED BY <1>6, <1>k, <1>p, <1>u, <2>3, <2>4 DEF PopBegins, ThreadKeeps
<1>7. CASE PopsToTheEnd
  <2> DEFINE c == FromRing(thread.toEnd)
  <2>0. thread.toEnd \in Nat
    BY <1>t, <1>r DEF ThreadTyped
  <2>1. c \in Seq(0..Ticks)
    BY <1>t, <2>0, FromRingTyped
  <2>2. thread' = [thread EXCEPT !.pc = "second", !.chunk = c]
    BY <1>7 DEF PopsToTheEnd
  <2> HIDE DEF c
  <2>3. ThreadTyped(thread')
    BY <1>t, <2>1, <2>2, ThreadNames DEF ThreadTyped
  <2>4. RingTyped'
    BY <1>7, <1>r, <1>t DEF PopsToTheEnd, RingTyped
  <2>. QED BY <1>7, <1>k, <1>p, <1>u, <2>3, <2>4 DEF PopsToTheEnd, ThreadKeeps
<1>8. CASE PopsFromTheStart
  <2> DEFINE n == RingSize - thread.toEnd
             c == thread.chunk \o FromRing(n)
             v == ring.stored - RingSize
             p == Limit(ring.pop + n, 0, RingSize)
  <2>0. n \in Nat
    BY <1>r, <1>t DEF ThreadTyped
  <2>1. c \in Seq(0..Ticks)
    <3>1. FromRing(n) \in Seq(0..Ticks)
      BY <1>t, <2>0, FromRingTyped
    <3>. QED BY <1>t, <3>1, ConcatProperties DEF ThreadTyped
  <2>2. v \in Nat /\ 0 \in 0..RingSize
    BY <1>8, <1>r DEF PopsFromTheStart, CountInv
  <2>3. p \in 0..RingSize
    <3> DEFINE x == ring.pop + n
    <3>1. x \in Int /\ RingSize \in Int /\ 0 \in Int /\ 0 <= RingSize
      BY <1>r, <1>t, <2>0 DEF RingTyped
    <3> HIDE DEF n, x
    <3>2. Limit(x, 0, RingSize) \in 0..RingSize
      BY <3>1, LimitProperties
    <3>. QED BY <3>2 DEF x
  <2>4. thread' = [thread EXCEPT !.pc = "store", !.toEnd = 0, !.chunk = c, !.value = v]
    BY <1>8 DEF PopsFromTheStart
  <2>5. ring' = [ring EXCEPT !.pop = p]
    BY <1>8 DEF PopsFromTheStart
  <2> HIDE DEF n, c, v, p
  <2>6. ThreadTyped(thread')
    BY <1>t, <2>1, <2>2, <2>4, ThreadNames DEF ThreadTyped
  <2>7. RingTyped'
    BY <1>r, <1>t, <2>3, <2>5 DEF RingTyped
  <2>. QED BY <1>8, <1>k, <1>p, <1>u, <2>6, <2>7 DEF PopsFromTheStart, ThreadKeeps
<1>9. CASE PopStores
  <2>1. thread.value = 0 /\ 0 \in 0..RingSize
    BY <1>9, <1>r DEF PopStores, CountInv
  <2>2. RingTyped'
    BY <1>9, <1>t, <2>1 DEF PopStores, RingTyped
  <2>3. ThreadTyped(thread')
    BY <1>9, <1>t, ThreadNames DEF PopStores, ThreadTyped
  <2>. QED BY <1>9, <1>k, <1>p, <1>u, <2>2, <2>3 DEF PopStores, ThreadKeeps
<1>10. ASSUME NEW above \in BOOLEAN, Trigger(above) PROVE Typed'
  <2> DEFINE next == IF above THEN "push" ELSE "loop"
             alone == above /\ app.trigger = "single"
             c == IF above THEN thread.chunk ELSE <<>>
  <2>1. thread' = [thread EXCEPT !.pc = next, !.hit = above, !.alone = alone, !.chunk = c]
    BY <1>10 DEF Trigger
  <2>2. c \in Seq(0..Ticks)
    <3>1. <<>> \in Seq(0..Ticks) /\ thread.chunk \in Seq(0..Ticks)
      BY <1>t DEF ThreadTyped
    <3>. QED BY <3>1
  <2> HIDE DEF next, alone, c
  <2>3. ThreadTyped(thread')
    BY <1>t, <2>1, <2>2, ThreadNames DEF ThreadTyped
  <2>. QED BY <1>10, <1>k, <1>p, <1>u, <2>3 DEF Trigger, ThreadKeeps
<1>11. CASE NoTrigger
  BY <1>11, <1>g, <1>k, <1>p, <1>u DEF NoTrigger, ThreadKeeps
<1>12. CASE PushCopies
  <2> DEFINE excuse == raced \/ thread.dropped \/ (thread.fresh /\ area.cur > 0)
             full == Full(PushBuffer(area, thread.chunk, excuse))
             next == IF full THEN "view" ELSE "loop"
             view == IF full THEN Round(area.left) ELSE 0
  <2>1. thread' = [thread EXCEPT !.pc = next, !.fresh = FALSE, !.chunk = <<>>, !.gen = 0,
                                 !.view = view]
    BY <1>12 DEF PushCopies
  <2>2. view \in Nat
    BY RoundProperties DEF ViewInv, AreaInv, IsArea
  <2>3. overlap' \in BOOLEAN
    BY <1>12, <1>t DEF PushCopies, FlagsTyped
  <2> HIDE DEF full, next, view
  <2>4. <<>> \in Seq(0..Ticks)
    OBVIOUS
  <2>5. ThreadTyped(thread')
    BY <1>t, <2>1, <2>2, <2>4, ThreadNames DEF ThreadTyped
  <2>. QED BY <1>12, <1>k, <1>p, <1>t, <1>u, <2>3, <2>5 DEF PushCopies, ThreadKeeps, FlagsTyped
<1>13. CASE PushViews
  <2>1. ThreadTyped(thread')
    BY <1>13, <1>t, ThreadNames DEF PushViews, ThreadTyped
  <2>. QED BY <1>13, <1>k, <1>p, <1>u, <2>1 DEF PushViews, ThreadKeeps
<1>14. CASE UsesWindow
  BY <1>14, <1>f DEF UsesWindow
<1>15. ASSUME NEW late \in BOOLEAN, AfterPush(late) PROVE Typed'
  <2> DEFINE next == IF late THEN "loop" ELSE "pause"
             hit == thread.hit /\ app.trigger = "timed"
  <2>1. thread' = [thread EXCEPT !.pc = next, !.hit = hit]
    BY <1>15 DEF AfterPush
  <2> HIDE DEF next, hit
  <2>2. ThreadTyped(thread')
    BY <1>t, <2>1, ThreadNames DEF ThreadTyped
  <2>. QED BY <1>15, <1>k, <1>p, <1>u, <2>2 DEF AfterPush, ThreadKeeps
<1>16. CASE StopRecording
  <2>1. CASE ~Fail("a_capture_not_started_was_stopped")
    <3>1. AdcTyped' /\ UNCHANGED <<ring, dropped, raced, overlap, app, budget, mouse>>
          /\ Goto("stopped")
      BY <1>16, <1>t, <2>1 DEF StopRecording, AdcTyped, ThreadKeeps
    <3>. QED BY <1>g, <1>k, <1>p, <1>u, <3>1
  <2>. QED BY <1>f, <2>1
<1>17. CASE RecordingStopped
  BY <1>17, <1>k, <1>p, <1>u, NewThreads DEF RecordingStopped, ThreadKeeps
<1>. QED BY <1>1, <1>2, <1>3, <1>4, <1>5, <1>6, <1>7, <1>8, <1>9, <1>10, <1>11, <1>12, <1>13, <1>14,
            <1>15, <1>16, <1>17
         DEF Recorder

(* The copy of the callback: the cells it writes and those it leaves.      *)
LEMMA CopiedRing ==
  ASSUME RingTyped, AdcTyped, NEW n \in 1..RingSize
  PROVE  LET r == Copied(n)
         IN  /\ r \in [cells : [0..RingSize - 1 -> 0..Ticks], cur : 0..RingSize - 1,
                       pop : 0..RingSize, stored : 0..RingSize, paused : BOOLEAN]
             /\ r.pop = ring.pop /\ r.stored = ring.stored
             /\ r.cur = (ring.cur + n) % RingSize
             /\ \A i \in 0..RingSize - 1 :
                  r.cells[i] = IF Place(i) < n THEN Number(adc.clock + Place(i)) ELSE ring.cells[i]
<1> DEFINE cell(i) == IF Place(i) < n THEN Number(adc.clock + Place(i)) ELSE ring.cells[i]
           cells == [i \in 0..RingSize - 1 |-> cell(i)]
           c == (ring.cur + n) % RingSize
<1>1. RingSize \in Nat \ {0} /\ Ticks \in Nat \ {0}
  BY ChunksAssumption, DefaultsAssumption
<1>2. c \in 0..RingSize - 1
  <2>1. ring.cur + n \in Int
    BY <1>1 DEF RingTyped
  <2>. QED BY <1>1, <2>1, ModProperties
<1>3. ASSUME NEW i \in 0..RingSize - 1 PROVE cell(i) \in 0..Ticks
  <2>1. Place(i) \in Nat /\ adc.clock \in Nat
    <3>1. i - ring.cur + RingSize \in Int
      BY <1>1 DEF RingTyped
    <3>2. Place(i) \in 0..RingSize - 1
      BY <1>1, <3>1, ModProperties DEF Place
    <3>. QED BY <1>1, <3>2 DEF AdcTyped
  <2>2. Number(adc.clock + Place(i)) \in 0..Ticks
    <3>1. (adc.clock + Place(i)) % Ticks \in 0..Ticks - 1
      <4>1. adc.clock + Place(i) \in Int
        BY <2>1
      <4>. QED BY <1>1, <4>1, ModProperties
    <3>. QED BY <1>1, <3>1 DEF Number
  <2>3. ring.cells[i] \in 0..Ticks
    BY DEF RingTyped
  <2>. QED BY <2>2, <2>3
<1>4. Copied(n) = [ring EXCEPT !.cells = cells, !.cur = c]
  BY DEF Copied, RingTyped, Place
<1>5. cells \in [0..RingSize - 1 -> 0..Ticks] /\ \A i \in 0..RingSize - 1 : cells[i] = cell(i)
  BY <1>3
<1> HIDE DEF cells, c
<1>6. /\ Copied(n) \in [cells : [0..RingSize - 1 -> 0..Ticks], cur : 0..RingSize - 1,
                        pop : 0..RingSize, stored : 0..RingSize, paused : BOOLEAN]
      /\ Copied(n).pop = ring.pop /\ Copied(n).stored = ring.stored /\ Copied(n).cur = c
      /\ Copied(n).cells = cells
  BY <1>2, <1>4, <1>5 DEF RingTyped
<1>. QED BY <1>5, <1>6 DEF c

LEMMA CallbackTyped ==
  ASSUME Typed, Callback
  PROVE  Typed'
<1>t. /\ ThreadTyped(thread) /\ AppTyped(app) /\ BudgetTyped(budget) /\ MouseTyped
      /\ AdcTyped /\ RingTyped /\ FlagsTyped
  BY TypedParts
<1>p. /\ ThreadTyped(thread') /\ AppTyped(app') /\ BudgetTyped(budget') /\ MouseTyped'
      /\ AdcTyped' /\ RingTyped' /\ FlagsTyped'
      => Typed'
  BY DEF Typed, ThreadTyped, AppTyped, BudgetTyped, MouseTyped, AdcTyped, RingTyped, FlagsTyped
<1>k. /\ CallbackKeeps => /\ ThreadTyped(thread') /\ AppTyped(app') /\ BudgetTyped(budget')
                          /\ MouseTyped' /\ overlap' \in BOOLEAN
  BY <1>t DEF CallbackKeeps, MouseTyped, FlagsTyped
<1>r. RingSize \in Nat \ {0} /\ Ticks \in Nat \ {0} /\ 0 \in 0..Ticks - 1
  BY ChunksAssumption, DefaultsAssumption
<1>1. CASE CallbackStores
  <2>1. AdcTyped'
    BY <1>1, <1>t DEF CallbackStores, AdcTyped
  <2>2. RingTyped'
    <3> DEFINE s == adc.value
               c == ring.cur
    <3>1. ring' = IF s > RingSize THEN [ring EXCEPT !.stored = RingSize, !.pop = c]
                  ELSE [ring EXCEPT !.stored = s]
      BY <1>1 DEF CallbackStores, Counted
    <3>2. s \in Nat /\ c \in 0..RingSize
      BY <1>r, <1>t DEF AdcTyped, RingTyped
    <3>3. RingSize \in 0..RingSize /\ (~(s > RingSize) => s \in 0..RingSize)
      BY <1>r, <3>2
    <3> HIDE DEF s, c
    <3>4. CASE s > RingSize
      BY <1>t, <3>1, <3>2, <3>3, <3>4 DEF RingTyped
    <3>5. CASE ~(s > RingSize)
      BY <1>t, <3>1, <3>3, <3>5 DEF RingTyped
    <3>. QED BY <3>4, <3>5
  <2>3. dropped' \in BOOLEAN /\ raced' \in BOOLEAN
    BY <1>1, <1>t DEF CallbackStores, FlagsTyped
  <2>. QED BY <1>1, <1>k, <1>p, <2>1, <2>2, <2>3 DEF CallbackStores, FlagsTyped
<1>2. ASSUME NEW n \in budget.chunks, CallbackCopies(n) PROVE Typed'
  <2>0. n \in 1..RingSize
    BY <1>t DEF BudgetTyped
  <2>1. CASE UNCHANGED <<adc, ring, raced>>
    BY <1>2, <1>k, <1>p, <1>t, <2>1 DEF CallbackCopies, AdcTyped, RingTyped, FlagsTyped
  <2>2. CASE ~UNCHANGED <<adc, ring, raced>>
    <3> DEFINE t == IF raced THEN 0 ELSE (adc.clock + n) % Ticks
               v == ring.stored + n
    <3>1. adc' = [adc EXCEPT !.clock = t, !.callback = "store", !.value = v]
      BY <1>2, <2>2 DEF CallbackCopies
    <3>2. t \in 0..Ticks - 1 /\ v \in Nat
      <4>1. adc.clock + n \in Int /\ v \in Nat
        BY <1>r, <1>t, <2>0 DEF AdcTyped, RingTyped
      <4>2. (adc.clock + n) % Ticks \in 0..Ticks - 1
        BY <1>r, <4>1, ModProperties
      <4>. QED BY <1>r, <4>1, <4>2
    <3> HIDE DEF t, v
    <3>3. AdcTyped'
      BY <1>t, <3>1, <3>2 DEF AdcTyped
    <3>4. RingTyped'
      BY <1>2, <1>t, <2>0, <2>2, CopiedRing DEF CallbackCopies, RingTyped
    <3>5. dropped' \in BOOLEAN /\ raced' \in BOOLEAN
      BY <1>2, <1>t DEF CallbackCopies, FlagsTyped
    <3>. QED BY <1>2, <1>k, <1>p, <3>3, <3>4, <3>5 DEF CallbackCopies, FlagsTyped
  <2>. QED BY <2>1, <2>2
<1>. QED BY <1>1, <1>2 DEF Callback

-----------------------------------------------------------------------------
(* Control: threads, captures and windows.                                 *)
LEMMA CallbackControl ==
  ASSUME Typed, ControlInv, Callback
  PROVE  ControlInv'
<1>1. /\ UNCHANGED <<thread, app, ui, failed>> /\ adc'.on = adc.on
      /\ adc'.callback = "none" \/ adc.on
  <2>1. AdcTyped
    BY TypedParts
  <2>. QED BY <2>1 DEF Callback, CallbackStores, CallbackCopies, CallbackKeeps, AdcTyped
<1>2. failed = "none"
  BY DEF Callback, CallbackStores, CallbackCopies, Alive
<1>. QED BY <1>1, <1>2 DEF ControlInv, FailuresAreKnown

LEMMA RecorderControl ==
  ASSUME Typed, ControlInv, Recorder
  PROVE  ControlInv'
<1>t. DOMAIN thread = ThreadFields /\ AdcTyped
  BY TypedParts, SMTT(30) DEF ThreadTyped
<1>a. failed = "none" /\ thread.pc # "none"
  BY DEF Recorder, StartRecording, Pause, Resume, ResumeClears, ResumeRewinds, Loop, PopBegins,
         PopsToTheEnd, PopsFromTheStart, PopStores, Trigger, NoTrigger, PushBegins, PushCopies,
         PushViews, UsesWindow, AfterPush, StopRecording, RecordingStopped, Alive
<1>f. ASSUME NEW what, Fail(what),
             \/ what = "the_freed_buffers_were_written"
             \/ what = "a_capture_not_started_was_stopped" /\ ~adc.on
             \/ what \in {"the_destroyed_window_was_used", "released_while_recording"} /\ app.killed
      PROVE  ControlInv'
  BY <1>f DEF Fail, ControlInv, FailuresAreKnown
<1>g. ASSUME UNCHANGED <<app, ui, failed>>, adc'.on = adc.on, adc'.callback = adc.callback,
             thread'.pc \notin {"none", "start", "stopped", "done"}
      PROVE  ControlInv'
  BY <1>a, <1>g DEF ControlInv, FailuresAreKnown
<1>1. ASSUME NEW ok \in BOOLEAN, StartRecording(ok) PROVE ControlInv'
  <2>1. ~adc.on /\ thread.pc = "start"
    BY <1>1 DEF StartRecording, ControlInv
  <2>2. ~Fail("captured_twice")
    BY <1>1, <2>1 DEF StartRecording, Fail, Goto, ThreadKeeps, Alive
  <2>3. /\ thread'.pc = "pause" /\ UNCHANGED <<app, ui, failed>> /\ adc'.callback = adc.callback
    BY <1>1, <1>t, <2>1, ThreadNames DEF StartRecording, Goto, ThreadKeeps, AdcTyped
  <2>. QED BY <1>a, <2>1, <2>3 DEF ControlInv, FailuresAreKnown
<1>2. CASE Pause \/ Resume \/ ResumeRewinds \/ Loop \/ PopBegins \/ PopsToTheEnd
           \/ PopsFromTheStart \/ PopStores
  <2>1. UNCHANGED <<adc, app, ui, failed>>
    BY <1>2 DEF Pause, Resume, ResumeRewinds, Loop, PopBegins, PopsToTheEnd, PopsFromTheStart,
                PopStores, ThreadKeeps
  <2>2. thread'.pc \in {"resume", "clear", "loop", "stop", "wait", "first", "second", "store",
                        "trigger"}
    BY <1>2, <1>t, ThreadNames
       DEF Pause, Resume, ResumeRewinds, Loop, PopBegins, PopsToTheEnd, PopsFromTheStart,
           PopStores, Goto
  <2>. QED BY <1>g, <2>1, <2>2
<1>3. CASE ResumeClears
  BY <1>3, <1>g, <1>t, ThreadNames DEF ResumeClears, ThreadKeeps, Goto, AdcTyped
<1>4. CASE NoTrigger \/ PushBegins \/ PushCopies \/ PushViews
           \/ (\E above \in BOOLEAN : Trigger(above)) \/ \E late \in BOOLEAN : AfterPush(late)
  <2>1. UNCHANGED <<adc, app, ui, failed>>
    BY <1>4 DEF NoTrigger, PushBegins, PushCopies, PushViews, Trigger, AfterPush, ThreadKeeps
  <2>2. thread'.pc \in {"push", "copy", "view", "loop", "pushed", "pause"}
    BY <1>4, <1>t, ThreadNames
       DEF NoTrigger, PushBegins, PushCopies, PushViews, Trigger, AfterPush, Goto
  <2>. QED BY <1>g, <2>1, <2>2
<1>5. CASE UsesWindow
  <2>1. ~app.window => app.killed
    BY <1>a DEF ControlInv
  <2>. QED BY <1>5, <1>f, <2>1 DEF UsesWindow
<1>6. CASE StopRecording
  <2>1. CASE ~adc.on /\ Fail("a_capture_not_started_was_stopped")
    BY <1>f, <2>1
  <2>2. CASE adc' = [adc EXCEPT !.on = FALSE] /\ Goto("stopped") /\ ThreadKeeps
    <3>1. ~adc'.on /\ thread'.pc = "stopped" /\ UNCHANGED <<app, ui, failed>>
      BY <1>t, <2>2, ThreadNames DEF Goto, ThreadKeeps, AdcTyped
    <3>. QED BY <1>a, <3>1 DEF ControlInv, FailuresAreKnown
  <2>. QED BY <1>6, <2>1, <2>2 DEF StopRecording
<1>7. CASE RecordingStopped
  <2>1. /\ thread'.pc = "done" /\ thread.pc = "stopped" /\ UNCHANGED <<adc, app, ui, failed>>
        /\ adc.callback = "none"
    BY <1>7, NewThreads DEF RecordingStopped, ThreadKeeps
  <2>. QED BY <1>a, <2>1 DEF ControlInv, FailuresAreKnown
<1>. QED BY <1>1, <1>2, <1>3, <1>4, <1>5, <1>6, <1>7 DEF Recorder

-----------------------------------------------------------------------------
(* The counter of the samples stored, with the callback between its two    *)
(* halves.                                                                 *)
LEMMA CallbackCount ==
  ASSUME Typed, CountInv, Callback
  PROVE  CountInv'
<1>t. AdcTyped /\ RingTyped /\ BudgetTyped(budget) /\ RingSize \in Nat
  BY TypedParts, ChunksAssumption
<1>1. CASE CallbackStores
  <2>1. adc'.callback = "none" /\ UNCHANGED thread
    BY <1>1, <1>t DEF CallbackStores, CallbackKeeps, AdcTyped
  <2>2. ring'.stored = IF adc.value > RingSize THEN RingSize ELSE adc.value
    BY <1>1, <1>t DEF CallbackStores, Counted, RingTyped
  <2>3. adc.value >= ring.stored /\ adc.value \in Nat
    BY <1>1, <1>t DEF CallbackStores, CountInv, AdcTyped
  <2>4. ring.stored = RingSize => ring'.stored = RingSize
    BY <1>t, <2>2, <2>3
  <2>. QED BY <2>1, <2>4 DEF CountInv
<1>2. ASSUME NEW n \in budget.chunks, CallbackCopies(n) PROVE CountInv'
  <2>0. n \in 1..RingSize
    BY <1>t DEF BudgetTyped
  <2>1. CASE UNCHANGED <<adc, ring, raced>>
    BY <1>2, <2>1 DEF CallbackCopies, CallbackKeeps, CountInv
  <2>2. CASE ~UNCHANGED <<adc, ring, raced>>
    <3>1. adc'.value = ring.stored + n /\ UNCHANGED thread
      BY <1>2, <1>t, <2>2 DEF CallbackCopies, CallbackKeeps, AdcTyped
    <3>2. ring'.stored = ring.stored
      BY <1>2, <1>t, <2>0, <2>2, CopiedRing DEF CallbackCopies
    <3>3. adc'.value >= ring'.stored
      BY <1>t, <2>0, <3>1, <3>2 DEF RingTyped
    <3>. QED BY <3>1, <3>2, <3>3 DEF CountInv
  <2>. QED BY <2>1, <2>2
<1>. QED BY <1>1, <1>2 DEF Callback

LEMMA UserCount ==
  ASSUME Typed, ControlInv, ViewInv, CountInv, User
  PROVE  CountInv'
<1>1. UNCHANGED <<adc, ring>> /\ (UNCHANGED thread \/ thread'.pc \in {"none", "start"})
  BY UserInv, NewThreads DEF Replaced
<1>. QED BY <1>1 DEF CountInv

(* The chunk is as long as the ring, whatever its samples are.             *)
LEMMA RecorderCount ==
  ASSUME Typed, CountInv, Recorder
  PROVE  CountInv'
<1>t. /\ DOMAIN thread = ThreadFields /\ AdcTyped /\ RingTyped /\ RingSize \in Nat \ {0}
      /\ thread.toEnd \in 0..RingSize /\ thread.chunk \in Seq(0..Ticks)
  BY TypedParts, ChunksAssumption DEF ThreadTyped
<1> DEFINE Counted2 == {"first", "second", "store"}
           Chunked == {"second", "store", "trigger", "push", "copy"}
<1>g. ASSUME UNCHANGED adc, ring'.stored = ring.stored, thread'.pc \notin Counted2 \cup Chunked
      PROVE  CountInv'
  BY <1>g DEF CountInv
<1>1. ASSUME NEW ok \in BOOLEAN, StartRecording(ok) PROVE CountInv'
  <2>1. CASE Fail("captured_twice")
    BY <2>1 DEF Fail, CountInv
  <2>2. CASE ~Fail("captured_twice")
    <3>1. /\ thread'.pc = "pause" /\ adc'.callback = adc.callback /\ adc'.value = adc.value
          /\ ring'.stored = 0
      BY <1>1, <1>t, <2>2, ThreadNames DEF StartRecording, Goto, AdcTyped, RingTyped
    <3>2. adc'.value >= ring'.stored
      BY <1>t, <3>1 DEF AdcTyped
    <3>. QED BY <3>1, <3>2 DEF CountInv
  <2>. QED BY <2>1, <2>2
<1>2. CASE Pause \/ Resume \/ ResumeRewinds \/ Loop
  <2>1. UNCHANGED adc /\ ring'.stored = ring.stored
    BY <1>2, <1>t DEF Pause, Resume, ResumeRewinds, Loop, RingTyped
  <2>2. thread'.pc \in {"resume", "clear", "loop", "stop", "wait"}
    BY <1>2, <1>t, ThreadNames DEF Pause, Resume, ResumeRewinds, Loop, Goto
  <2>. QED BY <1>g, <2>1, <2>2
<1>3. CASE ResumeClears
  <2>1. adc'.value = adc.value /\ adc'.callback = adc.callback /\ ring'.stored = 0
        /\ thread'.pc = "rewind"
    BY <1>3, <1>t, ThreadNames DEF ResumeClears, Goto, AdcTyped, RingTyped
  <2>2. adc'.value >= ring'.stored
    BY <1>t, <2>1 DEF AdcTyped
  <2>. QED BY <2>1, <2>2 DEF CountInv
<1>4. CASE PopBegins
  <2>1. UNCHANGED <<adc, ring>> /\ thread'.pc = "first"
    BY <1>4, <1>t, ThreadNames DEF PopBegins
  <2>2. ring.stored = RingSize
    BY <1>4, <1>t DEF PopBegins, RingTyped
  <2>. QED BY <2>1, <2>2 DEF CountInv
<1>5. CASE PopsToTheEnd
  <2> DEFINE c == FromRing(thread.toEnd)
  <2>0. thread.toEnd \in Nat
    BY <1>t
  <2>1. Len(c) = thread.toEnd
    BY <1>t, <2>0, FromRingTyped
  <2>2. thread' = [thread EXCEPT !.pc = "second", !.chunk = c] /\ UNCHANGED adc
        /\ thread.pc = "first"
    BY <1>5 DEF PopsToTheEnd
  <2> HIDE DEF c
  <2>3. thread'.pc = "second" /\ thread'.chunk = c /\ thread'.toEnd = thread.toEnd
    BY <1>t, <2>2, ThreadNames
  <2>4. ring'.stored = ring.stored
    BY <1>5, <1>t DEF PopsToTheEnd, RingTyped
  <2>. QED BY <2>1, <2>2, <2>3, <2>4 DEF CountInv
<1>6. CASE PopsFromTheStart
  <2> DEFINE n == RingSize - thread.toEnd
             c == thread.chunk \o FromRing(n)
             v == ring.stored - RingSize
  <2>0. n \in Nat /\ Len(thread.chunk) = thread.toEnd /\ ring.stored = RingSize
    BY <1>6, <1>t DEF PopsFromTheStart, CountInv
  <2>1. Len(c) = RingSize
    <3>1. FromRing(n) \in Seq(0..Ticks) /\ Len(FromRing(n)) = n
      BY <1>t, <2>0, FromRingTyped
    <3>2. Len(c) = Len(thread.chunk) + Len(FromRing(n))
      BY <1>t, <3>1, ConcatProperties
    <3>3. thread.toEnd + n = RingSize
      BY <1>t
    <3>. QED BY <2>0, <3>1, <3>2, <3>3
  <2>2. v = 0
    BY <1>t, <2>0
  <2>3. thread' = [thread EXCEPT !.pc = "store", !.toEnd = 0, !.chunk = c, !.value = v]
        /\ UNCHANGED adc
    BY <1>6 DEF PopsFromTheStart
  <2>4. ring'.stored = ring.stored
    BY <1>6, <1>t DEF PopsFromTheStart, RingTyped
  <2> HIDE DEF c, v, n
  <2>5. thread'.pc = "store" /\ thread'.chunk = c /\ thread'.value = v
    BY <1>t, <2>3, ThreadNames
  <2>. QED BY <2>0, <2>1, <2>2, <2>3, <2>4, <2>5 DEF CountInv
<1>7. CASE PopStores
  <2>1. thread.value = 0 /\ Len(thread.chunk) = RingSize
    BY <1>7 DEF PopStores, CountInv
  <2>2. thread'.pc = "trigger" /\ thread'.chunk = thread.chunk /\ UNCHANGED adc
    BY <1>7, <1>t, ThreadNames DEF PopStores
  <2>3. ring'.stored = 0
    BY <1>7, <1>t, <2>1 DEF PopStores, RingTyped
  <2>4. adc.value >= 0
    BY <1>t DEF AdcTyped
  <2>. QED BY <2>1, <2>2, <2>3, <2>4 DEF CountInv
<1>8. ASSUME NEW above \in BOOLEAN, Trigger(above) PROVE CountInv'
  <2>1. UNCHANGED <<adc, ring>> /\ thread'.pc = IF above THEN "push" ELSE "loop"
    BY <1>8, <1>t, ThreadNames DEF Trigger
  <2>2. above => thread'.chunk = thread.chunk
    <3> DEFINE next == IF above THEN "push" ELSE "loop"
               alone == above /\ app.trigger = "single"
               c == IF above THEN thread.chunk ELSE <<>>
    <3>1. thread' = [thread EXCEPT !.pc = next, !.hit = above, !.alone = alone, !.chunk = c]
      BY <1>8 DEF Trigger
    <3> HIDE DEF next, alone, c
    <3>2. thread'.chunk = c
      BY <1>t, <3>1, ThreadNames
    <3>. QED BY <3>2 DEF c
  <2>. QED BY <1>8, <2>1, <2>2 DEF Trigger, CountInv
<1>9. CASE NoTrigger \/ PushBegins
  <2>1. UNCHANGED <<adc, ring>> /\ thread'.chunk = thread.chunk /\ thread'.pc \in {"push", "copy"}
    BY <1>9, <1>t, ThreadNames DEF NoTrigger, PushBegins, Goto
  <2>. QED BY <1>9, <2>1 DEF CountInv, NoTrigger, PushBegins
<1>10. CASE PushCopies \/ PushViews \/ (\E late \in BOOLEAN : AfterPush(late)) \/ RecordingStopped
  <2>1. UNCHANGED <<adc, ring>>
    BY <1>10 DEF PushCopies, PushViews, AfterPush, RecordingStopped
  <2>2. thread'.pc \in {"view", "loop", "pushed", "pause", "done"}
    BY <1>10, <1>t, ThreadNames, NewThreads DEF PushCopies, PushViews, AfterPush, RecordingStopped
  <2>. QED BY <1>g, <2>1, <2>2
<1>11. CASE UsesWindow
  BY <1>11 DEF UsesWindow, Fail, CountInv
<1>12. CASE StopRecording
  <2>1. CASE Fail("a_capture_not_started_was_stopped")
    BY <2>1 DEF Fail, CountInv
  <2>2. CASE ~Fail("a_capture_not_started_was_stopped")
    <3>1. adc'.value = adc.value /\ adc'.callback = adc.callback /\ UNCHANGED ring
          /\ thread'.pc = "stopped"
      BY <1>12, <1>t, <2>2, ThreadNames DEF StopRecording, Goto, AdcTyped
    <3>. QED BY <3>1 DEF CountInv
  <2>. QED BY <2>1, <2>2
<1>. QED BY <1>1, <1>2, <1>3, <1>4, <1>5, <1>6, <1>7, <1>8, <1>9, <1>10, <1>11, <1>12 DEF Recorder

-----------------------------------------------------------------------------
(* What the seams say of the chunk that is pushed.                         *)
LEMMA ChunkFits ==
  ASSUME Typed, CountInv, SeamInv, thread.pc = "copy"
  PROVE  LET excuse == raced \/ thread.dropped \/ (thread.fresh /\ area.cur > 0)
         IN  thread.chunk # <<>> /\ Fits(area, thread.chunk, excuse)
<1> DEFINE excuse == raced \/ thread.dropped \/ (thread.fresh /\ area.cur > 0)
<1>1. Len(thread.chunk) = RingSize /\ RingSize > 0
  BY ChunksAssumption DEF CountInv
<1>2. thread.chunk # <<>>
  BY <1>1, EmptySeq
<1>3. CASE ~excuse
  <2>1. \A k \in 2..Len(thread.chunk) : Follows(thread.chunk[k - 1], thread.chunk[k])
    BY <1>1, <1>3 DEF SeamInv, ChunkInv
  <2>2. area.cur > 0 /\ ~area.fill.excused => Follows(area.fill.last, thread.chunk[1])
    BY <1>3 DEF SeamInv, FillInv, Continues
  <2>. QED BY <1>2, <2>1, <2>2 DEF Fits
<1>. QED BY <1>2, <1>3 DEF Fits

(* The push leaves a whole buffer and the position for the exchange.       *)
LEMMA PushedView ==
  ASSUME Typed, CountInv, ViewInv, SeamInv, PushCopies
  PROVE  /\ ViewInv'
         /\ \/ area'.cur = 0
            \/ /\ thread'.pc = "loop"
               /\ ~area'.fill.excused =>
                    ~raced /\ ~thread.dropped /\ area'.fill.last = thread.chunk[Len(thread.chunk)]
<1> DEFINE excuse == raced \/ thread.dropped \/ (thread.fresh /\ area.cur > 0)
           b == PushBuffer(area, thread.chunk, excuse)
           s == SwapBuffers(b)
           next == IF Full(b) THEN "view" ELSE "loop"
           view == IF Full(b) THEN Round(area.left) ELSE 0
<1>1. /\ thread.pc = "copy" /\ UNCHANGED ui
      /\ area' = IF Full(b) THEN s ELSE b
      /\ thread' = [thread EXCEPT !.pc = next, !.fresh = FALSE, !.chunk = <<>>, !.gen = 0,
                                 !.view = view]
      /\ overlap' = (overlap /\ ~Full(b))
  BY DEF PushCopies, ThreadKeeps
<1>2. thread'.pc = next /\ thread'.view = view
  <2> HIDE DEF next, view
  <2>1. DOMAIN thread = ThreadFields
    BY TypedParts DEF ThreadTyped
  <2>. QED BY <1>1, <2>1, ThreadNames
<1>3. /\ AreaInv(b)
      /\ b.count = area.count /\ b.left = area.left /\ b.plotCount = area.plotCount
      /\ b.ini = area.ini
      /\ ~Full(b) /\ ~b.fill.excused =>
           b.fill.last = thread.chunk[Len(thread.chunk)] /\ ~excuse
  <2>1. thread.chunk # <<>> /\ Fits(area, thread.chunk, excuse)
    BY <1>1, ChunkFits
  <2>2. AreaInv(area) /\ thread.chunk \in Seq(0..Ticks) /\ excuse \in BOOLEAN
    BY TypedParts DEF ViewInv, ThreadTyped
  <2> HIDE DEF excuse
  <2>. QED BY <2>1, <2>2, PushInv
<1>4. /\ AreaInv(s) /\ s.cur = 0
      /\ s.count = b.count /\ s.left = b.left /\ s.plotCount = b.plotCount /\ s.ini = b.ini
  <2> HIDE DEF b
  <2>. QED BY <1>3, SwapInv
<1> DEFINE left == area.left
           settled == AreaSettled(area)
<1>5. AreaInv(area') /\ area'.left = area.left /\ area'.ini = area.ini
      /\ (AreaSettled(area) => AreaSettled(area'))
  <2> HIDE DEF b, s
  <2>1. CASE Full(b)
    BY <1>1, <1>3, <1>4, <2>1 DEF AreaSettled
  <2>2. CASE ~Full(b)
    BY <1>1, <1>3, <2>2 DEF AreaSettled
  <2>. QED BY <2>1, <2>2
<1>6. CASE Full(b)
  <2>1. thread'.pc = "view" /\ thread'.view = Round(area'.left) /\ area'.cur = 0
    BY <1>1, <1>2, <1>4, <1>5, <1>6
  <2>. QED BY <1>1, <1>5, <2>1 DEF ViewInv
<1>7. CASE ~Full(b)
  <2>1. thread'.pc = "loop" /\ (overlap' <=> overlap) /\ area' = b
    BY <1>1, <1>2, <1>7
  <2>2. Round(area'.left) = Round(area.left)
    BY <1>5
  <2>3. ViewInv'
    BY <1>1, <1>5, <2>1, <2>2 DEF ViewInv
  <2>. QED BY <1>3, <1>7, <2>1, <2>3
<1>. QED BY <1>6, <1>7

(* Only the push changes the area, and only the user and the push the view. *)
LEMMA RecorderFrame ==
  ASSUME Typed, Recorder
  PROVE  /\ UNCHANGED ui
         /\ \/ PushCopies
            \/ PushViews
            \/ UNCHANGED <<area, overlap>> /\ thread' = thread
            \/ UNCHANGED <<area, overlap>> /\ thread.pc # "view" /\ thread'.pc # "view"
<1>t. DOMAIN thread = ThreadFields
  BY TypedParts DEF ThreadTyped
<1>1. ASSUME NEW what, Fail(what) PROVE UNCHANGED <<area, overlap, ui, thread>>
  BY <1>1 DEF Fail
<1>2. CASE \/ \E ok \in BOOLEAN : StartRecording(ok)
           \/ Pause \/ Resume \/ ResumeClears \/ ResumeRewinds \/ Loop
           \/ StopRecording \/ RecordingStopped
  <2>1. UNCHANGED <<area, overlap, ui>>
    BY <1>2 DEF StartRecording, Pause, Resume, ResumeClears, ResumeRewinds, Loop, StopRecording,
                RecordingStopped, Fail, ThreadKeeps
  <2>2. thread.pc # "view"
    BY <1>2 DEF StartRecording, Pause, Resume, ResumeClears, ResumeRewinds, Loop, StopRecording,
                RecordingStopped
  <2>3. thread' = thread \/ thread'.pc # "view"
    BY <1>2, <1>t, ThreadNames, NewThreads
       DEF StartRecording, Pause, Resume, ResumeClears, ResumeRewinds, Loop, StopRecording,
           RecordingStopped, Fail, Goto
  <2>. QED BY <2>1, <2>2, <2>3
<1>3. CASE \/ PopBegins \/ PopsToTheEnd \/ PopsFromTheStart \/ PopStores
           \/ NoTrigger \/ PushBegins
           \/ (\E above \in BOOLEAN : Trigger(above)) \/ \E late \in BOOLEAN : AfterPush(late)
  <2>1. UNCHANGED <<area, overlap, ui>>
    BY <1>3 DEF PopBegins, PopsToTheEnd, PopsFromTheStart, PopStores, NoTrigger, PushBegins,
              Trigger,
                AfterPush, ThreadKeeps
  <2>2. thread.pc # "view"
    BY <1>3 DEF PopBegins, PopsToTheEnd, PopsFromTheStart, PopStores, NoTrigger, PushBegins,
              Trigger,
                AfterPush
  <2>3. CASE PopBegins \/ PopsToTheEnd \/ PopsFromTheStart \/ PopStores
    <3>1. thread'.pc # "view"
      BY <1>t, <2>3, ThreadNames DEF PopBegins, PopsToTheEnd, PopsFromTheStart, PopStores
    <3>. QED BY <2>1, <2>2, <3>1
  <2>4. CASE \/ NoTrigger \/ PushBegins
             \/ (\E above \in BOOLEAN : Trigger(above)) \/ \E late \in BOOLEAN : AfterPush(late)
    <3>1. thread'.pc \in {"push", "copy", "loop", "pause"}
      BY <1>t, <2>4, ThreadNames DEF NoTrigger, PushBegins, Trigger, AfterPush, Goto
    <3>. QED BY <2>1, <2>2, <3>1
  <2>. QED BY <1>3, <2>3, <2>4
<1>4. CASE PushCopies \/ PushViews
  BY <1>4 DEF PushCopies, PushViews, ThreadKeeps
<1>5. CASE UsesWindow
  BY <1>1, <1>5 DEF UsesWindow
<1>. QED BY <1>2, <1>3, <1>4, <1>5 DEF Recorder

LEMMA RecorderView ==
  ASSUME Typed, CountInv, ViewInv, SeamInv, Recorder
  PROVE  ViewInv'
<1>1. CASE PushCopies
  BY <1>1, PushedView
<1>2. CASE PushViews
  <2> DEFINE v == thread.view
             b == [area EXCEPT !.ini = v]
  <2>1. area' = b /\ UNCHANGED <<ui, overlap>> /\ thread.pc = "view" /\ thread'.pc = "pushed"
    <3>1. DOMAIN thread = ThreadFields
      BY TypedParts DEF ThreadTyped
    <3>. QED BY <1>2, <3>1, ThreadNames DEF PushViews, ThreadKeeps
  <2>2. v \in Nat
    BY TypedParts DEF ThreadTyped
  <2> HIDE DEF v
  <2>3. IsArea(b) /\ SameFill(area, b) /\ b.left = area.left /\ b.plotCount = area.plotCount
        /\ b.fftCount = area.fftCount /\ b.ini = v
    BY <2>2, FieldNames DEF ViewInv, AreaInv, IsArea, SameFill
  <2>4. b.fft <=> area.fft
    BY FieldNames DEF ViewInv, AreaInv, IsArea
  <2> HIDE DEF b
  <2>5. AreaInv(b) /\ (AreaSettled(area) => AreaSettled(b))
    BY <2>3, <2>4 DEF ViewInv, AreaInv, SameFill, AreaSettled
  <2>6. Round(b.left) = Round(area.left)
    BY <2>3
  <2>. QED BY <2>1, <2>3, <2>5, <2>6 DEF ViewInv, v
<1>3. CASE UNCHANGED <<area, overlap>> /\ thread' = thread
  BY <1>3, RecorderFrame DEF ViewInv
<1>4. CASE UNCHANGED <<area, overlap>> /\ thread.pc # "view" /\ thread'.pc # "view"
  BY <1>4, RecorderFrame DEF ViewInv
<1>. QED BY <1>1, <1>2, <1>3, <1>4, RecorderFrame

LEMMA CallbackView ==
  ASSUME ViewInv, Callback
  PROVE  ViewInv'
<1>1. UNCHANGED <<area, ui, thread, overlap>>
  BY DEF Callback, CallbackStores, CallbackCopies, CallbackKeeps
<1>. QED BY <1>1 DEF ViewInv

(* What is popped is inside the ring, unless there was a race.             *)
LEMMA RecorderReads ==
  ASSUME Typed, SeamInv, OnlyKnownOverreads, Recorder
  PROVE  OnlyKnownOverreads'
<1>t. RingTyped /\ RingSize \in Nat /\ thread.toEnd \in 0..RingSize
  BY TypedParts, ChunksAssumption DEF ThreadTyped
<1>1. CASE PopsToTheEnd
  <2>1. ~raced => ring.pop + thread.toEnd <= RingSize
    BY <1>1, <1>t DEF PopsToTheEnd, SeamInv, PopInv, RingTyped
  <2>2. BeyondRing(thread.toEnd) \subseteq {"the_ring_in_a_race"}
    BY <2>1 DEF BeyondRing
  <2>. QED BY <1>1, <2>2 DEF PopsToTheEnd, OnlyKnownOverreads
<1>2. CASE PopsFromTheStart
  <2>1. ~raced => ring.pop + (RingSize - thread.toEnd) <= RingSize
    BY <1>2, <1>t DEF PopsFromTheStart, SeamInv, PopInv, RingTyped
  <2>2. BeyondRing(RingSize - thread.toEnd) \subseteq {"the_ring_in_a_race"}
    BY <2>1 DEF BeyondRing
  <2>. QED BY <1>2, <2>2 DEF PopsFromTheStart, OnlyKnownOverreads
<1>3. CASE UNCHANGED over
  BY <1>3, SMTT(30) DEF OnlyKnownOverreads
<1>4. Recorder => PopsToTheEnd \/ PopsFromTheStart \/ UNCHANGED over
  BY DEF Recorder, StartRecording, Pause, Resume, ResumeClears, ResumeRewinds, Loop, PopBegins,
         PopStores, Trigger, NoTrigger, PushBegins, PushCopies, PushViews, UsesWindow, AfterPush,
         StopRecording, RecordingStopped, Fail
<1>. QED BY <1>1, <1>2, <1>3, <1>4

LEMMA CallbackReads ==
  ASSUME OnlyKnownOverreads, Callback
  PROVE  OnlyKnownOverreads'
BY DEF Callback, CallbackStores, CallbackCopies, CallbackKeeps, OnlyKnownOverreads

-----------------------------------------------------------------------------
(* The trigger.                                                            *)
LEMMA CallbackTrigger ==
  ASSUME TriggerInv, Callback
  PROVE  TriggerInv'
<1>1. UNCHANGED <<area, thread>>
  BY DEF Callback, CallbackStores, CallbackCopies, CallbackKeeps
<1>. QED BY <1>1 DEF TriggerInv

LEMMA UserTrigger ==
  ASSUME Typed, ControlInv, ViewInv, TriggerInv, User
  PROVE  TriggerInv'
<1>1. area'.cur = area.cur \/ area'.cur = 0
  BY UserView DEF SameFill
<1>2. CASE UNCHANGED thread
  BY <1>1, <1>2 DEF TriggerInv
<1>3. CASE Replaced
  BY <1>3, NewThreads DEF TriggerInv, Replaced
<1>. QED BY <1>2, <1>3, UserInv

LEMMA RecorderTrigger ==
  ASSUME Typed, CountInv, ViewInv, SeamInv, TriggerInv, Recorder
  PROVE  TriggerInv'
<1>t. DOMAIN thread = ThreadFields
  BY TypedParts DEF ThreadTyped
<1> DEFINE calm == area.cur = 0 \/ thread.fresh
           early == {"none", "start", "view", "pushed", "pause", "resume", "clear", "rewind"}
<1>f. ASSUME NEW what, Fail(what) PROVE TriggerInv'
  BY <1>f DEF Fail, TriggerInv
<1>g. ASSUME NEW next, UNCHANGED area, thread' = [thread EXCEPT !.pc = next],
             next \in early => calm, next \in {"push", "copy"} => (thread.based => thread.hit)
      PROVE  TriggerInv'
  <2>1. /\ thread'.pc = next /\ (thread'.based <=> thread.based) /\ (thread'.hit <=> thread.hit)
        /\ thread'.fresh <=> thread.fresh
    BY <1>g, <1>t, ThreadNames
  <2>. QED BY <1>g, <2>1 DEF TriggerInv
<1>1. CASE \/ \E ok \in BOOLEAN : StartRecording(ok)
           \/ Pause \/ Resume \/ ResumeClears \/ Loop \/ StopRecording
  <2>1. CASE \E what : Fail(what)
    BY <1>f, <2>1
  <2>2. CASE ~\E what : Fail(what)
    <3>1. UNCHANGED area
      BY <1>1, <2>2 DEF StartRecording, Pause, Resume, ResumeClears, Loop, StopRecording
    <3>2. \/ /\ calm
             /\ \E next \in {"pause", "resume", "clear", "rewind"} :
                  thread' = [thread EXCEPT !.pc = next]
          \/ \E next \in {"stop", "wait", "stopped"} : thread' = [thread EXCEPT !.pc = next]
      BY <1>1, <2>2 DEF StartRecording, Pause, Resume, ResumeClears, Loop, StopRecording, Goto,
                        TriggerInv
    <3>. QED BY <1>g, <3>1, <3>2
  <2>. QED BY <2>1, <2>2
<1>2. CASE ResumeRewinds
  <2> DEFINE based == IF thread.looked THEN thread.based ELSE ThresholdBased
  <2>1. thread' = [thread EXCEPT !.pc = "loop", !.looked = TRUE, !.based = based] /\ UNCHANGED area
        /\ calm
    BY <1>2 DEF ResumeRewinds, TriggerInv
  <2> HIDE DEF based
  <2>2. thread'.pc = "loop" /\ (thread'.fresh <=> thread.fresh)
    BY <1>t, <2>1, ThreadNames
  <2>. QED BY <2>1, <2>2 DEF TriggerInv
<1>3. CASE PopBegins \/ PopsToTheEnd \/ PopsFromTheStart \/ PopStores
  <2>1. UNCHANGED area /\ thread'.pc \in {"first", "second", "store", "trigger"}
    BY <1>3, <1>t, ThreadNames DEF PopBegins, PopsToTheEnd, PopsFromTheStart, PopStores
  <2>2. /\ thread'.based <=> thread.based
        /\ thread'.hit <=> thread.hit
        /\ thread'.fresh <=> thread.fresh
    BY <1>3, <1>t, ThreadNames DEF PopBegins, PopsToTheEnd, PopsFromTheStart, PopStores
  <2>. QED BY <2>1, <2>2 DEF TriggerInv
<1>4. ASSUME NEW above \in BOOLEAN, Trigger(above) PROVE TriggerInv'
  <2> DEFINE next == IF above THEN "push" ELSE "loop"
             alone == above /\ app.trigger = "single"
             c == IF above THEN thread.chunk ELSE <<>>
  <2>1. thread' = [thread EXCEPT !.pc = next, !.hit = above, !.alone = alone, !.chunk = c]
        /\ UNCHANGED area /\ thread.based /\ ~thread.hit
    BY <1>4 DEF Trigger
  <2> HIDE DEF alone, c
  <2>2. thread'.pc = next
    BY <1>t, <2>1, ThreadNames
  <2>3. thread'.hit = above /\ (thread'.based <=> thread.based) /\ (thread'.fresh <=> thread.fresh)
    BY <1>t, <2>1, ThreadNames
  <2>. QED BY <2>1, <2>2, <2>3 DEF TriggerInv
<1>5. CASE NoTrigger
  BY <1>5, <1>g DEF NoTrigger, Goto
<1>6. CASE PushBegins
  <2> DEFINE gen == area.gen
  <2>1. thread' = [thread EXCEPT !.pc = "copy", !.gen = gen] /\ UNCHANGED area
        /\ (thread.based => thread.hit)
    BY <1>6 DEF PushBegins, TriggerInv
  <2> HIDE DEF gen
  <2>2. /\ thread'.pc = "copy" /\ (thread'.based <=> thread.based) /\ (thread'.hit <=> thread.hit)
    BY <1>t, <2>1, ThreadNames
  <2>. QED BY <2>1, <2>2 DEF TriggerInv
<1>7. CASE PushCopies
  <2> DEFINE excuse == raced \/ thread.dropped \/ (thread.fresh /\ area.cur > 0)
             full == Full(PushBuffer(area, thread.chunk, excuse))
             next == IF full THEN "view" ELSE "loop"
             view == IF full THEN Round(area.left) ELSE 0
  <2>1. thread' = [thread EXCEPT !.pc = next, !.fresh = FALSE, !.chunk = <<>>, !.gen = 0,
                                 !.view = view]
        /\ (thread.based => thread.hit)
    BY <1>7 DEF PushCopies, TriggerInv
  <2> HIDE DEF full, view
  <2>2. thread'.pc \in {"view", "loop"}
    BY <1>t, <2>1, ThreadNames
  <2> HIDE DEF next
  <2>3. (thread'.based <=> thread.based) /\ (thread'.hit <=> thread.hit)
    BY <1>t, <2>1, ThreadNames
  <2>4. area'.cur = 0 \/ thread'.pc = "loop"
    BY <1>7, PushedView
  <2>. QED BY <2>1, <2>2, <2>3, <2>4 DEF TriggerInv
<1>8. CASE PushViews
  <2>1. thread'.pc = "pushed" /\ (thread'.based <=> thread.based) /\ (thread'.hit <=> thread.hit)
        /\ (thread'.fresh <=> thread.fresh)
    BY <1>8, <1>t, ThreadNames DEF PushViews
  <2>2. area'.cur = area.cur /\ calm
    BY <1>8, FieldNames DEF PushViews, ViewInv, AreaInv, IsArea, TriggerInv
  <2>. QED BY <2>1, <2>2 DEF TriggerInv
<1>9. CASE UsesWindow
  BY <1>9, <1>f DEF UsesWindow
<1>10. ASSUME NEW late \in BOOLEAN, AfterPush(late) PROVE TriggerInv'
  <2> DEFINE next == IF late THEN "loop" ELSE "pause"
             hit == thread.hit /\ app.trigger = "timed"
  <2>1. thread' = [thread EXCEPT !.pc = next, !.hit = hit] /\ UNCHANGED area /\ calm
    BY <1>10 DEF AfterPush, TriggerInv
  <2> HIDE DEF hit
  <2>2. thread'.pc = next /\ (thread'.fresh <=> thread.fresh)
    BY <1>t, <2>1, ThreadNames
  <2>. QED BY <2>1, <2>2 DEF TriggerInv
<1>11. CASE RecordingStopped
  BY <1>11, NewThreads DEF RecordingStopped, TriggerInv
<1>. QED BY <1>1, <1>2, <1>3, <1>4, <1>5, <1>6, <1>7, <1>8, <1>9, <1>10, <1>11 DEF Recorder

-----------------------------------------------------------------------------
SeamParts == CellsInv /\ PopInv /\ ChunkInv /\ FillInv

(* The place of a cell, the oldest first, without the remainder.           *)
LEMMA PlaceTyped ==
  ASSUME RingTyped
  PROVE  /\ \A i \in 0..RingSize - 1 : Place(i) \in 0..RingSize - 1
         /\ \A i \in 0..RingSize - 1 :
              Place(i) = IF i >= ring.cur THEN i - ring.cur ELSE i - ring.cur + RingSize
<1>1. RingSize \in Nat \ {0} /\ ring.cur \in 0..RingSize - 1
  BY ChunksAssumption DEF RingTyped
<1>2. ASSUME NEW i \in 0..RingSize - 1
      PROVE  /\ Place(i) \in 0..RingSize - 1
             /\ Place(i) = IF i >= ring.cur THEN i - ring.cur ELSE i - ring.cur + RingSize
  <2> DEFINE x == i - ring.cur + RingSize
             d == i - ring.cur
  <2>1. x \in Nat /\ x < 2 * RingSize /\ x = d + RingSize /\ d \in Int /\ (d >= 0 <=> i >= ring.cur)
        /\ d < RingSize
    BY <1>1
  <2>2. Place(i) = x % RingSize
    BY DEF Place
  <2> HIDE DEF x, d
  <2>3. CASE d >= 0
    <3>0. x \in Nat /\ RingSize <= x /\ x < 2 * RingSize
      BY <1>1, <2>1, <2>3
    <3>1. x % RingSize = x - RingSize
      BY <1>1, <3>0, ModProperties
    <3>2. Place(i) = d
      BY <1>1, <2>1, <2>2, <3>1
    <3>. QED BY <1>1, <2>1, <2>3, <3>2 DEF d
  <2>4. CASE d < 0
    <3>1. x \in 0..RingSize - 1
      BY <1>1, <2>1, <2>4
    <3>2. Place(i) = x
      BY <1>1, <2>2, <3>1, ModProperties
    <3>. QED BY <1>1, <2>1, <2>4, <3>1, <3>2 DEF d
  <2>. QED BY <2>1, <2>3, <2>4
<1>. QED BY <1>2

LEMMA CountingTyped ==
  ASSUME RingTyped, AdcTyped
  PROVE  Counting \in Nat
BY ChunksAssumption DEF RingTyped, AdcTyped, Counting

(* Nothing is copied: at most fewer samples are counted.                   *)
LEMMA CellsKept ==
  ASSUME RingTyped, AdcTyped, RingTyped', AdcTyped', CellsInv,
         ring'.cells = ring.cells, ring'.cur = ring.cur, adc'.clock = adc.clock,
         Counting' <= Counting
  PROVE  CellsInv'
<1>1. SUFFICES ASSUME NEW i \in 0..RingSize - 1, Place(i)' >= RingSize - Counting'
               PROVE  Precedes(ring'.cells[i], RingSize - Place(i)', adc'.clock)
  BY DEF CellsInv
<1>2. Place(i)' = Place(i)
  BY DEF Place
<1>3. Place(i) \in Nat /\ Counting \in Nat /\ Counting' \in Nat /\ RingSize \in Nat
  <2>1. Counting' \in Nat
    BY ChunksAssumption DEF RingTyped, AdcTyped, Counting
  <2>. QED BY <2>1, PlaceTyped, CountingTyped, ChunksAssumption
<1>4. Place(i) >= RingSize - Counting
  BY <1>1, <1>2, <1>3
<1>. QED BY <1>2, <1>4 DEF CellsInv

LEMMA UserSeam ==
  ASSUME Typed, ControlInv, ViewInv, SeamInv, User
  PROVE  SeamInv'
<1>1. SUFFICES ASSUME ~raced' PROVE SeamParts'
  BY DEF SeamInv, SeamParts
<1>2. UNCHANGED <<ring, adc, dropped, raced>>
      /\ (UNCHANGED thread \/ thread'.pc \in {"none", "start"})
  BY UserInv, NewThreads DEF Replaced
<1>3. SameFill(area, area') \/ area'.cur = 0
  BY UserView
<1>4. SeamParts
  BY <1>1, <1>2 DEF SeamInv, SeamParts
<1>5. CellsInv'
  BY <1>2, <1>4 DEF SeamParts, CellsInv, Place, Counting
<1>6. PopInv'
  BY <1>2, <1>4 DEF SeamParts, PopInv, Popping, Counting
<1>7. ChunkInv'
  BY <1>2, <1>4 DEF SeamParts, ChunkInv, Counting
<1>8. FillInv'
  <2>1. CASE area'.cur = 0
    BY <2>1 DEF FillInv, Continues
  <2>2. CASE SameFill(area, area')
    BY <1>2, <1>4, <2>2 DEF SeamParts, FillInv, Continues, Counting, SameFill
  <2>. QED BY <1>3, <2>1, <2>2
<1>. QED BY <1>5, <1>6, <1>7, <1>8 DEF SeamParts

(* The second half of the callback: the samples of the first are counted.  *)
LEMMA StoresSeam ==
  ASSUME Typed, SeamInv, CallbackStores
  PROVE  SeamInv'
<1>1. SUFFICES ASSUME ~raced' PROVE SeamParts'
  BY DEF SeamInv, SeamParts
<1>t. RingTyped /\ AdcTyped /\ RingTyped' /\ AdcTyped' /\ RingSize \in Nat \ {0}
  <2>1. Typed'
    BY CallbackTyped DEF Callback
  <2>2. RingTyped' /\ AdcTyped'
    BY <2>1 DEF Typed, RingTyped, AdcTyped
  <2>. QED BY <2>2, TypedParts, ChunksAssumption
<1>2. /\ ~raced /\ ~Popping /\ UNCHANGED <<area, thread>> /\ adc.callback = "store"
      /\ adc'.callback = "none" /\ adc'.clock = adc.clock
      /\ ring' = Counted(adc.value)
      /\ dropped' = (dropped \/ adc.value > RingSize)
  BY <1>1, <1>t DEF CallbackStores, CallbackKeeps, AdcTyped
<1>3. SeamParts
  BY <1>2 DEF SeamInv, SeamParts
<1>4. Counting = adc.value /\ Counting' = ring'.stored /\ adc.value \in Nat
  BY <1>2, <1>t DEF Counting, AdcTyped
<1>5. ring'.cells = ring.cells /\ ring'.cur = ring.cur
  BY <1>2, <1>t DEF Counted, RingTyped
<1>6. CASE adc.value > RingSize
  <2>1. Counting' = RingSize /\ ring'.pop = ring.cur /\ dropped'
    BY <1>2, <1>4, <1>6, <1>t DEF Counted, RingTyped
  <2>2. CellsInv'
    BY <1>2, <1>3, <1>4, <1>5, <1>6, <1>t, <2>1, CellsKept DEF SeamParts
  <2>3. ring.cur < RingSize /\ (ring.cur + RingSize) % RingSize = ring.cur
    <3> DEFINE x == ring.cur + RingSize
    <3>1. x \in Nat /\ RingSize <= x /\ x < 2 * RingSize /\ x - RingSize = ring.cur
          /\ ring.cur < RingSize
      BY <1>t, SMTT(30) DEF RingTyped
    <3> HIDE DEF x
    <3>2. x % RingSize = x - RingSize
      BY <1>t, <3>1, ModProperties
    <3>. QED BY <3>1, <3>2 DEF x
  <2>4. PopInv'
    BY <1>2, <1>5, <2>1, <2>3 DEF PopInv, Popping
  <2>5. ChunkInv' /\ FillInv'
    BY <1>2, <1>3, <2>1 DEF SeamParts, ChunkInv, FillInv, Continues, Popping
  <2>. QED BY <2>2, <2>4, <2>5 DEF SeamParts
<1>7. CASE ~(adc.value > RingSize)
  <2>1. Counting' = Counting /\ ring'.pop = ring.pop /\ (dropped' <=> dropped)
    BY <1>2, <1>4, <1>7, <1>t DEF Counted, RingTyped
  <2>2. CellsInv'
    BY <1>2, <1>3, <1>4, <1>5, <1>t, <2>1, CellsKept DEF SeamParts
  <2>4. PopInv'
    BY <1>2, <1>3, <1>5, <2>1 DEF SeamParts, PopInv, Popping
  <2>5. ChunkInv' /\ FillInv'
    BY <1>2, <1>3, <2>1 DEF SeamParts, ChunkInv, FillInv, Continues, Popping
  <2>. QED BY <2>2, <2>4, <2>5 DEF SeamParts
<1>. QED BY <1>6, <1>7

LEMMA ChunkTyped ==
  ASSUME Typed, CountInv, thread.pc \in {"store", "trigger", "push", "copy"}
  PROVE  \A k \in 1..RingSize : thread.chunk[k] \in 0..Ticks
<1>1. thread.chunk \in Seq(0..Ticks) /\ Len(thread.chunk) = RingSize
  BY DEF Typed, CountInv
<1>. QED BY <1>1, ElementOfSeq

LEMMA LastTyped ==
  ASSUME ViewInv
  PROVE  area.fill.last \in 0..Ticks
BY DEF ViewInv, AreaInv, IsArea

(* The first half of the callback: n samples are written behind the        *)
(* others, and the n oldest places with them go.                           *)
LEMMA CopiesSeam ==
  ASSUME Typed, CountInv, ViewInv, SeamInv, NEW n \in budget.chunks, CallbackCopies(n)
  PROVE  SeamInv'
<1>1. SUFFICES ASSUME ~raced' PROVE SeamParts'
  BY DEF SeamInv, SeamParts
<1>t. /\ RingTyped /\ AdcTyped /\ RingTyped' /\ AdcTyped' /\ n \in 1..RingSize
      /\ RingSize \in Nat \ {0} /\ Ticks \in Nat \ {0} /\ n \in Nat
  <2>1. Typed'
    BY CallbackTyped DEF Callback
  <2>2. RingTyped' /\ AdcTyped'
    BY <2>1 DEF Typed, RingTyped, AdcTyped
  <2>3. n \in 1..RingSize /\ RingSize \in Nat \ {0}
    BY TypedParts, ChunksAssumption DEF BudgetTyped
  <2>. QED BY <2>2, <2>3, TypedParts, DefaultsAssumption
<1>2. UNCHANGED <<area, thread, dropped>> /\ ~raced /\ adc.callback = "none"
  BY <1>1 DEF CallbackCopies, CallbackKeeps
<1>3. SeamParts
  BY <1>2 DEF SeamInv, SeamParts
<1>4. CASE UNCHANGED <<adc, ring, raced>>
  <2>1. CellsInv'
    BY <1>3, <1>4 DEF SeamParts, CellsInv, Place, Counting
  <2>2. PopInv' /\ ChunkInv' /\ FillInv'
    BY <1>2, <1>3, <1>4 DEF SeamParts, PopInv, Popping, ChunkInv, FillInv, Continues, Counting
  <2>. QED BY <2>1, <2>2 DEF SeamParts
<1>5. CASE ~UNCHANGED <<adc, ring, raced>>
  <2>1. /\ adc'.clock = (adc.clock + n) % Ticks /\ adc'.callback = "store"
        /\ adc'.value = ring.stored + n /\ ~Popping
        /\ ring' = Copied(n)
    BY <1>1, <1>2, <1>5, <1>t DEF CallbackCopies, AdcTyped
  <2>2. /\ ring'.pop = ring.pop /\ ring'.stored = ring.stored
        /\ ring'.cur = (ring.cur + n) % RingSize
        /\ \A i \in 0..RingSize - 1 :
             ring'.cells[i] = IF Place(i) < n THEN Number(adc.clock + Place(i)) ELSE ring.cells[i]
    BY <1>t, <2>1, CopiedRing
  <2>3. /\ Counting' = Counting + n /\ Counting = ring.stored /\ Counting \in Nat
    BY <1>2, <1>t, <2>1, <2>2, CountingTyped DEF Counting
  <2>4. ASSUME NEW s \in 0..Ticks, NEW m \in Nat, Precedes(s, m, adc.clock)
        PROVE  Precedes(s, m + n, adc'.clock)
    <3>1. Precedes(s, m + n, (adc.clock + n) % Ticks)
      BY <1>t, <2>4, PrecedesShift
    <3>. QED BY <2>1, <3>1
  <2>5. CellsInv'
    <3> SUFFICES ASSUME NEW i \in 0..RingSize - 1, Place(i)' >= RingSize - Counting'
                 PROVE  Precedes(ring'.cells[i], RingSize - Place(i)', adc'.clock)
      BY DEF CellsInv
    <3> DEFINE p == Place(i)
               q == Place(i)'
    <3>1. /\ p \in 0..RingSize - 1
          /\ p < n => q = RingSize - n + p
          /\ p >= n => q = p - n
      <4>1. q = (i - ((ring.cur + n) % RingSize) + RingSize) % RingSize
        BY <2>2 DEF Place
      <4>2. p = (i - ring.cur + RingSize) % RingSize
        BY DEF Place
      <4>3. ring.cur \in 0..RingSize - 1
        BY <1>t DEF RingTyped
      <4> HIDE DEF p, q
      <4>. QED BY <1>t, <4>1, <4>2, <4>3, PlaceMoves, ZenonT(40)
    <3>2. ring'.cells[i] = IF p < n THEN Number(adc.clock + p) ELSE ring.cells[i]
      BY <2>2
    <3>3. q >= RingSize - (Counting + n)
      BY <2>3
    <3>4. p >= n /\ p >= RingSize - Counting => Precedes(ring.cells[i], RingSize - p, adc.clock)
      BY <1>3 DEF SeamParts, CellsInv
    <3> HIDE DEF p, q
    <3>5. CASE p < n
      <4>1. ring'.cells[i] = (adc.clock + p) % Ticks
        BY <1>2, <3>2, <3>5 DEF Number
      <4>2. adc.clock + p \in Nat /\ n - p \in Nat /\ (adc.clock + p) + (n - p) = adc.clock + n
            /\ RingSize - q = n - p
        BY <1>t, <3>1, <3>5 DEF AdcTyped
      <4>3. Precedes((adc.clock + p) % Ticks, n - p, ((adc.clock + p) + (n - p)) % Ticks)
        BY <4>2, PrecedesNumber
      <4>. QED BY <2>1, <4>1, <4>2, <4>3 DEF q
    <3>6. CASE p >= n
      <4>1. ring'.cells[i] = ring.cells[i] /\ RingSize - q = (RingSize - p) + n
            /\ RingSize - p \in Nat /\ p >= RingSize - Counting
        BY <1>t, <2>3, <3>1, <3>2, <3>3, <3>6
      <4>2. Precedes(ring.cells[i], RingSize - p, adc.clock)
        BY <3>4, <3>6, <4>1
      <4>3. ring.cells[i] \in 0..Ticks
        BY <1>t DEF RingTyped
      <4>4. Precedes(ring.cells[i], (RingSize - p) + n, adc'.clock)
        BY <2>4, <4>1, <4>2, <4>3
      <4>. QED BY <4>1, <4>4 DEF q
    <3>. QED BY <1>t, <3>1, <3>5, <3>6
  <2>6. PopInv'
    <3>1. CASE ring.pop < RingSize /\ (ring.pop + Counting) % RingSize = ring.cur
      <4>1. ring.pop \in Nat
        BY <1>t DEF RingTyped
      <4> DEFINE x == ring.pop + Counting
      <4>2. x \in Nat
        BY <2>3, <4>1
      <4> HIDE DEF x
      <4>3. ((x % RingSize) + n) % RingSize = (x + n) % RingSize
        BY <1>t, <4>2, ModAdd
      <4>4. x + n = ring'.pop + Counting'
        BY <1>t, <2>2, <2>3, <4>1 DEF x
      <4>5. x % RingSize = ring.cur
        BY <3>1 DEF x
      <4>6. (ring'.pop + Counting') % RingSize = ring'.cur
        BY <2>2, <4>3, <4>4, <4>5
      <4>. QED BY <1>2, <2>1, <2>2, <3>1, <4>6 DEF PopInv, Popping
    <3>2. CASE ~(ring.pop < RingSize /\ (ring.pop + Counting) % RingSize = ring.cur)
      BY <1>2, <1>3, <2>1, <3>2 DEF SeamParts, PopInv, Popping
    <3>. QED BY <3>1, <3>2
  <2>7. ChunkInv'
    <3>1. CASE thread.pc \in {"trigger", "push", "copy"} /\ ~dropped
      <4>1. thread.chunk[RingSize] \in 0..Ticks
        BY <1>t, <3>1, ChunkTyped
      <4>2. Precedes(thread.chunk[RingSize], Counting + 1, adc.clock) /\ Counting + 1 \in Nat
        BY <1>3, <2>3, <3>1 DEF SeamParts, ChunkInv
      <4>3. Precedes(thread.chunk[RingSize], (Counting + 1) + n, adc'.clock)
        BY <2>4, <4>1, <4>2
      <4>4. (Counting + 1) + n = Counting' + 1
        BY <1>t, <2>3
      <4>. QED BY <1>2, <1>3, <2>1, <4>3, <4>4 DEF SeamParts, ChunkInv, Popping
    <3>2. CASE ~(thread.pc \in {"trigger", "push", "copy"} /\ ~dropped)
      BY <1>2, <1>3, <2>1, <3>2 DEF SeamParts, ChunkInv, Popping
    <3>. QED BY <3>1, <3>2
  <2>8. FillInv'
    <3>1. CASE Continues /\ thread.pc \in {"loop", "wait"} /\ ~dropped
      <4>1. Precedes(area.fill.last, Counting + 1, adc.clock) /\ Counting + 1 \in Nat
        BY <1>3, <2>3, <3>1 DEF SeamParts, FillInv
      <4>2. Precedes(area.fill.last, (Counting + 1) + n, adc'.clock)
        BY <2>4, <4>1, LastTyped
      <4>3. (Counting + 1) + n = Counting' + 1
        BY <1>t, <2>3
      <4>. QED BY <1>2, <1>3, <2>1, <3>1, <4>2, <4>3 DEF SeamParts, FillInv, Continues
    <3>2. CASE ~(Continues /\ thread.pc \in {"loop", "wait"} /\ ~dropped)
      BY <1>2, <1>3, <2>1, <3>2 DEF SeamParts, FillInv, Continues, Popping
    <3>. QED BY <3>1, <3>2
  <2>. QED BY <2>5, <2>6, <2>7, <2>8 DEF SeamParts
<1>. QED BY <1>4, <1>5

(* The recorder pops the oldest samples of the ring, whole, and pushes     *)
(* them behind the ones that it pushed before.                             *)
LEMMA RecorderSeam ==
  ASSUME Typed, ControlInv, CountInv, ViewInv, TriggerInv, SeamInv, Recorder
  PROVE  SeamInv'
<1>1. SUFFICES ASSUME ~raced' PROVE SeamParts'
  BY DEF SeamInv, SeamParts
<1>t. /\ RingTyped /\ AdcTyped /\ RingTyped' /\ AdcTyped' /\ DOMAIN thread = ThreadFields
      /\ RingSize \in Nat \ {0} /\ Ticks \in Nat \ {0} /\ thread.toEnd \in 0..RingSize
      /\ thread.chunk \in Seq(0..Ticks)
  <2>1. Typed'
    BY RecorderTyped
  <2>2. RingTyped' /\ AdcTyped'
    BY <2>1 DEF Typed, RingTyped, AdcTyped
  <2>. QED BY <2>2, TypedParts, ChunksAssumption, DefaultsAssumption DEF ThreadTyped
<1>c. Counting \in Nat /\ Counting' \in Nat
  BY <1>t, CountingTyped DEF RingTyped, AdcTyped, Counting
<1>z. /\ RingSize \in Nat \ {0} /\ ring.cur \in 0..RingSize - 1 /\ ring.pop \in 0..RingSize
      /\ thread.toEnd \in 0..RingSize
  BY <1>t DEF RingTyped
<1>m. \A x \in 0..RingSize - 1 : (x + 0) % RingSize = x
  <2>1. ASSUME NEW x \in 0..RingSize - 1 PROVE (x + 0) % RingSize = x
    <3>1. x + 0 = x
      BY <1>z
    <3>. QED BY <1>z, <3>1, ModProperties
  <2>. QED BY <2>1
<1>s. ~raced => SeamParts
  BY DEF SeamInv, SeamParts
<1>f. ASSUME NEW what, Fail(what) PROVE SeamParts'
  <2>1. UNCHANGED <<area, ring, adc, thread, dropped, raced>>
    BY <1>f DEF Fail
  <2>. QED BY <1>1, <1>s, <2>1
           DEF SeamParts, CellsInv, Place, Counting, PopInv, Popping, ChunkInv, FillInv, Continues
<1> DEFINE Idle == {"pause", "resume", "clear", "stop", "stopped", "done"}
           Steady == {"loop", "wait", "trigger", "push", "copy", "view", "pushed"}
<1>i. ASSUME thread'.pc \in Idle PROVE PopInv' /\ ChunkInv' /\ FillInv'
  BY <1>i DEF PopInv, Popping, ChunkInv, FillInv
<1>k. ASSUME SeamParts, ring'.cells = ring.cells, ring'.cur = ring.cur, adc'.clock = adc.clock,
             Counting' <= Counting
      PROVE  CellsInv'
  BY <1>k, <1>t, CellsKept DEF SeamParts
(* Every step but the clearing of the ring keeps it as it is.              *)
<1>2. ASSUME NEW ok \in BOOLEAN, StartRecording(ok), ~Fail("captured_twice") PROVE SeamParts'
  <2>1. /\ thread'.pc = "pause" /\ ring'.cells = ring.cells /\ ring'.cur = ring.cur
        /\ adc'.clock = adc.clock /\ ring'.stored = 0 /\ adc'.callback = adc.callback /\ ~raced
    <3>1. thread'.pc = "pause" /\ (raced' <=> raced)
      BY <1>2, <1>t, ThreadNames DEF StartRecording, Goto
    <3>2. ring' = [ring EXCEPT !.pop = 0, !.stored = 0] /\ adc' = [adc EXCEPT !.on = ok]
      BY <1>2 DEF StartRecording
    <3>3. ring'.cells = ring.cells /\ ring'.cur = ring.cur /\ ring'.stored = 0
      BY <1>t, <3>2 DEF RingTyped
    <3>4. adc'.clock = adc.clock /\ adc'.callback = adc.callback
      BY <1>t, <3>2 DEF AdcTyped
    <3>. QED BY <1>1, <3>1, <3>3, <3>4
  <2>2. adc.callback = "none"
    BY <1>2 DEF StartRecording, ControlInv
  <2>3. Counting' = 0
    BY <2>1, <2>2 DEF Counting
  <2>4. CellsInv'
    BY <1>c, <1>k, <1>s, <2>1, <2>3
  <2>. QED BY <1>i, <2>1, <2>4 DEF SeamParts
<1>3. CASE Pause \/ Resume
  <2>1. /\ thread'.pc \in {"resume", "clear"} /\ ring'.cells = ring.cells /\ ring'.cur = ring.cur
        /\ UNCHANGED adc /\ ring'.stored = ring.stored /\ ~raced
    BY <1>1, <1>3, <1>t, ThreadNames, SMTT(30) DEF Pause, Resume, Goto, RingTyped
  <2>2. CellsInv'
    BY <1>c, <1>k, <1>s, <2>1 DEF Counting
  <2>. QED BY <1>i, <2>1, <2>2 DEF SeamParts
<1>4. CASE ResumeClears
  <2>1. /\ thread'.pc = "rewind" /\ ring'.stored = 0 /\ adc'.callback = "none"
    BY <1>1, <1>4, <1>t, ThreadNames DEF ResumeClears, Goto, RingTyped, AdcTyped
  <2>2. CellsInv'
    <3>1. Counting' = 0
      BY <2>1 DEF Counting
    <3>2. \A i \in 0..RingSize - 1 : ~(Place(i)' >= RingSize - Counting')
      <4>1. ASSUME NEW i \in 0..RingSize - 1 PROVE ~(Place(i)' >= RingSize - Counting')
        <5>1. Place(i)' \in 0..RingSize - 1
          <6>1. ring'.cur = ring.cur
            BY <1>4, <1>t DEF ResumeClears, RingTyped
          <6>2. Place(i)' = Place(i)
            BY <6>1 DEF Place
          <6>. QED BY <1>t, <6>2, PlaceTyped
        <5>. QED BY <1>z, <3>1, <5>1
      <4>. QED BY <4>1
    <3>. QED BY <3>2 DEF CellsInv
  <2>. QED BY <2>1, <2>2 DEF SeamParts, PopInv, Popping, ChunkInv, FillInv
<1>5. CASE ResumeRewinds
  <2>0. ~raced /\ adc.callback = "none" /\ UNCHANGED <<adc, area>> /\ thread.pc = "rewind"
    BY <1>1, <1>5 DEF ResumeRewinds, Race
  <2>1. /\ ring'.cells = ring.cells /\ ring'.cur = ring.cur
        /\ ring'.stored = ring.stored /\ ring'.pop = ring.cur
    BY <1>5, <1>t DEF ResumeRewinds, RingTyped
  <2>2. ring.stored = 0 /\ Counting' = 0
    BY <1>s, <2>0, <2>1 DEF SeamParts, PopInv, Counting
  <2>3. thread'.pc = "loop" /\ (thread'.fresh <=> thread.fresh)
    <3> DEFINE based == IF thread.looked THEN thread.based ELSE ThresholdBased
    <3>1. thread' = [thread EXCEPT !.pc = "loop", !.looked = TRUE, !.based = based]
      BY <1>5 DEF ResumeRewinds
    <3> HIDE DEF based
    <3>. QED BY <1>t, <3>1, ThreadNames
  <2>4. CellsInv'
    BY <1>c, <1>k, <1>s, <2>0, <2>1, <2>2
  <2>5. PopInv'
    <3>1. ring.cur \in 0..RingSize - 1
      BY <1>t DEF RingTyped
    <3>2. (ring.cur + 0) % RingSize = ring.cur /\ ring.cur < RingSize
      BY <1>m, <1>z
    <3>. QED BY <2>1, <2>2, <2>3, <3>2 DEF PopInv, Popping
  <2>6. ChunkInv' /\ FillInv'
    <3>1. ~Continues'
      BY <2>0, <2>3 DEF TriggerInv, Continues, ViewInv, AreaInv, IsArea
    <3>. QED BY <2>3, <3>1 DEF ChunkInv, FillInv
  <2>. QED BY <2>4, <2>5, <2>6 DEF SeamParts
<1>6. CASE Loop
  <2>1. /\ UNCHANGED <<area, ring, adc, dropped>> /\ ~raced /\ thread.pc = "loop"
        /\ thread'.pc \in {"stop", "wait"} /\ (thread'.fresh <=> thread.fresh)
    BY <1>1, <1>6, <1>t, ThreadNames DEF Loop, Goto
  <2>2. CellsInv'
    BY <1>c, <1>k, <1>s, <2>1 DEF Counting
  <2>3. PopInv' /\ ChunkInv' /\ FillInv'
    BY <1>s, <2>1 DEF SeamParts, PopInv, Popping, ChunkInv, FillInv, Continues, Counting
  <2>. QED BY <2>2, <2>3 DEF SeamParts
<1>7. CASE PopBegins
  <2>0. /\ UNCHANGED <<area, ring, adc>> /\ ~raced /\ thread.pc = "wait" /\ ~dropped'
        /\ adc.callback = "none"
    BY <1>1, <1>7 DEF PopBegins
  <2>1. /\ thread'.pc = "first" /\ thread'.toEnd = RingSize - ring.pop
        /\ (thread'.fresh <=> thread.fresh) /\ (thread'.dropped <=> dropped)
    BY <1>7, <1>t, ThreadNames DEF PopBegins
  <2>2. CellsInv'
    BY <1>c, <1>k, <1>s, <2>0 DEF Counting
  <2>3. Counting = RingSize
    BY <1>7, <1>t, <2>0 DEF PopBegins, Counting, RingTyped
  <2>4. PopInv' /\ ChunkInv'
    BY <1>s, <2>0, <2>1 DEF SeamParts, PopInv, Popping, ChunkInv, Counting
  <2>5. FillInv'
    BY <1>s, <2>0, <2>1, <2>3 DEF SeamParts, FillInv, Continues
  <2>. QED BY <2>2, <2>4, <2>5 DEF SeamParts
<1>8. ASSUME ~raced, thread.pc \in {"first", "second", "store"}, adc.callback = "none"
      PROVE  /\ SeamParts /\ Counting = RingSize /\ ring.stored = RingSize
             /\ thread.pc # "second" => ring.pop = ring.cur
  <2>1. SeamParts
    BY <1>8, <1>s
  <2>2. Counting = RingSize /\ ring.stored = RingSize
    BY <1>8 DEF Counting, CountInv
  <2>3. ASSUME thread.pc # "second" PROVE ring.pop = ring.cur
    <3>1. ring.pop < RingSize /\ (ring.pop + RingSize) % RingSize = ring.cur
      BY <1>8, <2>1, <2>2, <2>3 DEF SeamParts, PopInv
    <3> DEFINE x == ring.pop + RingSize
    <3>2. x \in Nat /\ RingSize <= x /\ x < 2 * RingSize /\ x - RingSize = ring.pop
      <4>1. ring.pop < RingSize
        BY <3>1
      <4>. QED BY <1>z, <4>1
    <3>3. x % RingSize = ring.cur
      BY <3>1
    <3> HIDE DEF x
    <3>4. x % RingSize = x - RingSize
      BY <1>t, <3>2, ModProperties
    <3>. QED BY <3>2, <3>3, <3>4
  <2>. QED BY <2>1, <2>2, <2>3
<1>r. /\ ring.cur \in 0..RingSize - 1 /\ ring.pop \in 0..RingSize
      /\ (ring.cur + RingSize) % RingSize = ring.cur
      /\ (ring.cur + 0) % RingSize = ring.cur
  <2>1. ring.cur \in 0..RingSize - 1 /\ ring.pop \in 0..RingSize
    BY <1>t DEF RingTyped
  <2> DEFINE x == ring.cur + RingSize
  <2>2. x \in Nat /\ RingSize <= x /\ x < 2 * RingSize /\ x - RingSize = ring.cur
    BY <1>t, <2>1
  <2>3. (ring.cur + 0) % RingSize = ring.cur
    BY <1>m, <2>1
  <2>4. x % RingSize = ring.cur
    <3> HIDE DEF x
    <3>1. x % RingSize = x - RingSize
      BY <1>t, <2>2, ModProperties
    <3>. QED BY <2>2, <3>1
  <2>. QED BY <2>1, <2>3, <2>4
<1>9. CASE PopsToTheEnd
  <2> DEFINE c == FromRing(thread.toEnd)
  <2>0. /\ UNCHANGED <<area, adc, dropped>> /\ ~raced /\ thread.pc = "first"
        /\ adc.callback = "none"
    BY <1>1, <1>9 DEF PopsToTheEnd, Race
  <2>1. thread' = [thread EXCEPT !.pc = "second", !.chunk = c]
    BY <1>9 DEF PopsToTheEnd
  <2>2. /\ ring'.pop = 0 /\ ring'.stored = ring.stored /\ ring'.cells = ring.cells
        /\ ring'.cur = ring.cur
    BY <1>9, <1>t DEF PopsToTheEnd, RingTyped
  <2>3. SeamParts /\ Counting = RingSize /\ ring.pop = ring.cur
    BY <1>8, <2>0
  <2>4. thread.toEnd = RingSize - ring.pop /\ thread.toEnd \in Nat
    BY <1>t, <2>0, <2>3 DEF SeamParts, PopInv
  <2>5. Len(c) = thread.toEnd /\ \A k \in 1..thread.toEnd : c[k] = ring.cells[ring.pop + k - 1]
    <3>1. ring.pop + thread.toEnd <= RingSize
      BY <1>z, <2>4
    <3>. QED BY <1>t, <2>0, <2>4, <3>1, FromRingTyped
  <2> HIDE DEF c
  <2>6. /\ thread'.pc = "second" /\ thread'.chunk = c /\ thread'.toEnd = thread.toEnd
        /\ (thread'.fresh <=> thread.fresh) /\ (thread'.dropped <=> thread.dropped)
    BY <1>t, <2>1, ThreadNames
  <2>7. CellsInv'
    BY <1>c, <1>k, <2>0, <2>2, <2>3 DEF Counting
  <2>8. PopInv'
    BY <2>0, <2>2, <2>3, <2>4, <2>6 DEF SeamParts, PopInv, Popping
  <2>9. ChunkInv'
    <3>1. ASSUME NEW k \in 1..thread.toEnd
          PROVE  Precedes(c[k], RingSize - k + 1, adc.clock)
      <4> DEFINE i == ring.pop + k - 1
      <4>1. i \in 0..RingSize - 1 /\ k \in Int /\ i >= ring.cur /\ i - ring.cur = k - 1
        <5>1. k \in Int /\ k >= 1 /\ k <= RingSize - ring.pop
          BY <1>z, <2>4
        <5>2. ring.pop = ring.cur
          BY <2>3
        <5>. QED BY <1>z, <5>1, <5>2
      <4> HIDE DEF i
      <4>2. Place(i) = k - 1
        BY <1>t, <4>1, PlaceTyped
      <4>3. Place(i) >= RingSize - Counting /\ RingSize - Place(i) = RingSize - k + 1
        BY <1>t, <2>3, <4>1, <4>2
      <4>4. Precedes(ring.cells[i], RingSize - Place(i), adc.clock)
        BY <2>3, <4>1, <4>3 DEF SeamParts, CellsInv
      <4>. QED BY <2>5, <4>3, <4>4 DEF i
    <3>. QED BY <2>0, <2>5, <2>6, <3>1 DEF ChunkInv
  <2>10. FillInv'
    BY <2>0, <2>3, <2>6 DEF SeamParts, FillInv, Continues
  <2>. QED BY <2>7, <2>8, <2>9, <2>10 DEF SeamParts
<1>10. CASE PopsFromTheStart
  <2> DEFINE n == RingSize - thread.toEnd
             d == FromRing(n)
             c == thread.chunk \o d
             v == ring.stored - RingSize
  <2>0. /\ UNCHANGED <<area, adc, dropped>> /\ ~raced /\ thread.pc = "second"
        /\ adc.callback = "none" /\ Len(thread.chunk) = thread.toEnd
    BY <1>1, <1>10 DEF PopsFromTheStart, Race, CountInv
  <2>1. SeamParts /\ Counting = RingSize
    BY <1>8, <2>0
  <2>2. ring.pop = 0 /\ thread.toEnd = RingSize - ring.cur
    BY <2>0, <2>1 DEF SeamParts, PopInv
  <2>3. n = ring.cur /\ n \in Nat /\ ring.pop + n <= RingSize
    <3>1. n = RingSize - thread.toEnd
      OBVIOUS
    <3>. QED BY <1>z, <2>2, <3>1
  <2>4. /\ ring'.stored = ring.stored /\ ring'.cells = ring.cells /\ ring'.cur = ring.cur
        /\ ring'.pop = ring.cur
    <3>1. ring' = [ring EXCEPT !.pop = Limit(ring.pop + n, 0, RingSize)]
      BY <1>10 DEF PopsFromTheStart
    <3>2. Limit(ring.pop + n, 0, RingSize) = ring.cur
      <4>1. ring.pop + n = ring.cur
        <5> HIDE DEF n
        <5>. QED BY <1>z, <2>2, <2>3
      <4>. QED BY <1>z, <4>1 DEF Limit
    <3>. QED BY <1>t, <3>1, <3>2 DEF RingTyped
  <2>5. thread' = [thread EXCEPT !.pc = "store", !.toEnd = 0, !.chunk = c, !.value = v]
    BY <1>10 DEF PopsFromTheStart
  <2>6. d \in Seq(0..Ticks) /\ Len(d) = n /\ \A k \in 1..n : d[k] = ring.cells[ring.pop + k - 1]
    <3> HIDE DEF n
    <3>. QED BY <1>t, <2>0, <2>3, FromRingTyped
  <2> HIDE DEF d, n, v
  <2>7. /\ Len(c) = RingSize
        /\ \A k \in 1..RingSize :
             c[k] = IF k <= thread.toEnd THEN thread.chunk[k] ELSE d[k - thread.toEnd]
    <3>1. thread.toEnd + n = RingSize /\ thread.toEnd \in Nat /\ n \in Nat
      BY <1>z, <2>3 DEF n
    <3>2. thread.chunk \in Seq(0..Ticks) /\ d \in Seq(0..Ticks)
      BY <1>t, <2>6
    <3>3. /\ Len(c) = Len(thread.chunk) + Len(d)
          /\ \A k \in 1..Len(thread.chunk) + Len(d) :
               c[k] = IF k <= Len(thread.chunk) THEN thread.chunk[k] ELSE d[k - Len(thread.chunk)]
      BY <3>2, ConcatProperties
    <3>4. Len(thread.chunk) = thread.toEnd /\ Len(d) = n
      BY <2>0, <2>6
    <3> HIDE DEF c
    <3>. QED BY <3>1, <3>3, <3>4
  <2> HIDE DEF c
  <2>8. /\ thread'.pc = "store" /\ thread'.chunk = c
        /\ (thread'.fresh <=> thread.fresh) /\ (thread'.dropped <=> thread.dropped)
    BY <1>t, <2>5, ThreadNames
  <2>9. CellsInv'
    BY <1>c, <1>k, <2>0, <2>1, <2>4 DEF Counting
  <2>10. PopInv'
    <3>1. Counting' = RingSize
      BY <2>0, <2>1, <2>4 DEF Counting
    <3>2. ring'.pop < RingSize /\ (ring'.pop + Counting') % RingSize = ring'.cur
      BY <1>r, <1>z, <2>4, <3>1
    <3>. QED BY <2>0, <2>1, <2>8, <3>2 DEF SeamParts, PopInv, Popping
  <2>11. ChunkInv'
    <3>1. ASSUME NEW k \in 1..RingSize
          PROVE  Precedes(c[k], RingSize - k + 1, adc.clock)
      <4>1. CASE k <= thread.toEnd
        <5>1. c[k] = thread.chunk[k] /\ k \in 1..Len(thread.chunk)
          <6>1. k \in 1..thread.toEnd
            BY <1>z, <4>1
          <6>. QED BY <2>0, <2>7, <4>1, <6>1
        <5>. QED BY <2>0, <2>1, <5>1 DEF SeamParts, ChunkInv
      <4>2. CASE ~(k <= thread.toEnd)
        <5> DEFINE i == k - thread.toEnd - 1
        <5>1. /\ i \in 0..RingSize - 1 /\ i < ring.cur /\ k - thread.toEnd \in 1..n
              /\ i - ring.cur + RingSize = k - 1 /\ ring.pop + (k - thread.toEnd) - 1 = i
          <6>1. k \in Int /\ k <= RingSize /\ k > RingSize - ring.cur
            BY <1>z, <2>2, <4>2
          <6>2. n = ring.cur /\ ring.pop = 0 /\ thread.toEnd = RingSize - ring.cur
            BY <2>2, <2>3
          <6> HIDE DEF n
          <6>. QED BY <1>z, <6>1, <6>2
        <5>2. c[k] = ring.cells[i]
          BY <2>6, <2>7, <4>2, <5>1
        <5> HIDE DEF i
        <5>3. Place(i) = k - 1
          <6>1. ~(i >= ring.cur) /\ i \in 0..RingSize - 1
            BY <1>z, <5>1
          <6>2. Place(i) = i - ring.cur + RingSize
            BY <1>t, <6>1, PlaceTyped
          <6>. QED BY <5>1, <6>2
        <5>4. Place(i) >= RingSize - Counting /\ RingSize - Place(i) = RingSize - k + 1
          BY <1>t, <2>1, <5>3
        <5>5. Precedes(ring.cells[i], RingSize - Place(i), adc.clock)
          BY <2>1, <5>1, <5>4 DEF SeamParts, CellsInv
        <5>. QED BY <5>2, <5>4, <5>5
      <4>. QED BY <4>1, <4>2
    <3>. QED BY <2>0, <2>7, <2>8, <3>1 DEF ChunkInv
  <2>12. FillInv'
    BY <2>0, <2>1, <2>8 DEF SeamParts, FillInv, Continues
  <2>. QED BY <2>9, <2>10, <2>11, <2>12 DEF SeamParts
<1>11. CASE PopStores
  <2>0. /\ UNCHANGED <<area, adc, dropped>> /\ ~raced /\ thread.pc = "store"
        /\ adc.callback = "none" /\ thread.value = 0 /\ Len(thread.chunk) = RingSize
    BY <1>1, <1>11 DEF PopStores, Race, CountInv
  <2>1. SeamParts /\ Counting = RingSize /\ ring.pop = ring.cur
    BY <1>8, <2>0
  <2>2. ring'.stored = 0 /\ ring'.cells = ring.cells /\ ring'.cur = ring.cur /\ ring'.pop = ring.pop
    BY <1>11, <1>t, <2>0 DEF PopStores, RingTyped
  <2>3. Counting' = 0
    BY <2>0, <2>2 DEF Counting
  <2>4. /\ thread'.pc = "trigger" /\ thread'.chunk = thread.chunk
        /\ (thread'.fresh <=> thread.fresh) /\ (thread'.dropped <=> thread.dropped)
    BY <1>11, <1>t, ThreadNames DEF PopStores
  <2>5. CellsInv'
    BY <1>c, <1>k, <2>0, <2>1, <2>2, <2>3
  <2>6. PopInv'
    <3>1. ring'.pop < RingSize /\ (ring'.pop + Counting') % RingSize = ring'.cur
      BY <1>m, <1>z, <2>1, <2>2, <2>3
    <3>. QED BY <2>4, <3>1 DEF PopInv, Popping
  <2>7. \A k \in 1..RingSize :
          /\ Precedes(thread.chunk[k], RingSize - k + 1, adc.clock)
          /\ thread.chunk[k] \in 0..Ticks
    BY <2>0, <2>1, ChunkTyped DEF SeamParts, ChunkInv
  <2>8. ChunkInv'
    <3>1. ASSUME NEW k \in 2..RingSize PROVE Follows(thread.chunk[k - 1], thread.chunk[k])
      <4>1. k \in 1..RingSize /\ k - 1 \in 1..RingSize /\ RingSize - k + 1 \in Nat
            /\ RingSize - (k - 1) + 1 = (RingSize - k + 1) + 1
        BY <1>t
      <4>2. /\ Precedes(thread.chunk[k - 1], (RingSize - k + 1) + 1, adc.clock)
            /\ Precedes(thread.chunk[k], RingSize - k + 1, adc.clock)
            /\ thread.chunk[k - 1] \in 0..Ticks /\ thread.chunk[k] \in 0..Ticks
        <5>1. Precedes(thread.chunk[k - 1], RingSize - (k - 1) + 1, adc.clock)
          BY <2>7, <4>1
        <5>. QED BY <2>7, <4>1, <5>1
      <4>. QED BY <4>1, <4>2, PrecedesFollows
    <3>2. Precedes(thread.chunk[RingSize], 0 + 1, adc.clock)
      <4>1. RingSize \in 1..RingSize /\ RingSize - RingSize + 1 = 0 + 1
        BY <1>t
      <4>. QED BY <2>7, <4>1
    <3>. QED BY <2>0, <2>3, <2>4, <3>1, <3>2 DEF ChunkInv
  <2>9. FillInv'
    <3>1. ASSUME Continues, ~thread.dropped PROVE Follows(area.fill.last, thread.chunk[1])
      <4>1. Precedes(area.fill.last, RingSize + 1, adc.clock)
        BY <2>0, <2>1, <3>1 DEF SeamParts, FillInv
      <4>2. Precedes(thread.chunk[1], RingSize, adc.clock) /\ thread.chunk[1] \in 0..Ticks
        <5>1. 1 \in 1..RingSize /\ RingSize - 1 + 1 = RingSize
          BY <1>t
        <5>. QED BY <2>7, <5>1
      <4>. QED BY <1>t, <4>1, <4>2, LastTyped, PrecedesFollows
    <3>. QED BY <2>0, <2>4, <3>1 DEF FillInv, Continues
  <2>. QED BY <2>5, <2>6, <2>8, <2>9 DEF SeamParts
<1>12. ASSUME NEW above \in BOOLEAN, Trigger(above) PROVE SeamParts'
  <2> DEFINE next == IF above THEN "push" ELSE "loop"
             alone == above /\ app.trigger = "single"
             c == IF above THEN thread.chunk ELSE <<>>
  <2>0. /\ UNCHANGED <<area, ring, adc, dropped>> /\ ~raced /\ thread.pc = "trigger"
        /\ thread.based /\ ~thread.hit
        /\ thread' = [thread EXCEPT !.pc = next, !.hit = above, !.alone = alone, !.chunk = c]
    BY <1>1, <1>12 DEF Trigger
  <2> HIDE DEF alone, c
  <2>1. thread'.pc = next /\ thread'.chunk = c
        /\ (thread'.fresh <=> thread.fresh) /\ (thread'.dropped <=> thread.dropped)
    BY <1>t, <2>0, ThreadNames
  <2>2. CellsInv'
    BY <1>c, <1>k, <1>s, <2>0 DEF Counting
  <2>3. ~Continues
    BY <2>0 DEF TriggerInv, Continues, ViewInv, AreaInv, IsArea
  <2>4. PopInv'
    BY <1>s, <2>0, <2>1 DEF SeamParts, PopInv, Popping, Counting
  <2>5. ChunkInv'
    BY <1>s, <2>0, <2>1 DEF SeamParts, ChunkInv, Counting, c
  <2>6. FillInv'
    BY <2>0, <2>1, <2>3 DEF FillInv, Continues
  <2>. QED BY <2>2, <2>4, <2>5, <2>6 DEF SeamParts
<1>13. CASE NoTrigger \/ PushBegins
  <2>0. /\ UNCHANGED <<area, ring, adc, dropped>> /\ ~raced /\ thread.pc \in {"trigger", "push"}
    BY <1>1, <1>13 DEF NoTrigger, PushBegins
  <2>1. thread'.pc \in {"push", "copy"} /\ thread'.chunk = thread.chunk
        /\ (thread'.fresh <=> thread.fresh) /\ (thread'.dropped <=> thread.dropped)
    BY <1>13, <1>t, ThreadNames DEF NoTrigger, PushBegins, Goto
  <2>2. CellsInv'
    BY <1>c, <1>k, <1>s, <2>0 DEF Counting
  <2>3. PopInv' /\ ChunkInv' /\ FillInv'
    BY <1>s, <2>0, <2>1 DEF SeamParts, PopInv, Popping, ChunkInv, FillInv, Continues, Counting
  <2>. QED BY <2>2, <2>3 DEF SeamParts
<1>14. CASE PushCopies
  <2>0. /\ UNCHANGED <<ring, adc, dropped>> /\ ~raced /\ thread.pc = "copy"
    BY <1>1, <1>14 DEF PushCopies
  <2>1. thread'.pc \in {"view", "loop"}
    <3> DEFINE excuse == raced \/ thread.dropped \/ (thread.fresh /\ area.cur > 0)
               full == Full(PushBuffer(area, thread.chunk, excuse))
               next == IF full THEN "view" ELSE "loop"
               view == IF full THEN Round(area.left) ELSE 0
    <3>1. thread' = [thread EXCEPT !.pc = next, !.fresh = FALSE, !.chunk = <<>>, !.gen = 0,
                                   !.view = view]
      BY <1>14 DEF PushCopies
    <3> HIDE DEF full, view
    <3>. QED BY <1>t, <3>1, ThreadNames
  <2>2. CellsInv'
    BY <1>c, <1>k, <1>s, <2>0 DEF Counting
  <2>3. PopInv' /\ ChunkInv'
    BY <1>s, <2>0, <2>1 DEF SeamParts, PopInv, Popping, ChunkInv, Counting
  <2>4. FillInv'
    <3>1. CASE area'.cur = 0
      BY <3>1 DEF FillInv, Continues
    <3>2. CASE /\ thread'.pc = "loop"
               /\ ~area'.fill.excused => area'.fill.last = thread.chunk[Len(thread.chunk)]
      <4>1. Len(thread.chunk) = RingSize
        BY <2>0 DEF CountInv
      <4>2. ~dropped => Precedes(thread.chunk[RingSize], Counting + 1, adc.clock)
        BY <1>s, <2>0 DEF SeamParts, ChunkInv
      <4>. QED BY <2>0, <3>2, <4>1, <4>2 DEF FillInv, Continues, Counting
    <3>. QED BY <1>14, <3>1, <3>2, PushedView
  <2>. QED BY <2>2, <2>3, <2>4 DEF SeamParts
<1>15. CASE PushViews \/ \E late \in BOOLEAN : AfterPush(late)
  <2>0. /\ UNCHANGED <<ring, adc, dropped>> /\ ~raced /\ thread.pc \in {"view", "pushed"}
    <3>1. CASE PushViews
      BY <1>1, <3>1 DEF PushViews
    <3>2. CASE \E late \in BOOLEAN : AfterPush(late)
      BY <1>1, <3>2 DEF AfterPush
    <3>. QED BY <1>15, <3>1, <3>2
  <2>1. thread'.pc \in {"pushed", "loop", "pause"} /\ (thread'.fresh <=> thread.fresh)
    <3>1. CASE PushViews
      BY <1>t, <3>1, ThreadNames DEF PushViews, Goto
    <3>2. CASE \E late \in BOOLEAN : AfterPush(late)
      BY <1>t, <3>2, ThreadNames DEF AfterPush
    <3>. QED BY <1>15, <3>1, <3>2
  <2>2. area'.cur = area.cur
    BY <1>15, FieldNames DEF PushViews, AfterPush, ViewInv, AreaInv, IsArea
  <2>3. CellsInv'
    BY <1>c, <1>k, <1>s, <2>0 DEF Counting
  <2>4. PopInv' /\ ChunkInv'
    BY <1>s, <2>0, <2>1 DEF SeamParts, PopInv, Popping, ChunkInv, Counting
  <2>5. FillInv'
    BY <2>0, <2>1, <2>2 DEF TriggerInv, FillInv, Continues, ViewInv, AreaInv, IsArea
  <2>. QED BY <2>3, <2>4, <2>5 DEF SeamParts
<1>16. CASE UsesWindow
  BY <1>16, <1>f DEF UsesWindow
<1>17. CASE StopRecording /\ ~Fail("a_capture_not_started_was_stopped")
  <2>1. /\ thread'.pc = "stopped" /\ UNCHANGED ring /\ ~raced
        /\ adc'.clock = adc.clock /\ adc'.value = adc.value /\ adc'.callback = adc.callback
    BY <1>1, <1>17, <1>t, ThreadNames DEF StopRecording, Goto, AdcTyped
  <2>2. CellsInv'
    BY <1>c, <1>k, <1>s, <2>1 DEF Counting
  <2>. QED BY <1>i, <2>1, <2>2 DEF SeamParts
<1>18. CASE RecordingStopped
  <2>1. /\ thread'.pc = "done" /\ UNCHANGED <<ring, adc>> /\ ~raced
    BY <1>1, <1>18, NewThreads DEF RecordingStopped
  <2>2. CellsInv'
    BY <1>c, <1>k, <1>s, <2>1 DEF Counting
  <2>. QED BY <1>i, <2>1, <2>2 DEF SeamParts
<1>. QED BY <1>f, <1>2, <1>3, <1>4, <1>5, <1>6, <1>7, <1>9, <1>10, <1>11, <1>12, <1>13, <1>14,
            <1>15, <1>16, <1>17, <1>18
         DEF Recorder
LEMMA CallbackSeam ==
  ASSUME Typed, CountInv, ViewInv, SeamInv, Callback
  PROVE  SeamInv'
BY StoresSeam, CopiesSeam DEF Callback

-----------------------------------------------------------------------------
LEMMA RecorderEmpty ==
  ASSUME Typed, EmptyInv, Recorder
  PROVE  EmptyInv'
<1>t. DOMAIN thread = ThreadFields
  BY TypedParts DEF ThreadTyped
<1> DEFINE Kept == {"second", "store", "trigger", "push", "copy"}
<1>f. ASSUME NEW what, Fail(what) PROVE EmptyInv'
  BY <1>f DEF Fail, EmptyInv
<1>g. ASSUME NEW next, Goto(next), thread.pc \notin Kept PROVE EmptyInv'
  <2>1. thread'.chunk = thread.chunk
    BY <1>t, <1>g, ThreadNames DEF Goto
  <2>. QED BY <1>g, <2>1 DEF EmptyInv
<1>1. ASSUME NEW ok \in BOOLEAN, StartRecording(ok) PROVE EmptyInv'
  BY <1>1, <1>f, <1>g DEF StartRecording
<1>2. CASE Pause \/ Resume \/ ResumeClears \/ Loop \/ StopRecording
  <2>1. CASE Pause \/ Resume
    BY <1>g, <2>1 DEF Pause, Resume
  <2>2. CASE ResumeClears
    BY <1>g, <2>2 DEF ResumeClears
  <2>3. CASE Loop
    BY <1>g, <2>3 DEF Loop
  <2>4. CASE StopRecording
    BY <1>f, <1>g, <2>4 DEF StopRecording
  <2>. QED BY <1>2, <2>1, <2>2, <2>3, <2>4
<1>3. CASE ResumeRewinds
  <2> DEFINE based == IF thread.looked THEN thread.based ELSE ThresholdBased
  <2>1. thread' = [thread EXCEPT !.pc = "loop", !.looked = TRUE, !.based = based]
        /\ thread.pc = "rewind"
    BY <1>3 DEF ResumeRewinds
  <2> HIDE DEF based
  <2>2. thread'.chunk = thread.chunk
    BY <1>t, <2>1, ThreadNames
  <2>. QED BY <2>1, <2>2 DEF EmptyInv
<1>4. CASE PopBegins
  <2>1. thread'.chunk = thread.chunk /\ thread.pc = "wait"
    BY <1>4, <1>t, ThreadNames DEF PopBegins
  <2>. QED BY <2>1 DEF EmptyInv
<1>5. CASE PopsToTheEnd \/ PopsFromTheStart \/ PopStores \/ NoTrigger \/ PushBegins
  <2>1. thread'.pc \in Kept
    <3>1. CASE PopsToTheEnd
      BY <1>t, <3>1, ThreadNames DEF PopsToTheEnd
    <3>2. CASE PopsFromTheStart
      <4> DEFINE n == RingSize - thread.toEnd
                 c == thread.chunk \o FromRing(n)
                 v == ring.stored - RingSize
      <4>1. thread' = [thread EXCEPT !.pc = "store", !.toEnd = 0, !.chunk = c, !.value = v]
        BY <3>2 DEF PopsFromTheStart
      <4> HIDE DEF c, v
      <4>. QED BY <1>t, <4>1, ThreadNames
    <3>3. CASE PopStores
      BY <1>t, <3>3, ThreadNames DEF PopStores
    <3>4. CASE NoTrigger \/ PushBegins
      BY <1>t, <3>4, ThreadNames DEF NoTrigger, PushBegins, Goto
    <3>. QED BY <1>5, <3>1, <3>2, <3>3, <3>4
  <2>. QED BY <2>1 DEF EmptyInv
<1>6. ASSUME NEW above \in BOOLEAN, Trigger(above) PROVE EmptyInv'
  <2> DEFINE next == IF above THEN "push" ELSE "loop"
             alone == above /\ app.trigger = "single"
             c == IF above THEN thread.chunk ELSE <<>>
  <2>1. thread' = [thread EXCEPT !.pc = next, !.hit = above, !.alone = alone, !.chunk = c]
    BY <1>6 DEF Trigger
  <2> HIDE DEF alone, c
  <2>2. thread'.pc = next /\ thread'.chunk = c
    BY <1>t, <2>1, ThreadNames
  <2>. QED BY <2>2 DEF EmptyInv, c
<1>7. CASE PushCopies
  <2> DEFINE excuse == raced \/ thread.dropped \/ (thread.fresh /\ area.cur > 0)
             full == Full(PushBuffer(area, thread.chunk, excuse))
             next == IF full THEN "view" ELSE "loop"
             view == IF full THEN Round(area.left) ELSE 0
  <2>1. thread' = [thread EXCEPT !.pc = next, !.fresh = FALSE, !.chunk = <<>>, !.gen = 0,
                                 !.view = view]
    BY <1>7 DEF PushCopies
  <2> HIDE DEF full, view
  <2>2. thread'.chunk = <<>>
    BY <1>t, <2>1, ThreadNames
  <2>. QED BY <2>2 DEF EmptyInv
<1>8. CASE PushViews
  <2>1. thread'.chunk = thread.chunk /\ thread.pc = "view"
    BY <1>8, <1>t, ThreadNames DEF PushViews
  <2>. QED BY <2>1 DEF EmptyInv
<1>9. ASSUME NEW late \in BOOLEAN, AfterPush(late) PROVE EmptyInv'
  <2>1. thread'.chunk = thread.chunk /\ thread.pc = "pushed"
    BY <1>9, <1>t, ThreadNames DEF AfterPush
  <2>. QED BY <2>1 DEF EmptyInv
<1>10. CASE UsesWindow
  BY <1>10, <1>f DEF UsesWindow
<1>11. CASE RecordingStopped
  BY <1>11 DEF RecordingStopped, EmptyInv, NoThread
<1>. QED BY <1>1, <1>2, <1>3, <1>4, <1>5, <1>6, <1>7, <1>8, <1>9, <1>10, <1>11 DEF Recorder

LEMMA UserEmpty ==
  ASSUME Typed, ControlInv, ViewInv, EmptyInv, User
  PROVE  EmptyInv'
<1>1. CASE UNCHANGED thread
  BY <1>1 DEF EmptyInv
<1>2. CASE Replaced
  BY <1>2 DEF EmptyInv, Replaced, NoThread
<1>. QED BY <1>1, <1>2, UserInv

LEMMA CallbackEmpty ==
  ASSUME EmptyInv, Callback
  PROVE  EmptyInv'
BY DEF Callback, CallbackStores, CallbackCopies, CallbackKeeps, EmptyInv

-----------------------------------------------------------------------------
LEMMA ScopeInitTyped == ScopeInit => Typed /\ EmptyInv
<1> SUFFICES ASSUME ScopeInit PROVE Typed /\ EmptyInv
  OBVIOUS
<1>1. ThreadTyped(thread) /\ EmptyInv
  <2>1. thread = NoThread
    BY DEF ScopeInit
  <2>. QED BY <2>1, NewThreads DEF EmptyInv, NoThread
<1>2. AppTyped(app)
  BY SettingsAssumption DEF ScopeInit, AppTyped, AppFields
<1>3. BudgetTyped(budget)
  <2>1. budget \in [events : Nat, loads : Nat, starts : Nat, chunks : SUBSET (1..RingSize),
                    which : SUBSET {"graph", "preferences", "settings", "mouse", "modes"}]
    BY ChunksAssumption DEF ScopeInit
  <2>. QED BY <2>1 DEF BudgetTyped, BudgetFields
<1>4. MouseTyped
  BY DEF ScopeInit, MouseTyped, Modes
<1>5. AdcTyped
  BY DefaultsAssumption DEF ScopeInit, AdcTyped
<1>6. RingTyped
  <2> DEFINE empty == [i \in 0..RingSize - 1 |-> Ticks]
  <2>1. empty \in [0..RingSize - 1 -> 0..Ticks]
    BY DefaultsAssumption
  <2>2. 0 \in 0..RingSize - 1 /\ 0 \in 0..RingSize
    BY ChunksAssumption
  <2>3. ring = [cells |-> empty, cur |-> 0, pop |-> 0, stored |-> 0, paused |-> FALSE]
    BY DEF ScopeInit
  <2> HIDE DEF empty
  <2>. QED BY <2>1, <2>2, <2>3 DEF RingTyped
<1>7. FlagsTyped
  BY DEF ScopeInit, FlagsTyped
<1>. QED BY <1>1, <1>2, <1>3, <1>4, <1>5, <1>6, <1>7, TypedParts

(* The invariant holds at the start, and every step keeps it.              *)
LEMMA ScopeInitInv == ScopeInit => ScopeInv
<1> SUFFICES ASSUME ScopeInit PROVE ScopeInv
  OBVIOUS
<1>1. Typed /\ EmptyInv
  BY ScopeInitTyped
<1>2. AreaInv(area) /\ AreaSettled(area) /\ area.ini = Round(area.left) /\ area.cur = 0
  BY NewAreaInv DEF ScopeInit
<1>3. thread.pc = "none" /\ ~thread.based
  BY NewThreads DEF ScopeInit
<1>4. ControlInv
  <2>1. /\ app.window /\ ~app.killed /\ ~adc.on /\ adc.callback = "none" /\ ui = "start"
        /\ failed = "none"
    BY DEF ScopeInit
  <2>. QED BY <1>3, <2>1 DEF ControlInv, FailuresAreKnown
<1>5. ViewInv
  BY <1>2, <1>3 DEF ViewInv
<1>6. CountInv
  BY <1>3 DEF CountInv, ScopeInit
<1>7. TriggerInv
  BY <1>2, <1>3 DEF TriggerInv
<1>8. SeamInv
  <2>1. Counting = 0
    BY DEF Counting, ScopeInit
  <2>2. CellsInv
    <3>1. ASSUME NEW i \in 0..RingSize - 1 PROVE ~(Place(i) >= RingSize - Counting)
      <4>1. RingTyped /\ RingSize \in Nat \ {0}
        BY <1>1, TypedParts, ChunksAssumption
      <4>2. Place(i) \in 0..RingSize - 1
        BY <4>1, PlaceTyped
      <4>. QED BY <2>1, <4>1, <4>2
    <3>. QED BY <3>1 DEF CellsInv
  <2>. QED BY <1>2, <1>3, <2>2 DEF SeamInv, PopInv, Popping, ChunkInv, FillInv, Continues
<1>9. OnlyKnownOverreads
  BY DEF ScopeInit, OnlyKnownOverreads
<1>. QED BY <1>1, <1>4, <1>5, <1>6, <1>7, <1>8, <1>9 DEF ScopeInv

LEMMA ScopeStepInv == ScopeInv /\ [ScopeNext]_scopeVars => ScopeInv'
<1> SUFFICES ASSUME ScopeInv, [ScopeNext]_scopeVars PROVE ScopeInv'
  OBVIOUS
<1>0. /\ Typed /\ ControlInv /\ ViewInv /\ CountInv /\ TriggerInv /\ SeamInv /\ OnlyKnownOverreads
     /\ EmptyInv
  BY DEF ScopeInv
<1>1. CASE Callback
  <2>1. Typed' /\ ControlInv' /\ CountInv'
    BY <1>0, <1>1, CallbackTyped, CallbackControl, CallbackCount
  <2>2. ViewInv' /\ TriggerInv' /\ SeamInv' /\ OnlyKnownOverreads' /\ EmptyInv'
    BY <1>0, <1>1, CallbackView, CallbackTrigger, CallbackSeam, CallbackReads, CallbackEmpty
  <2>. QED BY <2>1, <2>2 DEF ScopeInv
<1>2. CASE Recorder
  <2>1. Typed' /\ ControlInv' /\ CountInv'
    BY <1>0, <1>2, RecorderTyped, RecorderControl, RecorderCount
  <2>2. ViewInv' /\ TriggerInv' /\ SeamInv' /\ OnlyKnownOverreads' /\ EmptyInv'
    BY <1>0, <1>2, RecorderView, RecorderTrigger, RecorderSeam, RecorderReads, RecorderEmpty
  <2>. QED BY <2>1, <2>2 DEF ScopeInv
<1>3. CASE User
  <2>1. Typed' /\ ControlInv' /\ CountInv'
    BY <1>0, <1>3, UserInv, UserCount
  <2>2. ViewInv' /\ TriggerInv' /\ SeamInv' /\ OnlyKnownOverreads' /\ EmptyInv'
    BY <1>0, <1>3, UserView, UserTrigger, UserSeam, UserReads, UserEmpty
  <2>. QED BY <2>1, <2>2 DEF ScopeInv
<1>4. CASE UNCHANGED scopeVars
  <2>1. Typed' /\ ControlInv' /\ ViewInv' /\ CountInv' /\ TriggerInv' /\ OnlyKnownOverreads'
        /\ EmptyInv'
    BY <1>0, <1>4 DEF scopeVars, Typed, ControlInv, FailuresAreKnown, ViewInv, CountInv, TriggerInv,
                      OnlyKnownOverreads, EmptyInv
  <2>2. SeamInv'
    BY <1>0, <1>4 DEF scopeVars, SeamInv, CellsInv, Place, Counting, PopInv, Popping, ChunkInv,
                      FillInv, Continues
  <2>. QED BY <2>1, <2>2 DEF ScopeInv
<1>. QED BY <1>1, <1>2, <1>3, <1>4 DEF ScopeNext

LEMMA ScopeInvariance == ScopeSpec => []ScopeInv
BY ScopeInitInv, ScopeStepInv, PTL DEF ScopeSpec

LEMMA ScopeInvTypes == ScopeInv => ScopeTypeOK
<1> SUFFICES ASSUME ScopeInv PROVE ScopeTypeOK
  OBVIOUS
<1>t. RingTyped /\ AdcTyped /\ MouseTyped /\ ThreadTyped(thread) /\ RingSize \in Nat
  BY TypedParts, ChunksAssumption DEF ScopeInv
<1>1. ring.cur \in 0..RingSize - 1 /\ ring.pop \in 0..RingSize /\ ring.stored \in 0..RingSize
      /\ \A i \in DOMAIN ring.cells : ring.cells[i] \in 0..Ticks
  BY <1>t DEF RingTyped
<1>2. adc.clock \in 0..Ticks - 1 /\ mouse.mode \in Modes
  BY <1>t DEF AdcTyped, MouseTyped
<1>3. Len(thread.chunk) <= 2 * RingSize
  <2>1. thread.pc \in {"second", "store", "trigger", "push", "copy"} =>
          Len(thread.chunk) \in 0..RingSize
    <3>1. RingSize \in 0..RingSize /\ thread.toEnd \in 0..RingSize
      BY <1>t DEF ThreadTyped
    <3>. QED BY <3>1 DEF ScopeInv, CountInv
  <2>2. thread.pc \notin {"second", "store", "trigger", "push", "copy"} => Len(thread.chunk) = 0
    <3>1. Len(<<>>) = 0
      OBVIOUS
    <3>. QED BY <3>1 DEF EmptyInv, ScopeInv
  <2>. QED BY <1>t, <2>1, <2>2
<1>4. area.ini >= 0 /\ area.cur \in 0..area.count
  <2>1. AreaInv(area)
    BY DEF ScopeInv, ViewInv
  <2>. QED BY <2>1 DEF AreaInv, IsArea
<1>. QED BY <1>1, <1>2, <1>3, <1>4 DEF ScopeTypeOK

(* The types: the positions stay inside the ring and the plot area         *)
(* (recorder_plc.cpp, plot_area.cpp).                                      *)
THEOREM ScopeTypes == ScopeSpec => []ScopeTypeOK
BY ScopeInvariance, ScopeInvTypes, PTL

(* Whatever the user does, in any number of steps and while it records,    *)
(* the viewer is inside the buffer when a handler returns, unless it was   *)
(* changed in the middle of an exchange of the buffers (move_viewer_x and  *)
(* swap_buffers of plot_area.cpp).                                         *)
THEOREM ViewerSafety == ScopeSpec => []ViewerInBuffer
<1>1. ScopeInv => ViewerInBuffer
  BY ViewedInside DEF ScopeInv, ViewerInBuffer
<1>. QED BY <1>1, ScopeInvariance, PTL

(* Nothing is read outside of its buffer but in the five known cases, for  *)
(* every size of the ring and every configuration (pop_recorded_buffer of  *)
(* recorder_plc.cpp; plot_area.cpp).                                       *)
THEOREM ReadsKnown == ScopeSpec => []OnlyKnownOverreads
<1>1. ScopeInv => OnlyKnownOverreads
  BY DEF ScopeInv
<1>. QED BY <1>1, ScopeInvariance, PTL

(* In every buffer that is drawn each sample follows the previous one,     *)
(* unless samples were dropped, the callback ran during a pop or a resume, *)
(* or a recording ended before it was full (recorder_plc.cpp, push_buffer  *)
(* of plot_area.cpp).                                                      *)
THEOREM SeamSafety == ScopeSpec => []SeamsAreKnown
<1>1. ScopeInv => SeamsAreKnown
  BY DEF ScopeInv, ViewInv, AreaInv, SeamsAreKnown
<1>. QED BY <1>1, ScopeInvariance, PTL

(* Only the known cases end in an assertion or in the use of a freed       *)
(* object, and a capture is never started twice (application.cpp,          *)
(* recorder_plc.cpp).                                                      *)
THEOREM ScopeFailures == ScopeSpec => []FailuresAreKnown
<1>1. ScopeInv => FailuresAreKnown
  BY DEF ScopeInv, ControlInv
<1>. QED BY <1>1, ScopeInvariance, PTL

(***************************************************************************)
(* The ring of the buffers to send (TxAsyncThread).                        *)
(***************************************************************************)
\* The filling thread lives from its creation to its join.
ThreadInv ==
  /\ ctl \in {"idle", "starting", "joining_flusher", "crashed"} => tx = "off"
  /\ ctl = "crashed" => flusher = "off"

\* Only the buffer under the filling thread is torn.
TornInv == \A b \in Buffers : content[b] = Torn => tx = "fill" /\ b = next_buffer_to_fill

\* The index of the buffer sent is outside of the buffers only between its
\* increment and its wrap, that of the buffer to fill goes no further than one
\* step from there before the next wait.
IndexInv ==
  /\ flusher = "wrap" => last_buffer_flushed \in 1..BuffersCount
  /\ flusher \notin {"wrap", "off"} => last_buffer_flushed \in Buffers
  /\ next_buffer_to_fill > BuffersCount => tx \in {"lock", "locked", "wait", "resync"}

\* The buffer whose transfer was the last to start, also while the index moves.
Latest ==
  IF flusher \in {"wrap", "start"}
  THEN (IF last_buffer_flushed = 0 THEN BuffersCount - 1 ELSE last_buffer_flushed - 1)
  ELSE last_buffer_flushed

Sending == flusher = "sending"
Between == flusher \in {"test", "signal", "wrap", "start"}
InTime == boosted /\ onTime > 0

\* Who may be where, and what the flag says there, when the filling thread is
\* boosted: the other one gets the core only while it waits or sleeps.  In time,
\* it does not read the index while that moves.
PlaceInv ==
  /\ ctl \in {"starting", "running", "joining_tx"} => ~sched_end_thread
  /\ blocked => tx \in {"fill", "report"}
  /\ boosted => /\ tx = "locked" => ~buffer_flushed
                /\ tx = "resync" => buffer_flushed
                /\ tx = "wait" /\ flusher # "signal" => ~buffer_flushed
  /\ InTime => /\ tx = "fill" => ~buffer_flushed
               /\ flusher \in {"wrap", "start", "sending"} =>
                    tx # "resync" /\ (tx = "lock" => ~buffer_flushed)

\* Between two transfers, the first of which ended in time, the boosted thread
\* fills no other buffer than the one just sent.
BehindInv ==
  InTime /\ Between /\ tx \in {"off", "born", "test", "fill", "report"}
  => next_buffer_to_fill = Latest

AsyncInv ==
  AsyncTypeOK /\ ThreadInv /\ IndexInv /\ PlaceInv /\ TornInv /\ BehindInv /\ NotTornInTime
-----------------------------------------------------------------------------
\* The next buffer is another one.
LEMMA NextIsOther ==
  ASSUME NEW b \in Buffers
  PROVE  NextBuffer(b) \in Buffers /\ NextBuffer(b) # b
BY TxAssumption DEF TxAssumption, Buffers, NextBuffer

LEMMA FillIndex ==
  ASSUME NEW b \in 0..(BuffersCount + 1)
  PROVE  NextBuffer(b) \in Nat /\ (b <= BuffersCount => NextBuffer(b) \in 0..(BuffersCount + 1))
BY TxAssumption DEF TxAssumption, NextBuffer

LEMMA NextGeneration ==
  ASSUME NEW g \in 0..(Gens - 1)
  PROVE  NextGen(g) \in 0..(Gens - 1)
BY TxAssumption DEF TxAssumption, NextGen

LEMMA InitEstablishes == AsyncInit => AsyncInv
<1> SUFFICES ASSUME AsyncInit PROVE AsyncInv
  OBVIOUS
<1>1. /\ boosted \in BOOLEAN /\ blocked \in BOOLEAN /\ end_thread \in BOOLEAN
      /\ sched_end_thread \in BOOLEAN /\ buffer_flushed \in BOOLEAN
  BY Zenon DEF AsyncInit
<1>2. /\ ctl = "idle" /\ tx = "off" /\ flusher = "off" /\ ~ blocked
      /\ next_buffer_to_fill = 0 /\ last_buffer_flushed = 0
      /\ content = [b \in Buffers |-> Nothing]
      /\ made = 0 /\ sent = Nothing /\ onTime = Settled
  BY Zenon DEF AsyncInit
<1>3. AsyncTypeOK
  BY <1>1, <1>2, TxAssumption
     DEF TxAssumption, AsyncTypeOK, Ctl, Tx, Flusher, Buffers, Nothing, Settled
<1> QED
  BY <1>2, <1>3, TxAssumption
     DEF TxAssumption, AsyncInv, ThreadInv, IndexInv, PlaceInv, TornInv, BehindInv, InTime,
         Between, Latest, NotTornInTime, Buffers, Nothing, Torn

LEMMA ClientPreserves == AsyncInv /\ Client /\ UNCHANGED boosted => AsyncInv'
<1> SUFFICES ASSUME AsyncInv, Client, UNCHANGED boosted PROVE AsyncInv'
  OBVIOUS
<1> USE TxAssumption DEF TxAssumption, AsyncInv, AsyncTypeOK, ThreadInv, IndexInv, PlaceInv,
        TornInv, BehindInv, InTime, Between, Latest, NotTornInTime, Ctl, Tx, Flusher, stopVars,
        shared
<1>1. CASE SchedStart
  <2>1. /\ next_buffer_to_fill' = BuffersCount - 1 /\ last_buffer_flushed' = BuffersCount - 1
        /\ BuffersCount - 1 \in Buffers /\ BuffersCount - 1 \in 0..(Gens - 1)
    BY <1>1 DEF SchedStart, Buffers
  <2>2. content' \in [Buffers -> -2..(Gens - 1)]
    BY <1>1 DEF SchedStart, Buffers
  <2>3. onTime' \in 0..Settled /\ sent' \in -2..(Gens - 1)
    BY <1>1 DEF SchedStart, Nothing, Settled
  <2>4. buffer_flushed' \in BOOLEAN /\ sched_end_thread' \in BOOLEAN
    BY <1>1, Zenon DEF SchedStart
  <2>5. tx = "off" /\ made' = BuffersCount - 1 /\ ctl' = "starting"
        /\ flusher' = "test" /\ UNCHANGED <<tx, blocked, end_thread>>
    BY <1>1 DEF SchedStart
  <2>6. AsyncTypeOK'
    BY <2>1, <2>2, <2>3, <2>4, <2>5
  <2>7. TornInv'
    BY <1>1 DEF SchedStart, Buffers, Torn
  <2>8. ~ sched_end_thread' /\ ~ buffer_flushed'
    BY <1>1 DEF SchedStart
  <2> QED
    BY <1>1, <2>1, <2>5, <2>6, <2>7, <2>8
<1>2. CASE CreateTxThread
  BY <1>2 DEF CreateTxThread
<1>3. CASE RequestStop
  BY <1>3 DEF RequestStop
<1>4. CASE SchedStop
  BY <1>4 DEF SchedStop
<1>5. CASE Stopped
  BY <1>5 DEF Stopped
<1> QED
  BY <1>1, <1>2, <1>3, <1>4, <1>5 DEF Client

LEMMA FlusherPreserves == AsyncInv /\ FlusherThread /\ UNCHANGED boosted => AsyncInv'
<1> SUFFICES ASSUME AsyncInv, FlusherThread, UNCHANGED boosted PROVE AsyncInv'
  OBVIOUS
<1> USE TxAssumption DEF TxAssumption, AsyncInv, AsyncTypeOK, ThreadInv, IndexInv, PlaceInv,
        TornInv, BehindInv, InTime, Between, Latest, NotTornInTime, Ctl, Tx, Flusher, stopVars,
        shared
<1>1. CASE FlushNext
  <2>1. /\ flusher = "test" /\ flusher' = "wrap"
        /\ last_buffer_flushed \in Buffers
        /\ last_buffer_flushed' = last_buffer_flushed + 1
        /\ boosted => blocked \/ tx \in {"off", "born", "wait"}
        /\ UNCHANGED <<ctl, tx, blocked, stopVars, next_buffer_to_fill, buffer_flushed,
                       content, made, sent, onTime>>
    BY <1>1 DEF FlushNext, Monopoly
  <2>2. last_buffer_flushed' \in 1..BuffersCount /\ Latest' = Latest
    BY <2>1 DEF Buffers
  <2> QED
    BY <2>1, <2>2
<1>5. CASE FlushWrap
  <2>1. /\ flusher = "wrap" /\ flusher' = "start"
        /\ last_buffer_flushed \in 1..BuffersCount
        /\ last_buffer_flushed' = IF last_buffer_flushed = BuffersCount THEN 0
                                  ELSE last_buffer_flushed
        /\ UNCHANGED <<ctl, tx, blocked, stopVars, next_buffer_to_fill, buffer_flushed,
                       content, made, sent, onTime>>
    BY <1>5 DEF FlushWrap
  <2>2. last_buffer_flushed' \in Buffers /\ Latest' = Latest
    BY <2>1 DEF Buffers
  <2> QED
    BY <2>1, <2>2 DEF Buffers
<1>6. CASE FlushStart
  <2>1. /\ flusher = "start" /\ flusher' = "sending"
        /\ sent' = content[last_buffer_flushed] /\ last_buffer_flushed \in Buffers
        /\ UNCHANGED <<ctl, tx, blocked, stopVars, shared, content, made, onTime>>
    BY <1>6 DEF FlushStart
  <2>2. sent' \in -2..(Gens - 1) /\ Latest # last_buffer_flushed
    BY <2>1 DEF Buffers
  <2>3. InTime => sent' # Torn
    BY <2>1, <2>2
  <2> QED
    BY <2>1, <2>2, <2>3
<1>2. CASE FlushEnds
  BY <1>2 DEF FlushEnds
<1>3. CASE FlushDone
  <2>1. /\ onTime' \in 0..Settled /\ (onTime' > 0 => tx = "wait")
        /\ boosted => blocked \/ tx \in {"off", "born", "wait"}
    BY <1>3 DEF FlushDone, Settled, Monopoly
  <2>2. /\ buffer_flushed' /\ flusher = "sending" /\ flusher' = "signal"
        /\ UNCHANGED <<ctl, tx, blocked, stopVars, next_buffer_to_fill, last_buffer_flushed,
                       content, made, sent>>
    BY <1>3 DEF FlushDone
  <2>3. buffer_flushed' \in BOOLEAN
    BY <1>3, Zenon DEF FlushDone
  <2>4. AsyncTypeOK'
    BY <2>1, <2>2, <2>3
  <2>5. PlaceInv'
    BY <2>1, <2>2
  <2> QED
    BY <2>1, <2>2, <2>4, <2>5
<1>4. CASE Signal
  BY <1>4 DEF Signal
<1> QED
  BY <1>1, <1>2, <1>3, <1>4, <1>5, <1>6 DEF FlusherThread

LEMMA TxThreadPreserves ==
  AsyncInv /\ (TxThread \/ Block \/ SpuriousWakeup \/ Crash) /\ UNCHANGED boosted => AsyncInv'
<1> SUFFICES ASSUME AsyncInv, TxThread \/ Block \/ SpuriousWakeup \/ Crash, UNCHANGED boosted
             PROVE  AsyncInv'
  OBVIOUS
<1> USE TxAssumption DEF TxAssumption, AsyncInv, AsyncTypeOK, ThreadInv, IndexInv, PlaceInv,
        TornInv, BehindInv, InTime, Between, Latest, NotTornInTime, Ctl, Tx, Flusher, stopVars,
        shared
<1>1. CASE Boost
  BY <1>1 DEF Boost
<1>2. CASE TxEnds
  BY <1>2 DEF TxEnds
<1>3. CASE FillBegin
  <2>1. content' \in [Buffers -> -2..(Gens - 1)]
    BY <1>3 DEF FillBegin, Contents, Torn
  <2>2. buffer_flushed' \in BOOLEAN /\ tx' = "fill"
        /\ content' = Contents(Torn)
        /\ tx = "test"
        /\ UNCHANGED <<ctl, blocked, flusher, stopVars, next_buffer_to_fill,
                       last_buffer_flushed, made, sent, onTime>>
    BY <1>3 DEF FillBegin
  <2>3. AsyncTypeOK'
    BY <2>1, <2>2
  <2>4. TornInv'
    BY <2>2 DEF Contents
  <2>5. ~ buffer_flushed'
    BY <1>3 DEF FillBegin
  <2> QED
    BY <2>2, <2>3, <2>4, <2>5
<1>4. CASE FillEnd
  <2>1. /\ tx = "fill" /\ tx' = "lock" /\ content' = Contents(made) /\ made' = NextGen(made)
        /\ next_buffer_to_fill' = NextBuffer(next_buffer_to_fill) /\ blocked' = FALSE
        /\ UNCHANGED <<ctl, flusher, stopVars, last_buffer_flushed, buffer_flushed, sent, onTime>>
    BY <1>4 DEF FillEnd
  <2>2. next_buffer_to_fill' \in 0..(BuffersCount + 1) /\ made' \in 0..(Gens - 1)
    BY <2>1, FillIndex, NextGeneration
  <2>3. content' \in [Buffers -> -2..(Gens - 1)]
    BY <2>1 DEF Contents
  <2>4. TornInv'
    BY <2>1 DEF Contents, Torn
  <2> QED
    BY <2>1, <2>2, <2>3, <2>4
<1>5. CASE WaitTest
  BY <1>5 DEF WaitTest
<1>6. CASE Wait
  BY <1>6 DEF Wait
<1>7. CASE Resync
  BY <1>7 DEF Resync
<1>8. CASE Report
  BY <1>8 DEF Report
<1>9. CASE Block
  BY <1>9 DEF Block
<1>10. CASE SpuriousWakeup
  BY <1>10 DEF SpuriousWakeup
<1>11. CASE Crash
  <2>1. /\ next_buffer_to_fill \notin Buffers /\ tx' = "off" /\ flusher' = "off"
        /\ ctl' = "crashed" /\ blocked' = FALSE /\ flusher' \notin {"wrap", "start"}
        /\ tx \in {"fill", "report"}
        /\ UNCHANGED <<stopVars, shared, content, made, sent, onTime>>
    BY <1>11 DEF Crash
  <2>2. AsyncTypeOK'
    BY <2>1
  <2>3. TornInv'
    BY <2>1 DEF Torn
  <2> QED
    BY <2>1, <2>2, <2>3
<1> QED
  BY <1>1, <1>2, <1>3, <1>4, <1>5, <1>6, <1>7, <1>8, <1>9, <1>10, <1>11 DEF TxThread

LEMMA AsyncInvariance == AsyncSpec => []AsyncInv
<1>1. AsyncInv /\ [AsyncNext]_asyncVars => AsyncInv'
  <2> SUFFICES ASSUME AsyncInv, [AsyncNext]_asyncVars PROVE AsyncInv'
    OBVIOUS
  <2>1. CASE UNCHANGED moving /\ UNCHANGED boosted
    BY <2>1 DEF moving, stopVars, shared, AsyncInv, AsyncTypeOK, ThreadInv,
                IndexInv, PlaceInv, TornInv, BehindInv, InTime, Between, Latest, NotTornInTime
  <2> QED
    BY <2>1, ClientPreserves, FlusherPreserves, TxThreadPreserves DEF AsyncNext, asyncVars, Crashed
<1> QED
  BY <1>1, InitEstablishes, PTL DEF AsyncSpec

(* The types: the index of the buffer sent is at most one step outside of  *)
(* the buffers, which it is between its increment and its wrap, and that of*)
(* the buffer to fill, which may be read then, at most two.                *)
THEOREM AsyncTypes == AsyncSpec => []AsyncTypeOK
<1>1. AsyncInv => AsyncTypeOK
  BY DEF AsyncInv
<1> QED
  BY <1>1, AsyncInvariance, PTL

(* With the priority, the transfer that follows one that ended in time is  *)
(* never of a buffer that is being filled, although the index of the buffer*)
(* sent moves in two steps and long before that transfer starts.           *)
THEOREM SentWhole == AsyncSpec => []NotTornInTime
<1>1. AsyncInv => NotTornInTime
  BY DEF AsyncInv
<1> QED
  BY <1>1, AsyncInvariance, PTL
-----------------------------------------------------------------------------
(* The order of the buffers.                                               *)

\* The thread has filled a buffer since the last transfer ended.
Filled == tx \in {"lock", "locked", "wait", "resync"} /\ ~buffer_flushed

\* How many fills ago buffer b was filled, if they went around the buffers,
\* and the generation of j fills ago.
Age(b) == IF b < next_buffer_to_fill THEN next_buffer_to_fill - b
                                     ELSE next_buffer_to_fill - b + BuffersCount
GenOf(j) == IF made >= j THEN made - j ELSE made - j + Gens

\* The buffer filled next is the one last sent, or the one after it.
PositionInv ==
  /\ InTime /\ Between =>
       /\ Filled => next_buffer_to_fill = NextBuffer(Latest)
       /\ ~Filled /\ onTime > 1 => next_buffer_to_fill = Latest
  /\ InTime /\ Sending =>
       last_buffer_flushed = IF Filled THEN next_buffer_to_fill
                                       ELSE NextBuffer(next_buffer_to_fill)

\* As many buffers as transfers were in time hold consecutive generations.
WindowInv ==
  InTime /\ (Between \/ Sending) =>
    \A b \in Buffers :
      (IF Filled THEN Age(b) <= onTime ELSE Age(b) < onTime /\ Age(b) < BuffersCount) =>
        content[b] = GenOf(Age(b))

\* What is sent is as old as the number of buffers makes it.
SentInv ==
  /\ boosted /\ Between /\ onTime = Settled =>
       NextGen(sent) = GenOf(IF Filled THEN BuffersCount ELSE BuffersCount - 1)
  /\ boosted /\ Sending /\ onTime >= BuffersCount =>
       NextGen(sent) = GenOf(IF Filled THEN BuffersCount - 1 ELSE BuffersCount - 2)

OrderInv == PositionInv /\ WindowInv /\ SentInv

\* The transfer that starts is of the buffer after the latest.
LEMMA StartsNext ==
  ASSUME AsyncInv
  PROVE  /\ flusher # "off" => Latest \in Buffers
         /\ flusher = "start" => last_buffer_flushed = NextBuffer(Latest)
         /\ flusher \in {"wrap", "start"} => ~ Sending
         /\ flusher \in {"test", "signal"} => Latest = last_buffer_flushed
BY TxAssumption
   DEF TxAssumption, AsyncInv, AsyncTypeOK, IndexInv, Latest, Buffers, NextBuffer, Sending

\* Around the buffers: the next to be filled is the oldest.
LEMMA Ages ==
  ASSUME NEW n \in Buffers, next_buffer_to_fill = n
  PROVE  /\ \A b \in Buffers : Age(b) \in 1..BuffersCount
         /\ Age(n) = BuffersCount
         /\ \A b \in Buffers : b # n => Age(b) < BuffersCount
         /\ Age(NextBuffer(n)) = BuffersCount - 1
BY TxAssumption DEF TxAssumption, Age, Buffers, NextBuffer

LEMMA AgesAfterFill ==
  ASSUME NEW n \in Buffers, next_buffer_to_fill = n, next_buffer_to_fill' = NextBuffer(n)
  PROVE  /\ Age(n)' = 1
         /\ \A b \in Buffers : b # n => Age(b)' = Age(b) + 1
BY TxAssumption DEF TxAssumption, Age, Buffers, NextBuffer

LEMMA Generations ==
  ASSUME made \in 0..(Gens - 1), NEW j \in 1..BuffersCount
  PROVE  /\ GenOf(j) \in 0..(Gens - 1)
         /\ NextGen(GenOf(j)) = GenOf(j - 1)
BY TxAssumption DEF TxAssumption, GenOf, NextGen

LEMMA GenerationsAfterFill ==
  ASSUME made \in 0..(Gens - 1), made' = NextGen(made), NEW j \in 0..BuffersCount
  PROVE  GenOf(j + 1)' = GenOf(j)
BY TxAssumption DEF TxAssumption, GenOf, NextGen

\* A step that moves no buffer, and no thread across a fill or a transfer.
LEMMA NothingMoved ==
  ASSUME OrderInv, Filled' <=> Filled, Latest' = Latest,
         Between' => Between, Sending' => Sending /\ last_buffer_flushed' = last_buffer_flushed,
         UNCHANGED <<boosted, onTime, next_buffer_to_fill, content, made, sent>>
  PROVE  OrderInv'
<1>1. PositionInv'
  BY DEF OrderInv, PositionInv, InTime
<1>2. WindowInv'
  BY DEF OrderInv, WindowInv, InTime, Age, GenOf
<1>3. SentInv'
  BY DEF OrderInv, SentInv, GenOf
<1> QED
  BY <1>1, <1>2, <1>3 DEF OrderInv

LEMMA ClientOrders == AsyncInv /\ OrderInv /\ Client /\ UNCHANGED boosted => OrderInv'
<1> SUFFICES ASSUME AsyncInv, OrderInv, Client, UNCHANGED boosted PROVE OrderInv'
  OBVIOUS
<1> USE DEF InTime, Between, Sending, Filled, Latest, AsyncInv, AsyncTypeOK, ThreadInv,
            stopVars, shared
<1>1. CASE SchedStart
  <2>1. /\ next_buffer_to_fill' = BuffersCount - 1 /\ last_buffer_flushed' = BuffersCount - 1
        /\ content' = [b \in Buffers |-> IF b < BuffersCount - 1 THEN b ELSE content[b]]
        /\ made' = BuffersCount - 1 /\ sent' = Nothing /\ onTime' = Settled
        /\ ctl' = "starting" /\ tx = "off" /\ flusher' = "test" /\ UNCHANGED <<tx, blocked>>
    BY <1>1 DEF SchedStart
  <2>4. PositionInv'
    BY <2>1 DEF PositionInv
  <2>5. WindowInv'
    BY <2>1, TxAssumption DEF TxAssumption, WindowInv, Age, GenOf, Buffers
  <2>6. SentInv'
    BY <2>1, TxAssumption DEF TxAssumption, SentInv, GenOf, NextGen, Nothing
  <2> QED
    BY <2>4, <2>5, <2>6 DEF OrderInv
<1>2. CASE CreateTxThread
  BY <1>2, NothingMoved DEF CreateTxThread
<1>3. CASE RequestStop
  BY <1>3, NothingMoved DEF RequestStop
<1>4. CASE SchedStop
  BY <1>4, NothingMoved DEF SchedStop
<1>5. CASE Stopped
  BY <1>5, NothingMoved DEF Stopped
<1> QED
  BY <1>1, <1>2, <1>3, <1>4, <1>5 DEF Client

LEMMA FlusherOrders == AsyncInv /\ OrderInv /\ FlusherThread /\ UNCHANGED boosted => OrderInv'
<1> SUFFICES ASSUME AsyncInv, OrderInv, FlusherThread, UNCHANGED boosted PROVE OrderInv'
  OBVIOUS
<1> USE DEF AsyncInv, AsyncTypeOK, stopVars, shared
<1>5. CASE FlushNext
  <2>1. Latest' = Latest
    BY <1>5, TxAssumption DEF TxAssumption, FlushNext, Latest, IndexInv, Buffers
  <2> QED
    BY <1>5, <2>1, NothingMoved DEF FlushNext, Between, Sending, Filled
<1>6. CASE FlushWrap
  <2>1. Latest' = Latest
    BY <1>6, TxAssumption DEF TxAssumption, FlushWrap, Latest, IndexInv, Buffers
  <2> QED
    BY <1>6, <2>1, NothingMoved DEF FlushWrap, Between, Sending, Filled
<1>1. CASE FlushStart
  <2>1. /\ last_buffer_flushed = NextBuffer(Latest) /\ Latest \in Buffers
        /\ sent' = content[last_buffer_flushed] /\ flusher = "start" /\ flusher' = "sending"
        /\ UNCHANGED <<boosted, ctl, tx, blocked, stopVars, shared, content, made, onTime>>
    BY <1>1, StartsNext DEF FlushStart
  <2>2. Latest' = last_buffer_flushed /\ last_buffer_flushed \in Buffers
    BY <2>1 DEF Latest, IndexInv
  <2>4. Filled' <=> Filled
    BY <2>1 DEF Filled
  <2>5. InTime /\ ~Filled => next_buffer_to_fill = Latest
    BY <1>1, <2>1 DEF FlushStart, Monopoly, PlaceInv, InTime, Filled, BehindInv, Between
  <2>6. InTime /\ Filled => next_buffer_to_fill = last_buffer_flushed
    BY <2>1 DEF OrderInv, PositionInv, Between
  <2>7. PositionInv'
    BY <2>1, <2>2, <2>4, <2>5, <2>6 DEF PositionInv, InTime, Between, Sending
  <2>8. WindowInv'
    BY <2>1, <2>4 DEF OrderInv, WindowInv, InTime, Between, Age, GenOf
  <2>9. ASSUME InTime, onTime >= BuffersCount
        PROVE  NextGen(sent') = GenOf(IF Filled THEN BuffersCount - 1 ELSE BuffersCount - 2)
    <3>1. CASE Filled
      <4>1. Age(last_buffer_flushed) = BuffersCount
        BY <2>2, <2>6, <2>9, <3>1, Ages
      <4>2. last_buffer_flushed \in Buffers
        BY <2>2
      <4>3. sent' = GenOf(BuffersCount)
        BY <2>1, <2>9, <3>1, <4>1, <4>2 DEF OrderInv, WindowInv, Between
      <4> QED
        BY <3>1, <4>3, Generations, TxAssumption DEF TxAssumption
    <3>2. CASE ~Filled
      <4>1. Age(last_buffer_flushed) = BuffersCount - 1
        BY <2>1, <2>5, <2>9, <3>2, Ages
      <4>2. last_buffer_flushed \in Buffers
        BY <2>2
      <4>3. sent' = GenOf(BuffersCount - 1)
        BY <2>1, <2>9, <3>2, <4>1, <4>2, TxAssumption
           DEF TxAssumption, OrderInv, WindowInv, Between
      <4> QED
        BY <3>2, <4>3, Generations, TxAssumption DEF TxAssumption
    <3> QED
      BY <3>1, <3>2
  <2>10. SentInv'
    BY <2>1, <2>4, <2>9, TxAssumption
       DEF TxAssumption, SentInv, InTime, Between, Sending, GenOf
  <2> QED
    BY <2>7, <2>8, <2>10 DEF OrderInv
<1>2. CASE FlushEnds
  BY <1>2, NothingMoved
     DEF FlushEnds, Between, Sending, Filled, Latest
<1>3. CASE FlushDone
  <2>1. /\ flusher = "sending" /\ flusher' = "signal" /\ buffer_flushed'
        /\ UNCHANGED <<boosted, ctl, tx, blocked, stopVars, next_buffer_to_fill,
                       last_buffer_flushed, content, made, sent>>
    BY <1>3 DEF FlushDone
  <2>2. /\ onTime' > 0 => tx = "wait" /\ onTime' \in {onTime, onTime + 1}
        /\ onTime' = onTime => onTime \in {0, Settled}
    BY <1>3, TxAssumption DEF TxAssumption, FlushDone, Settled
  <2>3. boosted => blocked \/ tx \in {"off", "born", "wait"}
    BY <1>3 DEF FlushDone, Monopoly
  <2>5. ~Filled' /\ Between' /\ ~Sending'
    BY <2>1 DEF Filled, Between, Sending
  <2>6. InTime' => Filled
    BY <2>1, <2>2 DEF PlaceInv, InTime, Filled
  <2>7. PositionInv'
    BY <2>1, <2>2, <2>5, <2>6 DEF OrderInv, PositionInv, InTime, Sending, Latest
  <2>8. ASSUME InTime', NEW b \in Buffers, Age(b) < onTime', Age(b) < BuffersCount
        PROVE  content[b] = GenOf(Age(b))
    <3>1. Age(b) \in Nat \ {0}
      BY TxAssumption DEF TxAssumption, Age, Buffers
    <3>2. onTime > 0 /\ Age(b) <= onTime
      BY <2>2, <2>8, <3>1 DEF InTime, Settled
    <3> QED
      BY <2>1, <2>6, <2>8, <3>2 DEF OrderInv, WindowInv, InTime, Sending
  <2>9. WindowInv'
    BY <2>1, <2>5, <2>8 DEF WindowInv, Age, GenOf
  <2>10. SentInv'
    BY <2>1, <2>2, <2>5, <2>6, TxAssumption
       DEF TxAssumption, OrderInv, SentInv, InTime, Sending, Settled, GenOf
  <2> QED
    BY <2>7, <2>9, <2>10 DEF OrderInv
<1>4. CASE Signal
  BY <1>4, NothingMoved
     DEF Signal, Between, Sending, Filled, Latest
<1> QED
  BY <1>1, <1>2, <1>3, <1>4, <1>5, <1>6 DEF FlusherThread

LEMMA TxThreadOrders ==
  AsyncInv /\ OrderInv /\ (TxThread \/ Block \/ SpuriousWakeup \/ Crash) /\ UNCHANGED boosted
    => OrderInv'
<1> SUFFICES ASSUME AsyncInv, OrderInv, TxThread \/ Block \/ SpuriousWakeup \/ Crash,
                    UNCHANGED boosted
             PROVE  OrderInv'
  OBVIOUS
<1> USE DEF AsyncInv, AsyncTypeOK, ThreadInv, Ctl, stopVars, shared
<1>1. CASE Boost
  BY <1>1, NothingMoved DEF Boost, Between, Sending, Filled, Latest
<1>2. CASE TxEnds
  BY <1>2, NothingMoved DEF TxEnds, Between, Sending, Filled, Latest
<1>3. CASE FillBegin
  <2>1. /\ tx = "test" /\ tx' = "fill" /\ ~buffer_flushed'
        /\ content' = Contents(Torn)
        /\ UNCHANGED <<boosted, ctl, blocked, flusher, stopVars, next_buffer_to_fill,
                       last_buffer_flushed, made, sent, onTime>>
    BY <1>3 DEF FillBegin
  <2>3. ~Filled /\ ~Filled'
    BY <2>1 DEF Filled
  <2>4. PositionInv'
    BY <2>1, <2>3 DEF OrderInv, PositionInv, InTime, Between, Sending, Latest
  <2>5. \A b \in Buffers : Age(b) < BuffersCount => content'[b] = content[b]
    BY <2>1, Ages DEF Contents
  <2>6. WindowInv'
    BY <2>1, <2>3, <2>5 DEF OrderInv, WindowInv, InTime, Between, Sending, Age, GenOf
  <2>7. SentInv'
    BY <2>1, <2>3 DEF OrderInv, SentInv, Between, Sending, GenOf
  <2> QED
    BY <2>4, <2>6, <2>7 DEF OrderInv
<1>4. CASE FillEnd
  <2>1. /\ tx = "fill" /\ tx' = "lock" /\ blocked' = FALSE
        /\ content' = Contents(made)
        /\ made' = NextGen(made)
        /\ next_buffer_to_fill' = NextBuffer(next_buffer_to_fill)
        /\ UNCHANGED <<boosted, ctl, flusher, stopVars, last_buffer_flushed, buffer_flushed,
                       sent, onTime>>
    BY <1>4 DEF FillEnd
  <2>3. ~Filled /\ (InTime => Filled')
    BY <2>1 DEF PlaceInv, InTime, Filled
  <2>4. InTime /\ Between => next_buffer_to_fill = Latest
    BY <2>1 DEF InTime, Between, BehindInv
  <2>2. InTime /\ (Between \/ Sending) => next_buffer_to_fill \in Buffers
    <3>1. InTime /\ Sending => NextBuffer(next_buffer_to_fill) \in Buffers
      BY <2>3 DEF OrderInv, PositionInv, IndexInv, Sending
    <3>2. NextBuffer(next_buffer_to_fill) \in Buffers => next_buffer_to_fill \in Buffers
      BY TxAssumption DEF TxAssumption, Buffers, NextBuffer
    <3> QED
      BY <2>4, <3>1, <3>2, StartsNext DEF Between
  <2>12. Latest' = Latest
    BY <2>1 DEF Latest
  <2>5. PositionInv'
    BY <2>1, <2>3, <2>4, <2>12 DEF OrderInv, PositionInv, InTime, Between, Sending
  <2>6. \A j \in 0..BuffersCount : GenOf(j + 1)' = GenOf(j)
    BY <2>1, GenerationsAfterFill
  <2>7. ASSUME InTime, Between \/ Sending, NEW b \in Buffers, Age(b)' <= onTime
        PROVE  content'[b] = GenOf(Age(b))'
    <3>1. CASE b = next_buffer_to_fill
      <4>1. Age(b)' = 1
        BY <2>1, <3>1, AgesAfterFill
      <4>2. content'[b] = GenOf(0)
        BY <2>1, <3>1 DEF GenOf, Contents
      <4>3. GenOf(1)' = GenOf(0)
        BY <2>6, TxAssumption DEF TxAssumption
      <4> QED
        BY <4>1, <4>2, <4>3
    <3>2. CASE b # next_buffer_to_fill
      <4>1. Age(b)' = Age(b) + 1
        BY <2>1, <2>2, <2>7, <3>2, AgesAfterFill
      <4>2. Age(b) \in 1..BuffersCount /\ Age(b) < BuffersCount
        BY <2>2, <2>7, <3>2, Ages
      <4>3. content'[b] = GenOf(Age(b))
        BY <2>1, <2>3, <2>7, <3>2, <4>1, <4>2 DEF OrderInv, WindowInv, Contents
      <4> QED
        BY <2>6, <4>1, <4>2, <4>3
    <3> QED
      BY <3>1, <3>2
  <2>8. WindowInv'
    BY <2>1, <2>3, <2>7 DEF WindowInv, InTime, Between, Sending
  <2>9. GenOf(BuffersCount)' = GenOf(BuffersCount - 1)
    BY <2>6, TxAssumption DEF TxAssumption
  <2>10. GenOf(BuffersCount - 1)' = GenOf(BuffersCount - 2)
    BY <2>6, TxAssumption DEF TxAssumption
  <2>11. SentInv'
    BY <2>1, <2>3, <2>9, <2>10, TxAssumption
       DEF TxAssumption, OrderInv, SentInv, InTime, Between, Sending, Settled
  <2> QED
    BY <2>5, <2>8, <2>11 DEF OrderInv
<1>5. CASE WaitTest
  BY <1>5, NothingMoved DEF WaitTest, Between, Sending, Filled, Latest
<1>6. CASE Wait
  BY <1>6, NothingMoved DEF Wait, Between, Sending, Filled, Latest
<1>7. CASE Resync
  <2>1. /\ tx = "resync" /\ tx' = "report" /\ next_buffer_to_fill' = last_buffer_flushed
        /\ UNCHANGED <<boosted, ctl, blocked, flusher, stopVars, last_buffer_flushed,
                       buffer_flushed, content, made, sent, onTime>>
    BY <1>7 DEF Resync
  <2>3. ~Filled' /\ (boosted => ~Filled)
    BY <2>1 DEF PlaceInv, Filled
  <2>5. ~(InTime /\ Sending)
    BY <2>1 DEF PlaceInv, InTime, Sending
  <2>10. InTime /\ Between => Latest = last_buffer_flushed /\ last_buffer_flushed \in Buffers
    BY <2>1, StartsNext DEF PlaceInv, InTime, Between
  <2>11. Latest' = Latest
    BY <2>1 DEF Latest
  <2>4. InTime /\ onTime > 1 /\ Between => next_buffer_to_fill' = next_buffer_to_fill
    BY <2>1, <2>3, <2>10 DEF OrderInv, PositionInv, InTime
  <2>6. PositionInv'
    BY <2>1, <2>3, <2>5, <2>10, <2>11 DEF PositionInv, InTime, Between, Sending
  <2>7. ASSUME InTime, Between, NEW b \in Buffers, Age(b)' < onTime, Age(b)' < BuffersCount
        PROVE  content[b] = GenOf(Age(b))'
    <3>1. Age(b)' \in 1..BuffersCount
      BY <2>1, <2>7, <2>10, TxAssumption DEF TxAssumption, Age, Buffers
    <3>2. onTime > 1
      BY <2>7, <3>1, TxAssumption DEF TxAssumption, Settled
    <3>3. Age(b)' = Age(b)
      BY <2>4, <2>7, <3>2 DEF Age
    <3>4. content[b] = GenOf(Age(b))
      BY <2>3, <2>7, <3>3 DEF OrderInv, WindowInv, InTime
    <3> QED
      BY <2>1, <3>3, <3>4 DEF GenOf
  <2>8. WindowInv'
    BY <2>1, <2>3, <2>5, <2>7 DEF WindowInv, InTime, Between, Sending
  <2>9. SentInv'
    BY <2>1, <2>3, <2>5, TxAssumption
       DEF TxAssumption, OrderInv, SentInv, InTime, Between, Sending, Settled, GenOf
  <2> QED
    BY <2>6, <2>8, <2>9 DEF OrderInv
<1>8. CASE Report
  BY <1>8, NothingMoved DEF Report, Between, Sending, Filled, Latest
<1>9. CASE Block
  BY <1>9, NothingMoved DEF Block, Between, Sending, Filled, Latest
<1>10. CASE SpuriousWakeup
  BY <1>10, NothingMoved DEF SpuriousWakeup, Between, Sending, Filled, Latest
<1>11. CASE Crash
  BY <1>11 DEF Crash, OrderInv, PositionInv, WindowInv, SentInv, Between, Sending
<1> QED
  BY <1>1, <1>2, <1>3, <1>4, <1>5, <1>6, <1>7, <1>8, <1>9, <1>10, <1>11 DEF TxThread

(* The buffers are sent in the order in which they were filled, none lost  *)
(* or repeated, whatever their number, from the start on and again once a  *)
(* late spell of the boosted thread is over.                               *)
THEOREM OrderKept == AsyncSpec => SentInTurn
<1>1. AsyncInit => OrderInv
  BY Zenon DEF AsyncInit, OrderInv, PositionInv, WindowInv, SentInv, InTime, Between,
               Sending
<1>2. AsyncInv /\ OrderInv /\ [AsyncNext]_asyncVars => OrderInv'
  <2> SUFFICES ASSUME AsyncInv, OrderInv, [AsyncNext]_asyncVars PROVE OrderInv'
    OBVIOUS
  <2>1. CASE UNCHANGED moving /\ UNCHANGED boosted
    BY <2>1, NothingMoved
       DEF moving, stopVars, shared, Between, Sending, Filled, Latest
  <2> QED
    BY <2>1, ClientOrders, FlusherOrders, TxThreadOrders DEF AsyncNext, asyncVars, Crashed
<1>3. AsyncInv /\ OrderInv => (boosted /\ onTime = Settled /\ FlushStart => sent' = NextGen(sent))
  <2> SUFFICES ASSUME AsyncInv, OrderInv, boosted, onTime = Settled, FlushStart
               PROVE  sent' = NextGen(sent)
    OBVIOUS
  <2> USE TxAssumption DEF TxAssumption, AsyncInv, AsyncTypeOK
  <2>1. /\ last_buffer_flushed = NextBuffer(Latest)
        /\ sent' = content[last_buffer_flushed] /\ Between /\ InTime
    BY StartsNext DEF FlushStart, Between, InTime, Settled
  <2>2. last_buffer_flushed \in Buffers /\ Latest \in Buffers
    BY StartsNext DEF FlushStart, IndexInv
  <2>3. CASE Filled
    <3>1. Age(last_buffer_flushed) = BuffersCount
      BY <2>1, <2>2, <2>3, Ages DEF OrderInv, PositionInv
    <3> QED
      BY <2>1, <2>2, <2>3, <3>1 DEF OrderInv, WindowInv, SentInv, Settled
  <2>4. CASE ~Filled
    <3>1. Age(last_buffer_flushed) = BuffersCount - 1
      BY <2>1, <2>2, <2>4, Ages DEF OrderInv, PositionInv, Settled
    <3> QED
      BY <2>1, <2>2, <2>4, <3>1 DEF OrderInv, WindowInv, SentInv, Settled
  <2> QED
    BY <2>3, <2>4
<1> QED
  BY <1>1, <1>2, <1>3, AsyncInvariance, PTL DEF AsyncSpec, SentInTurn
=============================================================================
