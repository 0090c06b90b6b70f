------------------------------ MODULE AdcRing ------------------------------
(***************************************************************************)
(* The continuous capture of drivers/adc/adc_hs.c: the interrupt handler   *)
(* tiadc_irq drains the ADC's FIFO1 into the ring dma_samples, and         *)
(* adchs_read copies from the ring to the capture thread of the client,    *)
(* without a lock.  The ring is addressed by two pointers, kept here as    *)
(* offsets from dma_samples: 0 is dma_samples and N is dma_samples_end.    *)
(*                                                                         *)
(* A sample is represented by its position in the capture (0 for the first *)
(* one drained after the start), so that order and loss can be stated.     *)
(*                                                                         *)
(* The AM335x has one core: the handler runs to completion before the      *)
(* reader moves on, but it may run between any two words that the reader   *)
(* copies.  One client thread issues the ioctls and the reads, as          *)
(* adc_thread_capture_samples does, so no capture is stopped during a read.*)
(***************************************************************************)
EXTENDS Integers, Sequences

CONSTANTS
  N,           \* DMA_SAMPLES_COUNT, the words of the ring
  Depth,       \* words of the hardware FIFO1
  Threshold,   \* FIFO1_THRESHOLD, the fill level that raises the interrupt
  MaxCount,    \* bound: samples asked for by one read
  MaxSamples   \* bound: samples converted in one capture

ASSUME RingAssumption ==
  /\ N \in Nat /\ N > 1
  /\ Depth \in Nat \ {0}
  /\ Threshold \in 1..Depth
  /\ MaxCount \in Nat \ {0}
  /\ MaxSamples \in Nat

VARIABLES
  fifo,                        \* words in FIFO1
  overrun,                     \* IRQENB_FIFO1OVRRUN of REG_IRQSTATUS
  fifo1count,                  \* words the running handler still has to drain
  dma_samples,                 \* the ring
  dma_samples_cur_write,
  dma_samples_cur_read,
  data_avail,
  continuous_transfer_started,
  pc,                          \* where the client thread is, in or out of adchs_read
  samples_count,               \* samples requested by the read in progress
  samples_to_read,             \* words to copy from the read pointer on
  samples_to_read_after_overflow,
  wrapped,                     \* outcome of the test of line 866
  copied,                      \* words the read in progress has copied
  out,                         \* history: the samples copied to the client
  produced,                    \* history: samples drained in this capture
  reported,                    \* history: the "Read underflow!" test succeeded
  lapped                       \* history: N samples were waiting in the ring

hwVars == <<fifo, overrun, fifo1count>>
ringVars == <<dma_samples, dma_samples_cur_write, produced, reported, lapped>>
readVars == <<samples_count, samples_to_read, samples_to_read_after_overflow,
              wrapped, copied, out>>
vars == <<hwVars, ringVars, readVars, dma_samples_cur_read, data_avail,
          continuous_transfer_started, pc>>

\* A word written before this capture started.
Stale == -1

Pc == {"user", "wait", "snapshot", "copy"}

Lesser(a, b) == IF a < b THEN a ELSE b

\* Samples whose room in the ring has been given back by a finished read.
Consumed == Len(out) - copied

Total == samples_to_read + samples_to_read_after_overflow
-----------------------------------------------------------------------------
Init ==
  /\ fifo = 0
  /\ overrun = FALSE
  /\ fifo1count = 0
  /\ dma_samples = [i \in 0..(N - 1) |-> Stale]
  /\ dma_samples_cur_write = 0
  /\ dma_samples_cur_read = 0
  /\ data_avail = FALSE
  /\ continuous_transfer_started = FALSE
  /\ pc = "user"
  /\ samples_count = 0
  /\ samples_to_read = 0
  /\ samples_to_read_after_overflow = 0
  /\ wrapped = FALSE
  /\ copied = 0
  /\ out = << >>
  /\ produced = 0
  /\ reported = FALSE
  /\ lapped = FALSE

\* The client runs only while no interrupt is being served.
ThreadRuns(label) == fifo1count = 0 /\ pc = label
-----------------------------------------------------------------------------
(* The ADC hardware and its interrupt handler.                             *)

\* The ADC converts one sample; a full FIFO1 drops it and flags the overrun.
Convert ==
  /\ continuous_transfer_started
  /\ produced + fifo < MaxSamples
  /\ \/ fifo < Depth /\ fifo' = fifo + 1 /\ UNCHANGED overrun
     \/ fifo = Depth /\ overrun' = TRUE /\ UNCHANGED fifo
  /\ UNCHANGED <<fifo1count, ringVars, readVars, dma_samples_cur_read, data_avail,
                 continuous_transfer_started, pc>>

\* The overrun branch: the ADC is disabled and enabled again, which empties
\* FIFO1; neither the ring nor the reader is told.
IrqOverrun ==
  /\ continuous_transfer_started
  /\ fifo1count = 0
  /\ overrun
  /\ overrun' = FALSE
  /\ fifo' = 0
  /\ UNCHANGED <<fifo1count, ringVars, readVars, dma_samples_cur_read, data_avail,
                 continuous_transfer_started, pc>>

\* The threshold branch reads REG_FIFO1CNT once.
IrqThreshold ==
  /\ continuous_transfer_started
  /\ fifo1count = 0
  /\ ~overrun
  /\ fifo >= Threshold
  /\ fifo1count' = fifo
  /\ UNCHANGED <<fifo, overrun, ringVars, readVars, dma_samples_cur_read, data_avail,
                 continuous_transfer_started, pc>>

\* The write offset after storing a word.
NextWrite ==
  IF dma_samples_cur_write + 1 = N THEN 0 ELSE dma_samples_cur_write + 1

MeetsReaderUnwrapped == dma_samples_cur_write + 1 = dma_samples_cur_read

\* The test for "Read underflow!"
MeetsReader == NextWrite = dma_samples_cur_read

\* One turn of the drain loop.  The last one also sets data_avail and wakes
\* the reader.
IrqDrain ==
  /\ fifo1count > 0
  /\ fifo' = fifo - 1
  /\ fifo1count' = fifo1count - 1
  /\ dma_samples' = [dma_samples EXCEPT ![dma_samples_cur_write] = produced]
  /\ dma_samples_cur_write' = NextWrite
  /\ reported' = (reported \/ MeetsReader)
  /\ produced' = produced + 1
  /\ lapped' = (lapped \/ produced + 1 - Consumed >= N)
  /\ data_avail' = (data_avail \/ fifo1count = 1)
  /\ UNCHANGED <<overrun, readVars, dma_samples_cur_read,
                 continuous_transfer_started, pc>>
-----------------------------------------------------------------------------
(* The client thread: the ioctls and adchs_read.                           *)

StartCapture ==
  /\ ThreadRuns("user")
  /\ ~continuous_transfer_started
  /\ data_avail' = FALSE
  /\ continuous_transfer_started' = TRUE
  /\ dma_samples_cur_write' = 0
  /\ dma_samples_cur_read' = 0
  /\ fifo' = 0
  /\ overrun' = FALSE
  /\ dma_samples' = [i \in 0..(N - 1) |-> Stale]
  /\ out' = << >>
  /\ produced' = 0
  /\ reported' = FALSE
  /\ lapped' = FALSE
  /\ UNCHANGED <<fifo1count, pc, samples_count, samples_to_read,
                 samples_to_read_after_overflow, wrapped, copied>>

\* Interrupts are masked and the ADC disabled before the flag is cleared.
StopCapture ==
  /\ ThreadRuns("user")
  /\ continuous_transfer_started
  /\ continuous_transfer_started' = FALSE
  /\ UNCHANGED <<hwVars, ringVars, readVars, dma_samples_cur_read, data_avail, pc>>

Read(count) ==
  /\ ThreadRuns("user")
  /\ continuous_transfer_started
  /\ samples_count' = count
  /\ pc' = "wait"
  /\ UNCHANGED <<hwVars, ringVars, dma_samples_cur_read, data_avail,
                 continuous_transfer_started, samples_to_read,
                 samples_to_read_after_overflow, wrapped, copied, out>>

\* wait_event_interruptible is cut short by a signal: -EAGAIN.
ReadInterrupted ==
  /\ ThreadRuns("wait")
  /\ ~data_avail
  /\ pc' = "user"
  /\ UNCHANGED <<hwVars, ringVars, readVars, dma_samples_cur_read, data_avail,
                 continuous_transfer_started>>

ReadWoken ==
  /\ ThreadRuns("wait")
  /\ data_avail
  /\ data_avail' = FALSE
  /\ pc' = "snapshot"
  /\ UNCHANGED <<hwVars, ringVars, readVars, dma_samples_cur_read,
                 continuous_transfer_started>>

\* Mutant: the second chunk is not clipped.
ReadSnapshotUnclipped ==
  LET ahead == dma_samples_cur_write >= dma_samples_cur_read
      first == IF ahead THEN dma_samples_cur_write - dma_samples_cur_read
                        ELSE N - dma_samples_cur_read
      second == IF ahead \/ first > samples_count THEN 0 ELSE dma_samples_cur_write
  IN
  /\ ThreadRuns("snapshot")
  /\ samples_to_read' = Lesser(first, samples_count)
  /\ samples_to_read_after_overflow' = second
  /\ wrapped' = (second # 0)
  /\ pc' = "copy"
  /\ UNCHANGED <<hwVars, ringVars, dma_samples_cur_read, data_avail,
                 continuous_transfer_started, samples_count, copied, out>>

\* Lines 850-861: how much there is to copy, from one look at the write
\* pointer.  The second chunk is clipped after the first is copied; only its
\* being nonempty before the clipping decides how the read pointer moves.
ReadSnapshot ==
  LET ahead == dma_samples_cur_write >= dma_samples_cur_read
      first == IF ahead THEN dma_samples_cur_write - dma_samples_cur_read
                        ELSE N - dma_samples_cur_read
      second == IF ahead \/ first > samples_count THEN 0 ELSE dma_samples_cur_write
  IN
  /\ ThreadRuns("snapshot")
  /\ samples_to_read' = Lesser(first, samples_count)
  /\ samples_to_read_after_overflow' = Lesser(second, samples_count - samples_to_read')
  /\ wrapped' = (second # 0)
  /\ pc' = "copy"
  /\ UNCHANGED <<hwVars, ringVars, dma_samples_cur_read, data_avail,
                 continuous_transfer_started, samples_count, copied, out>>

\* Mutant: the second chunk does not start at the start of the ring.
SourceShifted == IF copied < samples_to_read THEN dma_samples_cur_read + copied ELSE copied

\* Where copy_to_user finds the next word.
Source ==
  IF copied < samples_to_read THEN dma_samples_cur_read + copied
                              ELSE copied - samples_to_read

CopyWord ==
  /\ ThreadRuns("copy")
  /\ copied < Total
  /\ out' = Append(out, dma_samples[Source])
  /\ copied' = copied + 1
  /\ UNCHANGED <<hwVars, ringVars, dma_samples_cur_read, data_avail,
                 continuous_transfer_started, pc, samples_count, samples_to_read,
                 samples_to_read_after_overflow, wrapped>>

\* The read pointer moves only once everything is copied.
ReadReturn ==
  /\ ThreadRuns("copy")
  /\ copied = Total
  /\ dma_samples_cur_read' = IF wrapped THEN samples_to_read_after_overflow
                                        ELSE dma_samples_cur_read + samples_to_read
  /\ copied' = 0
  /\ pc' = "user"
  /\ UNCHANGED <<hwVars, ringVars, data_avail, continuous_transfer_started,
                 samples_count, samples_to_read, samples_to_read_after_overflow,
                 wrapped, out>>
-----------------------------------------------------------------------------
Next ==
  \/ Convert
  \/ IrqOverrun
  \/ IrqThreshold
  \/ IrqDrain
  \/ StartCapture
  \/ StopCapture
  \/ \E count \in 1..MaxCount : Read(count)
  \/ ReadInterrupted
  \/ ReadWoken
  \/ ReadSnapshot
  \/ CopyWord
  \/ ReadReturn

Spec == Init /\ [][Next]_vars
-----------------------------------------------------------------------------
(* The types of the variables, and the ranges of the two ring pointers:    *)
(* the write pointer never rests at dma_samples_end, the read pointer may. *)
TypeOK ==
  /\ fifo \in 0..Depth
  /\ overrun \in BOOLEAN
  /\ fifo1count \in 0..fifo
  /\ dma_samples \in [0..(N - 1) -> Int]
  /\ dma_samples_cur_write \in 0..(N - 1)
  /\ dma_samples_cur_read \in 0..N
  /\ data_avail \in BOOLEAN
  /\ continuous_transfer_started \in BOOLEAN
  /\ pc \in Pc
  /\ samples_count \in 0..MaxCount
  /\ samples_to_read \in 0..MaxCount
  /\ samples_to_read_after_overflow \in 0..MaxCount
  /\ wrapped \in BOOLEAN
  /\ copied \in 0..Total
  /\ out \in Seq(Int)
  /\ produced \in Nat
  /\ reported \in BOOLEAN
  /\ lapped \in BOOLEAN

(* Whatever the interrupt handler does meanwhile, even overtake the reader,*)
(* adchs_read copies from inside the ring and never more than was asked    *)
(* for: adc_custom_capture_cycle asserts the latter (adc_bbb.c:240).       *)
ReadStaysInBounds ==
  pc = "copy" =>
    /\ Total <= samples_count
    /\ copied < Total => Source \in 0..(N - 1)

(* The samples the client has got are the first ones of the capture, each  *)
(* once and in order, as long as the ring never held N unread samples.  The*)
(* handler and the reader share the ring without a lock.                   *)
InOrder == ~lapped => \A i \in 1..Len(out) : out[i] = i - 1

(* "Read underflow!" is a true alarm: when the handler prints it, the ring *)
(* has just lost the distinction between full and empty, and N samples     *)
(* with it.                                                                *)
ReportIsOverflow == reported => lapped

(* The handler reports the moment the ring overflows, except when the      *)
(* reader rests at dma_samples_end, which the write pointer never equals.  *)
ReportedUnlessAtEnd ==
  [][~lapped /\ lapped' => reported' \/ dma_samples_cur_read = N]_vars

Channel == INSTANCE SampleChannel WITH
  Capacity <- N - 1,
  sent <- produced,
  got <- out,
  freed <- Consumed,
  lost <- lapped

(* The driver implements the bounded in-order channel: capacity N - 1, not *)
(* N, because equal pointers mean empty.                                   *)
ImplementsChannel == Channel!ChSpec
=============================================================================
