------------------------------- MODULE TxDma -------------------------------
(***************************************************************************)
(* Transmission in the mode spi_tx_mode_ping_pong_dma: the thread that     *)
(* fills the buffers (thread_spi_tx_buffer in libplc-cape/tx.c with        *)
(* tx_sched_afe_async_dma.c), the SPI driver that the scheduler commands   *)
(* through debugfs (spi-omap2-mcspi_plc.c) and the EDMA channel, which     *)
(* reads the two buffers in place, one after the other, for ever.          *)
(*                                                                         *)
(* The driver outlives the processes that use it: a process may be killed  *)
(* at any time, and the next one resets the driver.  Between two ping-pong *)
(* transmissions a process may also use the mode buffer_by_buffer, whose   *)
(* ordinary transfers share the callback, the completion and the channel.  *)
(*                                                                         *)
(* The DMA's interrupt and the tasklet that calls omap2_mcspi_tx_callback  *)
(* are one step: a softirq runs when its interrupt returns, before any     *)
(* thread of the single core.                                              *)
(***************************************************************************)
EXTENDS Integers

CONSTANTS
  Gens,           \* modulus of the generations of filled buffers
  Processes       \* processes are told apart modulo Processes

ASSUME TxDmaAssumption ==
  /\ Gens \in Nat /\ Gens > 3
  /\ Processes \in Nat /\ Processes > 1

VARIABLES
  ctl,                   \* what the process has created or is doing
  process,               \* the last process that opened the driver
  handler,               \* sig_app_warning_handler is installed
  tx,                    \* where the filling thread is
  end_thread,
  next_buffer_to_fill,
  buffer_in_tx,
  content,               \* the generation each buffer of the process holds
  dma_tx_in_progress,
  dma_completion_notified,
  ping_pong_enabled,     \* the opposite of stop_dma_after_tx
  mapped,                \* whose pages buf1_dma and buf2_dma are, or Nobody
  cur_buffer_in_dma_index,
  dma_buffer_waiting,
  done,                  \* dma_tx_completion.done, up to MaxDone
  spi_for_abort,         \* it is not NULL
  pm,                    \* the driver's pm_runtime references
  dma,                   \* what the EDMA channel does
  inDma,                 \* the buffer it reads
  source,                \* whose pages it reads
  made, sent, onTime,    \* history, as in TxAsyncThread
  terminated             \* history: the warning signal ended the process

userVars == <<ctl, process, handler>>
threadVars == <<tx, end_thread, next_buffer_to_fill, buffer_in_tx>>
bufferVars == <<content, made>>
modeVars == <<ping_pong_enabled, mapped>>
progressVars == <<dma_tx_in_progress, dma_completion_notified, spi_for_abort, pm>>
waitVars == <<cur_buffer_in_dma_index, dma_buffer_waiting, done>>
edmaVars == <<dma, inDma, source>>
driverVars == <<modeVars, progressVars, waitVars, edmaVars>>
history == <<sent, onTime, terminated>>
vars == <<userVars, threadVars, bufferVars, driverVars, history>>

Buffers == 0..1
Ctl == {"none", "spi", "idle", "starting", "running", "joining", "plain", "sending"}
Tx == {"off", "test", "fill", "call", "asked", "init", "wait", "woken", "resync"}

Nobody == 0     \* no mapping
Nothing == -1   \* never filled, nothing sent yet
Torn == -2      \* a fill is under way
MaxDone == 2

\* After this many buffers in time the sequence of a late spell is over.
Settled == 3

Other(b) == 1 - b
NextGen(g) == IF g + 1 = Gens THEN 0 ELSE g + 1
NextProcess(p) == IF p = Processes THEN 1 ELSE p + 1
Completed(d) == IF d = MaxDone THEN d ELSE d + 1   \* complete()
-----------------------------------------------------------------------------
\* The driver is loaded and nobody has used it.
Init ==
  /\ ctl = "none"
  /\ process = 1
  /\ handler = FALSE
  /\ tx = "off"
  /\ end_thread = FALSE
  /\ next_buffer_to_fill = 0
  /\ buffer_in_tx = 0
  /\ content = [b \in Buffers |-> Nothing]
  /\ made = 0
  /\ dma_tx_in_progress = FALSE
  /\ dma_completion_notified = FALSE
  /\ ping_pong_enabled = FALSE
  /\ mapped = Nobody
  /\ cur_buffer_in_dma_index = 0
  /\ dma_buffer_waiting = FALSE
  /\ done = 0
  /\ spi_for_abort = FALSE
  /\ pm = 0
  /\ dma = "off"
  /\ inDma = 0
  /\ source = Nobody
  /\ sent = Nothing
  /\ onTime = Settled
  /\ terminated = FALSE
-----------------------------------------------------------------------------
(* The commands of the driver.                                             *)

\* abort_tx does something.
Aborts == spi_for_abort /\ dma_tx_in_progress /\ ~dma_completion_notified

\* What abort_tx does to the channel, to its waiter and to the references.
AbortEffects ==
  /\ spi_for_abort' = (spi_for_abort /\ ~Aborts)
  /\ done' = IF Aborts THEN Completed(done) ELSE done
  /\ dma' = IF Aborts THEN "off" ELSE dma
  /\ pm' = IF Aborts THEN pm - 1 ELSE pm
  /\ UNCHANGED <<inDma, source>>

\* Mutant: the channel is left as the last process left it.
ResetWithoutAbort ==
  /\ dma_tx_in_progress' = FALSE
  /\ dma_completion_notified' = FALSE
  /\ ping_pong_enabled' = FALSE
  /\ mapped' = Nobody
  /\ cur_buffer_in_dma_index' = 0
  /\ dma_buffer_waiting' = FALSE
  /\ UNCHANGED <<spi_for_abort, done, pm, edmaVars>>
\* 0x0: abort_tx and initialize_dma_data_plc.
Reset ==
  /\ AbortEffects
  /\ dma_tx_in_progress' = FALSE
  /\ dma_completion_notified' = FALSE
  /\ ping_pong_enabled' = FALSE
  /\ mapped' = Nobody
  /\ cur_buffer_in_dma_index' = 0
  /\ dma_buffer_waiting' = FALSE

\* 0x2: buffers that are still mapped stay.
AllocateBuffers ==
  /\ mapped' = IF mapped = Nobody THEN process ELSE mapped
  /\ ping_pong_enabled' = (ping_pong_enabled \/ mapped = Nobody)

\* 0x3: the mode stays enabled.
ReleaseBuffers ==
  /\ mapped' = IF ping_pong_enabled THEN Nobody ELSE mapped
  /\ UNCHANGED ping_pong_enabled

\* omap2_mcspi_tx_configure_dma_ping_pong: the ring of PaRAM sets begins with
\* the first buffer.
ConfigurePingPong ==
  /\ cur_buffer_in_dma_index' = 0
  /\ dma' = "pingpong"
  /\ inDma' = 0
  /\ source' = mapped

TxDmaPingPong ==
  /\ spi_for_abort' = TRUE
  /\ dma_completion_notified' = FALSE
  /\ dma_tx_in_progress' = TRUE
  /\ ConfigurePingPong

\* 0x4
StartDma ==
  /\ pm' = pm + 1
  /\ TxDmaPingPong
  /\ UNCHANGED <<dma_buffer_waiting, done>>

\* 0x5
AbortDma ==
  /\ AbortEffects
  /\ dma_tx_in_progress' = (dma_tx_in_progress /\ ~Aborts)
  /\ dma_completion_notified' = (dma_completion_notified \/ Aborts)
  /\ UNCHANGED <<cur_buffer_in_dma_index, dma_buffer_waiting>>
-----------------------------------------------------------------------------
(* The process: its SPI object, its transmissions, its end.                *)

\* spi_create
SpiCreate ==
  /\ ctl = "none"
  /\ Reset
  /\ ctl' = "spi"
  /\ process' = NextProcess(process)
  /\ terminated' = FALSE
  /\ UNCHANGED <<handler, threadVars, bufferVars, sent, onTime>>

\* spi_release
SpiRelease ==
  /\ ctl = "spi"
  /\ Reset
  /\ ctl' = "none"
  /\ UNCHANGED <<process, handler, threadVars, bufferVars, history>>

\* plc_tx_create in the mode ping_pong_dma
TxCreate ==
  /\ ctl = "spi"
  /\ AllocateBuffers
  /\ handler' = TRUE
  /\ ctl' = "idle"
  /\ content' = [b \in Buffers |-> Nothing]
  /\ UNCHANGED <<process, threadVars, made, progressVars, waitVars, edmaVars, history>>

TxRelease ==
  /\ ctl = "idle"
  /\ handler' = FALSE
  /\ ReleaseBuffers
  /\ ctl' = "spi"
  /\ UNCHANGED <<process, threadVars, bufferVars, progressVars, waitVars, edmaVars, history>>

\* tx_sched_async_dma_start fills the first buffer and starts the channel.
SchedStart ==
  /\ ctl = "idle"
  /\ content' = [content EXCEPT ![0] = 0]
  /\ made' = 1
  /\ next_buffer_to_fill' = 1
  /\ buffer_in_tx' = 0
  /\ StartDma
  /\ ctl' = "starting"
  /\ sent' = 0
  /\ onTime' = Settled
  /\ UNCHANGED <<process, handler, tx, end_thread, modeVars, terminated>>

CreateTxThread ==
  /\ ctl = "starting"
  /\ end_thread' = FALSE
  /\ tx' = "test"
  /\ ctl' = "running"
  /\ UNCHANGED <<process, handler, next_buffer_to_fill, buffer_in_tx, bufferVars,
                 driverVars, history>>

\* Mutant: the channel is stopped before the thread is joined.
RequestStopAborts ==
  /\ ctl = "running"
  /\ end_thread' = TRUE
  /\ AbortDma
  /\ ctl' = "joining"
  /\ UNCHANGED <<process, handler, tx, next_buffer_to_fill, buffer_in_tx, bufferVars,
                 modeVars, history>>

\* tx_sched_request_stop is a dummy in this mode.
RequestStop ==
  /\ ctl = "running"
  /\ end_thread' = TRUE
  /\ ctl' = "joining"
  /\ UNCHANGED <<process, handler, tx, next_buffer_to_fill, buffer_in_tx, bufferVars,
                 driverVars, history>>

\* The join returns and tx_sched_async_dma_stop follows.
SchedStop ==
  /\ ctl = "joining"
  /\ tx = "off"
  /\ AbortDma
  /\ ctl' = "idle"
  /\ UNCHANGED <<process, handler, threadVars, bufferVars, modeVars, history>>

\* plc_tx_create and plc_tx_release in the mode buffer_by_buffer.
PlainCreate ==
  /\ ctl = "spi"
  /\ ctl' = "plain"
  /\ UNCHANGED <<process, handler, threadVars, bufferVars, driverVars, history>>
PlainRelease ==
  /\ ctl = "plain"
  /\ handler' = FALSE
  /\ ctl' = "spi"
  /\ UNCHANGED <<process, threadVars, bufferVars, driverVars, history>>

\* spi_transfer_dac_buffer: an ordinary transfer, which ends when the
\* completion has been signalled and all its words have been shifted out.
PlainSend ==
  /\ ctl = "plain"
  /\ dma' = "plain"
  /\ ctl' = "sending"
  /\ UNCHANGED <<process, handler, threadVars, bufferVars, modeVars, progressVars,
                 waitVars, inDma, source, history>>
PlainSent ==
  /\ ctl = "sending"
  /\ done > 0
  /\ dma = "off"
  /\ done' = done - 1
  /\ ctl' = "plain"
  /\ UNCHANGED <<process, handler, threadVars, bufferVars, modeVars, progressVars,
                 cur_buffer_in_dma_index, dma_buffer_waiting, edmaVars, history>>

\* The process ends without releasing anything.  The driver's waits are not
\* interruptible: a thread in one ends when the wait does.
Kill ==
  /\ ctl \notin {"none", "sending"}
  /\ tx \notin {"asked", "init", "wait", "woken"}
  /\ ctl' = "none"
  /\ tx' = "off"
  /\ handler' = FALSE
  /\ UNCHANGED <<process, end_thread, next_buffer_to_fill, buffer_in_tx, bufferVars,
                 driverVars, history>>
-----------------------------------------------------------------------------
(* The filling thread.                                                     *)

TxEnds ==
  /\ tx = "test"
  /\ end_thread
  /\ tx' = "off"
  /\ UNCHANGED <<userVars, end_thread, next_buffer_to_fill, buffer_in_tx, bufferVars,
                 driverVars, history>>

FillBegin ==
  /\ tx = "test"
  /\ ~end_thread
  /\ content' = [content EXCEPT ![next_buffer_to_fill] = Torn]
  /\ tx' = "fill"
  /\ UNCHANGED <<userVars, end_thread, next_buffer_to_fill, buffer_in_tx, made,
                 driverVars, history>>

FillEnd ==
  /\ tx = "fill"
  /\ content' = [content EXCEPT ![next_buffer_to_fill] = made]
  /\ made' = NextGen(made)
  /\ next_buffer_to_fill' = Other(next_buffer_to_fill)
  /\ tx' = "call"
  /\ UNCHANGED <<userVars, end_thread, buffer_in_tx, driverVars, history>>

\* DEBUGFS_IOC_RD_WAIT_DMA_BUFFER: without a transfer it returns 0 at once.
WaitAsks ==
  /\ tx = "call"
  /\ IF dma_tx_in_progress
       THEN tx' = "asked" /\ UNCHANGED buffer_in_tx
       ELSE tx' = "resync" /\ buffer_in_tx' = 0
  /\ UNCHANGED <<userVars, end_thread, next_buffer_to_fill, bufferVars, driverVars, history>>

WaitAnnounced ==
  /\ tx = "asked"
  /\ dma_buffer_waiting' = TRUE
  /\ tx' = "init"
  /\ UNCHANGED <<userVars, end_thread, next_buffer_to_fill, buffer_in_tx, bufferVars,
                 modeVars, progressVars, cur_buffer_in_dma_index, done, edmaVars, history>>

\* init_completion forgets what was completed before.
InitCompletion ==
  /\ tx = "init"
  /\ done' = 0
  /\ tx' = "wait"
  /\ UNCHANGED <<userVars, end_thread, next_buffer_to_fill, buffer_in_tx, bufferVars,
                 modeVars, progressVars, cur_buffer_in_dma_index, dma_buffer_waiting,
                 edmaVars, history>>

WaitWakes ==
  /\ tx = "wait"
  /\ done > 0
  /\ done' = done - 1
  /\ tx' = "woken"
  /\ UNCHANGED <<userVars, end_thread, next_buffer_to_fill, buffer_in_tx, bufferVars,
                 modeVars, progressVars, cur_buffer_in_dma_index, dma_buffer_waiting,
                 edmaVars, history>>

WaitEnds ==
  /\ tx = "woken"
  /\ dma_buffer_waiting' = FALSE
  /\ buffer_in_tx' = cur_buffer_in_dma_index
  /\ tx' = "resync"
  /\ UNCHANGED <<userVars, end_thread, next_buffer_to_fill, bufferVars, modeVars,
                 progressVars, cur_buffer_in_dma_index, done, edmaVars, history>>

\* Mutant: the buffer in transmission itself.
ResyncToBufferInTx ==
  /\ tx = "resync"
  /\ next_buffer_to_fill' = buffer_in_tx
  /\ tx' = "test"
  /\ UNCHANGED <<userVars, end_thread, buffer_in_tx, bufferVars, driverVars, history>>

\* The buffer before the one in transmission is filled next.
Resync ==
  /\ tx = "resync"
  /\ next_buffer_to_fill' = Other(buffer_in_tx)
  /\ tx' = "test"
  /\ UNCHANGED <<userVars, end_thread, buffer_in_tx, bufferVars, driverVars, history>>
-----------------------------------------------------------------------------
(* The EDMA channel and omap2_mcspi_tx_callback.                           *)

\* At most one warning per second: the others are left out.
MayWarn == ping_pong_enabled /\ ~dma_buffer_waiting

\* The signal ends a process that has not got the handler.
Warn ==
  IF ctl = "none" \/ handler
    THEN UNCHANGED <<ctl, terminated>>
    ELSE ctl' = "none" /\ terminated' = TRUE

Callback ==
  /\ done' = Completed(done)
  /\ cur_buffer_in_dma_index' =
       IF ping_pong_enabled THEN Other(cur_buffer_in_dma_index) ELSE cur_buffer_in_dma_index
  /\ dma_tx_in_progress' = (dma_tx_in_progress /\ ping_pong_enabled)
  /\ \/ MayWarn /\ Warn
     \/ UNCHANGED <<ctl, terminated>>

\* The PaRAM ring goes on with the other buffer.
BufferEnds ==
  /\ dma = "pingpong"
  /\ inDma' = Other(inDma)
  /\ sent' = content[inDma']
  /\ onTime' = IF tx # "wait" \/ done > 0 THEN 0
               ELSE IF onTime < Settled THEN onTime + 1 ELSE onTime
  /\ Callback
  /\ UNCHANGED <<process, handler, threadVars, bufferVars, modeVars,
                 dma_completion_notified, spi_for_abort, pm, dma_buffer_waiting, dma, source>>

\* An ordinary transfer has one buffer.
PlainEnds ==
  /\ dma = "plain"
  /\ dma' = "off"
  /\ Callback
  /\ UNCHANGED <<process, handler, threadVars, bufferVars, modeVars,
                 dma_completion_notified, spi_for_abort, pm, dma_buffer_waiting, inDma,
                 source, sent, onTime>>
-----------------------------------------------------------------------------
Client == SpiCreate \/ SpiRelease \/ TxCreate \/ TxRelease \/ SchedStart \/ CreateTxThread
          \/ RequestStop \/ SchedStop \/ Kill
Plain == PlainCreate \/ PlainRelease \/ PlainSend \/ PlainSent
TxThread == TxEnds \/ FillBegin \/ FillEnd \/ WaitAsks \/ WaitAnnounced
            \/ InitCompletion \/ WaitWakes \/ WaitEnds \/ Resync
Edma == BufferEnds \/ PlainEnds

Next == Client \/ Plain \/ TxThread \/ Edma

\* The threads run, calls under way go on and the channel keeps sending;
\* what the user does is not promised.
Fairness ==
  /\ WF_vars(TxThread)
  /\ WF_vars(Edma)
  /\ WF_vars(CreateTxThread \/ SchedStop \/ PlainSent)

Spec == Init /\ [][Next]_vars
FairSpec == Spec /\ Fairness
-----------------------------------------------------------------------------
TypeOK ==
  /\ ctl \in Ctl
  /\ process \in 1..Processes
  /\ tx \in Tx
  /\ handler \in BOOLEAN /\ end_thread \in BOOLEAN /\ terminated \in BOOLEAN
  /\ dma_tx_in_progress \in BOOLEAN /\ dma_completion_notified \in BOOLEAN
  /\ ping_pong_enabled \in BOOLEAN /\ spi_for_abort \in BOOLEAN
  /\ dma_buffer_waiting \in BOOLEAN
  /\ next_buffer_to_fill \in Buffers /\ buffer_in_tx \in Buffers
  /\ cur_buffer_in_dma_index \in Buffers /\ inDma \in Buffers
  /\ content \in [Buffers -> -2..(Gens - 1)]
  /\ made \in 0..(Gens - 1)
  /\ mapped \in 0..Processes /\ source \in 0..Processes
  /\ done \in 0..MaxDone
  /\ pm \in {0, 1}
  /\ dma \in {"off", "pingpong", "plain"}
  /\ sent \in -2..(Gens - 1)
  /\ onTime \in 0..Settled

(* The index that the waiting call reports is that of the buffer the       *)
(* channel reads, whatever transmissions there were before.                *)
IndexIsBufferInDma == dma = "pingpong" => cur_buffer_in_dma_index = inDma

(* A thread that was waiting at the last change of buffers never writes to *)
(* the buffer that the channel is reading in place.                        *)
FillAvoidsBufferInDma == onTime > 0 /\ tx = "fill" => next_buffer_to_fill # inDma

(* The channel reads the pages of the process that started it, also after  *)
(* a process has been killed and its buffers have remained mapped.         *)
ReadsOwnPages == ctl \in {"starting", "running", "joining"} => source = process

(* The channel runs for a transmission under way, or for a process that    *)
(* was killed until the next one resets the driver; the device is kept     *)
(* awake for just as long.                                                 *)
ChannelIsAccountedFor ==
  /\ ctl \in {"spi", "idle", "plain"} => dma = "off"
  /\ pm = 1 <=> dma = "pingpong"

(* The buffers are sent in the order in which they were filled, none lost  *)
(* or repeated, from the start on and once a late spell is Settled.        *)
InOrder == [][BufferEnds /\ onTime' = Settled => sent' = NextGen(sent)]_vars

(* plc_tx_stop_transmission returns: the channel is stopped only after the *)
(* thread has been joined, so each wait ends with a buffer.                *)
StopCompletes == ctl = "joining" ~> ctl # "joining"
=============================================================================
