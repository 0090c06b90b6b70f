--------------------------- MODULE TxAsyncThread ---------------------------
(***************************************************************************)
(* Transmission in the mode spi_tx_mode_ping_pong_thread: the client of    *)
(* plc_tx (libplc-cape/tx.c), the thread that fills the buffers            *)
(* (thread_spi_tx_buffer) and the thread that sends them                   *)
(* (tx_sched_async_thread_thread in tx_sched_afe_async_thread.c).  The two *)
(* threads share the indices next_buffer_to_fill and last_buffer_flushed   *)
(* and the flag buffer_flushed; only the waiter holds the mutex.           *)
(*                                                                         *)
(* When it is boosted the filling thread has got SCHED_RR priority on the  *)
(* single core: nobody else takes a step while it can run.  In emulation   *)
(* it is not.                                                              *)
(*                                                                         *)
(* The index last_buffer_flushed is incremented, then wrapped, and neither *)
(* is locked: the filling thread may read it in between (an optimized      *)
(* build may keep the first value in a register: a behaviour in which      *)
(* nobody reads it).  It then has an index outside of the buffers.         *)
(*                                                                         *)
(* A filled buffer is represented by its generation, its position in the   *)
(* stream of filled buffers modulo Gens.  The SPI driver copies the buffer *)
(* when the transfer starts (spidev_message), so what is sent is what the  *)
(* buffer holds then.                                                      *)
(***************************************************************************)
EXTENDS Integers

CONSTANTS
  BuffersCount,   \* buffers_count; the code has 2
  Gens            \* modulus of the generations

ASSUME TxAssumption ==
  /\ BuffersCount \in Nat /\ BuffersCount > 1
  /\ Gens \in Nat /\ Gens > BuffersCount + 1

VARIABLES
  boosted,               \* not plc_cape_emulation: sched_setscheduler is called
  ctl,                   \* where the client is in the start and stop calls
  tx,                    \* where the filling thread is
  blocked,               \* its callback sleeps
  flusher,               \* where the sending thread is
  end_thread,            \* plc_tx->end_thread
  sched_end_thread,      \* tx_sched->end_thread
  next_buffer_to_fill,
  last_buffer_flushed,
  buffer_flushed,
  content,               \* the generation each buffer holds
  made,                  \* history: the generation of the next fill
  sent,                  \* history: what the last transfer started with
  onTime                 \* history: consecutive transfers that ended with the
                         \* filling thread waiting for it, up to Settled

stopVars == <<end_thread, sched_end_thread>>
shared == <<next_buffer_to_fill, last_buffer_flushed, buffer_flushed>>
moving == <<ctl, tx, blocked, flusher, stopVars, shared, content, made, sent, onTime>>
asyncVars == <<boosted, moving>>

Buffers == 0..(BuffersCount - 1)
Ctl == {"idle", "starting", "running", "joining_tx", "joining_flusher", "crashed"}
Tx == {"off", "born", "test", "fill", "lock", "locked", "wait", "resync", "report"}
Flusher == {"off", "test", "wrap", "start", "sending", "signal"}

Nothing == -1   \* never filled, nothing sent yet
Torn == -2      \* a fill is under way

\* After this many transfers in time the sequence of a late spell is over.
Settled == BuffersCount + 1

NextBuffer(b) == IF b + 1 = BuffersCount THEN 0 ELSE b + 1
NextGen(g) == IF g + 1 = Gens THEN 0 ELSE g + 1

\* The buffers, once the one to fill has been given v; with an index outside of
\* them what is written is none of them.
Contents(v) == [b \in Buffers |-> IF b = next_buffer_to_fill THEN v ELSE content[b]]

\* The filling thread holds the core; a newborn one is not yet boosted.
Monopoly == boosted /\ ~blocked /\ tx \notin {"off", "born", "wait"}
-----------------------------------------------------------------------------
AsyncInit ==
  /\ boosted \in BOOLEAN
  /\ ctl = "idle"
  /\ tx = "off"
  /\ blocked = FALSE
  /\ flusher = "off"
  /\ end_thread = FALSE
  /\ sched_end_thread = FALSE
  /\ next_buffer_to_fill = 0
  /\ last_buffer_flushed = 0
  /\ buffer_flushed = FALSE
  /\ content = [b \in Buffers |-> Nothing]
  /\ made = 0
  /\ sent = Nothing
  /\ onTime = Settled
-----------------------------------------------------------------------------
(* The client: plc_tx_start_transmission and plc_tx_stop_transmission.     *)

\* tx_sched_async_thread_start fills all the buffers but the last one and
\* creates the sending thread.
SchedStart ==
  /\ ctl = "idle"
  /\ ctl' = "starting"
  /\ content' = [b \in Buffers |-> IF b < BuffersCount - 1 THEN b ELSE content[b]]
  /\ made' = BuffersCount - 1
  /\ next_buffer_to_fill' = BuffersCount - 1
  /\ last_buffer_flushed' = next_buffer_to_fill'
  /\ buffer_flushed' = FALSE
  /\ sched_end_thread' = FALSE
  /\ flusher' = "test"
  /\ sent' = Nothing
  /\ onTime' = Settled
  /\ UNCHANGED <<tx, blocked, end_thread>>

CreateTxThread ==
  /\ ctl = "starting"
  /\ ctl' = "running"
  /\ end_thread' = FALSE
  /\ tx' = "born"
  /\ UNCHANGED <<blocked, flusher, sched_end_thread, shared, content, made, sent, onTime>>

\* Mutants: only the sending thread is told to end; both are told at once.
RequestStopOfFlusher ==
  /\ ctl = "running"
  /\ ~Monopoly
  /\ sched_end_thread' = TRUE
  /\ ctl' = "joining_tx"
  /\ UNCHANGED <<tx, blocked, flusher, end_thread, shared, content, made, sent, onTime>>
\* tx_sched_request_stop is a dummy in this mode.
RequestStop ==
  /\ ctl = "running"
  /\ ~Monopoly
  /\ end_thread' = TRUE
  /\ ctl' = "joining_tx"
  /\ UNCHANGED <<tx, blocked, flusher, sched_end_thread, shared, content, made, sent, onTime>>

\* The timed join returns and tx_sched_async_thread_stop begins; its signal
\* finds nobody waiting.
SchedStop ==
  /\ ctl = "joining_tx"
  /\ tx = "off"
  /\ sched_end_thread' = TRUE
  /\ ctl' = "joining_flusher"
  /\ UNCHANGED <<tx, blocked, flusher, end_thread, shared, content, made, sent, onTime>>

Stopped ==
  /\ ctl = "joining_flusher"
  /\ flusher = "off"
  /\ ctl' = "idle"
  /\ UNCHANGED <<tx, blocked, flusher, stopVars, shared, content, made, sent, onTime>>
-----------------------------------------------------------------------------
(* The sending thread.                                                     *)

\* The loop test and the increment.
FlushNext ==
  /\ flusher = "test"
  /\ ~Monopoly
  /\ ~sched_end_thread
  /\ last_buffer_flushed' = last_buffer_flushed + 1
  /\ flusher' = "wrap"
  /\ UNCHANGED <<ctl, tx, blocked, stopVars, next_buffer_to_fill, buffer_flushed,
                 content, made, sent, onTime>>

\* Mutant: the index wraps one buffer too early.
FlushWrapsEarly ==
  /\ flusher = "wrap"
  /\ ~Monopoly
  /\ last_buffer_flushed' =
       IF last_buffer_flushed >= BuffersCount - 1 THEN 0 ELSE last_buffer_flushed
  /\ flusher' = "start"
  /\ UNCHANGED <<ctl, tx, blocked, stopVars, next_buffer_to_fill, buffer_flushed,
                 content, made, sent, onTime>>

FlushWrap ==
  /\ flusher = "wrap"
  /\ ~Monopoly
  /\ last_buffer_flushed' =
       IF last_buffer_flushed = BuffersCount THEN 0 ELSE last_buffer_flushed
  /\ flusher' = "start"
  /\ UNCHANGED <<ctl, tx, blocked, stopVars, next_buffer_to_fill, buffer_flushed,
                 content, made, sent, onTime>>

\* The transfer starts: the driver copies the buffer.
FlushStart ==
  /\ flusher = "start"
  /\ ~Monopoly
  /\ sent' = content[last_buffer_flushed]
  /\ flusher' = "sending"
  /\ UNCHANGED <<ctl, tx, blocked, stopVars, shared, content, made, onTime>>

FlushEnds ==
  /\ flusher = "test"
  /\ ~Monopoly
  /\ sched_end_thread
  /\ flusher' = "off"
  /\ UNCHANGED <<ctl, tx, blocked, stopVars, shared, content, made, sent, onTime>>

\* spi_transfer_dac_buffer returns.
FlushDone ==
  /\ flusher = "sending"
  /\ ~Monopoly
  /\ buffer_flushed' = TRUE
  /\ flusher' = "signal"
  /\ onTime' = CASE tx # "wait" -> 0
                 [] tx = "wait" /\ onTime < Settled -> onTime + 1
                 [] OTHER -> onTime
  /\ UNCHANGED <<ctl, tx, blocked, stopVars, next_buffer_to_fill, last_buffer_flushed,
                 content, made, sent>>

\* pthread_cond_signal, called without the mutex: it is lost unless the
\* filling thread is already waiting.
Signal ==
  /\ flusher = "signal"
  /\ ~Monopoly
  /\ flusher' = "test"
  /\ tx' = IF tx = "wait" THEN "lock" ELSE tx
  /\ UNCHANGED <<ctl, blocked, stopVars, shared, content, made, sent, onTime>>
-----------------------------------------------------------------------------
(* The filling thread.                                                     *)

\* sched_setscheduler; from here on Monopoly may hold.
Boost ==
  /\ tx = "born"
  /\ tx' = "test"
  /\ UNCHANGED <<ctl, blocked, flusher, stopVars, shared, content, made, sent, onTime>>

TxEnds ==
  /\ tx = "test"
  /\ end_thread
  /\ tx' = "off"
  /\ UNCHANGED <<ctl, blocked, flusher, stopVars, shared, content, made, sent, onTime>>

\* Mutant: buffer_flushed is not reset.
FillBeginKeepsFlag ==
  /\ tx = "test"
  /\ ~end_thread
  /\ content' = Contents(Torn)
  /\ tx' = "fill"
  /\ UNCHANGED <<ctl, blocked, flusher, stopVars, shared, made, sent, onTime>>

\* The index may be outside of the buffers: then the callback is given what
\* follows the array of pointers, see Crash.
FillBegin ==
  /\ tx = "test"
  /\ ~end_thread
  /\ buffer_flushed' = FALSE
  /\ content' = Contents(Torn)
  /\ tx' = "fill"
  /\ UNCHANGED <<ctl, blocked, flusher, stopVars, next_buffer_to_fill,
                 last_buffer_flushed, made, sent, onTime>>

\* The fill callback or the on-buffer-sent callback sleeps (a lock, a file).
Block ==
  /\ tx \in {"fill", "report"}
  /\ ~blocked
  /\ blocked' = TRUE
  /\ UNCHANGED <<ctl, tx, flusher, stopVars, shared, content, made, sent, onTime>>

\* An index past the last but one is not wrapped.
FillEnd ==
  /\ tx = "fill"
  /\ content' = Contents(made)
  /\ made' = NextGen(made)
  /\ next_buffer_to_fill' = NextBuffer(next_buffer_to_fill)
  /\ blocked' = FALSE
  /\ tx' = "lock"
  /\ UNCHANGED <<ctl, flusher, stopVars, last_buffer_flushed, buffer_flushed, sent, onTime>>

\* The condition of the wait loop; a signal between the test and the wait is lost.
WaitTest ==
  /\ tx = "lock"
  /\ tx' = IF ~sched_end_thread /\ ~buffer_flushed THEN "locked" ELSE "resync"
  /\ UNCHANGED <<ctl, blocked, flusher, stopVars, shared, content, made, sent, onTime>>

Wait ==
  /\ tx = "locked"
  /\ tx' = "wait"
  /\ UNCHANGED <<ctl, blocked, flusher, stopVars, shared, content, made, sent, onTime>>

\* pthread_cond_wait may return without a signal.
SpuriousWakeup ==
  /\ tx = "wait"
  /\ tx' = "lock"
  /\ UNCHANGED <<ctl, blocked, flusher, stopVars, shared, content, made, sent, onTime>>

\* Mutant: the index is left where the fill put it.
ResyncSkipped ==
  /\ tx = "resync"
  /\ tx' = "report"
  /\ UNCHANGED <<ctl, blocked, flusher, stopVars, shared, content, made, sent, onTime>>

Resync ==
  /\ tx = "resync"
  /\ next_buffer_to_fill' = last_buffer_flushed
  /\ tx' = "report"
  /\ UNCHANGED <<ctl, blocked, flusher, stopVars, last_buffer_flushed, buffer_flushed,
                 content, made, sent, onTime>>

\* tx_on_buffer_sent_callback and the statistics.
Report ==
  /\ tx = "report"
  /\ blocked' = FALSE
  /\ tx' = "test"
  /\ UNCHANGED <<ctl, flusher, stopVars, shared, content, made, sent, onTime>>

\* buffers[next_buffer_to_fill], read outside of the array by the fill or by the
\* report: the callback that uses it ends the program, unless it does no harm.
Crash ==
  /\ tx \in {"fill", "report"}
  /\ next_buffer_to_fill \notin Buffers
  /\ ctl' = "crashed"
  /\ tx' = "off"
  /\ flusher' = "off"
  /\ blocked' = FALSE
  /\ UNCHANGED <<stopVars, shared, content, made, sent, onTime>>

\* The process is gone: nothing more happens.
Crashed == ctl = "crashed" /\ UNCHANGED moving
-----------------------------------------------------------------------------
Client == SchedStart \/ CreateTxThread \/ RequestStop \/ SchedStop \/ Stopped
FlusherThread == FlushNext \/ FlushWrap \/ FlushStart \/ FlushEnds \/ FlushDone \/ Signal
TxThread == Boost \/ TxEnds \/ FillBegin \/ FillEnd \/ WaitTest \/ Wait \/ Resync \/ Report

AsyncNext ==
  /\ Client \/ FlusherThread \/ TxThread \/ Block \/ SpuriousWakeup \/ Crash \/ Crashed
  /\ UNCHANGED boosted

\* The threads and the calls under way are scheduled; whether the client
\* starts or stops, a callback sleeps or a wait ends for no reason is not
\* promised.  The sending thread gets the core each time the boosted one
\* waits, however briefly: strong fairness.
AsyncFairness ==
  /\ WF_moving(TxThread)
  /\ SF_moving(FlusherThread)
  /\ WF_moving(CreateTxThread \/ SchedStop \/ Stopped)

AsyncSpec == AsyncInit /\ [][AsyncNext]_asyncVars
AsyncFairSpec == AsyncSpec /\ AsyncFairness
-----------------------------------------------------------------------------
AsyncTypeOK ==
  /\ boosted \in BOOLEAN
  /\ ctl \in Ctl
  /\ tx \in Tx
  /\ blocked \in BOOLEAN
  /\ flusher \in Flusher
  /\ end_thread \in BOOLEAN
  /\ sched_end_thread \in BOOLEAN
  /\ next_buffer_to_fill \in 0..(BuffersCount + 1)
  /\ last_buffer_flushed \in 0..BuffersCount
  /\ buffer_flushed \in BOOLEAN
  /\ content \in [Buffers -> -2..(Gens - 1)]
  /\ made \in 0..(Gens - 1)
  /\ sent \in -2..(Gens - 1)
  /\ onTime \in 0..Settled

(* A boosted filling thread that was waiting when the previous buffer had  *)
(* been sent is never caught filling the buffer that is sent next.  Without*)
(* the priority it may be: it wakes up after the increment, takes the index*)
(* of the buffer that comes next and begins to fill it before the transfer *)
(* of that buffer starts.                                                  *)
NotTornInTime == boosted /\ flusher = "sending" /\ onTime > 0 => sent # Torn

(* The buffers are sent in the order in which they were filled, none lost  *)
(* or repeated, from the start on and again once a late spell is Settled.  *)
SentInTurn == [][boosted /\ onTime = Settled /\ FlushStart => sent' = NextGen(sent)]_asyncVars

(* plc_tx_stop_transmission returns, whatever signals are lost: the sending*)
(* thread keeps sending and signalling until the filling thread is joined. *)
(* Unless the program ends on an index that was read before its wrap.      *)
StopCompletes == ctl = "joining_tx" ~> ctl \in {"idle", "crashed"}

(* A late filling thread gets back in step by itself, also from an index   *)
(* outside of the buffers, unless its callbacks sleep again, the program   *)
(* ends on such an index or the transmission is stopped.                   *)
Recovers == boosted /\ onTime = 0 ~> onTime = Settled \/ blocked \/ ctl # "running"
=============================================================================
