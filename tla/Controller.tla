----------------------------- MODULE Controller -----------------------------
(***************************************************************************)
(* The activation of the communication in plc-cape-lab/controller.c: the   *)
(* thread of the UI activates and deactivates the controller, and the      *)
(* communication timer runs sigev_timer_communication_thread in a thread   *)
(* of its own at each expiry (SIGEV_THREAD).  They share the file's static *)
(* variables without a lock.                                               *)
(*                                                                         *)
(* Starting and stopping take long (rx_start_capture sleeps 100 ms, the    *)
(* stops join threads), so they are split at their calls.  The objects     *)
(* behind those calls are reduced to running or not; stopping what does    *)
(* not run fails an assertion there (a join, adc_stop_capture), and a      *)
(* failed assertion ends the process: failed names it.                     *)
(***************************************************************************)
CONSTANTS
  Callbacks,      \* the threads that run the timer's callback
  Overlapping     \* those that may run it while another call is under way

ASSUME ControllerAssumption ==
  /\ "ui" \notin Callbacks
  /\ Overlapping \subseteq Callbacks

VARIABLES
  serial,                        \* a call begins only when no other is under way
  controller_activated,
  controller_communication_in_progress,
  mode,                          \* which of the two time settings are not 0
  use_communication_timer,
  communication_timer,           \* the timer of communication_timer_id
  stop_communication_on_timer,
  supervisor_timer,              \* the timer of supervisor_timer_id exists
  afe, tx, rx, monitor_running,  \* what controller_start_communication starts
  pc,                            \* where each thread is
  ret,                           \* where start, stop and deactivate return to
  failed                         \* the assertion that ended the process

activation == <<controller_activated, mode, use_communication_timer, supervisor_timer>>
timer == <<communication_timer, stop_communication_on_timer>>
comm == <<afe, tx, rx, monitor_running, controller_communication_in_progress>>
moving == <<activation, timer, comm, pc, ret, failed>>
vars == <<serial, moving>>

Threads == Callbacks \cup {"ui"}
Modes == {"unlimited", "timeout", "periodic"}
Labels == {"idle", "prepare_timer", "callback", "start", "start_tx", "start_rx",
           "rx_failed", "start_monitor", "stop", "stop_tx", "stop_monitor", "deactivate",
           "deactivating", "deactivated", "started", "start_failed", "stopped", "toggle"}
Functions == {"stop", "deactivate"}   \* those that are called from several places
Assertions == {"none", "already in progress", "not in progress", "no such timer",
               "not running"}

Init ==
  /\ serial \in BOOLEAN
  /\ controller_activated = FALSE
  /\ controller_communication_in_progress = FALSE
  /\ mode = "unlimited"
  /\ use_communication_timer = FALSE
  /\ communication_timer = "none"
  /\ stop_communication_on_timer = FALSE
  /\ supervisor_timer = FALSE
  /\ afe = FALSE /\ tx = FALSE /\ rx = FALSE /\ monitor_running = FALSE
  /\ pc = [t \in Threads |-> "idle"]
  /\ ret = [t \in Threads |-> [function \in Functions |-> "idle"]]
  /\ failed = "none"

\* Thread t moves from one label to the next while the process lives.
At(t, label) == failed = "none" /\ pc[t] = label

\* A menu command or an expiry may begin.  The code does not wait for this:
\* serial describes communication times long enough for it never to matter.
MayEnter(t) ==
  /\ At(t, "idle")
  /\ IF serial THEN \A s \in Threads : pc[s] = "idle" ELSE t \in Overlapping \cup {"ui"}

Goto(t, label) == pc' = [pc EXCEPT ![t] = label]
Continue(t, label) == Goto(t, label) /\ UNCHANGED <<ret, failed>>

\* Thread t calls a function, named by its first label, and goes on at back.
Call(t, function, back) ==
  /\ Goto(t, function)
  /\ ret' = [ret EXCEPT ![t][function] = back]
  /\ UNCHANGED failed

\* An assertion fails.
Abort(name) ==
  /\ failed' = name
  /\ UNCHANGED <<activation, timer, comm, pc, ret>>
-----------------------------------------------------------------------------
(* controller_start_communication                                          *)

StartBegin(t) ==
  /\ At(t, "start")
  /\ \/ /\ ~controller_communication_in_progress
        /\ afe' = TRUE
        /\ Continue(t, "start_tx")
        /\ UNCHANGED <<activation, timer, tx, rx, monitor_running,
                       controller_communication_in_progress>>
     \/ controller_communication_in_progress /\ Abort("already in progress")

StartTx(t) ==
  /\ At(t, "start_tx")
  /\ tx' = TRUE
  /\ Continue(t, "start_rx")
  /\ UNCHANGED <<activation, timer, afe, rx, monitor_running,
                 controller_communication_in_progress>>

\* plc_tx_start_transmission fails: error at stage 1.
StartTxFails(t) ==
  /\ At(t, "start_tx")
  /\ afe' = FALSE
  /\ Continue(t, "start_failed")
  /\ UNCHANGED <<activation, timer, tx, rx, monitor_running,
                 controller_communication_in_progress>>

StartRx(t) ==
  /\ At(t, "start_rx")
  /\ rx' = TRUE
  /\ Continue(t, "start_monitor")
  /\ UNCHANGED <<activation, timer, afe, tx, monitor_running,
                 controller_communication_in_progress>>

StartRxFails(t) ==
  /\ At(t, "start_rx")
  /\ Continue(t, "rx_failed")
  /\ UNCHANGED <<activation, timer, comm>>

\* Mutant: the transmission is left running.
StartUndoneButTx(t) ==
  /\ At(t, "rx_failed")
  /\ afe' = FALSE
  /\ Continue(t, "start_failed")
  /\ UNCHANGED <<activation, timer, tx, rx, monitor_running,
                 controller_communication_in_progress>>

\* Error at stage 2: the transmission is stopped again.
StartUndone(t) ==
  /\ At(t, "rx_failed")
  /\ \/ /\ tx
        /\ tx' = FALSE
        /\ afe' = FALSE
        /\ Continue(t, "start_failed")
        /\ UNCHANGED <<activation, timer, rx, monitor_running,
                       controller_communication_in_progress>>
     \/ ~tx /\ Abort("not running")

StartEnd(t) ==
  /\ At(t, "start_monitor")
  /\ monitor_running' = TRUE
  /\ controller_communication_in_progress' = TRUE
  /\ Continue(t, "started")
  /\ UNCHANGED <<activation, timer, afe, tx, rx>>
-----------------------------------------------------------------------------
(* controller_stop_communication                                           *)

StopRx(t) ==
  /\ At(t, "stop")
  /\ \/ /\ controller_communication_in_progress
        /\ rx
        /\ rx' = FALSE
        /\ Continue(t, "stop_tx")
        /\ UNCHANGED <<activation, timer, afe, tx, monitor_running,
                       controller_communication_in_progress>>
     \/ ~controller_communication_in_progress /\ Abort("not in progress")
     \/ controller_communication_in_progress /\ ~rx /\ Abort("not running")

StopTx(t) ==
  /\ At(t, "stop_tx")
  /\ \/ /\ tx
        /\ tx' = FALSE
        /\ Continue(t, "stop_monitor")
        /\ UNCHANGED <<activation, timer, afe, rx, monitor_running,
                       controller_communication_in_progress>>
     \/ ~tx /\ Abort("not running")

StopEnd(t) ==
  /\ At(t, "stop_monitor")
  /\ \/ /\ monitor_running
        /\ monitor_running' = FALSE
        /\ afe' = FALSE
        /\ controller_communication_in_progress' = FALSE
        /\ Continue(t, ret[t]["stop"])
        /\ UNCHANGED <<activation, timer, tx, rx>>
     \/ ~monitor_running /\ Abort("not running")
-----------------------------------------------------------------------------
(* controller_deactivate                                                   *)

DeactivateBegin(t) ==
  /\ At(t, "deactivate")
  /\ \/ /\ ~controller_activated
        /\ Continue(t, ret[t]["deactivate"])
        /\ UNCHANGED <<activation, timer, comm>>
     \/ /\ controller_activated
        /\ use_communication_timer => communication_timer # "none"
        /\ communication_timer' =
             IF use_communication_timer THEN "none" ELSE communication_timer
        /\ Continue(t, "deactivating")
        /\ UNCHANGED <<activation, stop_communication_on_timer, comm>>
     \/ /\ controller_activated
        /\ use_communication_timer /\ communication_timer = "none"
        /\ Abort("no such timer")

DeactivateStops(t) ==
  /\ At(t, "deactivating")
  /\ IF controller_communication_in_progress
       THEN Call(t, "stop", "deactivated")
       ELSE Continue(t, "deactivated")
  /\ UNCHANGED <<activation, timer, comm>>

DeactivateEnd(t) ==
  /\ At(t, "deactivated")
  /\ \/ /\ supervisor_timer
        /\ controller_activated' = FALSE
        /\ supervisor_timer' = FALSE
        /\ Continue(t, ret[t]["deactivate"])
        /\ UNCHANGED <<mode, use_communication_timer, timer, comm>>
     \/ ~supervisor_timer /\ Abort("no such timer")
-----------------------------------------------------------------------------
(* The UI thread.                                                          *)

\* controller_activate_async up to its use of the timer; the settings can be
\* changed only while the controller is not active.
Activate(m) ==
  /\ MayEnter("ui")
  /\ ~controller_activated
  /\ supervisor_timer' = TRUE
  /\ controller_activated' = TRUE
  /\ mode' = m
  /\ use_communication_timer' = (m # "unlimited")
  /\ Continue("ui", "prepare_timer")
  /\ UNCHANGED <<timer, comm>>

\* Mutant: what the timer has to do is not set for a timeout.
ActivateStartsUntold ==
  /\ At("ui", "prepare_timer")
  /\ communication_timer' = IF use_communication_timer THEN "armed" ELSE communication_timer
  /\ stop_communication_on_timer' = (mode # "periodic" /\ stop_communication_on_timer)
  /\ Continue("ui", IF mode = "periodic" THEN "idle" ELSE "start")
  /\ UNCHANGED <<activation, comm>>

\* A periodic communication is started by the timer; any other one at once,
\* after the timer that limits it.
ActivateStarts ==
  /\ At("ui", "prepare_timer")
  /\ communication_timer' = IF use_communication_timer THEN "armed" ELSE communication_timer
  /\ stop_communication_on_timer' =
       CASE mode = "periodic" -> FALSE
         [] mode = "timeout" -> TRUE
         [] OTHER -> stop_communication_on_timer
  /\ Continue("ui", IF mode = "periodic" THEN "idle" ELSE "start")
  /\ UNCHANGED <<activation, comm>>

Activated ==
  /\ At("ui", "started")
  /\ Continue("ui", "idle")
  /\ UNCHANGED <<activation, timer, comm>>

ActivateFails ==
  /\ At("ui", "start_failed")
  /\ Call("ui", "deactivate", "idle")
  /\ UNCHANGED <<activation, timer, comm>>

Deactivate ==
  /\ MayEnter("ui")
  /\ Call("ui", "deactivate", "idle")
  /\ UNCHANGED <<activation, timer, comm>>
-----------------------------------------------------------------------------
(* The timer and its callback.                                             *)

TimerExpires(t) ==
  /\ MayEnter(t)
  /\ communication_timer = "armed"
  /\ communication_timer' = "disarmed"
  /\ Continue(t, "callback")
  /\ UNCHANGED <<activation, stop_communication_on_timer, comm>>

CallbackBegin(t) ==
  /\ At(t, "callback")
  /\ IF stop_communication_on_timer THEN Call(t, "stop", "stopped")
                                    ELSE Continue(t, "start")
  /\ UNCHANGED <<activation, timer, comm>>

\* timer_settime
Rearm(t) ==
  \/ /\ communication_timer # "none"
     /\ communication_timer' = "armed"
     /\ Continue(t, "toggle")
     /\ UNCHANGED <<activation, stop_communication_on_timer, comm>>
  \/ communication_timer = "none" /\ Abort("no such timer")

CallbackStarted(t) == At(t, "started") /\ Rearm(t)

\* Mutant: the controller is not deactivated.
CallbackStoppedOnly(t) ==
  /\ At(t, "stopped")
  /\ \/ mode = "periodic" /\ Rearm(t)
     \/ mode # "periodic" /\ Continue(t, "toggle")
        /\ UNCHANGED <<activation, timer, comm>>

CallbackStopped(t) ==
  /\ At(t, "stopped")
  /\ \/ mode = "periodic" /\ Rearm(t)
     \/ mode # "periodic" /\ Call(t, "deactivate", "toggle")
        /\ UNCHANGED <<activation, timer, comm>>

CallbackFails(t) ==
  /\ At(t, "start_failed")
  /\ Call(t, "deactivate", "toggle")
  /\ UNCHANGED <<activation, timer, comm>>

CallbackEnd(t) ==
  /\ At(t, "toggle")
  /\ stop_communication_on_timer' = ~stop_communication_on_timer
  /\ Continue(t, "idle")
  /\ UNCHANGED <<activation, communication_timer, comm>>
-----------------------------------------------------------------------------
StartSteps(t) ==
  \/ StartBegin(t) \/ StartTx(t) \/ StartTxFails(t) \/ StartRx(t) \/ StartRxFails(t)
  \/ StartUndone(t) \/ StartEnd(t)
StopSteps(t) == StopRx(t) \/ StopTx(t) \/ StopEnd(t)
DeactivateSteps(t) == DeactivateBegin(t) \/ DeactivateStops(t) \/ DeactivateEnd(t)

\* What a thread does once it has been entered.
ThreadSteps(t) == StartSteps(t) \/ StopSteps(t) \/ DeactivateSteps(t)
UiSteps == ThreadSteps("ui") \/ ActivateStarts \/ Activated \/ ActivateFails
CallbackSteps(t) ==
  \/ ThreadSteps(t) \/ CallbackBegin(t) \/ CallbackStarted(t) \/ CallbackStopped(t)
  \/ CallbackFails(t) \/ CallbackEnd(t)

Next ==
  /\ \/ UiSteps
     \/ Deactivate
     \/ \E m \in Modes : Activate(m)
     \/ \E t \in Callbacks : TimerExpires(t) \/ CallbackSteps(t)
  /\ UNCHANGED serial

Spec == Init /\ [][Next]_vars

\* Calls under way go on and an armed timer expires; the user promises nothing.
FairSpec ==
  /\ Spec
  /\ WF_moving(UiSteps)
  /\ \A t \in Callbacks : WF_moving(CallbackSteps(t))
  /\ WF_moving(\E t \in Callbacks : TimerExpires(t))
-----------------------------------------------------------------------------
TypeOK ==
  /\ serial \in BOOLEAN
  /\ controller_activated \in BOOLEAN
  /\ controller_communication_in_progress \in BOOLEAN
  /\ mode \in Modes
  /\ use_communication_timer = (mode # "unlimited")
  /\ communication_timer \in {"none", "disarmed", "armed"}
  /\ stop_communication_on_timer \in BOOLEAN
  /\ supervisor_timer \in BOOLEAN
  /\ {afe, tx, rx, monitor_running} \subseteq BOOLEAN
  /\ pc \in [Threads -> Labels]
  /\ ret \in [Threads -> [Functions -> Labels]]
  /\ failed \in Assertions

AllIdle == serial /\ failed = "none" /\ \A t \in Threads : pc[t] = "idle"

(* Between calls the parts of a communication run all together or not at   *)
(* all, and controller_communication_in_progress says which: a failed      *)
(* start is undone completely.  And after the controller is deactivated    *)
(* nothing it started is left: no thread, no timer, and the AFE off,       *)
(* however the start or stop ended.                                        *)
AllOrNothing ==
  AllIdle =>
    /\ tx = controller_communication_in_progress
    /\ rx = controller_communication_in_progress
    /\ monitor_running = controller_communication_in_progress
    /\ afe = controller_communication_in_progress
    /\ ~controller_activated =>
         /\ ~controller_communication_in_progress
         /\ communication_timer = "none"
         /\ ~supervisor_timer

(* None of the assertions of the calls fails.                              *)
NoAssertionFails == serial => failed = "none"

(* A communication with a limit and no period also leaves the controller   *)
(* off, even when calls overlap, if no assertion ends the process first.   *)
TimeoutDeactivates ==
  controller_activated /\ mode = "timeout" ~> ~controller_activated \/ failed # "none"
=============================================================================
