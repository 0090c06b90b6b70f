-------------------------- MODULE ControllerProofs --------------------------
(***************************************************************************)
(* Proofs about Controller for any set of callback threads: what holds of  *)
(* calls that do not overlap.                                              *)
(***************************************************************************)
EXTENDS Controller, TLAPS

\* The parts of a communication run all, or none of them does.
On == afe /\ tx /\ rx /\ monitor_running /\ controller_communication_in_progress
Off == ~afe /\ ~tx /\ ~rx /\ ~monitor_running /\ ~controller_communication_in_progress

Active == controller_activated /\ supervisor_timer
Inactive ==
  ~controller_activated /\ ~supervisor_timer /\ communication_timer = "none" /\ Off

\* What the timer is while the user's thread starts a communication, and at rest.
Limited == communication_timer = IF use_communication_timer THEN "armed" ELSE "none"

\* Between calls an armed timer stops what runs and starts what does not.
Rest ==
  \/ Inactive
  \/ /\ Active /\ Limited
     /\ On \/ Off
     /\ mode # "periodic" => On
     /\ use_communication_timer => (stop_communication_on_timer <=> tx)

\* Thread t runs the callback of an expired timer.
Expired(t) ==
  t # "ui" /\ Active /\ use_communication_timer /\ communication_timer = "disarmed"

\* Thread t is starting a communication.
Starting(t) ==
  /\ Active
  /\ \/ /\ t = "ui" /\ mode # "periodic" /\ Limited
        /\ use_communication_timer => stop_communication_on_timer
     \/ Expired(t) /\ mode = "periodic" /\ ~stop_communication_on_timer

\* Thread t is deactivating, its timer deleted.
Ending(t) ==
  /\ Active /\ communication_timer = "none"
  /\ ret[t]["deactivate"] = IF t = "ui" THEN "idle" ELSE "toggle"

\* Thread t is stopping a communication, from either of its callers.
Stopping(t) ==
  \/ ret[t]["stop"] = "stopped" /\ Expired(t) /\ stop_communication_on_timer
  \/ ret[t]["stop"] = "deactivated" /\ Ending(t)

\* What holds when t is at the label and every other thread is idle.
PhaseOfStart(t, label) ==
  /\ label = "start" => Starting(t) /\ Off
  /\ label = "start_tx" =>
       /\ Starting(t)
       /\ afe /\ ~tx /\ ~rx /\ ~monitor_running /\ ~controller_communication_in_progress
  /\ label \in {"start_rx", "rx_failed"} =>
       /\ Starting(t)
       /\ afe /\ tx /\ ~rx /\ ~monitor_running /\ ~controller_communication_in_progress
  /\ label = "start_monitor" =>
       /\ Starting(t)
       /\ afe /\ tx /\ rx /\ ~monitor_running /\ ~controller_communication_in_progress
  /\ label = "started" => Starting(t) /\ On
  /\ label = "start_failed" => Starting(t) /\ Off

PhaseOfStop(t, label) ==
  /\ label = "stop" => Stopping(t) /\ On
  /\ label = "stop_tx" =>
       /\ Stopping(t)
       /\ afe /\ tx /\ ~rx /\ monitor_running /\ controller_communication_in_progress
  /\ label = "stop_monitor" =>
       /\ Stopping(t)
       /\ afe /\ ~tx /\ ~rx /\ monitor_running /\ controller_communication_in_progress
  /\ label = "stopped" => Expired(t) /\ stop_communication_on_timer /\ Off

PhaseOfDeactivate(t, label) ==
  /\ label = "deactivate" =>
       /\ ret[t]["deactivate"] = IF t = "ui" THEN "idle" ELSE "toggle"
       /\ \/ Inactive
          \/ /\ Active
             /\ On \/ Off
             /\ use_communication_timer <=> communication_timer # "none"
  /\ label = "deactivating" => Ending(t) /\ (On \/ Off)
  /\ label = "deactivated" => Ending(t) /\ Off

PhaseOfTimer(t, label) ==
  /\ label = "idle" => Rest
  /\ label = "prepare_timer" =>
       t = "ui" /\ Active /\ communication_timer = "none" /\ Off
  /\ label = "callback" =>
       /\ Expired(t) /\ (On \/ Off)
       /\ mode # "periodic" => On
       /\ stop_communication_on_timer <=> tx
  /\ label = "toggle" =>
       /\ t # "ui"
       /\ \/ Inactive
          \/ /\ Active /\ mode = "periodic" /\ communication_timer = "armed"
             /\ On \/ Off
             /\ stop_communication_on_timer <=> ~tx

Phase(t, label) ==
  /\ PhaseOfStart(t, label)
  /\ PhaseOfStop(t, label)
  /\ PhaseOfDeactivate(t, label)
  /\ PhaseOfTimer(t, label)

Alone(t) == \A s \in Threads : s # t => pc[s] = "idle"

\* While calls do not overlap, at most one thread is in a call, and the state
\* is the one its place asks for.
OneAtATime == serial => failed = "none" /\ \E t \in Threads : Alone(t) /\ Phase(t, pc[t])

IInv == TypeOK /\ OneAtATime
-----------------------------------------------------------------------------
(* The types.                                                              *)

LEMMA InitTypes == Init => TypeOK
<1> SUFFICES ASSUME Init PROVE TypeOK
  OBVIOUS
<1>1. /\ serial \in BOOLEAN /\ controller_activated \in BOOLEAN
      /\ controller_communication_in_progress \in BOOLEAN
      /\ stop_communication_on_timer \in BOOLEAN /\ supervisor_timer \in BOOLEAN
      /\ {afe, tx, rx, monitor_running} \subseteq BOOLEAN
  BY Zenon DEF Init
<1>2. mode \in Modes /\ use_communication_timer = (mode # "unlimited")
  BY DEF Init, Modes
<1>3. communication_timer \in {"none", "disarmed", "armed"} /\ failed \in Assertions
  BY DEF Init, Assertions
<1>4. pc \in [Threads -> Labels]
  BY DEF Init, Labels
<1>5. ret \in [Threads -> [Functions -> Labels]]
  BY DEF Init, Labels
<1> QED
  BY <1>1, <1>2, <1>3, <1>4, <1>5 DEF TypeOK

LEMMA ReturnTypes ==
  ASSUME TypeOK, NEW t \in Threads, NEW f \in Functions
  PROVE  ret[t][f] \in Labels
BY DEF TypeOK

LEMMA CallTypes ==
  ASSUME TypeOK, NEW t \in Threads, NEW f \in Functions, NEW back \in Labels,
         Call(t, f, back)
  PROVE  /\ pc' \in [Threads -> Labels]
         /\ ret' \in [Threads -> [Functions -> Labels]]
         /\ failed' \in Assertions
<1>1. f \in Labels
  BY DEF Functions, Labels
<1>2. pc' \in [Threads -> Labels] /\ failed' \in Assertions
  BY <1>1 DEF Call, Goto, TypeOK
<1>3. [ret[t] EXCEPT ![f] = back] \in [Functions -> Labels]
  BY DEF TypeOK
<1>4. ret' = [ret EXCEPT ![t] = [ret[t] EXCEPT ![f] = back]]
  BY DEF Call, TypeOK
<1>5. ret' \in [Threads -> [Functions -> Labels]]
  BY <1>3, <1>4 DEF TypeOK
<1> QED
  BY <1>2, <1>5

LEMMA ThreadTypes ==
  ASSUME TypeOK, NEW t \in Threads, ThreadSteps(t), UNCHANGED serial
  PROVE  TypeOK'
<1> USE DEF TypeOK, Modes, Labels, Functions, Assertions, At, Goto, Continue, Call, Abort,
       activation, timer, comm
<1>1. CASE StartSteps(t)
  <2>1. CASE StartBegin(t)
    BY <2>1, ZenonT(40) DEF StartBegin
  <2>2. CASE StartTx(t)
    BY <2>2 DEF StartTx
  <2>3. CASE StartTxFails(t)
    BY <2>3 DEF StartTxFails
  <2>4. CASE StartRx(t)
    BY <2>4 DEF StartRx
  <2>5. CASE StartRxFails(t)
    BY <2>5 DEF StartRxFails
  <2>6. CASE StartUndone(t)
    BY <2>6, ZenonT(40) DEF StartUndone
  <2>7. CASE StartEnd(t)
    BY <2>7 DEF StartEnd
  <2> QED
    BY <1>1, <2>1, <2>2, <2>3, <2>4, <2>5, <2>6, <2>7 DEF StartSteps
<1>2. CASE StopSteps(t)
  <2>1. CASE StopRx(t)
    BY <2>1, ZenonT(40) DEF StopRx
  <2>2. CASE StopTx(t)
    BY <2>2, ZenonT(40) DEF StopTx
  <2>3. CASE StopEnd(t)
    <3>1. ret[t]["stop"] \in Labels
      BY ReturnTypes DEF Functions
    <3>2. pc' \in [Threads -> Labels]
      BY <2>3, <3>1 DEF StopEnd
    <3> QED
      BY <2>3, <3>2, ZenonT(40) DEF StopEnd
  <2> QED
    BY <1>2, <2>1, <2>2, <2>3 DEF StopSteps
<1>3. CASE DeactivateSteps(t)
  <2>1. CASE DeactivateBegin(t)
    <3>1. ret[t]["deactivate"] \in Labels
      BY ReturnTypes DEF Functions
    <3>2. pc' \in [Threads -> Labels]
      BY <2>1, <3>1 DEF DeactivateBegin
    <3> QED
      BY <2>1, <3>2, ZenonT(40) DEF DeactivateBegin
  <2>2. CASE DeactivateStops(t)
    <3>1. CASE Call(t, "stop", "deactivated")
      BY <2>2, <3>1, CallTypes, ZenonT(40) DEF DeactivateStops
    <3>2. CASE Continue(t, "deactivated")
      BY <2>2, <3>2 DEF DeactivateStops
    <3> QED
      BY <2>2, <3>1, <3>2 DEF DeactivateStops
  <2>3. CASE DeactivateEnd(t)
    <3>1. ret[t]["deactivate"] \in Labels
      BY ReturnTypes DEF Functions
    <3>2. pc' \in [Threads -> Labels]
      BY <2>3, <3>1 DEF DeactivateEnd
    <3> QED
      BY <2>3, <3>2, ZenonT(40) DEF DeactivateEnd
  <2> QED
    BY <1>3, <2>1, <2>2, <2>3 DEF DeactivateSteps
<1> QED
  BY <1>1, <1>2, <1>3 DEF ThreadSteps

LEMMA UiTypes ==
  ASSUME TypeOK, UiSteps \/ Deactivate \/ (\E m \in Modes : Activate(m)), UNCHANGED serial
  PROVE  TypeOK'
<1> USE DEF TypeOK, Labels, Functions, At, MayEnter, Goto, Continue, Call,
       activation, timer, comm
<1>0. "ui" \in Threads
  BY DEF Threads
<1>1. CASE ThreadSteps("ui")
  BY <1>0, <1>1, ThreadTypes
<1>2. CASE ActivateStarts
  BY <1>0, <1>2 DEF ActivateStarts
<1>3. CASE Activated
  BY <1>0, <1>3 DEF Activated
<1>4. CASE ActivateFails
  BY <1>0, <1>4 DEF ActivateFails
<1>5. CASE Deactivate
  BY <1>0, <1>5 DEF Deactivate
<1>6. CASE \E m \in Modes : Activate(m)
  <2> PICK m \in Modes : Activate(m)
    BY <1>6
  <2> QED
    BY <1>0 DEF Activate
<1> QED
  BY <1>1, <1>2, <1>3, <1>4, <1>5, <1>6 DEF UiSteps

LEMMA CallbackTypes ==
  ASSUME TypeOK, NEW t \in Callbacks, TimerExpires(t) \/ CallbackSteps(t), UNCHANGED serial
  PROVE  TypeOK'
<1> USE DEF TypeOK, Labels, Functions, Assertions, At, MayEnter, Goto, Continue, Call, Abort,
       activation, timer, comm
<1>0. t \in Threads
  BY DEF Threads
<1>1. CASE ThreadSteps(t)
  BY <1>0, <1>1, ThreadTypes
<1>2. CASE TimerExpires(t)
  BY <1>0, <1>2 DEF TimerExpires
<1>3. CASE CallbackBegin(t)
  <2>1. CASE Call(t, "stop", "stopped")
    BY <1>0, <1>3, <2>1, CallTypes DEF CallbackBegin
  <2>2. CASE Continue(t, "start")
    BY <1>0, <1>3, <2>2 DEF CallbackBegin
  <2> QED
    BY <1>3, <2>1, <2>2, ZenonT(40) DEF CallbackBegin
<1>4. CASE CallbackStarted(t)
  BY <1>0, <1>4 DEF CallbackStarted, Rearm
<1>5. CASE CallbackStopped(t)
  <2>1. CASE Rearm(t)
    BY <1>0, <1>5, <2>1, ZenonT(40) DEF CallbackStopped, Rearm
  <2>2. CASE Call(t, "deactivate", "toggle") /\ UNCHANGED <<activation, timer, comm>>
    BY <1>0, <2>2, CallTypes, ZenonT(40)
  <2> QED
    BY <1>5, <2>1, <2>2 DEF CallbackStopped
<1>6. CASE CallbackFails(t)
  BY <1>0, <1>6 DEF CallbackFails
<1>7. CASE CallbackEnd(t)
  BY <1>0, <1>7 DEF CallbackEnd
<1> QED
  BY <1>1, <1>2, <1>3, <1>4, <1>5, <1>6, <1>7 DEF CallbackSteps

LEMMA StepTypes == TypeOK /\ [Next]_vars => TypeOK'
<1> SUFFICES ASSUME TypeOK, [Next]_vars PROVE TypeOK'
  OBVIOUS
<1>1. CASE UNCHANGED vars
  BY <1>1 DEF vars, moving, activation, timer, comm, TypeOK
<1> QED
  BY <1>1, UiTypes, CallbackTypes DEF Next
-----------------------------------------------------------------------------
(* One call at a time.                                                     *)

\* A thread that is in a call is the one that is.
LEMMA InCall ==
  ASSUME OneAtATime, serial, NEW t \in Threads, pc[t] # "idle"
  PROVE  failed = "none" /\ Alone(t) /\ Phase(t, pc[t])
BY DEF OneAtATime, Alone

\* A thread that enters a call finds the others at rest.
LEMMA Entering ==
  ASSUME OneAtATime, serial, NEW t \in Threads, MayEnter(t)
  PROVE  failed = "none" /\ Alone(t) /\ Rest
<1>1. Alone(t) /\ pc[t] = "idle"
  BY DEF MayEnter, At, Alone
<1>2. PICK s \in Threads : Alone(s) /\ Phase(s, pc[s])
  BY DEF OneAtATime
<1>3. pc[s] = "idle"
  BY <1>1 DEF Alone
<1>4. Rest
  BY <1>2, <1>3 DEF Phase, PhaseOfTimer
<1> QED
  BY <1>1, <1>4 DEF OneAtATime

\* It stays alone when it goes to a label whose condition holds.
LEMMA Going ==
  ASSUME TypeOK, NEW t \in Threads, Alone(t), NEW label \in Labels,
         Goto(t, label), failed' = "none", Phase(t, label)'
  PROVE  OneAtATime'
<1>1. pc'[t] = label
  BY DEF Goto, TypeOK
<1>2. Alone(t)'
  BY DEF Alone, Goto, TypeOK
<1>3. Phase(t, pc[t])'
  BY <1>1
<1> QED
  BY <1>2, <1>3 DEF OneAtATime

\* What a thread knows of the activation and the timer stays while neither changes.
LEMMA StillStarting ==
  ASSUME NEW t \in Threads, Starting(t), UNCHANGED <<activation, timer>>
  PROVE  Starting(t)'
BY DEF Starting, Expired, Active, Limited, activation, timer

LEMMA StillStopping ==
  ASSUME NEW t \in Threads, Stopping(t), UNCHANGED <<activation, timer, ret>>
  PROVE  Stopping(t)'
BY DEF Stopping, Expired, Ending, Active, activation, timer

LEMMA StartCalls ==
  ASSUME TypeOK, OneAtATime, serial, NEW t \in Threads, StartSteps(t)
  PROVE  OneAtATime'
<1>0. failed = "none" /\ Alone(t) /\ Phase(t, pc[t])
  BY InCall DEF StartSteps, StartBegin, StartTx, StartTxFails, StartRx, StartRxFails, StartUndone,
     StartEnd, At
<1> USE <1>0 DEF Phase, PhaseOfStart
<1>1. CASE StartBegin(t)
  <2>1. Starting(t) /\ Off
    BY <1>1 DEF StartBegin, At
  <2>2. /\ afe' = TRUE /\ Continue(t, "start_tx")
        /\ UNCHANGED <<activation, timer, tx, rx, monitor_running,
                       controller_communication_in_progress>>
    BY <1>1, <2>1 DEF StartBegin, Off
  <2>3. Starting(t)'
    BY <2>1, <2>2, StillStarting
  <2>4. afe' /\ ~tx' /\ ~rx' /\ ~monitor_running' /\ ~controller_communication_in_progress'
    BY <2>1, <2>2 DEF Off
  <2>5. Phase(t, "start_tx")'
    BY <2>3, <2>4 DEF PhaseOfStop, PhaseOfDeactivate, PhaseOfTimer
  <2> QED
    BY <2>2, <2>5, Going DEF Labels, Continue
<1>2. CASE StartTx(t)
  <2>1. /\ Starting(t)
        /\ afe /\ ~tx /\ ~rx /\ ~monitor_running /\ ~controller_communication_in_progress
    BY <1>2 DEF StartTx, At
  <2>2. /\ tx' = TRUE /\ Continue(t, "start_rx")
        /\ UNCHANGED <<activation, timer, afe, rx, monitor_running,
                       controller_communication_in_progress>>
    BY <1>2, <2>1 DEF StartTx
  <2>3. Starting(t)'
    BY <2>1, <2>2, StillStarting
  <2>4. afe' /\ tx' /\ ~rx' /\ ~monitor_running' /\ ~controller_communication_in_progress'
    BY <2>1, <2>2
  <2>5. Phase(t, "start_rx")'
    BY <2>3, <2>4 DEF PhaseOfStop, PhaseOfDeactivate, PhaseOfTimer
  <2> QED
    BY <2>2, <2>5, Going DEF Labels, Continue
<1>3. CASE StartTxFails(t)
  <2>1. /\ Starting(t)
        /\ afe /\ ~tx /\ ~rx /\ ~monitor_running /\ ~controller_communication_in_progress
    BY <1>3 DEF StartTxFails, At
  <2>2. /\ afe' = FALSE /\ Continue(t, "start_failed")
        /\ UNCHANGED <<activation, timer, tx, rx, monitor_running,
                       controller_communication_in_progress>>
    BY <1>3, <2>1 DEF StartTxFails
  <2>3. Starting(t)'
    BY <2>1, <2>2, StillStarting
  <2>4. Off'
    BY <2>1, <2>2 DEF Off
  <2>5. Phase(t, "start_failed")'
    BY <2>3, <2>4 DEF PhaseOfStop, PhaseOfDeactivate, PhaseOfTimer
  <2> QED
    BY <2>2, <2>5, Going DEF Labels, Continue
<1>4. CASE StartRx(t)
  <2>1. /\ Starting(t)
        /\ afe /\ tx /\ ~rx /\ ~monitor_running /\ ~controller_communication_in_progress
    BY <1>4 DEF StartRx, At
  <2>2. /\ rx' = TRUE /\ Continue(t, "start_monitor")
        /\ UNCHANGED <<activation, timer, afe, tx, monitor_running,
                       controller_communication_in_progress>>
    BY <1>4, <2>1 DEF StartRx
  <2>3. Starting(t)'
    BY <2>1, <2>2, StillStarting
  <2>4. afe' /\ tx' /\ rx' /\ ~monitor_running' /\ ~controller_communication_in_progress'
    BY <2>1, <2>2
  <2>5. Phase(t, "start_monitor")'
    BY <2>3, <2>4 DEF PhaseOfStop, PhaseOfDeactivate, PhaseOfTimer
  <2> QED
    BY <2>2, <2>5, Going DEF Labels, Continue
<1>5. CASE StartRxFails(t)
  <2>1. /\ Starting(t)
        /\ afe /\ tx /\ ~rx /\ ~monitor_running /\ ~controller_communication_in_progress
    BY <1>5 DEF StartRxFails, At
  <2>2. /\ Continue(t, "rx_failed")
        /\ UNCHANGED <<activation, timer, afe, tx, rx, monitor_running,
                       controller_communication_in_progress>>
    BY <1>5, <2>1 DEF StartRxFails, comm
  <2>3. Starting(t)'
    BY <2>1, <2>2, StillStarting
  <2>4. afe' /\ tx' /\ ~rx' /\ ~monitor_running' /\ ~controller_communication_in_progress'
    BY <2>1, <2>2
  <2>5. Phase(t, "rx_failed")'
    BY <2>3, <2>4 DEF PhaseOfStop, PhaseOfDeactivate, PhaseOfTimer
  <2> QED
    BY <2>2, <2>5, Going DEF Labels, Continue
<1>6. CASE StartUndone(t)
  <2>1. /\ Starting(t)
        /\ afe /\ tx /\ ~rx /\ ~monitor_running /\ ~controller_communication_in_progress
    BY <1>6 DEF StartUndone, At
  <2>2. /\ tx' = FALSE /\ afe' = FALSE /\ Continue(t, "start_failed")
        /\ UNCHANGED <<activation, timer, rx, monitor_running,
                       controller_communication_in_progress>>
    BY <1>6, <2>1 DEF StartUndone
  <2>3. Starting(t)'
    BY <2>1, <2>2, StillStarting
  <2>4. Off'
    BY <2>1, <2>2 DEF Off
  <2>5. Phase(t, "start_failed")'
    BY <2>3, <2>4 DEF PhaseOfStop, PhaseOfDeactivate, PhaseOfTimer
  <2> QED
    BY <2>2, <2>5, Going DEF Labels, Continue
<1>7. CASE StartEnd(t)
  <2>1. /\ Starting(t)
        /\ afe /\ tx /\ rx /\ ~monitor_running /\ ~controller_communication_in_progress
    BY <1>7 DEF StartEnd, At
  <2>2. /\ monitor_running' = TRUE /\ controller_communication_in_progress' = TRUE
        /\ Continue(t, "started")
        /\ UNCHANGED <<activation, timer, afe, tx, rx>>
    BY <1>7, <2>1 DEF StartEnd
  <2>3. Starting(t)'
    BY <2>1, <2>2, StillStarting
  <2>4. On'
    BY <2>1, <2>2 DEF On
  <2>5. Phase(t, "started")'
    BY <2>3, <2>4 DEF PhaseOfStop, PhaseOfDeactivate, PhaseOfTimer
  <2> QED
    BY <2>2, <2>5, Going DEF Labels, Continue
<1> QED
  BY <1>1, <1>2, <1>3, <1>4, <1>5, <1>6, <1>7 DEF StartSteps

LEMMA StopCalls ==
  ASSUME TypeOK, OneAtATime, serial, NEW t \in Threads, StopSteps(t)
  PROVE  OneAtATime'
<1>0. failed = "none" /\ Alone(t) /\ Phase(t, pc[t])
  BY InCall DEF StopSteps, StopRx, StopTx, StopEnd, At
<1> USE <1>0 DEF Phase, PhaseOfStop
<1>1. CASE StopRx(t)
  <2>1. Stopping(t) /\ On
    BY <1>1 DEF StopRx, At
  <2>2. /\ rx' = FALSE /\ Continue(t, "stop_tx")
        /\ UNCHANGED <<activation, timer, afe, tx, monitor_running,
                       controller_communication_in_progress>>
    BY <1>1, <2>1 DEF StopRx, On
  <2>3. Stopping(t)'
    BY <2>1, <2>2, StillStopping DEF Continue
  <2>4. afe' /\ tx' /\ ~rx' /\ monitor_running' /\ controller_communication_in_progress'
    BY <2>1, <2>2 DEF On
  <2>5. Phase(t, "stop_tx")'
    BY <2>3, <2>4 DEF PhaseOfStart, PhaseOfDeactivate, PhaseOfTimer
  <2> QED
    BY <2>2, <2>5, Going DEF Labels, Continue
<1>2. CASE StopTx(t)
  <2>1. /\ Stopping(t)
        /\ afe /\ tx /\ ~rx /\ monitor_running /\ controller_communication_in_progress
    BY <1>2 DEF StopTx, At
  <2>2. /\ tx' = FALSE /\ Continue(t, "stop_monitor")
        /\ UNCHANGED <<activation, timer, afe, rx, monitor_running,
                       controller_communication_in_progress>>
    BY <1>2, <2>1 DEF StopTx
  <2>3. Stopping(t)'
    BY <2>1, <2>2, StillStopping DEF Continue
  <2>4. afe' /\ ~tx' /\ ~rx' /\ monitor_running' /\ controller_communication_in_progress'
    BY <2>1, <2>2
  <2>5. Phase(t, "stop_monitor")'
    BY <2>3, <2>4 DEF PhaseOfStart, PhaseOfDeactivate, PhaseOfTimer
  <2> QED
    BY <2>2, <2>5, Going DEF Labels, Continue
<1>3. CASE StopEnd(t)
  <2>1. /\ Stopping(t)
        /\ afe /\ ~tx /\ ~rx /\ monitor_running /\ controller_communication_in_progress
    BY <1>3 DEF StopEnd, At
  <2>2. /\ monitor_running' = FALSE /\ afe' = FALSE
        /\ controller_communication_in_progress' = FALSE /\ Continue(t, ret[t]["stop"])
        /\ UNCHANGED <<activation, timer, tx, rx>>
    BY <1>3, <2>1 DEF StopEnd
  <2>3. Off'
    BY <2>1, <2>2 DEF Off
  <2>4. CASE ret[t]["stop"] = "stopped" /\ Expired(t) /\ stop_communication_on_timer
    <3>1. Expired(t)' /\ stop_communication_on_timer'
      BY <2>2, <2>4 DEF Expired, Active, activation, timer
    <3>2. Phase(t, "stopped")'
      BY <2>3, <3>1 DEF PhaseOfStart, PhaseOfDeactivate, PhaseOfTimer
    <3> QED
      BY <2>2, <2>4, <3>2, Going DEF Labels, Continue
  <2>5. CASE ret[t]["stop"] = "deactivated" /\ Ending(t)
    <3>1. Ending(t)'
      BY <2>2, <2>5 DEF Ending, Active, activation, timer, Continue
    <3>2. Phase(t, "deactivated")'
      BY <2>3, <3>1 DEF PhaseOfStart, PhaseOfDeactivate, PhaseOfTimer
    <3> QED
      BY <2>2, <2>5, <3>2, Going DEF Labels, Continue
  <2> QED
    BY <2>1, <2>4, <2>5 DEF Stopping
<1> QED
  BY <1>1, <1>2, <1>3 DEF StopSteps

\* The end of controller_deactivate, back in the UI or in the callback.
LEMMA Deactivated ==
  ASSUME TypeOK, NEW t \in Threads, Alone(t), Continue(t, ret[t]["deactivate"]),
         failed = "none", Inactive',
         ret[t]["deactivate"] = IF t = "ui" THEN "idle" ELSE "toggle"
  PROVE  OneAtATime'
<1> USE DEF Phase, PhaseOfStart, PhaseOfStop, PhaseOfDeactivate, PhaseOfTimer
<1>1. CASE t = "ui"
  <2>1. Phase(t, "idle")'
    BY DEF Rest
  <2> QED
    BY <1>1, <2>1, Going DEF Labels, Continue
<1>2. CASE t # "ui"
  <2>1. Phase(t, "toggle")'
    BY <1>2
  <2> QED
    BY <1>2, <2>1, Going DEF Labels, Continue
<1> QED
  BY <1>1, <1>2

LEMMA DeactivateCalls ==
  ASSUME TypeOK, OneAtATime, serial, NEW t \in Threads, DeactivateSteps(t)
  PROVE  OneAtATime'
<1>0. failed = "none" /\ Alone(t) /\ Phase(t, pc[t])
  BY InCall DEF DeactivateSteps, DeactivateBegin, DeactivateStops, DeactivateEnd, At
<1> USE <1>0 DEF Phase, PhaseOfDeactivate
<1>1. CASE DeactivateBegin(t)
  <2>1. ret[t]["deactivate"] = IF t = "ui" THEN "idle" ELSE "toggle"
    BY <1>1 DEF DeactivateBegin, At
  <2>2. CASE Inactive
    <3>1. Continue(t, ret[t]["deactivate"]) /\ UNCHANGED <<activation, timer, comm>>
      BY <1>1, <2>2 DEF DeactivateBegin, Inactive
    <3>2. Inactive'
      BY <2>2, <3>1 DEF Inactive, Off, activation, timer, comm
    <3> QED
      BY <2>1, <3>1, <3>2, Deactivated
  <2>3. CASE Active /\ (On \/ Off) /\ (use_communication_timer <=> communication_timer # "none")
    <3>1. /\ communication_timer' =
               IF use_communication_timer THEN "none" ELSE communication_timer
          /\ Continue(t, "deactivating")
          /\ UNCHANGED <<activation, stop_communication_on_timer, comm>>
      BY <1>1, <2>3 DEF DeactivateBegin, Active
    <3>2. communication_timer' = "none"
      BY <2>3, <3>1
    <3>3. Ending(t)'
      BY <2>1, <2>3, <3>1, <3>2 DEF Ending, Active, activation, Continue
    <3>4. (On \/ Off)'
      BY <2>3, <3>1 DEF On, Off, comm
    <3>5. Phase(t, "deactivating")'
      BY <3>3, <3>4 DEF PhaseOfStart, PhaseOfStop, PhaseOfTimer
    <3> QED
      BY <3>1, <3>5, Going DEF Labels, Continue
  <2> QED
    BY <1>1, <2>2, <2>3 DEF DeactivateBegin, At
<1>2. CASE DeactivateStops(t)
  <2>1. Ending(t) /\ (On \/ Off) /\ UNCHANGED <<activation, timer, comm>>
    BY <1>2 DEF DeactivateStops, At
  <2>2. CASE On
    <3>1. Call(t, "stop", "deactivated")
      BY <1>2, <2>2 DEF DeactivateStops, On
    <3>2. ret'[t]["stop"] = "deactivated" /\ ret'[t]["deactivate"] = ret[t]["deactivate"]
      BY <3>1 DEF Call, TypeOK, Functions
    <3>3. Stopping(t)'
      BY <2>1, <3>2 DEF Stopping, Ending, Active, activation, timer
    <3>4. On'
      BY <2>1, <2>2 DEF On, comm
    <3>5. Phase(t, "stop")'
      BY <3>3, <3>4 DEF PhaseOfStart, PhaseOfStop, PhaseOfTimer
    <3> QED
      BY <3>1, <3>5, Going DEF Labels, Call
  <2>3. CASE Off
    <3>1. Continue(t, "deactivated")
      BY <1>2, <2>3 DEF DeactivateStops, Off
    <3>2. Ending(t)' /\ Off'
      BY <2>1, <2>3, <3>1 DEF Ending, Active, Off, Continue, activation, timer, comm
    <3>3. Phase(t, "deactivated")'
      BY <3>2 DEF PhaseOfStart, PhaseOfStop, PhaseOfTimer
    <3> QED
      BY <3>1, <3>3, Going DEF Labels, Continue
  <2> QED
    BY <2>1, <2>2, <2>3
<1>3. CASE DeactivateEnd(t)
  <2>1. Ending(t) /\ Off
    BY <1>3 DEF DeactivateEnd, At
  <2>2. /\ controller_activated' = FALSE /\ supervisor_timer' = FALSE
        /\ Continue(t, ret[t]["deactivate"])
        /\ UNCHANGED <<mode, use_communication_timer, timer, comm>>
    BY <1>3, <2>1 DEF DeactivateEnd, Ending, Active
  <2>3. Inactive'
    BY <2>1, <2>2 DEF Inactive, Ending, Off, timer, comm
  <2> QED
    BY <2>1, <2>2, <2>3, Deactivated DEF Ending
<1> QED
  BY <1>1, <1>2, <1>3 DEF DeactivateSteps

LEMMA ThreadCalls ==
  ASSUME TypeOK, OneAtATime, serial, NEW t \in Threads, ThreadSteps(t)
  PROVE  OneAtATime'
BY StartCalls, StopCalls, DeactivateCalls DEF ThreadSteps
-----------------------------------------------------------------------------
(* The thread of the UI.                                                   *)

LEMMA UiCalls ==
  ASSUME TypeOK, OneAtATime, serial,
         UiSteps \/ Deactivate \/ (\E m \in Modes : Activate(m))
  PROVE  OneAtATime'
<1>0. "ui" \in Threads
  BY DEF Threads
<1> USE <1>0 DEF Phase, PhaseOfStart, PhaseOfStop, PhaseOfDeactivate, PhaseOfTimer
<1>1. CASE ThreadSteps("ui")
  BY <1>1, ThreadCalls
<1>2. CASE ActivateStarts
  <2>1. failed = "none" /\ Alone("ui") /\ Active /\ communication_timer = "none" /\ Off
    BY <1>2, InCall DEF ActivateStarts, At
  <2>2. Limited' /\ UNCHANGED <<activation, comm>>
    BY <1>2, <2>1 DEF ActivateStarts, Limited, activation
  <2>3. Active' /\ Off'
    BY <2>1, <2>2 DEF Active, Off, activation, comm
  <2>4. CASE mode = "periodic"
    <3>1. stop_communication_on_timer' = FALSE /\ Continue("ui", "idle")
      BY <1>2, <2>4 DEF ActivateStarts
    <3>2. Rest'
      BY <2>2, <2>3, <2>4, <3>1 DEF Rest, Off, activation
    <3>3. Phase("ui", "idle")'
      BY <3>2
    <3> QED
      BY <2>1, <3>1, <3>3, Going DEF Labels, Continue
  <2>5. CASE mode # "periodic"
    <3>1. Continue("ui", "start")
      BY <1>2, <2>5 DEF ActivateStarts
    <3>2. use_communication_timer' => stop_communication_on_timer'
      BY <1>2, <2>2, <2>5 DEF ActivateStarts, TypeOK, Modes, activation
    <3>3. Starting("ui")'
      BY <2>2, <2>3, <2>5, <3>2 DEF Starting, activation
    <3>4. Phase("ui", "start")'
      BY <2>3, <3>3
    <3> QED
      BY <2>1, <3>1, <3>4, Going DEF Labels, Continue
  <2> QED
    BY <2>4, <2>5
<1>3. CASE Activated
  <2>1. failed = "none" /\ Alone("ui") /\ Starting("ui") /\ On
    BY <1>3, InCall DEF Activated, At
  <2>2. Continue("ui", "idle") /\ UNCHANGED <<activation, timer, comm>>
    BY <1>3 DEF Activated
  <2>3. Rest
    BY <2>1 DEF Rest, Starting, Expired, On
  <2>4. Rest'
    BY <2>2, <2>3
       DEF Rest, Inactive, Active, Limited, On, Off, activation, timer, comm
  <2>5. Phase("ui", "idle")'
    BY <2>4
  <2> QED
    BY <2>1, <2>2, <2>5, Going DEF Labels, Continue
<1>4. CASE ActivateFails
  <2>1. failed = "none" /\ Alone("ui") /\ Starting("ui") /\ Off
    BY <1>4, InCall DEF ActivateFails, At
  <2>2. Call("ui", "deactivate", "idle") /\ UNCHANGED <<activation, timer, comm>>
    BY <1>4 DEF ActivateFails
  <2>3. ret'["ui"]["deactivate"] = "idle"
    BY <2>2 DEF Call, TypeOK, Functions
  <2>4. Active' /\ Off' /\ (use_communication_timer' <=> communication_timer' # "none")
    BY <2>1, <2>2 DEF Starting, Expired, Limited, Active, Off, activation, timer, comm
  <2>5. Phase("ui", "deactivate")'
    BY <2>3, <2>4
  <2> QED
    BY <2>1, <2>2, <2>5, Going DEF Labels, Call
<1>5. CASE Deactivate
  <2>1. failed = "none" /\ Alone("ui") /\ Rest
    BY <1>5, Entering DEF Deactivate
  <2>2. Call("ui", "deactivate", "idle") /\ UNCHANGED <<activation, timer, comm>>
    BY <1>5 DEF Deactivate
  <2>3. ret'["ui"]["deactivate"] = "idle"
    BY <2>2 DEF Call, TypeOK, Functions
  <2>4. \/ Inactive'
        \/ /\ Active' /\ (On \/ Off)'
           /\ use_communication_timer' <=> communication_timer' # "none"
    BY <2>1, <2>2 DEF Rest, Inactive, Active, Limited, On, Off, activation, timer, comm
  <2>5. Phase("ui", "deactivate")'
    BY <2>3, <2>4
  <2> QED
    BY <2>1, <2>2, <2>5, Going DEF Labels, Call
<1>6. CASE \E m \in Modes : Activate(m)
  <2>1. PICK m \in Modes : Activate(m)
    BY <1>6
  <2>2. failed = "none" /\ Alone("ui") /\ Inactive
    BY <2>1, Entering DEF Activate, Rest, Active
  <2>3. /\ supervisor_timer' = TRUE /\ controller_activated' = TRUE
        /\ Continue("ui", "prepare_timer") /\ UNCHANGED <<timer, comm>>
    BY <2>1 DEF Activate
  <2>4. Active' /\ communication_timer' = "none" /\ Off'
    BY <2>2, <2>3 DEF Active, Inactive, Off, timer, comm
  <2>5. Phase("ui", "prepare_timer")'
    BY <2>4
  <2> QED
    BY <2>2, <2>3, <2>5, Going DEF Labels, Continue
<1> QED
  BY <1>1, <1>2, <1>3, <1>4, <1>5, <1>6 DEF UiSteps
-----------------------------------------------------------------------------
(* The threads of the timer.                                               *)

LEMMA TimerCalls ==
  ASSUME TypeOK, OneAtATime, serial, NEW t \in Callbacks, TimerExpires(t) \/ CallbackSteps(t)
  PROVE  OneAtATime'
<1>0. t \in Threads /\ t # "ui"
  BY ControllerAssumption DEF ControllerAssumption, Threads
<1> USE <1>0 DEF Phase, PhaseOfStart, PhaseOfStop, PhaseOfDeactivate, PhaseOfTimer
<1>1. CASE ThreadSteps(t)
  BY <1>1, ThreadCalls
<1>2. CASE TimerExpires(t)
  <2>1. failed = "none" /\ Alone(t) /\ Rest /\ communication_timer = "armed"
    BY <1>2, Entering DEF TimerExpires
  <2>2. /\ communication_timer' = "disarmed" /\ Continue(t, "callback")
        /\ UNCHANGED <<activation, stop_communication_on_timer, comm>>
    BY <1>2 DEF TimerExpires
  <2>3. use_communication_timer /\ Active
    BY <2>1 DEF Rest, Inactive, Limited
  <2>4. Expired(t)'
    BY <2>2, <2>3 DEF Expired, Active, activation
  <2>5. /\ On \/ Off
        /\ mode # "periodic" => On
        /\ stop_communication_on_timer <=> tx
    BY <2>1, <2>3 DEF Rest, Inactive
  <2>6. /\ (On \/ Off)'
        /\ mode' # "periodic" => On'
        /\ stop_communication_on_timer' <=> tx'
    BY <2>2, <2>5 DEF On, Off, activation, comm
  <2>7. Phase(t, "callback")'
    BY <2>4, <2>6
  <2> QED
    BY <2>1, <2>2, <2>7, Going DEF Labels, Continue
<1>3. CASE CallbackBegin(t)
  <2>1. /\ failed = "none" /\ Alone(t) /\ Expired(t) /\ (On \/ Off)
        /\ mode # "periodic" => On
        /\ stop_communication_on_timer <=> tx
    BY <1>3, InCall DEF CallbackBegin, At
  <2>2. UNCHANGED <<activation, timer, comm>>
    BY <1>3 DEF CallbackBegin
  <2>3. CASE stop_communication_on_timer
    <3>1. Call(t, "stop", "stopped") /\ On
      BY <1>3, <2>1, <2>3 DEF CallbackBegin, Off
    <3>2. ret'[t]["stop"] = "stopped"
      BY <3>1 DEF Call, TypeOK, Functions
    <3>3. Stopping(t)' /\ On'
      BY <2>1, <2>2, <2>3, <3>1, <3>2
         DEF Stopping, Expired, Active, On, activation, timer, comm
    <3>4. Phase(t, "stop")'
      BY <3>3
    <3> QED
      BY <2>1, <3>1, <3>4, Going DEF Labels, Call
  <2>4. CASE ~stop_communication_on_timer
    <3>1. Continue(t, "start") /\ Off /\ mode = "periodic"
      BY <1>3, <2>1, <2>4 DEF CallbackBegin, On
    <3>2. Starting(t)' /\ Off'
      BY <2>1, <2>2, <2>4, <3>1 DEF Starting, Expired, Active, Off, activation, timer, comm
    <3>3. Phase(t, "start")'
      BY <3>2
    <3> QED
      BY <2>1, <3>1, <3>3, Going DEF Labels, Continue
  <2> QED
    BY <2>3, <2>4
<1>4. CASE CallbackStarted(t)
  <2>1. failed = "none" /\ Alone(t) /\ Starting(t) /\ On
    BY <1>4, InCall DEF CallbackStarted, At
  <2>2. Expired(t) /\ mode = "periodic" /\ ~stop_communication_on_timer
    BY <2>1 DEF Starting
  <2>3. /\ communication_timer' = "armed" /\ Continue(t, "toggle")
        /\ UNCHANGED <<activation, stop_communication_on_timer, comm>>
    BY <1>4, <2>2 DEF CallbackStarted, Rearm, Expired
  <2>4. Active' /\ mode' = "periodic" /\ On' /\ (stop_communication_on_timer' <=> ~tx')
    BY <2>1, <2>2, <2>3 DEF Expired, Active, On, activation, comm
  <2>5. Phase(t, "toggle")'
    BY <2>3, <2>4
  <2> QED
    BY <2>1, <2>3, <2>5, Going DEF Labels, Continue
<1>5. CASE CallbackStopped(t)
  <2>1. failed = "none" /\ Alone(t) /\ Expired(t) /\ stop_communication_on_timer /\ Off
    BY <1>5, InCall DEF CallbackStopped, At
  <2>2. CASE mode = "periodic"
    <3>1. /\ communication_timer' = "armed" /\ Continue(t, "toggle")
          /\ UNCHANGED <<activation, stop_communication_on_timer, comm>>
      BY <1>5, <2>1, <2>2 DEF CallbackStopped, Rearm, Expired
    <3>2. Active' /\ mode' = "periodic" /\ Off' /\ (stop_communication_on_timer' <=> ~tx')
      BY <2>1, <2>2, <3>1 DEF Expired, Active, Off, activation, comm
    <3>3. Phase(t, "toggle")'
      BY <3>1, <3>2
    <3> QED
      BY <2>1, <3>1, <3>3, Going DEF Labels, Continue
  <2>3. CASE mode # "periodic"
    <3>1. Call(t, "deactivate", "toggle") /\ UNCHANGED <<activation, timer, comm>>
      BY <1>5, <2>3 DEF CallbackStopped
    <3>2. ret'[t]["deactivate"] = "toggle"
      BY <3>1 DEF Call, TypeOK, Functions
    <3>3. Active' /\ Off' /\ (use_communication_timer' <=> communication_timer' # "none")
      BY <2>1, <3>1 DEF Expired, Active, Off, activation, timer, comm
    <3>4. Phase(t, "deactivate")'
      BY <3>2, <3>3
    <3> QED
      BY <2>1, <3>1, <3>4, Going DEF Labels, Call
  <2> QED
    BY <2>2, <2>3
<1>6. CASE CallbackFails(t)
  <2>1. failed = "none" /\ Alone(t) /\ Starting(t) /\ Off
    BY <1>6, InCall DEF CallbackFails, At
  <2>2. Call(t, "deactivate", "toggle") /\ UNCHANGED <<activation, timer, comm>>
    BY <1>6 DEF CallbackFails
  <2>3. ret'[t]["deactivate"] = "toggle"
    BY <2>2 DEF Call, TypeOK, Functions
  <2>4. Active' /\ Off' /\ (use_communication_timer' <=> communication_timer' # "none")
    BY <2>1, <2>2 DEF Starting, Expired, Limited, Active, Off, activation, timer, comm
  <2>5. Phase(t, "deactivate")'
    BY <2>3, <2>4
  <2> QED
    BY <2>1, <2>2, <2>5, Going DEF Labels, Call
<1>7. CASE CallbackEnd(t)
  <2>1. /\ failed = "none" /\ Alone(t)
        /\ \/ Inactive
           \/ /\ Active /\ mode = "periodic" /\ communication_timer = "armed"
              /\ On \/ Off
              /\ stop_communication_on_timer <=> ~tx
    BY <1>7, InCall DEF CallbackEnd, At
  <2>2. /\ stop_communication_on_timer' = ~stop_communication_on_timer
        /\ Continue(t, "idle")
        /\ UNCHANGED <<activation, communication_timer, comm>>
    BY <1>7 DEF CallbackEnd
  <2>3. CASE Inactive
    BY <2>1, <2>2, <2>3, Going
       DEF Labels, Continue, Rest, Inactive, Off, activation, comm
  <2>4. CASE ~Inactive
    <3>1. Active' /\ mode' = "periodic" /\ (On \/ Off)'
      BY <2>1, <2>2, <2>4 DEF Active, On, Off, activation, comm
    <3>2. Limited'
      BY <2>1, <2>2, <2>4 DEF Limited, TypeOK, activation
    <3>3. stop_communication_on_timer' <=> tx'
      BY <2>1, <2>2, <2>4 DEF comm
    <3>4. Phase(t, "idle")'
      BY <3>1, <3>2, <3>3 DEF Rest
    <3> QED
      BY <2>1, <2>2, <3>4, Going DEF Labels, Continue
  <2> QED
    BY <2>3, <2>4
<1> QED
  BY <1>1, <1>2, <1>3, <1>4, <1>5, <1>6, <1>7 DEF CallbackSteps
-----------------------------------------------------------------------------
LEMMA Invariance == Spec => []IInv
<1>1. Init => IInv
  <2> SUFFICES ASSUME Init PROVE OneAtATime
    BY InitTypes DEF IInv
  <2>1. Inactive
    BY Zenon DEF Init, Inactive, Off
  <2>2. failed = "none" /\ pc = [t \in Threads |-> "idle"]
    BY DEF Init
  <2>3. "ui" \in Threads
    BY DEF Threads
  <2>4. Alone("ui") /\ pc["ui"] = "idle"
    BY <2>2, <2>3 DEF Alone
  <2>5. Phase("ui", "idle")
    BY <2>1 DEF Phase, PhaseOfStart, PhaseOfStop, PhaseOfDeactivate, PhaseOfTimer, Rest
  <2> QED
    BY <2>2, <2>3, <2>4, <2>5 DEF OneAtATime
<1>2. IInv /\ [Next]_vars => IInv'
  <2> SUFFICES ASSUME IInv, [Next]_vars PROVE OneAtATime'
    BY StepTypes DEF IInv
  <2>1. CASE UNCHANGED vars
    BY <2>1 DEF IInv, OneAtATime, Alone, Phase, PhaseOfStart, PhaseOfStop, PhaseOfDeactivate,
       PhaseOfTimer, Rest, Inactive, Active, Limited, On, Off, Starting, Stopping, Ending,
       Expired, vars, moving, activation, timer, comm
  <2>2. CASE Next
    <3> SUFFICES ASSUME serial PROVE OneAtATime'
      BY <2>2 DEF Next, OneAtATime
    <3> QED
      BY <2>2, UiCalls, TimerCalls DEF Next, IInv
  <2> QED
    BY <2>1, <2>2
<1> QED
  BY <1>1, <1>2, PTL DEF Spec

(* The types, whether calls overlap or not.                                *)
THEOREM TypeCorrect == Spec => []TypeOK
<1>1. IInv => TypeOK
  BY DEF IInv
<1> QED
  BY <1>1, Invariance, PTL

(* However many threads the timer uses, no assertion of a start, a stop or *)
(* a deactivation fails while the calls do not overlap.                    *)
THEOREM AssertionsHold == Spec => []NoAssertionFails
<1>1. IInv => NoAssertionFails
  BY DEF IInv, OneAtATime, NoAssertionFails
<1> QED
  BY <1>1, Invariance, PTL

(* Between calls a communication runs completely or not at all, and a      *)
(* controller that is not active has left nothing behind.                  *)
THEOREM WholeOrNothing == Spec => []AllOrNothing
<1>1. IInv => AllOrNothing
  <2> SUFFICES ASSUME IInv, AllIdle PROVE AllOrNothing
    BY DEF AllOrNothing
  <2>1. Rest
    BY DEF IInv, AllIdle, OneAtATime, Phase, PhaseOfTimer
  <2>2. On \/ Off
    BY <2>1 DEF Rest, Inactive
  <2>3. /\ tx = controller_communication_in_progress
        /\ rx = controller_communication_in_progress
        /\ monitor_running = controller_communication_in_progress
        /\ afe = controller_communication_in_progress
    BY <2>2 DEF IInv, TypeOK, On, Off
  <2>4. ~controller_activated => Inactive
    BY <2>1 DEF Rest, Active
  <2> QED
    BY <2>3, <2>4 DEF AllOrNothing, Inactive, Off
<1> QED
  BY <1>1, Invariance, PTL
=============================================================================
