----------------------------- MODULE TerminalUi -----------------------------
(***************************************************************************)
(* The text user interface of plc-cape-lab: the panels of the ncurses      *)
(* plug-in (tui.c, tui_menu.c, tui_dialog.c, tui_list.c) as ui.c opens and *)
(* closes them, the threads that draw at the same time (the monitor, the   *)
(* communication timer and the flags callback of the AFE), the two locks   *)
(* involved (tui->lock, recursive, and the logger's, which is not), and    *)
(* the exit by menu, by configuration error and by signal (main.c).        *)
(*                                                                         *)
(* A thread runs a program: the sequence of instructions it still has to   *)
(* execute.  An instruction with an effect of its own is an action.        *)
(***************************************************************************)
EXTENDS Integers, Sequences, FiniteSets

CONSTANT MaxPanels  \* bound: how deep the panels are nested

\* "callback" stands for the threads of the timer and of the AFE's interrupt:
\* bound: one of them at a time.
Threads == {"ui", "monitor", "callback"}

VARIABLES
  panels,   \* from the main menu to tui->active_panel
  depth,    \* ui->menu_panel_depth
  lock,     \* tui->lock: its owner and how often it is taken
  logLock,  \* logger->log_line_lock
  drawing,  \* the threads inside curses
  todo,     \* the program of each thread
  active,   \* controller_activated
  timing,   \* "unlimited", "limited" (a timeout) or "periodic"
  clock,    \* the communication timer: "none", "armed" or "idle"
  comm,     \* controller_communication_in_progress
  mon,      \* the monitor thread: "none", "running" or "ended"
  endMon,   \* monitor->end_thread
  quit,     \* tui->quit
  sig,      \* what a signal interrupted: "none", "rest", "work" or "locked"
  process   \* "up", "exited" or "aborted"

ctl == <<active, timing, clock, comm, mon, endMon>>
uiVars == <<panels, depth, lock, logLock, drawing, todo, ctl, quit, sig, process>>

UiInit ==
  /\ panels = <<"main">> /\ depth = 0
  /\ lock = [owner |-> "none", count |-> 0] /\ logLock = "none"
  /\ drawing = {} /\ todo = [t \in Threads |-> <<>>]
  /\ active = FALSE /\ timing = "unlimited" /\ clock = "none"
  /\ comm = FALSE /\ mon = "none" /\ endMon = FALSE
  /\ quit = FALSE /\ sig = "none" /\ process = "up"

(***************************************************************************)
(* Programs                                                                *)
(***************************************************************************)
Paint == <<"draw", "drawn">>
\* Mutant: gives the lock back too early.
WriteUnlocksFirst == <<"lock", "unlock">> \o Paint
\* tui_set_info, tui_set_event, tui_log_text.
Write == <<"lock">> \o Paint \o <<"unlock">>
\* logger_log: its own lock around the writes.
Log == <<"lock_log">> \o Write \o <<"unlock_log">>

\* tui_active_panel_close; in ui.c it also counts.
ClosePanel == Paint \o <<"pop">>
UiClose == <<"uncount">> \o ClosePanel
OpenMenu == Paint \o <<"push_menu">>
OpenDialog == Paint \o <<"push_dialog">>
OpenList == Paint \o <<"push_list">>
Open(kind) ==
  CASE kind = "list" -> OpenList
    [] kind = "menu" -> <<"count">> \o OpenMenu
    [] kind = "dialog" -> <<"count">> \o OpenDialog

\* controller_stop_communication and controller_deactivate.
StopComm == <<"stopping", "join">> \o Log \o <<"stopped">>
Deactivate == <<"deactivate">>
\* controller_activate_async, immediate or periodic.
StartComm == Log \o <<"monitor">>
\* log_line_and_exit: its two lines, here as one, and once a key is pressed
\* exit runs terminate in the thread that called it.
Exit == Log \o <<"terminate">>

Opens(program) ==
  \E i \in 1..Len(program) : program[i] \in {"push_menu", "push_dialog"}

\* What an item of a menu does.  Most refuse while a communication is on.
WhenIdle(program) == IF active THEN Log ELSE program
MainItems == {<<"activate">>, Deactivate, Open("menu"), WhenIdle(Open("menu")),
              WhenIdle(Open("dialog")), <<"quit">>}
ProfileItems == {WhenIdle(Open("menu")), WhenIdle(Write \o <<"close_all">>)}
PluginItems == {WhenIdle(Open("dialog"))}
MonitoringItems == {Write \o Write \o UiClose}
ToolItems == {Log}
Back == UiClose
Items(kind) ==
  IF kind = "main" THEN MainItems
  ELSE ProfileItems \union PluginItems \union MonitoringItems \union ToolItems
       \union {Back}

(***************************************************************************)
(* tui_panel_process_key by kind of panel.  Menus release the lock around  *)
(* the action of an item, dialogs and lists keep it.  The callback of a    *)
(* dialog may log, and may end the application (no plug-in selected).      *)
(***************************************************************************)
MenuKeys(kind) ==
  {Paint, <<"leave", "action", "relock">>}
  \union (IF kind = "menu" THEN {UiClose} ELSE {})
\* ENTER: the fields are read, the callback of the dialog runs.
Accept == {Write \o UiClose \o Paint, Log \o Write \o UiClose \o Paint, Exit}
DialogKeys == {Paint, Open("list") \o Paint, UiClose \o Paint} \union Accept
\* The list of a field closes without being counted.
ListCloses == ClosePanel
ListKeys == {Paint, ListCloses}

\* Mutant: menus keep the lock too.
KeyProgramsKeepLock(kind) ==
  CASE kind \in {"main", "menu"} -> {Paint, <<"action">>}
    [] kind = "dialog" -> DialogKeys
    [] kind = "list" -> ListKeys
KeyPrograms(kind) ==
  CASE kind \in {"main", "menu"} -> MenuKeys(kind)
    [] kind = "dialog" -> DialogKeys
    [] kind = "list" -> ListKeys

(***************************************************************************)
(* Instructions                                                            *)
(***************************************************************************)
At(t, i) == process = "up" /\ todo[t] # <<>> /\ Head(todo[t]) = i
Become(t, program) == todo' = [todo EXCEPT ![t] = program \o Tail(@)]
Done(t) == Become(t, <<>>)

\* "enter" and "leave" are those of the loop of the keys; "relock" takes the lock back after
\* an action, by the pointer of the menu served.
Lock(t) ==
  /\ At(t, "lock") \/ At(t, "enter") \/ At(t, "relock")
  /\ lock.owner \in {"none", t}
  /\ lock' = [owner |-> t, count |-> lock.count + 1] /\ Done(t)
  /\ UNCHANGED <<panels, depth, logLock, drawing, ctl, quit, sig, process>>

Unlock(t) ==
  /\ At(t, "unlock") \/ At(t, "leave")
  /\ lock' = IF lock.count = 1 THEN [owner |-> "none", count |-> 0]
             ELSE [lock EXCEPT !.count = @ - 1]
  /\ Done(t)
  /\ UNCHANGED <<panels, depth, logLock, drawing, ctl, quit, sig, process>>

LockLog(t) ==
  /\ At(t, "lock_log") /\ logLock = "none"
  /\ logLock' = t /\ Done(t)
  /\ UNCHANGED <<panels, depth, lock, drawing, ctl, quit, sig, process>>

UnlockLog(t) ==
  /\ At(t, "unlock_log")
  /\ logLock' = "none" /\ Done(t)
  /\ UNCHANGED <<panels, depth, lock, drawing, ctl, quit, sig, process>>

\* update_panels and doupdate.
Draw(t) ==
  /\ At(t, "draw")
  /\ drawing' = drawing \union {t} /\ Done(t)
  /\ UNCHANGED <<panels, depth, lock, logLock, ctl, quit, sig, process>>
Drawn(t) ==
  /\ At(t, "drawn")
  /\ drawing' = drawing \ {t} /\ Done(t)
  /\ UNCHANGED <<panels, depth, lock, logLock, ctl, quit, sig, process>>

PushOf == [menu |-> "push_menu", dialog |-> "push_dialog", list |-> "push_list"]
PushPanel(kind) ==
  /\ At("ui", PushOf[kind])
  /\ panels' = Append(panels, kind) /\ Done("ui")
  /\ UNCHANGED <<depth, lock, logLock, drawing, ctl, quit, sig, process>>

\* tui_active_panel_close asserts that the panel has a parent.
Pop ==
  /\ At("ui", "pop") /\ Done("ui")
  /\ IF Len(panels) = 1 THEN process' = "aborted" /\ UNCHANGED panels
     ELSE panels' = SubSeq(panels, 1, Len(panels) - 1) /\ UNCHANGED process
  /\ UNCHANGED <<depth, lock, logLock, drawing, ctl, quit, sig>>

Count ==
  /\ At("ui", "count") /\ depth' = depth + 1 /\ Done("ui")
  /\ UNCHANGED <<panels, lock, logLock, drawing, ctl, quit, sig, process>>
Uncount ==
  /\ At("ui", "uncount") /\ depth' = depth - 1 /\ Done("ui")
  /\ UNCHANGED <<panels, lock, logLock, drawing, ctl, quit, sig, process>>

\* ui_close_all_panels.
CloseAll ==
  /\ At("ui", "close_all")
  /\ Become("ui", IF depth > 0 THEN ClosePanel \o <<"uncount", "close_all">> ELSE <<>>)
  /\ UNCHANGED <<panels, depth, lock, logLock, drawing, ctl, quit, sig, process>>

QuitLoop ==
  /\ At("ui", "quit") /\ quit' = TRUE /\ Done("ui")
  /\ UNCHANGED <<panels, depth, lock, logLock, drawing, ctl, sig, process>>

(***************************************************************************)
(* The controller, as far as it logs, starts the monitor and joins it.     *)
(***************************************************************************)
Activate ==
  /\ At("ui", "activate")
  /\ Become("ui", Log \o (IF active THEN <<>> ELSE <<"on">>))
  /\ UNCHANGED <<panels, depth, lock, logLock, drawing, ctl, quit, sig, process>>

\* A periodic communication begins when its timer expires, another at once.
Activated ==
  /\ At("ui", "on")
  /\ active' = TRUE
  /\ timing' \in {"unlimited", "limited", "periodic"}
  /\ clock' = IF timing' = "unlimited" THEN "none" ELSE "armed"
  /\ Become("ui", IF timing' = "periodic" THEN <<>> ELSE StartComm)
  /\ UNCHANGED <<panels, depth, lock, logLock, drawing, comm, mon, endMon, quit, sig,
                 process>>

\* The start of the transmission or of the capture may fail; then no timer is armed.
NotArmed(program) ==
  IF program # <<>> /\ Head(program) = "arm" THEN Tail(program) ELSE program
MonitorStart(t) ==
  /\ At(t, "monitor")
  /\ \/ /\ process' = IF comm THEN "aborted" ELSE "up"
        /\ comm' = TRUE /\ mon' = "running" /\ endMon' = FALSE /\ Done(t)
     \/ /\ todo' = [todo EXCEPT ![t] = Log \o Deactivate \o NotArmed(Tail(@))]
        /\ UNCHANGED <<comm, mon, endMon, process>>
  /\ UNCHANGED <<panels, depth, lock, logLock, drawing, active, timing, clock, quit, sig>>

\* timer_settime and timer_delete assert that the timer exists.
Arm(t) ==
  /\ At(t, "arm") /\ Done(t)
  /\ clock' = "armed" /\ process' = IF clock = "none" THEN "aborted" ELSE "up"
  /\ UNCHANGED <<panels, depth, lock, logLock, drawing, active, timing, comm, mon, endMon,
                 quit, sig>>

DeactivateBegin(t) ==
  /\ At(t, "deactivate")
  /\ Become(t, IF ~ active THEN Log
               ELSE (IF comm THEN StopComm ELSE <<>>) \o <<"off">> \o Log)
  /\ clock' = IF active THEN "none" ELSE clock
  /\ process' = IF active /\ timing # "unlimited" /\ clock = "none" THEN "aborted" ELSE "up"
  /\ UNCHANGED <<panels, depth, lock, logLock, drawing, active, timing, comm, mon, endMon,
                 quit, sig>>

DeactivateEnd(t) ==
  /\ At(t, "off") /\ active' = FALSE /\ Done(t)
  /\ UNCHANGED <<panels, depth, lock, logLock, drawing, timing, clock, comm, mon, endMon,
                 quit, sig, process>>

\* controller_stop_communication: assertion, and monitor_stop up to the join.
Stopping(t) ==
  /\ At(t, "stopping") /\ Done(t)
  /\ endMon' = TRUE
  /\ process' = IF comm THEN "up" ELSE "aborted"
  /\ UNCHANGED <<panels, depth, lock, logLock, drawing, active, timing, clock, comm, mon,
                 quit, sig>>

\* A second join of the same thread fails its assertion.
Join(t) ==
  /\ At(t, "join") /\ mon # "running" /\ Done(t)
  /\ mon' = "none"
  /\ process' = IF mon = "ended" THEN "up" ELSE "aborted"
  /\ UNCHANGED <<panels, depth, lock, logLock, drawing, active, timing, clock, comm,
                 endMon, quit, sig>>

Stopped(t) ==
  /\ At(t, "stopped") /\ comm' = FALSE /\ Done(t)
  /\ UNCHANGED <<panels, depth, lock, logLock, drawing, active, timing, clock, mon, endMon,
                 quit, sig, process>>

\* Mutant: releases the controller under the lock of the user interface.
TerminateLocked ==
  /\ At("ui", "terminate")
  /\ Become("ui", <<"lock">> \o (IF active THEN Deactivate ELSE <<>>) \o <<"release">>)
  /\ UNCHANGED <<panels, depth, lock, logLock, drawing, ctl, quit, sig, process>>
\* terminate of main.c: controller_release, and ui_release at its end.
Terminate ==
  /\ At("ui", "terminate")
  /\ Become("ui", (IF active THEN Deactivate ELSE <<>>) \o <<"release">>)
  /\ UNCHANGED <<panels, depth, lock, logLock, drawing, ctl, quit, sig, process>>
Release ==
  /\ At("ui", "release") /\ process' = "exited" /\ Done("ui")
  /\ UNCHANGED <<panels, depth, lock, logLock, drawing, ctl, quit, sig>>

(***************************************************************************)
(* What each thread does next.                                             *)
(***************************************************************************)
Resting(t) == process = "up" /\ todo[t] = <<>>
Begin(t, program) == todo' = [todo EXCEPT ![t] = program]
KeepAllBut == UNCHANGED <<panels, depth, lock, logLock, drawing, ctl, quit, process>>

\* tui_do_menu_loop: getch returns, the key is processed under the lock.
GetKey ==
  /\ Resting("ui") /\ ~ quit /\ Begin("ui", <<"enter", "key", "leave">>)
  /\ KeepAllBut /\ UNCHANGED sig

Top == panels[Len(panels)]
ProcessKey ==
  /\ At("ui", "key")
  /\ \E program \in KeyPrograms(Top) : Become("ui", program)
  /\ KeepAllBut /\ UNCHANGED sig

ItemAction ==
  /\ At("ui", "action")
  /\ \E program \in Items(Top) :
       /\ Len(panels) < MaxPanels \/ ~ Opens(program)
       /\ Become("ui", program)
  /\ KeepAllBut /\ UNCHANGED sig

LeaveLoop ==
  /\ Resting("ui") /\ quit /\ Begin("ui", Write \o <<"terminate">>)
  /\ KeepAllBut /\ UNCHANGED sig

\* monitor_thread: a line of the status bar at each refresh.
MonitorTick ==
  /\ Resting("monitor") /\ mon = "running" /\ ~ endMon /\ Begin("monitor", Write)
  /\ KeepAllBut /\ UNCHANGED sig
MonitorEnds ==
  /\ Resting("monitor") /\ mon = "running" /\ endMon
  /\ mon' = "ended"
  /\ UNCHANGED <<panels, depth, lock, logLock, drawing, todo, active, timing, clock, comm,
                 endMon, quit, sig, process>>

\* sigev_timer_communication_thread: a timeout, or a period.
TimerExpires ==
  /\ Resting("callback") /\ clock = "armed"
  /\ clock' = "idle"
  /\ Begin("callback", IF ~ comm THEN StartComm \o <<"arm">>
                    ELSE IF timing = "periodic" THEN StopComm \o <<"arm">>
                    ELSE StopComm \o Deactivate)
  /\ timing = "limited" => comm  \* Controller.tla has the start overtaken
  /\ UNCHANGED <<panels, depth, lock, logLock, drawing, active, timing, comm, mon, endMon,
                 quit, sig, process>>

\* controller_flags_callback: overload, power and error flags of the AFE.
AfeFlags ==
  /\ Resting("callback") /\ Begin("callback", Write)
  /\ KeepAllBut /\ UNCHANGED sig

\* SIGINT or SIGTERM interrupts the main thread wherever it is; its handler
\* never returns, and what the thread holds is not given back.
Signal ==
  /\ process = "up" /\ sig = "none"
  /\ sig' = IF logLock = "ui" \/ lock.owner = "ui" THEN "locked"
            ELSE IF todo.ui = <<>> THEN "rest" ELSE "work"
  /\ Begin("ui", Exit)
  /\ KeepAllBut

Instruction(t) ==
  \/ Lock(t) \/ Unlock(t) \/ LockLog(t) \/ UnlockLog(t) \/ Draw(t) \/ Drawn(t)
  \/ MonitorStart(t) \/ Arm(t) \/ DeactivateBegin(t) \/ DeactivateEnd(t)
  \/ Stopping(t) \/ Join(t) \/ Stopped(t)

UiInstruction ==
  \/ Instruction("ui")
  \/ \E kind \in {"menu", "dialog", "list"} : PushPanel(kind)
  \/ Pop \/ Count \/ Uncount \/ CloseAll \/ QuitLoop \/ Activate \/ Activated
  \/ Terminate \/ Release \/ ProcessKey \/ ItemAction \/ LeaveLoop

UiNext ==
  \/ UiInstruction \/ GetKey \/ Signal
  \/ Instruction("monitor") \/ MonitorTick \/ MonitorEnds
  \/ Instruction("callback") \/ TimerExpires
  \/ AfeFlags

\* Every thread goes on when it can.  A lock that is given back again and
\* again is got in the end: between two writes the other threads sleep, wait
\* for a timer or for an interrupt.  Keys (but the one safe_exit waits for),
\* timers, flags and signals need not come; a monitor told to end does end.
Fairness ==
  /\ SF_uiVars(UiInstruction) /\ SF_uiVars(Instruction("callback"))
  /\ SF_uiVars(Instruction("monitor"))
  /\ WF_uiVars(MonitorEnds)

UiSpec == UiInit /\ [][UiNext]_uiVars
FairSpec == UiSpec /\ Fairness
-----------------------------------------------------------------------------
\* While an item's action runs the UI thread does not hold the lock.
InAction == \E i \in 1..Len(todo.ui) : todo.ui[i] = "relock"

\* "lock the access to multi-threaded calls" (tui.c:76): two threads are in
\* curses at once only when one is the UI thread in the action of an item, and
\* only one of them holds the lock.
OnlyActionsDrawUnlocked ==
  \A t, u \in drawing :
    t # u => "ui" \in {t, u} /\ (lock.owner # "ui" /\ (InAction \/ sig = "work"))

\* The two locks are taken in opposite orders by a dialog that logs under
\* tui->lock and a timer thread that draws under the logger's.
Embrace == lock.owner = "ui" /\ logLock = "callback"

\* A key, and the action it starts, is served to the end: the thread that
\* joins the monitor holds no lock the monitor waits for.  The embrace of the
\* two locks and an exit that an interrupted thread started with a lock held
\* are the only ways to hang.
KeysAreServed ==
  (process = "up" /\ todo.ui # <<>>)
    ~> (todo.ui = <<>> \/ process # "up" \/ Embrace \/ sig = "locked")

\* A signal that finds the UI waiting for a key ends the application.
SignalAtRestEnds == (sig = "rest") ~> (process # "up")
=============================================================================
