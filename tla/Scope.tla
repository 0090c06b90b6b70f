-------------------------------- MODULE Scope --------------------------------
(***************************************************************************)
(* plc-cape-oscilloscope: the user interface (application.cpp,             *)
(* plot_widget.cpp), the recorder's thread that pops chunks of samples off *)
(* a ring and pushes them to the plot area, and the callback of the        *)
(* capture's thread that fills the ring (recorder_plc.cpp).  Nothing is    *)
(* locked: what the three share is read and written step by step.          *)
(***************************************************************************)
EXTENDS PlotArea

CONSTANTS
  RingSize,      \* BUFFER_SAMPLES, the size of the ring and of the recorder's chunks
  DefaultInterval, DefaultRate,  \* buffer_interval_ms; microseconds per sample of the ADC
  Files,         \* the configurations
  Preferences,   \* what their dialog may be given: [interval, rate, trigger]
  Positions,     \* of the pointer, in parts of the area's width
  Ranges,        \* of the vertical axis
  Widths,        \* of the viewer, what its dialog may be given
  Budgets        \* bounds on the user and the pace of the capture, of which one is chosen:
                 \* [events, loads, starts, which (the handlers), chunks (that the ADC completes)]

ASSUME ChunksAssumption ==
  /\ RingSize \in Nat \ {0}
  /\ Budgets \subseteq
       [events : Nat, loads : Nat, starts : Nat, chunks : SUBSET (1..RingSize),
        which : SUBSET {"graph", "preferences", "settings", "mouse", "modes"}]

Triggers == {"auto", "repetitive", "single", "timed"}

(* The program takes any number; of 0 and less it makes empty buffers. *)
ASSUME SettingsAssumption ==
  /\ DefaultInterval \in Nat \ {0} /\ DefaultRate \in Nat \ {0}
  /\ Positions \subseteq Int /\ Widths \subseteq Int
  /\ Preferences \subseteq [interval : Nat \ {0}, rate : Nat \ {0}, trigger : Triggers]
  /\ \A f \in Files : /\ f.app => f.interval \in Nat \ {0}
                      /\ f.recorder => f.rate \in Nat \ {0}

VARIABLES
  area,     \* the plot area
  ring,     \* samples_adc: cells, cur, pop, stored, and paused
  adc,      \* the capture: on, its clock, the callback's next step and its variables
  thread,   \* the recorder's thread: its next step pc and its variables
  app,      \* the application's members
  mouse,    \* the widget's dragging mode and the drag under way
  ui,       \* the user interface: "start", "rest", "clamp" (half way of a change of the viewer),
            \* "join", "quit" (joining to quit), "closed" (the main loop ends) or "out"
  budget,   \* what is left of the bounds
  dropped,  \* history: an overflow since the last chunk was popped
  raced,    \* history: the callback ran during a pop or a resume, and none was resumed since
  overlap,  \* history: the viewer was changed while the buffers were exchanged
  over,     \* history: what was read outside of its buffer
  failed    \* the assertion that failed or the freed object that was used, or "none"

scopeVars ==
  <<area, ring, adc, thread, app, mouse, ui, budget, dropped, raced, overlap, over, failed>>

NoThread == [pc |-> "none", toEnd |-> 0, chunk |-> <<>>, value |-> 0, looked |-> FALSE,
             based |-> FALSE, hit |-> FALSE, alone |-> FALSE, gen |-> 0, view |-> 0,
             fresh |-> TRUE, dropped |-> FALSE]

NoFile == [ok |-> FALSE, none |-> TRUE]
Modes == {"scroll", "scale", "scale_y", "free", "sticky", "zoom"}

ScopeTypeOK ==
  /\ ring.cur \in 0..RingSize - 1 /\ ring.pop \in 0..RingSize /\ ring.stored \in 0..RingSize
  /\ adc.clock \in 0..Ticks - 1 /\ Len(thread.chunk) <= 2 * RingSize
  /\ \A i \in DOMAIN ring.cells : ring.cells[i] \in 0..Ticks
  /\ area.ini >= 0 /\ area.cur \in 0..area.count /\ mouse.mode \in Modes

ScopeInit ==
  /\ area = NewArea(DefaultInterval)
  /\ ring = [cells |-> [i \in 0..RingSize - 1 |-> Ticks], cur |-> 0, pop |-> 0, stored |-> 0,
             paused |-> FALSE]
  /\ adc = [on |-> FALSE, clock |-> 0, callback |-> "none", value |-> 0]
  /\ thread = NoThread
  /\ app = [window |-> TRUE, recording |-> FALSE, end |-> FALSE, trigger |-> "auto",
            rate |-> DefaultRate, interval |-> DefaultInterval, plugin |-> FALSE,
            wanted |-> FALSE, file |-> NoFile, menuAfe |-> FALSE, dialogs |-> {}, killed |-> FALSE]
  /\ mouse = [mode |-> "scroll", pressed |-> FALSE, prev |-> 0, track |-> FALSE]
  /\ ui = "start" /\ budget \in Budgets
  /\ dropped = FALSE /\ raced = FALSE /\ overlap = FALSE /\ over = {} /\ failed = "none"

Alive == failed = "none" /\ ui # "out"
Fail(what) ==
  /\ failed' = what
  /\ UNCHANGED <<area, ring, adc, thread, app, mouse, ui, budget, dropped, raced, overlap, over>>

(***************************************************************************)
(* The capture.  rx_buffer_completed_callback drops the samples while the  *)
(* recorder is paused; otherwise it copies them behind the previous ones,  *)
(* then counts them in samples_adc_stored, which the recorder's thread     *)
(* decreases, and moves samples_adc_pop when they are more than the ring   *)
(* holds.  After a race, whose samples may not follow each other, they are *)
(* not numbered.                                                           *)
(***************************************************************************)
Number(n) == IF raced THEN Ticks ELSE n % Ticks

Copied(n) ==
  [ring EXCEPT
     !.cells = [i \in DOMAIN @ |->
       LET k == (i - ring.cur + RingSize) % RingSize
       IN  IF k < n THEN Number(adc.clock + k) ELSE @[i]],
     !.cur = (@ + n) % RingSize]

Counted(s) ==
  IF s > RingSize THEN [ring EXCEPT !.stored = RingSize, !.pop = ring.cur]
  ELSE [ring EXCEPT !.stored = s]

Popping == thread.pc \in {"first", "second", "store", "rewind"}
CallbackKeeps == UNCHANGED <<area, thread, app, mouse, ui, budget, overlap, over, failed>>

(* The copy, up to the load of the count. *)
CallbackCopies(n) ==
  /\ Alive /\ adc.on /\ adc.callback = "none"
  /\ IF ring.paused
     THEN UNCHANGED <<adc, ring, raced>>
     ELSE /\ adc' = [adc EXCEPT !.clock = IF raced THEN 0 ELSE (@ + n) % Ticks,
                                !.callback = "store", !.value = ring.stored + n]
          /\ ring' = Copied(n)
          /\ raced' = (raced \/ Popping)
  /\ CallbackKeeps /\ UNCHANGED dropped

CallbackStores ==
  /\ Alive /\ adc.callback = "store"
  /\ adc' = [adc EXCEPT !.callback = "none", !.value = 0]
  /\ ring' = Counted(adc.value)
  /\ dropped' = (dropped \/ adc.value > RingSize)
  /\ raced' = (raced \/ Popping)
  /\ CallbackKeeps

Callback == CallbackStores \/ \E n \in budget.chunks : CallbackCopies(n)

(***************************************************************************)
(* The recorder's thread.  start_recording does not look at the result of  *)
(* plc_adc_start_capture: without a capture no sample comes.  The thread   *)
(* pauses the recorder for a second, then resumes it; after that it looks  *)
(* at the trigger's mode.                                                  *)
(***************************************************************************)
ThreadKeeps == UNCHANGED <<app, mouse, ui, budget, failed>>
Goto(pc) == thread' = [thread EXCEPT !.pc = pc]
Race == raced' = (raced \/ adc.callback # "none")

StartRecording(ok) ==
  /\ Alive /\ thread.pc = "start"
  /\ \/ adc.on /\ Fail("captured_twice")
     \/ /\ ~adc.on
        /\ ring' = [ring EXCEPT !.pop = 0, !.stored = 0]
        /\ adc' = [adc EXCEPT !.on = ok]
        /\ Goto("pause")
        /\ ThreadKeeps /\ UNCHANGED <<area, dropped, raced, overlap, over>>

Pause ==
  /\ Alive /\ thread.pc = "pause"
  /\ ring' = [ring EXCEPT !.paused = TRUE]
  /\ Goto("resume")
  /\ ThreadKeeps /\ UNCHANGED <<area, adc, dropped, raced, overlap, over>>

Resume ==
  /\ Alive /\ thread.pc = "resume"
  /\ ring' = [ring EXCEPT !.paused = FALSE]
  /\ Goto("clear")
  /\ ThreadKeeps /\ UNCHANGED <<area, adc, dropped, raced, overlap, over>>

(* The samples are numbered from here on; the ones before have no number. *)
ResumeClears ==
  /\ Alive /\ thread.pc = "clear"
  /\ ring' = [ring EXCEPT !.stored = 0, !.cells = [i \in DOMAIN @ |-> Ticks]]
  /\ adc' = [adc EXCEPT !.clock = 0]
  /\ raced' = (adc.callback # "none")
  /\ Goto("rewind")
  /\ ThreadKeeps /\ UNCHANGED <<area, dropped, overlap, over>>

ThresholdBased == app.trigger \in {"single", "repetitive"}

ResumeRewindsNot ==
  /\ Alive /\ thread.pc = "rewind"
  /\ thread' = [thread EXCEPT !.pc = "loop", !.looked = TRUE,
                              !.based = IF thread.looked THEN @ ELSE ThresholdBased]
  /\ Race
  /\ ThreadKeeps /\ UNCHANGED <<area, ring, adc, dropped, overlap, over>>

ResumeRewinds ==
  /\ Alive /\ thread.pc = "rewind"
  /\ ring' = [ring EXCEPT !.pop = ring.cur]
  /\ thread' = [thread EXCEPT !.pc = "loop", !.looked = TRUE,
                              !.based = IF thread.looked THEN @ ELSE ThresholdBased]
  /\ Race
  /\ ThreadKeeps /\ UNCHANGED <<area, adc, dropped, overlap, over>>

Loop ==
  /\ Alive /\ thread.pc = "loop"
  /\ Goto(IF app.end \/ thread.alone THEN "stop" ELSE "wait")
  /\ ThreadKeeps /\ UNCHANGED <<area, ring, adc, dropped, raced, overlap, over>>

(***************************************************************************)
(* pop_recorded_buffer of a chunk as long as the ring: what is left to its *)
(* end, then the rest from its start.  The callback may move               *)
(* samples_adc_pop in between, and what is left is then beyond the end.    *)
(***************************************************************************)
PopBegins ==
  /\ Alive /\ thread.pc = "wait" /\ ring.stored >= RingSize
  /\ thread' = [thread EXCEPT !.pc = "first", !.toEnd = RingSize - ring.pop, !.dropped = dropped]
  /\ dropped' = FALSE
  /\ raced' = (raced \/ adc.callback # "none")
  /\ ThreadKeeps /\ UNCHANGED <<area, ring, adc, overlap, over>>

FromRing(n) ==
  [k \in 1..n |->
    IF ring.pop + k - 1 < RingSize /\ ~raced THEN ring.cells[ring.pop + k - 1] ELSE Ticks]
BeyondRing(n) ==
  IF ring.pop + n <= RingSize THEN {} ELSE IF raced THEN {"the_ring_in_a_race"} ELSE {"the_ring"}

PopsToTheEnd ==
  /\ Alive /\ thread.pc = "first"
  /\ thread' = [thread EXCEPT !.pc = "second", !.chunk = FromRing(thread.toEnd)]
  /\ ring' = [ring EXCEPT !.pop = 0]
  /\ over' = over \cup BeyondRing(thread.toEnd)
  /\ Race
  /\ ThreadKeeps /\ UNCHANGED <<area, adc, dropped, overlap>>

PopsFromTheStart ==
  /\ Alive /\ thread.pc = "second"
  /\ LET n == RingSize - thread.toEnd
     IN  /\ thread' = [thread EXCEPT !.pc = "store", !.toEnd = 0, !.chunk = @ \o FromRing(n),
                                     !.value = ring.stored - RingSize]
         /\ ring' = [ring EXCEPT !.pop = Limit(@ + n, 0, RingSize)]
         /\ over' = over \cup BeyondRing(n)
  /\ Race
  /\ ThreadKeeps /\ UNCHANGED <<area, adc, dropped, overlap>>

PopStores ==
  /\ Alive /\ thread.pc = "store"
  /\ ring' = [ring EXCEPT !.stored = thread.value]
  /\ thread' = [thread EXCEPT !.pc = "trigger", !.value = 0]
  /\ Race
  /\ ThreadKeeps /\ UNCHANGED <<area, adc, dropped, overlap, over>>

(***************************************************************************)
(* A chunk without a sample above the threshold is dropped until one has.  *)
(* The mode "single" then ends the thread with this chunk, whether it      *)
(* fills the buffer or not; the single mode on a frequency, which tests    *)
(* for the other one, is repetitive.                                       *)
(***************************************************************************)
Trigger(above) ==
  /\ Alive /\ thread.pc = "trigger"
  /\ thread.based /\ ~thread.hit
  /\ thread' = [thread EXCEPT !.pc = IF above THEN "push" ELSE "loop", !.hit = above,
                              !.alone = above /\ app.trigger = "single",
                              !.chunk = IF above THEN @ ELSE <<>>]
  /\ ThreadKeeps /\ UNCHANGED <<area, ring, adc, dropped, raced, overlap, over>>

NoTrigger ==
  /\ Alive /\ thread.pc = "trigger"
  /\ thread.based => thread.hit
  /\ Goto("push")
  /\ ThreadKeeps /\ UNCHANGED <<area, ring, adc, dropped, raced, overlap, over>>

(* push_buffer computes where to copy, copies, and exchanges the buffers.  *)
PushBegins ==
  /\ Alive /\ thread.pc = "push" /\ app.window
  /\ thread' = [thread EXCEPT !.pc = "copy", !.gen = area.gen]
  /\ ThreadKeeps /\ UNCHANGED <<area, ring, adc, dropped, raced, overlap, over>>

PushCopies ==
  /\ Alive /\ thread.pc = "copy" /\ app.window /\ thread.gen = area.gen
  /\ LET excuse == raced \/ thread.dropped \/ (thread.fresh /\ area.cur > 0)
         pushed == PushBuffer(area, thread.chunk, excuse)
     IN  /\ area' = IF Full(pushed) THEN SwapBuffers(pushed) ELSE pushed
         /\ thread' = [thread EXCEPT !.pc = IF Full(pushed) THEN "view" ELSE "loop",
                                     !.fresh = FALSE, !.chunk = <<>>, !.gen = 0,
                                     !.view = IF Full(pushed) THEN Round(area.left) ELSE 0]
         /\ overlap' = (overlap /\ ~Full(pushed))
  /\ ThreadKeeps /\ UNCHANGED <<ring, adc, dropped, raced, over>>

PushViews ==
  /\ Alive /\ thread.pc = "view" /\ app.window
  /\ area' = [area EXCEPT !.ini = thread.view]
  /\ thread' = [thread EXCEPT !.pc = "pushed", !.view = 0]
  /\ ThreadKeeps /\ UNCHANGED <<ring, adc, dropped, raced, overlap, over>>

(* The window owns the plot area and the label of the statistics. *)
UsesWindow ==
  \/ /\ Alive /\ thread.pc \in {"push", "copy", "view", "pushed"} /\ ~app.window
     /\ Fail("the_destroyed_window_was_used")
  \/ /\ Alive /\ thread.pc = "copy" /\ app.window /\ thread.gen # area.gen
     /\ Fail("the_freed_buffers_were_written")

(* A full buffer leaves time to draw it; a timed trigger may be late. *)
AfterPush(late) ==
  /\ Alive /\ thread.pc = "pushed" /\ app.window
  /\ late => app.trigger = "timed"
  /\ thread' = [thread EXCEPT !.pc = IF late THEN "loop" ELSE "pause",
                              !.hit = @ /\ app.trigger = "timed"]
  /\ ThreadKeeps /\ UNCHANGED <<area, ring, adc, dropped, raced, overlap, over>>

(* stop_recording, which asserts that there is a capture, tells its thread *)
(* to end and joins it.                                                    *)
StopRecording ==
  /\ Alive /\ thread.pc = "stop"
  /\ \/ ~adc.on /\ Fail("a_capture_not_started_was_stopped")
     \/ /\ adc.on /\ adc' = [adc EXCEPT !.on = FALSE]
        /\ Goto("stopped")
        /\ ThreadKeeps /\ UNCHANGED <<area, ring, dropped, raced, overlap, over>>

RecordingStopped ==
  /\ Alive /\ thread.pc = "stopped" /\ adc.callback = "none"
  /\ thread' = [NoThread EXCEPT !.pc = "done"]
  /\ ThreadKeeps /\ UNCHANGED <<area, ring, adc, dropped, raced, overlap, over>>

Recorder ==
  \/ \E ok \in BOOLEAN : StartRecording(ok)
  \/ Pause \/ Resume \/ ResumeClears \/ ResumeRewinds \/ Loop
  \/ PopBegins \/ PopsToTheEnd \/ PopsFromTheStart \/ PopStores
  \/ \E above \in BOOLEAN : Trigger(above)
  \/ NoTrigger \/ PushBegins \/ PushCopies \/ PushViews \/ UsesWindow
  \/ \E late \in BOOLEAN : AfterPush(late)
  \/ StopRecording \/ RecordingStopped

(***************************************************************************)
(* The user interface, one handler at a time in the main loop.  The action *)
(* "start" is enabled while nothing is recorded, "stop" while something    *)
(* is.  Stopping joins the thread in the main loop.                        *)
(***************************************************************************)
UiRests == Alive /\ ui = "rest"
UiKeeps == UNCHANGED <<ring, adc, dropped, raced, failed>>
Spent(what) == budget[what] > 0 /\ budget' = [budget EXCEPT ![what] = @ - 1]

Start ==
  /\ UiRests /\ ~app.recording /\ Spent("starts")
  /\ app' = [app EXCEPT !.recording = TRUE, !.end = FALSE]
  /\ thread' = [NoThread EXCEPT !.pc = "start"]
  /\ UiKeeps /\ UNCHANGED <<area, mouse, ui, overlap, over>>

Stop ==
  /\ UiRests /\ app.recording
  /\ app' = [app EXCEPT !.end = TRUE] /\ ui' = "join"
  /\ UiKeeps /\ UNCHANGED <<area, thread, mouse, budget, overlap, over>>

Joined ==
  /\ Alive /\ ui = "join" /\ thread.pc = "done"
  /\ thread' = NoThread
  /\ app' = [app EXCEPT !.recording = FALSE] /\ ui' = "rest"
  /\ UiKeeps /\ UNCHANGED <<area, mouse, budget, overlap, over>>

QuitAtOnce ==
  /\ UiRests
  /\ app' = [app EXCEPT !.end = @ \/ app.recording, !.window = FALSE] /\ ui' = "closed"
  /\ UiKeeps /\ UNCHANGED <<area, thread, mouse, budget, overlap, over>>

(* The menu stops the recording, then destroys the window; the window's    *)
(* manager destroys it at once.  Without a window the main loop ends.      *)
Quit ==
  /\ UiRests
  /\ app' = [app EXCEPT !.end = @ \/ app.recording, !.window = app.recording]
  /\ ui' = IF app.recording THEN "quit" ELSE "closed"
  /\ UiKeeps /\ UNCHANGED <<area, thread, mouse, budget, overlap, over>>

QuitJoined ==
  /\ Alive /\ ui = "quit" /\ thread.pc = "done"
  /\ thread' = NoThread
  /\ app' = [app EXCEPT !.recording = FALSE, !.window = FALSE] /\ ui' = "closed"
  /\ UiKeeps /\ UNCHANGED <<area, mouse, budget, overlap, over>>

CloseWindow ==
  /\ UiRests /\ Spent("events")
  /\ app' = [app EXCEPT !.window = FALSE, !.killed = TRUE] /\ ui' = "closed"
  /\ UiKeeps /\ UNCHANGED <<area, thread, mouse, overlap, over>>

(* ~Application releases the recorder. *)
Exit ==
  /\ Alive /\ ui = "closed"
  /\ \/ thread.pc \notin {"none", "done"} /\ Fail("released_while_recording")
     \/ /\ thread.pc \in {"none", "done"} /\ ui' = "out"
        /\ UiKeeps /\ UNCHANGED <<area, thread, app, mouse, budget, overlap, over>>

(***************************************************************************)
(* load_configuration hands the sections of the file to their objects,     *)
(* each of which first returns to its defaults, then allocates the buffers *)
(* again if needed and creates the AFE's plug-in, which needs the cape.    *)
(* The application's section releases the previous plug-in; a file may     *)
(* have no such section.                                                   *)
(***************************************************************************)
LoadedApp(f) ==
  LET wanted == IF f.app THEN f.plugin ELSE app.wanted
  IN  [app EXCEPT !.interval = IF f.app THEN f.interval ELSE @, !.wanted = wanted,
                  !.plugin = wanted, !.rate = IF f.recorder THEN f.rate ELSE @, !.file = f]

LoadedArea(f) ==
  LET a == IF f.area THEN Configure(area, f.static, f.range) ELSE area
  IN  SetOscBuffer(a, LoadedApp(f).interval, LoadedApp(f).rate)

Changes(a) ==
  /\ area' = a
  /\ overlap' = (overlap \/ (thread.pc = "view" /\ a # area))

Load(f, cape) ==
  \/ ~f.ok /\ Fail("the_configuration_is_not_loaded")
  \/ f.ok /\ app.plugin /\ ~f.app /\ Fail("there_is_a_plugin_already")
  \/ /\ f.ok /\ (app.plugin => f.app) /\ LoadedApp(f).plugin /\ ~cape
     /\ Fail("the_plugin_has_no_cape")
  \/ /\ f.ok /\ (app.plugin => f.app) /\ (LoadedApp(f).plugin => cape)
     /\ app' = [LoadedApp(f) EXCEPT !.menuAfe = IF ui = "start" THEN LoadedApp(f).plugin ELSE @]
     /\ Changes(LoadedArea(f)) /\ ui' = "rest"
     /\ budget' = [budget EXCEPT !.loads = @ - 1]
     /\ UiKeeps /\ UNCHANGED <<thread, mouse, over>>

(* The first time, the configuration of the last execution, if any. *)
Activate ==
  /\ Alive /\ ui = "start"
  /\ \/ budget.loads > 0 /\ \E f \in Files, cape \in BOOLEAN : Load(f, cape)
     \/ /\ ui' = "rest"
        /\ UiKeeps /\ UNCHANGED <<area, thread, app, mouse, budget, overlap, over>>

LoadConfiguration ==
  /\ UiRests /\ budget.loads > 0
  /\ \E f \in Files, cape \in BOOLEAN : Load(f, cape)

ReloadConfiguration ==
  /\ UiRests /\ app.file # NoFile /\ budget.loads > 0
  /\ Load(app.file, TRUE)

(* The AFE's menu is made with the window, if there is a plug-in then. *)
MenuAfe == UiRests /\ app.menuAfe /\ ~app.plugin /\ Fail("there_is_no_plugin")

(***************************************************************************)
(* The two dialogs, of the preferences and of the graph.  "OK" applies and *)
(* closes.                                                                 *)
(***************************************************************************)
ShowSettings(d) ==
  /\ UiRests /\ d \notin app.dialogs /\ Spent("events")
  /\ app' = [app EXCEPT !.dialogs = @ \cup {d}]
  /\ UiKeeps /\ UNCHANGED <<area, thread, mouse, ui, overlap, over>>

Closed(d, ok) == IF ok THEN app.dialogs \ {d} ELSE app.dialogs

ApplyPreferences(p, ok) ==
  /\ UiRests /\ "preferences" \in app.dialogs /\ Spent("events")
  /\ app' = [app EXCEPT !.rate = p.rate, !.trigger = p.trigger,
                         !.dialogs = Closed("preferences", ok)]
  /\ Changes(SetOscBuffer(area, p.interval, p.rate))
  /\ UiKeeps /\ UNCHANGED <<thread, mouse, ui, over>>

(***************************************************************************)
(* The changes of the viewer, in two steps: the position and the width,    *)
(* then what keeps them in the buffer.                                     *)
(***************************************************************************)
Widened(a) == a.fft /\ ~InBuffer(a)
Emptied(a) == IF TransformIsEmpty(a) THEN {"empty_transform"} ELSE {}

ChangesWidth(a) ==
  /\ Changes(WithNewFft(a)) /\ ui' = "clamp"
  /\ over' = over \cup (IF Widened(a) THEN {"widened"} ELSE {}) \cup Emptied(WithNewFft(a))

Moves(a) == Changes(a) /\ ui' = "clamp" /\ UNCHANGED over
Redraws(a) == Changes(a) /\ UNCHANGED <<ui, over>>

Clamp ==
  /\ Alive /\ ui = "clamp"
  /\ area' = ClampViewer(area) /\ ui' = "rest"
  /\ overlap' = (thread.pc = "view")
  /\ over' = over \cup Emptied(area)
  /\ UiKeeps /\ UNCHANGED <<thread, app, mouse, budget>>

ApplyGraphSettings(w, range, ok) ==
  /\ UiRests /\ "graph" \in app.dialogs /\ Spent("events")
  /\ app' = [app EXCEPT !.dialogs = Closed("graph", ok)]
  /\ ChangesWidth(SetViewerWidth(SetRange(area, range), w))
  /\ UiKeeps /\ UNCHANGED <<thread, mouse>>

MenuKeeps == UiKeeps /\ UNCHANGED <<thread, app, mouse>>

MenuAutoScaleX ==
  /\ UiRests /\ Spent("events")
  /\ ChangesWidth(AutoScaleX(area)) /\ MenuKeeps

RangeRead == IF InBuffer(area) \/ overlap \/ thread.pc = "view" THEN {} ELSE {"samples"}

MenuAutoScaleY(range) ==
  /\ UiRests /\ Spent("events")
  /\ Changes(SetRange(area, range)) /\ over' = over \cup RangeRead
  /\ MenuKeeps /\ UNCHANGED ui

MenuToggleStaticGrid ==
  /\ UiRests /\ Spent("events")
  /\ Redraws(SetStaticGrid(area, ~area.static)) /\ MenuKeeps

MenuToggleFft ==
  /\ UiRests
  /\ \/ ~area.fft /\ ~FftIsReleased(area) /\ Fail("two_transforms")
     \/ /\ (area.fft \/ FftIsReleased(area)) /\ Spent("events")
        /\ Changes(SetPlotFft(area)) /\ over' = over \cup Emptied(SetPlotFft(area))
        /\ MenuKeeps /\ UNCHANGED ui

MenuSaveSamples ==
  /\ UiRests /\ area.valid
  /\ over' = over \cup RangeRead
  /\ MenuKeeps /\ UNCHANGED <<area, ui, budget, overlap>>

(***************************************************************************)
(* The mouse.  What a drag does depends on the mode; the area to zoom into *)
(* is between the cursors, and zooming into it returns to the free cursor. *)
(***************************************************************************)
CursorModes == {"free", "sticky", "zoom"}

SetDragging(m) ==
  /\ UiRests /\ m # mouse.mode /\ Spent("events")
  /\ mouse' = [mouse EXCEPT !.mode = m]
  /\ LET a == SetSticky(area, m = "sticky")
     IN  Redraws(IF m \in {"free", "sticky"} THEN ResetCursor(a) ELSE a)
  /\ UiKeeps /\ UNCHANGED <<thread, app>>

Press(x) ==
  /\ UiRests /\ ~mouse.pressed /\ Spent("events")
  /\ IF mouse.mode \in CursorModes
     THEN /\ mouse' = [mouse EXCEPT !.pressed = TRUE, !.track = FALSE]
          /\ Redraws(SetCursorIni(area, x))
     ELSE /\ mouse' = [mouse EXCEPT !.pressed = TRUE, !.prev = x]
          /\ Redraws(area)
  /\ UiKeeps /\ UNCHANGED <<thread, app>>

Drags(x, range) ==
  \/ mouse.mode = "scroll" /\ Moves(MoveViewer(area, mouse.prev - x))
  \/ mouse.mode = "scale" /\ ChangesWidth(ScaleViewer(area, mouse.prev - x))
  \/ mouse.mode = "scale_y" /\ Redraws(SetRange(area, range))
  \/ mouse.mode \in CursorModes /\ Redraws(IF mouse.track THEN SetCursorEnd(area, x) ELSE area)

Motion(x, range) ==
  /\ UiRests /\ mouse.pressed /\ Spent("events")
  /\ Drags(x, range)
  /\ mouse' = IF mouse.mode \in CursorModes
              THEN [mouse EXCEPT !.track = @ \/ x # area.from]
              ELSE [mouse EXCEPT !.prev = x]
  /\ UiKeeps /\ UNCHANGED <<thread, app>>

(* With the CONTROL key, and no button, a cursor follows the pointer. *)
Hover(x, control) ==
  /\ UiRests /\ ~mouse.pressed /\ Spent("events")
  /\ Redraws(IF control /\ ~mouse.track THEN SetCursorIni(area, x) ELSE area)
  /\ mouse' = [mouse EXCEPT !.track = @ /\ control]
  /\ UiKeeps /\ UNCHANGED <<thread, app>>

Release(range) ==
  /\ UiRests /\ mouse.pressed
  /\ IF mouse.mode # "zoom"
     THEN mouse' = [mouse EXCEPT !.pressed = FALSE] /\ Redraws(area)
     ELSE /\ mouse' = [mouse EXCEPT !.pressed = FALSE, !.mode = "free"]
          /\ IF area.fft THEN Redraws(ResetCursor(SetSticky(ZoomFft(area), FALSE)))
             ELSE ChangesWidth(SetRange(ResetCursor(SetSticky(ZoomSamples(area), FALSE)), range))
  /\ UiKeeps /\ UNCHANGED <<thread, app, budget>>

(* The drawing, when the main loop is idle. *)
Draw ==
  /\ UiRests
  /\ over' = over \cup (IF overlap \/ thread.pc = "view" THEN {} ELSE Overreads(area))
  /\ area' = Drawn(area)
  /\ MenuKeeps /\ UNCHANGED <<ui, budget, overlap>>

Menu ==
  \/ Start \/ Stop \/ Quit
  \/ LoadConfiguration \/ ReloadConfiguration \/ MenuAfe \/ MenuSaveSamples

Graph ==
  \/ CloseWindow \/ MenuAutoScaleX \/ MenuToggleStaticGrid \/ MenuToggleFft
  \/ \E range \in Ranges : MenuAutoScaleY(range)

PreferencesDialog ==
  \/ ShowSettings("preferences")
  \/ \E p \in Preferences, ok \in BOOLEAN : ApplyPreferences(p, ok)

GraphDialog ==
  \/ ShowSettings("graph")
  \/ \E w \in Widths, range \in Ranges, ok \in BOOLEAN : ApplyGraphSettings(w, range, ok)

Mouse ==
  \/ \E x \in Positions : Press(x)
  \/ \E x \in Positions, range \in Ranges : Motion(x, range)
  \/ \E range \in Ranges : Release(range)

MouseModes ==
  \/ \E m \in Modes : SetDragging(m)
  \/ \E x \in Positions, control \in BOOLEAN : Hover(x, control)

User ==
  \/ Activate \/ Joined \/ QuitJoined \/ Exit \/ Clamp \/ Draw \/ Menu
  \/ "graph" \in budget.which /\ Graph
  \/ "preferences" \in budget.which /\ PreferencesDialog
  \/ "settings" \in budget.which /\ GraphDialog
  \/ "mouse" \in budget.which /\ Mouse
  \/ "modes" \in budget.which /\ MouseModes

ScopeNext == Callback \/ Recorder \/ User

ScopeSpec == ScopeInit /\ [][ScopeNext]_scopeVars

(***************************************************************************)
(* Whatever the user does with the mouse, the dialogs and the              *)
(* configurations, in any order and while it records, the viewer is inside *)
(* the buffer when the handler returns, and it stays there when the        *)
(* buffers are exchanged, which takes the position without limiting it     *)
(* (plot_area.cpp:284).  Only a change of the viewer between the steps of  *)
(* the exchange may leave it outside.                                      *)
(***************************************************************************)
ViewerInBuffer ==
  ui = "rest" /\ thread.pc # "view" /\ ~overlap =>
    InBuffer(area) /\ Round(area.left) + area.plotCount <= area.count

(***************************************************************************)
(* What is read when drawing, saving or scaling is inside its buffer, and  *)
(* a transform is no longer than its arrays, but for known cases: the ring *)
(* while the callback moves its pointer during a pop, the transform of a   *)
(* viewer that is not limited yet (plot_area.cpp:1210), the first element  *)
(* of the transform of no sample, after zooming in on less than half a     *)
(* sample (1158), a sticky cursor beyond the area (1299), and the graph of *)
(* the transform after zooming at its edge (899), which takes more events  *)
(* than the run has.                                                       *)
(***************************************************************************)
OnlyKnownOverreads ==
  over \subseteq {"the_ring_in_a_race", "widened", "empty_transform", "cursors", "graph"}

(***************************************************************************)
(* In a buffer that is drawn each sample follows the previous one.  Where  *)
(* one does not, samples were dropped by an overflow, the callback ran     *)
(* during a pop or a resume (the counter of the samples stored is not      *)
(* locked), or the buffer was part filled by the previous recording.       *)
(***************************************************************************)
SeamsAreKnown == area.shown

(***************************************************************************)
(* What ends in an assertion or in the use of a freed object is one of the *)
(* known cases: the window's manager closes the window while it records,   *)
(* the buffers are allocated again while a chunk is copied, the capture    *)
(* did not start, and four of the configurations.  The capture is never    *)
(* started twice and the transform never allocated twice.                  *)
(***************************************************************************)
FailuresAreKnown ==
  \/ failed \in {"none", "the_freed_buffers_were_written", "the_configuration_is_not_loaded",
                 "there_is_a_plugin_already", "the_plugin_has_no_cape", "there_is_no_plugin"}
  \/ failed = "a_capture_not_started_was_stopped" /\ ~adc.on
  \/ failed \in {"the_destroyed_window_was_used", "released_while_recording"} /\ app.killed
=============================================================================
