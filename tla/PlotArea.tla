------------------------------ MODULE PlotArea ------------------------------
(***************************************************************************)
(* The plot area of plc-cape-oscilloscope (plot_area.cpp): the pair of     *)
(* buffers that the recorder fills and the area draws, the viewer that     *)
(* selects the samples to draw, their transform, the cursors and the       *)
(* static grid.  Each operation is an operator from the area to the area.  *)
(*                                                                         *)
(* Positions and widths, floating-point in the code, are counted in parts  *)
(* of a sample, and ratios of the area's width in as many parts.  What is  *)
(* kept of the samples of a buffer is whether they follow each other; of   *)
(* the vertical axis, its range; of the grid, what it was computed from.   *)
(***************************************************************************)
EXTENDS Integers, Sequences, FiniteSets

CONSTANTS
  Parts,          \* of a sample
  DefaultViewer,  \* DEFAULT_VIEWER_SAMPLES
  DefaultTime,    \* DEFAULT_TIME_PER_SAMPLE_US
  DefaultRange,   \* of the vertical axis
  Ticks           \* numbers of the samples, which wrap around; Ticks itself is no number

ASSUME PartsAssumption == Parts \in Nat \ {0} /\ Parts % 2 = 0
ASSUME DefaultsAssumption ==
  /\ DefaultViewer \in Nat /\ DefaultTime \in Nat \ {0}
  /\ Ticks \in Nat \ {0}

Limit(x, lo, hi) == IF x < lo THEN lo ELSE IF x > hi THEN hi ELSE x

(* round(), half away from zero, and the conversion to uint32_t. *)
Round(x) == IF x >= 0 THEN (2 * x + Parts) \div (2 * Parts) ELSE -((Parts - 2 * x) \div (2 * Parts))
Whole(x) == x \div Parts
Share(ratio, x) == (ratio * x) \div Parts

Samples(interval, time) == (interval + time - 1) \div time
Follows(s, t) == s < Ticks /\ t = (s + 1) % Ticks

(* The samples of the buffer being filled: the last of them, whether there *)
(* is a known reason why one may not follow the previous one, and whether  *)
(* each does but for that reason; of the buffer to draw, the latter.       *)
Empty == [last |-> 0, whole |-> TRUE, excused |-> FALSE]

UpdateStaticGrid(a) == [a EXCEPT !.grid = <<a.width, a.time, a.range>>]
WithStaticGrid(a) == IF a.static THEN UpdateStaticGrid(a) ELSE a

SetBufferAddresses(a) == [a EXCEPT !.cur = 0, !.ini = Round(a.left)]

(***************************************************************************)
(* The transform: fft_in, fft_out and fft_graph have fftCount elements, or *)
(* are NULL (-1).                                                          *)
(***************************************************************************)
ReleaseFft(a) == [a EXCEPT !.fftCount = -1]

FftIsReleased(a) == a.fftCount = -1
InitFft(a) ==
  [a EXCEPT !.fftCount = a.plotCount, !.fftFresh = FALSE, !.fftLeft = 0,
            !.fftWidth = (a.plotCount * Parts) \div 2]

Viewed(a) == a.ini .. a.ini + a.plotCount - 1
InBuffer(a) == Viewed(a) \subseteq 0 .. a.count - 1

(* The samples of the viewer go through fft_in; fft_graph[0] is written    *)
(* even if there is none.                                                  *)
RecalculateFft(a) == [a EXCEPT !.fftFresh = TRUE]
TransformFits(a) == InBuffer(a) /\ a.plotCount <= a.fftCount
TransformIsEmpty(a) == a.fft /\ a.fftCount = 0

(***************************************************************************)
(* The buffers, allocated for an interval at a time per sample.  gen tells *)
(* one allocation from the next.                                           *)
(***************************************************************************)
AllocatedBuffers(a, interval) ==
  [a EXCEPT !.valid = FALSE, !.interval = interval, !.count = Samples(interval, a.time),
            !.gen = 1 - a.gen, !.fill = Empty, !.shown = TRUE]

WithDefaultViewer(a) ==
  LET w == Limit(Parts * DefaultViewer, 0, Parts * a.count)
  IN  [a EXCEPT !.left = 0, !.width = w, !.plotCount = Round(w)]

WithBuffersFft(a) == IF a.fft THEN InitFft(ReleaseFft(a)) ELSE a

InitBuffers(a, interval) ==
  LET b == WithDefaultViewer(AllocatedBuffers(a, interval))
  IN  WithStaticGrid(WithBuffersFft(SetBufferAddresses(b)))

SetOscBuffer(a, interval, time) ==
  IF interval = a.interval /\ time = a.time THEN a
  ELSE InitBuffers([a EXCEPT !.time = time], interval)

ConfigurationDefaults(a) ==
  [a EXCEPT !.time = DefaultTime, !.range = DefaultRange, !.static = FALSE,
            !.grid = <<0, 0, DefaultRange>>]

EndConfiguration(a) == WithStaticGrid(a)

(* begin_configuration, the settings of the file, end_configuration. *)
Configure(a, static, range) ==
  EndConfiguration([ConfigurationDefaults(a) EXCEPT !.static = static, !.range = range])

NewArea(interval) ==
  InitBuffers(ConfigurationDefaults(
    [count |-> 0, cur |-> 0, left |-> 0, width |-> 0, plotCount |-> 0, ini |-> 0, valid |-> FALSE,
     gen |-> 0, fill |-> Empty, shown |-> TRUE, interval |-> 0, time |-> 0, range |-> 0,
     static |-> FALSE, grid |-> <<0, 0, 0>>, fft |-> FALSE, fftCount |-> -1, fftFresh |-> FALSE,
     fftLeft |-> 0, fftWidth |-> 0, sticky |-> FALSE, cursors |-> FALSE, diff |-> FALSE,
     from |-> 0, to |-> 0]), interval)

(***************************************************************************)
(* push_buffer: what fits of a chunk is copied behind what the buffer has. *)
(* A full buffer becomes the one to draw, and the other one is filled.     *)
(***************************************************************************)
Appended(a, s, excuse) ==
  LET old == IF a.cur = 0 THEN Empty ELSE a.fill
      excused == old.excused \/ excuse
  IN  [last |-> IF excused THEN Ticks ELSE s[Len(s)],
       whole |-> \/ excused
                 \/ /\ old.whole
                    /\ a.cur > 0 => Follows(old.last, s[1])
                    /\ \A k \in 2..Len(s) : Follows(s[k - 1], s[k]),
       excused |-> excused]

Fitting(a, s) == SubSeq(s, 1, Limit(a.count - a.cur, 0, Len(s)))

PushBuffer(a, s, excuse) ==
  IF Fitting(a, s) = <<>> THEN a
  ELSE [a EXCEPT !.fill = Appended(a, Fitting(a, s), excuse), !.cur = @ + Len(Fitting(a, s))]

Full(a) == a.cur = a.count

(* All of the exchange of the buffers but buffer_viewer_ini. *)
SwapBuffers(a) ==
  [a EXCEPT !.cur = 0, !.shown = a.fill.whole, !.fill = Empty, !.fftFresh = FALSE, !.valid = TRUE]

(***************************************************************************)
(* The viewer.  Each operation ends in the second half of move_viewer_x,   *)
(* which keeps the viewer inside the buffer: ClampViewer.                  *)
(***************************************************************************)
AtLeastZero(x) == IF x < 0 THEN 0 ELSE x

MoveViewer(a, delta) == [a EXCEPT !.left = AtLeastZero(@ + delta * a.plotCount)]

ClampViewerKeepsLeft(a) ==
  [a EXCEPT !.ini = IF Round(a.left) + a.plotCount > a.count THEN a.count - a.plotCount
                    ELSE Round(a.left)]

ClampViewer(a) ==
  LET over == Round(a.left) + a.plotCount > a.count
      b == [a EXCEPT !.ini = IF over THEN a.count - a.plotCount ELSE Round(a.left),
                     !.left = IF over THEN Parts * (a.count - a.plotCount) ELSE a.left]
  IN  IF b.fft THEN RecalculateFft(b) ELSE b

SetViewerWidthUnlimited(a, w) ==
  WithStaticGrid(
    IF Round(w) < 0 THEN [a EXCEPT !.width = Parts, !.plotCount = 1]
    ELSE [a EXCEPT !.width = w, !.plotCount = Round(w)])

(* set_viewer_interval_samples up to the transform, and with it. *)
SetViewerWidth(a, w) ==
  WithStaticGrid(
    IF Round(w) < 0 THEN [a EXCEPT !.width = Parts, !.plotCount = 1]
    ELSE IF Round(w) > a.count THEN [a EXCEPT !.width = Parts * a.count, !.plotCount = a.count]
    ELSE [a EXCEPT !.width = w, !.plotCount = Round(w)])

WithNewFft(a) == IF a.fft THEN RecalculateFft(WithBuffersFft(a)) ELSE a

AutoScaleX(a) == SetViewerWidth(a, Parts * DefaultViewer)
ScaleViewer(a, delta) ==
  SetViewerWidth([a EXCEPT !.left = AtLeastZero(@ - (delta * a.plotCount) \div 2)],
                 a.width + delta * a.plotCount)

SetRange(a, range) == WithStaticGrid([a EXCEPT !.range = range])

CursorFrom(a) == IF a.to < a.from THEN a.to ELSE a.from
CursorTo(a) == IF a.to < a.from THEN a.from ELSE a.to

ZoomFft(a) ==
  [a EXCEPT !.fftLeft = AtLeastZero(@ + Share(CursorFrom(a), a.fftWidth)),
            !.fftWidth = Share(CursorTo(a) - CursorFrom(a), @)]

ZoomSamples(a) ==
  SetViewerWidth([a EXCEPT !.left = AtLeastZero(@ + Share(CursorFrom(a), a.width))],
                 Share(CursorTo(a) - CursorFrom(a), a.width))

SetStaticGrid(a, enable) == WithStaticGrid([a EXCEPT !.static = enable])

SetPlotFft(a) ==
  IF a.fft THEN ReleaseFft([a EXCEPT !.fft = FALSE])
  ELSE RecalculateFft(InitFft([a EXCEPT !.fft = TRUE]))

SetSticky(a, sticky) == [a EXCEPT !.sticky = sticky]
ResetCursor(a) == [a EXCEPT !.cursors = FALSE, !.diff = FALSE]
SetCursorIni(a, x) == [a EXCEPT !.from = x, !.to = x, !.cursors = TRUE, !.diff = FALSE]
SetCursorEnd(a, x) == [a EXCEPT !.to = x, !.diff = TRUE]

(***************************************************************************)
(* What is read to draw.  A sticky cursor reads the sample below it: a     *)
(* negative ratio, converted to an unsigned index, is 0 or very large; an  *)
(* index after the last one is limited to plotCount, in the transform to   *)
(* fftCount - 1.                                                           *)
(***************************************************************************)
CursorIndexes(a, x, count, last) ==
  LET i == Round(x)
  IN  IF i < 0 THEN {0, last} ELSE IF i >= count THEN {last} ELSE {i}

XRatioInside(a, ratio) ==
  IF a.fft
  THEN CursorIndexes(a, a.fftLeft + Share(ratio, a.fftWidth), a.fftCount, a.fftCount - 1)
         \subseteq 0 .. a.fftCount - 1
  ELSE {a.ini + i : i \in CursorIndexes(a, ratio * a.plotCount, a.plotCount, a.plotCount)}
         \subseteq 0 .. a.count - 1

MeasureInside(a, ratio) == a.sticky => XRatioInside(a, ratio)

CursorsInside(a) == MeasureInside(a, a.from) /\ (a.diff => MeasureInside(a, a.to))

(* plot_buffer_viewer_fft limits graph_count and draws fft_viewer_width. *)
FftDrawn(a) == Whole(a.fftLeft) .. Whole(a.fftLeft) + AtLeastZero(Whole(a.fftWidth)) - 1
FftDrawnInside(a) == FftDrawn(a) \subseteq 0 .. a.fftCount - 1

(* do_drawing: the names of what reads outside of its buffer. *)
Overreads(a) ==
  {what \in {"cursors", "samples", "transform", "empty_transform", "graph"} :
     \/ what = "cursors" /\ a.cursors /\ ~CursorsInside(a)
     \/ what = "samples" /\ a.valid /\ ~InBuffer(a)
     \/ what = "transform" /\ a.valid /\ a.fft /\ ~a.fftFresh /\ ~TransformFits(a)
     \/ what = "empty_transform" /\ a.valid /\ ~a.fftFresh /\ TransformIsEmpty(a)
     \/ what = "graph" /\ a.valid /\ a.fft /\ ~FftDrawnInside(a)}

Drawn(a) == IF a.valid /\ a.fft THEN RecalculateFft(a) ELSE a
=============================================================================
