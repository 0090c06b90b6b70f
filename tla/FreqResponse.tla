---------------------------- MODULE FreqResponse ----------------------------
(***************************************************************************)
(* plc-cape-freq-response: a sweep of tones.  For each tone the main thread *)
(* fills a buffer with whole cycles of it, transmits it over and over,      *)
(* captures, waits for the callback of the capture thread to fill           *)
(* samples_adc (two seconds at most), stops both and measures.              *)
(*                                                                         *)
(* A sample is the tone it was taken from and its number in the capture;   *)
(* of a transmitted sample only the index in the preloaded buffer counts.  *)
(* The transmission and the capture are modelled as this program uses them. *)
(***************************************************************************)
EXTENDS Integers, SequencesExt

CONSTANTS
  Rate,          \* freq_dac_effective_sps
  TxSamples,     \* SAMPLES_TX_BUFFER_COUNT
  DmaSamples,    \* TX_DMA_BUFFER_COUNT
  RxSamples,     \* SAMPLE_RX_BUFFER_COUNT
  Chunk,         \* RX_ADC_BUFFER_COUNT
  Sweeps,        \* the default sweep, by whether the cape is emulated
  CommandLines,  \* sequences of records [opt, value]
  MaxBuffers     \* bound: buffers of a capture

ASSUME SizesAssumption ==
  /\ {Rate, TxSamples, DmaSamples, RxSamples, Chunk, MaxBuffers} \subseteq Nat \ {0}
  /\ 2 * DmaSamples <= TxSamples

VARIABLES
  test,      \* the settings: a record [device, ini, end, iterations, ref, one, calibration]
  main,      \* what the main thread does next
  why,       \* what it died of, or "alive"
  tone,      \* how many tones are measured
  afe,       \* the blocks of the AFE that are on, and "dac_mode"
  len,       \* samples_tx_preloaded_end, from the beginning of the buffer
  pos,       \* samples_tx_preloaded_cur
  on,        \* a transmission is running
  sent,      \* history: the indexes of the buffer last given to it
  last,      \* history: the index given before them
  rx,        \* the capture thread
  end,       \* its end_thread
  captured,  \* buffers read in this capture
  iteration, \* capture_iteration
  filled,    \* samples_adc_filled
  memory,    \* the two sample buffers
  target,    \* samples_adc: which of them is recorded to
  cur,       \* samples_adc_cur: a record [buffer, at]
  limit,     \* the buffer samples_adc_end is the end of
  held,      \* samples_adc_data_to_save
  heldTone,  \* samples_adc_data_to_save_freq
  aborted,   \* history: the wait for this tone was aborted
  points,    \* history: freq_response_x and y, with the samples they come from
  files      \* what was written at the end

transmission == <<len, pos, on, sent, last>>
thread == <<rx, end, captured>>
recording == <<iteration, filled, memory, target, cur, limit>>
results == <<held, heldTone, aborted, points, files>>
vars == <<test, main, why, tone, afe, transmission, thread, recording, results>>

Ended == {"exit", "end", "dead"}
Discarded == 2

\* set_test_defaults.
TestDefaults(emulated) ==
  LET sweep == Sweeps[emulated] IN
    [device |-> IF emulated THEN "alsa" ELSE "bbb", ini |-> sweep.ini, end |-> sweep.end,
     iterations |-> sweep.iterations, ref |-> sweep.ref, one |-> 0,
     calibration |-> IF emulated THEN "none" ELSE "rx"]

(***************************************************************************)
(* The tones, in units of 1 / Unit Hz so that the steps are whole numbers. *)
(***************************************************************************)
Iterations == IF test.iterations <= 1 THEN 1 ELSE test.iterations
Unit == IF Iterations = 1 THEN 1 ELSE Iterations - 1
Tone(k) == IF Iterations = 1 THEN test.ref ELSE test.ini * Unit + k * (test.end - test.ini)
Reached(k) == Tone(k) >= test.ref * Unit

\* calculate_best_number_of_cycles: the whole number of cycles, no less than a DMA buffer
\* and no more than the preloaded one, that ends closest to a sample; the last of them.
BestSamples(f) ==
  LET scale == Rate * Unit
      first == (DmaSamples * f + scale - 1) \div scale
      most == (TxSamples * f) \div scale
      Gap(c) == LET r == (scale * c) % f IN IF 2 * r <= f THEN r ELSE f - r
      best == IF most < first THEN first
              ELSE CHOOSE c \in first..most : \A d \in first..most :
                     Gap(c) < Gap(d) \/ (Gap(c) = Gap(d) /\ d <= c)
  IN (2 * scale * best + f) \div (2 * f)

\* The blocks that execute_test activates, and the gains it assumes in the expected mean.
Blocks ==
  {"dac", "tx", "ref2"} \cup
  (IF test.calibration \in {"none", "rx"} THEN {"pa", "ref1", "pa_out", "rx"} ELSE {})
Gains ==
  CASE test.calibration = "none" -> {"tx_pga", "rx_pga1", "rx_pga2"}
    [] test.calibration = "rx" -> {"tx_pga", "rx_pga2"}
    [] OTHER -> {"tx_pga"}

\* What a sample may be instead of a tone, and a mean.
Rest == -1
Zero == -2
Garbage == -3
Mixed == -4
NotANumber == -5

\* calculate_means: 0/0 without samples.
AcMean(samples) ==
  CASE samples = <<>> -> NotANumber
    [] samples # <<>> /\ \A k \in DOMAIN samples : samples[k].tone = samples[1].tone -> samples[1].tone
    [] OTHER -> Mixed

Sample(t, n) == [tone |-> t, n |-> n]
Filled(t) == [k \in 1..RxSamples |-> Sample(t, 0)]

TypeOK ==
  /\ main \in Ended \cup {"start", "create", "preload", "transmit", "reset", "capture", "clear",
                          "wait", "stop", "join", "quiet", "measure", "release", "save"}
  /\ pos \in 0..len /\ on \in BOOLEAN /\ end \in BOOLEAN /\ filled \in BOOLEAN
  /\ rx \in {"off", "loop", "read", "test", "copy", "full", "frozen"}
  /\ captured \in 0..MaxBuffers /\ iteration \in 0..MaxBuffers
  /\ {target, held, limit, cur.buffer} \subseteq DOMAIN memory /\ cur.at \in 0..RxSamples

Init ==
  /\ test = TestDefaults(FALSE)
  /\ main = "start" /\ why = "alive" /\ tone = 0 /\ afe = {}
  /\ len = 0 /\ pos = 0 /\ on = FALSE /\ sent = <<>> /\ last = -1
  /\ rx = "off" /\ end = FALSE /\ captured = 0 /\ iteration = 0 /\ filled = FALSE
  /\ memory = [b \in {"first", "second"} |-> Filled(IF b = "first" THEN Garbage ELSE Zero)]
  /\ target = "first" /\ limit = "first" /\ held = "second"
  /\ cur = [buffer |-> "first", at |-> 0]
  /\ heldTone = 0 /\ aborted = FALSE /\ points = <<>>
  /\ files = [response |-> <<>>, capture |-> <<>>, of |-> 0]

Dies(reason) == main' = "dead" /\ why' = reason

(***************************************************************************)
(* The main thread.                                                        *)
(***************************************************************************)
CapeIsMissing ==
  /\ main = "start" /\ main' = "exit"
  /\ UNCHANGED <<test, why, tone, afe, transmission, thread, recording, results>>

\* cmdline_parse_args, over the defaults.  Of the other options (filter, offset, range and
\* gains) only the amplitudes depend.
Field == [A |-> "ini", B |-> "end", C |-> "iterations", D |-> "ref", H |-> "one", T |-> "calibration"]
Apply(settings, option) ==
  IF option.opt \in DOMAIN Field THEN [settings EXCEPT ![Field[option.opt]] = option.value]
  ELSE settings
Parse(emulated, line) == FoldLeft(Apply, TestDefaults(emulated), line)
Exits(line) == \E k \in DOMAIN line : line[k].opt \in {"help", "unknown"}

Plausible(settings) ==
  {settings.ini, settings.end, settings.ref} \subseteq Nat /\ settings.iterations \in Int
ASSUME ArgumentsAssumption ==
  \A emulated \in BOOLEAN, line \in CommandLines :
    ~ Exits(line) => Plausible(Parse(emulated, line))

ParseArguments ==
  /\ main = "start"
  /\ \E emulated \in BOOLEAN, line \in CommandLines :
       IF Exits(line) THEN main' = "exit" /\ UNCHANGED test
       ELSE main' = "create" /\ test' = Parse(emulated, line)
  /\ UNCHANGED <<why, tone, afe, transmission, thread, recording, results>>

\* The first part of execute_test.  A component that is not created gives a wrapper without
\* a handle, and the pointer tested is the AFE's.
CreateComponents ==
  /\ main = "create"
  /\ main' = "preload" /\ afe' = Blocks \cup {"dac_mode"}
  /\ UNCHANGED <<test, why, tone, transmission, thread, recording, results>>

ComponentIsMissing ==
  /\ main = "create" /\ Dies("component")
  /\ UNCHANGED <<test, tone, afe, transmission, thread, recording, results>>

\* The buffer of a whole number of cycles; the samples are stored without regard to its size.
PreloadTone ==
  /\ main = "preload"
  /\ len' = IF Tone(tone) = 0 THEN TxSamples ELSE BestSamples(Tone(tone))
  /\ pos' = 0 /\ sent' = <<>> /\ last' = -1
  /\ IF len' > TxSamples THEN Dies("overrun") ELSE main' = "transmit" /\ UNCHANGED why
  /\ UNCHANGED <<test, tone, afe, on, thread, recording, results>>

\* plc_tx_start_transmission, "assert(err == 0)", and the pause after it.
StartTransmission ==
  /\ main = "transmit"
  /\ \/ on' = TRUE /\ main' = "reset" /\ UNCHANGED why
     \/ Dies("transmission") /\ UNCHANGED on
  /\ UNCHANGED <<test, tone, afe, len, pos, sent, last, thread, recording, results>>

ResetRecordingKeepsIteration ==
  /\ main = "reset" /\ main' = "capture" /\ cur' = [buffer |-> target, at |-> 0]
  /\ UNCHANGED <<test, why, tone, afe, transmission, thread, iteration, filled, memory, target,
                 limit, results>>

ResetRecording ==
  /\ main = "reset" /\ main' = "capture"
  /\ iteration' = 0 /\ cur' = [buffer |-> target, at |-> 0]
  /\ UNCHANGED <<test, why, tone, afe, transmission, thread, filled, memory, target, limit, results>>

\* plc_adc_start_capture: only the one of ALSA fails.
StartCapture ==
  /\ main = "capture"
  /\ \/ rx' = "loop" /\ end' = FALSE /\ captured' = 0 /\ main' = "clear" /\ UNCHANGED why
     \/ test.device = "alsa" /\ Dies("capture") /\ UNCHANGED thread
  /\ UNCHANGED <<test, tone, afe, transmission, recording, results>>

ClearFilled ==
  /\ main = "clear" /\ main' = "wait" /\ filled' = FALSE /\ aborted' = FALSE
  /\ UNCHANGED <<test, why, tone, afe, transmission, thread, iteration, memory, target, cur, limit,
                 held, heldTone, points, files>>

WaitSeesFilled ==
  /\ main = "wait" /\ filled /\ main' = "stop"
  /\ UNCHANGED <<test, why, tone, afe, transmission, thread, recording, results>>

WaitGoesOn ==
  /\ main = "wait" /\ ~ filled /\ aborted' = TRUE
  /\ UNCHANGED <<test, main, why, tone, afe, transmission, thread, recording, held, heldTone,
                 points, files>>

\* "Waiting aborted...", after two seconds.
WaitIsAborted ==
  /\ main = "wait" /\ ~ filled /\ main' = "stop" /\ filled' = TRUE /\ aborted' = TRUE
  /\ UNCHANGED <<test, why, tone, afe, transmission, thread, iteration, memory, target, cur, limit,
                 held, heldTone, points, files>>

\* plc_adc_stop_capture: the flag, and a join that asserts after some seconds.
StopCapture ==
  /\ main = "stop" /\ main' = "join" /\ end' = TRUE
  /\ UNCHANGED <<test, why, tone, afe, transmission, rx, captured, recording, results>>

JoinCapture ==
  /\ main = "join"
  /\ \/ rx = "off" /\ main' = "quiet" /\ UNCHANGED why
     \/ rx = "frozen" /\ Dies("frozen")
  /\ UNCHANGED <<test, tone, afe, transmission, thread, recording, results>>

StopTransmission ==
  /\ main = "quiet" /\ main' = "measure" /\ on' = FALSE
  /\ UNCHANGED <<test, why, tone, afe, len, pos, sent, last, thread, recording, results>>

Point(used) ==
  [tone |-> Tone(tone), mean |-> AcMean(used), over |-> IF test.one = 0 THEN Gains ELSE {"given"},
   used |-> used, aborted |-> aborted]

\* The point of this tone; when the reference is reached the two buffers change roles.
HoldsThisTone == Iterations = 1 \/ (heldTone = 0 /\ Reached(tone))
MeasureKeepsLimit ==
  /\ main = "measure"
  /\ points' = Append(points, Point(SubSeq(memory[target], 1, cur.at)))
  /\ IF HoldsThisTone
     THEN held' = target /\ target' = held /\ heldTone' = Tone(tone)
     ELSE UNCHANGED <<held, target, heldTone>>
  /\ tone' = tone + 1
  /\ main' = IF tone + 1 < Iterations THEN "preload" ELSE "release"
  /\ UNCHANGED <<test, why, afe, transmission, thread, iteration, filled, memory, cur, limit,
                 aborted, files>>

Measure ==
  /\ main = "measure"
  /\ points' = Append(points, Point(SubSeq(memory[target], 1, cur.at)))
  /\ IF HoldsThisTone
     THEN /\ held' = target /\ target' = held /\ heldTone' = Tone(tone)
          /\ cur' = [buffer |-> held, at |-> 0] /\ limit' = held
     ELSE UNCHANGED <<held, target, heldTone, cur, limit>>
  /\ tone' = tone + 1
  /\ main' = IF tone + 1 < Iterations THEN "preload" ELSE "release"
  /\ UNCHANGED <<test, why, afe, transmission, thread, iteration, filled, memory, aborted, files>>

Release ==
  /\ main = "release" /\ main' = "save" /\ afe' = {}
  /\ UNCHANGED <<test, why, tone, transmission, thread, recording, results>>

SaveFiles ==
  /\ main = "save" /\ main' = "end"
  /\ files' = [response |-> IF Iterations > 1 THEN points ELSE <<>>,
               capture |-> memory[held], of |-> heldTone]
  /\ UNCHANGED <<test, why, tone, afe, transmission, thread, recording, held, heldTone, aborted, points>>

(***************************************************************************)
(* The transmission asks for a buffer: tx_fill_cycle_callback_preloaded.   *)
(***************************************************************************)
FillFromPreloadRestarts ==
  /\ main \notin Ended /\ on
  /\ LET ending == len - pos IN
       IF DmaSamples <= ending
       THEN sent' = [k \in 1..DmaSamples |-> pos + k - 1] /\ pos' = pos + DmaSamples
       ELSE sent' = [k \in 1..DmaSamples |-> k - 1] /\ pos' = DmaSamples
  /\ last' = IF sent = <<>> THEN -1 ELSE sent[DmaSamples]
  /\ UNCHANGED <<test, main, why, tone, afe, len, on, thread, recording, results>>

FillFromPreload ==
  /\ main \notin Ended /\ on
  /\ LET ending == len - pos IN
       IF DmaSamples <= ending
       THEN sent' = [k \in 1..DmaSamples |-> pos + k - 1] /\ pos' = pos + DmaSamples
       ELSE /\ sent' = [k \in 1..DmaSamples |-> IF k <= ending THEN pos + k - 1 ELSE k - ending - 1]
            /\ pos' = DmaSamples - ending
  /\ last' = IF sent = <<>> THEN -1 ELSE sent[DmaSamples]
  /\ UNCHANGED <<test, main, why, tone, afe, len, on, thread, recording, results>>

(***************************************************************************)
(* The capture thread: it reads a buffer and calls on_buffer_completed.    *)
(***************************************************************************)
CaptureLoops ==
  /\ main \notin Ended /\ rx = "loop"
  /\ \/ end /\ rx' = "off" /\ UNCHANGED captured
     \/ ~ end /\ captured < MaxBuffers /\ rx' = "read" /\ captured' = captured + 1
  /\ UNCHANGED <<test, main, why, tone, afe, transmission, end, recording, results>>

ReadCompletes ==
  /\ main \notin Ended /\ rx = "read" /\ rx' = "test"
  /\ UNCHANGED <<test, main, why, tone, afe, transmission, end, captured, recording, results>>

\* "'read' can freeze" (adc_bbb.c).
ReadFreezes ==
  /\ main \notin Ended /\ rx = "read" /\ test.device = "bbb" /\ rx' = "frozen"
  /\ UNCHANGED <<test, main, why, tone, afe, transmission, end, captured, recording, results>>

\* on_buffer_completed, in the order in which it touches what the main thread touches too.
CallbackTests ==
  /\ main \notin Ended /\ rx = "test"
  /\ iteration' = iteration + 1
  /\ rx' = IF iteration < Discarded \/ filled THEN "loop" ELSE "copy"
  /\ UNCHANGED <<test, main, why, tone, afe, transmission, end, captured, filled, memory, target,
                 cur, limit, results>>

CallbackCopies ==
  /\ main \notin Ended /\ rx = "copy"
  /\ LET copied == IF RxSamples - cur.at > Chunk THEN Chunk ELSE RxSamples - cur.at
         Read(k) == Sample(IF on THEN Tone(tone) ELSE Rest, (captured - 1) * Chunk + k)
     IN /\ memory' = [memory EXCEPT ![cur.buffer] = [k \in 1..RxSamples |->
                        IF k \in (cur.at + 1)..(cur.at + copied) THEN Read(k - cur.at) ELSE @[k]]]
        /\ cur' = [cur EXCEPT !.at = @ + copied]
  /\ rx' = "full"
  /\ UNCHANGED <<test, main, why, tone, afe, transmission, end, captured, iteration, filled, target,
                 limit, results>>

CallbackFills ==
  /\ main \notin Ended /\ rx = "full" /\ rx' = "loop"
  /\ filled' = (filled \/ cur.at = RxSamples)
  /\ UNCHANGED <<test, main, why, tone, afe, transmission, end, captured, iteration, memory, target,
                 cur, limit, results>>

Main ==
  \/ CapeIsMissing \/ ParseArguments \/ CreateComponents \/ ComponentIsMissing \/ PreloadTone
  \/ StartTransmission \/ ResetRecording \/ StartCapture \/ ClearFilled \/ WaitSeesFilled
  \/ WaitIsAborted \/ StopCapture \/ JoinCapture \/ StopTransmission \/ Measure \/ Release \/ SaveFiles
CaptureThread ==
  CaptureLoops \/ ReadCompletes \/ CallbackTests \/ CallbackCopies \/ CallbackFills
Next == Main \/ FillFromPreload \/ CaptureThread \/ ReadFreezes

\* The main thread runs and its clock advances; the capture thread runs, and its reads
\* complete unless they freeze.
Fairness == WF_vars(Main) /\ WF_vars(CaptureThread)
Spec == Init /\ [][Next]_vars /\ Fairness

(***************************************************************************)
(* Properties                                                              *)
(***************************************************************************)
\* Each point comes from its own tone (not from the one before, from the silence around the
\* transmission or from two of them) and, unless the wait was aborted, from a whole buffer
\* recorded without gaps after the first buffers, which are discarded.  The gains assumed in
\* the expected mean are those in the path: those of the reception when its blocks are on
\* (on_buffer_completed, the loop of execute_test).
PointsAreMeasured ==
  \A k \in DOMAIN points : LET p == points[k] IN
    /\ p.tone = Tone(k - 1)
    /\ p.used # <<>> => p.mean = p.tone /\ p.used[1].n > Discarded * Chunk
    /\ \A j \in 2..Len(p.used) : p.used[j].n = p.used[j - 1].n + 1
    /\ p.aborted \/ Len(p.used) = RxSamples
    /\ p.over # {"given"} => ("rx_pga2" \in p.over <=> "rx" \in Blocks)

\* The capture that is saved is the one of the first tone at or over the reference, and is the
\* one its point was computed from ("Reference frequency in which to also store the captured
\* samples"); zeros when no tone reaches it.  A tone of zero is given up for a later one, as a
\* frequency of zero stands for none.  Past what an aborted wait had captured, it is of any
\* tone.
MayBeHeld(k) == Iterations = 1 \/ Reached(k)
HeldAmong(n, h) ==
  IF Tone(h) # 0 THEN \A j \in 0..n - 1 : MayBeHeld(j) /\ Tone(j) # 0 => h <= j
  ELSE \A j \in 0..n - 1 : MayBeHeld(j) => Tone(j) = 0 /\ j <= h
CaptureIsOfReference ==
  main = "end" =>
    IF \A k \in 0..Iterations - 1 : ~ MayBeHeld(k)
    THEN files.of = 0 /\ files.capture = Filled(Zero)
    ELSE \E h \in 0..Iterations - 1 :
           /\ MayBeHeld(h) /\ HeldAmong(Iterations, h)
           /\ files.of = Tone(h)
           /\ LET used == points[h + 1].used IN used = SubSeq(files.capture, 1, Len(used))

\* What the sweep saves is what it measured: the points of the response and the capture of
\* the reference tone.
ResultsAreMeasured == PointsAreMeasured /\ CaptureIsOfReference

\* The tone is transmitted without jumps: each buffer goes on where the one before ended,
\* from the last preloaded sample to the first (tx_fill_cycle_callback_preloaded).
WaveContinues ==
  \A k \in DOMAIN sent : sent[k] = (last + k) % len

\* The program dies only of a component that is missing (the pointer tested is another), of a
\* start that fails, of a read that freezes, and of a tone whose cycle does not fit in the
\* buffer, which is the only one written past its end; the transmission never asks for more
\* than the buffer holds nor sees it change; the recording stays in one buffer; and the AFE
\* and both devices are at rest at the end.
FailuresAreKnown ==
  /\ why = "overrun" <=> main = "dead" /\ len > TxSamples
  /\ len > TxSamples => 0 < Tone(tone) /\ Tone(tone) * TxSamples < Rate * Unit
  /\ why = "frozen" => rx = "frozen"
  /\ main = "dead" <=> why # "alive"
  /\ on => DmaSamples <= len /\ len <= TxSamples /\ main # "preload"
  /\ rx # "off" => limit = target /\ cur.buffer = target
  /\ main \in {"exit", "end"} => afe = {} /\ ~ on /\ rx = "off"

\* The sweep ends, whatever the reads do: nothing waits for ever for a buffer.
SweepEnds == <>(main \in Ended)
=============================================================================
