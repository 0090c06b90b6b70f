# A formal model of PlcCape

PlcCape is the software of a power-line-communication cape for the BeagleBone
Black: two kernel drivers, a few C libraries, a laboratory application with
plug-ins, an oscilloscope and some small tools. This directory holds TLA+
models of the parts where threads, interrupts and timers meet, the TLC
configurations that check them, and TLAPS proofs about them. Every definition
is translated from the source; `PROJECT.json` gives the lines it stands for.
All paths below are relative to the root of the repository's sources (`src/`).

## 1. The system

### Components, their state and their operations

| component | state | operations | correct when |
|---|---|---|---|
| ADC driver `drivers/adc/adc_hs.c` | FIFO1, the ring `dma_samples` with two pointers, `data_avail`, `continuous_transfer_started` | interrupt handler, `read`, start and stop ioctls | samples arrive in order, each once, until an overflow; the overflow is reported; no copy leaves the ring |
| ADC sequencer `ti_am335x_tscadc_plc.c` | step enables | set, clear | - |
| SPI driver `drivers/spi/spi-omap2-mcspi_plc.c` | mode, mapped buffers, index of the buffer in DMA, completion | debugfs commands, wait ioctl, DMA callback, ordinary transfers | the index is the channel's, a reset recovers from a killed process, nobody waits for ever |
| SPI character device `drivers/spi/spidev_plc.c` | one `spidev_data` per binding, users, buffer | probe, remove, open, release, ioctl, read and write | what is freed is not used, and is freed by the last one |
| transmission `libplc-cape/tx.c` + scheduler `tx_sched_afe_async_thread.c` | two buffers, two indices, `buffer_flushed`, two `end_thread` flags | start, stop, filling thread, sending thread | buffers go out whole and in order; stop returns |
| ping-pong DMA `tx_sched_afe_async_dma.c` | two buffers, two indices | start, stop, fill, wait | the thread never writes to the buffer the DMA reads |
| transmission over a FIFO `tx_sched_fifo.c`, capture `libplc-adc/adc_fifo.c` | two descriptors, two buffers, the pipe | start, stop, fill, flush, capture thread | both stops return, the pipe is not broken |
| other schedulers (`_sync`, `_alsa`) | one buffer | fill, flush | what is filled is what goes out |
| AFE, SPI device, LEDs, GPIO library | register shadow, file descriptors, pins, callback threads | configure, activate blocks, calibrate, DAC mode, flags, LEDs | the hardware is what the records say |
| captures `adc_bbb.c`, `adc_alsa.c`; `rx.c` | capture thread, descriptors, counters of the file, decoder | start, stop, buffer completed | what is stored and decoded is what was captured; stop returns |
| signal filter `libplc-tools/signal.c`, analysis `analysis.c` | the ends of the last chunk, running statistics | process a chunk, detect data | chunks join without a seam |
| encoder and decoder plug-ins | phase of a message | prepare samples, parse samples | what is encoded is decoded |
| controller `plc-cape-lab/controller.c` | `controller_activated`, `controller_communication_in_progress`, one timer and `stop_communication_on_timer`, the objects | activate, deactivate, timer callback, start and stop a communication, settings changes | everything runs or nothing does; limits are kept; no object is used after its release |
| settings and profiles `settings.c`, `profiles.c`, `libplc-tools/settings.c` | lists of settings, the tree of profiles | load, select, dialogs, command line | the nearest profile wins |
| user interface `ui.c`, `ui-ncurses`, `logger.c`, `monitor.c` | panels, two locks, the threads that draw | keys, dialogs, log lines, signals | one thread draws; each key is served; the end comes |
| oscilloscope | ring, chunk, two buffers, viewer, cursors, transform | record, trigger, zoom, pan, dialogs, configurations | what is drawn is inside its buffer and has no seams |
| frequency response | preloaded tone, captured tone, the points | the sweep | each point is of its own tone |
| autotest, demo | - | - | - |

### How they interact

The controller, in the thread of the UI or of its timer, starts the
transmission first and the reception second and stops them in the opposite
order (`controller.c:468-588`). The transmission's thread pulls samples from the
encoder by a callback and hands each buffer to a scheduler: a second thread and
the SPI driver, the DMA of the driver, ALSA, or a named FIFO. The reception's
thread gets buffers from the ADC driver's ring, from ALSA or from that FIFO and
pushes them by a callback to the analysis, the file and the decoder. The monitor
thread shows the statistics of both. Nearly all of this is shared without a
lock: flags (`end_thread`, `buffer_flushed`, `data_avail`), pointers and indices.
The user interface calls the controller from the actions of its menus, which run
with the interface's lock released; the monitor, the timer and the AFE's flags
log to the same interface from their own threads. The AFE, the LEDs and the DAC
share one SPI device and two banks of GPIO. The oscilloscope and the frequency
response use the same libraries, each with a capture callback of its own.

### What is hard

* Concurrency: interrupt handler against reader; filling thread against sending
  thread; timer callback against user; stop against everything.
* Ordering: which side of a FIFO is stopped first; which flag is set before
  which join; a timer armed before the variable that says what it is for.
* Limits: a full ring looks like an empty one; a pointer may rest at the end of
  the ring; the FIFO fills up when its reader has been stopped.
* Time: a filling thread that is late, a timeout that expires too early.
* Partial failure: a start that fails after the transmission has begun; a device
  that is not there, goes away, or takes a part of a buffer.
* Stale references: an encoder replaced under the transmission that uses it; a
  viewer placed in a buffer that has been exchanged or resized.
* Locks: two of them taken in opposite orders; a handler that needs the one its
  thread holds.

Each is listed with its line and the properties about it under `hazards` in
`PROJECT.json`.

## 2. The modules

| module | models | extends / uses |
|---|---|---|
| `SampleChannel` | abstract: a bounded in-order channel that promises nothing after an overflow | - |
| `AdcRing` | the continuous capture of `adc_hs.c` | implements `SampleChannel` |
| `TxAsyncThread` | `tx.c` with `tx_sched_afe_async_thread.c` | - |
| `TxDma`, `TxDmaProofs` | `tx.c` with `tx_sched_afe_async_dma.c` and the SPI driver; its theorems | - |
| `FifoLink` | `tx.c` with `tx_sched_fifo.c`, joined with `adc_fifo.c` | - |
| `Controller`, `ControllerProofs` | the activation and the timer of `controller.c` | - |
| `Profiles` | lists of settings, their conversion, inheritance, command line | - |
| `ProfilesXml` | the reader of `profiles.xml` as a stack machine over libxml's nodes | `Profiles` |
| `LabObjects` | the objects of plc-cape-lab and who holds a reference to which | `ProfilesXml` |
| `TerminalUi` | `ui-ncurses`, `ui.c`, the logger's lock, monitor, timer, signal | - |
| `Encoders`, `Decoders` | the plug-ins as machines over samples and chunks | - |
| `TextLink` | an encoder, a line, the detection of data and a decoder | `Decoders` |
| `SignalIir` | the filter of `signal.c`, by chunks and of the whole signal | - |
| `Capture` | `rx.c` over `adc_bbb.c` and `adc_alsa.c` with a decoder's filter | `SignalIir` |
| `SpiDev` | the character device of `spidev_plc.c` | - |
| `CapeCalls` | what each library call does to the hardware, step by step | - |
| `CapeDevices` | the cape in use: `cape.c`, `afe.c`, `spi.c`, `leds.c`, `gpio.c` and two schedulers | `SpiDev`, `CapeCalls` |
| `PlotArea` | the oscilloscope's buffers, viewer, cursors, transform: pure operators | - |
| `Scope` | the oscilloscope: interface, recording thread, capture callback | `PlotArea` |
| `FreqResponse`, `FreqResponseProofs` | the sweep of plc-cape-freq-response; its theorems | - |
| `RingProofs` | theorems about `AdcRing` and `Scope`, rings of samples, and `TxAsyncThread`, a ring of buffers | all three |
| `CaptureProofs` | theorems about `FifoLink` and `Capture`, the captures of plc-cape-lab | both |
| `CapeDevicesProofs` | theorems about `SpiDev` and `CapeDevices` | both |
| `CapeRegistersProofs` | theorems about the registers of `CapeDevices`, and all its ends | `CapeDevicesProofs` |
| `LabProofs` | theorems about `LabObjects` and `TerminalUi`, the user's side of plc-cape-lab | both |
| `MC*` | the module of the same name, for TLC | |

The proof modules that cover several models extend them all, so a theorem of theirs is
stated under the assumptions of all; no model of them but `CapeDevices` refers to another.

Operators whose comment begins with "Mutant" are not part of a model. Each is a
plausible slip of the definition that follows it; with it in place of that
definition, TLC finds one of the properties violated.

### AdcRing

`fifo`, `overrun` and `fifo1count` are the hardware's FIFO1 and the count the
running handler still has to drain; the other variables are those of the driver,
with pointers as offsets from `dma_samples` (`N` is `dma_samples_end`). `pc` is
the place of the client thread in `adchs_read`. `out`, `produced`, `reported`
and `lapped` are history. A sample is its position in the capture, so order and
loss are visible.

| action | code |
|---|---|
| `Convert` | the hardware |
| `IrqOverrun`, `IrqThreshold`, `IrqDrain` | `tiadc_irq`; one `IrqDrain` per word |
| `StartCapture`, `StopCapture` | the two ioctls |
| `Read`, `ReadInterrupted`, `ReadWoken`, `ReadSnapshot`, `CopyWord`, `ReadReturn` | `adchs_read`, divided where the handler may interfere |

Assumed: the AM335x has one core, so the handler is not interleaved with the
reader inside itself; the write pointer is loaded once for the amounts of lines
850-856; recovering from an overrun empties FIFO1; one client thread issues the
ioctls and the reads, as `adc_bbb.c` does, so no capture is stopped during a
read (`abort_continuous_transfer` then never matters); copies to user space
succeed. A start leaves the words of an earlier capture in the ring: they are
all represented by one value, `Stale`, which no position equals.

### TxAsyncThread

`ctl` is the client inside `plc_tx_start_transmission` and
`plc_tx_stop_transmission`; `tx` is `thread_spi_tx_buffer` with the scheduler's
fill and wait functions; `flusher` is `tx_sched_async_thread_thread`. The other
variables are the scheduler's, except the history: a buffer's `content` is its
generation, `Torn` while it is being filled; `sent` is what the last transfer
started with; `onTime` counts the transfers that ended with the filling thread
already waiting.

The sending thread increments the index, wraps it and starts the transfer in three
steps (`FlushNext`, `FlushWrap`, `FlushStart`), and the filling thread may read the
index between any two of them. Between the first two it reads one past the last
buffer: what it then fills or reports is what follows the array of pointers, which
the callback may survive or not (`Crash`, after which `Crashed` is all that happens).

The condition variable is modelled with its three pitfalls: the signal is sent
without the mutex and is lost unless the other thread waits already; test and
wait are separate steps; a wait may end without a signal.

`boosted`, chosen in the initial state, is the real-time priority that the filling
thread gives itself on the target (`tx.c:90-107`): no other thread takes a step
while it can run. Its callbacks may sleep (`Block`), which is how it comes late. In
emulation there is no priority (`boosted` is false). Assumed: the SPI driver copies
the user's buffer when a transfer starts (`spidev_plc.c:262-265`), so what matters
is the buffer at that moment.

### TxDma

`ctl` is what the process has created or is doing, `process` tells a process
from the one before; `tx` is the filling thread, with the driver's wait ioctl
divided where the DMA's callback may interfere. The variables of the driver keep
their names (`stop_dma_after_tx` is always the opposite of `ping_pong_enabled`).
`dma`, `inDma` and `source` are the EDMA channel: off, in the ring of the two
buffers or in an ordinary transfer, the buffer it reads, and whose pages.

The operators `Reset`, `AllocateBuffers`, `ReleaseBuffers`, `StartDma` and
`AbortDma` are the commands 0x0, 0x2, 0x3, 0x4 and 0x5 of `execute_command`;
the actions of the process call them as `spi.c` does. `Kill` ends a process
anywhere but inside an uninterruptible wait. `PlainSend` and `PlainSent` are the
transfers of the mode `buffer_by_buffer`.

Assumed: the tasklet runs when the DMA's interrupt returns, before any thread
(one core, a softirq not deferred for the length of a buffer), so that the two are
one step; mapping pages and waking the device succeed; the polls that follow
the wait of an ordinary transfer end when its words are out.

### FifoLink

`tx`, `rx` and `ctl` are the transmission's thread, the capture's thread and the
controller, which uses them in the order of `controller_start_communication` and
`controller_stop_communication`. `fifo_tx` and `fifo_rx` say whether a
descriptor is not -1; `writer` says whether a file of the process is still open
for writing, which outlives the descriptor while a write is under way. The FIFO
is the kernel's: open waits for the other side, a blocking write puts all its
bytes or waits, close does not wake it. A piece stands for a number of bytes.

### Controller

Threads are the UI's and those in which the timer's callback runs; `pc` and
`ret` give their places and where the two functions with several callers return
to. The calls are divided at the points where the code calls into the
transmission, the reception and the monitor, which take long. The objects behind
these calls are running or not; stopping one that is not running is an assertion
there. `failed` names the assertion that ended the process. With `serial`, chosen
in the initial state, a command or an expiry begins only when no other call is
under way: the code does not ensure it, it is true when the communication times
are long compared with the calls. Without it the callbacks in `Overlapping` may
begin at any time. Both a transmission and a reception are configured, and the
settings do not change during a communication.

### Profiles, ProfilesXml and LabObjects

A setting is a pair of texts until `Data` converts it to what its definition
asks for: `Numbers` gives the number a text starts with, a number wraps to the
width of its type, a text that starts with none leaves `Unset`, and the caption
of an enumeration must be known (`Understood`). `Push` merges a profile over its
ancestors as `profiles_push_profile` does, by the order of its assignments.
`ProfilesXml` reads a document node by node: `frames` are the functions in
progress, each of which returns at the end element it meets, which is not always
its own. `LabObjects` holds one value per reference between the objects (`null`,
`live` or `freed`); its actions are the handlers of `ui.c` and `controller.c`,
one at a time, and the whole start-up (`Create`), the reading of the document
included. Documents, definitions and command lines are constants. A document is its
nodes, which the reader gets, and the profiles they describe, by which
`NearestProfileWins` judges what is set, except for what the reader is known to lose. `Documents` gives
each one beside what it describes; the reader sees the nodes only, and
`NearestProfileWins` only the description, but for what the reader is known to lose.

### TerminalUi

A thread runs a program, the sequence of instructions it still has to execute;
an instruction that takes or releases a lock, draws, opens or closes a panel is an
action. Keys, timers and signals add programs. `lock` is `tui->lock`, recursive;
`logLock` is the logger's, which is not. `sig` says what the signal's handler
interrupted. The "callback" is the thread of the timer or of the AFE's flags, one
at a time.

### Encoders, Decoders and TextLink

A sample is whether the carrier is on, as the demodulation is taken for ideal:
amplitude, offset and the sine are left out, timing is not. The settings of an encoder
say what text it has, how long it believes it is (`length`), and what the memory holds
behind a string that it reads past (`behind`): its own message, for `encoder-ook` with a
length of 0, or an empty entry of the table of `encoder-morse`. An encoder is a
function from its state to the next sample; a decoder takes a chunk and gives
characters with their places. `TextLink` sends and captures with buffers of
different lengths, begins the capture anywhere, and compares what is decoded with what
was sent, and what is sent with the text of the message (`told`, `strayed`).

### SignalIir and Capture

`SignalIir` computes the filter in the two chained buffers of the code and, as
the reference, on the whole signal by a recursive function. `Capture` drives it
from the capture thread with every device, mode of reception and demodulation of
the settings; samples are numbered, so that the file and the chunks can be
compared with what was captured. `frozen` is the read that does not come back.

### SpiDev, CapeCalls and CapeDevices

`SpiDev` keeps one record per `spidev_data` ever allocated, so that a use after
the release is visible (`fault`). `CapeCalls` lists, for each function of the
libraries, the steps another thread may come between: the load and the store of
a bank of GPIO, the two system calls of the read of a register, the lock of the
LEDs. `CapeDevices` has the threads of plc-cape-lab run these lists (`todo`) and
gives each step its effect on the registers, pins and driver; the registers are
sets of flags. The ALSA scheduler replaces the SPI one on an emulated board.

With an interval between the communications (`periodic`) the activation only arms the
timer, and the timer's thread starts the communication (`TimerStarts`), ends it without
deactivating, and is armed for the next (`TimerStops`); without one the user's thread
starts it and the timer's, if there is a limit, ends and deactivates it. The user's
deactivation begins here when the timer's thread does nothing: their overlap is in
`Controller`.

### PlotArea and Scope

Positions and widths are counted in `Parts` of a sample; ratios of the area's width
likewise. A buffer is whether its samples follow each other; these are numbered in
the order of the capture, modulo `Ticks`. `Scope` has three threads: the user
interface (one action per handler), the recording thread and the callback of the
capture, the last two step by step because they share the ring, the counter and the
buffers without a lock. `Budgets` bound how many events, loads and recordings a
behaviour has, and which handlers.

Assumed (`SettingsAssumption`): the interval and the rate of a dialog or of a
configuration are positive. The program takes any number, and makes empty buffers
of 0 and less. `over` collects what is read outside of its buffer, by cause: the
ring during a race, the viewer widened by a dialog, the cursors, the graph of the
transform (which takes more events than the run has), and the first point of a
transform of no sample, which is written whatever its size (`plot_area.cpp:1158`).

### FreqResponse

`main` and `rx` are the places of the main thread and of the capture's callback.
A captured sample is the tone that was on the line and its number, so that a
point can be told from one made of another tone's samples. The amplitude of the
transform and the response of the line are left out.

### Assertions

Where the code asserts, a module records the assertion and stops
(`failed`, `dead`, `why`, `ctl = "aborted"`): the properties named
`FailuresAreKnown` and `NoAssertionFails` say which of them can happen and after
what. `CHECK_DEADLOCK FALSE` stands in the configurations of these modules, as
the process has ended, and in that of plc-cape-lab, which may exit.

## 3. What the runs check

| run | instance | distinct states | properties |
|---|---|---|---|
| `adc_ring` | ring of 4, FIFO1 of 3 with threshold 2, reads of 1 to 5, 9 samples | 100,779 | bounds, reports, refinement of the channel |
| `tx_threads` | 2 buffers, generations modulo 5, with and without the priority | 416,066 | wholeness and order in time, recovery, stop |
| `tx_dma` | generations modulo 5, processes modulo 2 | 188,872 | wholeness, recovery of the driver, stop |
| `fifo_link` | buffers of 2 and 3 pieces, FIFO of 5 | 1,517 | broken pipe, stops |
| `controller` | 2 callback threads, one overlapping | 56,620 | consistency, assertions, limits |
| `lab_objects` | 10 documents, two encoders, a decoder and a missing plug-in, command lines | 204,207 | references, settings, inheritance |
| `terminal_ui` | 3 panels | 299,140 | who draws, keys, signals |
| `text_link` | 9 pairs of plug-ins, messages and buffer sizes | 59,567 | the text received |
| `capture` | chunks of 2, 8 samples, every device and mode | 61,377 | the file, the seams, assertions, stop |
| `devices` | first cape, four boards, one SPI device, two openers, on demand and periodic | 371,992 | lifetimes, registers and pins, flags, order |
| `scope` | ring of 3, buffers of 2 to 6 samples, nine budgets | 2,551,713 | viewer, reads, seams, failures |
| `freq_response` | sweeps of one to three tones, nine command lines | 310,120 | points, wave, failures, end |

### The bounds and why they are enough

* `AdcRing`: `MaxSamples = 9` lets the handler lap a ring of 4 twice, also during
  one read; reads of 5 are longer than the ring. The proofs remove the bounds on
  the ring, FIFO1 and the reads.
* `TxAsyncThread`: the code has 2 buffers; 5 generations tell the next one from
  a repeated, a skipped and an older one. An instance with 3 buffers and 6
  generations passes too. After `Settled` transfers in time everything a late
  spell left in the buffers has been sent.
* `TxDma`: killed processes and mode changes may follow one another without limit;
  two identities tell the present process from whoever left something behind. The
  driver has two buffers. `MaxDone` (2) caps the count of the completion, of which
  only "more than zero" is ever used between two `init_completion`.
* `FifoLink`: buffer lengths that do not divide each other or the capacity make
  every alignment of the two sides happen, a residue at a stop included.
* `Controller`: two callback threads let one be in a call while the timer of the
  same or of a later activation expires; one of them overlaps with any call.
* `LabObjects`: the documents have a chain of inheritance, a cycle, a plug-in that
  is not installed, a file cut at any of five places, empty and unknown elements
  between sections, among settings and in the tree, two sections for one encoder;
  settings of every type are given at two levels and by the command line, with other
  values; there is no bound on what the user does.
* `TerminalUi`: `MaxPanels = 3` is a dialog's list over a submenu, the deepest that
  `ui.c` opens but one.
* `TextLink`: even and odd bit lengths, chunks of one bit and of several
  characters, a capture that begins at every seventh sample of a buffer; sending
  goes round its message for ever. `IndexRange` is the width of `message_index`, 2^16 in
  the code and 16 here, so that the default message of `encoder-ook` comes round; what is
  behind it and behind an empty entry is one memory of many.
* `Capture`: two samples per chunk and a filter of two taps chain across every
  seam; eight samples are four chunks, more than a file asks for.
* `CapeDevices`: two initialisations, two events (edges, LED, menu) and one binding,
  placed at any step; two samples per buffer and periods of one and two make the
  sound card take a half. One of the two settings is periodic. `Versions = {1}`: see the
  pins below.
* `Scope`: five events without a recording, or a recording with two events of one
  kind of handler, or two recordings, reach every handler from every mode; a ring
  of three filled one, two or three samples at a time wraps in all alignments.
* `FreqResponse`: three tones are one before, one at and one after the reference;
  five buffers of a capture are those discarded, those used and one too many.

### Fairness

Threads that can run, and calls under way, proceed, and the DMA goes on: weak
fairness. With `boosted`, the sending thread gets the core whenever the boosted
one waits, however briefly, which needs strong fairness: the enabledness comes
and goes. The same holds in `TerminalUi` for a lock that is free again and again.
An armed timer expires (`Controller`), the join of a capture times out (`Capture`),
the clock of a wait advances (`FreqResponse`). Nothing is assumed of the user
(starting, stopping, keys), of callbacks that sleep, of start failures, of signals,
of reads that freeze or of spurious wakeups. `LabObjects`, `TextLink`,
`CapeDevices` and `Scope` have safety properties only and no fairness.

### Properties in words

* `ReadStaysInBounds`, `ReportedUnlessAtEnd`, `ImplementsChannel`: the ring
  delivers the first samples of the capture, each once and in order, until `N`
  samples wait; then the handler says so, except in the corner below. The capacity
  is `N - 1`. `InOrder` and `ReportIsOverflow` follow and are proved.
* `NotTornInTime`, `SentInTurn`, `Recovers`, `StopCompletes`: with the real-time
  priority a filling thread in time is never caught filling the buffer that goes out;
  the order is that of filling from the start, and again after a late spell, which ends
  by itself, if the program does not end on an index read before its wrap; with and
  without the priority, stopping returns although signals can be lost, because the
  sending thread signals again until the filling thread has been joined. Without the
  priority a buffer may be torn (see below), and nothing is claimed of it.
* `FillAvoidsBufferInDma`, `ChannelIsAccountedFor`, `StopCompletes` (of `TxDma`): a
  thread in time never writes to the buffer that is read in place; what a killed
  process left running, mapped or awake is undone by the next one's reset; the join
  always returns. `InOrder`, `IndexIsBufferInDma` and `ReadsOwnPages` are proved.
* `PipeNotBroken`, `StopsComplete`: the order of the stops and the descriptor kept
  open by the capture do what their comments say, but for a write nobody reads.
* `AllOrNothing`, `NoAssertionFails`, `TimeoutDeactivates`: the one timer alternates
  correctly between its purposes and every exit cleans up.
* `OnlyKnownDangling`, `ObjectsMatchSettings`, `NearestProfileWins`: references to
  released objects have two sources only; what runs is what the settings ask for;
  and the value of a setting is that of the command line, or of the nearest profile that
  gives one, of each type, from the document to the number in memory; one that nobody
  gives is left alone.
* `OnlyActionsDrawUnlocked`, `KeysAreServed`, `SignalAtRestEnds`: two threads are
  inside curses only when one is the action of a menu item; a key is served unless
  the two locks embrace; a signal that finds the interface at rest ends it.
* `TextIsMessage`, `EveryCharacterArrives`: from the first character that begins in
  a decoded chunk on, all of them, in time; and what is sent is the text of the message,
  unless the encoder reads past a string.
* `FileIsWhatWasCaptured`, `ChunksAreSeamless`, `StopEnds`: the file is the first
  samples from the buffer in which data were detected on; the filter by chunks is
  the filter of the whole; a stop ends, in an assertion at worst.
* `SpidevLifetimes`, `ChipAgrees`, `FlagsFollowPins`, `SentInOrder`: no data of a
  device are used or freed twice; registers, driver and pins are what the records
  of the libraries say whenever the cape is at rest; flags follow their pins; what
  is filled is what goes out.
* `ViewerInBuffer`, `OnlyKnownOverreads`, `SeamsAreKnown`: the viewer is inside the
  buffer after every handler; what is read outside of a buffer, and samples that do
  not follow each other, have known causes.
* `ResultsAreMeasured`, `WaveContinues`, `SweepEnds`: a point is made of its own
  tone's samples and no others, the saved capture is that of the reference, the
  tone has no jumps, and the program ends whatever the reads do.
* `FailuresAreKnown` (of four modules): the assertions that can fail and the freed
  objects that can be used are those listed in the property, each after its cause.

### Where the code does not do what one would expect

Met while modelling; the properties above are stated with these cases in them.

1. The release of a ping-pong DMA transmission leaves `ping_pong_enabled` set
   (`spi-omap2-mcspi_plc.c:1519-1530`). If the mode is then changed to
   `buffer_by_buffer`, the first ordinary transfer is taken for a missed ping-pong
   buffer and the process gets signal 44, whose handler `plc_tx_release` has
   removed: its default action ends the application.
2. After a missed buffer, `last_buffer_flushed` is the buffer in transmission and
   not the one just sent (`tx_sched_afe_async_thread.c:120-123`). A late thread that
   reads it between its increment and its wrap (lines 61-63) fills or reports what
   follows the array. Without the real-time priority even a thread in time may take the
   new index before its transfer starts (line 64), and write to the buffer that goes out.
3. A stop requested while the thread fills or opens the FIFO is followed by an open:
   the assertion of `tx_sched_fifo.c:67` fails. Closing the descriptor does not end
   a write blocked on a full FIFO, contrary to the comment of `tx_sched_fifo.c:59`.
4. The timeout is armed before the communication is started; expiring during the
   start, it fails the assertion of `controller.c:566`. The user's deactivation
   during a callback can delete the timer twice or arm it after its deletion.
5. A read that ends at the end of the ring leaves `dma_samples_cur_read` at
   `dma_samples_end` (`adc_hs.c:867`); the write pointer is wrapped before it is
   compared, so a ring that is lapped now is not reported (`adc_hs.c:185`). The data
   itself is handled correctly.
6. The plug-in dialogs replace an encoder or decoder under the transmission or the
   reception made with it; a profile that fails leaves the monitor's references
   (`OnlyKnownDangling` names both).
7. In `profiles.xml` an empty element that is not known swallows the section around
   it, and the depth is asserted later (`profiles.c:101`, `204`, `258`); a self-ended
   `node` takes its siblings, because `IsEmptyElement` is asked with the reader on an
   attribute. Errors of nested nodes are hidden by an inner `ret`
   (`profiles.c:342`). The "Invalidad mix" of `profiles.c:691` compares a name with
   itself. A number that is none leaves uninitialised data (`libplc-tools/settings.c`).
8. A dialog that logs holds `tui->lock` and wants the logger's; a timer thread that
   logs holds the logger's and wants `tui->lock`. A signal that interrupts a thread
   that holds one of them never ends the application (`main.c:49`). A menu whose item
   closed it is used after its release to take the lock again (`tui_menu.c:79`, `105`).
9. The decoders never look at the size of the output buffer; `rx.c:149` asserts only
   afterwards. With `samples_per_bit` below 4, decoder-ook detects nothing. With its
   default message `encoder-ook` has the length 0 (`encoder-ook.c:91-99`) and sends what
   follows the text in memory; for `;`, `<` and `>` encoder-morse sends a dot and what
   follows an empty string (`encoder-morse.c:86`, `328`).
10. A failed start of the ALSA capture leaves the decoder initialised, so that the
    next start asserts (`rx.c:240`). The period the sound card settles on is not
    compared with the requested one (`adc_alsa.c:96-123`): a shorter one makes `rx.c:143`
    read past it, and `tx.c:130` as well.
11. A read of a register and an entry into the DAC mode can interleave: `spi.c:481`,
    `428` and `456` assert. It takes the user, who asks for the overloads during a
    communication, or while the timer's thread starts or ends a periodic one. Every initialisation hooks one more callback thread on each
    flag (`gpio.c:333`), which uses the pin after its release. The LED's timer uses the
    mutex after `plc_leds_release` (`leds.c:81`). A message of more than `bufsiz` bytes is
    lost without an error (`spidev_plc.c:250`, `spi.c:367`).
12. On the second cape the LEDs share a bank of GPIO with the pins of the AFE; the
    mutex of the LEDs ("Led access mutexed because can be called from different
    threads", `leds.c:94`) does not cover the AFE's writes, and one store undoes the
    other (`gpio.c:173`). `ChipAgrees` speaks of the pins of the first cape only.
13. The oscilloscope reads its ring while the callback moves the pointer, and the
    counter of stored samples is changed by two threads (`recorder_plc.cpp:184`, `226`). The
    buffers can be allocated again while a chunk is copied to them (`plot_area.cpp:345`).
    A capture that did not start is joined at the stop (`recorder_plc.cpp:131`, `163`). A
    transform of a buffer without samples writes the first of its points all the same
    (`plot_area.cpp:1158`).
14. In plc-cape-freq-response a tone whose cycle is longer than the preloaded buffer
    is written past its end (`main.c:694`); the tests of `plc_tx` and `plc_adc` test
    `plc_afe` (`main.c:621`, `625`); an aborted wait gives a mean of no samples.

## 4. What is proved

`RingProofs` proves of `AdcRing`, for every ring length above 1, every FIFO depth and
threshold, every read length and number of samples (`RingAssumption`):

| theorem | property |
|---|---|
| `TypeCorrect` | `TypeOK` |
| `BoundsSafety` | `ReadStaysInBounds` |
| `OrderSafety` | `InOrder` |
| `ReportSafety` | `ReportIsOverflow` |
| `ReportCompleteness` | `ReportedUnlessAtEnd` |
| `Refinement` | `ImplementsChannel` |

`TypeOK` alone is inductive only together with `SnapshotInv`, which says what the
lengths computed in `ReadSnapshot` were computed from: the copy goes on while the
write pointer moves, so the bounds must not depend on it. For order, `RingInv` (part
of `AdcRingInv`) adds, as long as the ring has not been lapped, that the difference
of the pointers measures the samples waiting (`PointersMeasureLag`) and that the
unread part of the ring holds exactly the next samples (`UnreadHeld`); this is what
a copied word, a drained word and a moved read pointer each preserve. The lemmas
follow that division, one per group of actions; `InductiveStep` joins them, and the
refinement maps every step to a step of the channel or a stutter.

Of `Scope` it proves, for every ring size and every size of the chunks that the
ADC completes, every set of configurations, dialogs and positions, and however
many events the budgets allow (`ChunksAssumption`, `SettingsAssumption`,
`PartsAssumption`, `DefaultsAssumption`):

| theorem | property |
|---|---|
| `ScopeTypes` | `ScopeTypeOK` |
| `ViewerSafety` | `ViewerInBuffer` |
| `ReadsKnown` | `OnlyKnownOverreads` |
| `SeamSafety` | `SeamsAreKnown` |
| `ScopeFailures` | `FailuresAreKnown` |

The run has five events at most and a ring of three; the theorems have no bound on
either. `ScopeInv` has one part per party. `ControlInv` says which threads can live in which
state of the interface. `ViewInv` places the viewer: at rest it ends inside the
buffer, half way of a change it may not, and during an exchange the recording
thread holds the position it read before (unless the interface changed the viewer
meanwhile, which is `overlap`). `CountInv` says that what is popped is the whole
ring even if the callback interferes, because the counter is only compared with
the ring's size; with it the reads of the ring stay inside it. `TriggerInv` says
that a buffer is begun anew wherever the trigger was found. The
seams are `SeamInv`: a sample counted in the ring is as many places before the
write pointer as it is older than the capture's clock (`CellsInv`, by `Precedes`,
modulo `Ticks`), the read pointer and the count together give the write pointer
(`PopInv`), a chunk popped in two halves is one sequence (`ChunkInv`), and it goes
on where the buffer being filled stopped (`FillInv`). `SeamInv` is lost with a
race, a step of the callback during a pop or a resume, and holds again after the ring has been
cleared: this is what `SeamsAreKnown` excuses, and no more.

`TxDmaProofs` proves, for any number of generations and of processes that
`TxDmaAssumption` admits, and from nothing else:

| theorem | property |
|---|---|
| `TypeCorrect` | `TypeOK` |
| `IndexSafety` | `IndexIsBufferInDma` |
| `FillSafety` | `FillAvoidsBufferInDma` |
| `PagesSafety` | `ReadsOwnPages` |
| `ChannelSafety` | `ChannelIsAccountedFor` |
| `OrderSafety` | `InOrder` |

The inductive invariant `IInv` has one part per party. `DriverInv`: the driver's
flags, its index and the power count say what the channel does. `SessionInv`:
what the process has created, mapped and installed in each of its phases; without
it a step of the driver could not be told from one of an earlier, killed process.
`FillInv`: a thread that has been in time for one buffer knows which one the
channel reads. `OrderInv`: then the generation to come follows the one that
waits, and after two buffers in time the whole chain is restored - that which is
in transmission, that which waits, that which comes. This is why a late spell
costs order for two buffers and no more. `InOrder` alone says nothing of the
buffer that waits, and could not be carried from one end of a buffer to the next.
The lemmas are one per part, with one step per action.

Of `TxAsyncThread`, `RingProofs` proves `AsyncTypes`, `SentWhole` (`NotTornInTime`) and
`OrderKept` (`SentInTurn`) for any number of buffers above one and of generations
(`TxAssumption`). The types include the places outside of the buffers that the two
indices can reach, and how far depends on where both threads are (`IndexInv`). That
a buffer goes out whole is stated with the priority only. It needs that a torn buffer is
the one under the filling thread (`TornInv`); that a thread in time does not read the
index while that moves, as the other gets the core only while it waits (`PlaceInv`);
and that it is, from the end of a transfer in time until the next one starts, at the
buffer last sent (`BehindInv`, where `Latest` is that buffer while the index moves). For
order, buffers are counted by age, in
fills around the ring: `PositionInv` says whose turn it is, `WindowInv` that as
many buffers as transfers were in time hold consecutive generations, and `SentInv`
that what goes out is the oldest of them. A late spell shrinks the window to
nothing, and each transfer in time makes it one longer until it spans the ring.

`CaptureProofs` proves of `FifoLink` `TypeCorrect` and `PipeSafety`
(`PipeNotBroken`), for buffers and a FIFO of any length (`FifoAssumption`).
`ReaderInv` ties the capture's thread to its descriptor, `WriterInv` says that
whoever may write has a reader, which the order of the stops must preserve, and
`RestInv` that a buffer under way is never empty.

Of `Capture` it proves `CaptureTypes`, `FileWhole` (`FileIsWhatWasCaptured`),
`KnownFailures` (`FailuresAreKnown`) and `Seamless` (`ChunksAreSeamless`), for
buffers, files, captures and filters of any size (`SetupsAssumption`,
`SignalIirAssumption`). `BufferInv` says that the buffer holds the last samples
captured. `Seen` and `Heard` are the samples that the file and the decoder have
had the chance to take, by the place of the thread between its callbacks:
`FileInv` and `HeardInv` say that both have everything from the first buffer with
data to there. `ThreadInv` ties the thread to the objects that it uses, and each
assertion to the device that can cause it.

That the decoder is given every sample once and in order is a part of that
invariant (`HeardInv`); that its filter gives what it would give of the whole
signal is a second one, `WholeInv`, over an algorithm. `Memory` says what a filter
keeps of the samples heard: the last inputs and outputs of the whole signal, as
many as taps, and their number when the demodulation counts them. `CreatedMemory`
gives it to a new filter, and `ProcessGoesOn` carries it over a chunk: the chunk's
buffer agrees with the whole signal where it begins, and two filters that begin
alike and hear the same stay alike (`FiltersAgree`). The deferred decoding does this
for all the chunks of the file in one step (`ProcessAllIsWhole`). The outputs are
recursive functions of the place, and the chunks of the number; the inductions are
over sets of numbers (`InductionOnSet`), from the well-foundedness of `<` in the
library (`NatLessThanWellFounded`, `WFMin`), which needs no operator as a parameter.
That the recursions have a solution at all is proved too (`FilterExists`,
`AfterExists`), without which the `CHOOSE` behind them says nothing.

`ControllerProofs` proves `TypeCorrect`, `AssertionsHold` (`NoAssertionFails`) and
`WholeOrNothing` (`AllOrNothing`) for any set of callback threads
(`ControllerAssumption`). A call of the controller is a dozen labels; `OneAtATime`
gives each label of each call a condition on the objects and the timer (`Phase`),
and says that while calls do not overlap one thread at most is at a label other
than idle. Each step then leads from one condition to that of the next label
(`Entering`, `Going`).

`CapeDevicesProofs` proves `DriverLifetimes` (`SpidevLifetimes` of `SpiDev`) for
any devices, programs and bindings (`SpiDevAssumption`). `Counts` says that `users`
is the number of open files, by cardinality; `Buffers`, `Kept` and `Freed` tie
buffer and memory to it. They are inductive only with `Bindings` and
`BoundIsListed`: a device is not bound again before `remove` has unlinked its old
data. `DeviceLifetimes` carries it to the whole cape: every step of `CapeDevices` is one
of `SpiDev` or leaves it alone, whatever the boards and the settings
(`CapeAssumption`).
`FlagsOfPins` (`FlagsFollowPins`) holds for any number of flags, each with a pin of
its own (`PinsAssumption`), of initialisations and of edges. What a thread has still to do
is described by the kinds of steps it avoids (`Avoids`), which a lemma gives for each list
of `CapeCalls`; the list of an initialisation by the order of its hooks, reads and
stores (`Installs`). The invariant, `PinInv`, says that the flag is the level, or
somebody will still store it: the initialisation, or a thread with an edge pending or a
level read (`WillStore`); and that such a thread has the present level unless another
edge is pending (`ThreadsInv`).
`SamplesInOrder` (`SentInOrder`) holds for any buffers, communications and settings,
when a message of the driver can hold a buffer (`BufferFits`). With a longer buffer
`spidev_message` refuses the transfer and `spi.c` only reports it, so the samples of
that buffer are missing. What is sent goes on from what was received (`InTransit`), and that
needs the device open whenever the thread that sends has something to do. So the
invariant says where a communication is: a program is described by the word of its key
steps (`Shows`), and the word of what remains to do gives the threads, the timer and the
DAC mode (`Opening`, `Closing`, `Pausing`, `Booting`). It is opened by the user's thread,
or by the timer's if it is periodic, and closed by either, never by both; between two
periodic ones only the timer is left (`Armed`), and outside it nothing is (`Order`).

`KnownEnds` proves four of the five parts of `FailuresAreKnown`. `LedFailures` needs that
the mutex of the LEDs is held by the thread that is between locking and unlocking it and by
no other (`Locks`, `Inside`, from what each thread has still to do), and that between its
creation and its release only a thread with a lock of its own is inside (`LockInv`,
`EdgeInv`). Both hold as long as no toggle is later than its timer (`Late`), which is what
the property excuses. `PinFailures` needs that
the callbacks are taken away only when no program installs one any more (`HookInv`), and
that a pin is freed when the last thread of its callback has gone (`FreedInv`).
`SoundFailures` comes from the communication: while it runs the device is in DAC mode, and
it is started only when none runs. In `DriverFailures` the driver is given its parameters
while the file of the cape is open (`DriverInv`), and until a node is closed between the
two halves of the removal of its device everything that refers to a `spidev_data` finds it
there (`Uses`).

`CapeRegistersProofs` adds the fifth part, `RegisterFailures`, and so proves `KnownFailures`
(`FailuresAreKnown`), for settings that name gains and calibrations of `afe.h`
(`SettingsAssumption`). It is about two threads that use one SPI device with steps that belong together: ask for a
register, read the answer, replace bits of it, write it back, ask and read again, assert.

* `RegInv`: nobody writes or reads a register in DAC mode, except after
  `MenuOverloads` during a communication or while the timer's thread starts or ends one.
  No program uses a register after it has set the mode (`Free`), nor in that mode before
  it leaves it (`Settled`); the user's thread has none to use while the timer's acts
  (`Mute`), nor, of a periodic communication, while the timer may start one (`Patient`).
  It is proved twice: for every register with that exception, and for all but `reset`,
  the one the overloads use, without it.
* `StageInv`: what is left of a program is the end of one in which each answer follows its
  question, and each assertion a write of what it asserts, a question and an answer
  (`Paired`; `Entire` for the whole program, proved of each list of `CapeCalls`).
* `AskInv`: so while a thread waits for the AFE, the register asked for last is its own,
  or the device is unbound: that is `echo`.
* `CleanInv`, `ShownInv`: outside the creation of the cape no write contains the soft
  reset, and what a thread will assert is in the register, or already read from it:
  that is `readback`. Where the file may be closed a read may give nothing, and only
  bits that are clear are asserted.

`LabProofs` proves of `LabObjects` `KnownDangling` (`OnlyKnownDangling`) and
`ObjectsAsSet` (`ObjectsMatchSettings`), for any plug-ins, definitions of settings,
documents and command lines, without an assumption on any of them. The two
properties, with the references' types and that nothing exists before the start,
are inductive together: what an activation or a dialog leaves depends on what
was dangling or missing before it. The proof does not look into the reading of a
document: whatever profile it yields, the handlers keep the two.

Of `TerminalUi` it proves `DrawnUnderLock` (`OnlyActionsDrawUnlocked`), for any
depth of panels. The invariant is about programs, not places. What a thread has
still to execute is well nested (`Nested`, `Bracketed`), and for the monitor and the
callback (`Calm`) being inside a block of the lock is the same as owning it, once;
the same with the logger's. The thread of the user is a program in front of
what remains of its loop of keys (`Core`): it draws under the lock, which it may
hold twice, except in the action of an item (`Regular`), or after a signal that
left it with a lock it never gives back (`KeepsLock`, `Stuck`). So two threads
that draw are in two blocks of one lock, or one of them is in such an action.

`FreqResponseProofs` proves `Measured` (`ResultsAreMeasured`), `NoJumps`
(`WaveContinues`), `KnownFailures` (`FailuresAreKnown`) and `TypeCorrect` for any
rate, buffers, sweep and command lines that give tones which are not negative
(`SizesAssumption`, `ArgumentsAssumption`). `BestSamplesFit` is the arithmetic of
`calculate_best_number_of_cycles`: what is chosen is a DMA buffer at least, and
more than the preloaded one only for a cycle longer than it. The first invariant,
`IInv`, says where the sweep, the transmission and the capture thread can be; the
second, `ResultsInv`, what is recorded: samples of the current tone without gaps
(`RecordInv`), the next of which is the one the callback copies next
(`ContinueInv`); that a `samples_adc_filled` left by the tone before lets nothing
be recorded until it is cleared (`WaitInv`); and what the points and the buffer
held are made of (`PointsInv`, `HeldInv`).

The type invariants of these modules are proved, and no run checks them again.

Only model-checked:

* All liveness, as TLAPS has no support for fairness here: `Recovers`,
  `StopCompletes`, `StopsComplete`, `TimeoutDeactivates`, `KeysAreServed`,
  `SignalAtRestEnds`, `StopEnds`, `SweepEnds`.
* `TextIsMessage` and `EveryCharacterArrives`: that a message survives encoder, line
  and decoder depends on the timings and thresholds of each pair, and `Decoders` and
  `TextLink` have recursive operators, on which the provers have no hold.
* `NearestProfileWins`: what folds over lists of profiles and settings leave, and the
  reader of documents.
* `ChipAgrees` of `CapeDevices`: its invariant has to follow what each step list of
  `CapeCalls` leaves in each register and in the record beside it, list by list.

## 5. What is not modelled

* Kernel code of the original drivers: probe, suspend, the industrial-I/O buffer, PIO
  transfers of the SPI driver and its receive side, the step sequencer.
* Input and output without protocol: log texts, the layout of terminal panels, GTK
  drawing, files of samples, statistics, the transform of the frequency response,
  setup scripts and Octave tools.
* `encoder-wav`, `decoder-raw` and the waveforms of `encoder-wave` (a formula per
  sample), `ui-console` (one thread, no lock), autotest and the demo (one call after
  another).
* The copy mode of `encoder.c`, whose wrap around the preloaded buffer is the code
  that `WaveContinues` checks in `FreqResponse`, and the supervisor's callback.
* One-sided configurations of the FIFO: with one side alone an open never returns.
* The limit of the join in `plc_tx_stop_transmission` and the assertion that follows it
  (`tx.c:280-281`): `StopCompletes` says that the join ends, not how soon.
* A negative number of iterations (`-C`) on the command line of plc-cape-freq-response,
  which becomes a large `uint32_t` (`main.c:173`): `FreqResponse` is given none.

What could be added next: the one-sided FIFO, the supervisor's callback between
`controller_activated = 0` and the deletion of its timer, the IIO set-up of
`adc_bbb.c`, and proofs about the registers and output pins of `CapeDevices`.
