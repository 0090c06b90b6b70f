------------------------------ MODULE FifoLink ------------------------------
(***************************************************************************)
(* The device internal_fifo: a transmission (tx.c with tx_sched_fifo.c)    *)
(* and a capture (adc_fifo.c) of the same process, joined by a named FIFO, *)
(* started and stopped by the controller in the order of                   *)
(* controller_start_communication and controller_stop_communication.       *)
(*                                                                         *)
(* The FIFO is the kernel's: open blocks until the other side is opened,   *)
(* write blocks while it is full, read while it is empty and has a writer, *)
(* and read returns 0 when it is empty and has none.  A write under way    *)
(* keeps its file: closing the descriptor does not wake it.                *)
(*                                                                         *)
(* A failed assertion ends the process: ctl = "aborted".                   *)
(***************************************************************************)
EXTENDS Integers

CONSTANTS
  TxLen,   \* buffer_len of the transmission, in pieces the FIFO takes at once
  RxLen,   \* buffer_len of the capture
  Cap      \* pieces the FIFO holds

ASSUME FifoAssumption ==
  /\ TxLen \in Nat \ {0}
  /\ RxLen \in Nat \ {0}
  /\ Cap \in Nat \ {0}

VARIABLES
  ctl,             \* where the controller is
  tx,              \* where thread_spi_tx_buffer is
  end_thread_tx,   \* plc_tx->end_thread
  fifo_tx,         \* tx_sched->fifo # -1
  writer,          \* a file of the process is open for writing
  bytes_to_write,
  rx,              \* where adc_thread_capture_samples is
  end_thread_rx,   \* plc_adc->end_thread
  fifo_rx,         \* plc_adc->fifo # -1
  bytes_to_read,
  pipe             \* pieces in the FIFO

txVars == <<tx, end_thread_tx, fifo_tx, writer, bytes_to_write>>
rxVars == <<rx, end_thread_rx, fifo_rx, bytes_to_read>>
vars == <<ctl, txVars, rxVars, pipe>>

Ctl == {"idle", "starting", "running", "joining_rx", "rx_stopped",
        "requesting", "joining_tx", "aborted"}
Tx == {"off", "test", "fill", "flush", "opening", "opened", "pace", "write", "writing"}
Rx == {"off", "born", "opening", "test", "read"}
-----------------------------------------------------------------------------
Init ==
  /\ ctl = "idle"
  /\ tx = "off" /\ end_thread_tx = FALSE /\ fifo_tx = FALSE /\ writer = FALSE
  /\ bytes_to_write = 0
  /\ rx = "off" /\ end_thread_rx = FALSE /\ fifo_rx = FALSE
  /\ bytes_to_read = 0
  /\ pipe = 0

Alive == ctl # "aborted"
-----------------------------------------------------------------------------
(* The controller.                                                         *)

StartTx ==
  /\ ctl = "idle"
  /\ end_thread_tx' = FALSE
  /\ tx' = "test"
  /\ ctl' = "starting"
  /\ UNCHANGED <<fifo_tx, writer, bytes_to_write, rxVars, pipe>>

StartRx ==
  /\ ctl = "starting"
  /\ end_thread_rx' = FALSE
  /\ rx' = "born"
  /\ ctl' = "running"
  /\ UNCHANGED <<txVars, fifo_rx, bytes_to_read, pipe>>

\* Mutant: the transmission is stopped along with the capture.
StopRxAndTx ==
  /\ ctl = "running"
  /\ end_thread_rx' = TRUE
  /\ end_thread_tx' = TRUE
  /\ ctl' = "joining_rx"
  /\ UNCHANGED <<tx, fifo_tx, writer, bytes_to_write, rx, fifo_rx, bytes_to_read, pipe>>

StopRx ==
  /\ ctl = "running"
  /\ end_thread_rx' = TRUE
  /\ ctl' = "joining_rx"
  /\ UNCHANGED <<txVars, rx, fifo_rx, bytes_to_read, pipe>>

\* Mutant: the capture closes its end of the FIFO, as the TODO considers.
JoinRxCloses ==
  /\ ctl = "joining_rx"
  /\ rx = "off"
  /\ ctl' = "rx_stopped"
  /\ fifo_rx' = FALSE
  /\ UNCHANGED <<txVars, rx, end_thread_rx, bytes_to_read, pipe>>

\* The capture's end of the FIFO stays open.
JoinRx ==
  /\ ctl = "joining_rx"
  /\ rx = "off"
  /\ ctl' = "rx_stopped"
  /\ UNCHANGED <<txVars, rxVars, pipe>>

StopTx ==
  /\ ctl = "rx_stopped"
  /\ end_thread_tx' = TRUE
  /\ ctl' = "requesting"
  /\ UNCHANGED <<tx, fifo_tx, writer, bytes_to_write, rxVars, pipe>>

\* tx_sched_fifo_request_stop
RequestStop ==
  /\ ctl = "requesting"
  /\ fifo_tx' = FALSE
  /\ writer' = (writer /\ (~fifo_tx \/ tx = "writing"))
  /\ ctl' = "joining_tx"
  /\ UNCHANGED <<tx, end_thread_tx, bytes_to_write, rxVars, pipe>>

\* The join returns and tx_sched_fifo_stop begins with its assertion.
JoinTx ==
  /\ ctl = "joining_tx"
  /\ tx = "off"
  /\ ctl' = IF fifo_tx THEN "aborted" ELSE "idle"
  /\ UNCHANGED <<txVars, rxVars, pipe>>
-----------------------------------------------------------------------------
(* The transmission: thread_spi_tx_buffer.                                 *)

TxTest ==
  /\ Alive /\ tx = "test"
  /\ tx' = IF end_thread_tx THEN "off" ELSE "fill"
  /\ UNCHANGED <<ctl, end_thread_tx, fifo_tx, writer, bytes_to_write, rxVars, pipe>>

\* tx_sched_fifo_fill_next_buffer
Fill ==
  /\ Alive /\ tx = "fill"
  /\ tx' = "flush"
  /\ UNCHANGED <<ctl, end_thread_tx, fifo_tx, writer, bytes_to_write, rxVars, pipe>>

\* tx_sched_fifo_flush_and_wait_buffer, from its test of the descriptor
Flush ==
  /\ Alive /\ tx = "flush"
  /\ tx' = IF fifo_tx THEN "pace" ELSE "opening"
  /\ bytes_to_write' = TxLen
  /\ UNCHANGED <<ctl, end_thread_tx, fifo_tx, writer, rxVars, pipe>>

TxOpens ==
  /\ Alive /\ tx = "opening"
  /\ fifo_rx \/ rx = "opening"
  /\ writer' = TRUE
  /\ tx' = "opened"
  /\ UNCHANGED <<ctl, end_thread_tx, fifo_tx, bytes_to_write, rxVars, pipe>>

TxAssigns ==
  /\ Alive /\ tx = "opened"
  /\ fifo_tx' = TRUE
  /\ tx' = "pace"
  /\ UNCHANGED <<ctl, end_thread_tx, writer, bytes_to_write, rxVars, pipe>>

Pace ==
  /\ Alive /\ tx = "pace"
  /\ tx' = "write"
  /\ UNCHANGED <<ctl, end_thread_tx, fifo_tx, writer, bytes_to_write, rxVars, pipe>>

\* write is called: EBADF if the descriptor has been closed.
Write ==
  /\ Alive /\ tx = "write"
  /\ tx' = IF fifo_tx THEN "writing" ELSE "test"
  /\ UNCHANGED <<ctl, end_thread_tx, fifo_tx, writer, bytes_to_write, rxVars, pipe>>

\* The file of a closed descriptor goes away when the write ends.
WritePiece ==
  /\ Alive /\ tx = "writing"
  /\ pipe < Cap
  /\ pipe' = pipe + 1
  /\ bytes_to_write' = bytes_to_write - 1
  /\ tx' = IF bytes_to_write' = 0 THEN "test" ELSE "writing"
  /\ writer' = (fifo_tx \/ tx' = "writing")
  /\ UNCHANGED <<ctl, end_thread_tx, fifo_tx, rxVars>>
-----------------------------------------------------------------------------
(* The capture: adc_thread_capture_samples.                                *)

RxBegins ==
  /\ Alive /\ rx = "born"
  /\ rx' = IF fifo_rx THEN "test" ELSE "opening"
  /\ UNCHANGED <<ctl, txVars, end_thread_rx, fifo_rx, bytes_to_read, pipe>>

RxOpens ==
  /\ Alive /\ rx = "opening"
  /\ writer \/ tx = "opening"
  /\ fifo_rx' = TRUE
  /\ rx' = "test"
  /\ UNCHANGED <<ctl, txVars, end_thread_rx, bytes_to_read, pipe>>

RxTest ==
  /\ Alive /\ rx = "test"
  /\ rx' = IF end_thread_rx THEN "off" ELSE "read"
  /\ bytes_to_read' = RxLen
  /\ UNCHANGED <<ctl, txVars, end_thread_rx, fifo_rx, pipe>>

\* A full buffer goes to the callback.  With nothing in the FIFO the thread
\* blocks, or spins on the end of file if there is no writer: end_thread is
\* not looked at in this loop.
ReadPiece ==
  /\ Alive /\ rx = "read"
  /\ pipe > 0
  /\ pipe' = pipe - 1
  /\ bytes_to_read' = bytes_to_read - 1
  /\ rx' = IF bytes_to_read' = 0 THEN "test" ELSE "read"
  /\ UNCHANGED <<ctl, txVars, end_thread_rx, fifo_rx>>
-----------------------------------------------------------------------------
Controller == StartTx \/ StartRx \/ StopRx \/ JoinRx \/ StopTx \/ RequestStop \/ JoinTx
TxThread == TxTest \/ Fill \/ Flush \/ TxOpens \/ TxAssigns \/ Pace \/ Write \/ WritePiece
RxThread == RxBegins \/ RxOpens \/ RxTest \/ ReadPiece

Next == Controller \/ TxThread \/ RxThread

Spec == Init /\ [][Next]_vars

\* The threads and the calls under way are scheduled; nobody has to start
\* or stop a communication.
FairSpec ==
  /\ Spec
  /\ WF_vars(TxThread)
  /\ WF_vars(RxThread)
  /\ WF_vars(StartRx \/ JoinRx \/ StopTx \/ RequestStop \/ JoinTx)
-----------------------------------------------------------------------------
TypeOK ==
  /\ ctl \in Ctl
  /\ tx \in Tx
  /\ end_thread_tx \in BOOLEAN
  /\ fifo_tx \in BOOLEAN
  /\ writer \in BOOLEAN
  /\ bytes_to_write \in 0..TxLen
  /\ rx \in Rx
  /\ end_thread_rx \in BOOLEAN
  /\ fifo_rx \in BOOLEAN
  /\ bytes_to_read \in 0..RxLen
  /\ pipe \in 0..Cap

(* The transmission never writes to a FIFO without a reader, which would   *)
(* raise SIGPIPE: the capture keeps its end open while stopped, as the     *)
(* comment in adc_release asks.                                            *)
PipeNotBroken == tx = "writing" => fifo_rx \/ rx = "opening"

(* Both stops end.  adc_stop_capture returns: although the capture thread  *)
(* tests end_thread only between two buffers, the transmission, stopped    *)
(* after it, completes the buffer it is reading.  plc_tx_stop_transmission *)
(* returns too, or runs into its assertion, unless the thread is in a      *)
(* write that nobody will make room for: closing the FIFO does not unlock  *)
(* it, against the comment at tx_sched_fifo.c:59.                          *)
StopsComplete ==
  /\ ctl = "joining_rx" ~> ctl = "rx_stopped"
  /\ ctl = "joining_tx" ~> \/ ctl \in {"idle", "aborted"}
                           \/ tx = "writing" /\ pipe = Cap
=============================================================================
