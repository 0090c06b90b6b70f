---------------------------- MODULE TxDmaProofs ----------------------------
(***************************************************************************)
(* Proofs about TxDma for any number of generations above 3 and any way of *)
(* telling processes apart.                                                *)
(***************************************************************************)
EXTENDS TxDma, TLAPS

Sessions == {"starting", "running", "joining"}

\* What the driver believes is what the channel does.
DriverInv ==
  /\ spi_for_abort <=> dma = "pingpong"
  /\ pm = IF dma = "pingpong" THEN 1 ELSE 0
  /\ dma = "pingpong" =>
       /\ dma_tx_in_progress
       /\ ~dma_completion_notified
       /\ ping_pong_enabled
       /\ cur_buffer_in_dma_index = inDma

\* What the process has created, mapped and installed.
SessionInv ==
  /\ ctl \in Sessions => dma = "pingpong" /\ source = process
  /\ ctl \in Sessions \cup {"idle"} => handler /\ ping_pong_enabled /\ mapped = process
  /\ ctl \in {"spi", "plain", "sending"} => mapped = Nobody
  /\ ctl \in {"spi", "idle", "plain"} => dma = "off"
  /\ ctl = "sending" => dma # "pingpong"
  /\ dma = "plain" => ctl = "sending"
  /\ tx # "off" => ctl \in {"running", "joining"}

\* The thread has still to fill the buffer after the one in transmission.
ToFill ==
  \/ ctl = "starting"
  \/ tx \in {"woken", "resync", "test", "fill"}
  \/ tx = "wait" /\ done > 0

\* It has filled it, and waits or goes to wait.
Filled == tx \in {"call", "asked", "init"} \/ (tx = "wait" /\ done = 0)

\* A thread in time knows which buffer the channel reads.
FillInv == onTime > 0 =>
  /\ ctl = "starting" \/ tx \in {"test", "fill"} => next_buffer_to_fill = Other(inDma)
  /\ tx = "resync" => buffer_in_tx = inDma

\* After one buffer in time the generation to come follows the one that waits;
\* after two it follows the one in transmission, or the one that waits does.
OrderInv ==
  /\ onTime > 0 /\ Filled => made = NextGen(content[Other(inDma)])
  /\ onTime > 1 /\ ToFill => made = NextGen(sent)
  /\ onTime > 1 /\ Filled => content[Other(inDma)] = NextGen(sent)

IInv == TypeOK /\ DriverInv /\ SessionInv /\ FillInv /\ OrderInv
-----------------------------------------------------------------------------
\* TypeOK in two parts, for provers of two kinds.
FlagTypes ==
  /\ handler \in BOOLEAN /\ end_thread \in BOOLEAN /\ terminated \in BOOLEAN
  /\ dma_tx_in_progress \in BOOLEAN /\ dma_completion_notified \in BOOLEAN
  /\ ping_pong_enabled \in BOOLEAN /\ spi_for_abort \in BOOLEAN
  /\ dma_buffer_waiting \in BOOLEAN
ValueTypes ==
  /\ ctl \in Ctl
  /\ process \in 1..Processes
  /\ tx \in Tx
  /\ next_buffer_to_fill \in Buffers /\ buffer_in_tx \in Buffers
  /\ cur_buffer_in_dma_index \in Buffers /\ inDma \in Buffers
  /\ content \in [Buffers -> -2..(Gens - 1)]
  /\ made \in 0..(Gens - 1)
  /\ mapped \in 0..Processes /\ source \in 0..Processes
  /\ done \in 0..MaxDone
  /\ pm \in {0, 1}
  /\ dma \in {"off", "pingpong", "plain"}
  /\ sent \in -2..(Gens - 1)
  /\ onTime \in 0..Settled

LEMMA TypeParts == TypeOK <=> FlagTypes /\ ValueTypes
  BY DEF TypeOK, FlagTypes, ValueTypes

\* The two buffers, and the circle of generations, are closed.
LEMMA OtherBuffer ==
  ASSUME NEW b \in Buffers
  PROVE  /\ Other(b) \in Buffers
         /\ Other(b) # b
         /\ Other(Other(b)) = b
  BY DEF Other, Buffers

LEMMA NextGenType ==
  ASSUME NEW g \in 0..(Gens - 1)
  PROVE  NextGen(g) \in 0..(Gens - 1)
  BY TxDmaAssumption DEF TxDmaAssumption, NextGen

LEMMA CompletedType ==
  ASSUME NEW d \in 0..MaxDone
  PROVE  /\ Completed(d) \in 0..MaxDone
         /\ Completed(d) > 0
  BY DEF Completed, MaxDone

LEMMA NextProcessType ==
  ASSUME NEW p \in 1..Processes
  PROVE  NextProcess(p) \in 1..Processes
  BY TxDmaAssumption DEF TxDmaAssumption, NextProcess

(* The loaded driver satisfies the inductive invariant.                    *)
LEMMA InvInit == Init => IInv
<1> SUFFICES ASSUME Init PROVE IInv
  OBVIOUS
<1>1. FlagTypes
  BY Zenon DEF Init, FlagTypes
<1>2. ValueTypes
  BY TxDmaAssumption
  DEF TxDmaAssumption, Init, ValueTypes, Ctl, Tx, Buffers, Nothing, Nobody, MaxDone, Settled
<1>3. DriverInv
  BY DEF Init, DriverInv
<1>4. SessionInv
  BY DEF Init, SessionInv, Sessions
<1>5. FillInv /\ OrderInv
  BY DEF Init, FillInv, OrderInv, ToFill, Filled
<1> QED
  BY <1>1, <1>2, <1>3, <1>4, <1>5, TypeParts DEF IInv
-----------------------------------------------------------------------------
(* The flags stay Boolean.                                                 *)
LEMMA FlagStep == FlagTypes /\ [Next]_vars => FlagTypes'
<1> SUFFICES ASSUME FlagTypes, [Next]_vars PROVE FlagTypes'
  OBVIOUS
<1> USE DEF FlagTypes, vars, userVars, threadVars, bufferVars, modeVars, progressVars,
      waitVars, edmaVars, driverVars, history
<1>1. CASE SpiCreate \/ SpiRelease
  BY <1>1, Zenon DEF SpiCreate, SpiRelease, Reset, AbortEffects
<1>2. CASE TxCreate \/ TxRelease
  BY <1>2, Zenon DEF TxCreate, TxRelease, AllocateBuffers, ReleaseBuffers
<1>3. CASE SchedStart
  BY <1>3, Zenon DEF SchedStart, StartDma, TxDmaPingPong, ConfigurePingPong
<1>4. CASE CreateTxThread \/ RequestStop \/ Kill
  BY <1>4, Zenon DEF CreateTxThread, RequestStop, Kill
<1>5. CASE SchedStop
  BY <1>5, Zenon DEF SchedStop, AbortDma, AbortEffects
<1>6. CASE Plain
  BY <1>6, Zenon DEF Plain, PlainCreate, PlainRelease, PlainSend, PlainSent
<1>7. CASE TxEnds \/ FillBegin \/ FillEnd \/ WaitAsks \/ WaitAnnounced
  BY <1>7, Zenon DEF TxEnds, FillBegin, FillEnd, WaitAsks, WaitAnnounced
<1>8. CASE InitCompletion \/ WaitWakes \/ WaitEnds \/ Resync
  BY <1>8, Zenon DEF InitCompletion, WaitWakes, WaitEnds, Resync
<1>9. CASE Edma
  BY <1>9, Zenon DEF Edma, BufferEnds, PlainEnds, Callback, Warn
<1>10. CASE UNCHANGED vars
  BY <1>10, Zenon
<1> QED
  BY <1>1, <1>2, <1>3, <1>4, <1>5, <1>6, <1>7, <1>8, <1>9, <1>10 DEF Next, Client, TxThread

(* So do the other variables in their ranges.                              *)
LEMMA ValueStep == ValueTypes /\ DriverInv /\ SessionInv /\ [Next]_vars => ValueTypes'
<1> SUFFICES ASSUME ValueTypes, DriverInv, SessionInv, [Next]_vars PROVE ValueTypes'
  OBVIOUS
<1> USE TxDmaAssumption DEF TxDmaAssumption, ValueTypes, Ctl, Tx, Nothing, Nobody, Torn, Settled,
      vars, userVars, threadVars, bufferVars, modeVars, progressVars, waitVars, edmaVars,
      driverVars, history
<1>1. CASE SpiCreate \/ SpiRelease
  BY <1>1, CompletedType, NextProcessType
  DEF SpiCreate, SpiRelease, Reset, AbortEffects, Aborts, DriverInv, Buffers
<1>2. CASE TxCreate \/ TxRelease
  BY <1>2 DEF TxCreate, TxRelease, AllocateBuffers, ReleaseBuffers
<1>3. CASE SchedStart
  BY <1>3 DEF SchedStart, StartDma, TxDmaPingPong, ConfigurePingPong, DriverInv, SessionInv,
      Buffers
<1>4. CASE CreateTxThread \/ RequestStop \/ Kill
  BY <1>4 DEF CreateTxThread, RequestStop, Kill
<1>5. CASE SchedStop
  BY <1>5, CompletedType DEF SchedStop, AbortDma, AbortEffects, Aborts, DriverInv
<1>6. CASE Plain
  BY <1>6 DEF Plain, PlainCreate, PlainRelease, PlainSend, PlainSent, MaxDone
<1>7. CASE TxEnds \/ FillBegin \/ WaitAsks \/ WaitAnnounced
  BY <1>7 DEF TxEnds, FillBegin, WaitAsks, WaitAnnounced, Buffers
<1>8. CASE FillEnd
  BY <1>8, OtherBuffer, NextGenType DEF FillEnd
<1>9. CASE InitCompletion \/ WaitWakes \/ WaitEnds
  BY <1>9 DEF InitCompletion, WaitWakes, WaitEnds, MaxDone
<1>10. CASE Resync
  BY <1>10, OtherBuffer DEF Resync
<1>11. CASE Edma
  BY <1>11, OtherBuffer, CompletedType
  DEF Edma, BufferEnds, PlainEnds, Callback, Warn, MayWarn
<1>12. CASE UNCHANGED vars
  BY <1>12
<1> QED
  BY <1>1, <1>2, <1>3, <1>4, <1>5, <1>6, <1>7, <1>8, <1>9, <1>10, <1>11, <1>12
  DEF Next, Client, TxThread

LEMMA TypeStep == TypeOK /\ DriverInv /\ SessionInv /\ [Next]_vars => TypeOK'
<1> SUFFICES ASSUME TypeOK, DriverInv, SessionInv, [Next]_vars PROVE TypeOK'
  OBVIOUS
<1>1. FlagTypes' /\ ValueTypes'
  BY TypeParts, FlagStep, ValueStep
<1> QED
  BY <1>1 DEF TypeOK, FlagTypes, ValueTypes
-----------------------------------------------------------------------------
(* abort_tx stops a ping-pong transfer and releases all it held.           *)
LEMMA AbortClears ==
  ASSUME DriverInv, AbortEffects
  PROVE  /\ ~spi_for_abort'
         /\ pm' = 0
         /\ dma' # "pingpong"
         /\ dma = "off" => dma' = "off"
         /\ dma = "pingpong" => dma' = "off"
<1>1. Aborts <=> dma = "pingpong"
  BY Zenon DEF Aborts, DriverInv
<1>2. ~spi_for_abort'
  BY <1>1, Zenon DEF AbortEffects, Aborts, DriverInv
<1>3. pm = IF Aborts THEN 1 ELSE 0
  BY <1>1, Zenon DEF DriverInv
<1>4. dma' = (IF Aborts THEN "off" ELSE dma) /\ pm' = (IF Aborts THEN pm - 1 ELSE pm)
  BY Zenon DEF AbortEffects
<1> QED
  BY <1>1, <1>2, <1>3, <1>4

(* The driver's view of the channel.                                       *)
LEMMA DriverStep == TypeOK /\ DriverInv /\ SessionInv /\ [Next]_vars => DriverInv'
<1> SUFFICES ASSUME TypeOK, DriverInv, SessionInv, [Next]_vars PROVE DriverInv'
  OBVIOUS
<1> USE DEF vars, userVars, threadVars, bufferVars, modeVars, progressVars, waitVars, edmaVars,
      driverVars, history
<1>1. CASE SpiCreate \/ SpiRelease
  <2>1. AbortEffects
    BY <1>1 DEF SpiCreate, SpiRelease, Reset
  <2> QED
    BY <2>1, AbortClears DEF DriverInv
<1>2. CASE TxCreate \/ TxRelease
  BY <1>2 DEF TxCreate, TxRelease, AllocateBuffers, ReleaseBuffers, DriverInv, SessionInv
<1>3. CASE SchedStart
  <2>1. /\ dma = "off" /\ ping_pong_enabled' = ping_pong_enabled
        /\ pm' = pm + 1 /\ dma' = "pingpong" /\ cur_buffer_in_dma_index' = inDma'
    BY <1>3 DEF SchedStart, StartDma, TxDmaPingPong, ConfigurePingPong, SessionInv
  <2>2. spi_for_abort' /\ dma_tx_in_progress' /\ ~dma_completion_notified'
    BY <1>3, Zenon DEF SchedStart, StartDma, TxDmaPingPong
  <2>3. pm' = 1
    BY <2>1 DEF DriverInv
  <2>4. ping_pong_enabled'
    BY <2>1, <1>3 DEF SessionInv, SchedStart
  <2> QED
    BY <2>1, <2>2, <2>3, <2>4 DEF DriverInv
<1>4. CASE SchedStop
  BY <1>4, AbortClears DEF SchedStop, AbortDma, DriverInv
<1>5. CASE CreateTxThread \/ RequestStop \/ Kill
  BY <1>5 DEF CreateTxThread, RequestStop, Kill, DriverInv
<1>6. CASE Plain
  BY <1>6 DEF Plain, PlainCreate, PlainRelease, PlainSend, PlainSent, DriverInv, SessionInv
<1>7. CASE TxThread
  BY <1>7 DEF TxThread, TxEnds, FillBegin, FillEnd, WaitAsks, WaitAnnounced, InitCompletion,
      WaitWakes, WaitEnds, Resync, DriverInv
<1>8. CASE BufferEnds
  BY <1>8, Zenon DEF BufferEnds, Callback, DriverInv
<1>9. CASE PlainEnds
  BY <1>9 DEF PlainEnds, Callback, DriverInv
<1>10. CASE UNCHANGED vars
  BY <1>10 DEF DriverInv
<1> QED
  BY <1>1, <1>2, <1>3, <1>4, <1>5, <1>6, <1>7, <1>8, <1>9, <1>10 DEF Next, Client, Edma

(* The process and what it owns.                                           *)
LEMMA SessionStep == TypeOK /\ DriverInv /\ SessionInv /\ [Next]_vars => SessionInv'
<1> SUFFICES ASSUME TypeOK, DriverInv, SessionInv, [Next]_vars PROVE SessionInv'
  OBVIOUS
<1> USE DEF vars, userVars, threadVars, bufferVars, modeVars, progressVars, waitVars, edmaVars,
      driverVars, history, Sessions
<1>1. CASE SpiCreate \/ SpiRelease
  <2>1. AbortEffects /\ mapped' = Nobody /\ ctl' \in {"none", "spi"} /\ tx' = tx
    BY <1>1 DEF SpiCreate, SpiRelease, Reset
  <2>2. dma' = "off" /\ tx = "off"
    BY <1>1, <2>1, AbortClears DEF SpiCreate, SpiRelease, SessionInv, TypeOK
  <2> QED
    BY <2>1, <2>2 DEF SessionInv
<1>2. CASE TxCreate
  <2>1. /\ mapped' = process /\ process' = process /\ ctl' = "idle" /\ dma' = "off"
        /\ mapped = Nobody /\ tx' = tx
    BY <1>2 DEF TxCreate, AllocateBuffers, SessionInv
  <2>2. handler' /\ ping_pong_enabled'
    BY <1>2, <2>1, Zenon DEF TxCreate, AllocateBuffers
  <2> QED
    BY <1>2, <2>1, <2>2 DEF SessionInv, TxCreate
<1>3. CASE TxRelease
  BY <1>3 DEF TxRelease, ReleaseBuffers, SessionInv
<1>4. CASE SchedStart
  BY <1>4 DEF SchedStart, StartDma, TxDmaPingPong, ConfigurePingPong, SessionInv
<1>5. CASE SchedStop
  BY <1>5, AbortClears DEF SchedStop, AbortDma, SessionInv
<1>6. CASE CreateTxThread \/ RequestStop \/ Kill
  BY <1>6 DEF CreateTxThread, RequestStop, Kill, SessionInv
<1>7. CASE Plain
  BY <1>7 DEF Plain, PlainCreate, PlainRelease, PlainSend, PlainSent, SessionInv
<1>8. CASE TxThread
  BY <1>8 DEF TxThread, TxEnds, FillBegin, FillEnd, WaitAsks, WaitAnnounced, InitCompletion,
      WaitWakes, WaitEnds, Resync, SessionInv
<1>9. CASE BufferEnds
  BY <1>9 DEF BufferEnds, Callback, Warn, SessionInv
<1>10. CASE PlainEnds
  BY <1>10 DEF PlainEnds, Callback, Warn, SessionInv
<1>11. CASE UNCHANGED vars
  BY <1>11 DEF SessionInv
<1> QED
  BY <1>1, <1>2, <1>3, <1>4, <1>5, <1>6, <1>7, <1>8, <1>9, <1>10, <1>11
  DEF Next, Client, Edma
-----------------------------------------------------------------------------
(* A thread in time knows the buffer in transmission: it learns the index  *)
(* after the change of buffers and fills the other one, and a change that  *)
(* it was not waiting for makes it late.                                   *)
LEMMA FillStep == IInv /\ [Next]_vars => FillInv'
<1> SUFFICES ASSUME TypeOK, DriverInv, SessionInv, FillInv, [Next]_vars PROVE FillInv'
  BY DEF IInv
<1> USE DEF vars, userVars, threadVars, bufferVars, modeVars, progressVars, waitVars, edmaVars,
      driverVars, history
<1>1. CASE SpiCreate \/ SpiRelease
  BY <1>1 DEF SpiCreate, SpiRelease, Reset, AbortEffects, SessionInv, FillInv
<1>2. CASE TxCreate \/ TxRelease
  BY <1>2 DEF TxCreate, TxRelease, FillInv
<1>3. CASE SchedStart
  BY <1>3 DEF SchedStart, StartDma, TxDmaPingPong, ConfigurePingPong, SessionInv, FillInv, Other
<1>4. CASE SchedStop
  BY <1>4 DEF SchedStop, AbortDma, AbortEffects, FillInv
<1>5. CASE CreateTxThread \/ RequestStop \/ Kill
  BY <1>5 DEF CreateTxThread, RequestStop, Kill, FillInv
<1>6. CASE Plain
  BY <1>6 DEF Plain, PlainCreate, PlainRelease, PlainSend, PlainSent, FillInv
<1>7. CASE TxEnds \/ FillBegin \/ FillEnd \/ WaitAnnounced \/ InitCompletion \/ WaitWakes
  BY <1>7 DEF TxEnds, FillBegin, FillEnd, WaitAnnounced, InitCompletion, WaitWakes,
      SessionInv, FillInv
<1>8. CASE WaitAsks
  BY <1>8 DEF WaitAsks, DriverInv, SessionInv, Sessions, FillInv
<1>9. CASE WaitEnds
  BY <1>9 DEF WaitEnds, DriverInv, SessionInv, Sessions, FillInv
<1>10. CASE Resync
  BY <1>10 DEF Resync, SessionInv, FillInv
<1>11. CASE BufferEnds
  BY <1>11 DEF BufferEnds, Callback, Warn, SessionInv, FillInv
<1>12. CASE PlainEnds
  BY <1>12 DEF PlainEnds, Callback, Warn, SessionInv, FillInv
<1>13. CASE UNCHANGED vars
  BY <1>13 DEF FillInv
<1> QED
  BY <1>1, <1>2, <1>3, <1>4, <1>5, <1>6, <1>7, <1>8, <1>9, <1>10, <1>11, <1>12, <1>13
  DEF Next, Client, TxThread, Edma

(* In time, the generations in the two buffers and the one to come follow  *)
(* one another: the fill takes the generation to come to the buffer that   *)
(* is not in transmission, and the next change of buffers sends it.        *)
LEMMA OrderStep == IInv /\ [Next]_vars => OrderInv'
<1> SUFFICES ASSUME TypeOK, DriverInv, SessionInv, FillInv, OrderInv, [Next]_vars
             PROVE  OrderInv'
  BY DEF IInv
<1> USE DEF vars, userVars, threadVars, bufferVars, modeVars, progressVars, waitVars, edmaVars,
      driverVars, history
<1>1. CASE SpiCreate \/ SpiRelease \/ TxCreate \/ TxRelease \/ SchedStop \/ Kill \/ Plain
  <2>1. tx' = "off" /\ ctl' # "starting"
    BY <1>1 DEF SpiCreate, SpiRelease, TxCreate, TxRelease, SchedStop, Kill, Plain, PlainCreate,
        PlainRelease, PlainSend, PlainSent, SessionInv
  <2> QED
    BY <2>1 DEF OrderInv, ToFill, Filled
<1>2. CASE SchedStart
  <2>1. tx' = "off" /\ made' = 1 /\ sent' = 0
    BY <1>2 DEF SchedStart, SessionInv
  <2>2. NextGen(0) = 1
    BY TxDmaAssumption DEF TxDmaAssumption, NextGen
  <2> QED
    BY <2>1, <2>2 DEF OrderInv, Filled
<1>3. CASE CreateTxThread
  BY <1>3 DEF CreateTxThread, OrderInv, ToFill, Filled
<1>4. CASE RequestStop
  BY <1>4 DEF RequestStop, OrderInv, ToFill, Filled
<1>5. CASE TxEnds
  BY <1>5 DEF TxEnds, SessionInv, OrderInv, ToFill, Filled
<1>6. CASE FillBegin
  BY <1>6 DEF FillBegin, SessionInv, OrderInv, ToFill, Filled
<1>7. CASE FillEnd
  <2>1. ctl' # "starting" /\ tx' = "call" /\ onTime' = onTime /\ inDma' = inDma /\ sent' = sent
    BY <1>7 DEF FillEnd, SessionInv
  <2>2. onTime > 0 => content'[Other(inDma)] = made /\ made' = NextGen(made)
    BY <1>7, OtherBuffer DEF FillEnd, FillInv, TypeOK
  <2>3. onTime > 1 => made = NextGen(sent)
    BY <1>7 DEF FillEnd, OrderInv, ToFill
  <2>4. onTime > 1 => onTime > 0
    BY DEF TypeOK
  <2> QED
    BY <2>1, <2>2, <2>3, <2>4 DEF OrderInv, ToFill
<1>8. CASE WaitAsks
  BY <1>8 DEF WaitAsks, DriverInv, SessionInv, Sessions, OrderInv, ToFill, Filled
<1>9. CASE WaitAnnounced \/ InitCompletion
  BY <1>9 DEF WaitAnnounced, InitCompletion, SessionInv, OrderInv, ToFill, Filled
<1>10. CASE WaitWakes \/ WaitEnds \/ Resync
  BY <1>10 DEF WaitWakes, WaitEnds, Resync, SessionInv, OrderInv, ToFill, Filled
<1>11. CASE BufferEnds
  <2>1. CASE tx = "wait" /\ done = 0
    <3>1. tx' = "wait" /\ done' > 0 /\ made' = made /\ sent' = content[Other(inDma)]
      BY <1>11, <2>1, CompletedType DEF BufferEnds, Callback, TypeOK
    <3>2. onTime' > 1 => onTime > 0
      BY <1>11, <2>1 DEF BufferEnds, TypeOK, Settled
    <3>3. onTime > 0 => made = NextGen(content[Other(inDma)])
      BY <2>1 DEF OrderInv, Filled
    <3> QED
      BY <3>1, <3>2, <3>3 DEF OrderInv, Filled
  <2>2. CASE ~(tx = "wait" /\ done = 0)
    <3>1. onTime' = 0
      BY <1>11, <2>2 DEF BufferEnds, TypeOK
    <3> QED
      BY <3>1 DEF OrderInv
  <2> QED
    BY <2>1, <2>2
<1>12. CASE PlainEnds
  BY <1>12 DEF PlainEnds, Callback, Warn, SessionInv, OrderInv, ToFill, Filled
<1>13. CASE UNCHANGED vars
  BY <1>13 DEF OrderInv, ToFill, Filled
<1> QED
  BY <1>1, <1>2, <1>3, <1>4, <1>5, <1>6, <1>7, <1>8, <1>9, <1>10, <1>11, <1>12, <1>13
  DEF Next, Client, TxThread, Edma

LEMMA InductiveStep == IInv /\ [Next]_vars => IInv'
<1> SUFFICES ASSUME IInv, [Next]_vars PROVE IInv'
  OBVIOUS
<1>1. TypeOK' /\ DriverInv' /\ SessionInv'
  BY TypeStep, DriverStep, SessionStep DEF IInv
<1>2. FillInv' /\ OrderInv'
  BY FillStep, OrderStep
<1> QED
  BY <1>1, <1>2 DEF IInv
-----------------------------------------------------------------------------
(* The inductive invariant holds in every reachable state.                 *)
THEOREM Invariance == Spec => []IInv
<1>1. Init => IInv
  BY InvInit
<1>2. IInv /\ [Next]_vars => IInv'
  BY InductiveStep
<1> QED
  BY <1>1, <1>2, PTL DEF Spec

(* The types, among them that the device is never woken twice (pm).        *)
THEOREM TypeCorrect == Spec => []TypeOK
<1>1. IInv => TypeOK
  BY DEF IInv
<1> QED
  BY <1>1, Invariance, PTL

(* The wait ioctl reports the buffer that the channel reads.               *)
THEOREM IndexSafety == Spec => []IndexIsBufferInDma
<1>1. IInv => IndexIsBufferInDma
  BY DEF IInv, DriverInv, IndexIsBufferInDma
<1> QED
  BY <1>1, Invariance, PTL

(* A filling thread in time keeps off the buffer in transmission.          *)
THEOREM FillSafety == Spec => []FillAvoidsBufferInDma
<1>1. IInv => FillAvoidsBufferInDma
  <2> SUFFICES ASSUME IInv, onTime > 0, tx = "fill" PROVE next_buffer_to_fill # inDma
    BY DEF FillAvoidsBufferInDma
  <2>1. next_buffer_to_fill = Other(inDma) /\ inDma \in Buffers
    BY DEF IInv, FillInv, TypeOK
  <2> QED
    BY <2>1, OtherBuffer
<1> QED
  BY <1>1, Invariance, PTL

(* The channel reads the pages of the process that started it.             *)
THEOREM PagesSafety == Spec => []ReadsOwnPages
<1>1. IInv => ReadsOwnPages
  BY DEF IInv, SessionInv, Sessions, ReadsOwnPages
<1> QED
  BY <1>1, Invariance, PTL

(* Nothing runs that no transmission accounts for, once the driver has been*)
(* reset, and the device is awake for just as long.                        *)
THEOREM ChannelSafety == Spec => []ChannelIsAccountedFor
<1>1. IInv => ChannelIsAccountedFor
  BY DEF IInv, DriverInv, SessionInv, ChannelIsAccountedFor
<1> QED
  BY <1>1, Invariance, PTL

(* The buffers are sent in the order of filling, from the start and after  *)
(* every late spell.                                                       *)
THEOREM OrderSafety == Spec => InOrder
<1>1. IInv /\ [Next]_vars => [BufferEnds /\ onTime' = Settled => sent' = NextGen(sent)]_vars
  <2> SUFFICES ASSUME IInv, BufferEnds, onTime' = Settled PROVE sent' = NextGen(sent)
    OBVIOUS
  <2>1. tx = "wait" /\ done = 0 /\ onTime > 1
    BY DEF IInv, TypeOK, BufferEnds, Settled, MaxDone
  <2>2. sent' = content[Other(inDma)]
    BY DEF BufferEnds
  <2>3. content[Other(inDma)] = NextGen(sent)
    BY <2>1 DEF IInv, OrderInv, Filled
  <2> QED
    BY <2>2, <2>3
<1> QED
  BY <1>1, Invariance, PTL DEF Spec, InOrder
=============================================================================
