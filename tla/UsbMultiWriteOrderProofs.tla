---------------------- MODULE UsbMultiWriteOrderProofs ----------------------
(***************************************************************************)
(* The device receives the packets in the order of the writes: proved of   *)
(* UsbMultiWrite for every number of transfer buffers, every sequence of   *)
(* writes and every value of the bounds.                                   *)
(***************************************************************************)
EXTENDS UsbMultiWriteProofs

-----------------------------------------------------------------------------
(***************************************************************************)
(* The order of the packets: steps that leave the transfers as they are.   *)
(***************************************************************************)
\* A transfer that may at most be cancelled.
KeepsTransfer(b) ==
    /\ buf'[b].CallingIrp = buf[b].CallingIrp /\ buf'[b].First = buf[b].First
    /\ buf'[b].Length = buf[b].Length /\ buf'[b].Status = buf[b].Status
    /\ buf'[b].Transferred = buf[b].Transferred
    /\ buf[b].Cancel => buf'[b].Cancel
PipeStep == BusData \/ BusError \/ BusCancelled \/ FlowOffAbort \/ PurgeAbort

\* A transfer changes when it is submitted, handled or ended.
LEMMA TransferSteps ==
    ASSUME CoreInv, [Next]_vars, ~PipeStep, NEW b \in Buffers
    PROVE  \/ KeepsTransfer(b)
           \/ SendSubmit /\ b = Last(MWritePendingQueue)
           \/ (CompleteWrite \/ CompleteFlowOff) /\ b = Done
<1>1. TypeInv /\ BufferInv /\ RecordInv /\ IrpInv
  BY DEF CoreInv, PipeInv
<1>2. buf \in [Buffers -> TransferBuffer]
  BY <1>1, TypeParts
<1>3. buf'[b] = buf[b] => KeepsTransfer(b)
  BY DEF KeepsTransfer
<1>4. ASSUME NEW c, buf'[b] = [buf[b] EXCEPT !.Cancel = buf[b].Cancel \/ c]
      PROVE  KeepsTransfer(b)
  BY <1>2, <1>4 DEF KeepsTransfer, TransferBuffer
<1>5. buf'[b] = [buf[b] EXCEPT !.Cancel = TRUE] => KeepsTransfer(b)
  BY <1>2 DEF KeepsTransfer, TransferBuffer
<1>6. CASE UNCHANGED buf
  BY <1>3, <1>6
<1>7. CASE ThreadNext
  <2>1. CASE \/ Top \/ SendNothing \/ Check \/ Kick \/ CancelCurrent \/ CancelDone
             \/ Resume \/ FlowOn \/ CompleteNothing
    BY <1>1, <1>6, <2>1, ThreadAloneType DEF ThreadOnly
  <2>2. CASE TopPurge \/ SendCancelled \/ SendTake \/ FlowOff
    BY <1>6, <2>2 DEF TopPurge, SendCancelled, SendTake, FlowOff
  <2>3. CASE SendSubmit
    <3>1. \E r : buf' = [buf EXCEPT ![Last(MWritePendingQueue)] = r]
      BY <2>3 DEF SendSubmit
    <3> QED BY <1>2, <1>3, <2>3, <3>1
  <2>4. CASE CancelNext
    <3>1. buf' = [buf EXCEPT ![Head(MWriteCancellingQueue)] =
                     [buf[Head(MWriteCancellingQueue)] EXCEPT
                        !.Cancel = @ \/ Contains(MWritePendingQueue, Head(MWriteCancellingQueue))]]
      BY <2>4 DEF CancelNext
    <3>2. \/ buf'[b] = buf[b]
          \/ \E c : buf'[b] = [buf[b] EXCEPT !.Cancel = buf[b].Cancel \/ c]
      BY <1>2, <3>1
    <3> QED BY <1>3, <1>4, <3>2
  <2>5. CASE CancelThread \/ Purge \/ Stop
    <3>1. PICK event \in {"CANCEL", "PURGE", "STOP"},
               state \in {"CANCELLING", "PURGING", "STOPPING"} : RequestTaken(event, state)
      BY <1>1, <2>5, Requests
    <3>2. CASE ThreadOnly
      BY <1>6, <3>2 DEF ThreadOnly
    <3>3. CASE CancelPending(state)
      BY <1>1, <1>3, <1>5, <3>3, CancelPendingIs
    <3> QED BY <3>1, <3>2, <3>3 DEF RequestTaken
  <2>6. CASE FlowOffAbort
    BY <2>6 DEF PipeStep
  <2>7. CASE CompleteFlowOff
    <3>1. buf' = [buf EXCEPT ![Done] = IdleBuffer]
      BY <2>7 DEF CompleteFlowOff, Done
    <3> QED BY <1>2, <1>3, <2>7, <3>1
  <2>8. CASE CompleteWrite
    <3> DEFINE more == wt.mwtState # "WORKING" /\ MWritePendingQueue # <<>>
    <3>1. buf' = [x \in Buffers |->
                         IF x = Done THEN IdleBuffer
                         ELSE IF more /\ x = Head(MWritePendingQueue)
                         THEN [buf[x] EXCEPT !.Cancel = TRUE]
                         ELSE buf[x]]
      BY <2>8 DEF CompleteWrite, Done
    <3> HIDE DEF more
    <3>2. \/ b = Done \/ buf'[b] = [buf[b] EXCEPT !.Cancel = TRUE]
          \/ buf'[b] = buf[b]
      BY <3>1
    <3> QED BY <1>3, <1>5, <2>8, <3>2
  <2> QED BY <1>7, <2>1, <2>2, <2>3, <2>4, <2>5, <2>6, <2>7, <2>8 DEF ThreadNext
<1>8. CASE BusData \/ BusError \/ BusCancelled \/ PurgeAbort
  BY <1>8 DEF PipeStep
<1>10. CASE WriteCompletionRoutine \/ WriteCompletionSignal \/ ClientNext
            \/ IntNext \/ RequestStop \/ RequestResume \/ PurgeSignal
            \/ CancelWriteThread \/ CancelWriteThreadDone \/ CancelWriteThreadPurge
  BY <1>6, <1>10
     DEF WriteCompletionRoutine, WriteCompletionSignal, ClientNext, EnterEnqueue,
         Enqueue, CreateThread, CancelIrp, CancelWriteRoutine, ClientStep, NotSent, IntNext,
         EmptyWtCompletionQueue, NotifyFlowOff, NotifyFlowOn, FlowOffAcked,
         FlowOffTimeout, RequestStop, RequestResume, PurgeSignal, CancelWriteThread,
         CancelWriteThreadDone, CancelWriteThreadPurge
<1>11. CASE UNCHANGED vars
  BY <1>6, <1>11 DEF vars
<1> QED BY <1>7, <1>8, <1>10, <1>11 DEF Next, BusNext, CallerNext

\* The device receives nothing, and the pipe stays as it is, in the other steps
\* too.
LEMMA DeviceSteps ==
    ASSUME CoreInv, [Next]_vars, ~PipeStep
    PROVE  /\ device' = device
           /\ ~CompleteWrite /\ ~CompleteFlowOff => dev'.halted = dev.halted
<1>1. TypeInv /\ BufferInv /\ RecordInv /\ IrpInv /\ dev \in Device
  BY TypeParts DEF CoreInv, PipeInv
<1>2. CASE UNCHANGED vars
  BY <1>2 DEF vars
<1>3. CASE ThreadNext
  <2>1. CASE \/ Top \/ SendNothing \/ Check \/ Kick \/ CancelCurrent \/ CancelDone
             \/ Resume \/ FlowOn \/ CompleteNothing
    BY <1>1, <2>1, ThreadAloneType DEF ThreadOnly
  <2>2. CASE \/ TopPurge \/ SendCancelled \/ SendTake \/ SendSubmit \/ CancelNext
             \/ FlowOff
    BY <2>2 DEF TopPurge, SendCancelled, SendTake, SendSubmit, CancelNext, FlowOff
  <2>3. CASE CancelThread \/ Purge \/ Stop
    BY <1>1, <2>3, Requests DEF RequestTaken, CancelPending, ThreadOnly
  <2>4. CASE FlowOffAbort
    BY <2>4 DEF PipeStep
  <2>5. CASE CompleteWrite \/ CompleteFlowOff
    BY <2>5 DEF CompleteWrite, CompleteFlowOff, Release
  <2> QED BY <1>3, <2>1, <2>2, <2>3, <2>4, <2>5 DEF ThreadNext
<1>4. CASE BusNext
  BY <1>4 DEF BusNext, PipeStep, WriteCompletionRoutine, WriteCompletionSignal
<1>5. CASE ClientNext
  BY <1>5 DEF ClientNext, EnterEnqueue, Enqueue, CreateThread, CancelIrp,
              CancelWriteRoutine, ClientStep, NotSent
<1>6. CASE IntNext
  BY <1>6 DEF IntNext, EmptyWtCompletionQueue, NotifyFlowOff, NotifyFlowOn,
              FlowOffAcked, FlowOffTimeout, NotSent
<1>7. CASE CallerNext
  <2>1. CASE RequestStop \/ RequestResume
    <3>1. /\ \E s \in BOOLEAN : dev' = [dev EXCEPT !.PowerSuspended = s]
          /\ device' = device
      BY <2>1 DEF RequestStop, RequestResume, NotSent
    <3> QED BY <1>1, <3>1 DEF Device
  <2> QED BY <1>7, <2>1 DEF CallerNext, PipeStep, PurgeSignal, CancelWriteThread,
                            CancelWriteThreadDone, CancelWriteThreadPurge, NotSent
<1> QED BY <1>2, <1>3, <1>4, <1>5, <1>6, <1>7 DEF Next

-----------------------------------------------------------------------------
(***************************************************************************)
(* The order of the packets: a flow-off that is being answered.            *)
(***************************************************************************)
\* None of the known faults has put the packets out of order, and the device is
\* there.
Orderly == Defined /\ faults \cap Disorders = {} /\ dev.present

\* A transfer was aborted, or failed and the pipe was reset since: what follows
\* it on the pipe would overtake it.
Unmoved(b) == Aborted(b) \/ (buf[b].Status = "ERROR" /\ ~dev.halted)
Overtakes == \/ wt.mwtState = "FLOW_OFF" /\ wt.pc # "abort"
             \/ Kept
             \/ \E b \in Out : Unmoved(b)

\* Nothing follows: a flow-off is being carried out and nothing turns the flow
\* on again, nor does the lower driver hold a transfer.
Stuck ==
    /\ int.flow = "waiting" /\ ~int.acked /\ ~wt.bFlowOn
    /\ "FLOW_ON" \notin wt.set /\ "FLOW_OFF" \notin wt.set
    /\ wt.pc \notin {"FLOW_ON", "FLOW_OFF", "send", "sending"}
    /\ \A b \in ToSet(MWritePendingQueue) : buf[b].Status # "PENDING"
StuckInv == Orderly => (Overtakes => Stuck)

\* Disorder is not forgotten.
LEMMA OrderlyFalls ==
    ASSUME CoreInv, [Next]_vars, Orderly'
    PROVE  Orderly
<1>1. faults \subseteq faults' /\ dev.present
  BY FaultsGrow, PresentFalls DEF Orderly
<1> QED BY <1>1 DEF Orderly, Defined

LEMMA FlowSameStuck ==
    ASSUME Stuck, FlowSame
    PROVE  Stuck'
BY DEF Stuck, FlowSame, Pends

\* With the flow off a transfer comes back that is not the last.
LEMMA NotLastFlow ==
    ASSUME CoreInv, CompleteFlowOff, ~Resend
    PROVE  FlowSame
<1>1. TypeInv /\ BufferInv /\ RecordInv
  BY DEF CoreInv, PipeInv
<1>2. /\ wt'.set = wt.set \ {Done} /\ wt'.pc = "top" /\ wt'.bFlowOn = wt.bFlowOn
      /\ wt'.mwtState = IF Resend THEN "WORKING" ELSE wt.mwtState
  BY <1>1, CompleteFlowOffType
<1>3. Frees
  BY CompleteFlowOffCore
<1>4. /\ faults \subseteq faults' /\ wt.mwtState = "FLOW_OFF" /\ wt.pc \in Buffers
      /\ int' = IF Resend THEN [int EXCEPT !.acked = TRUE] ELSE int
  BY DEF CompleteFlowOff, Resend, Done
<1>5. ASSUME NEW b \in ToSet(MWritePendingQueue'), buf'[b].Status = "PENDING"
      PROVE  Pends(b)
  <2>1. MWritePendingQueue' = MWritePendingQueue
    BY <1>1, <1>3, ReleaseIs DEF Frees
  <2>2. b \in Buffers
    BY <1>1, <1>5, <2>1, TypeParts, Members
  <2>3. b # Done
    BY <1>3, <1>5 DEF Frees, IdleBuffer
  <2>4. buf'[b] = buf[b] \/ OnlyCancelled(b)
    BY <1>3, <2>2, <2>3 DEF Frees
  <2> QED BY <1>5, <2>1, <2>4 DEF Pends, OnlyCancelled
<1> QED BY <1>2, <1>4, <1>5 DEF FlowSame

\* When all have come back nothing is left that could be overtaken.
LEMMA ResentIsClear ==
    ASSUME CoreInv, CompleteFlowOff, Resend
    PROVE  ~Overtakes'
<1>1. CoreInv'
  BY CompleteFlowOffCore
<1>2. TypeInv /\ BufferInv /\ RecordInv /\ RecordInv'
  BY <1>1 DEF CoreInv, PipeInv
<1>3. Records' = <<>>
  BY DEF CompleteFlowOff, Resend, Done, Records
<1>4. DOMAIN Records' = {}
  BY <1>3
<1>5. Out' = {} /\ ~Kept'
  BY <1>2, <1>4 DEF RecordInv, Kept
<1>6. wt'.mwtState = "WORKING"
  BY <1>2, CompleteFlowOffType
<1> QED BY <1>5, <1>6 DEF Overtakes

\* Every step but these keeps the thread stuck.
LEMMA StepStaysStuck ==
    ASSUME CoreInv, [Next]_vars, Orderly', Stuck, Overtakes'
    PROVE  Stuck'
<1>1. Orderly
  BY OrderlyFalls
<1>2. CASE UNCHANGED vars
  <2>1. UNCHANGED <<buf, bufferQueues, wt, callers, faults>>
    BY <1>2 DEF vars
  <2> QED BY <2>1 DEF bufferQueues, callers, Stuck
<1>3. CASE ThreadNext
  <2>1. ~FlowOn /\ ~FlowOff
    BY DEF Stuck, FlowOn, FlowOff
  <2>2. CASE CompleteFlowOff
    BY <2>2, ResentIsClear, NotLastFlow, FlowSameStuck
  <2> QED BY <1>3, <2>1, <2>2, ThreadFlow, FlowSameStuck
<1>4. CASE IntNext
  <2>1. ~NotifyFlowOff /\ ~NotifyFlowOn /\ ~FlowOffAcked
    BY DEF Stuck, NotifyFlowOff, NotifyFlowOn, FlowOffAcked
  <2>2. ~FlowOffTimeout
    BY DEF FlowOffTimeout, Orderly, Disorders
  <2> QED BY <1>4, <2>1, <2>2, OthersFlow, FlowSameStuck DEF IntNext
<1>5. CASE BusNext \/ CallerNext
  BY <1>5, OthersFlow, FlowSameStuck DEF CallerNext
<1>6. CASE CreateThread
  <2>1. TypeInv /\ BufferInv /\ RecordInv /\ CoreInv'
    BY StepCore DEF CoreInv, PipeInv
  <2>2. /\ UNCHANGED <<MWTSentIrpQueue>> /\ wt' = NewThread(wt.set \ {"PURGE"}, dev.PowerSuspended)
        /\ "broken" \in FaultIf(MWTSentIrpQueue # <<>>, "broken") => "broken" \in faults'
    BY <1>6 DEF CreateThread, OtherStep
  <2>3. Records' = <<>>
    BY <2>2, FaultIfIs DEF Orderly, Defined, Records
  <2>4. RecordInv' /\ DOMAIN Records' = {}
    BY <2>1, <2>3 DEF CoreInv, PipeInv
  <2>5. Out' = {} /\ ~Kept'
    BY <2>4 DEF RecordInv, Kept
  <2>6. wt'.mwtState = "WORKING"
    BY <2>2 DEF NewThread
  <2> QED BY <2>5, <2>6 DEF Overtakes
<1>7. CASE ClientNext
  BY <1>6, <1>7, OthersFlow, FlowSameStuck DEF ClientNext
<1> QED BY <1>2, <1>3, <1>4, <1>5, <1>7 DEF Next

\* A step of the pipe that leaves a transfer unmoved is the flow-off's abort.
LEMMA PipeUnmoved ==
    ASSUME CoreInv, PipeStep, ~FlowOffAbort, dev'.present, "aborted" \notin faults',
           NEW b \in Buffers, Unmoved(b)'
    PROVE  Unmoved(b)
<1>1. TypeInv
  BY DEF CoreInv, PipeInv
<1>2. buf \in [Buffers -> TransferBuffer] /\ dev \in Device
  BY <1>1, TypeParts
<1>3. UNCHANGED <<buf, dev>> => Unmoved(b)
  BY DEF Unmoved, Aborted
<1>4. ASSUME NEW x \in Buffers, NEW status \in Finished, NEW n,
             buf' = [buf EXCEPT ![x] = Ended(x, status, n)]
      PROVE  /\ b # x => buf'[b] = buf[b]
             /\ b = x => buf'[b].Status = status /\ buf'[b].Cancel = buf[b].Cancel
  BY <1>2, <1>4 DEF Ended, TransferBuffer
<1>5. CASE BusData
  <2>1. PICK x \in Buffers : buf' = [buf EXCEPT ![x] = Ended(x, "SUCCESS", buf[x].Length)]
    BY <1>5 DEF BusData
  <2>2. "SUCCESS" \in Finished /\ dev' = dev
    BY <1>5 DEF BusData, Finished
  <2> QED BY <1>4, <2>1, <2>2 DEF Unmoved, Aborted
<1>6. CASE BusError
  <2>1. PICK x \in Buffers : \E n : buf' = [buf EXCEPT ![x] = Ended(x, "ERROR", n)]
    BY <1>6 DEF BusError
  <2>2. "ERROR" \in Finished /\ dev'.halted
    BY <1>2, <1>6 DEF BusError, Finished, Device
  <2> QED BY <1>4, <2>1, <2>2 DEF Unmoved, Aborted
<1>7. CASE BusCancelled
  <2>1. PICK x \in Buffers : /\ \E n : buf' = [buf EXCEPT ![x] = Ended(x, "CANCELLED", n)]
                             /\ buf[x].Cancel \/ ~dev.present
    BY <1>7 DEF BusCancelled
  <2>2. "CANCELLED" \in Finished /\ dev' = dev
    BY <1>7 DEF BusCancelled, Finished
  <2> QED BY <1>4, <2>1, <2>2 DEF Unmoved, Aborted
<1>8. CASE PurgeAbort
  <2>1. HeldBuffers = <<>>
    BY <1>8 DEF PurgeAbort, FaultIf
  <2> QED BY <1>3, <1>8, <2>1 DEF PurgeAbort, AbortPipe
<1> QED BY <1>5, <1>6, <1>7, <1>8 DEF PipeStep

\* Nor does another step: the pipe is not reset behind a transfer that failed.
LEMMA RestUnmoved ==
    ASSUME CoreInv, [Next]_vars, Orderly', ~PipeStep, ~CompleteFlowOff,
           NEW b \in Buffers, b \in Out', Unmoved(b)'
    PROVE  Unmoved(b)
<1>1. TypeInv /\ BufferInv /\ RecordInv /\ buf \in [Buffers -> TransferBuffer]
  BY TypeParts DEF CoreInv, PipeInv
<1>2. b # Done \/ ~CompleteWrite
  <2>1. CompleteWrite => buf'[Done] = IdleBuffer
    BY CompleteWriteCore DEF Frees
  <2> QED BY <2>1 DEF Out, IdleBuffer
<1>3. ~(SendSubmit /\ b = Last(MWritePendingQueue))
  <2> SUFFICES ASSUME SendSubmit, b = Last(MWritePendingQueue) PROVE FALSE
    OBVIOUS
  <2> DEFINE w == wt.pWriteCurrent
             first == IF w = 0 THEN 0 ELSE irp[w].Information
             length == IF w = 0 THEN 0 ELSE Packets[w] - first
             r == [CallingIrp |-> w, First |-> first, Length |-> length,
                   Status |-> "PENDING", Transferred |-> 0, Cancel |-> FALSE]
  <2>1. buf' = [buf EXCEPT ![Last(MWritePendingQueue)] = r] /\ r.Status = "PENDING"
    BY DEF SendSubmit
  <2> HIDE DEF r
  <2>2. buf'[b].Status = "PENDING"
    BY <1>1, <2>1
  <2> QED BY <2>2 DEF Unmoved, Aborted
<1>4. KeepsTransfer(b)
  BY <1>2, <1>3, TransferSteps
<1>5. CASE ~CompleteWrite
  <2>1. dev'.halted = dev.halted
    BY <1>5, DeviceSteps
  <2> QED BY <1>4, <2>1 DEF KeepsTransfer, Unmoved, Aborted
<1>6. CASE CompleteWrite
  <2>1. ~(dev.present /\ buf[Done].Status = "ERROR" /\ buf[b].Status = "ERROR")
    <3>1. ~ClearsAnother(Done)
      <4>1. FaultIf(ClearsAnother(Done), "cleared") \subseteq faults'
        BY <1>6 DEF CompleteWrite, Done
      <4> QED BY <4>1, FaultIfIs DEF Orderly, Disorders
    <3> QED BY <1>2, <1>6, <3>1 DEF ClearsAnother
  <2>2. (buf[Done].Status = "ERROR" /\ dev.present) \/ dev'.halted = dev.halted
    <3> SUFFICES ASSUME ~(buf[Done].Status = "ERROR" /\ dev.present)
                 PROVE  dev'.halted = dev.halted
      OBVIOUS
    <3>1. \E halted \in BOOLEAN : CountError(DoneStatus, halted) /\ halted = dev.halted
      <4>1. CountError(DoneStatus, dev.halted /\ ~(dev.present /\ buf[Done].Status = "ERROR"))
        BY <1>6 DEF CompleteWrite, Done, DoneStatus
      <4>2. dev.halted \in BOOLEAN
        BY <1>1, TypeParts DEF Device
      <4>3. (dev.halted /\ ~(dev.present /\ buf[Done].Status = "ERROR")) = dev.halted
        BY <4>2
      <4> QED BY <4>1, <4>2, <4>3
    <3>2. CountError(DoneStatus, dev.halted)
      BY <3>1
    <3>3. dev \in Device
      BY <1>1, TypeParts
    <3> QED BY <3>2, <3>3 DEF CountError, Device
  <2>3. dev.present
    BY PresentFalls DEF Orderly
  <2> QED BY <1>4, <2>1, <2>2, <2>3 DEF KeepsTransfer, Unmoved, Aborted
<1> QED BY <1>5, <1>6

\* The thread goes on to abort the pipe.
LEMMA AbortStays ==
    ASSUME CoreInv, [Next]_vars, wt.pc = "abort", ~FlowOffAbort
    PROVE  wt'.pc = "abort"
<1>1. TypeInv /\ BufferInv /\ RecordInv /\ IrpInv /\ wt \in WriteThread
  BY TypeParts DEF CoreInv, PipeInv
<1>2. (\E e \in ThreadEvents : wt' = Signal(wt, e)) => wt'.pc = wt.pc
  BY <1>1, SignalIs
<1>3. "abort" \notin Buffers
  BY WriteBuffersAssumption DEF WritePoints
<1>4. CASE UNCHANGED vars
  BY <1>4 DEF vars
<1>5. CASE ThreadNext
  <2>1. ~(\/ TopPurge \/ Top \/ SendNothing \/ SendCancelled \/ SendTake
          \/ SendSubmit \/ Check \/ Kick \/ CancelCurrent \/ CancelNext \/ CancelDone)
    BY DEF TopPurge, Top, SendNothing, SendCancelled, SendTake, SendSubmit, Check, Kick,
           CancelCurrent, CancelNext, CancelDone
  <2>2. ~(CancelThread \/ Purge \/ Stop \/ Resume \/ FlowOn \/ FlowOff)
    BY DEF CancelThread, Purge, Stop, Resume, FlowOn, FlowOff
  <2>3. ~(CompleteNothing \/ CompleteFlowOff \/ CompleteWrite)
    BY <1>3 DEF CompleteNothing, CompleteFlowOff, CompleteWrite
  <2> QED BY <1>5, <2>1, <2>2, <2>3 DEF ThreadNext
<1>6. CASE BusNext
  <2>1. CASE WriteCompletionSignal
    BY <1>1, <1>2, <2>1, SignalStill, TypeParts DEF ThreadEvents
  <2>2. CASE BusData \/ BusError \/ BusCancelled \/ WriteCompletionRoutine
    BY <2>2 DEF BusData, BusError, BusCancelled, WriteCompletionRoutine, BusStep
  <2> QED BY <1>6, <2>1, <2>2 DEF BusNext
<1>7. CASE ClientNext
  <2>1. CASE Enqueue
    BY <1>1, <1>2, <2>1, EnqueueType DEF ThreadEvents, WriteEvents
  <2>2. ~CreateThread
    BY DEF CreateThread
  <2>3. CASE EnterEnqueue \/ \E w \in Writes : CancelIrp(w)
    BY <2>3 DEF EnterEnqueue, CancelIrp
  <2>4. CASE \E w \in Writes : CancelWriteRoutine(w)
    BY <1>1, <1>2, <2>4, CancelWriteRoutineType
       DEF CancelsWrite, CancelsTransfer, ThreadEvents, WriteEvents
  <2> QED BY <1>7, <2>1, <2>2, <2>3, <2>4 DEF ClientNext
<1>8. CASE IntNext \/ CallerNext
  <2>1. CASE \/ NotifyFlowOff \/ NotifyFlowOn \/ RequestStop \/ RequestResume
             \/ PurgeSignal \/ CancelWriteThread
    BY <1>1, <1>2, <2>1, AskersStill DEF ThreadEvents
  <2>2. CASE EmptyWtCompletionQueue \/ FlowOffAcked \/ FlowOffTimeout \/ PurgeAbort
    BY <1>1, <2>2, WatchersStill
  <2>3. ~CancelWriteThreadDone
    BY DEF CancelWriteThreadDone
  <2>4. CASE CancelWriteThreadPurge
    BY <2>4 DEF CancelWriteThreadPurge
  <2> QED BY <1>8, <2>1, <2>2, <2>3, <2>4 DEF IntNext, CallerNext
<1> QED BY <1>4, <1>5, <1>6, <1>7, <1>8 DEF Next

\* A flow-off begins with an abort.
LEMMA FlowOffBegins ==
    ASSUME CoreInv, [Next]_vars, Orderly', ~FlowOffAbort,
           wt'.mwtState = "FLOW_OFF", wt'.pc # "abort"
    PROVE  wt.mwtState = "FLOW_OFF" /\ wt.pc # "abort"
<1>1. TypeInv
  BY DEF CoreInv, PipeInv
<1>2. SUFFICES wt.mwtState = "FLOW_OFF"
  BY AbortStays
<1>3. FlowSame => wt.mwtState = "FLOW_OFF"
  BY DEF FlowSame
<1>4. wt' = wt => wt.mwtState = "FLOW_OFF"
  OBVIOUS
<1>5. CASE UNCHANGED vars
  BY <1>4, <1>5 DEF vars
<1>6. CASE ThreadNext
  <2>1. CASE FlowOff
    <3>1. MWritePendingQueue = <<>>
      BY <1>1, <2>1, FlowOffType
    <3>2. "idleOff" \in faults'
      BY <2>1, <3>1 DEF FlowOff, FaultIf
    <3> QED BY <3>2 DEF Orderly, Disorders
  <2>2. CASE FlowOn
    BY <1>1, <2>2, ThreadAloneStill
  <2>3. CASE CompleteFlowOff
    BY <2>3 DEF CompleteFlowOff
  <2> QED BY <1>3, <1>6, <2>1, <2>2, <2>3, ThreadFlow
<1>7. CASE IntNext
  <2>1. CASE NotifyFlowOff \/ NotifyFlowOn
    <3>1. \E e \in WriteEvents : wt' = Signal(wt, e)
      BY <1>1, <2>1, AskersStill
    <3> QED BY <1>1, <3>1, SignalIs DEF ThreadEvents
  <2>2. CASE FlowOffAcked \/ FlowOffTimeout
    BY <1>4, <2>2 DEF FlowOffAcked, FlowOffTimeout
  <2> QED BY <1>3, <1>7, <2>1, <2>2, OthersFlow DEF IntNext
<1>8. CASE BusNext \/ CallerNext
  BY <1>3, <1>8, OthersFlow DEF CallerNext
<1>9. CASE CreateThread
  BY <1>9 DEF CreateThread, NewThread
<1>10. CASE ClientNext
  BY <1>3, <1>9, <1>10, OthersFlow DEF ClientNext
<1> QED BY <1>5, <1>6, <1>7, <1>8, <1>10 DEF Next

\* Only a flow-off keeps a record.
LEMMA KeptBefore ==
    ASSUME CoreInv, [Next]_vars, ~CompleteFlowOff, Kept'
    PROVE  Kept
<1>1. TypeInv /\ BufferInv /\ RecordInv /\ IrpInv
  BY DEF CoreInv, PipeInv
<1>2. UNCHANGED MWTSentIrpQueue => Kept
  BY DEF Kept, Records
<1>3. CASE Still
  BY <1>2, <1>3 DEF Still
<1>5. CASE UNCHANGED vars
  BY <1>2, <1>5 DEF vars
<1>6. CASE ThreadNext
  <2>1. CASE \/ Top \/ SendNothing \/ Check \/ Kick \/ CancelCurrent \/ CancelNext
             \/ CancelDone \/ CancelThread \/ Purge \/ Stop \/ Resume \/ FlowOn
             \/ FlowOff \/ FlowOffAbort \/ CompleteNothing
    BY <1>3, <2>1, ThreadCore
  <2>2. CASE TopPurge \/ SendCancelled \/ SendTake
    BY <1>2, <2>2 DEF TopPurge, SendCancelled, SendTake, QueuesAlone
  <2>4. CASE SendSubmit
    <3> DEFINE r == [SentIrp |-> wt.pWriteCurrent, MWTBuf |-> Last(MWritePendingQueue),
                     IrpReturned |-> FALSE]
    <3>1. Records' = Append(Records, r) /\ ~r.IrpReturned
      BY <2>4 DEF SendSubmit, Records
    <3> HIDE DEF r
    <3>2. Records \in Seq(SentIrp)
      BY <1>1, TypeParts
    <3>3. \A k \in DOMAIN Records' :
             \/ k \in DOMAIN Records /\ Records'[k] = Records[k]
             \/ Records'[k] = r
      BY <3>1, <3>2
    <3> QED BY <3>1, <3>3 DEF Kept
  <2>5. CASE CompleteWrite
    <3>1. Handles /\ Records' = WithoutRecord(Done)
      BY <2>5 DEF CompleteWrite, Handles, Records, Done
    <3>2. PICK k \in DOMAIN Records : RecordOf(k, Done) /\ Done \in Buffers
      BY <1>1, <3>1, DoneIs
    <3>3. PICK g : /\ Passed(WithoutRecord(Done), g, k)
                   /\ \A j \in DOMAIN WithoutRecord(Done) : g[j] # k
      BY <1>1, <3>2, PassedWithout
    <3> QED BY <3>1, <3>3 DEF Passed, Kept
  <2> QED BY <1>6, <2>1, <2>2, <2>4, <2>5 DEF ThreadNext
<1>7. CASE WriteCompletionRoutine
  BY <1>1, <1>2, <1>7, WriteCompletionRoutineType
<1>8. CASE Enqueue \/ CancelWriteThreadPurge \/ \E w \in Writes : CancelWriteRoutine(w)
  BY <1>2, <1>8 DEF Enqueue, ClientStep, CancelWriteThreadPurge, OtherStep,
                    CancelWriteRoutine
<1>9. CASE \/ BusData \/ BusError \/ BusCancelled \/ WriteCompletionSignal
           \/ CreateThread \/ IntNext \/ RequestStop \/ RequestResume
           \/ PurgeAbort \/ PurgeSignal \/ CancelWriteThread
           \/ CancelWriteThreadDone \/ EnterEnqueue
           \/ \E w \in Writes : CancelIrp(w)
  BY <1>3, <1>9, OthersCore
<1> QED BY <1>5, <1>6, <1>7, <1>8, <1>9 DEF Next, BusNext, ClientNext, CallerNext

\* The abort of a flow-off leaves nothing that could follow.
LEMMA AbortIsStuck ==
    ASSUME CoreInv, FlowInv, AbortInv, FlowOffAbort, Orderly
    PROVE  Stuck'
<1>1. TypeInv /\ MWritePendingQueue \in Seq(Buffers)
  BY TypeParts DEF CoreInv, PipeInv
<1>2. /\ wt.pc = "abort" /\ AbortPipe /\ int' = int
      /\ MWritePendingQueue' = MWritePendingQueue
  BY DEF FlowOffAbort, QueuesAlone, bufferQueues
<1>3. /\ wt'.pc = "top" /\ wt'.set = wt.set /\ wt'.bFlowOn = wt.bFlowOn
  BY <1>1, FlowOffAbortStill
<1>4. FlowOrderly
  BY FlowInvIs DEF Orderly, Disorders
<1>5. wt.mwtState = "FLOW_OFF"
  BY <1>2 DEF AbortInv
<1>6. \A b \in ToSet(MWritePendingQueue) : buf'[b].Status # "PENDING"
  BY <1>1, <1>2, AbortMoves
<1> QED BY <1>2, <1>3, <1>4, <1>5, <1>6 DEF Stuck, FlowOrderly, FlowAsked

\* Whatever could be overtaken is not.
LEMMA StepStuck ==
    ASSUME CoreInv, FlowInv, AbortInv, StuckInv, [Next]_vars
    PROVE  StuckInv'
<1>1. SUFFICES ASSUME Orderly', Overtakes' PROVE Stuck'
  BY DEF StuckInv
<1>2. Orderly /\ dev'.present /\ "aborted" \notin faults'
  BY <1>1, OrderlyFalls DEF Orderly, Disorders
<1>3. CASE FlowOffAbort
  BY <1>2, <1>3, AbortIsStuck
<1>4. CASE ~FlowOffAbort
  <2>1. SUFFICES Overtakes
    BY <1>1, <1>2, StepStaysStuck DEF StuckInv
  <2>2. CASE CompleteFlowOff
    <3>1. wt.mwtState = "FLOW_OFF" /\ wt.pc \in Buffers
      BY <2>2 DEF CompleteFlowOff
    <3>2. wt.pc # "abort"
      BY <3>1, WriteBuffersAssumption DEF WritePoints
    <3> QED BY <3>1, <3>2 DEF Overtakes
  <2>3. CASE wt'.mwtState = "FLOW_OFF" /\ wt'.pc # "abort"
    BY <1>1, <1>4, <2>3, FlowOffBegins DEF Overtakes
  <2>4. CASE ~CompleteFlowOff /\ Kept'
    BY <2>4, KeptBefore DEF Overtakes
  <2>5. ASSUME ~CompleteFlowOff, NEW b \in Out', Unmoved(b)'
        PROVE  Overtakes
    <3>1. b \in Out
      BY <2>5, OutBefore DEF Unmoved, Aborted
    <3>2. b \in Buffers
      BY <3>1, TypeParts, Members DEF CoreInv, PipeInv, Out
    <3>3. Unmoved(b)
      BY <1>1, <1>2, <1>4, <2>5, <3>2, PipeUnmoved, RestUnmoved
    <3> QED BY <3>1, <3>3 DEF Overtakes
  <2> QED BY <1>1, <2>2, <2>3, <2>4, <2>5 DEF Overtakes
<1> QED BY <1>3, <1>4

-----------------------------------------------------------------------------
(***************************************************************************)
(* The order of the packets: what the pipe does.                           *)
(***************************************************************************)
\* The kinds of steps.
LEMMA StepKinds ==
    ASSUME CoreInv, [Next]_vars
    PROVE  \/ Still \/ Enqueue \/ TopPurge \/ SendCancelled \/ CancelWriteThreadPurge
           \/ WriteCompletionRoutine \/ SendTake \/ SendSubmit
           \/ CompleteWrite \/ CompleteFlowOff
           \/ \E w \in Writes : CancelWriteRoutine(w) /\ CancelsWrite(w)
<1>1. TypeInv /\ BufferInv /\ RecordInv /\ IrpInv
  BY DEF CoreInv, PipeInv
<1>2. CASE UNCHANGED vars
  BY <1>2, StutterStill
<1>3. CASE ThreadNext
  BY <1>3, ThreadCore DEF ThreadNext
<1>4. CASE BusNext \/ IntNext \/ CallerNext
  BY <1>4, OthersCore DEF BusNext, CallerNext
<1>5. CASE ClientNext
  <2>1. ASSUME NEW w \in Writes, CancelWriteRoutine(w)
        PROVE  Still \/ CancelsWrite(w)
    BY <1>1, <2>1, CancelWriteRoutineType
  <2> QED BY <1>5, <2>1, OthersCore DEF ClientNext
<1> QED BY <1>2, <1>3, <1>4, <1>5 DEF Next

\* The zero-length packet is a transfer of no packets.
ZeroInv == \A b \in Buffers : buf[b].CallingIrp = 0 => buf[b].Length = 0

\* A transfer ends with n packets moved.
EndsAt(b, n) ==
    /\ Pends(b) /\ buf'[b].Status \in Finished /\ buf'[b].Transferred = n
    /\ buf'[b].CallingIrp = buf[b].CallingIrp /\ buf'[b].First = buf[b].First
    /\ buf'[b].Length = buf[b].Length
Brings(h, n) ==
    \/ n = 0 /\ device' = device
    \/ n = 0 /\ buf[h].CallingIrp = 0 /\ device' = Append(device, <<0, 0>>)
    \/ /\ n # 0 /\ buf[h].CallingIrp # 0
       /\ Served(h) /\ dev.present /\ ~dev.halted /\ Received(h, n)
\* Only one transfer moves anything.
PipeMoves(h, n) ==
    /\ EndsAt(h, n) /\ n <= buf[h].Length /\ Brings(h, n)
    /\ \A b \in Buffers : b # h => buf'[b] = buf[b] \/ EndsAt(b, 0)

LEMMA NothingReceived ==
    ASSUME TypeInv, NEW b \in Buffers, Received(b, 0)
    PROVE  device' = device
<1>1. device \in Seq(Sent \X Nat)
  BY TypeParts
<1> DEFINE s == [k \in 1 .. 0 |-> <<buf[b].CallingIrp, buf[b].First + k>>]
<1>2. s = <<>> /\ device' = device \o s
  BY DEF Received
<1> HIDE DEF s
<1>3. device \o <<>> = device
  BY <1>1
<1> QED BY <1>2, <1>3

LEMMA MovedIs ==
    ASSUME TypeInv, ZeroInv, NEW b \in Buffers, NEW n \in MovedBeforeItEnded(b),
           Received(b, n)
    PROVE  n \in Nat /\ n <= buf[b].Length /\ Brings(b, n)
<1>1. n \in Nat /\ n <= buf[b].Length /\ buf[b].Length \in Nat
  BY PartialIs, TypeParts DEF TransferBuffer
<1>2. CASE n = 0
  BY <1>1, <1>2, NothingReceived DEF Brings
<1>3. CASE n # 0
  <2>1. Served(b) /\ dev.present /\ ~dev.halted
    BY <1>3 DEF MovedBeforeItEnded
  <2>2. buf[b].CallingIrp # 0
    BY <1>1, <1>3 DEF ZeroInv
  <2> QED BY <1>1, <1>3, <2>1, <2>2 DEF Brings
<1> QED BY <1>2, <1>3

LEMMA OneEndsAt ==
    ASSUME TypeInv, NEW b \in Buffers, Held(b), NEW status \in Finished, NEW n \in Nat,
           buf' = [buf EXCEPT ![b] = Ended(b, status, n)],
           n <= buf[b].Length, Brings(b, n)
    PROVE  PipeMoves(b, n)
<1>1. buf \in [Buffers -> TransferBuffer]
  BY TypeParts
<1>2. \A x \in Buffers : buf'[x] = IF x = b THEN Ended(b, status, n) ELSE buf[x]
  BY <1>1
<1>3. Pends(b)
  BY HeldIs DEF Pends
<1>4. EndsAt(b, n)
  BY <1>2, <1>3, EndedType DEF EndsAt
<1> QED BY <1>2, <1>4 DEF PipeMoves

LEMMA AbortPipeMoves ==
    ASSUME TypeInv, ZeroInv, AbortPipe
    PROVE  \/ UNCHANGED <<buf, device>>
           \/ \E h \in Buffers, n \in Nat : PipeMoves(h, n)
<1>1. CASE HeldBuffers = <<>>
  BY <1>1 DEF AbortPipe
<1>2. CASE HeldBuffers # <<>>
  <2> DEFINE h == Head(HeldBuffers)
  <2>1. h \in Buffers /\ Held(h) /\ Served(h)
    BY <1>2, HeldIs
  <2>2. PICK n \in MovedBeforeItEnded(h) :
           /\ buf' = [b \in Buffers |->
                          IF Served(b) THEN Ended(b, "CANCELLED", n)
                          ELSE IF Held(b) THEN Ended(b, "CANCELLED", 0)
                          ELSE buf[b]]
           /\ Received(h, n)
    BY <1>2 DEF AbortPipe
  <2>3. \A b : Served(b) <=> b = h
    BY <1>2 DEF Served
  <2> HIDE DEF h
  <2>4. n \in Nat /\ n <= buf[h].Length /\ Brings(h, n)
    BY <2>1, <2>2, MovedIs
  <2>5. "CANCELLED" \in Finished /\ 0 \in Nat
    BY DEF Finished
  <2>6. EndsAt(h, n)
    <3>1. buf'[h] = Ended(h, "CANCELLED", n) /\ Pends(h)
      BY <2>1, <2>2, <2>3, HeldIs DEF Pends
    <3> QED BY <2>1, <2>4, <2>5, <3>1, EndedType DEF EndsAt
  <2>7. ASSUME NEW b \in Buffers, b # h
        PROVE  buf'[b] = buf[b] \/ EndsAt(b, 0)
    <3>1. CASE Held(b)
      <4>1. buf'[b] = Ended(b, "CANCELLED", 0) /\ Pends(b)
        BY <2>2, <2>3, <2>7, <3>1, HeldIs DEF Pends
      <4> QED BY <2>5, <4>1, EndedType DEF EndsAt
    <3>2. CASE ~Held(b)
      BY <2>2, <2>3, <2>7, <3>2
    <3> QED BY <3>1, <3>2
  <2> QED BY <2>1, <2>4, <2>6, <2>7 DEF PipeMoves
<1> QED BY <1>1, <1>2

LEMMA PipeStepMoves ==
    ASSUME TypeInv, TransferInv, ZeroInv, PipeStep
    PROVE  \/ UNCHANGED <<buf, device>>
           \/ \E h \in Buffers, n \in Nat : PipeMoves(h, n)
<1>1. buf \in [Buffers -> TransferBuffer]
  BY TypeParts
<1>2. CASE BusData
  <2>1. PICK b \in Buffers :
           /\ Served(b)
           /\ buf' = [buf EXCEPT ![b] = Ended(b, "SUCCESS", buf[b].Length)]
           /\ IF buf[b].CallingIrp = 0 THEN device' = Append(device, <<0, 0>>)
              ELSE Received(b, buf[b].Length)
    BY <1>2 DEF BusData
  <2>2. Held(b) /\ buf[b].Length \in Nat /\ buf[b].Length <= buf[b].Length
        /\ "SUCCESS" \in Finished /\ dev.present /\ ~dev.halted
    BY <1>1, <1>2, <2>1, HeldIs DEF Finished, TransferBuffer, BusData
  <2>3. Brings(b, buf[b].Length)
    <3>1. CASE buf[b].CallingIrp = 0
      BY <2>1, <3>1 DEF ZeroInv, Brings
    <3>2. CASE buf[b].CallingIrp # 0 /\ buf[b].Length # 0
      BY <2>1, <2>2, <3>2 DEF Brings
    <3>3. CASE buf[b].CallingIrp # 0 /\ buf[b].Length = 0
      <4>1. Received(b, 0)
        BY <2>1, <3>3
      <4> QED BY <3>3, <4>1, NothingReceived DEF Brings
    <3> QED BY <3>1, <3>2, <3>3
  <2> QED BY <2>1, <2>2, <2>3, OneEndsAt
<1>3. CASE BusError
  <2>1. PICK b \in Buffers, n \in UNION {Partial(x) : x \in Buffers} :
           /\ Served(b) /\ n \in MovedBeforeItEnded(b)
           /\ buf' = [buf EXCEPT ![b] = Ended(b, "ERROR", n)]
           /\ Received(b, n)
    BY <1>3 DEF BusError
  <2>2. Held(b) /\ "ERROR" \in Finished
    BY <2>1, HeldIs DEF Finished
  <2>3. n \in Nat /\ n <= buf[b].Length /\ Brings(b, n)
    BY <2>1, MovedIs
  <2> QED BY <2>1, <2>2, <2>3, OneEndsAt
<1>4. CASE BusCancelled
  <2>1. PICK b \in Buffers, n \in UNION {Partial(x) : x \in Buffers} :
           /\ Held(b) /\ n \in MovedBeforeItEnded(b)
           /\ buf' = [buf EXCEPT ![b] = Ended(b, "CANCELLED", n)]
           /\ Received(b, n)
    BY <1>4 DEF BusCancelled
  <2>2. "CANCELLED" \in Finished
    BY DEF Finished
  <2>3. n \in Nat /\ n <= buf[b].Length /\ Brings(b, n)
    BY <2>1, MovedIs
  <2> QED BY <2>1, <2>2, <2>3, OneEndsAt
<1>5. CASE FlowOffAbort \/ PurgeAbort
  BY <1>5, AbortPipeMoves DEF FlowOffAbort, PurgeAbort
<1> QED BY <1>2, <1>3, <1>4, <1>5 DEF PipeStep

\* And it leaves everything else where it is.
LEMMA PipeStepStill ==
    ASSUME CoreInv, PipeStep
    PROVE  Still /\ irp' = irp
<1>1. Still
  BY ThreadCore, OthersCore DEF PipeStep
<1> QED BY <1>1 DEF PipeStep, BusData, BusError, BusCancelled, BusStep, FlowOffAbort,
                    PurgeAbort

\* The transfer that is served stands first of those that the lower driver holds.
LEMMA ServedFirst ==
    ASSUME TypeInv, NEW h \in Buffers, Served(h), NEW b \in Buffers, Pends(b), b # h
    PROVE  \E i, j \in DOMAIN MWritePendingQueue :
              i < j /\ MWritePendingQueue[i] = h /\ MWritePendingQueue[j] = b
<1> DEFINE T == {x \in Buffers : Held(x)}
           q == MWritePendingQueue
           k == Keep(q, T)
<1>1. q \in Seq(Buffers) /\ HeldBuffers = k
  BY TypeParts DEF HeldBuffers
<1>2. Held(b)
  BY HeldIs DEF Pends
<1>3. k # <<>> /\ h = Head(k) /\ b \in ToSet(k)
  BY <1>1, <1>2, HeldIs DEF Served
<1>4. k \in Seq(Buffers)
  BY <1>1, KeepElements
<1> HIDE DEF T
<1>5. PICK f \in [1 .. Len(k) -> 1 .. Len(q)] :
          /\ \A m \in 1 .. Len(k) : k[m] = q[f[m]] /\ q[f[m]] \in T
          /\ \A m, o \in 1 .. Len(k) : m < o => f[m] < f[o]
  BY <1>1, KeepPlaces
<1> HIDE DEF k, q
<1>6. PICK m \in 1 .. Len(k) : k[m] = b
  BY <1>3, <1>4, Elements
<1>7. Len(k) \in Nat /\ 1 \in 1 .. Len(k) /\ k[1] = h
  BY <1>3, <1>4
<1>8. 1 < m
  BY <1>2, <1>6, <1>7
<1>9. f[1] < f[m] /\ q[f[1]] = h /\ q[f[m]] = b /\ f[1] \in 1 .. Len(q) /\ f[m] \in 1 .. Len(q)
  BY <1>5, <1>6, <1>7, <1>8
<1>10. DOMAIN q = 1 .. Len(q)
  BY <1>1
<1> QED BY <1>9, <1>10 DEF q


\* The zero-length packet stays one.
LEMMA StepZero ==
    ASSUME CoreInv, TransferInv, ZeroInv, [Next]_vars
    PROVE  ZeroInv'
<1>1. TypeInv /\ TypeInv' /\ buf \in [Buffers -> TransferBuffer]
  BY StepCore, TypeParts DEF CoreInv, PipeInv
<1>2. SUFFICES ASSUME NEW b \in Buffers, buf'[b].CallingIrp = 0 PROVE buf'[b].Length = 0
  BY DEF ZeroInv
<1>3. CASE PipeStep
  <2>1. CASE UNCHANGED <<buf, device>>
    BY <1>2, <2>1 DEF ZeroInv
  <2>2. ASSUME NEW h \in Buffers, NEW n \in Nat, PipeMoves(h, n)
        PROVE  buf'[b].Length = 0
    <3>1. buf'[b] = buf[b] \/ EndsAt(b, n) \/ EndsAt(b, 0)
      BY <2>2 DEF PipeMoves
    <3> QED BY <1>2, <3>1 DEF EndsAt, ZeroInv
  <2> QED BY <1>1, <1>3, <2>1, <2>2, PipeStepMoves
<1>4. CASE ~PipeStep
  <2>1. CASE KeepsTransfer(b)
    BY <1>2, <2>1 DEF KeepsTransfer, ZeroInv
  <2>2. CASE SendSubmit /\ b = Last(MWritePendingQueue)
    <3> DEFINE w == wt.pWriteCurrent
               first == IF w = 0 THEN 0 ELSE irp[w].Information
               length == IF w = 0 THEN 0 ELSE Packets[w] - first
               r == [CallingIrp |-> w, First |-> first, Length |-> length,
                     Status |-> "PENDING", Transferred |-> 0, Cancel |-> FALSE]
    <3>1. buf' = [buf EXCEPT ![Last(MWritePendingQueue)] = r]
      BY <2>2 DEF SendSubmit
    <3>2. r.CallingIrp = w /\ r.Length = length /\ (w = 0 => length = 0)
      OBVIOUS
    <3> HIDE DEF r, w, length
    <3>3. buf'[b] = r
      BY <1>1, <2>2, <3>1
    <3> QED BY <1>2, <3>2, <3>3
  <2>3. CASE (CompleteWrite \/ CompleteFlowOff) /\ b = Done
    <3>1. buf'[b] = IdleBuffer
      BY <2>3, CompleteWriteCore, CompleteFlowOffCore DEF Frees
    <3> QED BY <3>1 DEF IdleBuffer
  <2> QED BY <1>4, <2>1, <2>2, <2>3, TransferSteps
<1> QED BY <1>3, <1>4

\* What the device has is of writes that were enqueued, or the zero-length packet.
SeenInv == \A p \in ToSet(device) :
              p[1] <= count.writes /\ (p[1] = 0 => p = <<0, 0>>)

\* What a transfer brings.
LEMMA BringsIs ==
    ASSUME TypeInv, NEW h \in Buffers, NEW n \in Nat, Brings(h, n),
           NEW p \in ToSet(device')
    PROVE  \/ p \in ToSet(device)
           \/ p = <<0, 0>>
           \/ /\ n # 0 /\ buf[h].CallingIrp # 0 /\ Served(h)
              /\ dev.present /\ ~dev.halted
              /\ \E k \in 1 .. n : p = <<buf[h].CallingIrp, buf[h].First + k>>
<1>1. device \in Seq(Sent \X Nat) /\ buf[h] \in TransferBuffer
  BY TypeParts
<1>2. CASE device' = Append(device, <<0, 0>>)
  <2> DEFINE x == <<0, 0>>
             S == Sent \X Nat
  <2>1. x \in S /\ device \in Seq(S) /\ device' = Append(device, x)
    BY <1>1, <1>2 DEF Sent
  <2> HIDE DEF x, S
  <2>2. device' = device \o <<x>> /\ ToSet(device \o <<x>>) = ToSet(device) \cup {x}
    BY <2>1, AppendIsConcatOfOne
  <2>3. p = x \/ p \in ToSet(device)
    BY <2>2
  <2> QED BY <2>3 DEF x
<1>3. CASE /\ n # 0 /\ buf[h].CallingIrp # 0
           /\ Served(h) /\ dev.present /\ ~dev.halted /\ Received(h, n)
  <2> DEFINE s == [k \in 1 .. n |-> <<buf[h].CallingIrp, buf[h].First + k>>]
  <2>1. s \in Seq(Sent \X Nat) /\ device' = device \o s
    BY <1>1, <1>3 DEF Received, TransferBuffer
  <2>2. Len(s) = n /\ \A k \in 1 .. n : s[k] = <<buf[h].CallingIrp, buf[h].First + k>>
    OBVIOUS
  <2> HIDE DEF s
  <2>3. ToSet(device') = ToSet(device) \cup ToSet(s)
    BY <1>1, <2>1, ElementsOfConcat
  <2>4. ToSet(s) = {s[k] : k \in 1 .. n}
    BY <2>1, <2>2, Elements
  <2> QED BY <1>3, <2>2, <2>3, <2>4
<1> QED BY <1>2, <1>3 DEF Brings

\* A transfer that the lower driver holds belongs to an enqueued write.
LEMMA PendsIsOut ==
    ASSUME CoreInv, NEW b \in Buffers, Pends(b)
    PROVE  b \in Out /\ buf[b].CallingIrp <= count.writes
<1>1. b \in Out
  BY DEF Out, Pends
<1>2. \E k \in DOMAIN Records : RecordOf(k, b)
  BY <1>1 DEF CoreInv, PipeInv, RecordInv
<1> QED BY <1>1, <1>2 DEF CoreInv, PipeInv, OrderInv, RecordsRise, RecordOf

LEMMA CountRises ==
    ASSUME CoreInv, [Next]_vars
    PROVE  count.writes <= count'.writes /\ count.writes \in Nat /\ count'.writes \in Nat
<1>1. TypeInv /\ BufferInv /\ RecordInv /\ CoreInv'
  BY StepCore DEF CoreInv, PipeInv
<1>2. count.writes \in Nat /\ count'.writes \in Nat
  BY <1>1, TypeParts DEF CoreInv, PipeInv, TypeInv, AnySpent
<1>3. CASE Still
  BY <1>2, <1>3 DEF Still
<1>4. CASE Enqueue
  BY <1>1, <1>2, <1>4, EnqueueType
<1>5. CASE TopPurge \/ SendCancelled \/ SendTake \/ SendSubmit \/ CompleteWrite \/ CompleteFlowOff
  <2>1. count' = count
    BY <1>5 DEF TopPurge, SendCancelled, SendTake, SendSubmit, CompleteWrite,
                CompleteFlowOff, Release, ThreadStep
  <2> QED BY <1>2, <2>1
<1>6. CASE CancelWriteThreadPurge
  BY <1>1, <1>2, <1>6, CountedIs DEF CancelWriteThreadPurge
<1>7. CASE WriteCompletionRoutine
  BY <1>2, <1>7 DEF WriteCompletionRoutine
<1>8. CASE \E w \in Writes : CancelWriteRoutine(w) /\ CancelsWrite(w)
  BY <1>2, <1>8 DEF CancelWriteRoutine, callers
<1> QED BY <1>3, <1>4, <1>5, <1>6, <1>7, <1>8, StepKinds

LEMMA StepSeen ==
    ASSUME CoreInv, TransferInv, ZeroInv, SeenInv, [Next]_vars
    PROVE  SeenInv'
<1>1. TypeInv /\ count.writes <= count'.writes /\ count.writes \in Nat
        /\ count'.writes \in Nat
  BY CountRises DEF CoreInv, PipeInv
<1>2. device \in Seq(Sent \X Nat) /\ buf \in [Buffers -> TransferBuffer]
  BY <1>1, TypeParts
<1>3. \A p \in ToSet(device) : p[1] \in Nat
  <2>1. ToSet(device) \subseteq Sent \X Nat /\ Sent \subseteq Nat
    BY <1>2, Members, WritesAre DEF Sent
  <2> QED BY <2>1
<1>4. ASSUME device' = device PROVE SeenInv'
  BY <1>1, <1>3, <1>4 DEF SeenInv
<1>5. ASSUME NEW h \in Buffers, NEW n \in Nat, PipeMoves(h, n) PROVE SeenInv'
  <2>1. SUFFICES ASSUME NEW p \in ToSet(device')
                 PROVE  p[1] <= count'.writes /\ (p[1] = 0 => p = <<0, 0>>)
    BY DEF SeenInv
  <2>2. Brings(h, n) /\ Pends(h)
    BY <1>5 DEF PipeMoves, EndsAt
  <2>3. CASE p \in ToSet(device)
    BY <1>1, <1>3, <2>3 DEF SeenInv
  <2>4. CASE p = <<0, 0>>
    BY <1>1, <2>4
  <2>5. CASE \E k \in 1 .. n : p = <<buf[h].CallingIrp, buf[h].First + k>>
             /\ buf[h].CallingIrp # 0
    <3>1. p[1] = buf[h].CallingIrp /\ p[1] # 0 /\ buf[h].CallingIrp <= count.writes
      BY <2>2, <2>5, PendsIsOut
    <3>2. buf[h].CallingIrp \in Nat
      BY <1>2, WritesAre DEF TransferBuffer, Sent
    <3> QED BY <1>1, <3>1, <3>2
  <2> QED BY <1>1, <2>2, <2>3, <2>4, <2>5, BringsIs
<1> QED BY <1>1, <1>4, <1>5, PipeStepMoves, DeviceSteps

\* The transfers are pending in the order in which they were sent.
PendRises ==
    \A i, j \in DOMAIN MWritePendingQueue :
       i < j /\ buf[MWritePendingQueue[j]].CallingIrp # 0 =>
          buf[MWritePendingQueue[i]].CallingIrp < buf[MWritePendingQueue[j]].CallingIrp

LEMMA NamesKept ==
    ASSUME PendRises, MWritePendingQueue' = MWritePendingQueue,
           \A i \in DOMAIN MWritePendingQueue :
              buf'[MWritePendingQueue[i]].CallingIrp = buf[MWritePendingQueue[i]].CallingIrp
    PROVE  PendRises'
BY DEF PendRises

LEMMA StillNames ==
    ASSUME TypeInv, Still, NEW b \in Buffers
    PROVE  buf'[b].CallingIrp = buf[b].CallingIrp
<1>1. CASE Ends(b)
  <2>1. PICK status \in Finished, n \in Nat : buf'[b] = Ended(b, status, n)
    BY <1>1 DEF Ends
  <2> QED BY <2>1, EndedType
<1> QED BY <1>1 DEF Still, OnlyCancelled

LEMMA SubmitRises ==
    ASSUME CoreInv, PendRises, SendSubmit
    PROVE  PendRises'
<1> DEFINE q == MWritePendingQueue
           w == wt.pWriteCurrent
           first == IF w = 0 THEN 0 ELSE irp[w].Information
           length == IF w = 0 THEN 0 ELSE Packets[w] - first
           r == [CallingIrp |-> w, First |-> first, Length |-> length,
                 Status |-> "PENDING", Transferred |-> 0, Cancel |-> FALSE]
<1>1. TypeInv /\ BufferInv /\ RecordInv /\ OrderInv /\ buf \in [Buffers -> TransferBuffer]
        /\ q \in Seq(Buffers)
  BY TypeParts DEF CoreInv, PipeInv
<1>2. buf' = [buf EXCEPT ![Last(q)] = r] /\ MWritePendingQueue' = q /\ Sending
  BY DEF SendSubmit, bufferQueues, Sending
<1>3. r.CallingIrp = w
  OBVIOUS
<1> HIDE DEF r, w
<1>4. q # <<>> /\ Len(q) \in Nat /\ Len(q) > 0 /\ DOMAIN q = 1 .. Len(q) /\ Last(q) = q[Len(q)]
        /\ IsInjective(q)
  BY <1>1, <1>2 DEF BufferInv, Last
<1>5. ASSUME NEW i \in DOMAIN q, i # Len(q)
      PROVE  q[i] \in Buffers /\ q[i] # Last(q) /\ buf'[q[i]] = buf[q[i]]
  <2>1. q[i] \in Buffers
    BY <1>1
  <2>2. q[i] # q[Len(q)]
    BY <1>4, <1>5 DEF IsInjective
  <2> QED BY <1>1, <1>2, <1>4, <2>1, <2>2
<1>6. buf'[q[Len(q)]] = r
  <2>1. q[Len(q)] \in Buffers
    BY <1>1, <1>4
  <2> QED BY <1>1, <1>2, <1>4, <2>1
<1>7. SUFFICES ASSUME NEW i \in DOMAIN q, NEW j \in DOMAIN q, i < j,
                      buf'[q[j]].CallingIrp # 0
               PROVE  buf'[q[i]].CallingIrp < buf'[q[j]].CallingIrp
  BY <1>2 DEF PendRises
<1>8. i # Len(q)
  BY <1>4, <1>7
<1>9. CASE j # Len(q)
  BY <1>5, <1>7, <1>8, <1>9 DEF PendRises
<1>10. CASE j = Len(q)
  <2>1. q[i] \in ToSet(q) /\ buf[q[i]].Status # "IDLE"
    <3>1. q[i] \in ToSet(q)
      BY <1>1, <1>4, Elements
    <3> QED BY <1>1, <1>5, <1>8, <3>1 DEF BufferInv
  <2>2. q[i] \in Out
    BY <2>1 DEF Out
  <2>3. PICK k \in DOMAIN Records : RecordOf(k, q[i])
    BY <1>1, <2>2 DEF RecordInv
  <2>4. w # 0
    BY <1>3, <1>6, <1>7, <1>10
  <2>5. Records[k].SentIrp < w
    BY <1>1, <1>2, <2>4 DEF OrderInv, HandRises, w
  <2> QED BY <1>3, <1>5, <1>6, <1>8, <1>10, <2>3, <2>5 DEF RecordOf
<1> QED BY <1>9, <1>10

LEMMA StepPend ==
    ASSUME CoreInv, PendRises, [Next]_vars
    PROVE  PendRises'
<1> DEFINE q == MWritePendingQueue
<1>1. TypeInv /\ BufferInv /\ RecordInv /\ buf \in [Buffers -> TransferBuffer]
        /\ q \in Seq(Buffers) /\ DOMAIN q = 1 .. Len(q) /\ Len(q) \in Nat
  BY TypeParts DEF CoreInv, PipeInv
<1>2. \A i \in DOMAIN q : q[i] \in Buffers
  BY <1>1
<1>3. CASE Still
  BY <1>1, <1>2, <1>3, StillNames, NamesKept DEF Still
<1>4. CASE TopPurge \/ SendCancelled \/ CancelWriteThreadPurge
  <2>1. UNCHANGED <<buf, MWritePendingQueue>>
    BY <1>4 DEF TopPurge, SendCancelled, CancelWriteThreadPurge, QueuesAlone, bufferQueues,
                NotSent, OtherStep
  <2> QED BY <2>1 DEF PendRises
<1>5. CASE Enqueue \/ \E w \in Writes : CancelWriteRoutine(w) /\ CancelsWrite(w)
  <2>1. UNCHANGED <<buf, MWritePendingQueue>>
    BY <1>5 DEF Enqueue, CancelWriteRoutine, ClientStep, bufferQueues
  <2> QED BY <2>1 DEF PendRises
<1>6. CASE WriteCompletionRoutine
  <2>1. PICK b : MWritePendingQueue' = Keep(q, Buffers \ {b}) /\ buf' = buf
    BY <1>1, <1>6, WriteCompletionRoutineType
  <2> DEFINE T == Buffers \ {b}
             k == Keep(q, T)
  <2>2. PICK f \in [1 .. Len(k) -> 1 .. Len(q)] :
               /\ \A i \in 1 .. Len(k) : k[i] = q[f[i]] /\ q[f[i]] \in T
               /\ \A i, j \in 1 .. Len(k) : i < j => f[i] < f[j]
    BY <1>1, KeepPlaces
  <2>3. DOMAIN k = 1 .. Len(k) /\ MWritePendingQueue' = k
    <3>1. k \in Seq(Buffers)
      BY <1>1, KeepElements
    <3> QED BY <2>1, <3>1
  <2> HIDE DEF k, T
  <2>4. ASSUME NEW i \in DOMAIN k, NEW j \in DOMAIN k, i < j, buf[k[j]].CallingIrp # 0
        PROVE  buf[k[i]].CallingIrp < buf[k[j]].CallingIrp
    <3>1. f[i] \in DOMAIN q /\ f[j] \in DOMAIN q /\ f[i] < f[j] /\ k[i] = q[f[i]] /\ k[j] = q[f[j]]
      BY <1>1, <2>2, <2>3, <2>4
    <3> QED BY <2>4, <3>1 DEF PendRises
  <2> QED BY <2>1, <2>3, <2>4 DEF PendRises
<1>7. CASE SendTake
  <2> DEFINE b == Head(MWriteIdleQueue)
  <2>1. MWritePendingQueue' = Append(q, b) /\ buf' = buf
    BY <1>7 DEF SendTake
  <2>2. b \in Buffers /\ buf[b] = IdleBuffer
    <3>1. MWriteIdleQueue # <<>> /\ MWriteIdleQueue \in Seq(Buffers)
      BY <1>1, <1>7, TypeParts DEF SendTake, SomethingToSend
    <3>2. b \in ToSet(MWriteIdleQueue) /\ b \in Buffers
      BY <3>1, Members
    <3> QED BY <1>1, <3>2 DEF BufferInv
  <2>3. buf[b].CallingIrp = 0
    BY <2>2 DEF IdleBuffer
  <2> HIDE DEF b
  <2>4. /\ DOMAIN Append(q, b) = 1 .. Len(q) + 1
        /\ \A i \in 1 .. Len(q) : Append(q, b)[i] = q[i]
        /\ Append(q, b)[Len(q) + 1] = b
    BY <1>1, <2>2
  <2>5. ASSUME NEW i \in 1 .. Len(q) + 1, NEW j \in 1 .. Len(q) + 1, i < j,
               buf[Append(q, b)[j]].CallingIrp # 0
        PROVE  buf[Append(q, b)[i]].CallingIrp < buf[Append(q, b)[j]].CallingIrp
    <3>1. j # Len(q) + 1
      BY <2>3, <2>4, <2>5
    <3>2. i \in DOMAIN q /\ j \in DOMAIN q
      BY <1>1, <2>5, <3>1
    <3> QED BY <1>1, <2>4, <2>5, <3>2 DEF PendRises
  <2> QED BY <2>1, <2>4, <2>5 DEF PendRises
<1>8. CASE SendSubmit
  BY <1>8, SubmitRises
<1>9. CASE CompleteWrite \/ CompleteFlowOff
  <2>1. Frees
    BY <1>9, CompleteWriteCore, CompleteFlowOffCore
  <2>2. MWritePendingQueue' = MWritePendingQueue /\ Done \in ToSet(MWriteCompletionQueue)
    BY <1>1, <2>1, ReleaseIs, DoneIs DEF Frees
  <2>3. \A i \in DOMAIN q : q[i] # Done
    BY <1>1, <2>2, Elements DEF BufferInv
  <2>4. \A i \in DOMAIN q : buf'[q[i]].CallingIrp = buf[q[i]].CallingIrp
    BY <1>2, <2>1, <2>3 DEF Frees, OnlyCancelled
  <2> QED BY <2>2, <2>4, NamesKept
<1> QED BY <1>3, <1>4, <1>5, <1>6, <1>7, <1>8, <1>9, StepKinds

-----------------------------------------------------------------------------
(***************************************************************************)
(* The order of the packets: what is still to be sent comes after what the *)
(* device has.                                                             *)
(***************************************************************************)
\* The device has nothing that follows the first n packets of w.
Before(w, n) == \A p \in ToSet(device) : p[1] < w \/ (p[1] = w /\ p[2] <= n)
\* The writes of which something may still be sent, and the transfers that have
\* not moved all they should.
Returned(w) == \E k \in DOMAIN Records : Records[k].IrpReturned /\ Records[k].SentIrp = w
Waits(w) == w \in ToSet(WriteDataQueue) \/ InHand(w) \/ Returned(w)
Unsent(b) == buf[b].Status \in {"PENDING", "ERROR"} \/ Aborted(b)
WaitsBefore(w) == Waits(w) => Before(w, irp[w].Information)
SentBefore(b) ==
    buf[b].CallingIrp # 0 =>
       /\ Unsent(b) => Before(buf[b].CallingIrp, buf[b].First + buf[b].Transferred)
       /\ buf[b].First = irp[buf[b].CallingIrp].Information
AllBefore == /\ \A w \in Writes : WaitsBefore(w)
             /\ \A b \in Out : SentBefore(b)
BeforeInv == Orderly => AllBefore

LEMMA SeenAre ==
    ASSUME TypeInv
    PROVE  \A p \in ToSet(device) : p[1] \in Nat /\ p[2] \in Nat
<1>1. ToSet(device) \subseteq Sent \X Nat /\ Sent \subseteq Nat
  BY TypeParts, Members, WritesAre DEF Sent
<1> QED BY <1>1

\* A transfer that is out has a record of its own, and its write does not wait.
LEMMA OutIsOne ==
    ASSUME CoreInv, NEW b \in Out, buf[b].CallingIrp # 0
    PROVE  /\ buf[b].CallingIrp \in Writes /\ Recorded(buf[b].CallingIrp)
           /\ buf[b].CallingIrp \notin ToSet(WriteDataQueue)
           /\ ~InHand(buf[b].CallingIrp) /\ ~Waits(buf[b].CallingIrp)
           /\ \A x \in Out : buf[x].CallingIrp = buf[b].CallingIrp => x = b
<1> DEFINE w == buf[b].CallingIrp
<1>1. TypeInv /\ OrderInv /\ RecordInv
  BY DEF CoreInv, PipeInv
<1>2. b \in Buffers /\ buf[b] \in TransferBuffer
  BY <1>1, TypeParts, Members DEF Out
<1>3. w \in Writes
  BY <1>2 DEF TransferBuffer, Sent
<1>4. PICK k \in DOMAIN Records : RecordOf(k, b)
  BY <1>1 DEF RecordInv
<1>5. Recorded(w)
  BY <1>4 DEF RecordOf, Recorded
<1>6. /\ w \notin ToSet(WriteDataQueue) /\ ~InHand(w)
      /\ \A i, j \in DOMAIN Records : Records[i].SentIrp = w /\ Records[j].SentIrp = w => i = j
  BY <1>1, <1>3, <1>5, OnePlace
<1>7. ~Returned(w)
  BY <1>4, <1>6 DEF RecordOf, Returned
<1>8. ASSUME NEW x \in Out, buf[x].CallingIrp = w PROVE x = b
  <2>1. PICK j \in DOMAIN Records : RecordOf(j, x)
    BY <1>1 DEF RecordInv
  <2>2. j = k
    BY <1>4, <1>6, <1>8, <2>1 DEF RecordOf
  <2> QED BY <1>4, <2>1, <2>2 DEF RecordOf
<1> QED BY <1>3, <1>5, <1>6, <1>7, <1>8 DEF Waits

\* Handling a completion changes the count of no other write.
LEMMA OthersKeepCount ==
    ASSUME CoreInv, CompleteWrite \/ CompleteFlowOff, NEW w \in Writes,
           w # buf[Done].CallingIrp
    PROVE  irp'[w] = irp[w]
<1>1. TypeInv /\ BufferInv /\ RecordInv
  BY DEF CoreInv, PipeInv
<1>2. Handles
  BY DEF CompleteWrite, CompleteFlowOff, Handles
<1>3. Done \in Buffers /\ DoneStatus \in TransferStatus
  BY <1>1, <1>2, DoneIs
<1>4. irp' = AnswerTransfer(Done, DoneStatus) \/ irp' = Adjusted(Done)
  BY DEF CompleteWrite, CompleteFlowOff, Done, DoneStatus
<1>5. AnswerTransfer(Done, DoneStatus)[w] = irp[w]
  BY <1>1, <1>3, AnswerTransferIs
<1>6. Adjusted(Done)[w] = irp[w]
  BY <1>1, <1>3, AdjustedIs
<1> QED BY <1>4, <1>5, <1>6

\* The count of a write that has not come to its end changes only when its
\* transfer is handled.
LEMMA CountKept ==
    ASSUME CoreInv, [Next]_vars, Orderly', NEW w \in Writes
    PROVE  \/ irp'[w].Information = irp[w].Information
           \/ w \in ToSet(WriteDataQueue) /\ ~Waits(w)'
           \/ ~Has(w)
           \/ (CompleteWrite \/ CompleteFlowOff) /\ w = buf[Done].CallingIrp
<1>1. TypeInv /\ BufferInv /\ RecordInv /\ IrpInv /\ OrderInv
  BY DEF CoreInv, PipeInv
<1>2. CASE Still
  BY <1>2 DEF Still, IrpMoves
<1>3. CASE Enqueue
  BY <1>1, <1>3, EnqueueType
<1>4. CASE TopPurge \/ SendCancelled \/ CancelWriteThreadPurge
  <2>1. Records' = Records /\ (Sending' => Sending /\ wt'.pWriteCurrent = wt.pWriteCurrent)
    <3>1. wt \in WriteThread
      BY <1>1, TypeParts
    <3> QED BY <1>4, <3>1 DEF TopPurge, SendCancelled, CancelWriteThreadPurge, QueuesAlone,
                       OtherStep, Records, Goto, Sending, WriteThread
  <2>2. CASE UNCHANGED irp
    BY <2>2
  <2>3. CASE PurgeQueue
    <3>1. WriteDataQueue' = <<>>
      BY <2>3 DEF PurgeQueue
    <3>2. CASE w \in ToSet(WriteDataQueue)
      <4>1. ~InHand(w) /\ ~Recorded(w)
        BY <1>1, <3>2, OnePlace
      <4>2. ~InHand(w)' /\ ~Returned(w)'
        BY <2>1, <4>1 DEF InHand, Recorded, Returned
      <4>3. w \notin ToSet(WriteDataQueue')
        BY <3>1, ElementsOfNone
      <4> QED BY <3>2, <4>2, <4>3 DEF Waits
    <3>3. CASE w \notin ToSet(WriteDataQueue)
      BY <1>1, <2>3, <3>3, PurgeQueueIs
    <3> QED BY <3>2, <3>3
  <2> QED BY <1>4, <2>2, <2>3 DEF TopPurge, SendCancelled, CancelWriteThreadPurge
<1>5. CASE WriteCompletionRoutine \/ SendTake \/ SendSubmit
  <2>1. irp' = irp
    BY <1>5 DEF WriteCompletionRoutine, BusStep, SendTake, SendSubmit
  <2> QED BY <2>1
<1>6. CASE CompleteWrite \/ CompleteFlowOff
  BY <1>6, OthersKeepCount
<1>7. ASSUME NEW v \in Writes, CancelWriteRoutine(v), CancelsWrite(v)
      PROVE  \/ irp'[w].Information = irp[w].Information
             \/ w \in ToSet(WriteDataQueue) /\ ~Waits(w)'
             \/ ~Has(w)
  <2>1. CASE v # w
    BY <1>7, <2>1 DEF CancelsWrite
  <2>2. CASE v = w /\ w \in ToSet(WriteDataQueue)
    <3>1. WriteDataQueue' = Keep(WriteDataQueue, Writes \ {w}) /\ wt' = wt
      BY <1>7, <2>2 DEF CancelsWrite
    <3>2. Records' = Records
      BY <1>7 DEF CancelWriteRoutine, ClientStep, Records
    <3>3. w \notin ToSet(WriteDataQueue')
      BY <1>1, <3>1, TypeParts, KeepElements
    <3>4. ~InHand(w) /\ ~Recorded(w)
      BY <1>1, <2>2, OnePlace
    <3> QED BY <2>2, <3>1, <3>2, <3>3, <3>4 DEF Waits, InHand, Sending, Returned, Recorded
  <2>3. CASE v = w /\ w \notin ToSet(WriteDataQueue)
    <3>1. faults' = faults \cup FaultIf(HeldByThread(w), "adopted")
                           \cup FaultIf(Relinked(w), "broken")
      BY <1>7, <2>3 DEF CancelsWrite
    <3>2. ~HeldByThread(w)
      BY <3>1, FaultIfIs DEF Orderly, Disorders
    <3>3. ~InHand(w)
      BY <3>2 DEF HeldByThread, InHand, Sending
    <3>4. ~Recorded(w)
      BY <3>2 DEF HeldByThread, Recorded, Records, Range
    <3> QED BY <2>3, <3>3, <3>4 DEF Has
  <2> QED BY <2>1, <2>2, <2>3
<1> QED BY <1>2, <1>3, <1>4, <1>5, <1>6, <1>7, StepKinds

\* A write whose transfer is handled does not wait afterwards; nor does another
\* begin to.
LEMMA CompleteWriteWaits ==
    ASSUME CoreInv, CompleteWrite, NEW w \in Writes, Waits(w)'
    PROVE  Waits(w)
<1>1. TypeInv /\ BufferInv /\ RecordInv /\ Handles
  BY DEF CoreInv, PipeInv, CompleteWrite, Handles
<1>2. PICK k \in DOMAIN Records : Done \in Buffers /\ RecordOf(k, Done)
  BY <1>1, DoneIs
<1>3. PICK r, g : /\ r = WithoutRecord(Done) /\ Passed(r, g, k)
                  /\ \A j \in DOMAIN r : g[j] # k
  BY <1>1, <1>2, PassedWithout
<1>4. Records' = r /\ WriteDataQueue' = WriteDataQueue
  BY <1>3 DEF CompleteWrite, Done, Records
<1>5. ~Sending'
  BY CompleteWriteCore DEF Frees, Sending
<1>6. Returned(w)' => Returned(w)
  BY <1>3, <1>4 DEF Returned, Passed
<1> QED BY <1>4, <1>5, <1>6 DEF Waits, InHand

LEMMA CompleteFlowOffWaits ==
    ASSUME CoreInv, CompleteFlowOff, NEW w \in Writes, Waits(w)'
    PROVE  Waits(w) \/ (DoneStatus # "SUCCESS" /\ w = buf[Done].CallingIrp)
<1>1. TypeInv /\ BufferInv /\ RecordInv /\ OrderInv /\ Handles
  BY DEF CoreInv, PipeInv, CompleteFlowOff, Handles
<1>2. PICK k \in DOMAIN Records : Done \in Buffers /\ RecordOf(k, Done)
  BY <1>1, DoneIs
<1>3. PICK r, g : /\ r \in Seq(SentIrp) /\ r = KeptRecords /\ Passed(r, g, k)
                  /\ DoneStatus = "SUCCESS" => \A j \in DOMAIN r : g[j] # k
  <2>1. CASE DoneStatus = "SUCCESS"
    BY <1>1, <1>2, <2>1, PassedWithout DEF KeptRecords
  <2>2. CASE DoneStatus # "SUCCESS"
    BY <1>1, <1>2, <2>2, PassedMarked DEF KeptRecords
  <2> QED BY <2>1, <2>2
<1>4. /\ WriteDataQueue' = IF Resend THEN WritesOf(r) \o WriteDataQueue
                           ELSE WriteDataQueue
      /\ Records' = IF Resend THEN <<>> ELSE r
      /\ count' = count
  BY <1>3 DEF CompleteFlowOff, Done, DoneStatus, KeptRecords, Resend, Records, Release,
              ThreadStep
<1>5. ~Sending'
  BY CompleteFlowOffCore DEF Frees, Sending
<1>6. ASSUME NEW j \in DOMAIN r, r[j].SentIrp = w, r[j].IrpReturned \/ Resend
      PROVE  Waits(w) \/ (DoneStatus # "SUCCESS" /\ w = buf[Done].CallingIrp)
  <2>1. CASE g[j] = k
    BY <1>2, <1>3, <1>6, <2>1 DEF Passed, RecordOf
  <2>2. CASE g[j] # k
    <3>1. g[j] \in DOMAIN Records /\ Records[g[j]].SentIrp = w
      BY <1>3, <1>6 DEF Passed
    <3>2. Records[g[j]].IrpReturned
      BY <1>1, <1>2, <1>3, <1>6, <2>2, <3>1, ResendIs DEF Passed
    <3> QED BY <3>1, <3>2 DEF Waits, Returned
  <2> QED BY <2>1, <2>2
<1>7. CASE Resend
  <2>1. w \in ToSet(WriteDataQueue') <=> RecordedIn(r, w) \/ w \in ToSet(WriteDataQueue)
    BY <1>1, <1>3, <1>4, <1>7, ResentRises
  <2>2. ~Returned(w)'
    BY <1>4, <1>7 DEF Returned
  <2>3. RecordedIn(r, w) \/ w \in ToSet(WriteDataQueue)
    BY <1>5, <2>1, <2>2 DEF Waits, InHand
  <2> QED BY <1>6, <1>7, <2>3 DEF RecordedIn, Waits
<1>8. CASE ~Resend
  <2>1. WriteDataQueue' = WriteDataQueue /\ Records' = r
    BY <1>4, <1>8
  <2>2. Returned(w)' \/ w \in ToSet(WriteDataQueue)
    BY <1>5, <2>1 DEF Waits, InHand
  <2>3. Returned(w)' => \E j \in DOMAIN r : r[j].SentIrp = w /\ r[j].IrpReturned
    BY <2>1 DEF Returned
  <2> QED BY <1>6, <2>2, <2>3 DEF Waits
<1> QED BY <1>7, <1>8

LEMMA SubmitWaits ==
    ASSUME CoreInv, SendSubmit, NEW w \in Writes, Waits(w)'
    PROVE  Waits(w)
<1>1. wt \in WriteThread /\ Records \in Seq(SentIrp)
  BY TypeParts DEF CoreInv, PipeInv
<1>2. ~Sending'
  BY <1>1 DEF SendSubmit, Sending, WriteThread
<1>3. PICK x : Records' = Append(Records, x) /\ x.IrpReturned = FALSE
  BY DEF SendSubmit, Records
<1>4. /\ \A k \in DOMAIN Records : Append(Records, x)[k] = Records[k]
      /\ DOMAIN Append(Records, x) = DOMAIN Records \cup {Len(Records) + 1}
      /\ Append(Records, x)[Len(Records) + 1] = x
  BY <1>1
<1>5. Returned(w)' => Returned(w)
  BY <1>3, <1>4 DEF Returned
<1>6. WriteDataQueue' = WriteDataQueue
  BY DEF SendSubmit
<1> QED BY <1>2, <1>5, <1>6 DEF Waits, InHand

\* A write begins to wait when it is enqueued or its transfer is kept.
LEMMA WaitsCome ==
    ASSUME CoreInv, [Next]_vars, NEW w \in Writes, Waits(w)'
    PROVE  \/ Waits(w)
           \/ Enqueue /\ w = count'.writes
           \/ CompleteFlowOff /\ DoneStatus # "SUCCESS" /\ w = buf[Done].CallingIrp
<1>1. TypeInv /\ BufferInv /\ RecordInv /\ IrpInv /\ OrderInv /\ wt \in WriteThread
        /\ WriteDataQueue \in Seq(Writes)
  BY TypeParts DEF CoreInv, PipeInv
<1>2. CASE Still
  BY <1>2 DEF Still, HandSame, Waits, InHand, Returned, Records
<1>3. CASE Enqueue
  <2>1. /\ WriteDataQueue' = Append(WriteDataQueue, count'.writes) /\ HandSame
        /\ Records' = Records /\ count'.writes \in Writes
    BY <1>1, <1>3, EnqueueType DEF Records
  <2>2. w \in ToSet(WriteDataQueue') => w = count'.writes \/ w \in ToSet(WriteDataQueue)
    <3>1. PICK y \in Writes : y = count'.writes
      BY <2>1
    <3>2. WriteDataQueue' = WriteDataQueue \o <<y>>
            /\ ToSet(WriteDataQueue \o <<y>>) = ToSet(WriteDataQueue) \cup {y}
      BY <1>1, <2>1, <3>1, AppendIsConcatOfOne
    <3> QED BY <3>1, <3>2
  <2> QED BY <1>3, <2>1, <2>2 DEF HandSame, Waits, InHand, Returned
<1>4. CASE TopPurge \/ SendCancelled \/ CancelWriteThreadPurge
  <2>1. Records' = Records /\ (Sending' => Sending /\ wt'.pWriteCurrent = wt.pWriteCurrent)
    BY <1>1, <1>4 DEF TopPurge, SendCancelled, CancelWriteThreadPurge, QueuesAlone,
                      OtherStep, Records, Goto, Sending, WriteThread
  <2>2. WriteDataQueue' = <<>> \/ WriteDataQueue' = WriteDataQueue
    BY <1>4 DEF TopPurge, SendCancelled, CancelWriteThreadPurge, PurgeQueue
  <2>3. w \in ToSet(WriteDataQueue') => w \in ToSet(WriteDataQueue)
    BY <2>2, ElementsOfNone
  <2> QED BY <2>1, <2>3 DEF Waits, InHand, Returned
<1>5. CASE WriteCompletionRoutine
  <2>1. UNCHANGED <<WriteDataQueue, wt, MWTSentIrpQueue>>
    BY <1>5 DEF WriteCompletionRoutine, BusStep
  <2> QED BY <2>1 DEF Waits, InHand, Sending, Returned, Records
<1>6. CASE SendTake
  <2>1. Records' = Records
    BY <1>6 DEF SendTake, Records
  <2>2. CASE wt' = [wt EXCEPT !.pc = "sending", !.pWriteCurrent = 0]
             /\ WriteDataQueue' = WriteDataQueue
    <3>1. ~InHand(w)'
      BY <1>1, <2>2, WritesAre DEF InHand, WriteThread
    <3> QED BY <2>1, <2>2, <3>1 DEF Waits, Returned
  <2>3. CASE /\ wt' = [wt EXCEPT !.pc = "sending",
                                 !.pWriteCurrent = Head(WriteDataQueue)]
             /\ WriteDataQueue' = Tail(WriteDataQueue)
             /\ WriteDataQueue # <<>>
    <3>1. ToSet(WriteDataQueue) = {Head(WriteDataQueue)} \cup ToSet(WriteDataQueue')
      BY <1>1, <2>3, HeadAndTail
    <3>2. InHand(w)' => w = Head(WriteDataQueue)
      BY <1>1, <2>3 DEF InHand, WriteThread
    <3> QED BY <2>1, <3>1, <3>2 DEF Waits, Returned
  <2> QED BY <1>6, <2>2, <2>3 DEF SendTake, SomethingToSend
<1>7. CASE SendSubmit
  BY <1>7, SubmitWaits
<1>8. CASE CompleteWrite
  BY <1>8, CompleteWriteWaits
<1>9. CASE CompleteFlowOff
  BY <1>9, CompleteFlowOffWaits
<1>10. ASSUME NEW v \in Writes, CancelWriteRoutine(v), CancelsWrite(v)
       PROVE  Waits(w)
  <2>1. Records' = Records /\ wt' = wt
    BY <1>10 DEF CancelsWrite, CancelWriteRoutine, ClientStep, Records
  <2>2. ToSet(WriteDataQueue') \subseteq ToSet(WriteDataQueue)
    <3>1. \/ WriteDataQueue' = WriteDataQueue
          \/ WriteDataQueue' = Keep(WriteDataQueue, Writes \ {v})
      BY <1>10 DEF CancelsWrite
    <3> QED BY <1>1, <3>1, KeepElements
  <2> QED BY <2>1, <2>2 DEF Waits, InHand, Sending, Returned
<1> QED BY <1>2, <1>3, <1>4, <1>5, <1>6, <1>7, <1>8, <1>9, <1>10, StepKinds

LEMMA BeforeUp ==
    ASSUME TypeInv, NEW w \in Nat, NEW m \in Nat, NEW n \in Nat, m <= n, Before(w, m)
    PROVE  Before(w, n)
<1>1. \A p \in ToSet(device) : p[1] \in Nat /\ p[2] \in Nat
  BY SeenAre
<1> QED BY <1>1 DEF Before

\* A transfer that is out after a step, not handled nor submitted by it.
LEMMA OutKept ==
    ASSUME CoreInv, [Next]_vars, NEW b \in Out', KeepsTransfer(b)
    PROVE  b \in Out
<1>1. TypeInv /\ BufferInv /\ RecordInv /\ IrpInv /\ CoreInv'
  BY StepCore DEF CoreInv, PipeInv
<1>2. CASE Still
  BY <1>1, <1>2, OutStays DEF CoreInv, PipeInv
<1>3. CASE TopPurge \/ SendCancelled \/ CancelWriteThreadPurge \/ Enqueue
           \/ \E w \in Writes : CancelWriteRoutine(w) /\ CancelsWrite(w)
  <2>1. UNCHANGED <<buf, MWritePendingQueue, MWriteCompletionQueue>>
    BY <1>3 DEF TopPurge, SendCancelled, CancelWriteThreadPurge, QueuesAlone, bufferQueues,
                NotSent, OtherStep, Enqueue, CancelWriteRoutine, ClientStep
  <2> QED BY <2>1 DEF Out
<1>4. CASE WriteCompletionRoutine \/ SendTake
  BY <1>4, WriteCompletionRoutineCore, SendTakeCore
<1>5. CASE SendSubmit
  <2>1. UNCHANGED <<MWritePendingQueue, MWriteCompletionQueue>>
    BY <1>5 DEF SendSubmit, bufferQueues
  <2> QED BY <2>1 DEF Out, KeepsTransfer
<1>6. CASE CompleteWrite \/ CompleteFlowOff
  <2>1. Frees /\ TypeInv'
    BY <1>6, CompleteWriteCore, CompleteFlowOffCore
  <2> QED BY <2>1, FreesIs
<1> QED BY <1>2, <1>3, <1>4, <1>5, <1>6, StepKinds

\* A transfer that a flow-off keeps has its write counted up to what it moved.
LEMMA KeptCounts ==
    ASSUME CoreInv, AllBefore, Orderly', Orderly, CompleteFlowOff, [Next]_vars,
           DoneStatus # "SUCCESS", buf[Done].CallingIrp \in Writes
    PROVE  /\ Before(buf[Done].CallingIrp, buf[Done].First + buf[Done].Transferred)
           /\ buf[Done].First + buf[Done].Transferred
                 <= irp'[buf[Done].CallingIrp].Information
<1> DEFINE w == buf[Done].CallingIrp
<1>1. TypeInv /\ BufferInv /\ RecordInv /\ Handles
  BY DEF CoreInv, PipeInv, CompleteFlowOff, Handles
<1>2. Done \in Buffers /\ Done \in Out /\ buf[Done].Status \in Finished
  BY <1>1, DoneIs
<1>3. w # 0 /\ w \in Writes
  BY WritesAre
<1>4. SentBefore(Done)
  BY <1>2 DEF AllBefore
<1>5. dev.present /\ DoneStatus = buf[Done].Status
  BY DEF Orderly, DoneStatus
<1>6. /\ irp' = Adjusted(Done)
      /\ ~Rewound(Done) /\ ~buf[Done].Cancel
  <2>1. /\ irp' = Adjusted(Done)
        /\ FaultIf(Rewound(Done), "rewound") \subseteq faults'
        /\ FaultIf(DoneStatus # "SUCCESS" /\ buf[Done].Cancel, "singled") \subseteq faults'
    BY DEF CompleteFlowOff, Done, DoneStatus
  <2> QED BY <2>1, FaultIfIs DEF Orderly, Disorders
<1>7. Unsent(Done)
  BY <1>2, <1>5, <1>6 DEF Unsent, Aborted, Finished
<1>8. buf[Done].First = irp[w].Information /\ Before(w, buf[Done].First + buf[Done].Transferred)
  BY <1>3, <1>4, <1>7 DEF SentBefore
<1>9. ~(irp'[w].Information < irp[w].Information + buf[Done].Transferred)
  BY <1>3, <1>5, <1>6 DEF Rewound
<1>10. /\ irp'[w].Information \in Nat /\ irp[w].Information \in Nat
       /\ buf[Done].Transferred \in Nat /\ buf[Done].First \in Nat
  <2>1. Adjusted(Done) \in [Writes -> WriteIrp] /\ irp \in [Writes -> WriteIrp]
          /\ buf[Done] \in TransferBuffer
    BY <1>1, <1>2, AdjustedIs, TypeParts
  <2> QED BY <1>3, <1>6, <2>1 DEF WriteIrp, TransferBuffer
<1> QED BY <1>8, <1>9, <1>10

\* Steps of the driver: writes that wait.
LEMMA RestWaitsBefore ==
    ASSUME CoreInv, SeenInv, Orderly', Orderly, AllBefore, [Next]_vars, ~PipeStep,
           NEW w \in Writes
    PROVE  WaitsBefore(w)'
<1>1. TypeInv /\ BufferInv /\ RecordInv /\ IrpInv /\ TypeInv'
  BY StepCore DEF CoreInv, PipeInv
<1>2. device' = device
  BY DeviceSteps
<1>3. SUFFICES ASSUME Waits(w)' PROVE Before(w, irp'[w].Information)
  BY <1>2 DEF WaitsBefore, Before
<1>4. w \in Nat /\ irp'[w].Information \in Nat
  <2>1. irp' \in [Writes -> WriteIrp]
    BY <1>1 DEF TypeInv, TypeOK
  <2> QED BY <2>1, WritesAre DEF WriteIrp
<1>5. CASE Enqueue /\ w = count'.writes
  <2>1. w = count.writes + 1 /\ count.writes \in Nat
    BY <1>1, <1>5, EnqueueType, CountRises
  <2>2. \A p \in ToSet(device) : p[1] \in Nat /\ p[1] <= count.writes
    BY <1>1, SeenAre DEF SeenInv
  <2> QED BY <2>1, <2>2 DEF Before
<1>6. CASE CompleteFlowOff /\ DoneStatus # "SUCCESS" /\ w = buf[Done].CallingIrp
  <2>1. /\ Before(w, buf[Done].First + buf[Done].Transferred)
        /\ buf[Done].First + buf[Done].Transferred <= irp'[w].Information
    BY <1>6, KeptCounts
  <2>2. buf[Done].First + buf[Done].Transferred \in Nat
    <3>1. Done \in Buffers
      BY <1>1, <1>6, DoneIs DEF CompleteFlowOff, Handles
    <3>2. buf[Done] \in TransferBuffer
      BY <1>1, <3>1, TypeParts
    <3> QED BY <3>2 DEF TransferBuffer
  <2> QED BY <1>1, <1>4, <2>1, <2>2, BeforeUp
<1>7. CASE Waits(w)
  <2>1. Before(w, irp[w].Information)
    BY <1>7 DEF AllBefore, WaitsBefore
  <2>2. CASE irp'[w].Information = irp[w].Information
    BY <2>1, <2>2
  <2>3. Has(w)
    BY <1>7 DEF Waits, Has, Returned, Recorded
  <2>4. ~((CompleteWrite \/ CompleteFlowOff) /\ w = buf[Done].CallingIrp)
    <3> SUFFICES ASSUME CompleteWrite \/ CompleteFlowOff, w = buf[Done].CallingIrp
                 PROVE  FALSE
      OBVIOUS
    <3>1. Done \in Out
      BY <1>1, DoneIs DEF CompleteWrite, CompleteFlowOff, Handles
    <3>2. buf[Done].CallingIrp # 0
      BY WritesAre
    <3> QED BY <1>7, <3>1, <3>2, OutIsOne
  <2> QED BY <1>3, <2>2, <2>3, <2>4, CountKept
<1> QED BY <1>3, <1>5, <1>6, <1>7, WaitsCome

\* Steps of the driver: transfers.
LEMMA RestSentBefore ==
    ASSUME CoreInv, Orderly', Orderly, AllBefore, [Next]_vars, ~PipeStep, NEW b \in Out'
    PROVE  SentBefore(b)'
<1>1. TypeInv /\ BufferInv /\ RecordInv /\ IrpInv /\ TypeInv'
  BY StepCore DEF CoreInv, PipeInv
<1>2. device' = device /\ b \in Buffers
  <2>1. MWritePendingQueue' \in Seq(Buffers) /\ MWriteCompletionQueue' \in Seq(Buffers)
    BY <1>1 DEF TypeInv, TypeOK
  <2>2. b \in ToSet(MWritePendingQueue') \/ b \in ToSet(MWriteCompletionQueue')
    BY DEF Out
  <2> QED BY <2>1, <2>2, DeviceSteps, Members
<1>3. CASE KeepsTransfer(b)
  <2>1. b \in Out
    BY <1>3, OutKept
  <2>2. SUFFICES ASSUME buf[b].CallingIrp # 0
                 PROVE  SentBefore(b)'
    BY <1>3 DEF KeepsTransfer, SentBefore
  <2>3. Unsent(b)' => Unsent(b)
    BY <1>3 DEF KeepsTransfer, Unsent, Aborted
  <2>0. PICK w : w = buf[b].CallingIrp
    OBVIOUS
  <2>4. /\ w \in Writes /\ Recorded(w) /\ w \notin ToSet(WriteDataQueue)
        /\ \A x \in Out : buf[x].CallingIrp = w => x = b
    BY <2>0, <2>1, <2>2, OutIsOne
  <2>5. ~((CompleteWrite \/ CompleteFlowOff) /\ w = buf[Done].CallingIrp)
    <3> SUFFICES ASSUME CompleteWrite \/ CompleteFlowOff, w = buf[Done].CallingIrp
                 PROVE  FALSE
      OBVIOUS
    <3>1. Done \in Out
      BY <1>1, DoneIs DEF CompleteWrite, CompleteFlowOff, Handles
    <3>2. Done = b
      BY <2>4, <3>1
    <3>3. Frees
      BY CompleteWriteCore, CompleteFlowOffCore
    <3>4. buf'[b].Status = "IDLE"
      BY <3>2, <3>3 DEF Frees, IdleBuffer
    <3> QED BY <3>4 DEF Out
  <2>6. irp'[w].Information = irp[w].Information
    BY <2>4, <2>5, CountKept DEF Has
  <2>7. SentBefore(b)
    BY <2>1 DEF AllBefore
  <2>8. /\ buf'[b].CallingIrp = w /\ buf'[b].First = buf[b].First
        /\ buf'[b].Transferred = buf[b].Transferred
    BY <1>3, <2>0 DEF KeepsTransfer
  <2>9. Unsent(b) => Before(w, buf[b].First + buf[b].Transferred)
    BY <2>0, <2>2, <2>7 DEF SentBefore
  <2>10. buf[b].First = irp[w].Information
    BY <2>0, <2>2, <2>7 DEF SentBefore
  <2>11. Unsent(b)' => Before(w, buf[b].First + buf[b].Transferred)'
    BY <1>2, <2>3, <2>8, <2>9 DEF Before
  <2> QED BY <2>6, <2>8, <2>10, <2>11 DEF SentBefore
<1>4. CASE SendSubmit /\ b = Last(MWritePendingQueue)
  <2>0. PICK w, first : w = wt.pWriteCurrent /\ first = IF w = 0 THEN 0 ELSE irp[w].Information
    OBVIOUS
  <2> DEFINE length == IF w = 0 THEN 0 ELSE Packets[w] - first
             r == [CallingIrp |-> w, First |-> first, Length |-> length,
                   Status |-> "PENDING", Transferred |-> 0, Cancel |-> FALSE]
  <2>1. buf' = [buf EXCEPT ![Last(MWritePendingQueue)] = r] /\ irp' = irp /\ wt.pc = "sending"
    BY <1>4, <2>0 DEF SendSubmit
  <2>2. r.CallingIrp = w /\ r.First = first /\ r.Transferred = 0
    OBVIOUS
  <2> HIDE DEF r, length
  <2>3. buf'[b] = r
    BY <1>1, <1>2, <1>4, <2>1, TypeParts
  <2>4. w \in Sent
    BY <1>1, <2>0, TypeParts DEF WriteThread
  <2>5. CASE w = 0
    BY <2>2, <2>3, <2>5 DEF SentBefore
  <2>6. CASE w # 0
    <3>1. w \in Writes /\ first = irp[w].Information /\ InHand(w)
      BY <2>0, <2>1, <2>4, <2>6 DEF Sent, InHand, Sending
    <3>2. Before(w, first)
      BY <3>1 DEF AllBefore, WaitsBefore, Waits
    <3>3. first \in Nat
      BY <1>1, <3>1, TypeParts DEF WriteIrp
    <3>4. first + 0 = first
      BY <3>3
    <3>5. Before(w, buf[b].First + buf[b].Transferred)'
      BY <1>2, <2>2, <2>3, <3>2, <3>4 DEF Before
    <3>6. buf'[b].CallingIrp = w /\ buf'[b].First = irp'[w].Information
      BY <2>1, <2>2, <2>3, <3>1
    <3> QED BY <3>5, <3>6 DEF SentBefore
  <2> QED BY <2>5, <2>6
<1>5. CASE (CompleteWrite \/ CompleteFlowOff) /\ b = Done
  <2>1. Frees
    BY <1>5, CompleteWriteCore, CompleteFlowOffCore
  <2>2. buf'[b].Status = "IDLE"
    BY <1>5, <2>1 DEF Frees, IdleBuffer
  <2> QED BY <2>2 DEF Out
<1> QED BY <1>2, <1>3, <1>4, <1>5, TransferSteps

\* A transfer that is served is overtaken by none: those that were are not
\* followed by a transfer that is held.
LEMMA NoneOvertaken ==
    ASSUME StuckInv, Orderly, NEW h \in Buffers, Pends(h)
    PROVE  ~Overtakes
BY DEF StuckInv, Stuck, Pends

\* What the lower driver moves comes before every write that waits.
LEMMA MovedBeforeWaiting ==
    ASSUME CoreInv, StuckInv, Orderly, NEW h \in Buffers, Pends(h),
           buf[h].CallingIrp # 0, NEW w \in Writes, Waits(w)
    PROVE  buf[h].CallingIrp < w
<1>1. RecordInv /\ OrderInv /\ WriteDataQueue \in Seq(Writes)
  BY TypeParts DEF CoreInv, PipeInv
<1>2. PICK k \in DOMAIN Records : RecordOf(k, h)
  BY <1>1, PendsIsOut DEF RecordInv
<1>3. CASE w \in ToSet(WriteDataQueue)
  <2>1. PICK j \in DOMAIN WriteDataQueue : WriteDataQueue[j] = w
    BY <1>1, <1>3, Elements
  <2> QED BY <1>1, <1>2, <2>1 DEF OrderInv, RecordsRise, RecordOf
<1>4. CASE InHand(w)
  BY <1>1, <1>2, <1>4, WritesAre DEF OrderInv, HandRises, RecordOf, InHand
<1>5. CASE Returned(w)
  <2>1. Overtakes
    BY <1>5 DEF Returned, Kept, Overtakes
  <2> QED BY <2>1, NoneOvertaken
<1> QED BY <1>3, <1>4, <1>5 DEF Waits

\* And before every other transfer that has not moved all it should.
LEMMA MovedBeforeOthers ==
    ASSUME CoreInv, StuckInv, PendRises, Orderly, NEW h \in Buffers, Pends(h), Served(h),
           ~dev.halted, NEW b \in Out, b # h, Unsent(b), buf[b].CallingIrp # 0
    PROVE  buf[h].CallingIrp < buf[b].CallingIrp
<1>1. TypeInv /\ BufferInv
  BY DEF CoreInv, PipeInv
<1>2. b \in Buffers
  BY <1>1, TypeParts, Members DEF Out
<1>3. CASE buf[b].Status = "PENDING"
  <2>1. b \in ToSet(MWritePendingQueue)
    BY <1>1, <1>3 DEF BufferInv, Finished, Out
  <2>2. Pends(b)
    BY <1>3, <2>1 DEF Pends
  <2>3. \E i, j \in DOMAIN MWritePendingQueue :
           i < j /\ MWritePendingQueue[i] = h /\ MWritePendingQueue[j] = b
    BY <1>1, <1>2, <2>2, ServedFirst
  <2> QED BY <2>3 DEF PendRises
<1>4. CASE buf[b].Status = "ERROR" \/ Aborted(b)
  <2>1. Overtakes
    BY <1>4 DEF Unmoved, Overtakes
  <2> QED BY <2>1, NoneOvertaken
<1> QED BY <1>3, <1>4 DEF Unsent

LEMMA PipeWaitsBefore ==
    ASSUME CoreInv, StuckInv, Orderly, AllBefore, PipeStep, NEW w \in Writes,
           NEW h \in Buffers, NEW n \in Nat, PipeMoves(h, n)
    PROVE  WaitsBefore(w)'
<1>1. TypeInv /\ Still /\ irp' = irp
  BY PipeStepStill DEF CoreInv, PipeInv
<1>2. Waits(w)' => Waits(w)
  BY <1>1 DEF Still, HandSame, Waits, InHand, Returned, Records
<1>3. SUFFICES ASSUME Waits(w), NEW p \in ToSet(device')
               PROVE  p[1] < w \/ (p[1] = w /\ p[2] <= irp[w].Information)
  BY <1>1, <1>2 DEF WaitsBefore, Before
<1>4. Brings(h, n) /\ Pends(h)
  BY DEF PipeMoves, EndsAt
<1>5. CASE p \in ToSet(device)
  BY <1>3, <1>5 DEF AllBefore, WaitsBefore, Before
<1>6. CASE p = <<0, 0>>
  BY <1>6, WritesAre
<1>7. CASE /\ buf[h].CallingIrp # 0
           /\ \E k \in 1 .. n : p = <<buf[h].CallingIrp, buf[h].First + k>>
  <2>1. p[1] = buf[h].CallingIrp
    BY <1>7
  <2> QED BY <1>3, <1>4, <1>7, <2>1, MovedBeforeWaiting
<1> QED BY <1>1, <1>4, <1>5, <1>6, <1>7, BringsIs

LEMMA PipeSentBefore ==
    ASSUME CoreInv, StuckInv, PendRises, Orderly, AllBefore, PipeStep, NEW b \in Out,
           NEW h \in Buffers, NEW n \in Nat, PipeMoves(h, n)
    PROVE  SentBefore(b)'
<1>1. TypeInv /\ BufferInv /\ TransferInv /\ Still /\ irp' = irp
  BY PipeStepStill DEF CoreInv, PipeInv
<1>2. b \in Buffers /\ buf \in [Buffers -> TransferBuffer]
  BY <1>1, TypeParts, Members DEF Out
<1>3. PICK v, f, t, u : /\ v = buf[b].CallingIrp /\ f = buf[b].First
                        /\ t = buf[b].Transferred /\ u = buf'[b].Transferred
  OBVIOUS
<1>4. v \in Sent /\ f \in Nat /\ t \in Nat
  BY <1>2, <1>3 DEF TransferBuffer
<1>5. /\ buf'[b] = buf[b] \/ (b # h /\ EndsAt(b, 0)) \/ (b = h /\ EndsAt(b, n))
      /\ Brings(h, n) /\ Pends(h)
  BY <1>2 DEF PipeMoves, EndsAt
<1>6. buf'[b].CallingIrp = v /\ buf'[b].First = f
  BY <1>3, <1>5 DEF EndsAt
<1>7. SUFFICES ASSUME v # 0 PROVE SentBefore(b)'
  BY <1>6 DEF SentBefore
<1>8. v \in Writes /\ v \in Nat
  BY <1>4, <1>7, WritesAre DEF Sent
<1>9. f = irp'[v].Information
  BY <1>1, <1>3, <1>7 DEF AllBefore, SentBefore
<1>10. SUFFICES ASSUME Unsent(b)', NEW p \in ToSet(device')
                PROVE  p[1] < v \/ (p[1] = v /\ p[2] <= f + u)
  BY <1>3, <1>6, <1>7, <1>9 DEF SentBefore, Before
\* It had not moved all it should before the step either.
<1>11. Unsent(b) /\ u \in Nat /\ t <= u
  <2>1. CASE buf'[b] = buf[b]
    BY <1>3, <1>4, <1>10, <2>1 DEF Unsent, Aborted
  <2>2. CASE EndsAt(b, 0) \/ EndsAt(b, n)
    <3>1. buf[b].Status = "PENDING" /\ (u = 0 \/ u = n)
      BY <1>3, <2>2 DEF EndsAt, Pends
    <3>2. t = 0
      BY <1>1, <1>3, <3>1 DEF TransferInv
    <3> QED BY <3>1, <3>2 DEF Unsent
  <2> QED BY <1>5, <2>1, <2>2
<1>12. Before(v, f + t)
  BY <1>3, <1>7, <1>11 DEF AllBefore, SentBefore
<1>13. CASE p \in ToSet(device)
  <2>1. Before(v, f + u)
    BY <1>1, <1>4, <1>8, <1>11, <1>12, BeforeUp
  <2> QED BY <1>13, <2>1 DEF Before
<1>14. CASE p = <<0, 0>>
  BY <1>8, <1>14, WritesAre
<1>15. ASSUME NEW k \in 1 .. n, p = <<buf[h].CallingIrp, buf[h].First + k>>,
              Served(h), ~dev.halted, n # 0
       PROVE  p[1] < v \/ (p[1] = v /\ p[2] <= f + u)
  <2>1. CASE b = h
    <3>1. u = n
      <4>1. buf'[h].Status # buf[h].Status
        BY DEF PipeMoves, EndsAt, Pends, Finished
      <4> QED BY <1>3, <1>5, <2>1, <4>1 DEF EndsAt
    <3>2. p[1] = v /\ p[2] = f + k
      BY <1>3, <1>15, <2>1
    <3> QED BY <1>4, <3>1, <3>2
  <2>2. CASE b # h
    <3>1. buf[h].CallingIrp < v
      BY <1>3, <1>5, <1>7, <1>11, <1>15, <2>2, MovedBeforeOthers
    <3>2. p[1] = buf[h].CallingIrp
      BY <1>15
    <3> QED BY <3>1, <3>2
  <2> QED BY <2>1, <2>2
<1> QED BY <1>1, <1>5, <1>13, <1>14, <1>15, BringsIs

LEMMA StepBefore ==
    ASSUME CoreInv, StuckInv, ZeroInv, SeenInv, PendRises, BeforeInv, [Next]_vars
    PROVE  BeforeInv'
<1>1. SUFFICES ASSUME Orderly' PROVE AllBefore'
  BY DEF BeforeInv
<1>2. Orderly /\ AllBefore /\ TypeInv /\ BufferInv /\ TransferInv
  BY <1>1, OrderlyFalls DEF BeforeInv, CoreInv, PipeInv
<1>3. CASE ~PipeStep
  BY <1>1, <1>2, <1>3, RestWaitsBefore, RestSentBefore DEF AllBefore
<1>4. CASE PipeStep
  <2>1. Still /\ irp' = irp /\ TypeInv'
    BY <1>4, StepCore, PipeStepStill DEF CoreInv, PipeInv
  <2>2. Out' = Out
    BY <1>2, <2>1, OutStays
  <2>3. CASE UNCHANGED <<buf, device>>
    <3>1. \A w : Waits(w)' => Waits(w)
      BY <2>1 DEF Still, HandSame, Waits, InHand, Returned, Records
    <3>2. \A w \in Writes : WaitsBefore(w)'
      BY <1>2, <2>1, <2>3, <3>1 DEF AllBefore, WaitsBefore, Before
    <3>3. \A b \in Out : SentBefore(b)'
      BY <1>2, <2>1, <2>3 DEF AllBefore, SentBefore, Before, Unsent, Aborted
    <3> QED BY <2>2, <3>2, <3>3 DEF AllBefore
  <2>4. ASSUME NEW h \in Buffers, NEW n \in Nat, PipeMoves(h, n)
        PROVE  AllBefore'
    <3>1. \A w \in Writes : WaitsBefore(w)'
      BY <1>2, <1>4, <2>4, PipeWaitsBefore
    <3>2. \A b \in Out : SentBefore(b)'
      BY <1>2, <1>4, <2>4, PipeSentBefore
    <3> QED BY <2>2, <3>1, <3>2 DEF AllBefore
  <2> QED BY <1>2, <1>4, <2>3, <2>4, PipeStepMoves
<1> QED BY <1>3, <1>4

-----------------------------------------------------------------------------
(***************************************************************************)
(* The order of the packets: the device has them in order.                 *)
(***************************************************************************)
Ordered ==
    faults \cap Disorders = {} =>
       \A i, j \in DOMAIN device :
          i < j /\ device[i][1] # 0 /\ device[j][1] # 0 => Follows(device[i], device[j])

\* What a transfer moves continues what the device has.
LEMMA ReceivedOrdered ==
    ASSUME CoreInv, AllBefore, Ordered, Orderly, NEW h \in Buffers, NEW n \in Nat,
           Pends(h), buf[h].CallingIrp # 0, Received(h, n)
    PROVE  Ordered'
<1>1. TypeInv /\ TransferInv
  BY DEF CoreInv, PipeInv
<1>2. h \in Out
  BY PendsIsOut
<1>3. PICK v, f : v = buf[h].CallingIrp /\ f = buf[h].First
  OBVIOUS
<1>4. v \in Sent /\ v \in Nat /\ f \in Nat
  <2>1. buf[h] \in TransferBuffer
    BY <1>1, TypeParts
  <2> QED BY <1>3, <2>1, WritesAre DEF TransferBuffer, Sent
<1>5. Before(v, f)
  <2>1. buf[h].Transferred = 0 /\ Unsent(h)
    BY <1>1, <1>2 DEF TransferInv, Pends, Unsent
  <2>2. Before(v, f + 0)
    BY <1>2, <1>3, <2>1 DEF AllBefore, SentBefore
  <2> QED BY <1>4, <2>2
<1>6. device \in Seq(Sent \X Nat) /\ DOMAIN device = 1 .. Len(device) /\ Len(device) \in Nat
  BY <1>1, TypeParts
<1>7. \A i \in 1 .. Len(device) :
         device[i][1] \in Nat /\ device[i][2] \in Nat
           /\ (device[i][1] < v \/ (device[i][1] = v /\ device[i][2] <= f))
  <2> SUFFICES ASSUME NEW i \in 1 .. Len(device)
               PROVE  device[i][1] \in Nat /\ device[i][2] \in Nat
                        /\ (device[i][1] < v \/ (device[i][1] = v /\ device[i][2] <= f))
    OBVIOUS
  <2>1. device[i] \in ToSet(device)
    BY <1>6, Elements
  <2> QED BY <1>1, <1>5, <2>1, SeenAre DEF Before
<1> DEFINE s == [k \in 1 .. n |-> <<v, f + k>>]
<1>8. s \in Seq(Sent \X Nat) /\ Len(s) = n /\ device' = device \o s
  BY <1>3, <1>4 DEF Received
<1>9. \A k \in 1 .. n : s[k] = <<v, f + k>>
  OBVIOUS
<1> HIDE DEF s
<1>10. /\ device' \in Seq(Sent \X Nat) /\ DOMAIN device' = 1 .. Len(device) + n
       /\ \A i \in 1 .. Len(device) : device'[i] = device[i]
       /\ \A k \in 1 .. n : device'[Len(device) + k] = <<v, f + k>>
  BY <1>6, <1>8, <1>9, ConcatIs
<1>11. SUFFICES ASSUME faults \cap Disorders = {}, NEW i \in 1 .. Len(device) + n,
                       NEW j \in 1 .. Len(device) + n, i < j,
                       device'[i][1] # 0, device'[j][1] # 0
                PROVE  Follows(device'[i], device'[j])
  BY <1>10 DEF Ordered, Orderly
<1>12. CASE j <= Len(device)
  <2>1. i \in DOMAIN device /\ j \in DOMAIN device
    BY <1>6, <1>11, <1>12
  <2> QED BY <1>6, <1>10, <1>11, <2>1 DEF Ordered
<1>13. CASE j > Len(device)
  <2>1. PICK m \in 1 .. n : j = Len(device) + m
    <3>1. j - Len(device) \in 1 .. n /\ j = Len(device) + (j - Len(device))
      BY <1>6, <1>13
    <3> QED BY <3>1
  <2>2. device'[j][1] = v /\ device'[j][2] = f + m
    BY <1>10, <2>1
  <2>3. CASE i <= Len(device)
    <3>1. i \in 1 .. Len(device)
      BY <1>6, <2>3
    <3>2. device'[i] = device[i]
      BY <1>10, <3>1
    <3>3. device[i][2] \in Nat /\ (device[i][1] < v \/ (device[i][1] = v /\ device[i][2] <= f))
      BY <1>7, <3>1
    <3>4. device[i][1] < v \/ (device[i][1] = v /\ device[i][2] < f + m)
      BY ONLY <1>4, <2>1, <3>3
    <3> QED BY <2>2, <3>2, <3>4 DEF Follows
  <2>4. CASE i > Len(device)
    <3>1. PICK k \in 1 .. n : i = Len(device) + k
      <4>1. i - Len(device) \in 1 .. n /\ i = Len(device) + (i - Len(device))
        BY <1>6, <2>4
      <4> QED BY <4>1
    <3>2. device'[i][1] = v /\ device'[i][2] = f + k
      BY <1>10, <3>1
    <3>4. k < m
      BY <1>6, <1>11, <2>1, <3>1
    <3>3. f + k < f + m
      BY <1>4, <3>4
    <3> QED BY <2>2, <3>2, <3>3 DEF Follows
  <2> QED BY <1>6, <2>3, <2>4
<1> QED BY <1>6, <1>12, <1>13

LEMMA ZeroOrdered ==
    ASSUME TypeInv, Ordered, faults \subseteq faults', device' = Append(device, <<0, 0>>)
    PROVE  Ordered'
<1>1. device \in Seq(Sent \X Nat) /\ DOMAIN device = 1 .. Len(device) /\ Len(device) \in Nat
  BY TypeParts
<1>2. PICK x : x = <<0, 0>> /\ x[1] = 0
  <2>1. <<0, 0>>[1] = 0
    OBVIOUS
  <2> QED BY <2>1
<1>3. /\ DOMAIN device' = 1 .. Len(device) + 1
      /\ \A i \in 1 .. Len(device) : device'[i] = device[i]
      /\ device'[Len(device) + 1] = x
  <2>1. device' = Append(device, x)
    BY <1>2
  <2> QED BY ONLY <1>1, <2>1
<1>4. SUFFICES ASSUME faults' \cap Disorders = {}, NEW i \in 1 .. Len(device) + 1,
                      NEW j \in 1 .. Len(device) + 1, i < j,
                      device'[i][1] # 0, device'[j][1] # 0
               PROVE  Follows(device'[i], device'[j])
  BY <1>3 DEF Ordered
<1>5. i # Len(device) + 1 /\ j # Len(device) + 1
  BY <1>2, <1>3, <1>4
<1>6. i \in DOMAIN device /\ j \in DOMAIN device /\ faults \cap Disorders = {}
  BY <1>1, <1>4, <1>5
<1>7. device'[i] = device[i] /\ device'[j] = device[j]
  BY <1>1, <1>3, <1>6
<1> QED BY <1>4, <1>6, <1>7 DEF Ordered

LEMMA StepOrdered ==
    ASSUME CoreInv, ZeroInv, BeforeInv, Ordered, [Next]_vars
    PROVE  Ordered'
<1>1. faults \subseteq faults' /\ TypeInv /\ TransferInv
  BY FaultsGrow DEF CoreInv, PipeInv
<1>2. ASSUME device' = device PROVE Ordered'
  BY <1>1, <1>2 DEF Ordered
<1>3. ASSUME PipeStep, NEW h \in Buffers, NEW n \in Nat, PipeMoves(h, n)
      PROVE  Ordered'
  <2>1. Brings(h, n) /\ Pends(h)
    BY <1>3 DEF PipeMoves, EndsAt
  <2>2. CASE device' = Append(device, <<0, 0>>)
    BY <1>1, <2>2, ZeroOrdered
  <2>3. CASE buf[h].CallingIrp # 0 /\ dev.present /\ Received(h, n)
    <3>1. CASE faults \cap Disorders = {}
      <4>1. Defined
        BY <1>3 DEF PipeStep, BusData, BusError, BusCancelled, BusStep, FlowOffAbort,
                    PurgeAbort, ThreadStep, OtherStep
      <4>2. Orderly
        BY <2>3, <3>1, <4>1 DEF Orderly
      <4>3. AllBefore
        BY <4>2 DEF BeforeInv
      <4> QED BY <1>3, <2>1, <2>3, <4>2, <4>3, ReceivedOrdered
    <3>2. CASE faults \cap Disorders # {}
      BY <1>1, <3>2 DEF Ordered
    <3> QED BY <3>1, <3>2
  <2> QED BY <1>2, <2>1, <2>2, <2>3 DEF Brings
<1> QED BY <1>1, <1>2, <1>3, PipeStepMoves, DeviceSteps

LEMMA OrderedIsOrder ==
    ASSUME TypeInv, SeenInv, Ordered
    PROVE  FlowKeepsOrder
<1>1. SUFFICES ASSUME faults \cap Disorders = {} PROVE InOrder
  BY DEF FlowKeepsOrder
<1> DEFINE S == Sent \X Nat
           T == ToSet(device) \ {<<0, 0>>}
           d == Keep(device, T)
<1>2. device \in Seq(S) /\ DOMAIN device = 1 .. Len(device)
  BY TypeParts
<1>3. DataSent = d
  BY DEF DataSent
<1>4. \A p \in T : p[1] # 0
  BY DEF SeenInv
<1> HIDE DEF S, T
<1>5. PICK f \in [1 .. Len(d) -> 1 .. Len(device)] :
          /\ \A k \in 1 .. Len(d) : d[k] = device[f[k]] /\ device[f[k]] \in T
          /\ \A k, m \in 1 .. Len(d) : k < m => f[k] < f[m]
  BY <1>2, KeepPlaces
<1>6. d \in Seq(S)
  BY <1>2, KeepElements
<1> HIDE DEF d
<1>7. Len(d) \in Nat
  BY <1>6
<1>8. ASSUME NEW k \in 1 .. Len(d) - 1
      PROVE  Follows(d[k], d[k + 1])
  <2>1. k \in 1 .. Len(d) /\ k + 1 \in 1 .. Len(d) /\ k < k + 1
    BY <1>7
  <2>2. /\ f[k] \in DOMAIN device /\ f[k + 1] \in DOMAIN device /\ f[k] < f[k + 1]
        /\ d[k] = device[f[k]] /\ d[k + 1] = device[f[k + 1]]
        /\ device[f[k]] \in T /\ device[f[k + 1]] \in T
    BY <1>2, <1>5, <2>1
  <2> QED BY <1>1, <1>4, <2>2 DEF Ordered
<1> QED BY <1>3, <1>8 DEF InOrder

LEMMA InitOrder ==
    ASSUME Init
    PROVE  StuckInv /\ ZeroInv /\ SeenInv /\ PendRises /\ BeforeInv /\ Ordered
<1>1. PICK spent \in AnySpent : InitWith(spent)
  BY DEF Init
<1>2. /\ buf = [b \in Buffers |-> IdleBuffer] /\ WriteDataQueue = <<>>
      /\ MWritePendingQueue = <<>> /\ MWriteCompletionQueue = <<>>
      /\ Records = <<>> /\ device = <<>>
      /\ wt.pc = "top" /\ wt.mwtState = "WORKING"
  BY <1>1 DEF InitWith, NewThread, Records
<1>3. ToSet(device) = {} /\ ToSet(WriteDataQueue) = {}
        /\ ToSet(MWritePendingQueue) = {} /\ ToSet(MWriteCompletionQueue) = {}
  BY <1>2, ElementsOfNone
<1>4. Out = {} /\ ~Kept /\ \A w : ~Waits(w)
  <2>1. DOMAIN Records = {}
    BY <1>2
  <2> QED BY <1>2, <1>3, <2>1 DEF Out, Kept, Waits, InHand, Sending, Returned
<1>5. StuckInv
  BY <1>2, <1>4 DEF StuckInv, Overtakes
<1>6. ZeroInv
  BY <1>2 DEF ZeroInv, IdleBuffer
<1>7. SeenInv
  BY <1>3 DEF SeenInv
<1>8. PendRises /\ Ordered
  <2>1. DOMAIN MWritePendingQueue = {} /\ DOMAIN device = {}
    BY <1>2
  <2> QED BY <2>1 DEF PendRises, Ordered
<1>9. BeforeInv
  BY <1>4 DEF BeforeInv, AllBefore, WaitsBefore
<1> QED BY <1>5, <1>6, <1>7, <1>8, <1>9

\* The device receives the packets of the writes in the order in which the writes
\* were queued, and none of them twice, however often the flow is turned off and
\* on while transfers are aborted, fail, are kept and sent again: unless a cancel
\* routine completes a write that the thread holds, a count of transferred packets
\* falls behind, a transfer that was cancelled alone is kept, the pipe is reset
\* before another transfer that failed is handled, a purge aborts transfers, or a
\* flow-off finds nothing pending or times out.
THEOREM FlowKeepsTheOrder == Spec => []FlowKeepsOrder
<1> DEFINE I == /\ CoreInv /\ FlowInv /\ BlockedInv /\ AbortInv /\ StuckInv
                /\ ZeroInv /\ SeenInv /\ PendRises /\ BeforeInv /\ Ordered
<1>1. Init => I
  BY InitCore, InitFlow, InitOrder
<1>2. I /\ [Next]_vars => I'
  <2> SUFFICES ASSUME I, [Next]_vars PROVE I'
    OBVIOUS
  <2>1. CoreInv' /\ FlowInv' /\ BlockedInv' /\ AbortInv' /\ StuckInv'
    BY StepCore, StepFlow, StepBlocked, StepAbort, StepStuck
  <2>2. ZeroInv' /\ SeenInv' /\ PendRises'
    BY StepZero, StepSeen, StepPend DEF CoreInv, PipeInv
  <2>3. BeforeInv' /\ Ordered'
    BY StepBefore, StepOrdered
  <2> QED BY <2>1, <2>2, <2>3
<1>3. I => FlowKeepsOrder
  BY OrderedIsOrder DEF CoreInv, PipeInv
<1> HIDE DEF I
<1> QED BY <1>1, <1>2, <1>3, PTL DEF Spec
=============================================================================
