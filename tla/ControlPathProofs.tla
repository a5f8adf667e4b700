------------------------- MODULE ControlPathProofs -------------------------
(***************************************************************************)
(* Proofs about ControlPath: its type, and that what stops or ends the     *)
(* interrupt service finds it quiet, for every number of retries and of    *)
(* control reads and every value of the bounds.                            *)
(***************************************************************************)
EXTENDS ControlPath, SequenceTheorems, TLAPS

-----------------------------------------------------------------------------
(* The inductive invariant *)

\* A response that is being fetched has been announced, or written off since.
CountsOK ==
    /\ EncapsulatedDataQueue \in Nat /\ CtlCompletionQueue \in Nat
    /\ dsp.pc = "fetched" => RspAvailableCount + forgotten > 0

TypeInv == TypeOK /\ CountsOK

StopPcs == {"stopClear", "stopSet", "rspTest", "rspWait", "rspSet", "forget"}
PowerIrps == {"DOWN", "UP"}

\* A queue without power IRPs but perhaps the first IRP; with removals only if
\* there may be.
PowerFirst(queue, mayPower, mayRemove) ==
    \A i \in 1 .. Len(queue) :
        /\ queue[i] \in PowerIrps => i = 1 /\ mayPower
        /\ queue[i] = "REMOVE" => mayRemove

\* There is one power IRP at most, at the head of the queue or in progress; a
\* removal is queued by a halt.
QueueInv ==
    /\ PowerFirst(DispatchQueue, power = "queued" /\ dsp.irp \notin PowerIrps, halt # "no")
    /\ dsp.irp \in PowerIrps => power = "queued"
    /\ dsp.irp # "none" => dsp.pc \in StopPcs \cup {"dispatch", "cancelWait"}

\* From the suspend on nothing is submitted that was not about to be; an answer
\* to a stop says that this has come back too.
Quiet == transfer = "NONE" /\ int.pc # "submit"
Suspending == dsp.irp = "DOWN" /\ dsp.pc \in StopPcs
StopInv ==
    Suspending =>
        /\ dev.PowerSuspended
        /\ StopRsp /\ dsp.pc # "stopClear" => Quiet
        /\ dsp.pc \in {"rspSet", "forget"} => Quiet

\* The interrupt thread is told to end when the control IRPs are gone, and
\* none comes any more.
Ending == int.bCancelled \/ "CANCEL" \in int.set
          \/ int.pc \in {"CANCEL", "exit", "terminated"}
EndInv ==
    /\ int.pc \in {"exit", "terminated"} => transfer = "NONE"
    /\ dsp.irp = "REMOVE" \/ Ending =>
          halt # "no" /\ EncapsulatedDataQueue = 0 /\ CtlCompletionQueue = 0

QuietInv == QueueInv /\ StopInv /\ EndInv

-----------------------------------------------------------------------------
(* Threads and their events *)

LEMMA IntLowest ==
    ASSUME NEW set \in SUBSET IntEvents, set # {}
    PROVE  LowestEvent(set, IntIndex) \in set
<1>1. \E e \in set : \A f \in set : IntIndex[e] <= IntIndex[f]
  <2>1. CASE "COMPLETION" \in set
    BY <2>1 DEF IntIndex, IntEvents
  <2>2. CASE set \subseteq {"CANCEL", "STOP", "RESUME", "EMPTY_CTL"} /\ "CANCEL" \in set
    BY <2>2 DEF IntIndex
  <2>3. CASE set \subseteq {"STOP", "RESUME", "EMPTY_CTL"} /\ "STOP" \in set
    BY <2>3 DEF IntIndex
  <2>4. CASE set \subseteq {"RESUME", "EMPTY_CTL"} /\ "RESUME" \in set
    BY <2>4 DEF IntIndex
  <2>5. CASE set = {"EMPTY_CTL"}
    BY <2>5 DEF IntIndex
  <2> QED BY <2>1, <2>2, <2>3, <2>4, <2>5 DEF IntEvents
<1> QED BY <1>1 DEF LowestEvent

LEMMA DspLowest ==
    ASSUME NEW set \in SUBSET DspEvents, set # {}
    PROVE  LowestEvent(set, DspIndex) \in set
<1>1. \E e \in set : \A f \in set : DspIndex[e] <= DspIndex[f]
  <2>1. CASE "CANCEL" \in set
    BY <2>1 DEF DspIndex, DspEvents
  <2>2. CASE set \subseteq {"START", "READ_CONTROL", "STANDBY", "WAKEUP", "PRE_WAKEUP"}
             /\ "START" \in set
    BY <2>2 DEF DspIndex
  <2>3. CASE set \subseteq {"READ_CONTROL", "STANDBY", "WAKEUP", "PRE_WAKEUP"}
             /\ "READ_CONTROL" \in set
    BY <2>3 DEF DspIndex
  <2>4. CASE set \subseteq {"STANDBY", "WAKEUP", "PRE_WAKEUP"} /\ "STANDBY" \in set
    BY <2>4 DEF DspIndex
  <2>5. CASE set \subseteq {"WAKEUP", "PRE_WAKEUP"} /\ "WAKEUP" \in set
    BY <2>5 DEF DspIndex
  <2>6. CASE set = {"PRE_WAKEUP"}
    BY <2>6 DEF DspIndex
  <2> QED BY <2>1, <2>2, <2>3, <2>4, <2>5, <2>6 DEF DspEvents
<1> QED BY <1>1 DEF LowestEvent

LEMMA SignalInt ==
    ASSUME NEW t \in IntThread, NEW e \in IntEvents
    PROVE  /\ Signal(t, e) \in IntThread
           /\ Signal(t, e).set = t.set \cup {e}
           /\ Signal(t, e).bStopped = t.bStopped
           /\ Signal(t, e).bCancelled = t.bCancelled
           /\ Signal(t, e).pc = IF t.pc = "blocked" THEN e ELSE t.pc
BY DEF Signal, IntThread, IntPcs

LEMMA SignalDsp ==
    ASSUME NEW t \in DspThread, NEW e \in DspEvents
    PROVE  /\ Signal(t, e) \in DspThread
           /\ Signal(t, e).set = t.set \cup {e}
           /\ Signal(t, e).irp = t.irp
           /\ Signal(t, e).pc = IF t.pc = "blocked" THEN e ELSE t.pc
BY DEF Signal, DspThread, DspPcs

LEMMA WaitInt ==
    ASSUME NEW t \in IntThread
    PROVE  LET w == WaitAny(t, IntIndex)
           IN  /\ w \in IntThread /\ w.set = t.set /\ w.bStopped = t.bStopped
               /\ w.bCancelled = t.bCancelled
               /\ w.pc = "blocked" \/ (w.pc \in t.set /\ w.pc \in IntEvents)
BY IntLowest DEF WaitAny, IntThread, IntPcs

LEMMA WaitDsp ==
    ASSUME NEW t \in DspThread
    PROVE  LET w == WaitAny(t, DspIndex)
           IN  /\ w \in DspThread /\ w.set = t.set /\ w.irp = t.irp
               /\ w.pc = "blocked" \/ (w.pc \in t.set /\ w.pc \in DspEvents)
BY DspLowest DEF WaitAny, DspThread, DspPcs

-----------------------------------------------------------------------------
(* The type invariant *)

LEMMA TypeParts ==
    ASSUME TypeInv
    PROVE  /\ int \in IntThread /\ dsp \in DspThread /\ dev \in Flags
           /\ DispatchQueue \in Seq(Irps) /\ left \in AnyBounds
           /\ EncapsulatedDataQueue \in Nat /\ CtlCompletionQueue \in Nat
           /\ RspAvailableCount \in Nat /\ forgotten \in Nat
           /\ device \in [attached : BOOLEAN, outbox : Nat, toAnnounce : Nat]
BY DEF TypeInv, TypeOK, CountsOK

LEMMA IntFields ==
    ASSUME NEW t \in IntThread, NEW pc \in IntPcs, NEW e
    PROVE  Goto(t, pc) \in IntThread /\ Clear(t, e, pc) \in IntThread
BY DEF Goto, Clear, IntThread

LEMMA ErrorCounts ==
    ASSUME NEW n \in 0 .. MaxErrors
    PROVE  /\ 0 \in 0 .. MaxErrors /\ MaxErrors \in 0 .. MaxErrors
           /\ ~(n + 1 >= MaxErrors) => n + 1 \in 0 .. MaxErrors
BY DEF MaxErrors

\* What the steps of the interrupt thread make of its record.
LEMMA IntStepType == ASSUME TypeInv, IntNext PROVE int' \in IntThread
<1>0. /\ int \in IntThread
      /\ int.errCnt \in 0 .. MaxErrors /\ int.errCnt0 \in 0 .. MaxErrors
  BY TypeParts DEF IntThread
<1>1. CASE IntTop \/ IntTimeout \/ IntAnnounce \/ IntAnnounced \/ IntExit
  BY <1>0, <1>1, IntFields
     DEF IntTop, IntTimeout, IntAnnounce, IntAnnounced, IntExit, IntPcs
<1>2. CASE IntSubmit
  <2>1. int' = [int EXCEPT !.pc = "wait", !.errCnt0 = 0]
    BY <1>2 DEF IntSubmit
  <2> QED BY <1>0, <2>1, ErrorCounts DEF IntThread, IntPcs
<1>3. CASE IntRefused
  <2> DEFINE giveUp == int.errCnt0 + 1 >= MaxErrors
  <2>1. int' = [int EXCEPT !.set = @ \cup {"COMPLETION"}, !.pc = "wait",
                           !.bStopped = giveUp,
                           !.errCnt0 = IF giveUp THEN MaxErrors ELSE @ + 1]
    BY <1>0, <1>3 DEF IntRefused, Signal, IntThread
  <2>2. (IF giveUp THEN MaxErrors ELSE int.errCnt0 + 1) \in 0 .. MaxErrors
    BY <1>0, ErrorCounts
  <2>3. giveUp \in BOOLEAN
    OBVIOUS
  <2> HIDE DEF giveUp
  <2> QED BY <1>0, <2>1, <2>2, <2>3 DEF IntThread, IntPcs, IntEvents
<1>4. CASE IntWait
  BY <1>0, <1>4, WaitInt DEF IntWait
<1>5. CASE IntCompletion
  <2>1. CASE \E pc \in {"exit", "top"} : int' = AfterTransfer(pc)
    <3>1. PICK pc \in {"exit", "top"} :
            int' = [int EXCEPT !.set = @ \ {"COMPLETION"}, !.pc = pc,
                               !.bSignalStopState = FALSE]
      BY <1>0, <2>1 DEF AfterTransfer, Clear
    <3> QED BY <1>0, <3>1 DEF IntThread, IntPcs
  <2>2. CASE int' = [AfterTransfer("announce") EXCEPT !.errCnt = 0]
    <3>1. int' = [int EXCEPT !.set = @ \ {"COMPLETION"}, !.pc = "announce",
                             !.bSignalStopState = FALSE, !.errCnt = 0]
      BY <1>0, <2>2 DEF AfterTransfer, Clear
    <3> QED BY <1>0, <3>1, ErrorCounts DEF IntThread, IntPcs
  <2>3. CASE \E giveUp \in BOOLEAN :
               /\ giveUp \/ ~(int.errCnt + 1 >= MaxErrors)
               /\ int' = [AfterTransfer("top") EXCEPT
                            !.errCnt = IF giveUp THEN MaxErrors ELSE @ + 1,
                            !.bStopped = giveUp]
    <3>1. PICK giveUp \in BOOLEAN :
            /\ giveUp \/ ~(int.errCnt + 1 >= MaxErrors)
            /\ int' = [AfterTransfer("top") EXCEPT
                         !.errCnt = IF giveUp THEN MaxErrors ELSE @ + 1,
                         !.bStopped = giveUp]
      BY <2>3
    <3> DEFINE n == IF giveUp THEN MaxErrors ELSE int.errCnt + 1
    <3>2. int' = [int EXCEPT !.set = @ \ {"COMPLETION"}, !.pc = "top",
                             !.bSignalStopState = FALSE, !.errCnt = n, !.bStopped = giveUp]
      BY <1>0, <3>1 DEF AfterTransfer, Clear, IntThread
    <3>3. n \in 0 .. MaxErrors
      BY <1>0, <3>1, ErrorCounts
    <3> HIDE DEF n
    <3> QED BY <1>0, <3>2, <3>3 DEF IntThread, IntPcs
  <2> QED BY <1>5, <2>1, <2>2, <2>3 DEF IntCompletion
<1>6. CASE IntStop
  <2>1. int' = [int EXCEPT !.set = @ \ {"STOP"}, !.pc = "wait", !.bStopped = TRUE,
                           !.bSignalStopState = TRUE]
        \/ int' = [int EXCEPT !.set = @ \ {"STOP"}, !.pc = "top", !.bStopped = TRUE]
    BY <1>0, <1>6 DEF IntStop, Stopped, Clear, Goto
  <2> QED BY <1>0, <2>1, ZenonT(60) DEF IntThread, IntPcs
<1>7. CASE IntResume
  <2>1. int' = [int EXCEPT !.set = @ \ {"RESUME"}, !.pc = "top", !.bStopped = FALSE]
    BY <1>0, <1>7 DEF IntResume, Clear
  <2> QED BY <1>0, <2>1 DEF IntThread, IntPcs
<1>8. CASE IntEmptyCtl
  BY <1>0, <1>8, IntFields DEF IntEmptyCtl, IntPcs
<1>9. CASE IntCancel
  BY <1>0, <1>9 DEF IntCancel, Clear, IntThread, IntPcs
<1> QED BY <1>1, <1>2, <1>3, <1>4, <1>5, <1>6, <1>7, <1>8, <1>9 DEF IntNext

\* What the others make of it.
LEMMA IntOthersType == ASSUME TypeInv, [Next]_vars, ~IntNext PROVE int' \in IntThread
<1>0. int \in IntThread
  BY TypeParts
<1>1. CASE BusNext
  BY <1>0, <1>1, SignalInt
     DEF BusNext, BusResponse, BusError, BusEnds, Complete, IntEvents
<1>2. CASE DspCancel \/ DspSurpriseRemoval \/ DspFetch \/ DspRemove
  BY <1>0, <1>2, SignalInt
     DEF DspCancel, DspSurpriseRemoval, PurgeReads, DspFetch, DspRemove, IntEvents
<1>3. CASE DspStopClear \/ HaltStopClear
  BY <1>0, <1>3 DEF DspStopClear, HaltStopClear, StopClear, IntThread
<1>4. CASE DspStopSet \/ HaltStopSet \/ DspResume
  BY <1>0, <1>4, SignalInt
     DEF DspStopSet, HaltStopSet, DspResume, StopSet, ResumeSet, IntEvents
<1>5. CASE \/ DspReadControlFirst \/ DspIdle \/ DspHold \/ DspDequeue \/ DspExit
           \/ DspWait \/ DspTimeout \/ DspStart \/ DspReadControl \/ DspFetchFailed
           \/ DspFetched \/ DspFetchDone \/ DspStandby \/ DspWakeup \/ DspStopWait
           \/ DspStopped \/ DspForget \/ DspSend \/ DspPowerDown \/ DspPowerUp
           \/ DspQueryRemove \/ DspRemoved
  BY <1>0, <1>5
     DEF DspReadControlFirst, DspIdle, DspHold, DspDequeue, DspExit, DspWait, DspTimeout,
         DspStart, DspReadControl, DspFetchFailed, DspFetched, DspFetchDone, DspStandby,
         DspWakeup, DspStopWait, DspStopped, DspForget, DspSend, DspPowerDown, DspPowerUp,
         DspQueryRemove, DspRemoved, DspAlone
<1>6. CASE DeviceNext \/ PowerNext \/ ClientNext
  BY <1>0, <1>6
     DEF DeviceNext, DeviceResponds, DeviceDetaches, PowerNext, PowerUpDevice, PowerUpResume,
         ClientNext, PostControlRead, SendCommand, NdisPowersDown, NdisPowersUp, Suspend,
         EndSuspend, EndSuspendAsleep, SystemPrepares, SystemWorks, HaltSurprise, PowerSame
<1>7. CASE HaltQueueSurprise \/ HaltQuery \/ HaltRemove \/ HaltCancel \/ HaltDone
  BY <1>0, <1>7
     DEF HaltQueueSurprise, HaltQuery, HaltRemove, HaltSends, HaltCancel, HaltDone
<1>8. CASE UNCHANGED vars
  BY <1>0, <1>8 DEF vars
<1> QED BY <1>1, <1>2, <1>3, <1>4, <1>5, <1>6, <1>7, <1>8 DEF Next, DspNext, HaltNext

LEMMA DspFields ==
    ASSUME NEW t \in DspThread, NEW pc \in DspPcs, NEW e, NEW irp \in Irps \cup {"none"}
    PROVE  /\ Goto(t, pc) \in DspThread /\ Clear(t, e, pc) \in DspThread
           /\ [t EXCEPT !.pc = pc, !.irp = irp] \in DspThread
           /\ [t EXCEPT !.bCancelled = TRUE] \in DspThread
BY DEF Goto, Clear, DspThread

LEMMA QueueIrps ==
    ASSUME NEW q \in Seq(Irps), q # <<>>
    PROVE  /\ Head(q) \in Irps /\ Tail(q) \in Seq(Irps) /\ Rotated(q) \in Seq(Irps)
           /\ Len(Tail(q)) = Len(q) - 1
           /\ \A i \in 1 .. Len(Tail(q)) : Tail(q)[i] = q[i + 1]
           /\ Head(q) = q[1] /\ Len(q) \in Nat /\ Len(q) > 0
BY DEF Rotated

\* The dispatch thread's own steps.
LEMMA DspLoopType ==
    ASSUME TypeInv,
           \/ DspReadControlFirst \/ DspIdle \/ DspHold \/ DspDequeue \/ DspExit
           \/ DspWait \/ DspTimeout \/ DspStart \/ DspCancel
    PROVE  dsp' \in DspThread
<1>0. dsp \in DspThread /\ DispatchQueue \in Seq(Irps)
  BY TypeParts
<1>1. CASE DspReadControlFirst \/ DspIdle \/ DspExit \/ DspTimeout \/ DspStart
  BY <1>0, <1>1, DspFields
     DEF DspReadControlFirst, DspIdle, DspExit, DspTimeout, DspStart, DspPcs, DspEvents
<1>2. CASE DspHold
  <2>1. dsp' = [dsp EXCEPT !.pc = "wait", !.set = dsp.set \cup {"PRE_WAKEUP"}]
        \/ dsp' = [dsp EXCEPT !.pc = "wait", !.set = dsp.set]
    BY <1>2 DEF DspHold
  <2>2. PICK set \in SUBSET DspEvents : dsp' = [dsp EXCEPT !.pc = "wait", !.set = set]
    <3>1. dsp.set \in SUBSET DspEvents /\ dsp.set \cup {"PRE_WAKEUP"} \in SUBSET DspEvents
      BY <1>0 DEF DspThread, DspEvents
    <3> QED BY <2>1, <3>1
  <2> QED BY <1>0, <2>2 DEF DspThread, DspPcs
<1>3. CASE DspDequeue
  <2>1. Head(DispatchQueue) \in Irps
    BY <1>0, <1>3, QueueIrps DEF DspDequeue
  <2> QED BY <1>0, <1>3, <2>1, DspFields DEF DspDequeue, DspPcs
<1>4. CASE DspWait
  BY <1>0, <1>4, WaitDsp DEF DspWait
<1>5. CASE DspCancel
  <2>1. Clear(dsp, "CANCEL", "top") \in DspThread
    BY <1>0, DspFields DEF DspPcs
  <2>2. dsp' = [Clear(dsp, "CANCEL", "top") EXCEPT !.bCancelled = TRUE]
    BY <1>5 DEF DspCancel
  <2> DEFINE t == Clear(dsp, "CANCEL", "top")
  <2>3. t \in DspThread /\ dsp' = [t EXCEPT !.bCancelled = TRUE]
    BY <2>1, <2>2
  <2> HIDE DEF t
  <2>4. "top" \in DspPcs /\ "none" \in Irps \cup {"none"}
    BY DEF DspPcs
  <2> QED BY <2>3, <2>4, DspFields
<1> QED BY <1>1, <1>2, <1>3, <1>4, <1>5

LEMMA DspFetchType ==
    ASSUME TypeInv,
           DspReadControl \/ DspFetch \/ DspFetchFailed \/ DspFetched \/ DspFetchDone
    PROVE  dsp' \in DspThread
<1>0. /\ dsp \in DspThread /\ PrepareRetries \in Nat \ {0} /\ NumOfRetriesOnError \in Nat
      /\ dsp.retries \in 0 .. PrepareRetries - 1 /\ dsp.errCnt \in 0 .. NumOfRetriesOnError
  BY TypeParts, RetriesAssumption DEF DspThread
<1>1. CASE DspReadControl
  <2> DEFINE enough == dsp.retries + 1 >= PrepareRetries
             n == IF enough THEN 0 ELSE dsp.retries + 1
  <2>1. dsp' = [dsp EXCEPT !.set = @ \ {"READ_CONTROL"}, !.pc = "top", !.retries = n]
        \/ dsp' = [dsp EXCEPT !.set = @ \ {"READ_CONTROL"}, !.pc = "fetch"]
    BY <1>0, <1>1 DEF DspReadControl, Clear, Goto, DspThread
  <2>2. n \in 0 .. PrepareRetries - 1
    BY <1>0
  <2> HIDE DEF n
  <2>3. CASE dsp' = [dsp EXCEPT !.set = @ \ {"READ_CONTROL"}, !.pc = "top", !.retries = n]
    BY <1>0, <2>2, <2>3 DEF DspThread, DspPcs
  <2>4. CASE dsp' = [dsp EXCEPT !.set = @ \ {"READ_CONTROL"}, !.pc = "fetch"]
    BY <1>0, <2>4 DEF DspThread, DspPcs
  <2> QED BY <2>1, <2>3, <2>4
<1>2. CASE DspFetch
  <2>1. dsp' = [dsp EXCEPT !.pc = "fetched", !.errCnt = 0]
    BY <1>2 DEF DspFetch
  <2>2. 0 \in 0 .. NumOfRetriesOnError
    BY <1>0
  <2> QED BY <1>0, <2>1, <2>2 DEF DspThread, DspPcs
<1>3. CASE DspFetchFailed
  <2> DEFINE tooMany == dsp.errCnt + 1 > NumOfRetriesOnError
  <2>1. PICK n \in 0 .. NumOfRetriesOnError : dsp' = [dsp EXCEPT !.errCnt = n]
    <3>1. CASE tooMany
      BY <1>0, <1>3, <3>1 DEF DspFetchFailed
    <3>2. CASE ~tooMany
      <4>1. dsp' = [dsp EXCEPT !.errCnt = dsp.errCnt + 1]
        BY <1>3, <3>2 DEF DspFetchFailed
      <4>2. dsp.errCnt + 1 \in 0 .. NumOfRetriesOnError
        BY <1>0, <3>2
      <4> QED BY <4>1, <4>2
    <3> QED BY <3>1, <3>2
  <2> QED BY <1>0, <2>1 DEF DspThread
<1>4. CASE DspFetched \/ DspFetchDone
  BY <1>0, <1>4, DspFields DEF DspFetched, DspFetchDone, DspPcs
<1> QED BY <1>1, <1>2, <1>3, <1>4

LEMMA DspPowerType ==
    ASSUME TypeInv,
           \/ DspStandby \/ DspWakeup \/ DspResume
           \/ DspStopClear \/ DspStopSet \/ DspStopWait \/ DspStopped \/ DspForget
           \/ DspSend \/ DspPowerDown \/ DspPowerUp
           \/ DspSurpriseRemoval \/ DspQueryRemove \/ DspRemove \/ DspRemoved
    PROVE  dsp' \in DspThread
<1>0. dsp \in DspThread
  BY TypeParts
<1>1. {"top", "stopClear", "stopSet", "resume", "forget", "rspTest", "rspSet",
       "rspWait", "cancelWait"} \subseteq DspPcs /\ IrpDone \in DspThread
  BY <1>0, DspFields DEF IrpDone, DspPcs
<1>2. CASE DspStandby \/ DspWakeup
  <2>1. PICK pc \in {"top", "stopClear", "resume"}, e \in {"STANDBY", "WAKEUP"} :
          dsp' = Clear(dsp, e, pc)
    BY <1>2 DEF DspStandby, DspWakeup
  <2> QED BY <1>0, <1>1, <2>1, DspFields
<1>3. CASE DspResume \/ DspStopClear \/ DspStopped \/ DspSurpriseRemoval \/ DspRemove
  BY <1>0, <1>1, <1>3, DspFields
     DEF DspResume, DspStopClear, DspStopped, DspSurpriseRemoval, DspRemove
<1>4. CASE DspStopSet \/ DspStopWait
  <2>1. PICK pc \in {"forget", "rspTest", "rspSet", "rspWait"} : dsp' = Goto(dsp, pc)
    BY <1>4 DEF DspStopSet, DspStopWait
  <2> QED BY <1>0, <1>1, <2>1, DspFields
<1>5. CASE DspForget
  BY <1>0, <1>1, <1>5, DspFields DEF DspForget
<1>6. CASE DspSend \/ DspPowerUp \/ DspQueryRemove \/ DspRemoved
  BY <1>1, <1>6 DEF DspSend, DspPowerUp, DspQueryRemove, DspRemoved
<1>7. CASE DspPowerDown
  <2>1. dsp' = Goto(dsp, "stopClear") \/ dsp' = IrpDone
    BY <1>7 DEF DspPowerDown
  <2> QED BY <1>0, <1>1, <2>1, DspFields
<1> QED BY <1>2, <1>3, <1>4, <1>5, <1>6, <1>7

\* What the others make of its record.
SignalsDsp == \E e \in DspEvents : dsp' = Signal(dsp, e)
AnswersDsp == dsp.pc = "rspWait" /\ dsp' = Goto(dsp, "rspSet")

LEMMA DspOthers ==
    ASSUME TypeInv, [Next]_vars, ~DspNext
    PROVE  dsp' = dsp \/ SignalsDsp \/ AnswersDsp
<1>1. CASE BusNext \/ DeviceNext
  BY <1>1 DEF BusNext, BusResponse, BusError, BusEnds, IntAlone, DeviceNext, DeviceResponds,
     DeviceDetaches
<1>2. CASE IntTop \/ IntSubmit \/ IntRefused \/ IntWait \/ IntTimeout \/ IntAnnounce
           \/ IntResume \/ IntEmptyCtl \/ IntCancel \/ IntExit
  BY <1>2 DEF IntTop, IntSubmit, IntRefused, IntWait, IntTimeout, IntAnnounce, IntResume,
     IntEmptyCtl, IntCancel, IntExit, IntAlone
<1>3. CASE IntCompletion \/ IntStop
  <2>1. dsp' = dsp \/ AnswerStop
    BY <1>3 DEF IntCompletion, IntStop
  <2> QED BY <2>1 DEF AnswerStop, AnswersDsp
<1>4. CASE IntAnnounced \/ HaltCancel
  BY <1>4 DEF IntAnnounced, HaltCancel, SignalsDsp, DspEvents
<1>5. CASE PowerNext \/ ClientNext
  BY <1>5
     DEF PowerNext, PowerUpDevice, PowerUpResume, ClientNext, PostControlRead, SendCommand,
         NdisPowersDown, NdisPowersUp, Suspend, EndSuspend, EndSuspendAsleep, SystemPrepares,
         SystemWorks, HaltSurprise, SetStandby, SetWakeup, Enqueue, EnqueuePower,
         SignalsDsp, DspEvents
<1>6. CASE HaltStopClear \/ HaltStopSet \/ HaltQueueSurprise \/ HaltQuery \/ HaltRemove
           \/ HaltDone
  BY <1>6 DEF HaltStopClear, HaltStopSet, HaltQueueSurprise, HaltQuery, HaltRemove,
     HaltSends, Enqueue, HaltDone, SignalsDsp, DspEvents
<1>7. CASE UNCHANGED vars
  BY <1>7 DEF vars
<1> QED BY <1>1, <1>2, <1>3, <1>4, <1>5, <1>6, <1>7 DEF Next, IntNext, HaltNext

LEMMA DspType == ASSUME TypeInv, [Next]_vars PROVE dsp' \in DspThread
<1>0. dsp \in DspThread
  BY TypeParts
<1>1. CASE DspNext
  BY <1>1, DspLoopType, DspFetchType, DspPowerType DEF DspNext
<1>2. CASE ~DspNext
  <2>1. CASE SignalsDsp
    BY <1>0, <2>1, SignalDsp DEF SignalsDsp
  <2>2. CASE AnswersDsp
    BY <1>0, <2>2, DspFields DEF AnswersDsp, DspPcs
  <2> QED BY <1>0, <1>2, <2>1, <2>2, DspOthers
<1> QED BY <1>1, <1>2

(***************************************************************************)
(* Steps of the service, and steps of the dispatch thread that move only   *)
(* itself.                                                                 *)
(***************************************************************************)
ServiceStep == IntNext \/ BusNext \/ DeviceNext
LoopStep == \/ DspReadControlFirst \/ DspIdle \/ DspExit \/ DspWait \/ DspTimeout
            \/ DspStart \/ DspFetchDone \/ DspSend \/ UNCHANGED vars

LEMMA ServiceFrame ==
    ASSUME ServiceStep
    PROVE  /\ dev' = dev /\ DispatchQueue' = DispatchQueue
           /\ EncapsulatedDataQueue' = EncapsulatedDataQueue
           /\ power' = power /\ asked' = asked /\ halt' = halt /\ overtaken' = overtaken
<1>1. IntSame
  <2>1. CASE IntNext
    BY <2>1
       DEF IntNext, IntTop, IntSubmit, IntRefused, IntWait, IntTimeout, IntCompletion,
           IntAnnounce, IntAnnounced, IntStop, StopKeeps, IntResume, IntEmptyCtl, IntCancel,
           IntExit, IntAlone
  <2>2. CASE BusNext \/ DeviceNext
    BY <2>2 DEF BusNext, BusResponse, BusError, BusEnds, DeviceNext, DeviceResponds,
       DeviceDetaches, IntAlone
  <2> QED BY <2>1, <2>2 DEF ServiceStep
<1> QED BY <1>1 DEF IntSame, ctlQueues, hostState

LEMMA LoopFrame ==
    ASSUME LoopStep
    PROVE  /\ int' = int /\ transfer' = transfer /\ dev' = dev /\ StopRsp' = StopRsp
           /\ RspAvailableCount' = RspAvailableCount /\ forgotten' = forgotten
           /\ DispatchQueue' = DispatchQueue
           /\ EncapsulatedDataQueue' = EncapsulatedDataQueue
           /\ CtlCompletionQueue' = CtlCompletionQueue
           /\ device' = device /\ power' = power /\ asked' = asked /\ halt' = halt
           /\ overtaken' = overtaken /\ left' = left
<1>1. CASE UNCHANGED vars
  BY <1>1 DEF vars, ctlQueues, hostState
<1>2. CASE DspAlone
  BY <1>2 DEF DspAlone, ctlQueues, hostState
<1> QED BY <1>1, <1>2
        DEF LoopStep, DspReadControlFirst, DspIdle, DspExit, DspWait, DspTimeout, DspStart,
            DspFetchDone, DspSend

LEMMA DevType == ASSUME TypeInv, [Next]_vars PROVE dev' \in Flags
<1>0. dev \in Flags
  BY TypeParts
<1>1. CASE ServiceStep \/ LoopStep
  BY <1>0, <1>1, ServiceFrame, LoopFrame
<1>2. CASE \/ DspHold \/ DspDequeue \/ DspCancel \/ DspReadControl \/ DspFetch \/ DspFetched
           \/ DspResume \/ DspStopClear \/ DspStopSet \/ DspStopWait \/ DspStopped
           \/ DspPowerUp \/ DspRemoved
  BY <1>0, <1>2
     DEF DspHold, DspDequeue, DspCancel, DspReadControl, DspFetch, DspFetched, DspResume,
         DspStopClear, DspStopSet, DspStopWait, DspStopped, StopSame, DspPowerUp, DspRemoved
<1>3. CASE DspStandby \/ DspWakeup
  BY <1>0, <1>3 DEF DspStandby, PowerDown, DspWakeup, Flags
<1>4. CASE DspFetchFailed
  <2>1. dev' = dev \/ dev' = [dev EXCEPT !.PRESENT = @ /\ FALSE]
        \/ dev' = [dev EXCEPT !.PRESENT = @ /\ TRUE]
    BY <1>4 DEF DspFetchFailed
  <2> QED BY <1>0, <2>1 DEF Flags
<1>5. CASE DspForget \/ DspSurpriseRemoval \/ DspQueryRemove \/ DspRemove
  BY <1>0, <1>5 DEF DspForget, DspSurpriseRemoval, DspQueryRemove, DspRemove, Removed, Flags
<1>6. CASE DspPowerDown
  <2>1. \/ dev' = [dev EXCEPT !.PowerSuspended = TRUE, !.bLowPowerMode = TRUE,
                              !.bEncStopped = TRUE]
        \/ \E b, c \in BOOLEAN :
             dev' = [dev EXCEPT !.bEncStopped = b, !.PowerSuspended = c, !.DevicePower = "D3"]
    <3> DEFINE stops == dev.DevicePower = "D0" /\ dev.PRESENT
               b == dev.bEncStopped \/ stops
               c == dev.PowerSuspended \/ dev.DevicePower = "D0"
    <3>1. \/ dev' = [PowerDown EXCEPT !.bEncStopped = TRUE]
          \/ dev' = [dev EXCEPT !.bEncStopped = b, !.PowerSuspended = c, !.DevicePower = "D3"]
      BY <1>6 DEF DspPowerDown
    <3>2. b \in BOOLEAN /\ c \in BOOLEAN
      OBVIOUS
    <3>3. dev' = [PowerDown EXCEPT !.bEncStopped = TRUE]
          => dev' = [dev EXCEPT !.PowerSuspended = TRUE, !.bLowPowerMode = TRUE,
                                !.bEncStopped = TRUE]
      BY <1>0 DEF PowerDown, Flags
    <3> HIDE DEF b, c
    <3> QED BY <3>1, <3>2, <3>3
  <2> QED BY <1>0, <2>1 DEF Flags
<1>7. CASE PowerNext \/ NdisPowersDown \/ NdisPowersUp \/ EndSuspendAsleep
  BY <1>0, <1>7
     DEF PowerNext, PowerUpDevice, PowerUpResume, NdisPowersDown, NdisPowersUp,
         EndSuspendAsleep, SetStandby, SetWakeup, Flags
<1>8. CASE \/ PostControlRead \/ SendCommand \/ Suspend \/ EndSuspend
           \/ SystemPrepares \/ SystemWorks \/ HaltSurprise
  BY <1>0, <1>8
     DEF PostControlRead, SendCommand, Suspend, EndSuspend, SystemPrepares, SystemWorks,
         HaltSurprise, Removed, Flags
<1>9. CASE HaltNext
  BY <1>0, <1>9
     DEF HaltNext, HaltStopClear, HaltStopSet, HaltQueueSurprise, HaltQuery, HaltRemove,
         HaltSends, HaltCancel, HaltDone, Flags
<1> QED BY <1>1, <1>2, <1>3, <1>4, <1>5, <1>6, <1>7, <1>8, <1>9
        DEF Next, ServiceStep, LoopStep, DspNext, ClientNext

LEMMA QueueType == ASSUME TypeInv, [Next]_vars PROVE DispatchQueue' \in Seq(Irps)
<1>0. DispatchQueue \in Seq(Irps)
  BY TypeParts
<1>1. CASE ServiceStep \/ LoopStep
  BY <1>0, <1>1, ServiceFrame, LoopFrame
<1>2. CASE DspHold \/ DspDequeue
  BY <1>0, <1>2, QueueIrps DEF DspHold, DspDequeue
<1>3. CASE \/ DspCancel \/ DspReadControl \/ DspFetch \/ DspFetchFailed \/ DspFetched
           \/ DspStandby \/ DspWakeup \/ DspResume \/ DspStopClear \/ DspStopSet
           \/ DspStopWait \/ DspStopped \/ DspForget
  BY <1>0, <1>3
     DEF DspCancel, DspReadControl, DspFetch, DspFetchFailed, DspFetched, FetchSame,
         DspStandby, DspWakeup, DspResume, StandbySame, DspStopClear, DspStopSet,
         DspStopWait, DspStopped, StopSame, DspForget, ctlQueues
<1>4. CASE \/ DspPowerDown \/ DspPowerUp \/ DspSurpriseRemoval \/ DspQueryRemove
           \/ DspRemove \/ DspRemoved
  BY <1>0, <1>4
     DEF DspPowerDown, DspPowerUp, DspSurpriseRemoval, DspQueryRemove, DspRemove,
         DspRemoved, DispatchSame
<1>5. CASE SendCommand \/ Suspend \/ EndSuspend \/ HaltQueueSurprise \/ HaltQuery \/ HaltRemove
  <2>1. \E irp \in Irps : \/ DispatchQueue' = Append(DispatchQueue, irp)
                          \/ DispatchQueue' = <<irp>> \o DispatchQueue
    BY <1>5 DEF SendCommand, Suspend, EndSuspend, HaltQueueSurprise, HaltQuery, HaltRemove,
       HaltSends, Enqueue, EnqueuePower, Irps
  <2>2. PICK irp \in Irps : \/ DispatchQueue' = Append(DispatchQueue, irp)
                            \/ DispatchQueue' = <<irp>> \o DispatchQueue
    BY <2>1
  <2> DEFINE q == DispatchQueue
             one == <<irp>>
  <2>3. q \in Seq(Irps) /\ one \in Seq(Irps)
    BY <1>0
  <2>4. DispatchQueue' = Append(q, irp) \/ DispatchQueue' = one \o q
    BY <2>2
  <2>5. Append(q, irp) \in Seq(Irps)
    BY <2>3
  <2>6. one \o q \in Seq(Irps)
    BY <2>3, ConcatProperties
  <2> QED BY <2>4, <2>5, <2>6
<1>6. CASE \/ PowerNext \/ PostControlRead \/ NdisPowersDown \/ NdisPowersUp
           \/ EndSuspendAsleep \/ SystemPrepares \/ SystemWorks \/ HaltSurprise
  BY <1>0, <1>6
     DEF PowerNext, PowerUpDevice, PowerUpResume, PostControlRead, NdisPowersDown,
         NdisPowersUp, EndSuspendAsleep, SystemPrepares, SystemWorks, HaltSurprise
<1>7. CASE HaltStopClear \/ HaltStopSet \/ HaltCancel \/ HaltDone
  BY <1>0, <1>7 DEF HaltStopClear, HaltStopSet, HaltCancel, HaltDone
<1> QED BY <1>1, <1>2, <1>3, <1>4, <1>5, <1>6, <1>7
        DEF Next, ServiceStep, LoopStep, DspNext, ClientNext, HaltNext

\* What the dispatch thread's steps make of its place and its IRP.
LEMMA DspPlaces ==
    ASSUME TypeInv
    PROVE  /\ DspReadControlFirst => dsp'.pc = "READ_CONTROL" /\ dsp'.irp = dsp.irp
           /\ DspIdle \/ DspHold => dsp'.pc = "wait" /\ dsp'.irp = dsp.irp
           /\ DspDequeue => dsp'.pc = "dispatch" /\ dsp'.irp = Head(DispatchQueue)
           /\ DspExit => dsp'.pc = "terminated" /\ dsp'.irp = dsp.irp
           /\ DspWait => dsp'.pc \in DspEvents \cup {"blocked"} /\ dsp'.irp = dsp.irp
           /\ DspTimeout \/ DspStart \/ DspCancel \/ DspFetchDone \/ DspResume
                 => dsp'.pc = "top" /\ dsp'.irp = dsp.irp
           /\ DspReadControl => dsp'.pc \in {"top", "fetch"} /\ dsp'.irp = dsp.irp
           /\ DspFetch => dsp'.pc = "fetched" /\ dsp'.irp = dsp.irp
           /\ DspFetched \/ DspFetchFailed => dsp'.pc = "fetch" /\ dsp'.irp = dsp.irp
           /\ DspStandby => dsp'.pc \in {"top", "stopClear"} /\ dsp'.irp = dsp.irp
           /\ DspWakeup => dsp'.pc \in {"top", "resume"} /\ dsp'.irp = dsp.irp
           /\ DspStopClear => dsp'.pc = "stopSet" /\ dsp'.irp = dsp.irp
           /\ DspStopSet =>
                 /\ dsp'.pc = IF dsp.irp = "none" THEN "forget" ELSE "rspTest"
                 /\ dsp'.irp = dsp.irp
           /\ DspStopWait =>
                 /\ dsp'.pc = IF StopRsp THEN "rspSet" ELSE "rspWait"
                 /\ dsp'.irp = dsp.irp
           /\ DspStopped => dsp'.pc = "forget" /\ dsp'.irp = dsp.irp
           /\ DspForget \/ DspSend \/ DspPowerUp \/ DspQueryRemove \/ DspRemoved
                 => dsp'.pc = "top" /\ dsp'.irp = "none"
           /\ DspSurpriseRemoval => dsp'.pc = "stopClear" /\ dsp'.irp = dsp.irp
           /\ DspRemove => dsp'.pc = "cancelWait" /\ dsp'.irp = dsp.irp
<1>0. dsp \in DspThread
  BY TypeParts
<1>1. /\ \A pc : Goto(dsp, pc).pc = pc /\ Goto(dsp, pc).irp = dsp.irp
      /\ \A e, pc : Clear(dsp, e, pc).pc = pc /\ Clear(dsp, e, pc).irp = dsp.irp
      /\ IrpDone.pc = "top" /\ IrpDone.irp = "none"
  BY <1>0 DEF Goto, Clear, IrpDone, DspThread
<1>2. /\ DspReadControlFirst => dsp'.pc = "READ_CONTROL" /\ dsp'.irp = dsp.irp
      /\ DspIdle => dsp'.pc = "wait" /\ dsp'.irp = dsp.irp
      /\ DspExit => dsp'.pc = "terminated" /\ dsp'.irp = dsp.irp
      /\ DspTimeout \/ DspStart \/ DspFetchDone \/ DspResume
            => dsp'.pc = "top" /\ dsp'.irp = dsp.irp
      /\ DspFetched => dsp'.pc = "fetch" /\ dsp'.irp = dsp.irp
  BY <1>1 DEF DspReadControlFirst, DspIdle, DspExit, DspTimeout, DspStart, DspFetchDone,
     DspResume, DspFetched
<1>3. /\ DspHold => dsp'.pc = "wait" /\ dsp'.irp = dsp.irp
      /\ DspDequeue => dsp'.pc = "dispatch" /\ dsp'.irp = Head(DispatchQueue)
      /\ DspFetch => dsp'.pc = "fetched" /\ dsp'.irp = dsp.irp
  BY <1>0 DEF DspHold, DspDequeue, DspFetch, DspThread
<1>4. DspWait => dsp'.pc \in DspEvents \cup {"blocked"} /\ dsp'.irp = dsp.irp
  BY <1>0, WaitDsp DEF DspWait
<1>5. DspCancel => dsp'.pc = "top" /\ dsp'.irp = dsp.irp
  <2> DEFINE t == Clear(dsp, "CANCEL", "top")
  <2>1. t \in DspThread /\ t.pc = "top" /\ t.irp = dsp.irp
    <3>1. "top" \in DspPcs /\ "none" \in Irps \cup {"none"}
      BY DEF DspPcs
    <3>2. t \in DspThread
      BY <1>0, <3>1, DspFields
    <3> QED BY <1>1, <3>2
  <2>2. DspCancel => dsp' = [t EXCEPT !.bCancelled = TRUE]
    BY DEF DspCancel
  <2> HIDE DEF t
  <2> QED BY <2>1, <2>2 DEF DspThread
<1>6. DspReadControl => dsp'.pc \in {"top", "fetch"} /\ dsp'.irp = dsp.irp
  <2> DEFINE t == Clear(dsp, "READ_CONTROL", "top")
  <2>1. t \in DspThread /\ t.pc = "top" /\ t.irp = dsp.irp
    <3>1. "top" \in DspPcs /\ "none" \in Irps \cup {"none"}
      BY DEF DspPcs
    <3>2. t \in DspThread
      BY <1>0, <3>1, DspFields
    <3> QED BY <1>1, <3>2
  <2>2. DspReadControl => \/ \E n : dsp' = [t EXCEPT !.retries = n]
                          \/ dsp' = Goto(t, "fetch")
    BY DEF DspReadControl
  <2> HIDE DEF t
  <2> QED BY <2>1, <2>2 DEF DspThread, Goto
<1>7. DspFetchFailed => dsp'.pc = "fetch" /\ dsp'.irp = dsp.irp
  <2>1. DspFetchFailed => dsp.pc = "fetch" /\ \E n : dsp' = [dsp EXCEPT !.errCnt = n]
    BY DEF DspFetchFailed
  <2> QED BY <1>0, <2>1 DEF DspThread
<1>8. /\ DspStandby => dsp'.pc \in {"top", "stopClear"} /\ dsp'.irp = dsp.irp
      /\ DspWakeup => dsp'.pc \in {"top", "resume"} /\ dsp'.irp = dsp.irp
      /\ DspStopClear => dsp'.pc = "stopSet" /\ dsp'.irp = dsp.irp
      /\ DspStopped => dsp'.pc = "forget" /\ dsp'.irp = dsp.irp
  BY <1>1 DEF DspStandby, DspWakeup, DspStopClear, DspStopped
<1>9. /\ DspStopSet =>
            /\ dsp'.pc = IF dsp.irp = "none" THEN "forget" ELSE "rspTest"
            /\ dsp'.irp = dsp.irp
      /\ DspStopWait =>
            /\ dsp'.pc = IF StopRsp THEN "rspSet" ELSE "rspWait"
            /\ dsp'.irp = dsp.irp
  BY <1>1 DEF DspStopSet, DspStopWait
<1>10. DspForget => dsp'.pc = "top" /\ dsp'.irp = "none"
  BY <1>0 DEF DspForget, DspThread
<1>11. /\ DspSend \/ DspPowerUp \/ DspQueryRemove \/ DspRemoved
             => dsp'.pc = "top" /\ dsp'.irp = "none"
       /\ DspSurpriseRemoval => dsp'.pc = "stopClear" /\ dsp'.irp = dsp.irp
       /\ DspRemove => dsp'.pc = "cancelWait" /\ dsp'.irp = dsp.irp
  BY <1>1 DEF DspSend, DspPowerUp, DspQueryRemove, DspRemoved, DspSurpriseRemoval, DspRemove
<1> QED
  <2>1. /\ DspIdle \/ DspHold => dsp'.pc = "wait" /\ dsp'.irp = dsp.irp
        /\ DspTimeout \/ DspStart \/ DspCancel \/ DspFetchDone \/ DspResume
              => dsp'.pc = "top" /\ dsp'.irp = dsp.irp
        /\ DspFetched \/ DspFetchFailed => dsp'.pc = "fetch" /\ dsp'.irp = dsp.irp
        /\ DspForget \/ DspSend \/ DspPowerUp \/ DspQueryRemove \/ DspRemoved
              => dsp'.pc = "top" /\ dsp'.irp = "none"
    BY <1>2, <1>3, <1>5, <1>7, <1>10, <1>11
  <2> QED BY <2>1, <1>2, <1>3, <1>4, <1>6, <1>8, <1>9, <1>11

\* A power-down of the device that is needed first stops the service.
LEMMA PowerDownPlace ==
    ASSUME TypeInv, DspPowerDown
    PROVE  \/ /\ dsp'.pc = "stopClear" /\ dsp'.irp = dsp.irp
              /\ dev'.PowerSuspended /\ power' = power
           \/ dsp'.pc = "top" /\ dsp'.irp = "none" /\ power' = "idle"
<1>0. dsp \in DspThread /\ dev \in Flags
  BY TypeParts
<1> DEFINE stops == dev.DevicePower = "D0" /\ dev.PRESENT
<1>1. CASE stops /\ ~dev.bLowPowerMode
  <2>1. /\ dsp' = Goto(dsp, "stopClear") /\ power' = power
        /\ dev' = [PowerDown EXCEPT !.bEncStopped = TRUE]
    BY <1>1 DEF DspPowerDown
  <2> QED BY <1>0, <2>1 DEF Goto, PowerDown, DspThread, Flags
<1>2. CASE ~(stops /\ ~dev.bLowPowerMode)
  <2>1. dsp' = IrpDone /\ power' = "idle"
    BY <1>2 DEF DspPowerDown
  <2> QED BY <1>0, <2>1 DEF IrpDone, DspThread
<1> QED BY <1>1, <1>2

LEMMA FetchedOnly == ASSUME TypeInv, DspNext, ~DspFetch PROVE dsp'.pc # "fetched"
<1>1. CASE DspPowerDown
  BY <1>1, PowerDownPlace
<1>2. CASE DspStopSet \/ DspStopWait
  BY <1>2, DspPlaces
<1>3. CASE DspWait
  BY <1>3, DspPlaces DEF DspEvents
<1> QED BY <1>1, <1>2, <1>3, DspPlaces DEF DspNext

\* What a step makes of the counts of control reads.
ReadsSame == /\ EncapsulatedDataQueue' = EncapsulatedDataQueue
             /\ CtlCompletionQueue' \in {CtlCompletionQueue, 0}
ReadsPurged == /\ EncapsulatedDataQueue' = 0
               /\ CtlCompletionQueue' = CtlCompletionQueue + EncapsulatedDataQueue
ReadGiven == /\ EncapsulatedDataQueue > 0
             /\ EncapsulatedDataQueue' = EncapsulatedDataQueue - 1
             /\ CtlCompletionQueue' = CtlCompletionQueue + 1
ReadPosted == /\ halt = "no"
              /\ EncapsulatedDataQueue + CtlCompletionQueue < MaxControlReads
              /\ EncapsulatedDataQueue' = EncapsulatedDataQueue + 1
              /\ CtlCompletionQueue' = CtlCompletionQueue

LEMMA ReadsStep ==
    ASSUME [Next]_vars
    PROVE  ReadsSame \/ ReadsPurged \/ ReadGiven \/ ReadPosted
<1> USE DEF ReadsSame, ReadsPurged, ReadGiven, ReadPosted
<1>1. CASE ServiceStep
  <2>1. CtlCompletionQueue' = CtlCompletionQueue \/ CtlCompletionQueue' = 0
    <3>1. CASE IntNext
      BY <3>1
         DEF IntNext, IntTop, IntSubmit, IntRefused, IntWait, IntTimeout, IntCompletion,
             IntAnnounce, IntAnnounced, IntStop, StopKeeps, IntResume, IntEmptyCtl,
             IntCancel, IntExit, IntAlone
    <3>2. CASE BusNext \/ DeviceNext
      BY <3>2 DEF BusNext, BusResponse, BusError, BusEnds, DeviceNext, DeviceResponds,
         DeviceDetaches, IntAlone
    <3> QED BY <1>1, <3>1, <3>2 DEF ServiceStep
  <2> QED BY <1>1, <2>1, ServiceFrame
<1>2. CASE LoopStep
  BY <1>2, LoopFrame
<1>3. CASE DspHold \/ DspDequeue
  BY <1>3 DEF DspHold, DspDequeue
<1>4. CASE DspCancel \/ DspSurpriseRemoval
  BY <1>4 DEF DspCancel, DspSurpriseRemoval, PurgeReads
<1>5. CASE DspFetch
  BY <1>5 DEF DspFetch
<1>6. CASE \/ DspReadControl \/ DspFetchFailed \/ DspFetched
           \/ DspStandby \/ DspWakeup \/ DspResume \/ DspStopClear \/ DspStopSet
           \/ DspStopWait \/ DspStopped \/ DspForget
  BY <1>6
     DEF DspReadControl, DspFetchFailed, DspFetched, DspStandby, DspWakeup, DspResume,
         StandbySame, DspStopClear, DspStopSet, DspStopWait, DspStopped, StopSame,
         DspForget, ctlQueues
<1>7. CASE DspPowerDown \/ DspPowerUp \/ DspQueryRemove \/ DspRemove \/ DspRemoved
  BY <1>7 DEF DspPowerDown, DspPowerUp, DspQueryRemove, DspRemove, DspRemoved
<1>8. CASE PostControlRead
  BY <1>8 DEF PostControlRead, HostSame
<1>9. CASE \/ PowerNext \/ SendCommand \/ NdisPowersDown \/ NdisPowersUp \/ Suspend
           \/ EndSuspend \/ EndSuspendAsleep \/ SystemPrepares \/ SystemWorks
  BY <1>9
     DEF PowerNext, PowerUpDevice, PowerUpResume, SendCommand, NdisPowersDown, NdisPowersUp,
         Suspend, EndSuspend, EndSuspendAsleep, SystemPrepares, SystemWorks, PowerSame,
         HostSame
<1>10. CASE HaltSurprise \/ HaltNext
  BY <1>10
     DEF HaltSurprise, HaltNext, HaltStopClear, HaltStopSet, HaltQueueSurprise, HaltQuery,
         HaltRemove, HaltSends, HaltCancel, HaltDone, HaltSame, HostSame
<1> QED BY <1>1, <1>2, <1>3, <1>4, <1>5, <1>6, <1>7, <1>8, <1>9, <1>10
        DEF Next, ServiceStep, LoopStep, DspNext, ClientNext

LEMMA ReadsType ==
    ASSUME TypeInv, [Next]_vars
    PROVE  /\ EncapsulatedDataQueue' \in Nat /\ CtlCompletionQueue' \in Nat
           /\ EncapsulatedDataQueue' + CtlCompletionQueue' <= MaxControlReads
<1>1. /\ EncapsulatedDataQueue \in Nat /\ CtlCompletionQueue \in Nat
      /\ EncapsulatedDataQueue + CtlCompletionQueue <= MaxControlReads
      /\ MaxControlReads \in Nat
  BY TypeParts, ReadsAssumption DEF TypeInv, TypeOK
<1> QED BY <1>1, ReadsStep DEF ReadsSame, ReadsPurged, ReadGiven, ReadPosted

\* The responses that are announced or written off.
Forgets == RspAvailableCount' = 0 /\ forgotten' = forgotten + RspAvailableCount
CountSame == RspAvailableCount' = RspAvailableCount /\ forgotten' = forgotten
CountMore == \/ RspAvailableCount' = RspAvailableCount + 1 /\ forgotten' = forgotten
             \/ RspAvailableCount' = RspAvailableCount /\ forgotten' = forgotten + 1

LEMMA CountStep ==
    ASSUME [Next]_vars
    PROVE  \/ CountSame \/ CountMore \/ Forgets
           \/ DspFetched
<1> USE DEF CountSame, CountMore, Forgets
<1>1. CASE ServiceStep
  <2>1. CASE IntNext
    BY <2>1
       DEF IntNext, IntTop, IntSubmit, IntRefused, IntWait, IntTimeout, IntCompletion,
           IntAnnounce, IntAnnounced, IntStop, StopKeeps, IntResume, IntEmptyCtl,
           IntCancel, IntExit, IntAlone
  <2>2. CASE BusNext \/ DeviceNext
    BY <2>2 DEF BusNext, BusResponse, BusError, BusEnds, DeviceNext, DeviceResponds,
       DeviceDetaches, IntAlone
  <2> QED BY <1>1, <2>1, <2>2 DEF ServiceStep
<1>2. CASE LoopStep
  BY <1>2, LoopFrame
<1>3. CASE DspHold \/ DspDequeue \/ DspCancel \/ DspFetch
  BY <1>3 DEF DspHold, DspDequeue, DspCancel, DspFetch
<1>4. CASE DspReadControl \/ DspFetchFailed
  BY <1>4 DEF DspReadControl, DspFetchFailed, ForgetResponses
<1>5. CASE \/ DspStandby \/ DspWakeup \/ DspResume \/ DspStopClear \/ DspStopSet
           \/ DspStopWait \/ DspStopped
  BY <1>5
     DEF DspStandby, DspWakeup, DspResume, StandbySame, DspStopClear, DspStopSet,
         DspStopWait, DspStopped, StopSame
<1>6. CASE DspForget \/ DspRemove \/ DspRemoved \/ HaltQueueSurprise
  BY <1>6 DEF DspForget, DspRemove, DspRemoved, HaltQueueSurprise, ForgetResponses
<1>7. CASE DspPowerDown \/ DspPowerUp \/ DspSurpriseRemoval \/ DspQueryRemove
  BY <1>7 DEF DspPowerDown, DspPowerUp, DspSurpriseRemoval, DspQueryRemove
<1>8. CASE PowerNext \/ ClientNext
  BY <1>8
     DEF PowerNext, PowerUpDevice, PowerUpResume, ClientNext, PostControlRead, SendCommand,
         NdisPowersDown, NdisPowersUp, Suspend, EndSuspend, EndSuspendAsleep, SystemPrepares,
         SystemWorks, PowerSame, HaltSurprise
<1>9. CASE HaltStopClear \/ HaltStopSet \/ HaltQuery \/ HaltRemove \/ HaltCancel \/ HaltDone
  BY <1>9 DEF HaltStopClear, HaltStopSet, HaltQuery, HaltRemove, HaltCancel, HaltDone
<1> QED BY <1>1, <1>2, <1>3, <1>4, <1>5, <1>6, <1>7, <1>8, <1>9
        DEF Next, ServiceStep, LoopStep, DspNext, HaltNext

LEMMA CountType ==
    ASSUME TypeInv, [Next]_vars
    PROVE  /\ RspAvailableCount' \in Nat /\ forgotten' \in Nat
           /\ dsp'.pc = "fetched" => RspAvailableCount' + forgotten' > 0
<1>1. /\ RspAvailableCount \in Nat /\ forgotten \in Nat
      /\ dsp.pc = "fetched" => RspAvailableCount + forgotten > 0
      /\ dsp \in DspThread
  BY TypeParts DEF TypeInv, CountsOK
<1>2. CASE DspFetched
  BY <1>1, <1>2 DEF DspFetched, Goto, DspThread
<1>3. CASE ~DspFetched
  <2>1. CountSame \/ CountMore \/ Forgets
    BY <1>3, CountStep
  <2>2. dsp'.pc = "fetched" => dsp.pc = "fetched" \/ RspAvailableCount > 0
    <3>1. CASE ~DspNext
      <4>1. CASE SignalsDsp
        BY <1>1, <4>1, SignalDsp DEF SignalsDsp, DspEvents
      <4>2. CASE AnswersDsp
        BY <1>1, <4>2 DEF AnswersDsp, Goto, DspThread
      <4> QED BY <3>1, <4>1, <4>2, DspOthers
    <3>2. CASE DspFetch
      BY <3>2 DEF DspFetch, MayFetch, Fetching
    <3>3. CASE DspNext /\ ~DspFetch
      BY <1>1, <1>3, <3>3, FetchedOnly
    <3> QED BY <3>1, <3>2, <3>3
  <2> QED BY <1>1, <2>1, <2>2 DEF CountSame, CountMore, Forgets
<1> QED BY <1>2, <1>3

Transfers == {"NONE", "PENDING", "CANCELLING", "RESPONSE", "ERROR", "GONE"}

\* The steps of others that change the transfer, the device or the answer.
LEMMA OthersFrame ==
    ASSUME TypeInv, [Next]_vars, ~ServiceStep
    PROVE  /\ transfer' = transfer
           /\ DspFetch \/ device' = device
           /\ \/ DspStopClear \/ HaltStopClear \/ DspStopped
              \/ StopRsp' = StopRsp
<1>1. CASE LoopStep
  BY <1>1, LoopFrame
<1>2. CASE \/ DspHold \/ DspDequeue \/ DspCancel \/ DspReadControl \/ DspFetch
           \/ DspFetchFailed \/ DspFetched
  BY <1>2 DEF DspHold, DspDequeue, DspCancel, DspReadControl, DspFetch, DspFetchFailed,
     DspFetched, FetchSame, DspSame
<1>3. CASE \/ DspStandby \/ DspWakeup \/ DspResume \/ DspStopClear \/ DspStopSet
           \/ DspStopWait \/ DspStopped \/ DspForget
  BY <1>3 DEF DspStandby, DspWakeup, DspResume, StandbySame, DspStopClear, DspStopSet,
     DspStopWait, DspStopped, StopSame, DspForget, DspSame
<1>4. CASE \/ DspPowerDown \/ DspPowerUp \/ DspSurpriseRemoval \/ DspQueryRemove
           \/ DspRemove \/ DspRemoved
  BY <1>4 DEF DspPowerDown, DspPowerUp, DspSurpriseRemoval, DspQueryRemove, DspRemove,
     DspRemoved, DispatchSame, DspSame
<1>5. CASE PowerNext \/ ClientNext
  BY <1>5
     DEF PowerNext, PowerUpDevice, PowerUpResume, ClientNext, PostControlRead, SendCommand,
         NdisPowersDown, NdisPowersUp, Suspend, EndSuspend, EndSuspendAsleep, SystemPrepares,
         SystemWorks, PowerSame, HaltSurprise, HaltSame, HostSame
<1>6. CASE HaltNext
  BY <1>6 DEF HaltNext, HaltStopClear, HaltStopSet, HaltQueueSurprise, HaltQuery,
     HaltRemove, HaltSends, HaltCancel, HaltDone, HaltSame, HostSame
<1> QED BY <1>1, <1>2, <1>3, <1>4, <1>5, <1>6 DEF Next, ServiceStep, LoopStep, DspNext

LEMMA TransferType ==
    ASSUME TypeInv, [Next]_vars
    PROVE  transfer' \in Transfers /\ StopRsp' \in BOOLEAN
<1>0. transfer \in Transfers /\ StopRsp \in BOOLEAN
  BY DEF TypeInv, TypeOK, Transfers
<1> USE DEF Transfers
<1>1. CASE IntNext
  BY <1>0, <1>1
     DEF IntNext, IntTop, IntSubmit, IntRefused, IntWait, IntTimeout, IntCompletion,
         AnswerStop, IntAnnounce, IntAnnounced, IntStop, CancelTransfer, IntResume,
         IntEmptyCtl, IntCancel, IntExit, IntAlone
<1>2. CASE BusNext \/ DeviceNext
  BY <1>0, <1>2 DEF BusNext, BusResponse, BusError, BusEnds, Complete, DeviceNext,
     DeviceResponds, DeviceDetaches, IntAlone
<1>3. CASE ~ServiceStep
  BY <1>0, <1>3, OthersFrame DEF DspStopClear, HaltStopClear, StopClear, DspStopped
<1> QED BY <1>1, <1>2, <1>3 DEF ServiceStep

LEMMA DeviceType ==
    ASSUME TypeInv, [Next]_vars
    PROVE  device' \in [attached : BOOLEAN, outbox : Nat, toAnnounce : Nat]
<1>0. device \in [attached : BOOLEAN, outbox : Nat, toAnnounce : Nat]
  BY TypeParts
<1>1. CASE BusResponse
  <2>1. /\ device' = [device EXCEPT !.toAnnounce = device.toAnnounce - 1]
        /\ device.toAnnounce \in Nat /\ device.toAnnounce > 0
    BY <1>0, <1>1 DEF BusResponse
  <2>2. device.toAnnounce - 1 \in Nat
    BY <2>1
  <2> QED BY <1>0, <2>1, <2>2
<1>2. CASE DeviceResponds
  <2>1. device' = [device EXCEPT !.outbox = device.outbox + 1,
                                 !.toAnnounce = device.toAnnounce + 1]
    BY <1>2 DEF DeviceResponds
  <2>2. device.outbox + 1 \in Nat /\ device.toAnnounce + 1 \in Nat
    BY <1>0
  <2> QED BY <1>0, <2>1, <2>2
<1>3. CASE DeviceDetaches
  BY <1>0, <1>3 DEF DeviceDetaches
<1>4. CASE IntNext \/ BusError \/ BusEnds
  BY <1>0, <1>4
     DEF BusError, BusEnds, IntNext, IntTop, IntSubmit, IntRefused, IntWait, IntTimeout,
         IntCompletion, IntAnnounce, IntAnnounced, IntStop, StopKeeps, IntResume,
         IntEmptyCtl, IntCancel, IntExit, IntAlone
<1>5. CASE ~ServiceStep
  <2>1. CASE DspFetch
    <3>1. /\ device' = [device EXCEPT !.outbox = device.outbox - 1]
          /\ device.outbox \in Nat /\ device.outbox > 0
      BY <1>0, <2>1 DEF DspFetch
    <3>2. device.outbox - 1 \in Nat
      BY <3>1
    <3> QED BY <1>0, <3>1, <3>2
  <2>2. CASE ~DspFetch
    BY <1>0, <1>5, <2>2, OthersFrame
  <2> QED BY <2>1, <2>2
<1> QED BY <1>1, <1>2, <1>3, <1>4, <1>5 DEF ServiceStep, BusNext, DeviceNext

\* Every step takes one of what is left, or nothing.
LEMMA LeftType == ASSUME TypeInv, [Next]_vars PROVE left' \in AnyBounds
<1>0. left \in AnyBounds
  BY TypeParts
<1>1. \/ left' = left
      \/ left.errors > 0 /\ left' = [left EXCEPT !.errors = @ - 1]
      \/ left.responses > 0 /\ left' = [left EXCEPT !.responses = @ - 1]
      \/ left.detaches > 0 /\ left' = [left EXCEPT !.detaches = @ - 1]
      \/ left.fetchErrors > 0 /\ left' = [left EXCEPT !.fetchErrors = @ - 1]
      \/ left.sends > 0 /\ left' = [left EXCEPT !.sends = @ - 1]
      \/ left.powers > 0 /\ left' = [left EXCEPT !.powers = @ - 1]
      \/ left.prepares > 0 /\ left' = [left EXCEPT !.prepares = @ - 1]
      \/ left.removals > 0 /\ left' = [left EXCEPT !.removals = @ - 1]
  <2>1. CASE IntNext
    BY <2>1
       DEF IntNext, IntTop, IntSubmit, IntRefused, IntWait, IntTimeout, IntCompletion,
           IntAnnounce, IntAnnounced, IntStop, StopKeeps, IntResume, IntEmptyCtl, IntCancel,
           IntExit, IntAlone
  <2>2. CASE BusNext \/ DeviceNext
    BY <2>2 DEF BusNext, BusResponse, BusError, BusEnds, DeviceNext, DeviceResponds,
       DeviceDetaches, IntAlone
  <2>3. CASE LoopStep
    BY <2>3, LoopFrame
  <2>4. CASE \/ DspHold \/ DspDequeue \/ DspCancel \/ DspReadControl \/ DspFetch
             \/ DspFetchFailed \/ DspFetched
    BY <2>4 DEF DspHold, DspDequeue, DspCancel, DspReadControl, DspFetch, DspFetchFailed,
       DspFetched, FetchSame, DspSame
  <2>5. CASE \/ DspStandby \/ DspWakeup \/ DspResume \/ DspStopClear \/ DspStopSet
             \/ DspStopWait \/ DspStopped \/ DspForget
    BY <2>5 DEF DspStandby, DspWakeup, DspResume, StandbySame, DspStopClear, DspStopSet,
       DspStopWait, DspStopped, StopSame, DspForget, DspSame
  <2>6. CASE \/ DspPowerDown \/ DspPowerUp \/ DspSurpriseRemoval \/ DspQueryRemove
             \/ DspRemove \/ DspRemoved
    BY <2>6 DEF DspPowerDown, DspPowerUp, DspSurpriseRemoval, DspQueryRemove, DspRemove,
       DspRemoved, DispatchSame, DspSame
  <2>7. CASE PowerNext \/ ClientNext
    BY <2>7
       DEF PowerNext, PowerUpDevice, PowerUpResume, ClientNext, PostControlRead,
           SendCommand, NdisPowersDown, NdisPowersUp, Suspend, EndSuspend,
           EndSuspendAsleep, SystemPrepares, SystemWorks, HaltSurprise
  <2>8. CASE HaltNext
    BY <2>8 DEF HaltNext, HaltStopClear, HaltStopSet, HaltQueueSurprise, HaltQuery,
       HaltRemove, HaltSends, HaltCancel, HaltDone
  <2> QED BY <2>1, <2>2, <2>3, <2>4, <2>5, <2>6, <2>7, <2>8
          DEF Next, DspNext, LoopStep
<1>2. \A n \in Nat : n > 0 => n - 1 \in Nat
  OBVIOUS
<1> QED BY <1>0, <1>1, <1>2 DEF AnyBounds

LEMMA HostType ==
    ASSUME TypeInv, [Next]_vars
    PROVE  /\ power' \in {"idle", "queued", "workItem", "resuming"}
           /\ asked' \in {"D0", "D3", "suspended"} /\ halt' \in HaltPcs
           /\ overtaken' \in BOOLEAN
<1>0. /\ power \in {"idle", "queued", "workItem", "resuming"}
      /\ asked \in {"D0", "D3", "suspended"} /\ halt \in HaltPcs
      /\ overtaken \in BOOLEAN
  BY DEF TypeInv, TypeOK
<1>1. CASE ServiceStep \/ LoopStep
  BY <1>0, <1>1, ServiceFrame, LoopFrame
<1>2. CASE \/ DspHold \/ DspDequeue \/ DspCancel \/ DspReadControl \/ DspFetch
           \/ DspFetchFailed \/ DspFetched
  BY <1>0, <1>2 DEF DspHold, DspDequeue, DspCancel, DspReadControl, DspFetch,
     DspFetchFailed, DspFetched, FetchSame, DspSame, hostState
<1>3. CASE \/ DspStandby \/ DspWakeup \/ DspResume \/ DspStopClear \/ DspStopSet
           \/ DspStopWait \/ DspStopped \/ DspForget
  BY <1>0, <1>3 DEF DspStandby, DspWakeup, DspResume, ResumeSet, StandbySame, DspStopClear,
     DspStopSet, StopSet, DspStopWait, DspStopped, StopSame, DspForget, DspSame, HaltPcs
<1>4. CASE \/ DspPowerDown \/ DspPowerUp \/ DspSurpriseRemoval \/ DspQueryRemove
           \/ DspRemove \/ DspRemoved
  BY <1>0, <1>4 DEF DspPowerDown, DspPowerUp, DspSurpriseRemoval, DspQueryRemove, DspRemove,
     DspRemoved, DispatchSame, DspSame, HaltPcs
<1>5. CASE PowerNext \/ ClientNext
  BY <1>0, <1>5
     DEF PowerNext, PowerUpDevice, PowerUpResume, ClientNext, PostControlRead, SendCommand,
         NdisPowersDown, NdisPowersUp, Suspend, EndSuspend, EndSuspendAsleep, SystemPrepares,
         SystemWorks, SetStandby, SetWakeup, PowerSame, HaltSurprise, HaltSame, hostState,
         HaltPcs
<1>6. CASE HaltNext
  BY <1>0, <1>6 DEF HaltNext, HaltStopClear, HaltStopSet, StopSet, HaltQueueSurprise,
     HaltQuery, HaltRemove, HaltSends, HaltCancel, HaltDone, HaltSame, HaltPcs
<1> QED BY <1>1, <1>2, <1>3, <1>4, <1>5, <1>6 DEF Next, ServiceStep, LoopStep, DspNext

LEMMA StepType == ASSUME TypeInv, [Next]_vars PROVE TypeInv'
<1>1. int' \in IntThread
  BY IntStepType, IntOthersType
<1>2. /\ EncapsulatedDataQueue' \in Nat /\ CtlCompletionQueue' \in Nat
      /\ EncapsulatedDataQueue' + CtlCompletionQueue' \in 0 .. MaxControlReads
  BY ReadsType, ReadsAssumption
<1> QED BY <1>1, <1>2, DspType, DevType, QueueType, CountType, TransferType, DeviceType,
           LeftType, HostType
        DEF TypeInv, TypeOK, CountsOK, Transfers

LEMMA InitType == ASSUME Init PROVE TypeInv
<1>1. PICK bounds \in AnyBounds : InitWith(bounds)
  BY DEF Init
<1>2. 0 \in 0 .. MaxErrors /\ 0 \in 0 .. NumOfRetriesOnError
      /\ 0 \in 0 .. PrepareRetries - 1 /\ 0 \in 0 .. MaxControlReads
  BY RetriesAssumption, ReadsAssumption DEF MaxErrors
<1>3. int \in IntThread /\ dsp \in DspThread
  BY <1>1, <1>2 DEF InitWith, IntThread, IntPcs, DspThread, DspPcs
<1>4. dev \in Flags /\ device \in [attached : BOOLEAN, outbox : Nat, toAnnounce : Nat]
  BY <1>1 DEF InitWith, Flags
<1>5. EncapsulatedDataQueue + CtlCompletionQueue = 0 /\ dsp.pc # "fetched"
  BY <1>1 DEF InitWith
<1>6. /\ transfer = "NONE" /\ StopRsp = FALSE /\ RspAvailableCount = 0 /\ forgotten = 0
      /\ DispatchQueue = <<>> /\ EncapsulatedDataQueue = 0 /\ CtlCompletionQueue = 0
      /\ power = "idle" /\ asked = "D0" /\ halt = "no" /\ left = bounds
      /\ overtaken = FALSE
  BY <1>1 DEF InitWith
<1>7. DispatchQueue \in Seq(Irps)
  BY <1>6
<1>8. left \in AnyBounds /\ halt \in HaltPcs
  BY <1>6 DEF HaltPcs
<1>9. TypeOK
  <2>1. EncapsulatedDataQueue + CtlCompletionQueue \in 0 .. MaxControlReads
    BY <1>2, <1>5
  <2>2. StopRsp \in BOOLEAN /\ overtaken \in BOOLEAN
    BY <1>6
  <2> QED BY <1>3, <1>4, <1>6, <1>7, <1>8, <2>1, <2>2 DEF TypeOK
<1>10. CountsOK
  BY <1>5, <1>6 DEF CountsOK
<1> QED BY <1>9, <1>10 DEF TypeInv

LEMMA TypeIsInvariant == Spec => []TypeInv
<1>1. TypeInv /\ [Next]_vars => TypeInv'
  BY StepType
<1> QED BY <1>1, InitType, PTL DEF Spec

\* The type of the control path's state.  Among it: no more responses are
\* fetched than were announced or written off, the counts of failed transfers
\* and fetches stay in bounds, and no more control reads are queued than the
\* miniport owns.
THEOREM TypeCorrect == Spec => []TypeOK
<1>1. TypeInv => TypeOK
  BY DEF TypeInv
<1> QED BY <1>1, TypeIsInvariant, PTL

-----------------------------------------------------------------------------
(* The dispatch thread and its queue *)

\* Where the dispatch thread stands when it takes a step.
LEMMA DspFrom ==
    /\ DspReadControlFirst \/ DspIdle \/ DspHold \/ DspDequeue \/ DspExit => dsp.pc = "top"
    /\ DspWait => dsp.pc = "wait"
    /\ DspTimeout => dsp.pc = "blocked"
    /\ DspStart \/ DspCancel \/ DspReadControl \/ DspStandby \/ DspWakeup
          => dsp.pc \in DspEvents
    /\ DspFetch \/ DspFetchFailed \/ DspFetchDone => dsp.pc = "fetch"
    /\ DspFetched => dsp.pc = "fetched"
    /\ DspResume => dsp.pc = "resume"
    /\ DspStopClear => dsp.pc = "stopClear"
    /\ DspStopSet => dsp.pc = "stopSet"
    /\ DspStopWait => dsp.pc = "rspTest"
    /\ DspStopped => dsp.pc = "rspSet"
    /\ DspForget => dsp.pc = "forget"
    /\ DspSend => dsp.pc = "dispatch" /\ dsp.irp = "SEND"
    /\ DspPowerDown => dsp.pc = "dispatch" /\ dsp.irp = "DOWN"
    /\ DspPowerUp => dsp.pc = "dispatch" /\ dsp.irp = "UP"
    /\ DspSurpriseRemoval => dsp.pc = "dispatch" /\ dsp.irp = "SURPRISE"
    /\ DspQueryRemove => dsp.pc = "dispatch" /\ dsp.irp = "QUERY"
    /\ DspRemove => dsp.pc = "dispatch" /\ dsp.irp = "REMOVE"
    /\ DspRemoved => dsp.pc = "cancelWait"
<1>1. /\ DspReadControlFirst \/ DspIdle \/ DspHold \/ DspDequeue \/ DspExit => dsp.pc = "top"
      /\ DspWait => dsp.pc = "wait"
      /\ DspTimeout => dsp.pc = "blocked"
  BY DEF DspReadControlFirst, DspIdle, DspHold, DspDequeue, DspExit, DspWait, DspTimeout
<1>2. DspStart \/ DspCancel \/ DspReadControl \/ DspStandby \/ DspWakeup
         => dsp.pc \in DspEvents
  BY DEF DspStart, DspCancel, DspReadControl, DspStandby, DspWakeup, DspEvents
<1>3. /\ DspFetch \/ DspFetchFailed \/ DspFetchDone => dsp.pc = "fetch"
      /\ DspFetched => dsp.pc = "fetched"
  BY DEF DspFetch, DspFetchFailed, DspFetchDone, DspFetched
<1>4. /\ DspResume => dsp.pc = "resume"
      /\ DspStopClear => dsp.pc = "stopClear"
      /\ DspStopSet => dsp.pc = "stopSet"
      /\ DspStopWait => dsp.pc = "rspTest"
      /\ DspStopped => dsp.pc = "rspSet"
      /\ DspForget => dsp.pc = "forget"
  BY DEF DspResume, DspStopClear, DspStopSet, DspStopWait, DspStopped, DspForget
<1>5. /\ DspSend => dsp.pc = "dispatch" /\ dsp.irp = "SEND"
      /\ DspPowerDown => dsp.pc = "dispatch" /\ dsp.irp = "DOWN"
      /\ DspPowerUp => dsp.pc = "dispatch" /\ dsp.irp = "UP"
      /\ DspSurpriseRemoval => dsp.pc = "dispatch" /\ dsp.irp = "SURPRISE"
      /\ DspQueryRemove => dsp.pc = "dispatch" /\ dsp.irp = "QUERY"
      /\ DspRemove => dsp.pc = "dispatch" /\ dsp.irp = "REMOVE"
      /\ DspRemoved => dsp.pc = "cancelWait"
  BY DEF DspSend, DspPowerDown, DspPowerUp, DspSurpriseRemoval, DspQueryRemove, DspRemove,
     DspRemoved, Dispatching
<1> QED BY <1>1, <1>2, <1>3, <1>4, <1>5

IrpPcs == StopPcs \cup {"dispatch", "cancelWait"}

\* An IRP is served from its dispatch to the end of the stop it causes.
LEMMA IrpPlace ==
    ASSUME TypeInv, [Next]_vars, dsp.irp # "none" => dsp.pc \in IrpPcs
    PROVE  dsp'.irp # "none" => dsp'.pc \in IrpPcs
<1>0. dsp \in DspThread
  BY TypeParts
<1> USE DEF IrpPcs, StopPcs
<1>1. CASE DspNext
  <2>1. CASE \/ DspReadControlFirst \/ DspIdle \/ DspHold \/ DspExit \/ DspWait \/ DspTimeout
             \/ DspStart \/ DspCancel \/ DspReadControl \/ DspFetch \/ DspFetchFailed
             \/ DspFetched \/ DspFetchDone \/ DspStandby \/ DspWakeup \/ DspResume
    <3>1. dsp'.irp = dsp.irp
      BY <2>1, DspPlaces
    <3>2. dsp.pc \in DspEvents \cup {"top", "wait", "blocked", "fetch", "fetched", "resume"}
      BY <2>1, DspFrom
    <3> QED BY <3>1, <3>2 DEF DspEvents
  <2>2. CASE DspDequeue \/ DspStopClear \/ DspStopSet \/ DspStopWait \/ DspStopped
             \/ DspSurpriseRemoval \/ DspRemove
    BY <2>2, DspPlaces
  <2>3. CASE DspForget \/ DspSend \/ DspPowerUp \/ DspQueryRemove \/ DspRemoved
    BY <2>3, DspPlaces
  <2>4. CASE DspPowerDown
    BY <2>4, PowerDownPlace
  <2> QED BY <1>1, <2>1, <2>2, <2>3, <2>4 DEF DspNext
<1>2. CASE ~DspNext
  <2>1. CASE SignalsDsp
    BY <1>0, <2>1, SignalDsp DEF SignalsDsp
  <2>2. CASE AnswersDsp
    BY <1>0, <2>2 DEF AnswersDsp, Goto, DspThread
  <2> QED BY <1>2, <2>1, <2>2, DspOthers
<1> QED BY <1>1, <1>2

\* A removal once begun is never taken back.
LEMMA HaltIsForEver == ASSUME TypeInv, [Next]_vars, halt # "no" PROVE halt' # "no"
<1>1. CASE ServiceStep \/ LoopStep
  BY <1>1, ServiceFrame, LoopFrame
<1>2. CASE \/ DspHold \/ DspDequeue \/ DspCancel \/ DspReadControl \/ DspFetch
           \/ DspFetchFailed \/ DspFetched
  BY <1>2 DEF DspHold, DspDequeue, DspCancel, DspReadControl, DspFetch,
     DspFetchFailed, DspFetched, FetchSame, DspSame, hostState
<1>3. CASE \/ DspStandby \/ DspWakeup \/ DspResume \/ DspStopClear \/ DspStopSet
           \/ DspStopWait \/ DspStopped \/ DspForget
  BY <1>3 DEF DspStandby, DspWakeup, DspResume, StandbySame, DspStopClear,
     DspStopSet, DspStopWait, DspStopped, StopSame, DspForget
<1>4. CASE \/ DspPowerDown \/ DspPowerUp \/ DspSurpriseRemoval \/ DspQueryRemove
           \/ DspRemove \/ DspRemoved
  BY <1>4 DEF DspPowerDown, DspPowerUp, DspSurpriseRemoval, DspQueryRemove, DspRemove,
     DspRemoved
<1>5. CASE PowerNext \/ ClientNext
  BY <1>5
     DEF PowerNext, PowerUpDevice, PowerUpResume, ClientNext, PostControlRead, SendCommand,
         NdisPowersDown, NdisPowersUp, Suspend, EndSuspend, EndSuspendAsleep, SystemPrepares,
         SystemWorks, PowerSame, HaltSurprise, hostState
<1>6. CASE HaltNext
  BY <1>6 DEF HaltNext, HaltStopClear, HaltStopSet, HaltQueueSurprise,
     HaltQuery, HaltRemove, HaltSends, HaltCancel, HaltDone
<1> QED BY <1>1, <1>2, <1>3, <1>4, <1>5, <1>6 DEF Next, ServiceStep, LoopStep, DspNext

LEMMA QueueTakes ==
    ASSUME NEW q \in Seq(Irps), q # <<>>, NEW p \in BOOLEAN, NEW r \in BOOLEAN,
           PowerFirst(q, p, r)
    PROVE  /\ PowerFirst(Tail(q), FALSE, r)
           /\ PowerFirst(Rotated(q), p, r)
           /\ Head(q) \in PowerIrps => p
           /\ Head(q) = "REMOVE" => r
<1>1. /\ Tail(q) \in Seq(Irps) /\ Len(Tail(q)) = Len(q) - 1
      /\ \A i \in 1 .. Len(Tail(q)) : Tail(q)[i] = q[i + 1]
      /\ Head(q) = q[1] /\ Len(q) \in Nat /\ Len(q) > 0
  BY QueueIrps
<1>2. PowerFirst(Tail(q), FALSE, r)
  <2> SUFFICES ASSUME NEW i \in 1 .. Len(Tail(q))
               PROVE  Tail(q)[i] \notin PowerIrps /\ (Tail(q)[i] = "REMOVE" => r)
    BY DEF PowerFirst
  <2>1. i + 1 \in 1 .. Len(q) /\ i + 1 # 1 /\ Tail(q)[i] = q[i + 1]
    BY <1>1
  <2> QED BY <2>1 DEF PowerFirst
<1>3. (Head(q) \in PowerIrps => p) /\ (Head(q) = "REMOVE" => r)
  BY <1>1 DEF PowerFirst
<1>4. PowerFirst(Rotated(q), p, r)
  <2>1. CASE Head(q) # "REMOVE"
    BY <2>1 DEF Rotated
  <2>2. CASE Head(q) = "REMOVE"
    <3> DEFINE t == Tail(q)
    <3>1. t \in Seq(Irps) /\ PowerFirst(t, FALSE, r) /\ r
      BY <1>1, <1>2, <1>3, <2>2
    <3>2. Rotated(q) = Append(t, "REMOVE")
      BY <2>2 DEF Rotated
    <3> HIDE DEF t
    <3> SUFFICES ASSUME NEW i \in 1 .. Len(Append(t, "REMOVE"))
                 PROVE  /\ Append(t, "REMOVE")[i] \notin PowerIrps
                        /\ Append(t, "REMOVE")[i] = "REMOVE" => r
      BY <3>2 DEF PowerFirst
    <3>3. CASE i \in 1 .. Len(t)
      BY <3>1, <3>3 DEF PowerFirst
    <3>4. CASE i = Len(t) + 1
      BY <3>1, <3>4 DEF PowerIrps
    <3>5. i \in 1 .. Len(t) \/ i = Len(t) + 1
      BY <3>1
    <3> QED BY <3>3, <3>4, <3>5
  <2> QED BY <2>1, <2>2
<1> QED BY <1>2, <1>3, <1>4

LEMMA QueueGets ==
    ASSUME NEW q \in Seq(Irps), NEW irp \in Irps, NEW p \in BOOLEAN, NEW r \in BOOLEAN,
           PowerFirst(q, p, r)
    PROVE  /\ irp \notin PowerIrps /\ (irp = "REMOVE" => r) => PowerFirst(Append(q, irp), p, r)
           /\ ~p /\ irp \in PowerIrps => PowerFirst(<<irp>> \o q, TRUE, r)
<1>1. ASSUME irp \notin PowerIrps, irp = "REMOVE" => r
      PROVE  PowerFirst(Append(q, irp), p, r)
  BY <1>1 DEF PowerFirst
<1>2. ASSUME ~p, irp \in PowerIrps
      PROVE  PowerFirst(<<irp>> \o q, TRUE, r)
  <2> DEFINE one == <<irp>>
             s == one \o q
  <2>0. one \in Seq(Irps) /\ Len(one) = 1 /\ one[1] = irp
    OBVIOUS
  <2> HIDE DEF one
  <2>1. s \in Seq(Irps) /\ Len(s) = 1 + Len(q) /\ Len(q) \in Nat
        /\ \A i \in 1 .. 1 + Len(q) : s[i] = IF i <= 1 THEN one[i] ELSE q[i - 1]
    <3>1. /\ one \o q \in Seq(Irps) /\ Len(one \o q) = Len(one) + Len(q)
          /\ \A i \in 1 .. Len(one) + Len(q) :
                (one \o q)[i] = IF i <= Len(one) THEN one[i] ELSE q[i - Len(one)]
      BY <2>0, ConcatProperties
    <3>2. Len(q) \in Nat
      OBVIOUS
    <3> HIDE DEF s
    <3>3. s = one \o q
      BY DEF s
    <3> QED BY <2>0, <3>1, <3>2, <3>3
  <2> HIDE DEF s
  <2>2. ASSUME NEW i \in 1 .. Len(s)
        PROVE  (s[i] \in PowerIrps => i = 1) /\ (s[i] = "REMOVE" => r)
    <3>1. CASE i = 1
      BY <1>2, <2>0, <2>1, <3>1 DEF PowerIrps
    <3>2. CASE i # 1
      <4>1. i - 1 \in 1 .. Len(q) /\ s[i] = q[i - 1]
        BY <2>1, <3>2
      <4> QED BY <1>2, <4>1 DEF PowerFirst
    <3> QED BY <3>1, <3>2
  <2>3. PowerFirst(s, TRUE, r)
    BY <2>2 DEF PowerFirst
  <2> QED BY <2>3 DEF s, one
<1> QED BY <1>1, <1>2

LEMMA QueueKeeps ==
    ASSUME NEW q, NEW p \in BOOLEAN, NEW r \in BOOLEAN, PowerFirst(q, p, r),
           NEW p2 \in BOOLEAN, NEW r2 \in BOOLEAN, p => p2, r => r2
    PROVE  PowerFirst(q, p2, r2)
BY DEF PowerFirst

\* A step leaves the IRP in progress, ends it, or takes the next one.
LEMMA IrpKept ==
    ASSUME TypeInv, [Next]_vars
    PROVE  /\ ~DspNext => dsp'.irp = dsp.irp
           /\ ~DspDequeue => dsp'.irp \in {dsp.irp, "none"}
<1>0. dsp \in DspThread
  BY TypeParts
<1>1. CASE ~DspNext
  <2>1. CASE SignalsDsp
    BY <1>0, <2>1, SignalDsp DEF SignalsDsp
  <2>2. CASE AnswersDsp
    BY <1>0, <2>2 DEF AnswersDsp, Goto, DspThread
  <2>3. dsp'.irp = dsp.irp
    BY <1>1, <2>1, <2>2, DspOthers
  <2> QED BY <2>3, <1>1 DEF DspNext
<1>2. CASE DspNext /\ ~DspDequeue
  <2>1. CASE DspPowerDown
    BY <1>2, <2>1, PowerDownPlace
  <2>2. CASE \/ DspReadControlFirst \/ DspIdle \/ DspHold \/ DspExit \/ DspWait \/ DspTimeout
             \/ DspStart \/ DspCancel \/ DspReadControl \/ DspFetch \/ DspFetchFailed
             \/ DspFetched \/ DspFetchDone \/ DspStandby \/ DspWakeup \/ DspResume
             \/ DspStopClear \/ DspStopSet \/ DspStopWait \/ DspStopped
             \/ DspSurpriseRemoval \/ DspRemove
    BY <1>2, <2>2, DspPlaces
  <2>3. CASE DspForget \/ DspSend \/ DspPowerUp \/ DspQueryRemove \/ DspRemoved
    BY <1>2, <2>3, DspPlaces
  <2> QED BY <1>2, <2>1, <2>2, <2>3 DEF DspNext
<1> QED BY <1>1, <1>2

\* The power request in progress moves on.
LEMMA PowerMoves ==
    ASSUME TypeInv, [Next]_vars
    PROVE  \/ power' = power
           \/ /\ DspForget \/ DspPowerDown \/ DspPowerUp
              /\ dsp.irp \in PowerIrps /\ dsp'.irp = "none"
           \/ PowerNext /\ power # "queued" /\ power' # "queued"
           \/ (Suspend \/ EndSuspend) /\ power = "idle" /\ power' = "queued"
<1>1. CASE ServiceStep \/ LoopStep
  BY <1>1, ServiceFrame, LoopFrame
<1>2. CASE \/ DspHold \/ DspDequeue \/ DspCancel \/ DspReadControl \/ DspFetch
           \/ DspFetchFailed \/ DspFetched
  BY <1>2 DEF DspHold, DspDequeue, DspCancel, DspReadControl, DspFetch,
     DspFetchFailed, DspFetched, FetchSame, DspSame, hostState
<1>3. CASE \/ DspStandby \/ DspWakeup \/ DspResume \/ DspStopClear \/ DspStopSet
           \/ DspStopWait \/ DspStopped
  BY <1>3 DEF DspStandby, DspWakeup, DspResume, StandbySame, DspStopClear,
     DspStopSet, DspStopWait, DspStopped, StopSame
<1>4. CASE DspForget
  <2>1. dsp.irp = "DOWN" \/ power' = power
    BY <1>4 DEF DspForget
  <2> QED BY <1>4, <2>1, DspPlaces DEF PowerIrps
<1>5. CASE DspPowerDown
  BY <1>5, PowerDownPlace, DspFrom DEF PowerIrps
<1>6. CASE DspPowerUp
  BY <1>6, DspPlaces, DspFrom DEF PowerIrps
<1>7. CASE DspSurpriseRemoval \/ DspQueryRemove \/ DspRemove \/ DspRemoved
  BY <1>7 DEF DspSurpriseRemoval, DspQueryRemove, DspRemove, DspRemoved
<1>8. CASE Suspend \/ EndSuspend
  BY <1>8 DEF Suspend, EndSuspend
<1>9. CASE PowerNext
  BY <1>9 DEF PowerNext, PowerUpDevice, PowerUpResume
<1>10. CASE \/ PostControlRead \/ SendCommand \/ NdisPowersDown \/ NdisPowersUp
            \/ EndSuspendAsleep \/ SystemPrepares \/ SystemWorks \/ HaltSurprise
  BY <1>10
     DEF PostControlRead, SendCommand, NdisPowersDown, NdisPowersUp, EndSuspendAsleep,
         SystemPrepares, SystemWorks, HaltSurprise, HaltSame, hostState
<1>11. CASE HaltNext
  BY <1>11 DEF HaltNext, HaltStopClear, HaltStopSet, HaltQueueSurprise,
     HaltQuery, HaltRemove, HaltSends, HaltCancel, HaltDone, HaltSame
<1> QED BY <1>1, <1>2, <1>3, <1>4, <1>5, <1>6, <1>7, <1>8, <1>9, <1>10, <1>11
        DEF Next, ServiceStep, LoopStep, DspNext, ClientNext

LEMMA QueueMoves ==
    ASSUME [Next]_vars
    PROVE  \/ DispatchQueue' = DispatchQueue
           \/ DspHold \/ DspDequeue
           \/ \E irp \in Irps \ PowerIrps :
                 /\ DispatchQueue' = Append(DispatchQueue, irp)
                 /\ irp = "REMOVE" => halt' # "no"
           \/ Suspend \/ EndSuspend
<1>1. CASE ServiceStep \/ LoopStep
  BY <1>1, ServiceFrame, LoopFrame
<1>2. CASE \/ DspCancel \/ DspReadControl \/ DspFetch \/ DspFetchFailed \/ DspFetched
           \/ DspStandby \/ DspWakeup \/ DspResume \/ DspStopClear \/ DspStopSet
           \/ DspStopWait \/ DspStopped \/ DspForget
  BY <1>2
     DEF DspCancel, DspReadControl, DspFetch, DspFetchFailed, DspFetched, FetchSame,
         DspStandby, DspWakeup, DspResume, StandbySame, DspStopClear, DspStopSet,
         DspStopWait, DspStopped, StopSame, DspForget, ctlQueues
<1>3. CASE \/ DspPowerDown \/ DspPowerUp \/ DspSurpriseRemoval \/ DspQueryRemove
           \/ DspRemove \/ DspRemoved
  BY <1>3
     DEF DspPowerDown, DspPowerUp, DspSurpriseRemoval, DspQueryRemove, DspRemove,
         DspRemoved, DispatchSame
<1>4. CASE SendCommand \/ HaltQueueSurprise \/ HaltQuery \/ HaltRemove
  BY <1>4 DEF SendCommand, HaltQueueSurprise, HaltQuery, HaltRemove, HaltSends, Enqueue,
     Irps, PowerIrps
<1>5. CASE \/ PowerNext \/ PostControlRead \/ NdisPowersDown \/ NdisPowersUp
           \/ EndSuspendAsleep \/ SystemPrepares \/ SystemWorks \/ HaltSurprise
  BY <1>5
     DEF PowerNext, PowerUpDevice, PowerUpResume, PostControlRead, NdisPowersDown,
         NdisPowersUp, EndSuspendAsleep, SystemPrepares, SystemWorks, HaltSurprise
<1>6. CASE HaltStopClear \/ HaltStopSet \/ HaltCancel \/ HaltDone
  BY <1>6 DEF HaltStopClear, HaltStopSet, HaltCancel, HaltDone
<1> QED BY <1>1, <1>2, <1>3, <1>4, <1>5, <1>6
        DEF Next, ServiceStep, LoopStep, DspNext, ClientNext, HaltNext

LEMMA QueueStep == ASSUME TypeInv, QueueInv, [Next]_vars PROVE QueueInv'
<1> DEFINE p == power = "queued" /\ dsp.irp \notin PowerIrps
           r == halt # "no"
<1>0. /\ DispatchQueue \in Seq(Irps) /\ PowerFirst(DispatchQueue, p, r)
      /\ dsp.irp \in PowerIrps => power = "queued"
      /\ dsp.irp # "none" => dsp.pc \in IrpPcs
  BY TypeParts DEF QueueInv, IrpPcs
<1>1. r => r'
  BY HaltIsForEver
<1>2. dsp'.irp # "none" => dsp'.pc \in IrpPcs
  BY <1>0, IrpPlace
<1>3. "none" \notin PowerIrps
  BY DEF PowerIrps
<1>4. ~DspDequeue => (p => p')
  BY <1>0, <1>3, IrpKept, PowerMoves
<1>5. DspDequeue => /\ DispatchQueue # <<>> /\ DispatchQueue' = Tail(DispatchQueue)
                    /\ dsp'.irp = Head(DispatchQueue) /\ power' = power
  <2>1. ASSUME DspDequeue PROVE power' = power
    BY <2>1 DEF DspDequeue, hostState
  <2> QED BY <2>1, DspPlaces DEF DspDequeue
<1>6. dsp'.irp \in PowerIrps => power' = "queued"
  <2>1. CASE DspDequeue
    <3>1. Head(DispatchQueue) \in PowerIrps => p
      BY <1>0, <1>5, <2>1, QueueTakes
    <3> QED BY <1>5, <2>1, <3>1
  <2>2. CASE ~DspDequeue
    BY <1>0, <1>3, <2>2, IrpKept, PowerMoves
  <2> QED BY <2>1, <2>2
<1>7. PowerFirst(DispatchQueue', p', r')
  <2> HIDE DEF p, r
  <2>0. p \in BOOLEAN /\ r \in BOOLEAN /\ p' \in BOOLEAN /\ r' \in BOOLEAN
    BY DEF p, r
  <2>1. CASE DspDequeue
    <3>1. PowerFirst(Tail(DispatchQueue), FALSE, r)
      BY <1>0, <1>5, <2>0, <2>1, QueueTakes
    <3> QED BY <1>1, <1>5, <2>0, <2>1, <3>1, QueueKeeps
  <2>2. CASE DspHold
    <3>1. DispatchQueue # <<>> /\ DispatchQueue' = Rotated(DispatchQueue) /\ ~DspDequeue
      BY <2>2 DEF DspHold, DspDequeue
    <3>2. PowerFirst(Rotated(DispatchQueue), p, r)
      BY <1>0, <2>0, <3>1, QueueTakes
    <3> QED BY <1>1, <1>4, <2>0, <3>1, <3>2, QueueKeeps
  <2>3. CASE Suspend \/ EndSuspend
    <3>1. PICK irp \in PowerIrps : DispatchQueue' = <<irp>> \o DispatchQueue
      BY <2>3 DEF Suspend, EndSuspend, EnqueuePower, PowerIrps
    <3>2. power = "idle" /\ power' = "queued"
      BY <2>3 DEF Suspend, EndSuspend
    <3>3. dsp'.irp = dsp.irp
      <4>1. dsp' = Signal(dsp, "START") /\ dsp \in DspThread /\ "START" \in DspEvents
        BY <2>3, TypeParts DEF Suspend, EndSuspend, EnqueuePower, DspEvents
      <4> QED BY <4>1, SignalDsp
    <3>4. ~p /\ p'
      BY <1>0, <3>2, <3>3 DEF p
    <3>5. irp \in Irps
      BY DEF Irps, PowerIrps
    <3>6. PowerFirst(<<irp>> \o DispatchQueue, TRUE, r)
      BY <1>0, <2>0, <3>4, <3>5, QueueGets
    <3> QED BY <1>1, <2>0, <3>1, <3>4, <3>6, QueueKeeps
  <2>4. CASE DispatchQueue' = DispatchQueue /\ ~DspDequeue
    BY <1>0, <1>1, <1>4, <2>0, <2>4, QueueKeeps
  <2>5. CASE /\ ~DspDequeue
             /\ \E irp \in Irps \ PowerIrps :
                   /\ DispatchQueue' = Append(DispatchQueue, irp)
                   /\ irp = "REMOVE" => halt' # "no"
    <3>1. PICK irp \in Irps \ PowerIrps : /\ DispatchQueue' = Append(DispatchQueue, irp)
                                          /\ irp = "REMOVE" => halt' # "no"
      BY <2>5
    <3>2. PowerFirst(DispatchQueue, p', r')
      BY <1>0, <1>1, <1>4, <2>0, <2>5, QueueKeeps
    <3>3. irp = "REMOVE" => r'
      BY <3>1 DEF r
    <3> QED BY <1>0, <2>0, <3>1, <3>2, <3>3, QueueGets
  <2> QED BY <2>1, <2>2, <2>3, <2>4, <2>5, QueueMoves
<1> QED BY <1>2, <1>6, <1>7 DEF QueueInv, IrpPcs

-----------------------------------------------------------------------------
(* A stop, and the end of the interrupt thread *)

\* The interrupt thread's place, and what tells it to end.
LEMMA IntPlaces ==
    ASSUME TypeInv, IntNext
    PROVE  /\ int'.pc = "submit" => IntTop /\ MaySubmit
           /\ int'.pc = "exit" => (IntCompletion /\ int.bCancelled)
                                  \/ (IntCancel /\ transfer = "NONE")
           /\ int'.pc = "terminated" => int.pc = "exit"
           /\ int'.pc = "CANCEL" => "CANCEL" \in int.set
           /\ int'.bCancelled => int.bCancelled \/ int.pc = "CANCEL"
           /\ int'.set \subseteq int.set \cup {"COMPLETION"}
<1>0. int \in IntThread
  BY TypeParts
<1>1. CASE IntTop
  BY <1>0, <1>1 DEF IntTop, Goto, IntThread
<1>2. CASE IntSubmit
  BY <1>0, <1>2 DEF IntSubmit, IntThread
<1>3. CASE IntRefused
  <2>1. \E n, b : int' = [int EXCEPT !.set = int.set \cup {"COMPLETION"}, !.pc = "wait",
                                     !.bStopped = b, !.errCnt0 = n]
    <3> DEFINE b == int.errCnt0 + 1 >= MaxErrors
               n == IF b THEN MaxErrors ELSE int.errCnt0 + 1
    <3>1. int' = [int EXCEPT !.set = int.set \cup {"COMPLETION"}, !.pc = "wait",
                             !.bStopped = b, !.errCnt0 = n]
      BY <1>0, <1>3 DEF IntRefused, Signal, IntThread
    <3> HIDE DEF b, n
    <3> QED BY <3>1
  <2> QED BY <1>0, <2>1 DEF IntThread
<1>4. CASE IntWait
  <2>1. int' = WaitAny(int, IntIndex)
    BY <1>4 DEF IntWait
  <2> QED BY <1>0, <2>1, WaitInt DEF IntEvents
<1>5. CASE IntCompletion
  <2>1. \E pc, n, b :
          /\ pc \in {"exit", "top", "announce"} /\ (pc = "exit" => int.bCancelled)
          /\ int' = [int EXCEPT !.set = int.set \ {"COMPLETION"}, !.pc = pc,
                                !.bSignalStopState = FALSE, !.errCnt = n, !.bStopped = b]
    <3> DEFINE at(pc, n, b) == [int EXCEPT !.set = int.set \ {"COMPLETION"}, !.pc = pc,
                                 !.bSignalStopState = FALSE, !.errCnt = n, !.bStopped = b]
               giveUp == int.errCnt + 1 >= MaxErrors \/ transfer = "GONE"
               next == IF giveUp THEN MaxErrors ELSE int.errCnt + 1
    <3>1. \A pc : AfterTransfer(pc) = at(pc, int.errCnt, int.bStopped)
      BY <1>0 DEF AfterTransfer, Clear, IntThread
    <3>2. CASE int' = AfterTransfer(IF int.bCancelled THEN "exit" ELSE "top")
      BY <3>1, <3>2
    <3>3. CASE int' = [AfterTransfer("announce") EXCEPT !.errCnt = 0]
      <4>1. int' = at("announce", 0, int.bStopped)
        BY <1>0, <3>3 DEF AfterTransfer, Clear, IntThread
      <4> QED BY <4>1
    <3>4. CASE int' = [AfterTransfer("top") EXCEPT
                          !.errCnt = IF giveUp THEN MaxErrors ELSE @ + 1,
                          !.bStopped = giveUp]
      <4>1. int' = at("top", next, giveUp)
        BY <1>0, <3>4 DEF AfterTransfer, Clear, IntThread
      <4> HIDE DEF next, giveUp
      <4> QED BY <4>1
    <3> HIDE DEF at
    <3>5. \/ int' = AfterTransfer(IF int.bCancelled THEN "exit" ELSE "top")
          \/ int' = [AfterTransfer("announce") EXCEPT !.errCnt = 0]
          \/ int' = [AfterTransfer("top") EXCEPT
                          !.errCnt = IF giveUp THEN MaxErrors ELSE @ + 1,
                          !.bStopped = giveUp]
      BY <1>5 DEF IntCompletion
    <3> QED BY <3>2, <3>3, <3>4, <3>5
  <2> QED BY <1>0, <1>5, <2>1 DEF IntThread
<1>6. CASE IntStop
  <2>1. int' = [int EXCEPT !.set = @ \ {"STOP"}, !.pc = "wait", !.bStopped = TRUE,
                           !.bSignalStopState = TRUE]
        \/ int' = [int EXCEPT !.set = @ \ {"STOP"}, !.pc = "top", !.bStopped = TRUE]
    BY <1>0, <1>6 DEF IntStop, Stopped, Clear, Goto
  <2>2. CASE int' = [int EXCEPT !.set = @ \ {"STOP"}, !.pc = "wait",
                                !.bStopped = TRUE, !.bSignalStopState = TRUE]
    BY <1>0, <2>2 DEF IntThread
  <2>3. CASE int' = [int EXCEPT !.set = @ \ {"STOP"}, !.pc = "top", !.bStopped = TRUE]
    BY <1>0, <2>3 DEF IntThread
  <2> QED BY <2>1, <2>2, <2>3
<1>7. CASE IntResume
  <2>1. int' = [int EXCEPT !.set = @ \ {"RESUME"}, !.pc = "top", !.bStopped = FALSE]
    BY <1>0, <1>7 DEF IntResume, Clear
  <2> QED BY <1>0, <2>1 DEF IntThread
<1>8. CASE IntEmptyCtl \/ IntTimeout \/ IntAnnounce \/ IntAnnounced
  BY <1>0, <1>8 DEF IntEmptyCtl, IntTimeout, IntAnnounce, IntAnnounced, Goto, Clear, IntThread
<1>9. CASE IntCancel
  <2>1. /\ int.pc = "CANCEL"
        /\ \/ /\ transfer = "NONE"
              /\ int' = [int EXCEPT !.set = @ \ {"CANCEL"}, !.pc = "exit", !.bCancelled = TRUE]
           \/ int' = [int EXCEPT !.set = @ \ {"CANCEL"}, !.pc = "wait", !.bCancelled = TRUE]
    BY <1>0, <1>9 DEF IntCancel, Clear, IntThread
  <2> QED BY <1>0, <1>9, <2>1, ZenonT(60) DEF IntThread
<1>10. CASE IntExit
  BY <1>0, <1>10 DEF IntExit, Goto, IntThread
<1> QED BY <1>1, <1>2, <1>3, <1>4, <1>5, <1>6, <1>7, <1>8, <1>9, <1>10 DEF IntNext

\* What the others make of it: they set events, and move a blocked thread.
SignalsInt ==
    \E e \in IntEvents :
        /\ int' = Signal(int, e)
        /\ e = "CANCEL" => DspRemove

LEMMA IntOthers ==
    ASSUME TypeInv, [Next]_vars, ~IntNext
    PROVE  \/ int' = int \/ SignalsInt
           \/ int' = [int EXCEPT !.set = @ \ {"STOP"}]
<1>1. CASE BusNext
  BY <1>1 DEF BusNext, BusResponse, BusError, BusEnds, Complete, SignalsInt, IntEvents
<1>2. CASE DspCancel \/ DspSurpriseRemoval \/ DspFetch \/ DspRemove
  BY <1>2 DEF DspCancel, DspSurpriseRemoval, PurgeReads, DspFetch, DspRemove, SignalsInt,
     IntEvents
<1>3. CASE DspStopClear \/ HaltStopClear
  BY <1>3 DEF DspStopClear, HaltStopClear, StopClear
<1>4. CASE DspStopSet \/ HaltStopSet \/ DspResume
  BY <1>4 DEF DspStopSet, HaltStopSet, DspResume, StopSet, ResumeSet, SignalsInt, IntEvents
<1>5. CASE LoopStep
  BY <1>5, LoopFrame
<1>6. CASE \/ DspHold \/ DspDequeue \/ DspReadControl \/ DspFetchFailed
           \/ DspFetched \/ DspStandby \/ DspWakeup \/ DspStopWait
           \/ DspStopped \/ DspForget \/ DspPowerDown \/ DspPowerUp
           \/ DspQueryRemove \/ DspRemoved
  BY <1>6
     DEF DspHold, DspDequeue, DspReadControl, DspFetchFailed, DspFetched, DspStandby,
         DspWakeup, DspStopWait, DspStopped, DspForget, DspPowerDown, DspPowerUp,
         DspQueryRemove, DspRemoved
<1>7. CASE DeviceNext \/ PowerNext \/ ClientNext
  BY <1>7
     DEF DeviceNext, DeviceResponds, DeviceDetaches, PowerNext, PowerUpDevice, PowerUpResume,
         ClientNext, PostControlRead, SendCommand, NdisPowersDown, NdisPowersUp, Suspend,
         EndSuspend, EndSuspendAsleep, SystemPrepares, SystemWorks, HaltSurprise, PowerSame
<1>8. CASE HaltQueueSurprise \/ HaltQuery \/ HaltRemove \/ HaltCancel \/ HaltDone
  BY <1>8
     DEF HaltQueueSurprise, HaltQuery, HaltRemove, HaltSends, HaltCancel, HaltDone
<1> QED BY <1>1, <1>2, <1>3, <1>4, <1>5, <1>6, <1>7, <1>8
        DEF Next, LoopStep, DspNext, HaltNext

\* No other step moves the thread to where it submits, or ends.
LEMMA IntOthersPlace ==
    ASSUME TypeInv, [Next]_vars, ~IntNext
    PROVE  /\ int'.pc = int.pc \/ int'.pc \in IntEvents
           /\ int'.pc = "CANCEL" => int.pc = "CANCEL" \/ DspRemove
           /\ "CANCEL" \in int'.set => "CANCEL" \in int.set \/ DspRemove
           /\ int'.bCancelled = int.bCancelled
<1>0. int \in IntThread
  BY TypeParts
<1>1. CASE SignalsInt
  BY <1>0, <1>1, SignalInt DEF SignalsInt
<1>2. CASE int' = [int EXCEPT !.set = @ \ {"STOP"}]
  BY <1>0, <1>2 DEF IntThread
<1> QED BY <1>1, <1>2, IntOthers

\* Nothing in flight stays so until the thread submits.
LEMMA NothingInFlight ==
    ASSUME TypeInv, [Next]_vars, transfer = "NONE", int.pc # "submit"
    PROVE  transfer' = "NONE"
<1>1. CASE IntNext
  BY <1>1 DEF IntNext, IntTop, IntSubmit, IntRefused, IntWait, IntTimeout, IntCompletion,
     IntAnnounce, IntAnnounced, IntStop, CancelTransfer, IntResume, IntEmptyCtl, IntCancel,
     IntExit
<1>2. CASE BusNext \/ DeviceNext
  BY <1>2 DEF BusNext, BusResponse, BusError, BusEnds, DeviceNext, DeviceResponds,
     DeviceDetaches
<1>3. CASE ~ServiceStep
  BY <1>3, OthersFrame
<1> QED BY <1>1, <1>2, <1>3 DEF ServiceStep

\* A suspended device is not made to submit.
LEMMA StaysQuiet ==
    ASSUME TypeInv, [Next]_vars, dev.PowerSuspended, Quiet
    PROVE  Quiet'
<1>1. transfer' = "NONE"
  BY NothingInFlight DEF Quiet
<1>2. int'.pc # "submit"
  <2>1. CASE IntNext
    BY <2>1, IntPlaces DEF MaySubmit
  <2>2. CASE ~IntNext
    BY <2>2, IntOthersPlace DEF Quiet, IntEvents
  <2> QED BY <2>1, <2>2
<1> QED BY <1>1, <1>2 DEF Quiet

LEMMA DspOnlySignalled ==
    ASSUME TypeInv, [Next]_vars, ~DspNext, ~IntNext
    PROVE  dsp' = dsp \/ SignalsDsp
<1>1. CASE BusNext \/ DeviceNext
  BY <1>1 DEF BusNext, BusResponse, BusError, BusEnds, IntAlone, DeviceNext, DeviceResponds,
     DeviceDetaches
<1>2. CASE PowerNext \/ ClientNext
  BY <1>2
     DEF PowerNext, PowerUpDevice, PowerUpResume, ClientNext, PostControlRead, SendCommand,
         NdisPowersDown, NdisPowersUp, Suspend, EndSuspend, EndSuspendAsleep, SystemPrepares,
         SystemWorks, HaltSurprise, SetStandby, SetWakeup, Enqueue, EnqueuePower,
         SignalsDsp, DspEvents
<1>3. CASE HaltNext
  BY <1>3 DEF HaltNext, HaltStopClear, HaltStopSet, HaltQueueSurprise, HaltQuery, HaltRemove,
     HaltSends, Enqueue, HaltCancel, HaltDone, SignalsDsp, DspEvents
<1>4. CASE UNCHANGED vars
  BY <1>4 DEF vars
<1> QED BY <1>1, <1>2, <1>3, <1>4 DEF Next

\* Who answers a stop has no transfer any more.
LEMMA AnswerIsQuiet ==
    ASSUME TypeInv, [Next]_vars,
           \/ StopRsp' /\ ~StopRsp
           \/ ~DspNext /\ AnswersDsp
    PROVE  Quiet'
<1>0. int \in IntThread /\ dsp \in DspThread /\ StopRsp \in BOOLEAN
  BY TypeParts DEF TypeInv, TypeOK
<1>1. IntCompletion \/ (IntStop /\ transfer = "NONE")
  <2>1. CASE IntNext
    <3>1. CASE IntStop /\ transfer # "NONE"
      <4>1. dsp' = dsp /\ StopRsp' = StopRsp
        BY <3>1 DEF IntStop
      <4> QED BY <1>0, <4>1 DEF AnswersDsp, Goto, DspThread
    <3>2. CASE IntAnnounced
      <4>1. dsp' = Signal(dsp, "READ_CONTROL") /\ StopRsp' = StopRsp
        BY <3>2 DEF IntAnnounced
      <4> QED BY <1>0, <4>1, SignalDsp DEF AnswersDsp, Goto, DspThread, DspEvents
    <3>3. CASE \/ IntTop \/ IntSubmit \/ IntRefused \/ IntWait \/ IntTimeout \/ IntAnnounce
               \/ IntResume \/ IntEmptyCtl \/ IntCancel \/ IntExit
      <4>1. dsp' = dsp /\ StopRsp' = StopRsp
        BY <3>3 DEF IntTop, IntSubmit, IntRefused, IntWait, IntTimeout, IntAnnounce,
           IntResume, IntEmptyCtl, IntCancel, IntExit, IntAlone
      <4> QED BY <1>0, <4>1 DEF AnswersDsp, Goto, DspThread
    <3> QED BY <2>1, <3>1, <3>2, <3>3 DEF IntNext
  <2>2. CASE ~IntNext
    <3>1. ~(StopRsp' /\ ~StopRsp)
      <4>1. CASE BusNext \/ DeviceNext
        BY <1>0, <4>1 DEF BusNext, BusResponse, BusError, BusEnds, DeviceNext,
           DeviceResponds, DeviceDetaches, IntAlone
      <4>2. CASE ~ServiceStep
        BY <1>0, <4>2, OthersFrame DEF DspStopClear, HaltStopClear, StopClear, DspStopped
      <4> QED BY <2>2, <4>1, <4>2 DEF ServiceStep
    <3>2. ASSUME ~DspNext, AnswersDsp PROVE FALSE
      <4>1. dsp.pc = "rspWait" /\ dsp'.pc = "rspSet"
        BY <1>0, <3>2 DEF AnswersDsp, Goto, DspThread
      <4>2. dsp' = dsp \/ SignalsDsp
        BY <2>2, <3>2, DspOnlySignalled
      <4> QED BY <1>0, <4>1, <4>2, SignalDsp DEF SignalsDsp
    <3> QED BY <3>1, <3>2
  <2> QED BY <2>1, <2>2
<1>2. CASE IntCompletion
  <2>1. transfer' = "NONE" /\ int'.pc # "submit"
    <3>1. transfer' = "NONE" /\ ~IntTop
      BY <1>2 DEF IntCompletion, IntTop
    <3> QED BY <1>2, <3>1, IntPlaces DEF IntNext
  <2> QED BY <2>1 DEF Quiet
<1>3. CASE IntStop /\ transfer = "NONE"
  <2>1. transfer' = "NONE" /\ ~IntTop
    BY <1>3 DEF IntStop, CancelTransfer, IntTop
  <2> QED BY <1>3, <2>1, IntPlaces DEF IntNext, Quiet
<1> QED BY <1>1, <1>2, <1>3

\* Only a wake-up and a power-up end a suspension.
LEMMA StaysSuspended ==
    ASSUME TypeInv, [Next]_vars, dev.PowerSuspended
    PROVE  dev'.PowerSuspended \/ DspWakeup \/ PowerUpDevice
<1>0. dev \in Flags
  BY TypeParts
<1>1. CASE ServiceStep \/ LoopStep
  BY <1>1, ServiceFrame, LoopFrame
<1>2. CASE \/ DspHold \/ DspDequeue \/ DspCancel \/ DspReadControl \/ DspFetch \/ DspFetched
           \/ DspResume \/ DspStopClear \/ DspStopSet \/ DspStopWait \/ DspStopped
           \/ DspPowerUp \/ DspRemoved
  BY <1>2
     DEF DspHold, DspDequeue, DspCancel, DspReadControl, DspFetch, DspFetched, DspResume,
         DspStopClear, DspStopSet, DspStopWait, DspStopped, StopSame, DspPowerUp, DspRemoved
<1>3. CASE DspStandby
  BY <1>0, <1>3 DEF DspStandby, PowerDown, Flags
<1>4. CASE DspFetchFailed
  <2>1. dev' = dev \/ \E b : dev' = [dev EXCEPT !.PRESENT = b]
    BY <1>4 DEF DspFetchFailed
  <2> QED BY <1>0, <2>1 DEF Flags
<1>5. CASE DspForget \/ DspSurpriseRemoval \/ DspQueryRemove \/ DspRemove
  BY <1>0, <1>5 DEF DspForget, DspSurpriseRemoval, DspQueryRemove, DspRemove, Removed, Flags
<1>6. CASE DspPowerDown
  <2> DEFINE stops == dev.DevicePower = "D0" /\ dev.PRESENT
             b == dev.bEncStopped \/ stops
             c == dev.PowerSuspended \/ dev.DevicePower = "D0"
  <2>1. \/ dev' = [PowerDown EXCEPT !.bEncStopped = TRUE]
        \/ dev' = [dev EXCEPT !.bEncStopped = b, !.PowerSuspended = c, !.DevicePower = "D3"]
    BY <1>6 DEF DspPowerDown
  <2>2. c = TRUE
    BY <1>0 DEF Flags
  <2> HIDE DEF b, c
  <2> QED BY <1>0, <2>1, <2>2 DEF PowerDown, Flags
<1>7. CASE PowerUpResume \/ NdisPowersDown \/ NdisPowersUp \/ EndSuspendAsleep
  BY <1>0, <1>7
     DEF PowerUpResume, NdisPowersDown, NdisPowersUp, EndSuspendAsleep, SetStandby,
         SetWakeup, Flags
<1>8. CASE \/ PostControlRead \/ SendCommand \/ Suspend \/ EndSuspend
           \/ SystemPrepares \/ SystemWorks \/ HaltSurprise
  BY <1>0, <1>8
     DEF PostControlRead, SendCommand, Suspend, EndSuspend, SystemPrepares, SystemWorks,
         HaltSurprise, Removed, Flags
<1>9. CASE HaltNext
  BY <1>0, <1>9
     DEF HaltNext, HaltStopClear, HaltStopSet, HaltQueueSurprise, HaltQuery, HaltRemove,
         HaltSends, HaltCancel, HaltDone, Flags
<1> QED BY <1>1, <1>2, <1>3, <1>4, <1>5, <1>6, <1>7, <1>8, <1>9
        DEF Next, ServiceStep, LoopStep, DspNext, ClientNext, PowerNext

\* From the suspend to its end the dispatch thread goes through the stop.
LEMMA SuspendSteps ==
    ASSUME TypeInv, QueueInv, [Next]_vars, Suspending'
    PROVE  \/ DspPowerDown /\ dsp'.pc = "stopClear" /\ dev'.PowerSuspended
           \/ /\ Suspending
              /\ \/ dsp'.pc = dsp.pc
                 \/ DspStopClear /\ dsp'.pc = "stopSet" /\ ~StopRsp'
                 \/ dsp.pc = "stopSet" /\ dsp'.pc = "rspTest"
                 \/ dsp.pc = "rspTest" /\ dsp'.pc = "rspSet" /\ StopRsp
                 \/ dsp.pc = "rspTest" /\ dsp'.pc = "rspWait"
                 \/ dsp.pc = "rspSet" /\ dsp'.pc = "forget"
                 \/ ~DspNext /\ AnswersDsp
<1>0. /\ dsp \in DspThread /\ dsp'.irp = "DOWN" /\ dsp'.pc \in StopPcs
      /\ dsp.irp # "none" => dsp.pc \in StopPcs \cup {"dispatch", "cancelWait"}
  BY TypeParts DEF Suspending, QueueInv
<1>1. CASE ~DspNext
  <2>1. dsp.irp = "DOWN"
    BY <1>0, <1>1, IrpKept
  <2>2. CASE dsp' = dsp
    BY <1>0, <2>2 DEF Suspending
  <2>3. CASE SignalsDsp
    BY <1>0, <2>1, <2>3, SignalDsp DEF SignalsDsp, Suspending, StopPcs
  <2>4. CASE AnswersDsp
    BY <1>1, <2>1, <2>4 DEF AnswersDsp, Suspending, StopPcs
  <2> QED BY <1>1, <2>2, <2>3, <2>4, DspOthers
<1>2. CASE DspNext
  <2>1. ~DspDequeue
    BY <1>0, DspPlaces DEF StopPcs
  <2>2. dsp.irp = "DOWN" /\ dsp.pc \in StopPcs \cup {"dispatch", "cancelWait"}
    BY <1>0, <2>1, IrpKept
  <2>3. CASE DspPowerDown
    BY <1>0, <2>3, PowerDownPlace
  <2>4. CASE DspStopClear
    <3>1. ~StopRsp'
      BY <2>4 DEF DspStopClear, StopClear
    <3> QED BY <2>2, <2>4, <3>1, DspPlaces, DspFrom DEF Suspending, StopPcs
  <2>5. CASE DspStopSet
    BY <2>2, <2>5, DspPlaces, DspFrom DEF Suspending, StopPcs
  <2>6. CASE DspStopWait
    BY <2>2, <2>6, DspPlaces, DspFrom DEF Suspending, StopPcs
  <2>7. CASE DspStopped
    BY <2>2, <2>7, DspPlaces, DspFrom DEF Suspending, StopPcs
  <2>8. CASE DspForget \/ DspSend \/ DspPowerUp \/ DspQueryRemove \/ DspRemoved
    BY <1>0, <2>8, DspPlaces
  <2>9. ~(DspSurpriseRemoval \/ DspRemove)
    BY <2>2, DspFrom
  <2>10. ~(\/ DspReadControlFirst \/ DspIdle \/ DspHold \/ DspExit \/ DspWait \/ DspTimeout
           \/ DspStart \/ DspCancel \/ DspReadControl \/ DspFetch \/ DspFetchFailed
           \/ DspFetched \/ DspFetchDone \/ DspStandby \/ DspWakeup \/ DspResume)
    <3>1. dsp.pc \notin DspEvents
                       \cup {"top", "wait", "blocked", "fetch", "fetched", "resume"}
      BY <2>2 DEF DspEvents, StopPcs
    <3> QED BY <3>1, DspFrom
  <2> QED BY <1>2, <2>1, <2>3, <2>4, <2>5, <2>6, <2>7, <2>8, <2>9, <2>10 DEF DspNext
<1> QED BY <1>1, <1>2

LEMMA StopStep == ASSUME TypeInv, QueueInv, StopInv, [Next]_vars PROVE StopInv'
<1> SUFFICES ASSUME Suspending'
             PROVE  /\ dev'.PowerSuspended
                    /\ StopRsp' /\ dsp'.pc # "stopClear" => Quiet'
                    /\ dsp'.pc \in {"rspSet", "forget"} => Quiet'
  BY DEF StopInv
<1>1. CASE DspPowerDown /\ dsp'.pc = "stopClear" /\ dev'.PowerSuspended
  BY <1>1
<1>2. CASE Suspending
  <2>1. /\ dsp.irp = "DOWN" /\ dsp.pc \in StopPcs /\ power = "queued"
        /\ dev.PowerSuspended
        /\ StopRsp /\ dsp.pc # "stopClear" => Quiet
        /\ dsp.pc \in {"rspSet", "forget"} => Quiet
    BY <1>2 DEF QueueInv, StopInv, Suspending, PowerIrps
  <2>2. dev'.PowerSuspended
    <3>1. ~DspWakeup
      BY <2>1, DspFrom DEF StopPcs, DspEvents
    <3>2. ~PowerUpDevice
      BY <2>1 DEF PowerUpDevice
    <3> QED BY <2>1, <3>1, <3>2, StaysSuspended
  <2>3. CASE ~DspNext /\ AnswersDsp
    BY <2>2, <2>3, AnswerIsQuiet
  <2>4. CASE DspStopClear /\ dsp'.pc = "stopSet" /\ ~StopRsp'
    BY <2>2, <2>4
  <2>5. CASE \/ dsp.pc # "stopClear" /\ dsp'.pc = dsp.pc
             \/ dsp.pc = "stopSet" /\ dsp'.pc = "rspTest"
             \/ dsp.pc = "rspTest" /\ dsp'.pc = "rspSet" /\ StopRsp
             \/ dsp.pc = "rspTest" /\ dsp'.pc = "rspWait"
             \/ dsp.pc = "rspSet" /\ dsp'.pc = "forget"
    <3>1. dsp.pc # "stopClear"
      BY <2>5
    <3>2. StopRsp' => Quiet'
      BY <2>1, <3>1, StaysQuiet, AnswerIsQuiet
    <3>3. dsp'.pc \in {"rspSet", "forget"} => Quiet
      BY <2>1, <2>5
    <3> QED BY <2>1, <2>2, <3>2, <3>3, StaysQuiet
  <2>6. CASE dsp'.pc = dsp.pc /\ dsp.pc = "stopClear"
    BY <2>2, <2>6
  <2> QED BY <1>1, <1>2, <2>3, <2>4, <2>5, <2>6, SuspendSteps
<1> QED BY <1>1, <1>2, SuspendSteps

\* Only the removal tells the interrupt thread to end.
LEMMA EndingStep == ASSUME TypeInv, [Next]_vars, Ending' PROVE Ending \/ DspRemove
<1>1. CASE IntNext
  <2>1. IntCancel => int.pc = "CANCEL"
    BY DEF IntCancel
  <2> QED BY <1>1, <2>1, IntPlaces DEF Ending
<1>2. CASE ~IntNext
  BY <1>2, IntOthersPlace DEF Ending, IntEvents
<1> QED BY <1>1, <1>2

LEMMA EndStep == ASSUME TypeInv, QueueInv, EndInv, [Next]_vars PROVE EndInv'
<1>1. int'.pc \in {"exit", "terminated"} => transfer' = "NONE"
  <2>1. CASE IntNext
    <3>1. ASSUME IntCompletion PROVE transfer' = "NONE"
      BY <3>1 DEF IntCompletion
    <3>2. ASSUME int'.pc = "exit", IntCancel, transfer = "NONE" PROVE transfer' = "NONE"
      BY <3>2 DEF IntCancel, CancelTransfer
    <3>3. ASSUME int.pc = "exit" PROVE transfer' = "NONE"
      BY <3>3, NothingInFlight DEF EndInv
    <3> QED BY <2>1, <3>1, <3>2, <3>3, IntPlaces
  <2>2. CASE ~IntNext
    <3>1. int'.pc \in {"exit", "terminated"} => int.pc = int'.pc
      BY <2>2, IntOthersPlace DEF IntEvents
    <3> QED BY <3>1, NothingInFlight DEF EndInv
  <2> QED BY <2>1, <2>2
<1> DEFINE none == halt # "no" /\ EncapsulatedDataQueue = 0 /\ CtlCompletionQueue = 0
<1>2. none => none'
  <2>1. ASSUME none
        PROVE  EncapsulatedDataQueue' = 0 /\ CtlCompletionQueue' = 0
    BY <2>1, ReadsStep DEF ReadsSame, ReadsPurged, ReadGiven, ReadPosted
  <2> QED BY <2>1, HaltIsForEver
<1>3. dsp'.irp = "REMOVE" \/ Ending' => none'
  <2>1. CASE DspDequeue /\ Head(DispatchQueue) = "REMOVE"
    <3>1. /\ DispatchQueue # <<>> /\ ~OtherIrps
          /\ EncapsulatedDataQueue \in Nat /\ CtlCompletionQueue \in Nat
          /\ DispatchQueue \in Seq(Irps)
      BY <2>1, TypeParts DEF DspDequeue, MustHold
    <3>2. EncapsulatedDataQueue = 0 /\ CtlCompletionQueue = 0
      BY <3>1 DEF OtherIrps, RemoveLockHeld
    <3>3. halt # "no"
      BY <2>1, <3>1, QueueTakes DEF QueueInv
    <3> QED BY <1>2, <3>2, <3>3
  <2>2. CASE ~(DspDequeue /\ Head(DispatchQueue) = "REMOVE")
    <3>1. dsp'.irp = "REMOVE" => dsp.irp = "REMOVE"
      BY <2>2, IrpKept, DspPlaces
    <3>2. Ending' => Ending \/ dsp.irp = "REMOVE"
      BY EndingStep, DspFrom
    <3> QED BY <1>2, <3>1, <3>2 DEF EndInv
  <2> QED BY <2>1, <2>2
<1> QED BY <1>1, <1>3 DEF EndInv

LEMMA InitQuiet == ASSUME Init PROVE QuietInv
<1>1. PICK bounds \in AnyBounds : InitWith(bounds)
  BY DEF Init
<1>2. /\ int.pc = "top" /\ int.set = {} /\ ~int.bCancelled /\ transfer = "NONE"
      /\ dsp.pc = "top" /\ dsp.irp = "none" /\ DispatchQueue = <<>>
  BY <1>1 DEF InitWith
<1>3. QueueInv
  <2>1. PowerFirst(DispatchQueue, power = "queued" /\ dsp.irp \notin PowerIrps, halt # "no")
    BY <1>2 DEF PowerFirst
  <2> QED BY <1>2, <2>1 DEF QueueInv, PowerIrps
<1>4. StopInv /\ EndInv
  BY <1>2 DEF StopInv, Suspending, EndInv, Ending
<1> QED BY <1>3, <1>4 DEF QuietInv

\* What stops or ends the interrupt service finds it quiet: when the dispatch
\* thread powers the device down for a selective suspend, no transfer is in
\* flight and none can be submitted, even if the answer it got was to an
\* earlier stop; and the interrupt thread ends with its transfer back and no
\* control read left to complete.
THEOREM ServiceEndsQuiet == Spec => []ServiceIsQuiet
<1>1. TypeInv /\ QuietInv /\ [Next]_vars => QuietInv'
  BY QueueStep, StopStep, EndStep DEF QuietInv
<1>2. QuietInv => ServiceIsQuiet
  <2>1. ASSUME QuietInv PROVE StopIsQuiet
    BY <2>1 DEF QuietInv, StopInv, Suspending, StopPcs, Quiet, StopIsQuiet
  <2>2. ASSUME QuietInv PROVE ExitIsQuiet
    BY <2>2 DEF QuietInv, EndInv, Ending, ExitIsQuiet
  <2> QED BY <2>1, <2>2 DEF ServiceIsQuiet
<1> QED BY <1>1, <1>2, InitQuiet, TypeIsInvariant, PTL DEF Spec
=============================================================================
