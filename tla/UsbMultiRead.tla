---------------------------- MODULE UsbMultiRead ----------------------------
(***************************************************************************)
(* The multi-read pipeline of the USB transport (transport/usb/USBMRD.c    *)
(* and the read part of USBRD.c).                                          *)
(*                                                                         *)
(* NumberOfL2Buffers bulk-IN transfers are kept outstanding.  The level-2  *)
(* thread (L2) submits the ring's READY buffers to the lower driver and    *)
(* marks them COMPLETED when the completion routine hands them back; the   *)
(* level-1 thread (L1) fills the clients' read IRPs from the COMPLETED     *)
(* buffers, in ring order, and makes them READY again.  The dispatch       *)
(* thread and the interrupt thread stop and resume both threads through a  *)
(* chain of events and acknowledgements; closing the device cancels them.  *)
(*                                                                         *)
(* The module models the path without downlink aggregation: one buffer     *)
(* fills one read IRP.                                                     *)
(***************************************************************************)
EXTENDS Naturals, Sequences, SequencesExt, Subsequences, KernelEvents

CONSTANTS
    NumberOfL2Buffers,    \* buffers of the ring
    NumOfRetriesOnError,  \* registry value, gVendorConfig.NumOfRetriesOnError
    ContinueOnDataError,  \* registry value
    Requesters,           \* threads that call USBRD_SetStopState
    DispatchThread,       \* the requester that also serves purges
    MaxFrames,            \* bound: data frames the device sends
    MaxBadTransfers,      \* bound: transfers that fail, carry no data or a
                          \* packet that is too large
    MaxInline,            \* bound: transfers for which IoCallDriver returns
                          \* another status than STATUS_PENDING
    MaxReadIrps,          \* bound: read IRPs the clients send
    MaxRequests,          \* bound: stop and resume requests
    MaxPurges,            \* bound: purge requests
    MaxCancels            \* bound: cancellations of the read threads

ASSUME BuffersAssumption == NumberOfL2Buffers \in Nat \ {0, 1}
ASSUME RetriesAssumption == /\ NumOfRetriesOnError \in Nat
                            /\ ContinueOnDataError \in BOOLEAN
ASSUME RequestersAssumption == DispatchThread \in Requesters
ASSUME BoundsAssumption ==
    /\ MaxFrames \in Nat /\ MaxBadTransfers \in Nat /\ MaxInline \in Nat
    /\ MaxReadIrps \in Nat /\ MaxRequests \in Nat /\ MaxPurges \in Nat /\ MaxCancels \in Nat

Idx == 0 .. NumberOfL2Buffers - 1
NextIdxUnwrapped(i) == i + 1  \* fault: the index does not wrap
NextIdx(i) == IF i + 1 = NumberOfL2Buffers THEN 0 ELSE i + 1

\* Indices of the events in the arrays the two threads wait on.
L1Events == {"CANCEL", "KICK", "COMPLETION", "PURGE", "STOP", "RESUME"}
L1Index == [CANCEL |-> 1, KICK |-> 2, COMPLETION |-> 3, PURGE |-> 5,
            STOP |-> 6, RESUME |-> 7]
L2Events == {"CANCEL", "KICK", "STOP", "RESUME", "USB"}
L2Index == [CANCEL |-> 1, KICK |-> 2, STOP |-> 4, RESUME |-> 5, USB |-> 6]

L1Pcs == L1Events \cup {"wait", "blocked", "fill", "checkKick", "stopSignal",
                        "stopWait", "resumeWait", "cancelWait", "purgeWait",
                        "exit", "terminated", "none"}
L2Pcs == L2Events \cup {"submit", "advance", "wait", "blocked", "clear",
                        "complete", "stopSelf", "notify", "terminated",
                        "none"}
RequesterPcs == {"idle", "stopSignal", "stopWait", "stopPoll", "stopAcked",
                 "reset", "resumeSignal", "resumeWait", "resumePoll",
                 "resumeAcked"}
Acknowledgements == {"L2Stop", "L2Resume", "L1Stop", "L1Resume",
                     "DispatchPurge", "DispatchPurgeComplete", "PurgeIrp"}

Failed(status) == status \in {"CANCELLED", "ERROR"}

VARIABLES
    buf,                \* pL2ReadBuffer: State, Status, Frame of each buffer
    irp,                \* its IRP: Status ("PENDING" while the lower driver
                        \* holds it), Frame (0: no data, or a packet larger
                        \* than the MTU allows), Cancel
    L2IrpEndIdx,        \* next buffer to submit
    L2FillIdx,          \* next buffer to give to a read IRP
    L2PendingQueue,     \* buffers submitted to the lower driver
    L2CompletionQueue,  \* buffers the completion routine handed back
    ReadDataQueue,      \* number of read IRPs that wait
    dev,                \* present (and started), bL2Polling, PowerSuspended
    events,             \* acknowledgement and purge events that are set, and
                        \* "PurgeIrp" while a purge has not been completed
    l1,                 \* the L1 thread
    l2,                 \* the L2 thread; gaveUp: history, TRUE once it has
                        \* stopped itself in the middle of a cancellation
    rpc,                \* where each caller of USBRD_SetStopState stands
    canceller,          \* the caller of USBRD_CancelReadThread
    count,              \* what the bounds count; overlaps: history, "stops",
                        \* "resumes" or "crossed" once two stops, two resumes
                        \* or one of each have been under way at a time
    delivered,          \* history: frames given to read IRPs, in order
    misuse              \* history: "stale" once a buffer was made READY or
                        \* COMPLETED with its completion outstanding,
                        \* "broken" once an IRP in use was used again

ring   == <<buf, irp, L2IrpEndIdx, L2FillIdx>>
queues == <<L2PendingQueue, L2CompletionQueue>>
others == <<rpc, canceller, count>>
vars == <<ring, queues, ReadDataQueue, dev, events, l1, l2, others,
          delivered, misuse>>

-----------------------------------------------------------------------------
ReadyBuffer == [State |-> "READY", Status |-> "PENDING", Frame |-> 0]

\* L2 has finished transfers to process: on its queue, or just taken off it.
CompletionsOutstanding ==
    L2CompletionQueue # <<>> \/ l2.pc \in {"clear", "complete"}

\* USBMRD_ResetL2Buffers.  IoReuseIrp leaves the URB and the data alone; on an
\* IRP that the lower driver holds it is undefined, and the model stops there.
ResetL2Buffers ==
    /\ buf' = [i \in Idx |-> ReadyBuffer]
    /\ irp' = [i \in Idx |-> [irp[i] EXCEPT !.Status = "SUCCESS",
                                            !.Cancel = FALSE]]
    /\ L2IrpEndIdx' = 0
    /\ L2FillIdx' = 0
    /\ misuse' = IF L2PendingQueue # <<>> THEN "broken"
                 ELSE IF CompletionsOutstanding THEN "stale"
                 ELSE misuse

L1Alive == l1.pc # "none"
L2Alive == l2.pc # "none"

NewL1(set, errors) ==
    [pc |-> "wait", set |-> set, bL1Stopped |-> FALSE,
     bL1InCancellation |-> FALSE, oldFillIdx |-> 0, RdErrorCount |-> errors]
NewL2(set) ==
    [pc |-> "submit", set |-> set, bL2Stopped |-> TRUE, state |-> "WORKING",
     pActiveL2Buf |-> 0, devBusyCnt |-> 0, devErrCnt |-> 0,
     gaveUp |-> FALSE]

\* Both threads have just been created; polling has not started.  A model may
\* start with some of its bounds spent.
InitWith(spent) ==
    /\ buf = [i \in Idx |-> ReadyBuffer]
    /\ irp = [i \in Idx |->
                [Status |-> "SUCCESS", Frame |-> 0, Cancel |-> FALSE]]
    /\ L2IrpEndIdx = 0 /\ L2FillIdx = 0
    /\ L2PendingQueue = <<>> /\ L2CompletionQueue = <<>>
    /\ ReadDataQueue = 0
    /\ dev = [present |-> TRUE, bL2Polling |-> FALSE,
              PowerSuspended |-> FALSE]
    /\ events = {}
    /\ l1 = NewL1({}, 0)
    /\ l2 = NewL2({})
    /\ rpc = [r \in Requesters |-> "idle"] /\ canceller = "idle"
    /\ count = spent
    /\ delivered = <<>> /\ misuse = "none"

NothingSpent == [sent |-> 0, bad |-> 0, inline |-> 0, reads |-> 0,
                 requests |-> 0, purges |-> 0, cancels |-> 0,
                 overlaps |-> {}]
Init == InitWith(NothingSpent)

\* Undefined behaviour has no next state.
Defined == misuse # "broken"

-----------------------------------------------------------------------------
(***************************************************************************)
(* The lower driver.  Transfers of one pipe are served in the order they   *)
(* were submitted; a cancelled one may end at any time.  The completion    *)
(* routines of finished transfers run in any order.                        *)
(***************************************************************************)
Held(i) == i \in Range(L2PendingQueue) /\ irp[i].Status = "PENDING"
Served(i) == \E k \in DOMAIN L2PendingQueue :
                /\ L2PendingQueue[k] = i /\ Held(i)
                /\ \A j \in 1 .. k - 1 : ~Held(L2PendingQueue[j])

Finish(i, status, frame) ==
    irp' = [irp EXCEPT ![i].Status = status, ![i].Frame = frame]
BusStep == /\ Defined
           /\ UNCHANGED <<buf, L2IrpEndIdx, L2FillIdx, queues, ReadDataQueue,
                          dev, events, l1, l2, rpc, canceller, delivered,
                          misuse>>

BusData ==
    /\ dev.present
    /\ count.sent < MaxFrames
    /\ count' = [count EXCEPT !.sent = @ + 1]
    /\ \E i \in Idx : Served(i) /\ Finish(i, "SUCCESS", count.sent + 1)
    /\ BusStep

BusBadTransfer ==
    /\ count.bad < MaxBadTransfers
    /\ count' = [count EXCEPT !.bad = @ + 1]
    /\ \E i \in Idx, status \in {"SUCCESS", "ERROR"} :
          Served(i) /\ Finish(i, status, 0)
    /\ BusStep

BusCancelled ==
    /\ \E i \in Idx : /\ Held(i) /\ irp[i].Cancel
                      /\ Finish(i, "CANCELLED", 0)
    /\ UNCHANGED count
    /\ BusStep

\* Runs under L2Lock.
MultiReadCompletionRoutine ==
    /\ Defined
    /\ \E k \in DOMAIN L2PendingQueue :
          /\ irp[L2PendingQueue[k]].Status # "PENDING"
          /\ L2PendingQueue' = RemoveAt(L2PendingQueue, k)
          /\ L2CompletionQueue' = Append(L2CompletionQueue, L2PendingQueue[k])
    /\ l2' = Signal(l2, "USB")
    /\ UNCHANGED <<ring, ReadDataQueue, dev, events, l1, others, delivered,
                   misuse>>

-----------------------------------------------------------------------------
(***************************************************************************)
(* The L2 thread.                                                          *)
(***************************************************************************)
L2Frame == /\ Defined
           /\ UNCHANGED <<L2FillIdx, ReadDataQueue, dev, rpc, canceller,
                          delivered>>
L2Step == L2Frame /\ UNCHANGED count

\* Fault: the state of the buffer is not tested.
CanSubmitUnready == dev.present /\ dev.bL2Polling /\ ~l2.bL2Stopped
CanSubmit == /\ buf[L2IrpEndIdx].State = "READY"
             /\ dev.present /\ dev.bL2Polling /\ ~l2.bL2Stopped

\* Top of the loop: submit the next READY buffer.
L2Submit ==
    /\ l2.pc = "submit" /\ CanSubmit
    /\ buf' = [buf EXCEPT ![L2IrpEndIdx].State = "PENDING"]
    /\ irp' = [irp EXCEPT ![L2IrpEndIdx] =
                  [Status |-> "PENDING", Frame |-> 0, Cancel |-> FALSE]]
    /\ L2PendingQueue' = Append(L2PendingQueue, L2IrpEndIdx)
    /\ misuse' = IF L2IrpEndIdx \in Range(L2PendingQueue)
                                    \cup Range(L2CompletionQueue)
                 THEN "broken" ELSE misuse
    /\ l2' = Goto(l2, "advance")
    /\ UNCHANGED <<L2IrpEndIdx, L2CompletionQueue, events, l1>>
    /\ L2Step

L2SubmitDone ==
    /\ l2.pc = "submit" /\ ~CanSubmit
    /\ l2' = Goto(l2, "wait")
    /\ UNCHANGED <<buf, irp, L2IrpEndIdx, queues, events, l1, misuse>>
    /\ L2Step

\* IoCallDriver returned STATUS_PENDING.
L2Advance ==
    /\ l2.pc = "advance"
    /\ L2IrpEndIdx' = NextIdx(L2IrpEndIdx)
    /\ l2' = [l2 EXCEPT !.pc = "submit", !.devErrCnt = 0]
    /\ UNCHANGED <<buf, irp, queues, events, l1, misuse>>
    /\ L2Step

\* IoCallDriver returned the status of a transfer that is already complete.
\* The length of the buffer's record is still that of a READY buffer.
L2AdvanceInline ==
    /\ l2.pc = "advance" /\ count.inline < MaxInline
    /\ count' = [count EXCEPT !.inline = @ + 1]
    /\ L2IrpEndIdx \in Range(L2CompletionQueue)
    /\ L2IrpEndIdx' = NextIdx(L2IrpEndIdx)
    /\ LET status == irp[L2IrpEndIdx].Status
           errors == IF Failed(status) THEN l2.devErrCnt + 1 ELSE 0
       IN  /\ buf' = [buf EXCEPT ![L2IrpEndIdx].State = "COMPLETED",
                                 ![L2IrpEndIdx].Status = status]
           /\ l2' = IF errors > 3
                    THEN [l2 EXCEPT !.pc = "submit", !.devErrCnt = errors,
                                    !.bL2Stopped = TRUE, !.state = "STOPPING",
                                    !.set = @ \cup {"STOP"}]
                    ELSE [l2 EXCEPT !.pc = "submit", !.devErrCnt = errors]
    /\ misuse' = "stale"
    /\ UNCHANGED <<irp, queues, events, l1>>
    /\ L2Frame

L2Wait ==
    /\ l2.pc = "wait"
    /\ l2' = WaitAny(l2, L2Index)
    /\ UNCHANGED <<buf, irp, L2IrpEndIdx, queues, events, l1, misuse>>
    /\ L2Step

L2Kick ==
    /\ l2.pc = "KICK"
    /\ l2' = Clear(l2, "KICK", "submit")
    /\ UNCHANGED <<buf, irp, L2IrpEndIdx, queues, events, l1, misuse>>
    /\ L2Step

\* IoCancelIrp on USBMRD_L2NextActive, the head of the pending queue.
ActiveOffByOne == Len(L2PendingQueue) > 1  \* fault
Active == L2PendingQueue # <<>>
CancelNextActive == irp' = [irp EXCEPT ![Head(L2PendingQueue)].Cancel = TRUE]

\* A thread that ends empties the completion queue.
L2Cancel ==
    /\ l2.pc = "CANCEL"
    /\ \/ /\ Active
          /\ CancelNextActive
          /\ l2' = [Clear(l2, "CANCEL", "wait") EXCEPT !.bL2Stopped = TRUE,
                                                       !.state = "CANCELLING"]
          /\ UNCHANGED L2CompletionQueue
       \/ /\ ~Active
          /\ l2' = [Clear(l2, "CANCEL", "terminated") EXCEPT !.bL2Stopped = TRUE]
          /\ L2CompletionQueue' = <<>>
          /\ UNCHANGED irp
    /\ UNCHANGED <<buf, L2IrpEndIdx, L2PendingQueue, events, l1, misuse>>
    /\ L2Step

\* A cancellation under way supersedes the stop.
L2Stop ==
    /\ l2.pc = "STOP"
    /\ \/ /\ l2.state = "CANCELLING"
          /\ l2' = Clear(l2, "STOP", "wait")
          /\ UNCHANGED <<irp, events>>
       \/ /\ l2.state # "CANCELLING" /\ Active
          /\ CancelNextActive
          /\ l2' = [Clear(l2, "STOP", "wait") EXCEPT !.bL2Stopped = TRUE,
                                                     !.state = "STOPPING"]
          /\ UNCHANGED events
       \/ /\ l2.state # "CANCELLING" /\ ~Active
          /\ l2' = [Clear(l2, "STOP", "submit") EXCEPT !.bL2Stopped = TRUE]
          /\ events' = events \cup {"L2Stop"}
          /\ UNCHANGED irp
    /\ UNCHANGED <<buf, L2IrpEndIdx, queues, l1, misuse>>
    /\ L2Step

L2Resume ==
    /\ l2.pc = "RESUME"
    /\ l2' = [Clear(l2, "RESUME", "submit") EXCEPT
                !.bL2Stopped = ~dev.present \/ dev.PowerSuspended]
    /\ events' = events \cup {"L2Resume"}
    /\ UNCHANGED <<buf, irp, L2IrpEndIdx, queues, l1, misuse>>
    /\ L2Step

\* The read completion event: take one buffer off the completion queue.
L2Dequeue ==
    /\ l2.pc = "USB"
    /\ \/ /\ L2CompletionQueue = <<>>
          /\ l2' = Goto(l2, "submit")
          /\ UNCHANGED L2CompletionQueue
       \/ /\ L2CompletionQueue # <<>>
          /\ L2CompletionQueue' = Tail(L2CompletionQueue)
          /\ l2' = [l2 EXCEPT
                      !.pActiveL2Buf = Head(L2CompletionQueue),
                      !.pc = IF Len(L2CompletionQueue) = 1 THEN "clear"
                                                           ELSE "complete"]
    /\ UNCHANGED <<buf, irp, L2IrpEndIdx, L2PendingQueue, events, l1, misuse>>
    /\ L2Step

\* The queue was found empty after L2Lock was released; clear the event.
L2ClearEvent ==
    /\ l2.pc = "clear"
    /\ l2' = Clear(l2, "USB", "complete")
    /\ UNCHANGED <<buf, irp, L2IrpEndIdx, queues, events, l1, misuse>>
    /\ L2Step

\* devBusyCnt counts the failures since the thread began.
TooManyErrors == l2.devBusyCnt + 1 >= NumOfRetriesOnError + 2

CompletedBuffer(i) == [State |-> "COMPLETED", Status |-> irp[i].Status,
                       Frame |-> irp[i].Frame]
\* Fault: completions are taken to arrive in ring order.
RecordInRingOrder(i) ==
    buf' = [buf EXCEPT ![L2FillIdx] = CompletedBuffer(i)]
RecordCompletion(i) == buf' = [buf EXCEPT ![i] = CompletedBuffer(i)]

L2Complete ==
    /\ l2.pc = "complete"
    /\ LET transfer == irp[l2.pActiveL2Buf]
       IN  /\ RecordCompletion(l2.pActiveL2Buf)
           /\ l2' = IF transfer.Status # "ERROR" THEN Goto(l2, "notify")
                    ELSE IF TooManyErrors
                    THEN [l2 EXCEPT !.pc = "stopSelf", !.devBusyCnt = 0,
                                    !.bL2Stopped = TRUE,
                                    !.gaveUp = l2.state = "CANCELLING"]
                    ELSE [l2 EXCEPT !.pc = "notify", !.devBusyCnt = @ + 1]
    /\ UNCHANGED <<irp, L2IrpEndIdx, queues, events, l1, misuse>>
    /\ L2Step

\* Unlike L2Notify, this does not go on with a cancellation under way.
L2StopSelf ==
    /\ l2.pc = "stopSelf"
    /\ l2' = [l2 EXCEPT !.pc = "wait", !.set = @ \cup {"STOP"}]
    /\ l1' = Signal(l1, "COMPLETION")
    /\ UNCHANGED <<buf, irp, L2IrpEndIdx, queues, events, misuse>>
    /\ L2Step

\* Notify L1, then go on with a stop or a cancellation under way.  Without a
\* device L2 stops itself.
L2Notify ==
    /\ l2.pc = "notify"
    /\ l1' = Signal(l1, "COMPLETION")
    /\ \/ /\ l2.state # "WORKING" /\ Active
          /\ CancelNextActive
          /\ l2' = Goto(l2, "wait")
          /\ UNCHANGED <<events, L2CompletionQueue>>
       \/ /\ ~(l2.state # "WORKING" /\ Active)
          /\ LET cancelled == l2.state = "CANCELLING"
             IN  /\ l2' = [l2 EXCEPT
                        !.state = "WORKING",
                        !.bL2Stopped = @ \/ ~dev.present,
                        !.set = IF dev.present THEN @ ELSE @ \cup {"STOP"},
                        !.pc = IF cancelled THEN "terminated" ELSE "submit"]
                 /\ L2CompletionQueue' =
                        IF cancelled THEN <<>> ELSE L2CompletionQueue
          /\ events' = IF l2.state = "STOPPING" THEN events \cup {"L2Stop"}
                                                ELSE events
          /\ UNCHANGED irp
    /\ UNCHANGED <<buf, L2IrpEndIdx, L2PendingQueue, misuse>>
    /\ L2Step

-----------------------------------------------------------------------------
(***************************************************************************)
(* The L1 thread.                                                          *)
(***************************************************************************)
L1Step == /\ Defined
          /\ UNCHANGED <<L2IrpEndIdx, queues, canceller, count>>
L1NoData == UNCHANGED <<buf, irp, L2FillIdx, dev, delivered, misuse>>

\* With a filled buffer and a read IRP at hand L1 does not look at its events.
L1Wait ==
    /\ l1.pc = "wait"
    /\ l1' = IF /\ ~l1.bL1Stopped /\ ReadDataQueue > 0
                /\ buf[L2FillIdx].State = "COMPLETED"
             THEN Goto(l1, "COMPLETION") ELSE WaitAny(l1, L1Index)
    /\ UNCHANGED <<ReadDataQueue, events, l2, rpc>>
    /\ L1NoData /\ L1Step

L1Completion ==
    /\ l1.pc = "COMPLETION"
    /\ l1' = Clear(l1, "COMPLETION", IF l1.bL1Stopped THEN "wait" ELSE "fill")
    /\ UNCHANGED <<ReadDataQueue, events, l2, rpc>>
    /\ L1NoData /\ L1Step

L1Kick ==
    /\ l1.pc = "KICK"
    /\ l1' = Clear(l1, "KICK", IF l1.bL1Stopped THEN "wait" ELSE "fill")
    /\ l2' = IF l1.bL1Stopped THEN l2 ELSE Signal(l2, "KICK")
    /\ UNCHANGED <<ReadDataQueue, events, rpc>>
    /\ L1NoData /\ L1Step

RecycleInPlace ==  \* fault: L2FillIdx is not advanced
    /\ buf' = [buf EXCEPT ![L2FillIdx] = ReadyBuffer]
    /\ UNCHANGED L2FillIdx

\* The buffer goes back to L2; L1 remembers its index for the kick.
RecycleL2FillBuffer ==
    /\ buf' = [buf EXCEPT ![L2FillIdx] = ReadyBuffer]
    /\ L2FillIdx' = NextIdx(L2FillIdx)

\* A transfer without data, or with a packet that the read IRPs cannot take, is
\* dropped.
L1Drop ==
    /\ l1.pc = "fill"
    /\ buf[L2FillIdx] = [State |-> "COMPLETED", Status |-> "SUCCESS",
                         Frame |-> 0]
    /\ RecycleL2FillBuffer
    /\ l1' = [l1 EXCEPT !.pc = "checkKick", !.oldFillIdx = L2FillIdx]
    /\ UNCHANGED <<irp, ReadDataQueue, dev, delivered, misuse, events, l2, rpc>>
    /\ L1Step

\* Any other one completes the read IRP at the head of the queue.  Without an
\* IRP, data stays in the buffer and a failure is forgotten.  Too many failures
\* in a row mark the device as removed.
L1FillReadRequest ==
    /\ l1.pc = "fill"
    /\ LET b == buf[L2FillIdx]
           fill == ReadDataQueue > 0
           consumed == fill \/ Failed(b.Status)
           errors == IF b.Status = "ERROR" THEN l1.RdErrorCount + 1 ELSE 0
           gone == errors > NumOfRetriesOnError /\ ~ContinueOnDataError
       IN  /\ b.State = "COMPLETED" /\ (Failed(b.Status) \/ b.Frame # 0)
           /\ dev' = [dev EXCEPT !.present = @ /\ ~gone]
           /\ ReadDataQueue' = IF fill THEN ReadDataQueue - 1 ELSE 0
           /\ delivered' = IF fill /\ ~Failed(b.Status)
                           THEN Append(delivered, b.Frame) ELSE delivered
           /\ IF consumed THEN RecycleL2FillBuffer
                          ELSE UNCHANGED <<buf, L2FillIdx>>
           /\ l1' = [l1 EXCEPT
                 !.pc = IF consumed THEN "checkKick" ELSE "wait",
                 !.oldFillIdx = IF consumed THEN L2FillIdx ELSE @,
                 !.RdErrorCount = IF gone THEN NumOfRetriesOnError ELSE errors,
                 !.bL1Stopped = @ \/ gone \/ ~dev.present]
    /\ UNCHANGED <<irp, misuse, events, l2, rpc>>
    /\ L1Step

L1NothingToFill ==
    /\ l1.pc = "fill"
    /\ buf[L2FillIdx].State # "COMPLETED"
    /\ l1' = Goto(l1, "wait")
    /\ UNCHANGED <<ReadDataQueue, events, l2, rpc>>
    /\ L1NoData /\ L1Step

\* L2 stands at the buffer that L1 has just recycled.
L2IsBehind == NextIdx(l1.oldFillIdx) = L2IrpEndIdx  \* fault
L2Waits == l1.oldFillIdx = L2IrpEndIdx

L1CheckKick ==
    /\ l1.pc = "checkKick"
    /\ l1' = Goto(l1, "wait")
    /\ l2' = IF L2Waits THEN Signal(l2, "KICK") ELSE l2
    /\ UNCHANGED <<ReadDataQueue, events, rpc>>
    /\ L1NoData /\ L1Step

L1Stop ==
    /\ l1.pc = "STOP"
    /\ l1' = [Clear(l1, "STOP", "stopSignal") EXCEPT !.bL1Stopped = TRUE]
    /\ events' = events \ {"L2Stop"}
    /\ UNCHANGED <<ReadDataQueue, l2, rpc>>
    /\ L1NoData /\ L1Step

L1StopSignal ==
    /\ l1.pc = "stopSignal"
    /\ l1' = Goto(l1, "stopWait")
    /\ l2' = Signal(l2, "STOP")
    /\ UNCHANGED <<ReadDataQueue, events, rpc>>
    /\ L1NoData /\ L1Step

\* KeSetEvent on the acknowledgement ends the wait of every waiting requester.
Acknowledge(waiting, acked) ==
    rpc' = [r \in Requesters |-> IF rpc[r] = waiting THEN acked ELSE rpc[r]]

L1StopDone ==
    /\ l1.pc = "stopWait" /\ "L2Stop" \in events
    /\ events' = (events \ {"L2Stop"}) \cup {"L1Stop"}
    /\ Acknowledge("stopWait", "stopAcked")
    /\ l1' = Goto(l1, "wait")
    /\ UNCHANGED <<ReadDataQueue, l2>>
    /\ L1NoData /\ L1Step

\* bDeviceRemoved is FALSE while the threads run.
L1Resume ==
    /\ l1.pc = "RESUME"
    /\ l1' = [Clear(l1, "RESUME", "resumeWait") EXCEPT !.bL1Stopped = FALSE]
    /\ events' = events \ {"L2Resume"}
    /\ l2' = Signal(l2, "RESUME")
    /\ UNCHANGED <<ReadDataQueue, rpc>>
    /\ L1NoData /\ L1Step

L1ResumeDone ==
    /\ l1.pc = "resumeWait" /\ "L2Resume" \in events
    /\ events' = (events \ {"L2Resume"}) \cup {"L1Resume"}
    /\ Acknowledge("resumeWait", "resumeAcked")
    /\ l1' = Goto(l1, "wait")
    /\ UNCHANGED <<ReadDataQueue, l2>>
    /\ L1NoData /\ L1Step

\* L1 purges the read queue and leaves the dispatch queue to its thread.
L1Purge ==
    /\ l1.pc = "PURGE"
    /\ l1' = Clear(l1, "PURGE", "purgeWait")
    /\ ReadDataQueue' = 0
    /\ events' = (events \ {"DispatchPurgeComplete"}) \cup {"DispatchPurge"}
    /\ UNCHANGED <<l2, rpc>>
    /\ L1NoData /\ L1Step

L1PurgeDone ==
    /\ l1.pc = "purgeWait" /\ "DispatchPurgeComplete" \in events
    /\ l1' = Goto(l1, "wait")
    /\ events' = events \ {"PurgeIrp"}
    /\ UNCHANGED <<ReadDataQueue, l2, rpc>>
    /\ L1NoData /\ L1Step

L1Cancel ==
    /\ l1.pc = "CANCEL"
    /\ l1' = [Clear(l1, "CANCEL", "cancelWait") EXCEPT
                !.bL1Stopped = TRUE, !.bL1InCancellation = TRUE]
    /\ l2' = Signal(l2, "CANCEL")
    /\ UNCHANGED <<ReadDataQueue, events, rpc>>
    /\ L1NoData /\ L1Step

L1CancelDone ==
    /\ l1.pc = "cancelWait" /\ l2.pc = "terminated"
    /\ l1' = Goto(l1, "exit")
    /\ l2' = Goto(l2, "none")
    /\ UNCHANGED <<ReadDataQueue, events, rpc>>
    /\ L1NoData /\ L1Step

L1Exit ==
    /\ Defined
    /\ l1.pc = "exit"
    /\ ReadDataQueue' = 0
    /\ ResetL2Buffers
    /\ l1' = [l1 EXCEPT !.pc = "terminated", !.bL1InCancellation = FALSE]
    /\ UNCHANGED <<queues, dev, events, l2, others, delivered>>

-----------------------------------------------------------------------------
(***************************************************************************)
(* The other threads: callers of USBRD_SetStopState and of                 *)
(* USBRD_CancelReadThread, and the clients that read.                      *)
(***************************************************************************)
OtherStep == /\ Defined
             /\ UNCHANGED <<queues, delivered>>
RingAlone == UNCHANGED <<ring, l2, misuse>>

\* The dispatch thread stops polling or suspends the device before it stops,
\* and polls again or wakes the device up before it resumes.
StopFlags(r) ==
    IF r # DispatchThread THEN UNCHANGED dev
    ELSE \E suspend \in {dev.PowerSuspended, TRUE} :
            dev' = [dev EXCEPT !.bL2Polling = FALSE,
                               !.PowerSuspended = suspend]
ResumeFlags(r) ==
    IF r # DispatchThread THEN UNCHANGED dev
    ELSE \/ dev.present /\ dev' = [dev EXCEPT !.bL2Polling = TRUE]
         \/ dev' = [dev EXCEPT !.bL2Polling = TRUE, !.PowerSuspended = FALSE]

\* History: how a new request meets those under way.
StopPcs == {"stopSignal", "stopWait", "stopPoll", "stopAcked", "reset"}
Overlaps(pc) ==
    {IF (rpc[s] \in StopPcs) # (pc \in StopPcs) THEN "crossed"
     ELSE IF pc \in StopPcs THEN "stops" ELSE "resumes" :
        s \in {s \in Requesters : rpc[s] # "idle"}}

\* USBRD_SetStopState returns at once when there is no L2 thread.  The
\* requesters share the two acknowledgement events.
Request(r, ack, pc) ==
    /\ rpc[r] = "idle"
    /\ count.requests < MaxRequests
    /\ IF L2Alive
       THEN /\ events' = events \ {ack}
            /\ rpc' = [rpc EXCEPT ![r] = pc]
            /\ count' = [count EXCEPT !.requests = @ + 1,
                                      !.overlaps = @ \cup Overlaps(pc)]
       ELSE /\ UNCHANGED <<events, rpc>>
            /\ count' = [count EXCEPT !.requests = @ + 1]
    /\ UNCHANGED <<ReadDataQueue, l1, canceller>>
    /\ RingAlone /\ OtherStep
RequestStop(r) == StopFlags(r) /\ Request(r, "L1Stop", "stopSignal")
RequestResume(r) == ResumeFlags(r) /\ Request(r, "L1Resume", "resumeSignal")

\* Where a wait for the acknowledgement leaves the requester.
MissAck(ack, waiting, acked) == waiting  \* fault: an event set before is lost
AwaitAck(ack, waiting, acked) == IF ack \in events THEN acked ELSE waiting

SignalRequest(r) ==
    /\ \/ /\ rpc[r] = "stopSignal"
          /\ l1' = Signal(l1, "STOP")
          /\ rpc' = [rpc EXCEPT ![r] =
                        AwaitAck("L1Stop", "stopWait", "stopAcked")]
       \/ /\ rpc[r] = "resumeSignal"
          /\ l1' = Signal(l1, "RESUME")
          /\ rpc' = [rpc EXCEPT ![r] =
                        AwaitAck("L1Resume", "resumeWait", "resumeAcked")]
    /\ UNCHANGED <<ReadDataQueue, dev, events, canceller, count>>
    /\ RingAlone /\ OtherStep

\* The wait of 0.1 second ended without the acknowledgement: go on when L1 is
\* gone, else wait again.
RequestTimeout(r) ==
    /\ \/ /\ rpc[r] = "stopWait"
          /\ rpc' = [rpc EXCEPT ![r] = IF L1Alive THEN "stopPoll" ELSE "reset"]
       \/ /\ rpc[r] = "stopPoll"
          /\ rpc' = [rpc EXCEPT ![r] =
                        AwaitAck("L1Stop", "stopWait", "stopAcked")]
       \/ /\ rpc[r] = "resumeWait"
          /\ rpc' = [rpc EXCEPT ![r] =
                        IF L1Alive THEN "resumePoll" ELSE "idle"]
       \/ /\ rpc[r] = "resumePoll"
          /\ rpc' = [rpc EXCEPT ![r] =
                        AwaitAck("L1Resume", "resumeWait", "resumeAcked")]
    /\ UNCHANGED <<ReadDataQueue, dev, events, l1, canceller, count>>
    /\ RingAlone /\ OtherStep

RequestAcked(r) ==
    /\ \/ /\ rpc[r] = "stopAcked"
          /\ events' = events \ {"L1Stop"}
          /\ rpc' = [rpc EXCEPT ![r] = "reset"]
       \/ /\ rpc[r] = "resumeAcked"
          /\ events' = events \ {"L1Resume"}
          /\ rpc' = [rpc EXCEPT ![r] = "idle"]
    /\ UNCHANGED <<ReadDataQueue, dev, l1, canceller, count>>
    /\ RingAlone /\ OtherStep

\* The caller that stopped the threads resets the ring.
RequestReset(r) ==
    /\ rpc[r] = "reset"
    /\ ResetL2Buffers
    /\ rpc' = [rpc EXCEPT ![r] = "idle"]
    /\ UNCHANGED <<ReadDataQueue, dev, events, l1, l2, canceller, count>>
    /\ OtherStep

\* USBDSP_CleanUp aborts the transfers of the pipe and asks L1 for a purge, one
\* at a time.
RequestPurge ==
    /\ count.purges < MaxPurges /\ "PurgeIrp" \notin events
    /\ count' = [count EXCEPT !.purges = @ + 1]
    /\ irp' = [i \in Idx |->
                  [irp[i] EXCEPT !.Cancel = @ \/ (dev.present /\ Held(i))]]
    /\ l1' = Signal(l1, "PURGE")
    /\ events' = events \cup {"PurgeIrp"}
    /\ UNCHANGED <<buf, L2IrpEndIdx, L2FillIdx, ReadDataQueue, dev, l2, rpc,
                   canceller, misuse>>
    /\ OtherStep

\* The dispatch thread's part, when it is not inside USBRD_SetStopState.
DispatchPurgeUnacked ==  \* fault
    /\ rpc[DispatchThread] = "idle" /\ "DispatchPurge" \in events
    /\ events' = events \ {"DispatchPurge"}
    /\ UNCHANGED <<ReadDataQueue, dev, l1, others>>
    /\ RingAlone /\ OtherStep
DispatchPurge ==
    /\ rpc[DispatchThread] = "idle" /\ "DispatchPurge" \in events
    /\ events' = (events \ {"DispatchPurge"}) \cup {"DispatchPurgeComplete"}
    /\ UNCHANGED <<ReadDataQueue, dev, l1, others>>
    /\ RingAlone /\ OtherStep

CancelReadThread ==
    /\ canceller = "idle" /\ L1Alive
    /\ count.cancels < MaxCancels
    /\ count' = [count EXCEPT !.cancels = @ + 1]
    /\ l1' = Signal(l1, "CANCEL")
    /\ canceller' = "wait"
    /\ UNCHANGED <<ReadDataQueue, dev, events, rpc>>
    /\ RingAlone /\ OtherStep

CancelReadThreadDone ==
    /\ canceller = "wait" /\ l1.pc = "terminated"
    /\ l1' = Goto(l1, "none")
    /\ canceller' = "idle"
    /\ UNCHANGED <<ReadDataQueue, dev, events, rpc, count>>
    /\ RingAlone /\ OtherStep

\* USBRD_Enqueue signals L1 when the queue was empty.
WakesL1 == ReadDataQueue = 0

\* The insertion of a read IRP.  USBRD_Read and USBRD_Enqueue have tested the
\* device, the cancellation and the threads before, without the lock: a caller
\* that passed the tests inserts its IRP at any later time.
Enqueue ==
    /\ count.reads < MaxReadIrps
    /\ count' = [count EXCEPT !.reads = @ + 1]
    /\ ReadDataQueue' = ReadDataQueue + 1
    /\ l1' = IF WakesL1 THEN Signal(l1, "KICK") ELSE l1
    /\ UNCHANGED <<dev, events, rpc, canceller>>
    /\ RingAlone /\ OtherStep

\* USBRD_Enqueue when there is none: both threads start.
CreateThreads ==
    /\ ~L1Alive /\ dev.present
    /\ ResetL2Buffers
    /\ l1' = NewL1(l1.set \ {"PURGE"}, l1.RdErrorCount)
    /\ l2' = NewL2(l2.set)
    /\ UNCHANGED <<ReadDataQueue, dev, events, others>>
    /\ OtherStep

-----------------------------------------------------------------------------
L1Next == \/ L1Wait \/ L1Completion \/ L1Kick \/ L1Drop
          \/ L1FillReadRequest \/ L1NothingToFill \/ L1CheckKick
          \/ L1Stop \/ L1StopSignal \/ L1StopDone
          \/ L1Resume \/ L1ResumeDone \/ L1Purge \/ L1PurgeDone
          \/ L1Cancel \/ L1CancelDone \/ L1Exit
L2Next == \/ L2Submit \/ L2SubmitDone \/ L2Advance \/ L2AdvanceInline
          \/ L2Wait \/ L2Kick \/ L2Cancel \/ L2Stop \/ L2Resume
          \/ L2Dequeue \/ L2ClearEvent \/ L2Complete \/ L2StopSelf
          \/ L2Notify
BusNext == \/ BusData \/ BusBadTransfer \/ BusCancelled
           \/ MultiReadCompletionRoutine
RequesterNext(r) == \/ SignalRequest(r) \/ RequestTimeout(r)
                    \/ RequestAcked(r) \/ RequestReset(r)
ClientNext == \/ \E r \in Requesters : RequestStop(r) \/ RequestResume(r)
              \/ RequestPurge \/ CancelReadThread \/ Enqueue \/ CreateThreads

Next == \/ L1Next \/ L2Next \/ BusNext \/ ClientNext
        \/ \E r \in Requesters : RequesterNext(r)
        \/ DispatchPurge \/ CancelReadThreadDone

Spec == Init /\ [][Next]_vars

\* A thread that can run does run, and the lower driver ends the transfers that
\* are cancelled.  Nothing obliges the device to send or a client to read.
Fairness ==
    /\ WF_vars(L1Next) /\ WF_vars(L2Next)
    /\ WF_vars(BusCancelled) /\ WF_vars(MultiReadCompletionRoutine)
    /\ WF_vars(DispatchPurge) /\ WF_vars(CancelReadThreadDone)
    /\ \A r \in Requesters : WF_vars(RequesterNext(r))
FairSpec == Spec /\ Fairness

-----------------------------------------------------------------------------
(***************************************************************************)
(* Properties.                                                             *)
(***************************************************************************)
Status == {"PENDING", "SUCCESS", "CANCELLED", "ERROR"}
Frames == 0 .. MaxFrames

Buffer == [State : {"READY", "PENDING", "COMPLETED"}, Status : Status,
           Frame : Frames]
ReadIrp == [Status : Status, Frame : Frames, Cancel : BOOLEAN]
Device == [present : BOOLEAN, bL2Polling : BOOLEAN, PowerSuspended : BOOLEAN]
L1Thread == [pc : L1Pcs, set : SUBSET L1Events, bL1Stopped : BOOLEAN,
             bL1InCancellation : BOOLEAN, oldFillIdx : Idx,
             RdErrorCount : Nat]
L2Thread == [pc : L2Pcs, set : SUBSET L2Events, bL2Stopped : BOOLEAN,
             state : {"WORKING", "STOPPING", "CANCELLING"},
             pActiveL2Buf : Idx, devBusyCnt : Nat, devErrCnt : Nat,
             gaveUp : BOOLEAN]
Counts == [sent : Frames, bad : 0 .. MaxBadTransfers, inline : 0 .. MaxInline,
           reads : 0 .. MaxReadIrps, requests : 0 .. MaxRequests,
           purges : 0 .. MaxPurges, cancels : 0 .. MaxCancels,
           overlaps : SUBSET {"stops", "resumes", "crossed"}]

\* The type of the state: which values the driver's fields range over.
TypeOK ==
    /\ buf \in [Idx -> Buffer] /\ irp \in [Idx -> ReadIrp]
    /\ L2IrpEndIdx \in Idx /\ L2FillIdx \in Idx
    /\ L2PendingQueue \in Seq(Idx) /\ L2CompletionQueue \in Seq(Idx)
    /\ ReadDataQueue \in Nat /\ dev \in Device
    /\ events \subseteq Acknowledgements
    /\ l1 \in L1Thread /\ l2 \in L2Thread
    /\ rpc \in [Requesters -> RequesterPcs] /\ canceller \in {"idle", "wait"}
    /\ count \in Counts /\ delivered \in Seq(Frames)
    /\ misuse \in {"none", "stale", "broken"}

\* Until a reset of the ring or an inline status overtakes a completion, a
\* buffer whose transfer is with the lower driver or waits on the completion
\* queue is PENDING and on one queue once: L1 cannot fill an IRP from it nor L2
\* submit it again.
InFlightIsPending ==
    misuse = "none" =>
        LET inFlight == L2PendingQueue \o L2CompletionQueue
        IN  /\ \A k \in DOMAIN inFlight : buf[inFlight[k]].State = "PENDING"
            /\ \A j, k \in DOMAIN inFlight :
                  inFlight[j] = inFlight[k] => j = k

\* No two requests have been under way at a time, except two stops.  When a
\* resume meets a stop, one thread starts what the other one resets; when it
\* meets a resume, one of them takes the other's acknowledgement, and the event
\* that L1 has not served yet starts the threads after a later stop.
OnlyStopsMet == count.overlaps \subseteq {"stops"}

\* No IRP that the lower driver holds, or whose completion L2 has not seen, is
\* submitted or reused, unless a reset of the ring or an inline status has
\* overtaken a completion before, or the dispatch thread and the interrupt
\* thread have met in a resume.
OnlyStaleBreaks ==
    [][misuse' = "broken" => misuse = "stale" \/ ~OnlyStopsMet]_vars

\* When the L2 thread has ended, for a cancellation or for good, the lower
\* driver holds none of the ring's IRPs and no completion is left behind: L1
\* may reset the ring, and USBMRD's completion routine cannot run any more.
NoIrpAfterExit ==
    Defined /\ l2.pc \in {"terminated", "none"} =>
        L2PendingQueue = <<>> /\ L2CompletionQueue = <<>>

\* The caller of USBRD_SetStopState(TRUE) resets the ring only when the lower
\* driver has returned every transfer, also when the dispatch thread and the
\* interrupt thread stop at a time and take each other's acknowledgement; until
\* they meet in a resume.
ResetIsQuiet ==
    OnlyStopsMet =>
        \A r \in Requesters : rpc[r] = "reset" => L2PendingQueue = <<>>

\* The frames that wait for a read IRP: those of the ring's buffers in ring
\* order, from the fill index on, whether L2 has seen their completion or not.
Place(k) == IF L2FillIdx + k < NumberOfL2Buffers
            THEN L2FillIdx + k ELSE L2FillIdx + k - NumberOfL2Buffers
FrameOf(i) ==
    IF buf[i].State = "COMPLETED" /\ buf[i].Status = "SUCCESS"
    THEN buf[i].Frame
    ELSE IF buf[i].State = "PENDING" /\ irp[i].Status = "SUCCESS"
    THEN irp[i].Frame ELSE 0
RingFrames == Keep([k \in 1 .. NumberOfL2Buffers |-> FrameOf(Place(k - 1))],
                   1 .. MaxFrames)

\* The pipeline delivers the device's frames in order, each once and none lost
\* while its threads run, until a reset or an inline status overtakes a
\* completion.  A packet larger than the MTU allows is not a frame: it is dropped,
\* wherever it comes between the others.
ReadChannelOfRing == INSTANCE ReadChannel
    WITH Frame <- 1 .. MaxFrames, sent <- count.sent, queue <- RingFrames,
         running <- l1.pc # "exit" /\ \A r \in Requesters : rpc[r] # "reset",
         reliable <- misuse = "none"
ImplementsChannel == ReadChannelOfRing!Spec

\* What the liveness properties do not cover: the model has stopped at an IRP
\* used twice, or L1 may be waiting in a purge for the dispatch thread.
Excused == ~Defined \/ "PurgeIrp" \in events

\* Nor does a cancellation end in which L2 gives up: it stops itself after too
\* many failures, goes back to its wait without cancelling the next transfer,
\* and when the failed one was the last nothing wakes it up.
GaveUp == l2.gaveUp

\* Of two requesters that stop at a time one may clear the acknowledgement while
\* the other is between two waits for it, which goes on waiting.
AckIsTaken == "stops" \in count.overlaps

\* Every stop that is asked for is acknowledged while no purge is under way,
\* whatever becomes of the transfers, unless two stops share the acknowledgement
\* or L2 gives up in a cancellation.
StopAcknowledged ==
    \A r \in Requesters :
        (rpc[r] = "stopWait")
            ~> (rpc[r] = "idle" \/ Excused \/ GaveUp \/ AckIsTaken)

\* A cancellation of the read threads ends both of them, unless L2 gives up.
CancelTerminates ==
    (canceller = "wait") ~> (canceller = "idle" \/ Excused \/ GaveUp)

\* Who asks the read threads to stop or to end, and waits, is answered.
RequestsEnd == StopAcknowledged /\ CancelTerminates

\* A READY buffer at L2's index is submitted, or polling ends: the kicks of L1
\* reach an L2 that found the ring full.
ReadyIsSubmitted == CanSubmit ~> (~CanSubmit \/ Excused)

\* A completed buffer and a waiting read IRP meet: neither the completion's
\* nor the client's signal to L1 is lost.
CompletedIsFilled ==
    LET fillable == /\ buf[L2FillIdx].State = "COMPLETED"
                    /\ ReadDataQueue > 0 /\ ~l1.bL1Stopped
    IN  fillable ~> (~fillable \/ Excused)

\* The threads of the ring, and the clients, wake each other whenever it is
\* needed.
NoKickIsLost == ReadyIsSubmitted /\ CompletedIsFilled

\* A purge ends once the dispatch thread has no stop or resume left to ask for.
PurgeEnds ==
    (l1.pc = "purgeWait" /\ rpc[DispatchThread] = "idle"
                         /\ count.requests = MaxRequests)
        ~> (l1.pc # "purgeWait" \/ ~Defined)
=============================================================================
