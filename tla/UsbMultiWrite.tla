---------------------------- MODULE UsbMultiWrite ----------------------------
(***************************************************************************)
(* The multi-write pipeline of the USB transport (transport/usb/USBMWT.c   *)
(* and the parts of USBWT.c, USBINT.c, USBDSP.c and USBUTL.c that it       *)
(* meets).                                                                 *)
(*                                                                         *)
(* Clients queue write IRPs.  The write thread takes them off the queue,   *)
(* gives each one a transfer buffer and submits it to the lower driver;    *)
(* the completion routine hands the buffer back and the thread completes   *)
(* the IRP.  The interrupt thread turns the flow off and on, the dispatch  *)
(* thread stops, resumes and purges, a closing client cancels the thread,  *)
(* and a client may cancel an IRP at any moment.                           *)
(*                                                                         *)
(* Writes are numbered in the order in which they are queued; 0 stands for *)
(* the zero-length packet that follows a write whose last packet is full.  *)
(* The data of a write are its packets.                                    *)
(***************************************************************************)
EXTENDS Naturals, Sequences, SequencesExt, KernelEvents, Subsequences

CONSTANTS
    pMwtBuffer,           \* the transfer buffers, by index
    Packets,              \* Packets[w] is the number of packets of write w
    FullPacket,           \* the writes whose last packet is full
    NumOfRetriesOnError,  \* registry value, gVendorConfig.NumOfRetriesOnError
    ContinueOnDataError,  \* registry value
    MaxFailures,          \* bound: transfers that fail
    MaxIrpCancels,        \* bound: writes that their client cancels
    MaxFlows,             \* bound: flow-off and flow-on notifications
    MaxTimeouts,          \* bound: flow-offs that time out
    MaxStops,             \* bound: stop and resume requests
    MaxPurges,            \* bound: purge requests
    MaxCancels            \* bound: cancellations of the write thread

Buffers == Range(pMwtBuffer)
Writes == DOMAIN Packets

\* The events the thread waits on: one for each request, one for each buffer.
WriteEvents == {"CANCEL", "CANCEL_CURRENT", "KICK", "PURGE", "STOP", "RESUME",
                "FLOW_ON", "FLOW_OFF"}
\* Where the thread stands when it does not handle a completion.
WritePoints ==
    WriteEvents \cup {"top", "send", "sending", "check", "blocked",
                     "cancelling", "abort", "terminated", "none"}

ASSUME WriteBuffersAssumption ==
    /\ pMwtBuffer \in Seq(Buffers) /\ pMwtBuffer # <<>>
    /\ IsInjective(pMwtBuffer)
    /\ Buffers \cap WritePoints = {}
ASSUME WritesAssumption == /\ Packets \in Seq(Nat \ {0})
                           /\ FullPacket \subseteq Writes
ASSUME WriteRetriesAssumption == /\ NumOfRetriesOnError \in Nat
                                 /\ ContinueOnDataError \in BOOLEAN
ASSUME WriteBoundsAssumption ==
    /\ MaxFailures \in Nat /\ MaxIrpCancels \in Nat /\ MaxFlows \in Nat
    /\ MaxTimeouts \in Nat /\ MaxStops \in Nat /\ MaxPurges \in Nat
    /\ MaxCancels \in Nat

WRITE_EVENT_COUNT == 10
RequestIndex == [CANCEL |-> 1, CANCEL_CURRENT |-> 2, KICK |-> 3, PURGE |-> 5,
                 STOP |-> 6, RESUME |-> 7, FLOW_ON |-> 8, FLOW_OFF |-> 9]
WriteIndex ==
    [e \in WriteEvents \cup Buffers |->
        IF e \in WriteEvents THEN RequestIndex[e]
        ELSE WRITE_EVENT_COUNT - 1
                + (CHOOSE i \in DOMAIN pMwtBuffer : pMwtBuffer[i] = e)]
WritePcs == WritePoints \cup Buffers

VARIABLES
    irp,                    \* the write IRPs: where they are, whether their
                            \* cancel routine is set or running, and their
                            \* IoStatus
    WriteDataQueue,         \* writes that wait
    buf,                    \* the transfer buffers and their own IRPs
    MWriteIdleQueue,        \* free buffers
    MWritePendingQueue,     \* buffers taken for a transfer
    MWriteCompletionQueue,  \* buffers the completion routine handed back
    MWriteCancellingQueue,  \* buffers whose write a client cancelled
    MWTSentIrpQueue,        \* records of the writes sent and not given back
    signalling,             \* buffers handed back, their event not yet set
    dev,                    \* present, PowerSuspended, halted (the pipe),
                            \* WtErrorCount
    wt,                     \* the write thread
    int,                    \* the interrupt thread: flow as it last told the
                            \* write thread, and the acknowledgement event
    canceller,              \* the caller of USBWT_CancelWriteThread
    purger,                 \* the purge under way
    count,                  \* what the bounds count; entered, callers that have
                            \* passed the tests of USBWT_Enqueue; purged, the
                            \* writes queued before the last thread's purge
    device,                 \* history: packets the device received
    faults                  \* history: see below

bufferQueues == <<MWriteIdleQueue, MWritePendingQueue, MWriteCompletionQueue>>
callers == <<int, canceller, purger, count>>
vars == <<irp, WriteDataQueue, buf, bufferQueues, MWriteCancellingQueue,
          MWTSentIrpQueue, signalling, dev, wt, callers, device, faults>>

(***************************************************************************)
(* What has gone wrong, to tell a property's known exceptions from others: *)
(*   "adopted"     the cancel routine completed a write that the thread    *)
(*                 still held                                              *)
(*   "idleOff"     a flow-off with nothing pending left its state behind   *)
(*   "overwritten" a request took the place of the one being carried out   *)
(*   "rewound"     a write's count of transferred packets fell behind      *)
(*   "singled"     a transfer that was cancelled alone was kept with the   *)
(*                 others to be sent again                                 *)
(*   "cleared"     the pipe was reset for one failed transfer before       *)
(*                 another that failed was handled                         *)
(*   "late"        the interrupt thread gave up waiting for a flow-off     *)
(*   "unpurged"    the thread does not tell of a purge it was asked for    *)
(*   "aborted"     a purge aborted transfers before the thread knew of it  *)
(*   "forgotten"   a new thread started while the flow was off             *)
(*   "stale"       a buffer's event was set after its completion was       *)
(*                 processed                                               *)
(*   "broken"      a completed IRP was used, or a list entry inserted      *)
(*                 twice; undefined behaviour has no next state            *)
(***************************************************************************)
Faults == {"adopted", "idleOff", "overwritten", "rewound", "singled",
           "cleared", "late", "unpurged", "aborted", "forgotten", "stale",
           "broken"}
FaultIf(condition, fault) == IF condition THEN {fault} ELSE {}
Defined == "broken" \notin faults

NewThread(set, stopped) ==
    [pc |-> "top", set |-> set, mwtState |-> "WORKING", bCancelled |-> FALSE,
     bPurged |-> FALSE, bWriteStopped |-> stopped, bFlowOn |-> TRUE,
     bSendZeroLength |-> FALSE, pWriteCurrent |-> 0]
NewIrp == [where |-> "new", routine |-> "none", cancelled |-> FALSE,
           Status |-> "PENDING", Information |-> 0]
IdleBuffer == [CallingIrp |-> 0, First |-> 0, Length |-> 0,
               Status |-> "IDLE", Transferred |-> 0, Cancel |-> FALSE]

\* The thread has just been created, and some callers may have found it.  A
\* model may start with some of its bounds spent.
InitWith(spent) ==
    /\ irp = [w \in Writes |-> NewIrp] /\ WriteDataQueue = <<>>
    /\ buf = [b \in Buffers |-> IdleBuffer]
    /\ MWriteIdleQueue = pMwtBuffer /\ MWritePendingQueue = <<>>
    /\ MWriteCompletionQueue = <<>> /\ MWriteCancellingQueue = <<>>
    /\ MWTSentIrpQueue = <<>> /\ signalling = {}
    /\ dev = [present |-> TRUE, PowerSuspended |-> FALSE, halted |-> FALSE,
              WtErrorCount |-> 0]
    /\ wt = NewThread({}, FALSE)
    /\ int = [flow |-> "on", acked |-> FALSE]
    /\ canceller = "idle" /\ purger = "idle"
    /\ count = spent /\ device = <<>> /\ faults = {}
AnySpent == [writes : Nat, entered : Nat, purged : Nat, failures : Nat,
             irpCancels : Nat, flows : Nat, timeouts : Nat, stops : Nat,
             purges : Nat, cancels : Nat]
Init == \E spent \in AnySpent : InitWith(spent)

-----------------------------------------------------------------------------
(***************************************************************************)
(* The write IRPs.                                                         *)
(***************************************************************************)
Completed(w) == w # 0 /\ irp[w].where = "done"
\* Its list entry is in use: on WtCompletionQueue, or no longer the driver's.
Relinked(w) == w # 0 /\ irp[w].where \in {"answered", "done"}

\* Onto WtCompletionQueue, unless IoSetCancelRoutine shows that the cancel
\* routine has been called and will do it.
AnswerUnasked(irps, w, status, information) ==  \* fault
    IF w = 0 THEN irps
    ELSE [irps EXCEPT ![w] = [@ EXCEPT !.where = "answered", !.Status = status,
                                       !.Information = information]]
Answer(irps, w, status, information) ==
    IF w = 0 \/ irps[w].routine # "set" THEN irps
    ELSE [irps EXCEPT ![w] = [@ EXCEPT !.where = "answered",
                                       !.routine = "none", !.Status = status,
                                       !.Information = information]]

\* USBUTL_PurgeQueue of the write queue.
PurgeQueue ==
    /\ irp' = [w \in Writes |->
                  IF Contains(WriteDataQueue, w)
                  THEN Answer(irp, w, "CANCELLED", 0)[w] ELSE irp[w]]
    /\ WriteDataQueue' = <<>>
    /\ faults' = faults \cup
          FaultIf(\E w \in Range(WriteDataQueue) : Completed(w), "broken")

\* The write thread holds the IRP: it has just taken it off the queue, has not
\* looked at the completion of its transfer, or keeps it to be sent again.
HeldByThread(w) ==
    \/ wt.pc = "sending" /\ wt.pWriteCurrent = w
    \/ \E b \in Range(MWriteCompletionQueue) : buf[b].CallingIrp = w
    \/ \E r \in Range(MWTSentIrpQueue) : r.SentIrp = w

\* USBMWT_IsIrpPending.
PendingBuffers(w) ==
    Keep(MWritePendingQueue, {b \in Buffers : buf[b].CallingIrp = w})

ClientStep == /\ Defined
              /\ UNCHANGED <<buf, bufferQueues, MWTSentIrpQueue, signalling,
                             dev, device>>

\* USBWT_Enqueue signals the thread when the queue was empty.
WakesThreadLate == Len(WriteDataQueue) = 1  \* fault
WakesThread == WriteDataQueue = <<>>

\* USBWT_Enqueue tests the device and the thread without a lock: a caller goes on
\* when there is a thread, or while another caller is creating one.
EnterEnqueue ==
    /\ dev.present /\ count.entered < Len(Packets)
    /\ count' = [count EXCEPT !.entered = @ + 1]
    /\ UNCHANGED <<irp, WriteDataQueue, MWriteCancellingQueue, wt, int,
                   canceller, purger, faults>>
    /\ ClientStep
\* Later it takes WriteSpinLock and inserts the write, whatever has become of
\* the device and the thread.
Enqueue ==
    /\ count.writes < count.entered /\ count.writes < Len(Packets)
    /\ LET w == count.writes + 1
       IN  /\ irp' = [irp EXCEPT ![w].where = "active", ![w].routine = "set"]
           /\ WriteDataQueue' = Append(WriteDataQueue, w)
           /\ count' = [count EXCEPT !.writes = w]
    /\ wt' = IF WakesThread THEN Signal(wt, "KICK") ELSE wt
    /\ UNCHANGED <<MWriteCancellingQueue, int, canceller, purger, faults>>
    /\ ClientStep

\* IoCancelIrp takes the cancel routine out of the IRP and calls it.
CancelIrp(w) ==
    /\ irp[w].where = "active" /\ ~irp[w].cancelled
    /\ count.irpCancels < MaxIrpCancels
    /\ count' = [count EXCEPT !.irpCancels = @ + 1]
    /\ irp' = [irp EXCEPT ![w].cancelled = TRUE,
                          ![w].routine = IF @ = "set" THEN "running" ELSE @]
    /\ UNCHANGED <<WriteDataQueue, MWriteCancellingQueue, wt, int, canceller,
                   purger, faults>>
    /\ ClientStep

\* USBMWT_CancelWriteRoutine.
CancelWriteRoutine(w) ==
    /\ irp[w].routine = "running"
    /\ LET cancelled == [irp EXCEPT ![w] =
                            [@ EXCEPT !.where = "answered", !.routine = "none",
                                      !.Status = "CANCELLED",
                                      !.Information = 0]]
       IN  \/ /\ Contains(WriteDataQueue, w)
              /\ WriteDataQueue' = Keep(WriteDataQueue, Writes \ {w})
              /\ irp' = cancelled
              /\ UNCHANGED <<MWriteCancellingQueue, wt, faults>>
           \/ /\ ~Contains(WriteDataQueue, w) /\ PendingBuffers(w) # <<>>
              /\ LET b == Head(PendingBuffers(w))
                 IN  /\ MWriteCancellingQueue' =
                            Append(MWriteCancellingQueue, b)
                     /\ faults' = faults \cup
                            FaultIf(Contains(MWriteCancellingQueue, b),
                                    "broken")
              /\ irp' = [irp EXCEPT ![w].routine = "set"]
              /\ wt' = Signal(wt, "CANCEL_CURRENT")
              /\ UNCHANGED WriteDataQueue
           \/ /\ ~Contains(WriteDataQueue, w) /\ PendingBuffers(w) = <<>>
              /\ irp' = cancelled
              /\ faults' = faults \cup FaultIf(HeldByThread(w), "adopted")
                                  \cup FaultIf(Relinked(w), "broken")
              /\ UNCHANGED <<WriteDataQueue, MWriteCancellingQueue, wt>>
    /\ UNCHANGED callers
    /\ ClientStep

-----------------------------------------------------------------------------
(***************************************************************************)
(* The lower driver and the pipe.  Transfers are served in the order they  *)
(* were submitted.  A failed transfer halts the pipe until it is reset; a  *)
(* cancelled one may end at any time.  A transfer that moved all of its    *)
(* data has succeeded.                                                     *)
(***************************************************************************)
Held(b) == Contains(MWritePendingQueue, b) /\ buf[b].Status = "PENDING"
HeldBuffers == Keep(MWritePendingQueue, {b \in Buffers : Held(b)})
Served(b) == HeldBuffers # <<>> /\ b = Head(HeldBuffers)

\* How much of an unsuccessful transfer can have been moved: a part of the one
\* that is served, while the pipe takes data.
Partial(b) == {0} \cup 0 .. (IF buf[b].Length = 0 THEN 0
                             ELSE buf[b].Length - 1)
MovedBeforeItEnded(b) ==
    IF Served(b) /\ dev.present /\ ~dev.halted THEN Partial(b) ELSE {0}
Ended(b, status, n) == [buf[b] EXCEPT !.Status = status, !.Transferred = n]
Received(b, n) ==
    device' = device \o
        [k \in 1 .. n |-> <<buf[b].CallingIrp, buf[b].First + k>>]

BusStep == /\ Defined
           /\ UNCHANGED <<irp, WriteDataQueue, MWriteIdleQueue,
                          MWriteCancellingQueue, MWTSentIrpQueue, wt, int,
                          canceller, purger, faults>>
BusAlone == UNCHANGED <<MWritePendingQueue, MWriteCompletionQueue, signalling>>

BusData ==
    /\ dev.present /\ ~dev.halted
    /\ \E b \in Buffers :
          /\ Served(b)
          /\ buf' = [buf EXCEPT ![b] = Ended(b, "SUCCESS", buf[b].Length)]
          /\ IF buf[b].CallingIrp = 0 THEN device' = Append(device, <<0, 0>>)
             ELSE Received(b, buf[b].Length)
    /\ UNCHANGED <<dev, count>>
    /\ BusAlone /\ BusStep

BusError ==
    /\ count.failures < MaxFailures
    /\ count' = [count EXCEPT !.failures = @ + 1]
    /\ \E b \in Buffers, n \in UNION {Partial(x) : x \in Buffers} :
          /\ Served(b) /\ n \in MovedBeforeItEnded(b)
          /\ buf' = [buf EXCEPT ![b] = Ended(b, "ERROR", n)]
          /\ Received(b, n)
    /\ dev' = [dev EXCEPT !.halted = TRUE]
    /\ BusAlone /\ BusStep

BusCancelled ==
    /\ \E b \in Buffers, n \in UNION {Partial(x) : x \in Buffers} :
          /\ Held(b) /\ (buf[b].Cancel \/ ~dev.present)
          /\ n \in MovedBeforeItEnded(b)
          /\ buf' = [buf EXCEPT ![b] = Ended(b, "CANCELLED", n)]
          /\ Received(b, n)
    /\ UNCHANGED <<dev, count>>
    /\ BusAlone /\ BusStep

\* QCUSB_AbortPipe ends every transfer of the pipe.
AbortPipe ==
    IF HeldBuffers = <<>> THEN UNCHANGED <<buf, device>>
    ELSE \E n \in MovedBeforeItEnded(Head(HeldBuffers)) :
            /\ buf' = [b \in Buffers |->
                          IF Served(b) THEN Ended(b, "CANCELLED", n)
                          ELSE IF Held(b) THEN Ended(b, "CANCELLED", 0)
                          ELSE buf[b]]
            /\ Received(Head(HeldBuffers), n)

\* USBMWT_WriteCompletionRoutine: under WriteSpinLock, then without.
WriteCompletionRoutine ==
    /\ \E b \in Range(MWritePendingQueue) :
          /\ buf[b].Status \in {"SUCCESS", "ERROR", "CANCELLED"}
          /\ MWritePendingQueue' = Keep(MWritePendingQueue, Buffers \ {b})
          /\ MWriteCompletionQueue' = Append(MWriteCompletionQueue, b)
          /\ signalling' = signalling \cup {b}
    /\ UNCHANGED <<buf, dev, count, device>>
    /\ BusStep
WriteCompletionSignal ==
    /\ Defined
    /\ \E b \in signalling :
          /\ signalling' = signalling \ {b}
          /\ wt' = Signal(wt, b)
          /\ faults' = faults \cup
                FaultIf(~Contains(MWriteCompletionQueue, b), "stale")
    /\ UNCHANGED <<irp, WriteDataQueue, buf, bufferQueues,
                   MWriteCancellingQueue, MWTSentIrpQueue, dev, callers,
                   device>>

-----------------------------------------------------------------------------
(***************************************************************************)
(* The write thread.                                                       *)
(***************************************************************************)
ThreadStep == /\ Defined
              /\ UNCHANGED <<signalling, canceller, count>>
QueuesAlone == UNCHANGED <<bufferQueues, MWTSentIrpQueue>>
ThreadOnly == /\ UNCHANGED <<irp, WriteDataQueue, buf, MWriteCancellingQueue,
                             dev, int, purger, device, faults>>
              /\ QueuesAlone /\ ThreadStep

\* Top of the loop: purge when asked to or when the device is gone.  The purge
\* IRP's wait for the write thread ends here (USBUTL_CheckPurgeStatus).
ToPurgeWhenOn == ~dev.present \/ (wt.bPurged /\ wt.bFlowOn)  \* fault
ToPurge == ~dev.present \/ wt.bPurged
TopPurge ==
    /\ wt.pc = "top" /\ ToPurge
    /\ PurgeQueue
    /\ wt' = [wt EXCEPT !.pc = "check", !.bPurged = FALSE]
    /\ purger' = CASE purger = "wait" -> "idle"
                   [] purger = "signal" -> "answered"
                   [] OTHER -> purger
    /\ UNCHANGED <<buf, MWriteCancellingQueue, dev, int, device>>
    /\ QueuesAlone /\ ThreadStep
MaySend == ~wt.bWriteStopped /\ wt.bFlowOn
Top ==
    /\ wt.pc = "top" /\ ~ToPurge
    /\ wt' = Goto(wt, IF MaySend THEN "send" ELSE "check")
    /\ ThreadOnly

\* The inner loop, under WriteSpinLock up to the window of SendSubmit.
SomethingToSend == /\ WriteDataQueue # <<>> \/ wt.bSendZeroLength
                   /\ MWriteIdleQueue # <<>> /\ dev.present
OnHold == dev.PowerSuspended \/ wt.bWriteStopped

SendNothing ==
    /\ wt.pc = "send" /\ ~wt.bCancelled
    /\ ~SomethingToSend \/ OnHold
    /\ wt' = Goto(wt, "check")
    /\ ThreadOnly
SendCancelled ==
    /\ wt.pc = "send" /\ wt.bCancelled
    /\ wt' = Goto(wt, "check")
    /\ IF SomethingToSend THEN PurgeQueue
       ELSE UNCHANGED <<irp, WriteDataQueue, faults>>
    /\ UNCHANGED <<buf, MWriteCancellingQueue, dev, int, purger, device>>
    /\ QueuesAlone /\ ThreadStep
SendTake ==
    /\ wt.pc = "send" /\ ~wt.bCancelled /\ SomethingToSend /\ ~OnHold
    /\ MWriteIdleQueue' = Tail(MWriteIdleQueue)
    /\ MWritePendingQueue' = Append(MWritePendingQueue, Head(MWriteIdleQueue))
    /\ \/ /\ wt.bSendZeroLength
          /\ wt' = [wt EXCEPT !.pc = "sending", !.pWriteCurrent = 0]
          /\ UNCHANGED WriteDataQueue
       \/ /\ ~wt.bSendZeroLength
          /\ wt' = [wt EXCEPT !.pc = "sending",
                              !.pWriteCurrent = Head(WriteDataQueue)]
          /\ WriteDataQueue' = Tail(WriteDataQueue)
    /\ UNCHANGED <<irp, buf, MWriteCompletionQueue, MWriteCancellingQueue,
                   MWTSentIrpQueue, dev, int, purger, device, faults>>
    /\ ThreadStep

\* After the lock is released: only now does the buffer name its write.
SendSubmit ==
    /\ wt.pc = "sending"
    /\ LET w == wt.pWriteCurrent
           b == Last(MWritePendingQueue)
           first == IF w = 0 THEN 0 ELSE irp[w].Information
           length == IF w = 0 THEN 0 ELSE Packets[w] - first
       IN  /\ buf' = [buf EXCEPT ![b] =
                        [CallingIrp |-> w, First |-> first, Length |-> length,
                         Status |-> "PENDING", Transferred |-> 0,
                         Cancel |-> FALSE]]
           /\ MWTSentIrpQueue' = Append(MWTSentIrpQueue,
                    [SentIrp |-> w, MWTBuf |-> b, IrpReturned |-> FALSE])
           /\ wt' = [wt EXCEPT !.pc = "send",
                        !.bSendZeroLength = w \in FullPacket /\ length > 0]
           /\ faults' = faults \cup FaultIf(Completed(w), "broken")
    /\ UNCHANGED <<irp, WriteDataQueue, bufferQueues, MWriteCancellingQueue,
                   dev, int, purger, device>>
    /\ ThreadStep

\* A cancelled thread ends when no transfer is left.
NothingPending == MWritePendingQueue = <<>>  \* fault
NothingActive == MWritePendingQueue = <<>> /\ MWriteCompletionQueue = <<>>
Check ==
    /\ wt.pc = "check"
    /\ wt' = IF wt.bCancelled /\ NothingActive THEN Goto(wt, "terminated")
             ELSE WaitAny(wt, WriteIndex)
    /\ ThreadOnly

Kick ==
    /\ wt.pc = "KICK"
    /\ wt' = Clear(wt, "KICK", "top")
    /\ ThreadOnly

CancelCurrent ==
    /\ wt.pc = "CANCEL_CURRENT"
    /\ wt' = Clear(wt, "CANCEL_CURRENT", "cancelling")
    /\ ThreadOnly
CancelNext ==
    /\ wt.pc = "cancelling" /\ MWriteCancellingQueue # <<>>
    /\ MWriteCancellingQueue' = Tail(MWriteCancellingQueue)
    /\ LET b == Head(MWriteCancellingQueue)
       IN  buf' = [buf EXCEPT ![b].Cancel =
                      @ \/ Contains(MWritePendingQueue, b)]
    /\ UNCHANGED <<irp, WriteDataQueue, dev, wt, int, purger, device, faults>>
    /\ QueuesAlone /\ ThreadStep
CancelDone ==
    /\ wt.pc = "cancelling" /\ MWriteCancellingQueue = <<>>
    /\ wt' = Goto(wt, "top")
    /\ ThreadOnly

\* A cancellation, a purge or a stop with transfers pending: cancel the first
\* and leave the rest to the completions.
CancelFirst == buf' = [buf EXCEPT ![Head(MWritePendingQueue)].Cancel = TRUE]
CancelPending(state) ==
    /\ MWritePendingQueue # <<>>
    /\ CancelFirst
    /\ faults' = faults
          \cup FaultIf(wt.mwtState \notin {"WORKING", state}, "overwritten")
          \cup FaultIf(state = "PURGING", "unpurged")
    /\ UNCHANGED <<irp, WriteDataQueue, MWriteCancellingQueue, dev, int,
                   purger, device>>
    /\ QueuesAlone /\ ThreadStep

CancelThread ==
    LET cleared == [wt EXCEPT !.set = @ \ {"CANCEL"}, !.bWriteStopped = TRUE]
    IN  /\ wt.pc = "CANCEL"
        /\ \/ /\ CancelPending("CANCELLING")
              /\ wt' = [cleared EXCEPT !.pc = "check",
                                       !.mwtState = "CANCELLING"]
           \/ /\ MWritePendingQueue = <<>>
              /\ wt' = [cleared EXCEPT !.pc = "top", !.bCancelled = TRUE]
              /\ ThreadOnly
Purge ==
    LET cleared == [wt EXCEPT !.set = @ \ {"PURGE"}]
    IN  /\ wt.pc = "PURGE"
        /\ \/ /\ CancelPending("PURGING")
              /\ wt' = [cleared EXCEPT !.pc = "check", !.mwtState = "PURGING"]
           \/ /\ MWritePendingQueue = <<>>
              /\ wt' = [cleared EXCEPT !.pc = "top", !.bPurged = TRUE]
              /\ ThreadOnly
Stop ==
    LET cleared == [wt EXCEPT !.set = @ \ {"STOP"}, !.bWriteStopped = TRUE]
    IN  /\ wt.pc = "STOP"
        /\ \/ /\ CancelPending("STOPPING")
              /\ wt' = [cleared EXCEPT !.pc = "check", !.mwtState = "STOPPING"]
           \/ /\ MWritePendingQueue = <<>>
              /\ wt' = [cleared EXCEPT !.pc = "top"]
              /\ ThreadOnly

\* bDeviceRemoved is FALSE while the thread runs.
Resume ==
    /\ wt.pc = "RESUME"
    /\ wt' = [Clear(wt, "RESUME", "top") EXCEPT
                 !.bWriteStopped = dev.PowerSuspended]
    /\ ThreadOnly
FlowOn ==
    /\ wt.pc = "FLOW_ON"
    /\ wt' = [Clear(wt, "FLOW_ON", "top") EXCEPT
                 !.bWriteStopped = dev.PowerSuspended, !.bFlowOn = TRUE]
    /\ ThreadOnly

\* Of a device that is not a high-speed one: abort what is pending and
\* acknowledge when it has come back.
FlowOff ==
    /\ wt.pc = "FLOW_OFF"
    /\ LET off == [wt EXCEPT !.set = @ \ {"FLOW_OFF"}, !.bWriteStopped = TRUE,
                             !.bFlowOn = FALSE, !.mwtState = "FLOW_OFF"]
       IN  \/ /\ MWritePendingQueue # <<>>
              /\ wt' = Goto(off, "abort")
              /\ UNCHANGED int
           \/ /\ MWritePendingQueue = <<>>
              /\ wt' = Goto(off, "top")
              /\ int' = [int EXCEPT !.acked = TRUE]
    /\ faults' = faults
          \cup FaultIf(MWritePendingQueue = <<>>, "idleOff")
          \cup FaultIf(wt.mwtState \notin {"WORKING", "FLOW_OFF"},
                       "overwritten")
    /\ UNCHANGED <<irp, WriteDataQueue, buf, MWriteCancellingQueue, dev,
                   purger, device>>
    /\ QueuesAlone /\ ThreadStep
FlowOffAbort ==
    /\ wt.pc = "abort"
    /\ AbortPipe
    /\ wt' = Goto(wt, "top")
    /\ UNCHANGED <<irp, WriteDataQueue, MWriteCancellingQueue, dev, int,
                   purger, faults>>
    /\ QueuesAlone /\ ThreadStep

-----------------------------------------------------------------------------
(***************************************************************************)
(* The completion of a transfer: the buffer at the head of the completion  *)
(* queue, whichever buffer's event ended the wait.                         *)
(***************************************************************************)
CompleteNothing ==
    /\ wt.pc \in Buffers /\ MWriteCompletionQueue = <<>>
    /\ wt' = Goto(wt, "top")
    /\ ThreadOnly

\* The write that a finished transfer belongs to, with its count of transferred
\* packets set to what this transfer has moved if that was not all.
AdjustedWhole(b) ==  \* fault
    LET w == buf[b].CallingIrp
    IN  IF w # 0 /\ buf[b].Status # "SUCCESS"
        THEN [irp EXCEPT ![w].Information = Packets[w]] ELSE irp
Adjusted(b) ==
    LET w == buf[b].CallingIrp
    IN  IF /\ w # 0 /\ buf[b].Status # "SUCCESS"
           /\ buf[b].Transferred < buf[b].Length
        THEN [irp EXCEPT ![w].Information = buf[b].Transferred]
        ELSE irp
Rewound(b) ==
    LET w == buf[b].CallingIrp
    IN  w # 0 /\ buf[b].Status # "SUCCESS"
        /\ Adjusted(b)[w].Information < irp[w].Information + buf[b].Transferred

\* USBMWT_WriteIrpCompletion, the IRP's side and the device's.
AnswerTransfer(b, status) ==
    LET w == buf[b].CallingIrp
    IN  Answer(Adjusted(b), w, status,
               IF w = 0 THEN 0
               ELSE Adjusted(b)[w].Information + buf[b].Transferred)
GivesUp(status) == /\ status = "ERROR" /\ ~ContinueOnDataError
                   /\ dev.WtErrorCount + 1 > NumOfRetriesOnError
CountError(status, halted) ==
    dev' = IF status # "ERROR"
           THEN [dev EXCEPT !.WtErrorCount = 0, !.halted = halted]
           ELSE IF GivesUp(status)
           THEN [dev EXCEPT !.WtErrorCount = NumOfRetriesOnError,
                            !.present = FALSE, !.halted = halted]
           ELSE [dev EXCEPT !.WtErrorCount = @ + 1, !.halted = halted]
StopsItself(thread, status) ==
    IF GivesUp(status)
    THEN [thread EXCEPT !.bWriteStopped = TRUE, !.set = @ \cup {"STOP"}]
    ELSE thread

\* Records of the sent writes: USBMWT_MarkAndCheckReturnedIrp.
Marked(b) ==
    [k \in DOMAIN MWTSentIrpQueue |->
        [MWTSentIrpQueue[k] EXCEPT
            !.IrpReturned = @ \/ MWTSentIrpQueue[k].MWTBuf = b]]
RecordsOf(b) == {k \in DOMAIN MWTSentIrpQueue : MWTSentIrpQueue[k].MWTBuf = b}
WithoutRecord(b) ==
    IF RecordsOf(b) = {} THEN MWTSentIrpQueue
    ELSE RemoveAt(Marked(b), CHOOSE k \in RecordsOf(b) :
                                \A j \in RecordsOf(b) : j <= k)
ReturnedFirst(b) == TRUE  \* fault: does not wait for the other transfers
ReturnedBefore(b) ==  \* fault: looks at the records before it marks this one
    \A k \in DOMAIN MWTSentIrpQueue : MWTSentIrpQueue[k].IrpReturned
AllReturned(b) ==
    \A k \in DOMAIN MWTSentIrpQueue : Marked(b)[k].IrpReturned

\* The writes of the records, in the order in which they were sent.
WritesAndNulls(records) ==  \* fault
    [k \in DOMAIN records |-> records[k].SentIrp]
WritesReversed(records) ==  \* fault
    SelectSeq(Reverse([k \in DOMAIN records |-> records[k].SentIrp]),
              LAMBDA w : w # 0)
WritesOf(records) ==
    Keep([k \in DOMAIN records |-> records[k].SentIrp], Writes)

\* The last completion of a cancellation ends it.
LastCancelled(more) == wt.mwtState = "CANCELLING" /\ ~more

\* The buffer goes back to the idle queue.
Release(b) ==
    /\ MWriteCompletionQueue' = Tail(MWriteCompletionQueue)
    /\ MWriteIdleQueue' = Append(MWriteIdleQueue, b)
    /\ UNCHANGED <<MWritePendingQueue, MWriteCancellingQueue, purger, device>>
    /\ ThreadStep

\* With the flow off, a write whose transfer failed is kept until all have come
\* back; then all go back to the head of the queue in the order they were sent.
CompleteFlowOff ==
    /\ wt.pc \in Buffers /\ MWriteCompletionQueue # <<>>
    /\ wt.mwtState = "FLOW_OFF"
    /\ LET b == Head(MWriteCompletionQueue)
           w == buf[b].CallingIrp
           status == IF dev.present THEN buf[b].Status ELSE "CANCELLED"
           kept == IF status = "SUCCESS" THEN WithoutRecord(b) ELSE Marked(b)
           irps == IF status = "SUCCESS" THEN AnswerTransfer(b, status)
                   ELSE Adjusted(b)
           resend == AllReturned(b)
           writes == WritesOf(kept)
           zeroFirst ==
               IF ~resend \/ kept = <<>> THEN wt.bSendZeroLength
               ELSE LET x == Head(kept).SentIrp
                    IN  IF x = 0 THEN TRUE
                        ELSE /\ wt.bSendZeroLength
                             /\ ~(/\ irps[x].Information > 0
                                  /\ Packets[x] > irps[x].Information)
       IN  /\ irp' = irps
           /\ WriteDataQueue' = IF resend THEN writes \o WriteDataQueue
                                ELSE WriteDataQueue
           /\ MWTSentIrpQueue' = IF resend THEN <<>> ELSE kept
           /\ buf' = [buf EXCEPT ![b] = IdleBuffer]
           /\ IF status = "SUCCESS"
              THEN CountError(status, dev.halted)
              ELSE dev' = [dev EXCEPT !.halted =
                              @ /\ ~(dev.present /\ buf[b].Status = "ERROR")]
           /\ wt' = [wt EXCEPT !.pc = "top", !.set = @ \ {b},
                               !.bSendZeroLength = zeroFirst,
                               !.mwtState = IF resend THEN "WORKING" ELSE @]
           /\ int' = IF resend THEN [int EXCEPT !.acked = TRUE] ELSE int
           /\ faults' = faults
                 \cup FaultIf(Rewound(b), "rewound")
                 \cup FaultIf(status # "SUCCESS" /\ buf[b].Cancel, "singled")
                 \cup FaultIf(\/ Completed(w)
                              \/ resend /\ \E x \in Range(writes) :
                                              Relinked(x),
                              "broken")
           /\ Release(b)

\* The pipe is reset for a failed transfer while another one that failed still
\* waits to be handled: those behind it are served before it is kept.
ClearsAnother(b) ==
    /\ dev.present /\ buf[b].Status = "ERROR"
    /\ \E x \in Buffers \ {b} : buf[x].Status = "ERROR"

\* Otherwise the write is completed; a stop, a purge or a cancellation goes on
\* to the next transfer or ends with the last one.
CompleteWrite ==
    /\ wt.pc \in Buffers /\ MWriteCompletionQueue # <<>>
    /\ wt.mwtState # "FLOW_OFF"
    /\ LET b == Head(MWriteCompletionQueue)
           w == buf[b].CallingIrp
           status == IF dev.present THEN buf[b].Status ELSE "CANCELLED"
           more == wt.mwtState # "WORKING" /\ MWritePendingQueue # <<>>
           done == StopsItself([wt EXCEPT !.set = @ \ {b}], status)
       IN  /\ irp' = AnswerTransfer(b, status)
           /\ MWTSentIrpQueue' = WithoutRecord(b)
           /\ buf' = [x \in Buffers |->
                         IF x = b THEN IdleBuffer
                         ELSE IF more /\ x = Head(MWritePendingQueue)
                         THEN [buf[x] EXCEPT !.Cancel = TRUE]
                         ELSE buf[x]]
           /\ CountError(status, dev.halted /\ ~(/\ dev.present
                                                 /\ buf[b].Status = "ERROR"))
           /\ wt' = [done EXCEPT
                        !.pc = IF more THEN "check" ELSE "top",
                        !.bCancelled = @ \/ LastCancelled(more),
                        !.mwtState = IF more THEN @ ELSE "WORKING"]
           /\ faults' = faults
                 \cup FaultIf(Rewound(b), "rewound")
                 \cup FaultIf(ClearsAnother(b), "cleared")
                 \cup FaultIf(Completed(w), "broken")
           /\ UNCHANGED <<WriteDataQueue, int>>
           /\ Release(b)

-----------------------------------------------------------------------------
(***************************************************************************)
(* The other threads.                                                      *)
(***************************************************************************)
OtherStep == /\ Defined
             /\ UNCHANGED <<bufferQueues, MWriteCancellingQueue,
                            MWTSentIrpQueue, signalling>>
Request(event) == /\ wt' = Signal(wt, event)
                  /\ UNCHANGED <<irp, WriteDataQueue>>
NotSent == UNCHANGED <<buf, device>>

\* The interrupt thread completes the IRPs of WtCompletionQueue, while it does
\* not wait for a flow-off to be acknowledged.
EmptyWtCompletionQueue ==
    /\ int.flow # "waiting"
    /\ \E w \in Writes : /\ irp[w].where = "answered"
                         /\ irp' = [irp EXCEPT ![w].where = "done"]
    /\ UNCHANGED <<WriteDataQueue, wt, dev, callers, faults>>
    /\ NotSent /\ OtherStep

\* USBINT_HandleConnectionSpeedChangeNotification.
NotifyFlowOff ==
    /\ int.flow # "waiting" /\ count.flows < MaxFlows
    /\ count' = [count EXCEPT !.flows = @ + 1]
    /\ int' = [flow |-> "waiting", acked |-> FALSE]
    /\ Request("FLOW_OFF")
    /\ UNCHANGED <<dev, canceller, purger, faults>>
    /\ NotSent /\ OtherStep
NotifyFlowOn ==
    /\ int.flow # "waiting" /\ count.flows < MaxFlows
    /\ count' = [count EXCEPT !.flows = @ + 1]
    /\ int' = [int EXCEPT !.flow = "on"]
    /\ Request("FLOW_ON")
    /\ UNCHANGED <<dev, canceller, purger, faults>>
    /\ NotSent /\ OtherStep
FlowOffAcked ==
    /\ int.flow = "waiting" /\ int.acked
    /\ int' = [int EXCEPT !.flow = "off"]
    /\ UNCHANGED <<irp, WriteDataQueue, wt, dev, canceller, purger, count,
                   faults>>
    /\ NotSent /\ OtherStep
FlowOffTimeout ==
    /\ int.flow = "waiting" /\ count.timeouts < MaxTimeouts
    /\ count' = [count EXCEPT !.timeouts = @ + 1]
    /\ int' = [int EXCEPT !.flow = "late"]
    /\ faults' = faults \cup {"late"}
    /\ UNCHANGED <<irp, WriteDataQueue, wt, dev, canceller, purger>>
    /\ NotSent /\ OtherStep

\* USBWT_SetStopState, which does not wait for the thread.
RequestStop ==
    /\ wt.pc # "none" /\ count.stops < MaxStops
    /\ count' = [count EXCEPT !.stops = @ + 1]
    /\ dev' = [dev EXCEPT !.PowerSuspended = TRUE]
    /\ Request("STOP")
    /\ UNCHANGED <<int, canceller, purger, faults>>
    /\ NotSent /\ OtherStep
RequestResume ==
    /\ wt.pc # "none" /\ dev.PowerSuspended
    /\ dev' = [dev EXCEPT !.PowerSuspended = FALSE]
    /\ Request("RESUME")
    /\ UNCHANGED <<callers, faults>>
    /\ NotSent /\ OtherStep

\* USBDSP_CleanUp aborts the pipe first, then asks the thread for a purge.
PurgeAbort ==
    /\ purger = "idle" /\ count.purges < MaxPurges
    /\ count' = [count EXCEPT !.purges = @ + 1]
    /\ purger' = "signal"
    /\ AbortPipe
    /\ faults' = faults \cup FaultIf(HeldBuffers # <<>>, "aborted")
    /\ UNCHANGED <<irp, WriteDataQueue, wt, dev, int, canceller>>
    /\ OtherStep
PurgeSignal ==
    /\ purger \in {"signal", "answered"}
    /\ purger' = IF purger = "signal" THEN "wait" ELSE "idle"
    /\ Request("PURGE")
    /\ UNCHANGED <<dev, int, canceller, count, faults>>
    /\ NotSent /\ OtherStep

\* USBIF_CancelWriteThread and USBIF_Close: cancel the thread, wait for its end
\* and purge the queue.
CancelWriteThread ==
    /\ canceller = "idle" /\ wt.pc # "none" /\ count.cancels < MaxCancels
    /\ count' = [count EXCEPT !.cancels = @ + 1]
    /\ canceller' = "wait"
    /\ Request("CANCEL")
    /\ UNCHANGED <<dev, int, purger, faults>>
    /\ NotSent /\ OtherStep
CancelWriteThreadDone ==
    /\ canceller = "wait" /\ wt.pc = "terminated"
    /\ wt' = Goto(wt, "none")
    /\ canceller' = "purge"
    /\ UNCHANGED <<irp, WriteDataQueue, dev, int, purger, count, faults>>
    /\ NotSent /\ OtherStep
CancelWriteThreadPurge ==
    /\ canceller = "purge"
    /\ PurgeQueue
    /\ canceller' = "idle"
    /\ count' = [count EXCEPT !.purged = count.writes]
    /\ UNCHANGED <<wt, dev, int, purger>>
    /\ NotSent /\ OtherStep

\* USBWT_Enqueue when there is no thread.  The records of sent writes are on
\* the stack of the thread: one left by the last thread is no longer there.
CreateThread ==
    /\ wt.pc = "none" /\ dev.present
    /\ wt' = NewThread(wt.set \ {"PURGE"}, dev.PowerSuspended)
    /\ faults' = faults \cup FaultIf(int.flow # "on", "forgotten")
                        \cup FaultIf("PURGE" \in wt.set, "unpurged")
                        \cup FaultIf(MWTSentIrpQueue # <<>>, "broken")
    /\ UNCHANGED <<irp, WriteDataQueue, dev, callers>>
    /\ NotSent /\ OtherStep

-----------------------------------------------------------------------------
ThreadNext == \/ TopPurge \/ Top \/ SendNothing \/ SendCancelled \/ SendTake
              \/ SendSubmit \/ Check \/ Kick \/ CancelCurrent \/ CancelNext
              \/ CancelDone \/ CancelThread \/ Purge \/ Stop \/ Resume
              \/ FlowOn \/ FlowOff \/ FlowOffAbort
              \/ CompleteNothing \/ CompleteFlowOff \/ CompleteWrite
BusNext == \/ BusData \/ BusError \/ BusCancelled
           \/ WriteCompletionRoutine \/ WriteCompletionSignal
ClientNext == \/ EnterEnqueue \/ Enqueue \/ CreateThread
              \/ \E w \in Writes : CancelIrp(w) \/ CancelWriteRoutine(w)
IntNext == \/ EmptyWtCompletionQueue \/ NotifyFlowOff \/ NotifyFlowOn
           \/ FlowOffAcked \/ FlowOffTimeout
CallerNext == \/ RequestStop \/ RequestResume \/ PurgeAbort \/ PurgeSignal
              \/ CancelWriteThread \/ CancelWriteThreadDone
              \/ CancelWriteThreadPurge

Next == ThreadNext \/ BusNext \/ ClientNext \/ IntNext \/ CallerNext

Spec == Init /\ [][Next]_vars

\* A thread that can run does run; the device takes what is sent, and the lower
\* driver ends what is cancelled.
Fairness ==
    /\ WF_vars(ThreadNext)
    /\ WF_vars(BusData) /\ WF_vars(BusCancelled)
    /\ WF_vars(WriteCompletionRoutine) /\ WF_vars(WriteCompletionSignal)
    /\ WF_vars(EmptyWtCompletionQueue) /\ WF_vars(FlowOffAcked)
    /\ WF_vars(PurgeSignal) /\ WF_vars(CancelWriteThreadDone)
    /\ WF_vars(CancelWriteThreadPurge)
    /\ \A w \in Writes : WF_vars(CancelWriteRoutine(w))
FairSpec == Spec /\ Fairness

-----------------------------------------------------------------------------
(***************************************************************************)
(* Properties.                                                             *)
(***************************************************************************)
TransferStatus == {"PENDING", "SUCCESS", "ERROR", "CANCELLED"}
Sent == Writes \cup {0}
WriteIrp == [where : {"new", "active", "answered", "done"},
             routine : {"none", "set", "running"}, cancelled : BOOLEAN,
             Status : TransferStatus, Information : Nat]
TransferBuffer == [CallingIrp : Sent, First : Nat, Length : Nat,
                   Status : TransferStatus \cup {"IDLE"}, Transferred : Nat,
                   Cancel : BOOLEAN]
SentIrp == [SentIrp : Sent, MWTBuf : Buffers, IrpReturned : BOOLEAN]
Device == [present : BOOLEAN, PowerSuspended : BOOLEAN, halted : BOOLEAN,
           WtErrorCount : Nat]
MwtState == {"WORKING", "STOPPING", "PURGING", "CANCELLING", "FLOW_OFF"}
WriteThread == [pc : WritePcs, set : SUBSET (WriteEvents \cup Buffers),
                mwtState : MwtState, bCancelled : BOOLEAN, bPurged : BOOLEAN,
                bWriteStopped : BOOLEAN, bFlowOn : BOOLEAN,
                bSendZeroLength : BOOLEAN, pWriteCurrent : Sent]

\* The type of the state: which values the driver's fields range over.
TypeOK ==
    /\ irp \in [Writes -> WriteIrp] /\ WriteDataQueue \in Seq(Writes)
    /\ buf \in [Buffers -> TransferBuffer]
    /\ MWriteIdleQueue \in Seq(Buffers) /\ MWritePendingQueue \in Seq(Buffers)
    /\ MWriteCompletionQueue \in Seq(Buffers)
    /\ MWriteCancellingQueue \in Seq(Buffers)
    /\ MWTSentIrpQueue \in Seq(SentIrp) /\ signalling \subseteq Buffers
    /\ dev \in Device /\ wt \in WriteThread
    /\ int \in [flow : {"on", "waiting", "off", "late"}, acked : BOOLEAN]
    /\ canceller \in {"idle", "wait", "purge"}
    /\ purger \in {"idle", "signal", "answered", "wait"}
    /\ device \in Seq(Sent \X Nat) /\ faults \subseteq Faults

\* A completed write IRP is not used again, nor is a list entry of the driver
\* inserted twice.
NoIrpUsedAfterCompletion == Defined

\* Only a write that a client cancels at the wrong moment, or a request that
\* takes the place of another, can lead to that.
OnlyKnownBreaks ==
    ~Defined => faults \cap {"adopted", "overwritten", "stale"} # {}

\* After a flow-off has been acknowledged the lower driver holds no transfer
\* until the flow is turned on again.
FlowOffQuiet ==
    int.flow = "off" /\ faults \cap {"idleOff", "forgotten", "late"} = {} =>
        \A b \in Range(MWritePendingQueue) : ~Held(b)

\* A write that is completed with success has reached the device whole.
SuccessIsSent ==
    \A w \in Writes :
        irp[w].where \in {"answered", "done"} /\ irp[w].Status = "SUCCESS" =>
            \A k \in 1 .. Packets[w] : Contains(device, <<w, k>>)

\* The packets of the writes, in the order in which they were queued.
DataSent == Keep(device, ToSet(device) \ {<<0, 0>>})
Follows(p, q) == p[1] < q[1] \/ (p[1] = q[1] /\ p[2] < q[2])
InOrder == \A k \in 1 .. Len(DataSent) - 1 :
              Follows(DataSent[k], DataSent[k + 1])

\* Turning the flow off and on keeps the order of the packets and sends none
\* twice.
Disorders == {"adopted", "idleOff", "rewound", "singled", "cleared", "late",
              "aborted"}
FlowKeepsOrder == faults \cap Disorders = {} => InOrder

\* A flow-off is quiet and loses no write: until it has been acknowledged and
\* while it lasts, the thread answers no write with CANCELLED whose transfer
\* nobody but the flow-off has ended.
AnswersCancelled(w) ==
    /\ irp[w].where = "active" /\ irp[w].routine = "set"
    /\ irp'[w].where = "answered" /\ irp'[w].Status = "CANCELLED"
FlowOffHolds ==
    /\ []FlowOffQuiet
    /\ [][\A w \in Writes :
             /\ wt.pc \in Buffers /\ AnswersCancelled(w)
             /\ ~Contains(WriteDataQueue, w)
             /\ int.flow \in {"waiting", "off"}
             => \/ ~dev.present \/ buf[Head(MWriteCompletionQueue)].Cancel
                \/ faults \cap {"aborted", "overwritten"} # {}]_vars

\* When the thread has been cancelled and has gone, every write queued before
\* its canceller's purge is answered.  One inserted later, by a caller that had
\* found the thread, is not: it waits on the queue, with the kick set that the
\* next thread takes.
WaitsForThread(w) == /\ w > count.purged /\ Contains(WriteDataQueue, w)
                     /\ "KICK" \in wt.set
NothingLeftBehind ==
    wt.pc = "none" /\ canceller = "idle" /\ Defined
        /\ "overwritten" \notin faults =>
            \A w \in Writes : irp[w].where = "active" =>
                irp[w].routine = "running" \/ WaitsForThread(w)

(***************************************************************************)
(* Liveness, under FairSpec.                                               *)
(***************************************************************************)
\* No kick is lost: a write does not wait for ever while the thread may send.
CanSend == /\ wt.pc \notin {"terminated", "none"} /\ WriteDataQueue # <<>>
           /\ dev.present /\ ~dev.PowerSuspended
           /\ ~wt.bWriteStopped /\ wt.bFlowOn
QueuedIsSent == CanSend ~> ~CanSend \/ ~Defined

\* A cancelled thread ends, so that USBWT_CancelWriteThread returns, unless
\* another request takes the place of the cancellation.
CancelTerminatesAlone ==
    canceller = "wait" ~> \/ canceller # "wait" \/ ~Defined
                          \/ "overwritten" \in faults

\* The thread tells the purge IRP that it has purged, if it goes on and the
\* purge finds no transfer pending.
PurgeEndsIdle ==
    purger = "wait" ~> \/ purger # "wait" \/ ~Defined
                       \/ "unpurged" \in faults
                       \/ wt.pc \in {"terminated", "none"}

\* Who cancels the thread or purges its writes, and waits, is answered.
CallersEnd == CancelTerminatesAlone /\ PurgeEndsIdle

\* A flow-off is acknowledged without the interrupt thread's timeout.
FlowOffAnswered ==
    int.flow = "waiting" ~> \/ int.flow # "waiting" \/ ~Defined
                            \/ "overwritten" \in faults
                            \/ wt.pc \in {"terminated", "none"}
=============================================================================
