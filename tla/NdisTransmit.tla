----------------------------- MODULE NdisTransmit -----------------------------
(***************************************************************************)
(* The NDIS 6 transmit path of an adapter that aggregates for QMAP         *)
(* (ndis/MPTX.c, ndis/MPUsb.c, ndis/MPMain.c with MPQuickTx set, as        *)
(* MPParam.c leaves it, and QoS off).                                      *)
(*                                                                         *)
(* NDIS sends net buffer lists.  Their net buffers wait on TxPendingList,  *)
(* or on QMAPFlowControlList while the modem holds the flow.  MPThread     *)
(* copies them one by one to the buffer at the head of the free queue and  *)
(* completes each when it is copied; a full buffer, or the transmit timer, *)
(* sends it.  A list is returned to NDIS, and its context freed, when all  *)
(* its net buffers are marked Completed.  Meanwhile NDIS cancels lists and *)
(* pauses the adapter.  All lists and counters are under TxLock; a step    *)
(* here is what happens between two acquisitions.                          *)
(*                                                                         *)
(* A net buffer is <<list, index>>.  Sizes are in 4-byte words, to which   *)
(* QMAP pads; UplinkTLPSize leaves out the slack of 8 bytes that every     *)
(* test of the capacity adds.                                              *)
(***************************************************************************)
EXTENDS KernelEvents, Integers, FiniteSetsExt, SequencesExt, Subsequences

CONSTANTS
    NBL,              \* the net buffer lists NDIS has to send
    NumNB,            \* how many net buffers each has
    Size,             \* of each net buffer of a list
    CancelId,         \* of each list
    Unreadable,       \* net buffers without data
    UplinkTLPSize,    \* capacity of a transfer buffer
    MaxTLPPackets,    \* packets a transfer may carry, 0 for any
    NumTLPBuffers,    \* transfer buffers
    QMAPEnabledV4,    \* QMAP version 4 instead of 1
    MediaConnected,   \* MPThread takes the media for connected
    None,
    Scenarios         \* bounds on what comes from outside: the lists NDIS
                      \* sends, how often it cancels and pauses, and the
                      \* calls of the modem

ASSUME SizesAreNumbers ==
    /\ UplinkTLPSize \in Nat /\ MaxTLPPackets \in Nat
    /\ NumTLPBuffers \in Nat \ {0}
    /\ NumNB \in [NBL -> Nat \ {0}] /\ Size \in [NBL -> Nat]
    /\ IsFiniteSet(NBL)

VARIABLES
    context,             \* of each list: MPUSB_TX_CONTEXT_NBL and its fate
    Completed,           \* the net buffers marked so
    TxPendingList, QMAPFlowControlList, QMAPFlowControl,
    nBusyTx,
    UplinkFreeBufferQueue,  \* buffers that are not in USB
    TxTLPPendinginUSB,      \* how many are
    TransmitTimer,       \* TRUE while it runs
    wire,                \* net buffers handed to USB, in order
    thread,              \* MPThread
    canceller,           \* a thread in MPTX_MiniportCancelSend
    pause,               \* how far NDIS has paused the adapter
    left                 \* what may still come from outside

lists == <<TxPendingList, QMAPFlowControlList, QMAPFlowControl>>
buffers == <<UplinkFreeBufferQueue, TxTLPPendinginUSB, TransmitTimer, wire>>
vars == <<context, Completed, lists, nBusyTx, buffers, thread, canceller,
          pause, left>>

NB(l) == {l} \X (1 .. NumNB[l])
NBs == UNION {NB(l) : l \in NBL}
NBsInOrder(l) == [i \in 1 .. NumNB[l] |-> <<l, i>>]
ListOf(nb) == nb[1]

ASSUME NoneIsNothing ==
    None \notin NBs \cup {"SUCCESS", "FAILURE", "ABORTED", "RESOURCES"}
ASSUME ScenariosAreBounds ==
    \A s \in Scenarios :
        s \in [lists : SUBSET NBL, cancels : Nat, pauses : Nat, flows : Nat]

Item == [packets : Seq(NBs), RemainingCapacity : Nat]
FreshItem == [packets |-> <<>>, RemainingCapacity |-> UplinkTLPSize]

\* MPThread's events, by their place in its array.
EventIndex == [timer |-> 2, tx |-> 3]
Idle == [pc |-> "blocked", set |-> {}, nb |-> None, then |-> None]

Init ==
    /\ left \in Scenarios
    /\ context = [l \in NBL |-> [phase |-> "new", startTx |-> FALSE,
                                 Canceld |-> FALSE, NdisStatus |-> None,
                                 Status |-> None, completions |-> 0]]
    /\ Completed = {}
    /\ TxPendingList = <<>> /\ QMAPFlowControlList = <<>>
    /\ QMAPFlowControl = FALSE
    /\ nBusyTx = 0
    /\ UplinkFreeBufferQueue = [i \in 1 .. NumTLPBuffers |-> FreshItem]
    /\ TxTLPPendinginUSB = 0 /\ TransmitTimer = FALSE /\ wire = <<>>
    /\ thread = Idle
    /\ canceller = [pc |-> "idle", queue |-> <<>>]
    /\ pause = "running"

(***************************************************************************)
(* MP_TxIRPCompleteEx for each of the net buffers S, their lists' status   *)
(* being as in ctx: a list all of whose net buffers are marked is returned *)
(* to NDIS and its context freed.                                          *)
(***************************************************************************)
\* fault: one of them is enough
AnyMarked(l, S) == NB(l) \cap (Completed \cup S) # {}
AllMarked(l, S) == NB(l) \subseteq Completed \cup S

Return(S, ctx) ==
    /\ Completed' = Completed \cup S
    /\ context' =
         [l \in NBL |->
            IF (\E nb \in S : ListOf(nb) = l) /\ AllMarked(l, S)
            THEN [ctx[l] EXCEPT !.phase = "returned",
                                !.Status = ctx[l].NdisStatus,
                                !.completions = @ + 1]
            ELSE ctx[l]]

\* fault: a list is counted off, not its net buffers
CountedByList(S) ==
    nBusyTx - Cardinality({l \in NBL : /\ \E nb \in S : ListOf(nb) = l
                                       /\ AllMarked(l, S)})
CountedOff(S) == nBusyTx - Cardinality(S)

WithStatus(S, status) ==
    [l \in NBL |-> IF \E nb \in S : ListOf(nb) = l
                   THEN [context[l] EXCEPT !.NdisStatus = status]
                   ELSE context[l]]

(***************************************************************************)
(* MPTX_MiniportSendNetBufferListsEx.  TxLock is released between the look *)
(* at TxPendingList and the insertion.  Canceld is not initialised: it is  *)
(* what the pool's memory held.  NDIS sends nothing to a paused adapter.   *)
(***************************************************************************)
SendAllocates(l) ==
    /\ pause = "running" /\ l \in left.lists
    /\ left' = [left EXCEPT !.lists = @ \ {l}]
    /\ \E garbage \in BOOLEAN :
         context' = [context EXCEPT ![l].phase = "allocated",
                                    ![l].Canceld = garbage,
                                    ![l].startTx = TxPendingList = <<>>]
    /\ UNCHANGED <<Completed, lists, nBusyTx, buffers, thread, canceller,
                   pause>>

\* There is no memory for the context.
SendFails(l) ==
    /\ pause = "running" /\ l \in left.lists
    /\ left' = [left EXCEPT !.lists = @ \ {l}]
    /\ context' = [context EXCEPT ![l].phase = "returned",
                                  ![l].Status = "RESOURCES",
                                  ![l].completions = 1]
    /\ UNCHANGED <<Completed, lists, nBusyTx, buffers, thread, canceller,
                   pause>>

\* MPMAIN_QMAPIsFlowControlledData
\* fault: the flow is not looked at
IsFlowControlledNever == FALSE
IsFlowControlled == QMAPFlowControl

SendQueues(l) ==
    /\ context[l].phase = "allocated"
    /\ context' = [context EXCEPT ![l].phase = "queued"]
    /\ IF IsFlowControlled
       THEN /\ QMAPFlowControlList' = QMAPFlowControlList \o NBsInOrder(l)
            /\ UNCHANGED TxPendingList
       ELSE /\ TxPendingList' = TxPendingList \o NBsInOrder(l)
            /\ UNCHANGED QMAPFlowControlList
    /\ nBusyTx' = nBusyTx + NumNB[l]
    /\ thread' = IF context[l].startTx THEN Signal(thread, "tx") ELSE thread
    /\ UNCHANGED <<Completed, QMAPFlowControl, buffers, canceller, pause,
                   left>>

(***************************************************************************)
(* MPTX_MiniportCancelSend takes net buffers off TxPendingList, the first  *)
(* of each list of this id to its own queue; then it completes that queue. *)
(***************************************************************************)
Matches(l, id) == ~context[l].Canceld /\ CancelId[l] = id
Removed(id) ==
    {nb \in ToSet(TxPendingList) :
        context[ListOf(nb)].Canceld \/ Matches(ListOf(nb), id)}
ForCancelQueue(id) ==
    Keep(TxPendingList,
         {nb \in ToSet(TxPendingList) :
             /\ Matches(ListOf(nb), id)
             /\ \A i \in 1 .. (nb[2] - 1) :
                   <<ListOf(nb), i>> \notin ToSet(TxPendingList)})

CancelSend(id) ==
    /\ canceller.pc = "idle" /\ left.cancels > 0
    /\ TxPendingList' = Keep(TxPendingList, ToSet(TxPendingList) \ Removed(id))
    /\ canceller' = [pc |-> "status", queue |-> ForCancelQueue(id)]
    /\ context' = [l \in NBL |->
                     IF \E nb \in ToSet(ForCancelQueue(id)) : ListOf(nb) = l
                     THEN [context[l] EXCEPT !.Canceld = TRUE]
                     ELSE context[l]]
    /\ left' = [left EXCEPT !.cancels = @ - 1]
    /\ UNCHANGED <<Completed, QMAPFlowControlList, QMAPFlowControl, nBusyTx,
                   buffers, thread, pause>>

CancelSetsStatus ==
    /\ canceller.pc = "status"
    /\ IF canceller.queue = <<>>
       THEN canceller' = [canceller EXCEPT !.pc = "idle"] /\ UNCHANGED context
       ELSE /\ canceller' = [canceller EXCEPT !.pc = "complete"]
            /\ context' = WithStatus({Head(canceller.queue)}, "ABORTED")
    /\ UNCHANGED <<Completed, lists, nBusyTx, buffers, thread, pause, left>>

CancelCompletes ==
    /\ canceller.pc = "complete"
    /\ Return({Head(canceller.queue)}, context)
    /\ nBusyTx' = CountedOff({Head(canceller.queue)})
    /\ canceller' = [pc |-> "status", queue |-> Tail(canceller.queue)]
    /\ UNCHANGED <<lists, buffers, thread, pause, left>>

(***************************************************************************)
(* MPMAIN_QMAPFlowControlCall: the modem holds or releases the flow.       *)
(***************************************************************************)
\* fault: taken from the head, put to the head
ReleasedReversed == Reverse(QMAPFlowControlList) \o TxPendingList
Released == QMAPFlowControlList \o TxPendingList

FlowControlCall(FlowControlled) ==
    /\ left.flows > 0
    /\ IF FlowControlled
       THEN /\ QMAPFlowControlList' = QMAPFlowControlList \o TxPendingList
            /\ TxPendingList' = <<>>
       ELSE /\ TxPendingList' = Released
            /\ QMAPFlowControlList' = <<>>
    /\ QMAPFlowControl' = FlowControlled
    /\ thread' = Signal(thread, "tx")
    /\ left' = [left EXCEPT !.flows = @ - 1]
    /\ UNCHANGED <<context, Completed, nBusyTx, buffers, canceller, pause>>

(***************************************************************************)
(* MPMAIN_MiniportPause sets the flag and empties the queues: first the    *)
(* flow controlled one, each of whose net buffers it counts off twice,     *)
(* then TxPendingList if the count, read without the lock, says that there *)
(* is something.  Then it waits until nothing is counted.                  *)
(***************************************************************************)
Pause ==
    /\ pause = "running" /\ left.pauses > 0
    /\ \A l \in NBL : context[l].phase # "allocated"  \* no call to Send is on
    /\ pause' = "flagged"
    /\ left' = [left EXCEPT !.pauses = @ - 1]
    /\ UNCHANGED <<context, Completed, lists, nBusyTx, buffers, thread,
                   canceller>>

PausePurgesFlow ==
    /\ pause = "flagged" /\ pause' = "purged"
    /\ Return(ToSet(QMAPFlowControlList),
              WithStatus(ToSet(QMAPFlowControlList), "FAILURE"))
    /\ nBusyTx' = CountedOff(ToSet(QMAPFlowControlList)) - Len(QMAPFlowControlList)
    /\ QMAPFlowControlList' = <<>>
    /\ UNCHANGED <<TxPendingList, QMAPFlowControl, buffers, thread, canceller,
                   left>>

PauseLooks ==
    /\ pause = "purged"
    /\ pause' = IF nBusyTx > 0 THEN "counted" ELSE "waiting"
    /\ UNCHANGED <<context, Completed, lists, nBusyTx, buffers, thread,
                   canceller, left>>

PauseCleansUp ==
    /\ pause = "counted" /\ pause' = "waiting"
    /\ Return(ToSet(TxPendingList),
              WithStatus(ToSet(TxPendingList), "FAILURE"))
    /\ TxPendingList' = <<>>
    /\ nBusyTx' = 0
    /\ UNCHANGED <<QMAPFlowControlList, QMAPFlowControl, buffers, thread,
                   canceller, left>>

PauseEnds ==
    /\ pause = "waiting" /\ nBusyTx <= 0 /\ pause' = "paused"
    /\ UNCHANGED <<context, Completed, lists, nBusyTx, buffers, thread,
                   canceller, left>>

Restart ==
    /\ pause = "paused" /\ pause' = "running"
    /\ UNCHANGED <<context, Completed, lists, nBusyTx, buffers, thread,
                   canceller, left>>

(***************************************************************************)
(* MPThread waits for its events, half a second at most.  When it has      *)
(* waited in vain it looks after TxPendingList, unless the media is        *)
(* connected.                                                              *)
(***************************************************************************)
TakeEvent(event, pc) ==
    /\ thread.pc = event
    /\ thread' = [Clear(thread, event, pc) EXCEPT !.then = "wait"]
    /\ UNCHANGED <<context, Completed, lists, nBusyTx, buffers, canceller,
                   pause, left>>
TakeTxEvent == TakeEvent("tx", "process")
TakeTimerEvent == TakeEvent("timer", "flush")

\* fault: the check is left out
SelfCheckNever == FALSE

SelfCheck ==
    /\ thread.pc = "blocked" /\ ~MediaConnected /\ TxPendingList # <<>>
    /\ thread' = Signal(thread, "tx")
    /\ UNCHANGED <<context, Completed, lists, nBusyTx, buffers, canceller,
                   pause, left>>

(***************************************************************************)
(* MPUSB_AggregationAvailable.  The test of version 4, which counts the    *)
(* checksum header too, is overridden by the one without any header.       *)
(***************************************************************************)
Header == IF QMAPEnabledV4 THEN 2 ELSE 1
\* fault: version 1 forgets its header too
TestedHeaderNone == 0
TestedHeader == IF QMAPEnabledV4 THEN 0 ELSE 1

\* GetNextTxPacketSize
SizeOf(nb) == IF nb \in Unreadable THEN 0 ELSE Size[ListOf(nb)]

AggregationAvailable(nb) ==
    IF UplinkFreeBufferQueue = <<>> THEN "NO_BUF"
    ELSE LET item == Head(UplinkFreeBufferQueue)
         IN  IF \/ MaxTLPPackets > 0 /\ Len(item.packets) >= MaxTLPPackets
                \/ item.RemainingCapacity <= SizeOf(nb) + TestedHeader
             THEN "SEND" ELSE "MORE"

\* MPUSB_TLPProcessPendingTxQueue, one round of its loop.
Processing(agg) ==
    /\ thread.pc = "process" /\ TxPendingList # <<>>
    /\ AggregationAvailable(Head(TxPendingList)) = agg

Dequeue ==
    /\ Processing("MORE")
    /\ TxPendingList' = Tail(TxPendingList)
    /\ thread' = [thread EXCEPT !.nb = Head(TxPendingList),
                                !.pc = IF pause = "running" THEN "packet"
                                       ELSE "refused"]
    /\ UNCHANGED <<context, Completed, QMAPFlowControlList, QMAPFlowControl,
                   nBusyTx, buffers, canceller, pause, left>>

SendFull ==
    /\ Processing("SEND")
    /\ thread' = [thread EXCEPT !.pc = "flush", !.then = "process"]
    /\ UNCHANGED <<context, Completed, lists, nBusyTx, buffers, canceller,
                   pause, left>>

StopProcessing ==
    /\ thread.pc = "process"
    /\ TxPendingList = <<>> \/ Processing("NO_BUF")
    /\ thread' = WaitAny([thread EXCEPT !.then = None], EventIndex)
    /\ UNCHANGED <<context, Completed, lists, nBusyTx, buffers, canceller,
                   pause, left>>

(***************************************************************************)
(* MPUSB_TLPTxPacketEx.  The thread alone takes from the head of the free  *)
(* queue and puts back there, so that a buffer that it puts back at once   *)
(* has not left.                                                           *)
(***************************************************************************)
CopyPacket ==
    LET nb == thread.nb
        item == Head(UplinkFreeBufferQueue)
        length == SizeOf(nb) + Header
        filled == [packets |-> Append(item.packets, nb),
                   RemainingCapacity |-> item.RemainingCapacity - length]
    IN  /\ thread.pc = "packet"
        /\ thread' = [thread EXCEPT !.pc = "status"]
        /\ Completed' = IF nb \in Unreadable THEN Completed \cup {nb}
                        ELSE Completed
        /\ IF nb \notin Unreadable /\ item.RemainingCapacity > length
           THEN /\ UplinkFreeBufferQueue' =
                      <<filled>> \o Tail(UplinkFreeBufferQueue)
                /\ TransmitTimer' = TRUE
           ELSE UNCHANGED <<UplinkFreeBufferQueue, TransmitTimer>>
        /\ UNCHANGED <<context, lists, nBusyTx, TxTLPPendinginUSB, wire,
                       canceller, pause, left>>

\* A packet that was not copied is successful too.
SetStatus ==
    /\ thread.pc \in {"status", "refused"}
    /\ context' = WithStatus({thread.nb},
                    IF thread.pc = "status" THEN "SUCCESS" ELSE "FAILURE")
    /\ thread' = [thread EXCEPT !.pc = "complete"]
    /\ UNCHANGED <<Completed, lists, nBusyTx, buffers, canceller, pause, left>>

\* The context may have been freed: then the list is returned once more, or
\* what is in its place makes nothing of it.
Complete ==
    /\ thread.pc = "complete"
    /\ \/ Return({thread.nb}, context)
       \/ /\ context[ListOf(thread.nb)].phase = "returned"
          /\ UNCHANGED <<context, Completed>>
    /\ nBusyTx' = CountedOff({thread.nb})
    /\ thread' = [thread EXCEPT !.pc = "process", !.nb = None]
    /\ UNCHANGED <<lists, buffers, canceller, pause, left>>

\* The call with no packet sends the buffer at the head, if it holds data.
AfterFlush ==
    IF thread.then = "process" THEN [thread EXCEPT !.pc = "process", !.then = "wait"]
    ELSE WaitAny([thread EXCEPT !.then = None], EventIndex)
Flush ==
    /\ thread.pc = "flush"
    /\ thread' = AfterFlush
    /\ IF \/ UplinkFreeBufferQueue = <<>>
          \/ Head(UplinkFreeBufferQueue).packets = <<>>
       THEN UNCHANGED buffers
       ELSE /\ wire' = wire \o Head(UplinkFreeBufferQueue).packets
            /\ UplinkFreeBufferQueue' = Tail(UplinkFreeBufferQueue)
            /\ TxTLPPendinginUSB' = TxTLPPendinginUSB + 1
            /\ UNCHANGED TransmitTimer
    /\ UNCHANGED <<context, Completed, lists, nBusyTx, canceller, pause, left>>

\* TransmitTimerDpc.
TimerExpires ==
    /\ TransmitTimer /\ TransmitTimer' = FALSE
    /\ thread' = Signal(thread, "timer")
    /\ UNCHANGED <<context, Completed, lists, nBusyTx, UplinkFreeBufferQueue,
                   TxTLPPendinginUSB, wire, canceller, pause, left>>

\* MPUSB_TLPTxIRPCompleteEx, whatever the status: the packets have been
\* completed before.
\* fault: the buffer is not put back
RecycledNot == UplinkFreeBufferQueue
Recycled == Append(UplinkFreeBufferQueue, FreshItem)

UsbCompletes ==
    /\ TxTLPPendinginUSB > 0
    /\ TxTLPPendinginUSB' = TxTLPPendinginUSB - 1
    /\ UplinkFreeBufferQueue' = Recycled
    /\ thread' = Signal(thread, "tx")
    /\ UNCHANGED <<context, Completed, lists, nBusyTx, TransmitTimer, wire,
                   canceller, pause, left>>

Send == \E l \in NBL : SendAllocates(l) \/ SendFails(l)
Queue == \E l \in NBL : SendQueues(l)
Cancel == \E id \in {CancelId[l] : l \in NBL} : CancelSend(id)
FlowControl == \E FlowControlled \in BOOLEAN : FlowControlCall(FlowControlled)
CancelStep == CancelSetsStatus \/ CancelCompletes
PauseStep == PausePurgesFlow \/ PauseLooks \/ PauseCleansUp \/ PauseEnds
ThreadStep ==
    \/ TakeTxEvent \/ TakeTimerEvent \/ SelfCheck
    \/ Dequeue \/ SendFull \/ StopProcessing
    \/ CopyPacket \/ SetStatus \/ Complete \/ Flush

Next ==
    \/ Send \/ Queue \/ Cancel \/ CancelStep \/ FlowControl
    \/ Pause \/ PauseStep \/ Restart
    \/ ThreadStep \/ TimerExpires \/ UsbCompletes

Spec == Init /\ [][Next]_vars

(***************************************************************************)
(* The threads run, a timer expires and the device takes what it is sent.  *)
(* Nobody has to send, cancel or pause, or to release the flow.            *)
(***************************************************************************)
Fairness ==
    /\ WF_vars(ThreadStep) /\ WF_vars(TimerExpires) /\ WF_vars(UsbCompletes)
    /\ \A l \in NBL : WF_vars(SendQueues(l))
    /\ WF_vars(CancelStep) /\ WF_vars(PauseStep)

FairSpec == Spec /\ Fairness

(***************************************************************************)
(* Where a net buffer is that has not been completed.                      *)
(***************************************************************************)
InHand == IF thread.nb = None THEN <<>> ELSE <<thread.nb>>
Held == canceller.queue \o InHand \o TxPendingList \o QMAPFlowControlList
Queued == {nb \in NBs : context[ListOf(nb)].phase = "queued"}

CopiedPackets == IF UplinkFreeBufferQueue = <<>> THEN <<>>
                 ELSE Head(UplinkFreeBufferQueue).packets

\* CancelSend takes them off the list and forgets them.
Forgotten == {nb \in Queued \ (Completed \cup ToSet(Held)) :
                 context[ListOf(nb)].Canceld}

TypeOK ==
    /\ context \in [NBL -> [phase : {"new", "allocated", "queued", "returned"},
                            startTx : BOOLEAN, Canceld : BOOLEAN,
                            NdisStatus : {None, "SUCCESS", "FAILURE", "ABORTED"},
                            Status : {None, "SUCCESS", "FAILURE", "ABORTED",
                                      "RESOURCES"},
                            completions : Nat]]
    /\ Completed \subseteq NBs
    /\ TxPendingList \in Seq(NBs) /\ QMAPFlowControlList \in Seq(NBs)
    /\ QMAPFlowControl \in BOOLEAN
    /\ nBusyTx \in Int
    /\ UplinkFreeBufferQueue \in Seq(Item)
    /\ TxTLPPendinginUSB \in 0 .. NumTLPBuffers
    /\ Len(UplinkFreeBufferQueue) = NumTLPBuffers - TxTLPPendinginUSB
    /\ TransmitTimer \in BOOLEAN
    /\ wire \in Seq(NBs)
    /\ thread \in [pc : {"blocked", "tx", "timer", "process", "packet",
                         "refused", "status", "complete", "flush"},
                   set : SUBSET {"tx", "timer"}, nb : NBs \cup {None},
                   then : {None, "wait", "process"}]
    /\ canceller \in [pc : {"idle", "status", "complete"}, queue : Seq(NBs)]
    /\ pause \in {"running", "flagged", "purged", "counted", "waiting",
                  "paused"}
    /\ left \in [lists : SUBSET NBL, cancels : Nat, pauses : Nat, flows : Nat]

\* Nothing waits on the list that the state of the flow does not serve.
FlowIsServed ==
    IF QMAPFlowControl THEN TxPendingList = <<>> ELSE QMAPFlowControlList = <<>>

\* A net buffer that NDIS waits for is in exactly one place, or CancelSend has
\* forgotten it; and that place is not the list that the state of the flow
\* leaves alone.
EachInOnePlace ==
    /\ IsInjective(Held)
    /\ \A nb \in Queued \ Completed :
          nb \in ToSet(Held) \/ context[ListOf(nb)].Canceld
    /\ FlowIsServed

\* However sending, cancelling and pausing meet, no list is returned twice, and
\* no context is used after it was freed, unless a net buffer of the list was
\* marked Completed outside the lock.
FreedIsNotUsed ==
    \A l \in NBL :
        NB(l) \cap Unreadable = {} =>
            /\ context[l].completions <= 1
            /\ context[l].phase = "returned" => \A nb \in ToSet(Held) : ListOf(nb) # l

\* Where only one net buffer decides on the status of its list, the list is
\* successful exactly when its data has been copied.
SuccessIsCopied ==
    \A l \in NBL :
        /\ NumNB[l] = 1 /\ NB(l) \cap Unreadable = {}
        /\ context[l].phase = "returned"
        => (context[l].Status = "SUCCESS" <=>
            <<l, 1>> \in ToSet(wire \o CopiedPackets))

\* Data that has been copied does not wait for ever: the timer runs, or it has
\* expired and MPThread is going to see it.
TimerCoversData ==
    CopiedPackets # <<>> =>
        TransmitTimer \/ "timer" \in thread.set \/ thread.pc = "flush"

\* nBusyTx counts the net buffers that are on their way (MPTX.c:415): only the
\* steps of a pause, which counts some twice and forgets the others, depart
\* from that.
Outstanding == Len(Held) + Cardinality(Forgotten)
CountFollows ==
    [][pause' = pause => nBusyTx' - nBusyTx = Outstanding' - Outstanding]_vars

\* The lists' net buffers leave in the order in which NDIS sent them, each at
\* most once: in flow control or not, the waiting ones form one queue, which
\* begins with the one that MPThread has taken and not copied yet.
NotCopied == IF thread.pc = "packet" THEN InHand ELSE <<>>
Waiting == NotCopied \o TxPendingList \o QMAPFlowControlList
TransmitQueueOfAdapter == INSTANCE TransmitQueue
    WITH Buffer <- NBs, queue <- Waiting, copied <- CopiedPackets
ImplementsQueue == TransmitQueueOfAdapter!Spec

\* A list that NDIS has sent returns to it, unless CancelSend loses it or the
\* modem holds the flow; and what has been copied is handed to USB.
NothingStalls ==
    /\ \A l \in NBL : context[l].phase = "queued" ~>
         context[l].phase = "returned" \/ context[l].Canceld \/ QMAPFlowControl
    /\ \A nb \in NBs : nb \in ToSet(CopiedPackets) ~> nb \in ToSet(wire)

(***************************************************************************)
(* What the comments say and the code does not do.                         *)
(***************************************************************************)
\* MPTX.c:509: CancelSend puts every net buffer that it takes off on its queue.
NoneIsForgotten == Forgotten = {}

\* MPMain.c:4393: the adapter is paused when all sends are completed.
PausedIsIdle == pause = "paused" => \A l \in NBL : context[l].phase # "queued"
=============================================================================
