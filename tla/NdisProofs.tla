------------------------------ MODULE NdisProofs ------------------------------
(***************************************************************************)
(* Proofs about NdisTransmit, for every number of lists, net buffers and   *)
(* transfer buffers and every value of the bounds.                         *)
(***************************************************************************)
EXTENDS NdisTransmit, SubsequenceProofs

-----------------------------------------------------------------------------
(* Type correctness *)

Statuses == {None, "SUCCESS", "FAILURE", "ABORTED"}
NblContext == [phase : {"new", "allocated", "queued", "returned"},
               startTx : BOOLEAN, Canceld : BOOLEAN, NdisStatus : Statuses,
               Status : Statuses \cup {"RESOURCES"}, completions : Nat]
ThreadType == [pc : {"blocked", "tx", "timer", "process", "packet",
                     "refused", "status", "complete", "flush"},
               set : SUBSET {"tx", "timer"}, nb : NBs \cup {None},
               then : {None, "wait", "process"}]

\* A net buffer is in the thread's hand from the queue to its completion; while
\* it is being copied there is a buffer to copy it to.
HandOK ==
    /\ thread.nb # None <=> thread.pc \in {"packet", "refused", "status", "complete"}
    /\ thread.pc = "packet" => UplinkFreeBufferQueue # <<>>

CancellerOK ==
    /\ canceller.pc = "idle" => canceller.queue = <<>>
    /\ canceller.pc = "complete" => canceller.queue # <<>>

TypeInv == TypeOK /\ HandOK /\ CancellerOK

LEMMA NetBuffers ==
    /\ \A nb \in NBs : ListOf(nb) \in NBL /\ nb \in NB(ListOf(nb)) /\ nb # None
    /\ \A l \in NBL : NB(l) \subseteq NBs /\ NB(l) # {} /\ NumNB[l] \in Nat
    /\ \A l \in NBL : \A nb \in NB(l) : ListOf(nb) = l
    /\ \A l, m \in NBL : l # m => NB(l) \cap NB(m) = {}
<1>1. \A l \in NBL : NumNB[l] \in Nat \ {0}
  BY SizesAreNumbers
<1>2. \A l \in NBL : \A nb \in NB(l) : ListOf(nb) = l
  BY DEF NB, ListOf
<1>3. \A l \in NBL : <<l, 1>> \in NB(l)
  BY <1>1 DEF NB
<1>4. \A nb \in NBs : \E l \in NBL : nb \in NB(l)
  BY DEF NBs
<1>5. \A nb \in NBs : nb # None
  BY NoneIsNothing
<1>6. \A l \in NBL : NB(l) \subseteq NBs
  BY DEF NBs
<1>7. \A nb \in NBs : ListOf(nb) \in NBL /\ nb \in NB(ListOf(nb))
  BY <1>2, <1>4
<1>8. \A l, m \in NBL : l # m => NB(l) \cap NB(m) = {}
  <2> SUFFICES ASSUME NEW l \in NBL, NEW m \in NBL, NEW nb \in NB(l) \cap NB(m)
               PROVE  l = m
    OBVIOUS
  <2>1. ListOf(nb) = l /\ ListOf(nb) = m
    BY <1>2
  <2> QED BY <2>1
<1>9. \A l \in NBL : NB(l) # {} /\ NumNB[l] \in Nat
  BY <1>1, <1>3
<1> QED BY <1>2, <1>5, <1>6, <1>7, <1>8, <1>9

LEMMA InOrder ==
    ASSUME NEW l \in NBL
    PROVE  /\ NBsInOrder(l) \in Seq(NBs) /\ Len(NBsInOrder(l)) = NumNB[l]
           /\ ToSet(NBsInOrder(l)) = NB(l) /\ IsInjective(NBsInOrder(l))
<1>1. NumNB[l] \in Nat
  BY NetBuffers
<1>2. \A i \in 1 .. NumNB[l] : <<l, i>> \in NBs
  BY NetBuffers DEF NB
<1>3. NBsInOrder(l) \in Seq(NBs) /\ Len(NBsInOrder(l)) = NumNB[l]
  BY <1>1, <1>2 DEF NBsInOrder
<1>4. DOMAIN NBsInOrder(l) = 1 .. NumNB[l] /\ \A i \in 1 .. NumNB[l] : NBsInOrder(l)[i] = <<l, i>>
  BY DEF NBsInOrder
<1>5. ToSet(NBsInOrder(l)) = NB(l)
  <2>1. ToSet(NBsInOrder(l)) = {<<l, i>> : i \in 1 .. NumNB[l]}
    BY <1>4 DEF ToSet
  <2>2. NB(l) = {<<l, i>> : i \in 1 .. NumNB[l]}
    BY DEF NB
  <2> QED BY <2>1, <2>2
<1>6. IsInjective(NBsInOrder(l))
  BY <1>4 DEF IsInjective
<1> QED BY <1>3, <1>5, <1>6

LEMMA LowestIsSet ==
    ASSUME NEW set \in SUBSET {"tx", "timer"}, set # {}
    PROVE  LowestEvent(set, EventIndex) \in set
<1>1. EventIndex["timer"] = 2 /\ EventIndex["tx"] = 3
  BY DEF EventIndex
<1>2. \E e \in set : \A f \in set : EventIndex[e] <= EventIndex[f]
  <2>1. CASE "timer" \in set
    BY <2>1, <1>1
  <2>2. CASE set = {"tx"}
    BY <2>2, <1>1
  <2> QED BY <2>1, <2>2
<1> QED BY <1>2 DEF LowestEvent

LEMMA SignalThread ==
    ASSUME NEW t \in ThreadType, NEW e \in {"tx", "timer"}
    PROVE  /\ Signal(t, e) \in ThreadType
           /\ Signal(t, e).nb = t.nb /\ Signal(t, e).then = t.then
           /\ Signal(t, e).set = t.set \cup {e}
           /\ t.pc = "blocked" => Signal(t, e).pc = e
           /\ t.pc # "blocked" => Signal(t, e).pc = t.pc
BY DEF Signal, ThreadType

LEMMA WaitThread ==
    ASSUME NEW t \in ThreadType
    PROVE  LET w == WaitAny([t EXCEPT !.then = None], EventIndex)
           IN  /\ w \in ThreadType /\ w.nb = t.nb /\ w.set = t.set
               /\ w.pc \in {"blocked", "tx", "timer"}
BY LowestIsSet DEF WaitAny, ThreadType

LEMMA StatusType ==
    ASSUME context \in [NBL -> NblContext], NEW S, NEW status \in Statuses
    PROVE  /\ WithStatus(S, status) \in [NBL -> NblContext]
           /\ \A l \in NBL :
                WithStatus(S, status)[l] =
                  IF \E nb \in S : ListOf(nb) = l
                  THEN [context[l] EXCEPT !.NdisStatus = status] ELSE context[l]
BY DEF WithStatus, NblContext

LEMMA ReturnType ==
    ASSUME Completed \subseteq NBs, NEW S \in SUBSET NBs,
           NEW ctx \in [NBL -> NblContext], Return(S, ctx)
    PROVE  Completed' \subseteq NBs /\ context' \in [NBL -> NblContext]
<1>1. Completed' \subseteq NBs
  BY DEF Return
<1>2. ASSUME NEW c \in NblContext
      PROVE  [c EXCEPT !.phase = "returned", !.Status = c.NdisStatus,
                       !.completions = @ + 1] \in NblContext
  <2>1. c.completions + 1 \in Nat /\ c.NdisStatus \in Statuses \cup {"RESOURCES"}
    BY DEF NblContext
  <2> QED BY <2>1 DEF NblContext
<1>3. context' \in [NBL -> NblContext]
  BY <1>2 DEF Return
<1> QED BY <1>1, <1>3
-----------------------------------------------------------------------------

LEMMA InitType == Init => TypeInv
<1> SUFFICES ASSUME Init PROVE TypeInv
  OBVIOUS
<1>1. context \in [NBL -> NblContext]
  BY DEF Init, NblContext, Statuses
<1>2. FreshItem \in Item /\ NumTLPBuffers \in Nat \ {0}
  BY SizesAreNumbers DEF FreshItem, Item
<1>3. /\ UplinkFreeBufferQueue \in Seq(Item)
      /\ Len(UplinkFreeBufferQueue) = NumTLPBuffers - TxTLPPendinginUSB
      /\ TxTLPPendinginUSB \in 0 .. NumTLPBuffers
  BY <1>2 DEF Init
<1>4. thread \in ThreadType /\ HandOK
  BY NoneIsNothing DEF Init, Idle, ThreadType, HandOK
<1>5. CancellerOK /\ canceller \in [pc : {"idle", "status", "complete"}, queue : Seq(NBs)]
  BY DEF Init, CancellerOK
<1>6. left \in [lists : SUBSET NBL, cancels : Nat, pauses : Nat, flows : Nat]
  BY ScenariosAreBounds DEF Init
<1>7. /\ Completed \subseteq NBs
      /\ TxPendingList \in Seq(NBs) /\ QMAPFlowControlList \in Seq(NBs)
      /\ nBusyTx \in Int /\ wire \in Seq(NBs)
      /\ pause \in {"running", "flagged", "purged", "counted", "waiting", "paused"}
  BY DEF Init
<1>8. QMAPFlowControl \in BOOLEAN /\ TransmitTimer \in BOOLEAN
  BY Zenon DEF Init
<1> QED BY <1>1, <1>3, <1>4, <1>5, <1>6, <1>7, <1>8
        DEF TypeInv, TypeOK, NblContext, Statuses, ThreadType

-----------------------------------------------------------------------------
(* The parts of the type invariant, and the steps *)

ContextOK == context \in [NBL -> NblContext] /\ Completed \subseteq NBs
ListsOK ==
    /\ TxPendingList \in Seq(NBs) /\ QMAPFlowControlList \in Seq(NBs)
    /\ QMAPFlowControl \in BOOLEAN
BuffersOK ==
    /\ UplinkFreeBufferQueue \in Seq(Item)
    /\ TxTLPPendinginUSB \in 0 .. NumTLPBuffers
    /\ Len(UplinkFreeBufferQueue) = NumTLPBuffers - TxTLPPendinginUSB
    /\ TransmitTimer \in BOOLEAN /\ wire \in Seq(NBs)
ThreadOK == thread \in ThreadType /\ HandOK
CancelOK ==
    /\ CancellerOK
    /\ canceller \in [pc : {"idle", "status", "complete"}, queue : Seq(NBs)]
PauseOK ==
    pause \in {"running", "flagged", "purged", "counted", "waiting", "paused"}
LeftOK == left \in [lists : SUBSET NBL, cancels : Nat, pauses : Nat, flows : Nat]

Parts ==
    /\ ContextOK /\ ListsOK /\ nBusyTx \in Int /\ BuffersOK
    /\ ThreadOK /\ CancelOK /\ PauseOK /\ LeftOK

LEMMA TypeParts == (TypeInv <=> Parts) /\ (TypeInv' <=> Parts')
<1>1. TypeInv <=> Parts
  BY DEF TypeInv, TypeOK, Parts, ContextOK, ListsOK, BuffersOK, ThreadOK, CancelOK,
         PauseOK, LeftOK, NblContext, Statuses, ThreadType
<1>2. TypeInv' <=> Parts'
  BY <1>1, PTL
<1> QED BY <1>1, <1>2

LEMMA Kept ==
    ASSUME TypeInv
    PROVE  /\ UNCHANGED <<context, Completed>> => ContextOK'
           /\ UNCHANGED lists => ListsOK'
           /\ UNCHANGED buffers => BuffersOK'
           /\ UNCHANGED <<thread, buffers>> => ThreadOK'
           /\ UNCHANGED canceller => CancelOK'
           /\ UNCHANGED pause => PauseOK'
           /\ UNCHANGED left => LeftOK'
BY TypeParts DEF Parts, ContextOK, ListsOK, BuffersOK, ThreadOK, CancelOK, PauseOK,
       LeftOK, HandOK, CancellerOK, lists, buffers

\* The thread's record may be replaced by one with the same hand.
LEMMA ThreadKept ==
    ASSUME TypeInv, UNCHANGED buffers, thread' \in ThreadType, thread'.nb = thread.nb,
           thread'.pc \in {"packet", "refused", "status", "complete"}
             <=> thread.pc \in {"packet", "refused", "status", "complete"},
           thread'.pc = "packet" => thread.pc = "packet"
    PROVE  ThreadOK'
BY TypeParts DEF Parts, ThreadOK, HandOK, buffers

LEMMA ThreadSignalled ==
    ASSUME TypeInv, UNCHANGED buffers, NEW e \in {"tx", "timer"},
           thread' = Signal(thread, e)
    PROVE  ThreadOK'
<1>1. thread \in ThreadType
  BY TypeParts DEF Parts, ThreadOK
<1>2. /\ thread' \in ThreadType /\ thread'.nb = thread.nb
      /\ thread.pc = "blocked" => thread'.pc = e
      /\ thread.pc # "blocked" => thread'.pc = thread.pc
  BY <1>1, SignalThread
<1> QED BY <1>2, ThreadKept

LEMMA SendType ==
    ASSUME TypeInv, NEW l \in NBL, SendAllocates(l) \/ SendFails(l)
    PROVE  TypeInv'
<1>1. left \in [lists : SUBSET NBL, cancels : Nat, pauses : Nat, flows : Nat]
      /\ ContextOK /\ nBusyTx \in Int
  BY TypeParts DEF Parts, LeftOK
<1>2. left' = [left EXCEPT !.lists = @ \ {l}]
  BY DEF SendAllocates, SendFails
<1>3. LeftOK'
  <2>1. left.lists \ {l} \in SUBSET NBL
    BY <1>1
  <2> QED BY <1>1, <1>2, <2>1 DEF LeftOK
<1>4. ContextOK'
  <2>1. CASE SendAllocates(l)
    <3>1. PICK garbage \in BOOLEAN :
            context' = [context EXCEPT ![l].phase = "allocated", ![l].Canceld = garbage,
                                       ![l].startTx = TxPendingList = <<>>]
      BY <2>1 DEF SendAllocates
    <3>2. (TxPendingList = <<>>) \in BOOLEAN
      BY Zenon
    <3> DEFINE starts == TxPendingList = <<>>
    <3> HIDE DEF starts
    <3>3. [context[l] EXCEPT !.phase = "allocated", !.Canceld = garbage,
                             !.startTx = starts] \in NblContext
      <4>1. starts \in BOOLEAN
        BY <3>2 DEF starts
      <4>2. context[l] \in NblContext
        BY <1>1 DEF ContextOK
      <4> QED BY <4>1, <4>2 DEF NblContext
    <3>4. context' = [context EXCEPT ![l] = [context[l] EXCEPT !.phase = "allocated",
                         !.Canceld = garbage, !.startTx = starts]]
      BY <3>1, <1>1 DEF ContextOK, starts
    <3>5. Completed' = Completed
      BY <2>1 DEF SendAllocates
    <3> QED BY <3>3, <3>4, <3>5, <1>1 DEF ContextOK
  <2>2. CASE SendFails(l)
    <3>1. [context[l] EXCEPT !.phase = "returned", !.Status = "RESOURCES",
                             !.completions = 1] \in NblContext
      BY <1>1 DEF ContextOK, NblContext
    <3>2. Completed' = Completed /\
          context' = [context EXCEPT ![l] = [context[l] EXCEPT !.phase = "returned",
                                 !.Status = "RESOURCES", !.completions = 1]]
      BY <2>2, <1>1 DEF SendFails, ContextOK
    <3> QED BY <3>1, <3>2, <1>1 DEF ContextOK
  <2> QED BY <2>1, <2>2
<1>5. UNCHANGED <<Completed, lists, nBusyTx, buffers, thread, canceller, pause>>
  BY DEF SendAllocates, SendFails
<1> QED BY <1>1, <1>3, <1>4, <1>5, Kept, TypeParts DEF Parts

LEMMA QueueType == ASSUME TypeInv, NEW l \in NBL, SendQueues(l) PROVE TypeInv'
<1>1. ContextOK /\ ListsOK /\ nBusyTx \in Int /\ ThreadOK
  BY TypeParts DEF Parts
<1>2. UNCHANGED <<Completed, QMAPFlowControl, buffers, canceller, pause, left>>
  BY DEF SendQueues
<1>3. ContextOK'
  <2>1. [context[l] EXCEPT !.phase = "queued"] \in NblContext
    BY <1>1 DEF ContextOK, NblContext
  <2>2. context' = [context EXCEPT ![l] = [context[l] EXCEPT !.phase = "queued"]]
    BY <1>1 DEF SendQueues, ContextOK
  <2> QED BY <1>1, <1>2, <2>1, <2>2 DEF ContextOK
<1>4. ListsOK'
  <2>1. NBsInOrder(l) \in Seq(NBs)
    BY InOrder
  <2>2. \/ /\ QMAPFlowControlList' = QMAPFlowControlList \o NBsInOrder(l)
           /\ TxPendingList' = TxPendingList
        \/ /\ TxPendingList' = TxPendingList \o NBsInOrder(l)
           /\ QMAPFlowControlList' = QMAPFlowControlList
    BY Zenon DEF SendQueues
  <2>0. TxPendingList \in Seq(NBs) /\ QMAPFlowControlList \in Seq(NBs)
    BY <1>1, Zenon DEF ListsOK
  <2>3. TxPendingList' \in Seq(NBs) /\ QMAPFlowControlList' \in Seq(NBs)
    BY <2>0, <2>1, <2>2, ConcatIsSeq
  <2> QED BY <1>1, <1>2, <2>3, Zenon DEF ListsOK
<1>5. nBusyTx' \in Int
  BY <1>1, NetBuffers DEF SendQueues
<1>6. ThreadOK'
  <2>1. CASE context[l].startTx
    BY <2>1, <1>2, ThreadSignalled DEF SendQueues
  <2>2. CASE ~context[l].startTx
    BY <2>2, <1>2, Kept DEF SendQueues
  <2> QED BY <2>1, <2>2
<1> QED BY <1>2, <1>3, <1>4, <1>5, <1>6, Kept, TypeParts DEF Parts

LEMMA FlowControlType ==
    ASSUME TypeInv, NEW FlowControlled \in BOOLEAN, FlowControlCall(FlowControlled)
    PROVE  TypeInv'
<1>1. ListsOK /\ LeftOK /\ nBusyTx \in Int
  BY TypeParts DEF Parts
<1>2. UNCHANGED <<context, Completed, nBusyTx, buffers, canceller, pause>>
  BY DEF FlowControlCall
<1>3. TxPendingList' \in Seq(NBs) /\ QMAPFlowControlList' \in Seq(NBs)
  <2>1. \/ /\ QMAPFlowControlList' = QMAPFlowControlList \o TxPendingList
           /\ TxPendingList' = <<>>
        \/ /\ TxPendingList' = QMAPFlowControlList \o TxPendingList
           /\ QMAPFlowControlList' = <<>>
    BY Zenon DEF FlowControlCall, Released
  <2>2. TxPendingList \in Seq(NBs) /\ QMAPFlowControlList \in Seq(NBs)
    BY <1>1, Zenon DEF ListsOK
  <2>3. QMAPFlowControlList \o TxPendingList \in Seq(NBs) /\ <<>> \in Seq(NBs)
    BY <2>2, ConcatIsSeq
  <2> QED BY <2>1, <2>3, Zenon
<1>4. QMAPFlowControl' \in BOOLEAN
  BY Zenon DEF FlowControlCall
<1>5. LeftOK'
  BY <1>1 DEF LeftOK, FlowControlCall
<1>6. ThreadOK'
  BY <1>2, ThreadSignalled DEF FlowControlCall
<1>7. ListsOK'
  BY <1>3, <1>4 DEF ListsOK
<1> QED BY <1>1, <1>2, <1>5, <1>6, <1>7, Kept, TypeParts DEF Parts

LEMMA ForCancelKeeps ==
    ASSUME TypeInv, NEW id
    PROVE  /\ ForCancelQueue(id) \in Seq(NBs)
           /\ ToSet(ForCancelQueue(id)) \subseteq ToSet(TxPendingList)
<1>1. TxPendingList \in Seq(NBs)
  BY TypeParts, Zenon DEF Parts, ListsOK
<1> QED BY <1>1, KeepElements DEF ForCancelQueue

LEMMA CancelType ==
    ASSUME TypeInv, NEW id, CancelSend(id)
    PROVE  TypeInv'
<1>1. ListsOK /\ LeftOK /\ ContextOK /\ nBusyTx \in Int
  BY TypeParts DEF Parts
<1>2. UNCHANGED <<Completed, QMAPFlowControlList, QMAPFlowControl, nBusyTx,
                  buffers, thread, pause>>
  BY DEF CancelSend
<1>3. ListsOK'
  <2>1. TxPendingList \in Seq(NBs)
    BY <1>1, Zenon DEF ListsOK
  <2>2. TxPendingList' \in Seq(NBs)
    BY <2>1, KeepElements DEF CancelSend
  <2> QED BY <1>1, <1>2, <2>2, Zenon DEF ListsOK
<1>4. CancelOK'
  BY ForCancelKeeps DEF CancelOK, CancellerOK, CancelSend
<1>5. ContextOK'
  <2>1. \A l \in NBL : [context[l] EXCEPT !.Canceld = TRUE] \in NblContext
    BY <1>1 DEF ContextOK, NblContext
  <2> QED BY <1>1, <1>2, <2>1 DEF ContextOK, CancelSend
<1>6. LeftOK'
  BY <1>1 DEF LeftOK, CancelSend
<1> QED BY <1>1, <1>2, <1>3, <1>4, <1>5, <1>6, Kept, TypeParts DEF Parts

LEMMA CountedOffType ==
    ASSUME nBusyTx \in Int, NEW s \in Seq(NBs)
    PROVE  CountedOff(ToSet(s)) \in Int
<1>1. IsFiniteSet(ToSet(s))
  <2> DEFINE f == [i \in 1 .. Len(s) |-> s[i]]
  <2>1. f \in Surjection(1 .. Len(s), ToSet(s))
    <3>1. ToSet(s) = {s[i] : i \in 1 .. Len(s)}
      BY Elements
    <3> QED BY <3>1 DEF Surjection
  <2>2. IsFiniteSet(1 .. Len(s))
    BY FS_Interval
  <2> HIDE DEF f
  <2> QED BY <2>1, <2>2, FS_Surjection
<1> QED BY <1>1, FS_CardinalityType DEF CountedOff

LEMMA CountedOffOne ==
    ASSUME NEW nb
    PROVE  CountedOff({nb}) = nBusyTx - 1
BY FS_Singleton DEF CountedOff

LEMMA CancelStepType == ASSUME TypeInv, CancelStep PROVE TypeInv'
<1>1. CancelOK /\ ContextOK /\ nBusyTx \in Int /\ canceller.queue \in Seq(NBs)
  BY TypeParts DEF Parts, CancelOK
<1>2. UNCHANGED <<lists, buffers, thread, pause, left>>
  BY DEF CancelStep, CancelSetsStatus, CancelCompletes
<1>3. CASE CancelSetsStatus /\ canceller.queue = <<>>
  <2>1. UNCHANGED <<context, Completed, nBusyTx>> /\ CancelOK'
    BY <1>1, <1>3 DEF CancelSetsStatus, CancelOK, CancellerOK
  <2> QED BY <1>1, <1>2, <2>1, Kept, TypeParts DEF Parts
<1>4. CASE CancelSetsStatus /\ canceller.queue # <<>>
  <2>1. CancelOK'
    BY <1>1, <1>4 DEF CancelSetsStatus, CancelOK, CancellerOK
  <2>2. WithStatus({Head(canceller.queue)}, "ABORTED") \in [NBL -> NblContext]
    BY <1>1, StatusType DEF ContextOK, Statuses
  <2>3. ContextOK' /\ nBusyTx' = nBusyTx
    BY <1>1, <1>4, <2>2 DEF CancelSetsStatus, ContextOK
  <2> QED BY <1>1, <1>2, <2>1, <2>3, Kept, TypeParts DEF Parts
<1>5. CASE CancelCompletes
  <2>1. /\ canceller.queue # <<>> /\ Return({Head(canceller.queue)}, context)
        /\ nBusyTx' = nBusyTx - 1
        /\ canceller' = [pc |-> "status", queue |-> Tail(canceller.queue)]
    BY <1>1, <1>5, CountedOffOne DEF CancelCompletes, CancelOK, CancellerOK
  <2>2. Head(canceller.queue) \in NBs /\ Tail(canceller.queue) \in Seq(NBs)
    BY <1>1, <2>1, HeadAndTail
  <2>3. ContextOK'
    <3>1. {Head(canceller.queue)} \in SUBSET NBs
      BY <2>2
    <3> QED BY <1>1, <2>1, <3>1, ReturnType DEF ContextOK
  <2>4. CancelOK' /\ nBusyTx' \in Int
    BY <1>1, <2>1, <2>2 DEF CancelOK, CancellerOK
  <2> QED BY <1>2, <2>3, <2>4, Kept, TypeParts DEF Parts
<1> QED BY <1>3, <1>4, <1>5 DEF CancelStep

LEMMA PauseType == ASSUME TypeInv, Pause \/ PauseStep \/ Restart PROVE TypeInv'
<1>1. /\ ContextOK /\ nBusyTx \in Int /\ LeftOK /\ ListsOK
      /\ TxPendingList \in Seq(NBs) /\ QMAPFlowControlList \in Seq(NBs)
  BY TypeParts, Zenon DEF Parts, ListsOK
<1>2. ASSUME NEW s \in Seq(NBs)
      PROVE  /\ WithStatus(ToSet(s), "FAILURE") \in [NBL -> NblContext]
             /\ ToSet(s) \in SUBSET NBs
             /\ Len(s) \in Nat
  BY <1>1, StatusType, Elements DEF ContextOK, Statuses
<1>3. CASE PausePurgesFlow
  <2>1. UNCHANGED <<TxPendingList, QMAPFlowControl, buffers, thread, canceller, left>>
    BY <1>3 DEF PausePurgesFlow
  <2>2. ContextOK'
    BY <1>1, <1>2, <1>3, ReturnType DEF PausePurgesFlow, ContextOK
  <2>3. nBusyTx' \in Int
    BY <1>1, <1>2, <1>3, CountedOffType DEF PausePurgesFlow
  <2>4. QMAPFlowControlList' \in Seq(NBs) /\ PauseOK'
    BY <1>3 DEF PausePurgesFlow, PauseOK
  <2>5. ListsOK'
    BY <1>1, <2>1, <2>4, Zenon DEF ListsOK
  <2> QED BY <2>1, <2>2, <2>3, <2>4, <2>5, Kept, TypeParts DEF Parts
<1>4. CASE PauseCleansUp
  <2>1. UNCHANGED <<QMAPFlowControlList, QMAPFlowControl, buffers, thread, canceller, left>>
    BY <1>4 DEF PauseCleansUp
  <2>2. ContextOK'
    BY <1>1, <1>2, <1>4, ReturnType DEF PauseCleansUp, ContextOK
  <2>3. TxPendingList' \in Seq(NBs) /\ PauseOK' /\ nBusyTx' \in Int
    BY <1>4 DEF PauseCleansUp, PauseOK
  <2>4. ListsOK'
    BY <1>1, <2>1, <2>3, Zenon DEF ListsOK
  <2> QED BY <2>1, <2>2, <2>3, <2>4, Kept, TypeParts DEF Parts
<1>5. CASE Pause \/ PauseLooks \/ PauseEnds \/ Restart
  <2>1. /\ UNCHANGED <<context, Completed, lists, nBusyTx, buffers, thread, canceller>>
        /\ PauseOK'
    BY <1>5 DEF Pause, PauseLooks, PauseEnds, Restart, PauseOK
  <2>2. LeftOK'
    BY <1>1, <1>5, Kept DEF Pause, PauseLooks, PauseEnds, Restart, LeftOK
  <2> QED BY <1>1, <2>1, <2>2, Kept, TypeParts DEF Parts
<1> QED BY <1>3, <1>4, <1>5 DEF PauseStep

\* The steps of the thread that change nothing but its record.
LEMMA WalkType ==
    ASSUME TypeInv, TakeTxEvent \/ TakeTimerEvent \/ SelfCheck \/ SendFull \/ StopProcessing
    PROVE  TypeInv'
<1>1. thread \in ThreadType /\ nBusyTx \in Int
  BY TypeParts DEF Parts, ThreadOK
<1>2. UNCHANGED <<context, Completed, lists, nBusyTx, buffers, canceller, pause, left>>
  BY DEF TakeTxEvent, TakeTimerEvent, TakeEvent, SelfCheck, SendFull, StopProcessing
<1>3. CASE TakeTxEvent \/ TakeTimerEvent
  <2>1. PICK e \in {"tx", "timer"}, pc \in {"process", "flush"} :
          thread.pc = e /\ thread' = [Clear(thread, e, pc) EXCEPT !.then = "wait"]
    BY <1>3 DEF TakeTxEvent, TakeTimerEvent, TakeEvent
  <2>2. thread.set \ {e} \in SUBSET {"tx", "timer"}
    BY <1>1 DEF ThreadType
  <2>3. thread' \in ThreadType /\ thread'.nb = thread.nb /\ thread'.pc = pc
    BY <1>1, <2>1, <2>2 DEF ThreadType, Clear
  <2> QED BY <1>1, <1>2, <2>1, <2>3, ThreadKept, Kept, TypeParts DEF Parts
<1>4. CASE SelfCheck
  BY <1>1, <1>2, <1>4, ThreadSignalled, Kept, TypeParts DEF SelfCheck, Parts
<1>5. CASE SendFull
  <2>1. thread.pc = "process" /\ thread' = [thread EXCEPT !.pc = "flush", !.then = "process"]
    BY <1>5 DEF SendFull, Processing
  <2>2. thread' \in ThreadType /\ thread'.nb = thread.nb /\ thread'.pc = "flush"
    BY <1>1, <2>1 DEF ThreadType
  <2> QED BY <1>1, <1>2, <2>1, <2>2, ThreadKept, Kept, TypeParts DEF Parts
<1>6. CASE StopProcessing
  <2>1. thread.pc = "process" /\ thread' = WaitAny([thread EXCEPT !.then = None], EventIndex)
    BY <1>6 DEF StopProcessing
  <2>2. thread' \in ThreadType /\ thread'.nb = thread.nb
        /\ thread'.pc \in {"blocked", "tx", "timer"}
    BY <1>1, <2>1, WaitThread
  <2> QED BY <1>1, <1>2, <2>1, <2>2, ThreadKept, Kept, TypeParts DEF Parts
<1> QED BY <1>3, <1>4, <1>5, <1>6

LEMMA DequeueType == ASSUME TypeInv, Dequeue PROVE TypeInv'
<1>1. thread \in ThreadType /\ TxPendingList \in Seq(NBs) /\ ListsOK /\ nBusyTx \in Int
  BY TypeParts, Zenon DEF Parts, ThreadOK, ListsOK
<1>2. UNCHANGED <<context, Completed, QMAPFlowControlList, QMAPFlowControl,
                  nBusyTx, buffers, canceller, pause, left>>
  BY DEF Dequeue
<1>3. TxPendingList # <<>> /\ UplinkFreeBufferQueue # <<>>
  BY DEF Dequeue, Processing, AggregationAvailable
<1>4. Head(TxPendingList) \in NBs /\ Tail(TxPendingList) \in Seq(NBs)
  BY <1>1, <1>3, HeadAndTail
<1>5. ListsOK'
  BY <1>1, <1>2, <1>4, Zenon DEF ListsOK, Dequeue
<1>6. ThreadOK'
  <2>1. thread' \in ThreadType /\ thread'.nb = Head(TxPendingList)
        /\ thread'.pc \in {"packet", "refused"}
    BY <1>1, <1>4 DEF Dequeue, ThreadType
  <2>2. thread'.nb # None
    BY <1>4, <2>1, NetBuffers
  <2> QED BY <1>2, <1>3, <2>1, <2>2 DEF ThreadOK, HandOK, buffers
<1> QED BY <1>1, <1>2, <1>5, <1>6, Kept, TypeParts DEF Parts

LEMMA BufferTypes ==
    ASSUME BuffersOK
    PROVE  /\ Len(UplinkFreeBufferQueue) \in Nat
           /\ UplinkFreeBufferQueue # <<>> =>
                /\ Head(UplinkFreeBufferQueue) \in Item
                /\ Head(UplinkFreeBufferQueue).packets \in Seq(NBs)
                /\ Head(UplinkFreeBufferQueue).RemainingCapacity \in Nat
                /\ Tail(UplinkFreeBufferQueue) \in Seq(Item)
                /\ Len(Tail(UplinkFreeBufferQueue)) = Len(UplinkFreeBufferQueue) - 1
<1>1. UplinkFreeBufferQueue \in Seq(Item)
  BY Zenon DEF BuffersOK
<1>2. \A item \in Item : item.packets \in Seq(NBs) /\ item.RemainingCapacity \in Nat
  BY DEF Item
<1> QED BY <1>1, <1>2

LEMMA SizeType ==
    /\ \A nb \in NBs : SizeOf(nb) \in Nat
    /\ Header \in {1, 2} /\ TestedHeader \in {0, 1}
<1>1. \A nb \in NBs : Size[ListOf(nb)] \in Nat
  BY NetBuffers, SizesAreNumbers
<1>2. \A nb \in NBs : SizeOf(nb) \in Nat
  BY <1>1 DEF SizeOf
<1>3. Header \in {1, 2} /\ TestedHeader \in {0, 1}
  BY DEF Header, TestedHeader
<1> QED BY <1>2, <1>3

LEMMA CopyType == ASSUME TypeInv, CopyPacket PROVE TypeInv'
<1> DEFINE nb == thread.nb
           item == Head(UplinkFreeBufferQueue)
           length == SizeOf(nb) + Header
           filled == [packets |-> Append(item.packets, nb),
                      RemainingCapacity |-> item.RemainingCapacity - length]
<1>1. thread \in ThreadType /\ HandOK /\ BuffersOK /\ ContextOK /\ nBusyTx \in Int
  BY TypeParts DEF Parts, ThreadOK
<1>2. UNCHANGED <<context, lists, nBusyTx, TxTLPPendinginUSB, wire, canceller, pause, left>>
  BY DEF CopyPacket
<1>3. thread.pc = "packet" /\ thread' = [thread EXCEPT !.pc = "status"]
  BY DEF CopyPacket
<1>4. nb \in NBs /\ UplinkFreeBufferQueue # <<>>
  BY <1>1, <1>3 DEF HandOK, ThreadType
<1>5. ContextOK'
  <2>1. Completed' \subseteq NBs
    BY <1>1, <1>4 DEF CopyPacket, ContextOK
  <2> QED BY <1>1, <1>2, <2>1 DEF ContextOK
<1>6. ThreadOK'
  <2>1. thread' \in ThreadType /\ thread'.nb = thread.nb /\ thread'.pc = "status"
    BY <1>1, <1>3 DEF ThreadType
  <2> QED BY <1>1, <1>3, <2>1 DEF ThreadOK, HandOK
<1>7. BuffersOK'
  <2>1. /\ UplinkFreeBufferQueue \in Seq(Item) /\ TxTLPPendinginUSB' = TxTLPPendinginUSB
        /\ TxTLPPendinginUSB \in 0 .. NumTLPBuffers
        /\ Len(UplinkFreeBufferQueue) = NumTLPBuffers - TxTLPPendinginUSB
        /\ wire' = wire /\ wire \in Seq(NBs)
    BY <1>1, <1>2, Zenon DEF BuffersOK
  <2>2. TransmitTimer' \in BOOLEAN
    BY <1>1, Zenon DEF CopyPacket, BuffersOK
  <2>3. \/ UplinkFreeBufferQueue' = UplinkFreeBufferQueue
        \/ /\ item.RemainingCapacity > length
           /\ UplinkFreeBufferQueue' = <<filled>> \o Tail(UplinkFreeBufferQueue)
    BY Zenon DEF CopyPacket
  <2>4. ASSUME item.RemainingCapacity > length
        PROVE  filled \in Item
    <3>1. item.RemainingCapacity - length \in Nat
      BY <1>1, <1>4, <2>4, BufferTypes, SizeType
    <3>2. Append(item.packets, nb) \in Seq(NBs)
      BY <1>1, <1>4, BufferTypes
    <3> QED BY <3>1, <3>2 DEF Item
  <2> HIDE DEF filled, item, length
  <2>5. UplinkFreeBufferQueue' \in Seq(Item)
        /\ Len(UplinkFreeBufferQueue') = Len(UplinkFreeBufferQueue)
    <3>1. Tail(UplinkFreeBufferQueue) \in Seq(Item) /\ Len(UplinkFreeBufferQueue) \in Nat
          /\ Len(Tail(UplinkFreeBufferQueue)) = Len(UplinkFreeBufferQueue) - 1
      BY <1>1, <1>4, BufferTypes
    <3>2. ASSUME filled \in Item
          PROVE  /\ <<filled>> \o Tail(UplinkFreeBufferQueue) \in Seq(Item)
                 /\ Len(<<filled>> \o Tail(UplinkFreeBufferQueue)) = Len(UplinkFreeBufferQueue)
      <4>1. <<filled>> \in Seq(Item) /\ Len(<<filled>>) = 1
        BY <3>2
      <4> QED BY <3>1, <4>1, ConcatIsSeq
    <3> QED BY <2>1, <2>3, <2>4, <3>2
  <2> QED BY <2>1, <2>2, <2>5, Zenon DEF BuffersOK
<1> QED BY <1>1, <1>2, <1>5, <1>6, <1>7, Kept, TypeParts DEF Parts, lists

LEMMA SetStatusType == ASSUME TypeInv, SetStatus PROVE TypeInv'
<1>1. thread \in ThreadType /\ HandOK /\ ContextOK /\ nBusyTx \in Int
  BY TypeParts DEF Parts, ThreadOK
<1>2. UNCHANGED <<Completed, lists, nBusyTx, buffers, canceller, pause, left>>
  BY DEF SetStatus
<1>3. ContextOK'
  <2>1. PICK status \in {"SUCCESS", "FAILURE"} : context' = WithStatus({thread.nb}, status)
    BY DEF SetStatus
  <2>2. status \in Statuses
    BY DEF Statuses
  <2> QED BY <1>1, <1>2, <2>1, <2>2, StatusType DEF ContextOK
<1>4. ThreadOK'
  <2>1. thread' \in ThreadType /\ thread'.nb = thread.nb /\ thread'.pc = "complete"
        /\ thread.pc \in {"status", "refused"}
    BY <1>1 DEF ThreadType, SetStatus
  <2> QED BY <1>2, <2>1, ThreadKept
<1> QED BY <1>1, <1>2, <1>3, <1>4, Kept, TypeParts DEF Parts

LEMMA CompleteType == ASSUME TypeInv, Complete PROVE TypeInv'
<1>1. thread \in ThreadType /\ HandOK /\ ContextOK /\ nBusyTx \in Int
  BY TypeParts DEF Parts, ThreadOK
<1>2. UNCHANGED <<lists, buffers, canceller, pause, left>>
  BY DEF Complete
<1>3. thread.nb \in NBs
  BY <1>1 DEF Complete, HandOK, ThreadType
<1>4. ContextOK'
  <2>1. CASE Return({thread.nb}, context)
    BY <1>1, <1>3, <2>1, ReturnType DEF ContextOK
  <2>2. CASE UNCHANGED <<context, Completed>>
    BY <2>2, Kept
  <2> QED BY <2>1, <2>2 DEF Complete
<1>5. nBusyTx' \in Int
  <2>1. nBusyTx' = CountedOff({thread.nb})
    BY DEF Complete
  <2>2. CountedOff({thread.nb}) = nBusyTx - 1
    BY CountedOffOne, Zenon
  <2> QED BY <1>1, <2>1, <2>2
<1>6. ThreadOK'
  <2>1. thread' \in ThreadType /\ thread'.nb = None /\ thread'.pc = "process"
    BY <1>1 DEF ThreadType, Complete
  <2> QED BY <2>1 DEF ThreadOK, HandOK
<1> QED BY <1>2, <1>4, <1>5, <1>6, Kept, TypeParts DEF Parts

LEMMA AfterFlushType ==
    ASSUME thread \in ThreadType
    PROVE  /\ AfterFlush \in ThreadType /\ AfterFlush.nb = thread.nb
           /\ AfterFlush.set = thread.set
           /\ AfterFlush.pc \in {"process", "blocked", "tx", "timer"}
<1>1. CASE thread.then = "process"
  BY <1>1 DEF AfterFlush, ThreadType
<1>2. CASE thread.then # "process"
  BY <1>2, WaitThread DEF AfterFlush
<1> QED BY <1>1, <1>2

LEMMA FlushType == ASSUME TypeInv, Flush PROVE TypeInv'
<1>1. thread \in ThreadType /\ HandOK /\ BuffersOK /\ nBusyTx \in Int
  BY TypeParts DEF Parts, ThreadOK
<1>2. UNCHANGED <<context, Completed, lists, nBusyTx, canceller, pause, left>>
  BY DEF Flush
<1>3. ThreadOK'
  <2>1. thread' \in ThreadType /\ thread'.nb = thread.nb
        /\ thread'.pc \in {"process", "blocked", "tx", "timer"} /\ thread.pc = "flush"
    BY <1>1, AfterFlushType DEF Flush
  <2> QED BY <1>1, <2>1 DEF ThreadOK, HandOK
<1>4. BuffersOK'
  <2>1. CASE UNCHANGED buffers
    BY <2>1, Kept
  <2>2. CASE /\ UplinkFreeBufferQueue # <<>>
             /\ wire' = wire \o Head(UplinkFreeBufferQueue).packets
             /\ UplinkFreeBufferQueue' = Tail(UplinkFreeBufferQueue)
             /\ TxTLPPendinginUSB' = TxTLPPendinginUSB + 1
             /\ UNCHANGED TransmitTimer
    <3>1. /\ TxTLPPendinginUSB \in 0 .. NumTLPBuffers /\ wire \in Seq(NBs)
          /\ Len(UplinkFreeBufferQueue) = NumTLPBuffers - TxTLPPendinginUSB
          /\ UplinkFreeBufferQueue \in Seq(Item)
          /\ TransmitTimer' \in BOOLEAN
      BY <1>1, <2>2, Zenon DEF BuffersOK
    <3>2. Len(UplinkFreeBufferQueue) > 0 /\ NumTLPBuffers \in Nat
      BY <2>2, <3>1, SizesAreNumbers
    <3>3. wire' \in Seq(NBs) /\ UplinkFreeBufferQueue' \in Seq(Item)
      BY <1>1, <2>2, <3>1, BufferTypes, ConcatIsSeq
    <3>4. /\ TxTLPPendinginUSB' \in 0 .. NumTLPBuffers
          /\ Len(UplinkFreeBufferQueue') = NumTLPBuffers - TxTLPPendinginUSB'
      BY <1>1, <2>2, <3>1, <3>2, BufferTypes
    <3> QED BY <3>1, <3>3, <3>4, Zenon DEF BuffersOK
  <2> QED BY <2>1, <2>2 DEF Flush
<1> QED BY <1>1, <1>2, <1>3, <1>4, Kept, TypeParts DEF Parts

LEMMA TimerType == ASSUME TypeInv, TimerExpires PROVE TypeInv'
<1>1. thread \in ThreadType /\ HandOK /\ BuffersOK /\ nBusyTx \in Int
  BY TypeParts DEF Parts, ThreadOK
<1>2. UNCHANGED <<context, Completed, lists, nBusyTx, UplinkFreeBufferQueue,
                  TxTLPPendinginUSB, wire, canceller, pause, left>>
  BY DEF TimerExpires
<1>3. BuffersOK'
  <2>1. TransmitTimer' \in BOOLEAN
    BY Zenon DEF TimerExpires
  <2> QED BY <1>1, <1>2, <2>1 DEF BuffersOK
<1>4. ThreadOK'
  <2>1. thread' \in ThreadType /\ thread'.nb = thread.nb
        /\ (thread.pc = "blocked" => thread'.pc = "timer")
        /\ (thread.pc # "blocked" => thread'.pc = thread.pc)
    BY <1>1, SignalThread DEF TimerExpires
  <2> QED BY <1>1, <1>2, <2>1 DEF ThreadOK, HandOK
<1> QED BY <1>1, <1>2, <1>3, <1>4, Kept, TypeParts DEF Parts

LEMMA UsbType == ASSUME TypeInv, UsbCompletes PROVE TypeInv'
<1>1. thread \in ThreadType /\ HandOK /\ BuffersOK /\ nBusyTx \in Int
  BY TypeParts DEF Parts, ThreadOK
<1>2. UNCHANGED <<context, Completed, lists, nBusyTx, TransmitTimer, wire,
                  canceller, pause, left>>
  BY DEF UsbCompletes
<1>3. /\ UplinkFreeBufferQueue \in Seq(Item) /\ FreshItem \in Item
      /\ TxTLPPendinginUSB \in 0 .. NumTLPBuffers /\ NumTLPBuffers \in Nat
      /\ Len(UplinkFreeBufferQueue) = NumTLPBuffers - TxTLPPendinginUSB
      /\ TransmitTimer \in BOOLEAN /\ wire \in Seq(NBs)
  BY <1>1, SizesAreNumbers DEF BuffersOK, FreshItem, Item
<1>4. /\ UplinkFreeBufferQueue' \in Seq(Item) /\ UplinkFreeBufferQueue' # <<>>
      /\ Len(UplinkFreeBufferQueue') = Len(UplinkFreeBufferQueue) + 1
      /\ TxTLPPendinginUSB > 0 /\ TxTLPPendinginUSB' = TxTLPPendinginUSB - 1
  BY <1>3 DEF UsbCompletes, Recycled
<1>5. BuffersOK'
  <2>1. /\ TxTLPPendinginUSB' \in 0 .. NumTLPBuffers
        /\ Len(UplinkFreeBufferQueue') = NumTLPBuffers - TxTLPPendinginUSB'
    BY <1>3, <1>4
  <2> QED BY <1>2, <1>3, <1>4, <2>1, Zenon DEF BuffersOK
<1>6. ThreadOK'
  <2>1. thread' \in ThreadType /\ thread'.nb = thread.nb
        /\ (thread.pc = "blocked" => thread'.pc = "tx")
        /\ (thread.pc # "blocked" => thread'.pc = thread.pc)
    BY <1>1, SignalThread DEF UsbCompletes
  <2> QED BY <1>1, <1>4, <2>1 DEF ThreadOK, HandOK
<1> QED BY <1>1, <1>2, <1>5, <1>6, Kept, TypeParts DEF Parts

LEMMA StepType == ASSUME TypeInv, [Next]_vars PROVE TypeInv'
<1>1. CASE Send
  BY <1>1, SendType DEF Send
<1>2. CASE Queue
  BY <1>2, QueueType DEF Queue
<1>3. CASE Cancel
  BY <1>3, CancelType DEF Cancel
<1>4. CASE FlowControl
  BY <1>4, FlowControlType DEF FlowControl
<1>5. CASE ThreadStep
  BY <1>5, WalkType, DequeueType, CopyType, SetStatusType, CompleteType, FlushType
     DEF ThreadStep
<1>6. CASE UNCHANGED vars
  <2>1. /\ UNCHANGED <<context, Completed, nBusyTx, thread, canceller, pause, left>>
        /\ UNCHANGED lists /\ UNCHANGED buffers
    BY <1>6 DEF vars
  <2> QED BY <2>1, Kept, TypeParts DEF Parts
<1> QED BY <1>1, <1>2, <1>3, <1>4, <1>5, <1>6, CancelStepType, PauseType, TimerType,
           UsbType DEF Next

LEMMA TypeInvariant == Spec => []TypeInv
BY InitType, StepType, PTL DEF Spec

\* Every variable keeps its type: in particular no transfer buffer is lost or
\* doubled on its way between MPUSB_TLPTxPacketEx and its completion, and the
\* capacity of a buffer never wraps below zero.
THEOREM TypeCorrect == Spec => []TypeOK
<1>1. TypeInv => TypeOK
  BY DEF TypeInv
<1> QED BY <1>1, TypeInvariant, PTL

-----------------------------------------------------------------------------
(***************************************************************************)
(* Where the net buffers are.  The inductive invariant knows each place    *)
(* apart, what becomes of a list that was touched, and that only the one   *)
(* in MPThread's hand can have been completed or copied and be held.       *)
(***************************************************************************)

Cancelled == ToSet(canceller.queue)
Hand == IF thread.nb = None THEN {} ELSE {thread.nb}
Pending == ToSet(TxPendingList)
Stopped == ToSet(QMAPFlowControlList)
AllHeld == Cancelled \cup Hand \cup Pending \cup Stopped
Sent == ToSet(wire) \cup ToSet(CopiedPackets)

Apart ==
    /\ IsInjective(canceller.queue) /\ IsInjective(TxPendingList)
    /\ IsInjective(QMAPFlowControlList)
    /\ Cancelled \cap Hand = {} /\ Cancelled \cap Pending = {}
    /\ Cancelled \cap Stopped = {} /\ Hand \cap Pending = {}
    /\ Hand \cap Stopped = {} /\ Pending \cap Stopped = {}

\* MPThread has copied nb, or marked it, and has not completed it yet.
Copied(nb) == nb = thread.nb /\ thread.pc \in {"status", "complete"}

HeldInv ==
    /\ \A nb \in AllHeld : context[ListOf(nb)].phase \in {"queued", "returned"}
    /\ \A nb \in AllHeld \cap Completed : nb \in Unreadable /\ Copied(nb)
    /\ \A nb \in AllHeld \cap Sent : Copied(nb)

Touched(l) == NB(l) \cap (AllHeld \cup Completed \cup Sent) # {}
ListInv(l) ==
    /\ context[l].phase \in {"new", "allocated"} =>
          context[l].completions = 0 /\ ~Touched(l)
    /\ context[l].phase = "queued" => context[l].completions = 0
    /\ context[l].phase = "returned" => NB(l) \subseteq Completed \/ ~Touched(l)
    /\ NB(l) \cap Unreadable = {} => context[l].completions <= 1
    /\ l \in left.lists => context[l].phase = "new"

LostInv ==
    \A nb \in Queued \ Completed : nb \in AllHeld \/ context[ListOf(nb)].Canceld

\* Only the buffer at the head of the free queue holds data.
HeadOnly ==
    \A i \in 2 .. Len(UplinkFreeBufferQueue) : UplinkFreeBufferQueue[i].packets = <<>>

PlaceInv ==
    /\ Apart /\ FlowIsServed /\ HeldInv /\ (\A l \in NBL : ListInv(l))
    /\ LostInv /\ HeadOnly

LEMMA QueueTypes ==
    ASSUME TypeInv
    PROVE  /\ canceller.queue \in Seq(NBs) /\ TxPendingList \in Seq(NBs)
           /\ QMAPFlowControlList \in Seq(NBs) /\ InHand \in Seq(NBs)
           /\ Cancelled \subseteq NBs /\ Pending \subseteq NBs /\ Stopped \subseteq NBs
           /\ Hand \subseteq NBs /\ AllHeld \subseteq NBs
           /\ ToSet(InHand) = Hand /\ IsInjective(InHand)
<1>1. canceller.queue \in Seq(NBs) /\ TxPendingList \in Seq(NBs)
      /\ QMAPFlowControlList \in Seq(NBs)
  BY DEF TypeInv, TypeOK
<1>2. Cancelled \subseteq NBs /\ Pending \subseteq NBs /\ Stopped \subseteq NBs
  BY <1>1, Elements DEF Cancelled, Pending, Stopped
<1>3. thread.nb # None => thread.nb \in NBs
  BY TypeParts DEF Parts, ThreadOK, ThreadType
<1>4. InHand \in Seq(NBs) /\ ToSet(InHand) = Hand /\ IsInjective(InHand) /\ Hand \subseteq NBs
  <2>1. CASE thread.nb = None
    BY <2>1, ElementsOfNone DEF InHand, Hand, IsInjective
  <2>2. CASE thread.nb # None
    <3>1. InHand = <<thread.nb>> /\ Hand = {thread.nb}
      BY <2>2 DEF InHand, Hand
    <3> QED BY <1>3, <2>2, <3>1, ElementsOfOne
  <2> QED BY <2>1, <2>2
<1> QED BY <1>1, <1>2, <1>4 DEF AllHeld

LEMMA HeldIs ==
    ASSUME TypeInv
    PROVE  /\ Held \in Seq(NBs) /\ ToSet(Held) = AllHeld
           /\ IsInjective(Held) <=> Apart
<1> DEFINE a == canceller.queue
           b == InHand
           c == TxPendingList
           d == QMAPFlowControlList
<1>1. a \in Seq(NBs) /\ b \in Seq(NBs) /\ c \in Seq(NBs) /\ d \in Seq(NBs)
  BY QueueTypes
<1>2. ToSet(a) = Cancelled /\ ToSet(b) = Hand /\ ToSet(c) = Pending /\ ToSet(d) = Stopped
      /\ IsInjective(b)
  BY QueueTypes DEF Cancelled, Pending, Stopped
<1>3. Held = ((a \o b) \o c) \o d
  BY DEF Held
<1>4. Apart <=> /\ IsInjective(a) /\ IsInjective(c) /\ IsInjective(d)
                /\ ToSet(a) \cap ToSet(b) = {} /\ ToSet(a) \cap ToSet(c) = {}
                /\ ToSet(a) \cap ToSet(d) = {} /\ ToSet(b) \cap ToSet(c) = {}
                /\ ToSet(b) \cap ToSet(d) = {} /\ ToSet(c) \cap ToSet(d) = {}
  BY <1>2 DEF Apart
<1> HIDE DEF a, b, c, d
<1>5. /\ a \o b \in Seq(NBs) /\ ToSet(a \o b) = ToSet(a) \cup ToSet(b)
      /\ IsInjective(a \o b) <=>
           IsInjective(a) /\ IsInjective(b) /\ ToSet(a) \cap ToSet(b) = {}
  BY <1>1, ConcatIsSeq, ElementsOfConcat, InjectiveConcat
<1> DEFINE ab == a \o b
<1>a. ab \in Seq(NBs)
  BY <1>5
<1> HIDE DEF ab
<1>6. /\ ab \o c \in Seq(NBs) /\ ToSet(ab \o c) = ToSet(ab) \cup ToSet(c)
      /\ IsInjective(ab \o c) <=>
           IsInjective(ab) /\ IsInjective(c) /\ ToSet(ab) \cap ToSet(c) = {}
  BY <1>1, <1>a, ConcatIsSeq, ElementsOfConcat, InjectiveConcat
<1> DEFINE abc == ab \o c
<1>b. abc \in Seq(NBs)
  BY <1>6
<1> HIDE DEF abc
<1>7. /\ abc \o d \in Seq(NBs) /\ ToSet(abc \o d) = ToSet(abc) \cup ToSet(d)
      /\ IsInjective(abc \o d) <=>
           IsInjective(abc) /\ IsInjective(d) /\ ToSet(abc) \cap ToSet(d) = {}
  BY <1>1, <1>b, ConcatIsSeq, ElementsOfConcat, InjectiveConcat
<1>8. Held = abc \o d /\ abc = ab \o c /\ ab = a \o b
  BY <1>3 DEF abc, ab
<1>9. ToSet(Held) = ((ToSet(a) \cup ToSet(b)) \cup ToSet(c)) \cup ToSet(d)
  BY <1>5, <1>6, <1>7, <1>8
<1>10. IsInjective(Held) <=> Apart
  <2>1. IsInjective(Held) <=>
          /\ IsInjective(a) /\ IsInjective(b) /\ ToSet(a) \cap ToSet(b) = {}
          /\ IsInjective(c) /\ (ToSet(a) \cup ToSet(b)) \cap ToSet(c) = {}
          /\ IsInjective(d) /\ ((ToSet(a) \cup ToSet(b)) \cup ToSet(c)) \cap ToSet(d) = {}
    BY <1>5, <1>6, <1>7, <1>8
  <2> QED BY <2>1, <1>2, <1>4
<1> QED BY <1>2, <1>7, <1>8, <1>9, <1>10 DEF AllHeld

\* The invariant implies what the runs check.
LEMMA PlaceInvImplies ==
    ASSUME TypeInv, PlaceInv
    PROVE  EachInOnePlace /\ FreedIsNotUsed
<1>1. EachInOnePlace
  BY HeldIs DEF PlaceInv, EachInOnePlace, LostInv
<1>2. ASSUME NEW l \in NBL, NB(l) \cap Unreadable = {}
      PROVE  /\ context[l].completions <= 1
             /\ context[l].phase = "returned" => \A nb \in AllHeld : ListOf(nb) # l
  <2>1. ListInv(l) /\ HeldInv
    BY DEF PlaceInv
  <2>2. ASSUME NEW nb \in AllHeld, ListOf(nb) = l, context[l].phase = "returned"
        PROVE  FALSE
    <3>1. nb \in NBs /\ nb \in NB(l)
      BY <2>2, QueueTypes, NetBuffers
    <3>2. nb \in Completed
      BY <2>1, <2>2, <3>1 DEF ListInv, Touched
    <3> QED BY <1>2, <2>1, <3>1, <3>2, <2>2 DEF HeldInv
  <2> QED BY <2>1, <2>2, <1>2 DEF ListInv
<1>3. FreedIsNotUsed
  BY <1>2, HeldIs DEF FreedIsNotUsed
<1> QED BY <1>1, <1>3

LEMMA InitPlaces == ASSUME Init, TypeInv PROVE PlaceInv
<1>1. /\ canceller.queue = <<>> /\ TxPendingList = <<>> /\ QMAPFlowControlList = <<>>
      /\ thread.nb = None /\ Completed = {} /\ wire = <<>>
      /\ UplinkFreeBufferQueue = [i \in 1 .. NumTLPBuffers |-> FreshItem]
  BY DEF Init, Idle
<1>2. AllHeld = {} /\ Apart
  BY <1>1, ElementsOfNone
     DEF AllHeld, Apart, Cancelled, Hand, Pending, Stopped, IsInjective
<1>3. NumTLPBuffers \in Nat \ {0}
  BY SizesAreNumbers
<1>4. HeadOnly /\ CopiedPackets = <<>>
  BY <1>1, <1>3 DEF HeadOnly, CopiedPackets, FreshItem
<1>5. Sent = {}
  BY <1>1, <1>4, ElementsOfNone DEF Sent
<1>6. \A l \in NBL : context[l].phase = "new" /\ context[l].completions = 0 /\ ~Touched(l)
  BY <1>1, <1>2, <1>5 DEF Init, Touched
<1>7. \A l \in NBL : ListInv(l)
  BY <1>6 DEF ListInv
<1>8. HeldInv /\ LostInv
  <2>1. Queued = {}
    BY <1>6, NetBuffers DEF Queued
  <2> QED BY <1>2, <2>1 DEF HeldInv, LostInv
<1>9. FlowIsServed
  BY <1>1, Zenon DEF FlowIsServed
<1> QED BY <1>2, <1>4, <1>7, <1>8, <1>9 DEF PlaceInv

-----------------------------------------------------------------------------
(* What the steps do to the places *)

\* A list's context is as it was, but for its status; it may be cancelled.
SameList(l) ==
    /\ context'[l].phase = context[l].phase
    /\ context'[l].completions = context[l].completions
    /\ context[l].Canceld => context'[l].Canceld

ListsInv == HeldInv /\ (\A l \in NBL : ListInv(l)) /\ LostInv

\* Net buffers are only moved, and those that are dropped are of cancelled lists.
LEMMA MoveKeeps ==
    ASSUME TypeInv, ListsInv, TypeInv',
           AllHeld' \subseteq AllHeld, Sent' = Sent, Completed' = Completed,
           \A l \in NBL : SameList(l),
           left'.lists \subseteq left.lists,
           \A nb \in AllHeld' : Copied(nb) => Copied(nb)',
           \A nb \in AllHeld \ AllHeld' : context'[ListOf(nb)].Canceld
    PROVE  ListsInv'
<1>1. /\ \A nb \in AllHeld : nb \in NBs /\ ListOf(nb) \in NBL
      /\ \A l \in NBL : NB(l) \subseteq NBs
  BY QueueTypes, NetBuffers
<1>2. \A nb \in NBs : ListOf(nb) \in NBL
  BY NetBuffers
<1>3. HeldInv'
  BY <1>1 DEF ListsInv, HeldInv, SameList
<1>4. ASSUME NEW l \in NBL PROVE ListInv(l)'
  <2>1. ListInv(l) /\ SameList(l) /\ (Touched(l)' => Touched(l))
    BY DEF ListsInv, Touched
  <2> QED BY <2>1 DEF ListInv, SameList
<1>5. LostInv'
  <2> SUFFICES ASSUME NEW nb \in NBs, context'[ListOf(nb)].phase = "queued",
                      nb \notin Completed, nb \notin AllHeld'
               PROVE  context'[ListOf(nb)].Canceld
    BY DEF LostInv, Queued
  <2>1. CASE nb \in AllHeld
    BY <2>1
  <2>2. CASE nb \notin AllHeld
    <3>1. SameList(ListOf(nb)) /\ nb \in Queued
      BY <1>2 DEF Queued, SameList
    <3>2. context[ListOf(nb)].Canceld
      BY <2>2, <3>1 DEF ListsInv, LostInv
    <3> QED BY <3>1, <3>2 DEF SameList
  <2> QED BY <2>1, <2>2
<1> QED BY <1>3, <1>4, <1>5 DEF ListsInv

\* Held net buffers are completed: their lists may be returned.
LEMMA ReturnKeeps ==
    ASSUME TypeInv, ListsInv, TypeInv', NEW S \in SUBSET AllHeld,
           NEW ctx \in [NBL -> NblContext], Return(S, ctx),
           \A l \in NBL : /\ ctx[l].phase = context[l].phase
                          /\ ctx[l].completions = context[l].completions
                          /\ ctx[l].Canceld = context[l].Canceld,
           AllHeld' = AllHeld \ S, Sent' = Sent, left' = left,
           \A nb \in AllHeld' : Copied(nb) => Copied(nb)'
    PROVE  ListsInv'
<1>1. /\ \A nb \in AllHeld : nb \in NBs
      /\ \A nb \in NBs : ListOf(nb) \in NBL /\ nb \in NB(ListOf(nb))
      /\ \A l \in NBL : NB(l) \subseteq NBs /\ \A nb \in NB(l) : ListOf(nb) = l
  BY QueueTypes, NetBuffers
<1>2. Completed' = Completed \cup S
  BY DEF Return
<1>3. HeldInv /\ LostInv /\ \A l \in NBL : ListInv(l)
  BY DEF ListsInv
<1> DEFINE returned(l) == (\E nb \in S : ListOf(nb) = l) /\ AllMarked(l, S)
<1>4. ASSUME NEW l \in NBL
      PROVE  /\ ctx[l] \in NblContext /\ context[l] \in NblContext
             /\ returned(l) => /\ context'[l].phase = "returned"
                               /\ context'[l].completions = context[l].completions + 1
                               /\ context'[l].Canceld = context[l].Canceld
                               /\ NB(l) \subseteq Completed'
             /\ ~returned(l) => SameList(l)
  <2>1. ctx[l] \in NblContext /\ context[l] \in NblContext
    BY TypeParts DEF Parts, ContextOK
  <2>2. context'[l] = IF returned(l)
                      THEN [ctx[l] EXCEPT !.phase = "returned",
                                !.Status = ctx[l].NdisStatus, !.completions = @ + 1]
                      ELSE ctx[l]
    BY DEF Return
  <2>3. returned(l) => NB(l) \subseteq Completed'
    BY <1>2 DEF AllMarked
  <2> HIDE DEF returned
  <2> QED BY <2>1, <2>2, <2>3 DEF NblContext, SameList
<1> HIDE DEF returned
<1>5. ASSUME NEW l \in NBL, returned(l)
      PROVE  context[l].phase \in {"queued", "returned"}
  BY <1>1, <1>3, <1>5 DEF returned, HeldInv
<1>6. HeldInv'
  <2>1. \A nb \in AllHeld' : context'[ListOf(nb)].phase \in {"queued", "returned"}
    BY <1>1, <1>3, <1>4 DEF HeldInv, SameList
  <2>2. \A nb \in AllHeld' \cap Completed' : nb \in Unreadable /\ Copied(nb)'
    BY <1>2, <1>3 DEF HeldInv
  <2>3. \A nb \in AllHeld' \cap Sent' : Copied(nb)'
    BY <1>3 DEF HeldInv
  <2> QED BY <2>1, <2>2, <2>3 DEF HeldInv
<1>7. ASSUME NEW l \in NBL PROVE ListInv(l)'
  <2>1. ListInv(l) /\ context[l].completions \in Nat
    BY <1>3, <1>4 DEF NblContext
  <2>2. CASE returned(l)
    <3>1. l \notin left.lists
      BY <1>5, <2>1, <2>2 DEF ListInv
    <3>2. NB(l) \cap Unreadable = {} => context[l].phase = "queued"
      <4> SUFFICES ASSUME NB(l) \cap Unreadable = {}, context[l].phase = "returned"
                   PROVE  FALSE
        BY <1>5, <2>2
      <4>1. PICK nb \in S : ListOf(nb) = l
        BY <2>2 DEF returned
      <4>2. nb \in NB(l) /\ nb \in AllHeld
        BY <4>1, <1>1
      <4>3. nb \in Completed
        BY <2>1, <4>2 DEF ListInv, Touched
      <4> QED BY <4>2, <4>3, <1>3 DEF HeldInv
    <3> QED BY <1>4, <2>1, <2>2, <3>1, <3>2 DEF ListInv
  <2>3. CASE ~returned(l)
    <3>1. SameList(l)
      BY <1>4, <2>3
    <3>2. Touched(l)' => Touched(l)
      BY <1>2 DEF Touched
    <3>3. NB(l) \subseteq Completed => NB(l) \subseteq Completed'
      BY <1>2
    <3> QED BY <2>1, <3>1, <3>2, <3>3 DEF ListInv, SameList
  <2> QED BY <2>2, <2>3
<1>8. LostInv'
  <2> SUFFICES ASSUME NEW nb \in NBs, context'[ListOf(nb)].phase = "queued",
                      nb \notin Completed', nb \notin AllHeld'
               PROVE  context'[ListOf(nb)].Canceld
    BY DEF LostInv, Queued
  <2>1. ~returned(ListOf(nb))
    BY <1>1, <1>4
  <2>2. SameList(ListOf(nb)) /\ nb \in Queued
    BY <2>1, <1>1, <1>4 DEF Queued, SameList
  <2>3. nb \notin Completed /\ nb \notin AllHeld
    BY <1>2
  <2> QED BY <2>2, <2>3, <1>3 DEF LostInv, SameList
<1> QED BY <1>6, <1>7, <1>8 DEF ListsInv

LEMMA Frames ==
    /\ UNCHANGED <<UplinkFreeBufferQueue, wire>> =>
          Sent' = Sent /\ CopiedPackets' = CopiedPackets /\ (HeadOnly => HeadOnly')
    /\ UNCHANGED buffers => Sent' = Sent /\ (HeadOnly => HeadOnly')
    /\ UNCHANGED lists => /\ Pending' = Pending /\ Stopped' = Stopped
                          /\ (FlowIsServed => FlowIsServed')
    /\ UNCHANGED thread.nb => Hand' = Hand
    /\ UNCHANGED canceller.queue => Cancelled' = Cancelled
    /\ UNCHANGED <<lists, thread.nb, canceller.queue>> =>
          AllHeld' = AllHeld /\ (Apart => Apart')
    /\ UNCHANGED context => \A l \in NBL : SameList(l)
<1>1. UNCHANGED <<UplinkFreeBufferQueue, wire>> =>
        Sent' = Sent /\ CopiedPackets' = CopiedPackets /\ (HeadOnly => HeadOnly')
  BY DEF Sent, CopiedPackets, HeadOnly
<1>2. UNCHANGED buffers => UNCHANGED <<UplinkFreeBufferQueue, wire>>
  BY DEF buffers
<1>3. UNCHANGED lists => /\ Pending' = Pending /\ Stopped' = Stopped
                         /\ UNCHANGED <<TxPendingList, QMAPFlowControlList>>
  BY DEF Pending, Stopped, lists
<1>4. UNCHANGED lists => (FlowIsServed => FlowIsServed')
  <2>1. UNCHANGED lists => QMAPFlowControl' = QMAPFlowControl
    BY Zenon DEF lists
  <2>2. ASSUME UNCHANGED lists, FlowIsServed PROVE FlowIsServed'
    <3>1. /\ QMAPFlowControl' = QMAPFlowControl /\ TxPendingList' = TxPendingList
          /\ QMAPFlowControlList' = QMAPFlowControlList
      BY <1>3, <2>1, <2>2
    <3>2. CASE QMAPFlowControl
      BY <2>2, <3>1, <3>2, Zenon DEF FlowIsServed
    <3>3. CASE ~QMAPFlowControl
      BY <2>2, <3>1, <3>3, Zenon DEF FlowIsServed
    <3> QED BY <3>2, <3>3
  <2> QED BY <2>2
<1>5. UNCHANGED thread.nb => Hand' = Hand
  BY DEF Hand
<1>6. UNCHANGED canceller.queue => Cancelled' = Cancelled
  BY DEF Cancelled
<1>7. UNCHANGED <<lists, thread.nb, canceller.queue>> =>
        UNCHANGED lists /\ UNCHANGED thread.nb /\ UNCHANGED canceller.queue
  OBVIOUS
<1>8. UNCHANGED <<lists, thread.nb, canceller.queue>> =>
        AllHeld' = AllHeld /\ (Apart => Apart')
  BY <1>3, <1>5, <1>6, <1>7 DEF AllHeld, Apart
<1>9. UNCHANGED context => \A l \in NBL : SameList(l)
  BY DEF SameList
<1> QED BY <1>1, <1>2, <1>3, <1>4, <1>5, <1>6, <1>8, <1>9

LEMMA PlaceParts ==
    /\ PlaceInv <=> Apart /\ FlowIsServed /\ ListsInv /\ HeadOnly
    /\ PlaceInv' <=> Apart' /\ FlowIsServed' /\ ListsInv' /\ HeadOnly'
<1>1. PlaceInv <=> Apart /\ FlowIsServed /\ ListsInv /\ HeadOnly
  BY DEF PlaceInv, ListsInv
<1>2. PlaceInv' <=> Apart' /\ FlowIsServed' /\ ListsInv' /\ HeadOnly'
  BY DEF PlaceInv, ListsInv
<1> QED BY <1>1, <1>2

\* Steps that leave every net buffer where it is.
LEMMA StillPlaces ==
    ASSUME TypeInv, PlaceInv, TypeInv',
           UNCHANGED <<lists, canceller.queue, Completed>>, UNCHANGED lists,
           thread'.nb = thread.nb, Copied(thread.nb) => Copied(thread.nb)',
           \A l \in NBL : SameList(l), left'.lists \subseteq left.lists,
           Sent' = Sent, HeadOnly'
    PROVE  PlaceInv'
<1>1. AllHeld' = AllHeld /\ Apart' /\ FlowIsServed'
  BY Frames, PlaceParts
<1>2. \A nb \in AllHeld' : Copied(nb) => Copied(nb)'
  BY DEF Copied
<1>3. ListsInv /\ Completed' = Completed
  BY PlaceParts
<1>4. ListsInv'
  BY <1>1, <1>2, <1>3, MoveKeeps
<1> QED BY <1>1, <1>4, PlaceParts

LEMMA CopiedKept ==
    ASSUME TypeInv, NEW e \in {"tx", "timer"}, thread' = Signal(thread, e)
    PROVE  thread'.nb = thread.nb /\ (Copied(thread.nb) => Copied(thread.nb)')
BY TypeParts, SignalThread DEF Parts, ThreadOK, Copied

LEMMA WalkPlaces ==
    ASSUME TypeInv, PlaceInv, TypeInv',
           TakeTxEvent \/ TakeTimerEvent \/ SelfCheck \/ SendFull \/ StopProcessing
    PROVE  PlaceInv'
<1>1. thread \in ThreadType
  BY TypeParts DEF Parts, ThreadOK
<1>2. /\ UNCHANGED <<lists, canceller.queue, Completed>> /\ UNCHANGED lists
      /\ UNCHANGED buffers /\ UNCHANGED context /\ left' = left
  BY DEF TakeTxEvent, TakeTimerEvent, TakeEvent, SelfCheck, SendFull, StopProcessing
<1>3. /\ thread'.nb = thread.nb /\ thread.pc \in {"tx", "timer", "process", "blocked"}
  <2>1. CASE TakeTxEvent \/ TakeTimerEvent
    BY <1>1, <2>1 DEF TakeTxEvent, TakeTimerEvent, TakeEvent, Clear, ThreadType
  <2>2. CASE SelfCheck
    BY <1>1, <2>2, SignalThread DEF SelfCheck
  <2>3. CASE SendFull
    BY <1>1, <2>3 DEF SendFull, Processing, ThreadType
  <2>4. CASE StopProcessing
    BY <1>1, <2>4, WaitThread DEF StopProcessing
  <2> QED BY <2>1, <2>2, <2>3, <2>4
<1>4. ~Copied(thread.nb)
  BY <1>3 DEF Copied
<1> QED BY <1>2, <1>3, <1>4, Frames, PlaceParts, StillPlaces

LEMMA TimerPlaces == ASSUME TypeInv, PlaceInv, TypeInv', TimerExpires PROVE PlaceInv'
<1>1. /\ UNCHANGED <<lists, canceller.queue, Completed>> /\ UNCHANGED lists
      /\ UNCHANGED <<UplinkFreeBufferQueue, wire>> /\ UNCHANGED context /\ left' = left
      /\ thread' = Signal(thread, "timer")
  BY DEF TimerExpires
<1> QED BY <1>1, CopiedKept, Frames, PlaceParts, StillPlaces

\* A recycled buffer is empty, and a queue that was not empty keeps its head.
LEMMA UsbCopied ==
    ASSUME TypeInv, UsbCompletes
    PROVE  /\ UplinkFreeBufferQueue \in Seq(Item) /\ FreshItem.packets = <<>>
           /\ UplinkFreeBufferQueue' = Append(UplinkFreeBufferQueue, FreshItem)
           /\ FreshItem \in Item /\ CopiedPackets' = CopiedPackets
<1>1. UplinkFreeBufferQueue' = Append(UplinkFreeBufferQueue, FreshItem)
  BY DEF UsbCompletes, Recycled
<1>2. UplinkFreeBufferQueue \in Seq(Item) /\ FreshItem \in Item /\ FreshItem.packets = <<>>
  <2>1. UplinkFreeBufferQueue \in Seq(Item)
    BY TypeParts, Zenon DEF Parts, BuffersOK
  <2>2. UplinkTLPSize \in Nat
    BY SizesAreNumbers
  <2> QED BY <2>1, <2>2 DEF FreshItem, Item
<1>3. CopiedPackets' = CopiedPackets
  BY <1>1, <1>2 DEF CopiedPackets
<1> QED BY <1>1, <1>2, <1>3

LEMMA UsbPlaces == ASSUME TypeInv, PlaceInv, TypeInv', UsbCompletes PROVE PlaceInv'
<1>1. /\ UNCHANGED <<lists, canceller.queue, Completed>> /\ UNCHANGED lists
      /\ UNCHANGED context /\ left' = left /\ thread' = Signal(thread, "tx")
      /\ wire' = wire
  BY DEF UsbCompletes
<1>2. HeadOnly'
  BY UsbCopied, PlaceParts DEF HeadOnly
<1>3. Sent' = Sent
  BY <1>1, UsbCopied DEF Sent
<1> QED BY <1>1, <1>2, <1>3, CopiedKept, Frames, StillPlaces

LEMMA EmptyTail ==
    ASSUME UplinkFreeBufferQueue \in Seq(Item), UplinkFreeBufferQueue # <<>>, HeadOnly,
           UplinkFreeBufferQueue' = Tail(UplinkFreeBufferQueue)
    PROVE  HeadOnly' /\ CopiedPackets' = <<>>
<1> DEFINE t == Tail(UplinkFreeBufferQueue)
<1>1. t \in Seq(Item) /\ UplinkFreeBufferQueue' = t
      /\ \A i \in 1 .. Len(t) : t[i].packets = <<>>
  BY DEF HeadOnly
<1> HIDE DEF t
<1>2. HeadOnly'
  BY <1>1 DEF HeadOnly
<1>3. t # <<>> => 1 \in 1 .. Len(t) /\ Head(t) = t[1]
  BY <1>1
<1> QED BY <1>1, <1>2, <1>3 DEF CopiedPackets

LEMMA FlushPlaces ==
    ASSUME TypeInv, PlaceInv, TypeInv', Flush PROVE PlaceInv' /\ Sent' = Sent
<1>1. /\ UNCHANGED <<lists, canceller.queue, Completed>> /\ UNCHANGED lists
      /\ UNCHANGED context /\ left' = left /\ thread' = AfterFlush /\ thread.pc = "flush"
  BY DEF Flush
<1>2. thread'.nb = thread.nb /\ ~Copied(thread.nb)
  BY <1>1, AfterFlushType, TypeParts DEF Parts, ThreadOK, Copied
<1>3. Sent' = Sent /\ HeadOnly'
  <2>1. CASE UNCHANGED buffers
    BY <2>1, Frames, PlaceParts
  <2>2. CASE /\ UplinkFreeBufferQueue # <<>>
             /\ wire' = wire \o Head(UplinkFreeBufferQueue).packets
             /\ UplinkFreeBufferQueue' = Tail(UplinkFreeBufferQueue)
    <3>1. UplinkFreeBufferQueue \in Seq(Item) /\ wire \in Seq(NBs)
          /\ Head(UplinkFreeBufferQueue).packets \in Seq(NBs)
      BY <2>2, BufferTypes, TypeParts DEF Parts, BuffersOK
    <3>2. HeadOnly' /\ CopiedPackets' = <<>>
      BY <2>2, <3>1, EmptyTail, PlaceParts
    <3>3. ToSet(wire') = ToSet(wire) \cup ToSet(Head(UplinkFreeBufferQueue).packets)
      BY <2>2, <3>1, ElementsOfConcat
    <3>4. CopiedPackets = Head(UplinkFreeBufferQueue).packets
      BY <2>2 DEF CopiedPackets
    <3>5. ToSet(CopiedPackets') = {}
      BY <3>2, ElementsOfNone
    <3> QED BY <3>2, <3>3, <3>4, <3>5 DEF Sent
  <2> QED BY <2>1, <2>2 DEF Flush
<1> QED BY <1>1, <1>2, <1>3, Frames, StillPlaces

LEMMA StatusSame ==
    ASSUME context \in [NBL -> NblContext], NEW S, NEW status,
           context' = WithStatus(S, status)
    PROVE  \A l \in NBL : SameList(l)
BY DEF WithStatus, NblContext, SameList

LEMMA SetStatusPlaces == ASSUME TypeInv, PlaceInv, TypeInv', SetStatus PROVE PlaceInv'
<1>1. thread \in ThreadType /\ ContextOK
  BY TypeParts DEF Parts, ThreadOK
<1>2. /\ UNCHANGED <<lists, canceller.queue, Completed>> /\ UNCHANGED lists
      /\ UNCHANGED buffers /\ left' = left
  BY DEF SetStatus
<1>3. thread'.nb = thread.nb /\ Copied(thread.nb)'
  BY <1>1 DEF SetStatus, ThreadType, Copied
<1>4. PICK status \in {"SUCCESS", "FAILURE"} : context' = WithStatus({thread.nb}, status)
  BY DEF SetStatus
<1>5. \A l \in NBL : SameList(l)
  BY <1>1, <1>4, StatusSame DEF ContextOK
<1> QED BY <1>2, <1>3, <1>5, Frames, PlaceParts, StillPlaces

LEMMA CancelStatusPlaces ==
    ASSUME TypeInv, PlaceInv, TypeInv', CancelSetsStatus
    PROVE  PlaceInv'
<1>1. ContextOK /\ CancelOK
  BY TypeParts DEF Parts
<1>2. /\ UNCHANGED <<lists, canceller.queue, Completed>> /\ UNCHANGED lists
      /\ UNCHANGED buffers /\ left' = left /\ UNCHANGED thread
  BY <1>1 DEF CancelSetsStatus, CancelOK
<1>3. \A l \in NBL : SameList(l)
  <2>1. CASE UNCHANGED context
    BY <2>1, Frames
  <2>2. CASE context' = WithStatus({Head(canceller.queue)}, "ABORTED")
    BY <1>1, <2>2, StatusSame DEF ContextOK
  <2> QED BY <2>1, <2>2 DEF CancelSetsStatus
<1>4. thread'.nb = thread.nb /\ (Copied(thread.nb) => Copied(thread.nb)')
  BY <1>2 DEF Copied
<1> QED BY <1>2, <1>3, <1>4, Frames, PlaceParts, StillPlaces

\* Pausing by itself moves nothing.
LEMMA PauseFlagPlaces ==
    ASSUME TypeInv, PlaceInv, TypeInv', Pause \/ PauseLooks \/ PauseEnds \/ Restart
    PROVE  PlaceInv'
<1>1. LeftOK
  BY TypeParts DEF Parts
<1>2. /\ UNCHANGED <<lists, canceller.queue, Completed>> /\ UNCHANGED lists
      /\ UNCHANGED buffers /\ UNCHANGED thread /\ UNCHANGED context
  BY DEF Pause, PauseLooks, PauseEnds, Restart
<1>3. left'.lists = left.lists
  BY <1>1 DEF Pause, PauseLooks, PauseEnds, Restart, LeftOK
<1>4. thread'.nb = thread.nb /\ (Copied(thread.nb) => Copied(thread.nb)')
  BY <1>2 DEF Copied
<1> QED BY <1>2, <1>3, <1>4, Frames, PlaceParts, StillPlaces

\* NDIS sends a list: none of its net buffers is anywhere yet.
LEMMA SendPlaces ==
    ASSUME TypeInv, PlaceInv, TypeInv', NEW l \in NBL, SendAllocates(l) \/ SendFails(l)
    PROVE  PlaceInv'
<1>1. LeftOK /\ ContextOK /\ ListInv(l) /\ ListsInv
  BY TypeParts, PlaceParts DEF Parts, ListsInv
<1>2. /\ UNCHANGED <<lists, thread.nb, canceller.queue>> /\ UNCHANGED lists
      /\ UNCHANGED buffers /\ Completed' = Completed /\ thread' = thread
      /\ l \in left.lists
  BY DEF SendAllocates, SendFails
<1>3. left'.lists = left.lists \ {l}
  BY <1>1 DEF SendAllocates, SendFails, LeftOK
<1>4. context[l].phase = "new" /\ ~Touched(l)
  BY <1>1, <1>2 DEF ListInv
<1>5. AllHeld' = AllHeld /\ Apart' /\ FlowIsServed' /\ Sent' = Sent /\ HeadOnly'
  BY <1>2, Frames, PlaceParts
<1>6. \A m \in NBL : (Touched(m)' <=> Touched(m)) /\ (m # l => context'[m] = context[m])
  <2>1. \A m \in NBL : m # l => context'[m] = context[m]
    BY <1>1 DEF SendAllocates, SendFails, ContextOK
  <2> QED BY <1>2, <1>5, <2>1 DEF Touched
<1>7. \/ context'[l].phase = "allocated" /\ context'[l].completions = 0
      \/ context'[l].phase = "returned" /\ context'[l].completions = 1
  <2>1. CASE SendAllocates(l)
    <3>1. PICK garbage \in BOOLEAN :
            context' = [context EXCEPT ![l].phase = "allocated", ![l].Canceld = garbage,
                                       ![l].startTx = TxPendingList = <<>>]
      BY <2>1 DEF SendAllocates
    <3>2. context'[l].phase = "allocated" /\ context'[l].completions = context[l].completions
      <4> DEFINE starts == TxPendingList = <<>>
      <4> HIDE DEF starts
      <4>1. context' = [context EXCEPT ![l].phase = "allocated", ![l].Canceld = garbage,
                                       ![l].startTx = starts]
        BY <3>1 DEF starts
      <4> QED BY <1>1, <4>1 DEF ContextOK, NblContext
    <3> QED BY <1>1, <1>4, <3>2 DEF ListInv
  <2>2. CASE SendFails(l)
    BY <1>1, <2>2 DEF SendFails, ContextOK, NblContext
  <2> QED BY <2>1, <2>2
<1>8. \A nb \in NBs : nb \in AllHeld => ListOf(nb) # l
  BY <1>4, NetBuffers DEF Touched
<1>9. HeldInv'
  <2>1. \A nb \in AllHeld : nb \in NBs /\ ListOf(nb) \in NBL /\ ListOf(nb) # l
    BY <1>8, QueueTypes, NetBuffers
  <2>2. \A nb \in AllHeld : Copied(nb) => Copied(nb)'
    BY <1>2 DEF Copied
  <2> QED BY <1>1, <1>2, <1>5, <1>6, <2>1, <2>2 DEF ListsInv, HeldInv
<1>10. ASSUME NEW m \in NBL PROVE ListInv(m)'
  <2>1. CASE m = l
    BY <1>3, <1>4, <1>6, <1>7, <2>1 DEF ListInv
  <2>2. CASE m # l
    BY <1>1, <1>2, <1>3, <1>6, <2>2 DEF ListsInv, ListInv
  <2> QED BY <2>1, <2>2
<1>11. LostInv'
  <2> SUFFICES ASSUME NEW nb \in NBs, context'[ListOf(nb)].phase = "queued",
                      nb \notin Completed', nb \notin AllHeld'
               PROVE  context'[ListOf(nb)].Canceld
    BY DEF LostInv, Queued
  <2>1. ListOf(nb) \in NBL /\ ListOf(nb) # l
    BY <1>7, NetBuffers
  <2>2. nb \in Queued /\ nb \notin Completed /\ nb \notin AllHeld
    BY <1>2, <1>5, <1>6, <2>1 DEF Queued
  <2> QED BY <1>1, <1>6, <2>1, <2>2 DEF ListsInv, LostInv
<1> QED BY <1>5, <1>9, <1>10, <1>11, PlaceParts DEF ListsInv

LEMMA FlowCases ==
    /\ FlowIsServed <=> /\ QMAPFlowControl => TxPendingList = <<>>
                        /\ ~QMAPFlowControl => QMAPFlowControlList = <<>>
    /\ FlowIsServed' <=> /\ QMAPFlowControl' => TxPendingList' = <<>>
                         /\ ~QMAPFlowControl' => QMAPFlowControlList' = <<>>
<1>1. FlowIsServed <=> /\ QMAPFlowControl => TxPendingList = <<>>
                       /\ ~QMAPFlowControl => QMAPFlowControlList = <<>>
  BY Zenon DEF FlowIsServed
<1>2. FlowIsServed' <=> /\ QMAPFlowControl' => TxPendingList' = <<>>
                        /\ ~QMAPFlowControl' => QMAPFlowControlList' = <<>>
  BY Zenon DEF FlowIsServed
<1> QED BY <1>1, <1>2

\* A sent list joins the waiting ones.
LEMMA QueuePlaces ==
    ASSUME TypeInv, PlaceInv, TypeInv', NEW l \in NBL, SendQueues(l)
    PROVE  PlaceInv' /\ AllHeld' = AllHeld \cup NB(l) /\ NB(l) \cap AllHeld = {}
<1>1. ContextOK /\ thread \in ThreadType /\ ListInv(l) /\ ListsInv /\ Apart
  BY TypeParts, PlaceParts DEF Parts, ListsInv, ThreadOK
<1>2. /\ UNCHANGED buffers /\ Completed' = Completed /\ UNCHANGED canceller.queue
      /\ left' = left /\ context[l].phase = "allocated"
  BY DEF SendQueues
<1>3. ~Touched(l) /\ context[l].completions = 0 /\ l \notin left.lists
  BY <1>1, <1>2 DEF ListInv
<1>4. /\ \A m \in NBL : m # l => context'[m] = context[m]
      /\ context'[l].phase = "queued" /\ context'[l].completions = 0
  BY <1>1, <1>3 DEF SendQueues, ContextOK, NblContext
<1>5. thread'.nb = thread.nb /\ \A nb : Copied(nb) => Copied(nb)'
  <2>1. CASE context[l].startTx
    BY <1>1, <2>1, SignalThread DEF SendQueues, Copied
  <2>2. CASE ~context[l].startTx
    BY <2>2 DEF SendQueues, Copied
  <2> QED BY <2>1, <2>2
<1>6. Cancelled' = Cancelled /\ Hand' = Hand /\ Sent' = Sent /\ HeadOnly'
  BY <1>2, <1>5, Frames, PlaceParts
<1>7. /\ QMAPFlowControl' = QMAPFlowControl
      /\ \/ /\ QMAPFlowControl
            /\ QMAPFlowControlList' = QMAPFlowControlList \o NBsInOrder(l)
            /\ TxPendingList' = TxPendingList
         \/ /\ ~QMAPFlowControl
            /\ TxPendingList' = TxPendingList \o NBsInOrder(l)
            /\ QMAPFlowControlList' = QMAPFlowControlList
  BY Zenon DEF SendQueues, IsFlowControlled
<1>8. FlowIsServed'
  BY <1>7, FlowCases, PlaceParts, Zenon
<1>9. /\ TxPendingList \in Seq(NBs) /\ QMAPFlowControlList \in Seq(NBs)
      /\ NBsInOrder(l) \in Seq(NBs) /\ ToSet(NBsInOrder(l)) = NB(l)
      /\ IsInjective(NBsInOrder(l))
  BY QueueTypes, InOrder
<1>10. NB(l) \cap AllHeld = {} /\ NB(l) \cap Completed = {} /\ NB(l) \cap Sent = {}
  BY <1>3 DEF Touched
<1>11. AllHeld' = AllHeld \cup NB(l) /\ Apart'
  <2>1. CASE QMAPFlowControlList' = QMAPFlowControlList \o NBsInOrder(l)
             /\ TxPendingList' = TxPendingList
    <3>1. Stopped' = Stopped \cup NB(l) /\ Pending' = Pending
          /\ IsInjective(QMAPFlowControlList')
      BY <1>1, <1>9, <1>10, <2>1, ElementsOfConcat, InjectiveConcat
         DEF Stopped, Pending, Apart, AllHeld
    <3> QED BY <1>1, <1>2, <1>6, <1>10, <2>1, <3>1 DEF Apart, AllHeld
  <2>2. CASE TxPendingList' = TxPendingList \o NBsInOrder(l)
             /\ QMAPFlowControlList' = QMAPFlowControlList
    <3>1. Pending' = Pending \cup NB(l) /\ Stopped' = Stopped
          /\ IsInjective(TxPendingList')
      BY <1>1, <1>9, <1>10, <2>2, ElementsOfConcat, InjectiveConcat
         DEF Stopped, Pending, Apart, AllHeld
    <3> QED BY <1>1, <1>2, <1>6, <1>10, <2>2, <3>1 DEF Apart, AllHeld
  <2> QED BY <1>7, <2>1, <2>2
<1>12. HeldInv'
  <2>1. \A nb \in AllHeld : nb \in NBs /\ ListOf(nb) \in NBL /\ ListOf(nb) # l
    BY <1>10, QueueTypes, NetBuffers
  <2>2. \A nb \in NB(l) : ListOf(nb) = l
    BY NetBuffers
  <2> QED BY <1>1, <1>2, <1>4, <1>5, <1>6, <1>10, <1>11, <2>1, <2>2 DEF ListsInv, HeldInv
<1>13. ASSUME NEW m \in NBL PROVE ListInv(m)'
  <2>1. CASE m = l
    BY <1>2, <1>3, <1>4, <2>1 DEF ListInv
  <2>2. CASE m # l
    <3>1. NB(m) \cap NB(l) = {} /\ ListInv(m)
      BY <1>1, <2>2, NetBuffers DEF ListsInv
    <3>2. Touched(m)' => Touched(m)
      BY <1>2, <1>6, <1>11, <3>1 DEF Touched
    <3> QED BY <1>2, <1>4, <2>2, <3>1, <3>2 DEF ListInv
  <2> QED BY <2>1, <2>2
<1>14. LostInv'
  <2> SUFFICES ASSUME NEW nb \in NBs, context'[ListOf(nb)].phase = "queued",
                      nb \notin Completed', nb \notin AllHeld'
               PROVE  context'[ListOf(nb)].Canceld
    BY DEF LostInv, Queued
  <2>1. ListOf(nb) \in NBL /\ nb \in NB(ListOf(nb))
    BY NetBuffers
  <2>2. ListOf(nb) # l
    BY <1>11, <2>1
  <2>3. nb \in Queued /\ nb \notin Completed /\ nb \notin AllHeld
    BY <1>2, <1>4, <1>11, <2>1, <2>2 DEF Queued
  <2> QED BY <1>1, <1>4, <2>1, <2>2, <2>3 DEF ListsInv, LostInv
<1> QED BY <1>10, <1>6, <1>8, <1>11, <1>12, <1>13, <1>14, PlaceParts DEF ListsInv

\* The modem holds the flow, or releases it: the waiting ones change lists.
LEMMA FlowPlaces ==
    ASSUME TypeInv, PlaceInv, TypeInv', NEW FlowControlled \in BOOLEAN,
           FlowControlCall(FlowControlled)
    PROVE  PlaceInv' /\ AllHeld' = AllHeld
<1>1. LeftOK /\ thread \in ThreadType /\ ListsInv /\ Apart
  BY TypeParts, PlaceParts DEF Parts, ThreadOK
<1>2. /\ UNCHANGED context /\ UNCHANGED buffers /\ Completed' = Completed
      /\ UNCHANGED canceller.queue
  BY DEF FlowControlCall
<1>3. left'.lists = left.lists
  BY <1>1 DEF FlowControlCall, LeftOK
<1>4. thread'.nb = thread.nb /\ \A nb : Copied(nb) => Copied(nb)'
  BY <1>1, SignalThread DEF FlowControlCall, Copied
<1>5. Cancelled' = Cancelled /\ Hand' = Hand /\ Sent' = Sent /\ HeadOnly'
      /\ \A l \in NBL : SameList(l)
  BY <1>2, <1>4, Frames, PlaceParts
<1>6. /\ QMAPFlowControl' = FlowControlled
      /\ \/ /\ FlowControlled
            /\ QMAPFlowControlList' = QMAPFlowControlList \o TxPendingList
            /\ TxPendingList' = <<>>
         \/ /\ ~FlowControlled
            /\ TxPendingList' = QMAPFlowControlList \o TxPendingList
            /\ QMAPFlowControlList' = <<>>
  BY Zenon DEF FlowControlCall, Released
<1>7. FlowIsServed'
  BY <1>6, FlowCases, Zenon
<1>8. TxPendingList \in Seq(NBs) /\ QMAPFlowControlList \in Seq(NBs)
  BY QueueTypes
<1> DEFINE all == QMAPFlowControlList \o TxPendingList
<1>9. ToSet(all) = Stopped \cup Pending /\ IsInjective(all)
  BY <1>1, <1>8, ElementsOfConcat, InjectiveConcat DEF Stopped, Pending, Apart
<1>10. IsInjective(<<>>) /\ ToSet(<<>>) = {}
  BY ElementsOfNone DEF IsInjective
<1>11. /\ IsInjective(TxPendingList') /\ IsInjective(QMAPFlowControlList')
       /\ Pending' \cup Stopped' = Pending \cup Stopped /\ Pending' \cap Stopped' = {}
  <2> HIDE DEF all
  <2>1. CASE QMAPFlowControlList' = all /\ TxPendingList' = <<>>
    BY <1>9, <1>10, <2>1 DEF Pending, Stopped
  <2>2. CASE TxPendingList' = all /\ QMAPFlowControlList' = <<>>
    BY <1>9, <1>10, <2>2 DEF Pending, Stopped
  <2> QED BY <1>6, <2>1, <2>2 DEF all
<1>12. Apart' /\ AllHeld' = AllHeld
  <2>1. /\ Cancelled \cap (Pending \cup Stopped) = {} /\ Hand \cap (Pending \cup Stopped) = {}
        /\ Cancelled \cap Hand = {} /\ IsInjective(canceller.queue)
    BY <1>1 DEF Apart
  <2> QED BY <1>2, <1>5, <1>11, <2>1 DEF Apart, AllHeld
<1>13. ListsInv'
  BY <1>1, <1>2, <1>3, <1>4, <1>5, <1>12, MoveKeeps
<1> QED BY <1>5, <1>7, <1>12, <1>13, PlaceParts

\* MPThread takes the first.
LEMMA DequeuePlaces ==
    ASSUME TypeInv, PlaceInv, TypeInv', Dequeue
    PROVE  PlaceInv' /\ AllHeld' = AllHeld
<1> DEFINE nb == Head(TxPendingList)
<1>1. thread \in ThreadType /\ HandOK /\ ListsInv /\ Apart
  BY TypeParts, PlaceParts DEF Parts, ThreadOK
<1>2. /\ UNCHANGED context /\ UNCHANGED buffers /\ Completed' = Completed
      /\ UNCHANGED canceller.queue /\ left' = left
      /\ UNCHANGED QMAPFlowControlList
  BY DEF Dequeue
<1>3. thread.pc = "process" /\ TxPendingList # <<>> /\ TxPendingList' = Tail(TxPendingList)
      /\ thread'.nb = nb
  BY <1>1 DEF Dequeue, Processing, ThreadType
<1>4. Hand = {} /\ \A x : ~Copied(x)
  BY <1>1, <1>3 DEF HandOK, Hand, Copied
<1>5. Cancelled' = Cancelled /\ Sent' = Sent /\ HeadOnly' /\ \A l \in NBL : SameList(l)
  BY <1>2, Frames, PlaceParts
<1>6. TxPendingList \in Seq(NBs)
  BY QueueTypes
<1>7. /\ nb \in NBs /\ Pending = {nb} \cup Pending' /\ nb \notin Pending'
      /\ IsInjective(TxPendingList')
  BY <1>1, <1>3, <1>6, HeadAndTail DEF Pending, Apart
<1>8. nb # None
  BY <1>7, NetBuffers
<1>9. Hand' = {nb} /\ Stopped' = Stopped
  BY <1>2, <1>3, <1>8 DEF Hand, Stopped
<1>10. FlowIsServed'
  <2>1. QMAPFlowControl' = QMAPFlowControl
    BY Zenon DEF Dequeue
  <2>2. ~QMAPFlowControl
    BY <1>3, FlowCases, PlaceParts, Zenon
  <2> QED BY <1>2, <2>1, <2>2, FlowCases, PlaceParts, Zenon
<1> HIDE DEF nb
<1>11. Apart' /\ AllHeld' = AllHeld
  BY <1>1, <1>2, <1>4, <1>5, <1>7, <1>9 DEF Apart, AllHeld
<1>12. ListsInv'
  BY <1>1, <1>2, <1>4, <1>5, <1>11, MoveKeeps
<1> QED BY <1>5, <1>10, <1>11, <1>12, PlaceParts

\* The canceller completes the first on its queue.
LEMMA CancelCompletesPlaces ==
    ASSUME TypeInv, PlaceInv, TypeInv', CancelCompletes
    PROVE  /\ PlaceInv' /\ AllHeld' = AllHeld \ {Head(canceller.queue)}
           /\ Head(canceller.queue) \in Cancelled
<1> DEFINE nb == Head(canceller.queue)
<1>1. CancelOK /\ ContextOK /\ ListsInv /\ Apart
  BY TypeParts, PlaceParts DEF Parts
<1>2. /\ UNCHANGED lists /\ UNCHANGED buffers /\ UNCHANGED thread /\ left' = left
      /\ Return({nb}, context) /\ canceller.queue # <<>>
      /\ canceller'.queue = Tail(canceller.queue)
  BY <1>1 DEF CancelCompletes, CancelOK, CancellerOK
<1>3. /\ canceller.queue \in Seq(NBs) /\ thread'.nb = thread.nb
  BY <1>2, QueueTypes
<1>4. /\ Cancelled = {nb} \cup Cancelled' /\ nb \notin Cancelled'
      /\ IsInjective(canceller'.queue)
  <2> DEFINE q == canceller.queue
  <2>1. q \in Seq(NBs) /\ q # <<>> /\ IsInjective(q) /\ canceller'.queue = Tail(q)
        /\ Cancelled = ToSet(q) /\ Cancelled' = ToSet(Tail(q)) /\ nb = Head(q)
    BY <1>1, <1>2, <1>3 DEF Cancelled, Apart
  <2> HIDE DEF q, nb
  <2> QED BY <2>1, HeadAndTail, Zenon
<1>5. /\ Hand' = Hand /\ Pending' = Pending /\ Stopped' = Stopped /\ Sent' = Sent
      /\ HeadOnly' /\ FlowIsServed'
  BY <1>2, <1>3, Frames, PlaceParts
<1>6. UNCHANGED <<TxPendingList, QMAPFlowControlList>>
  BY <1>2 DEF lists
<1> HIDE DEF nb
<1>7. Apart' /\ AllHeld' = AllHeld \ {nb} /\ {nb} \in SUBSET AllHeld
  BY <1>1, <1>4, <1>5, <1>6 DEF Apart, AllHeld
<1>8. \A x : Copied(x) => Copied(x)'
  BY <1>2 DEF Copied
<1>9. ListsInv'
  BY <1>1, <1>2, <1>5, <1>7, <1>8, ReturnKeeps DEF ContextOK
<1> QED BY <1>4, <1>5, <1>7, <1>9, PlaceParts DEF nb

\* A pause empties the lists.
LEMMA PausePurgePlaces ==
    ASSUME TypeInv, PlaceInv, TypeInv', PausePurgesFlow \/ PauseCleansUp
    PROVE  PlaceInv'
<1>1. ContextOK /\ ListsInv /\ Apart
  BY TypeParts, PlaceParts DEF Parts
<1>2. /\ UNCHANGED buffers /\ UNCHANGED thread /\ left' = left
      /\ UNCHANGED canceller.queue
  BY DEF PausePurgesFlow, PauseCleansUp
<1>3. Hand' = Hand /\ Cancelled' = Cancelled /\ Sent' = Sent /\ HeadOnly'
  BY <1>2, Frames, PlaceParts
<1>4. QMAPFlowControl' = QMAPFlowControl
  BY Zenon DEF PausePurgesFlow, PauseCleansUp
<1>5. \A x : Copied(x) => Copied(x)'
  BY <1>2 DEF Copied
<1>6. IsInjective(<<>>) /\ ToSet(<<>>) = {}
  BY ElementsOfNone DEF IsInjective
<1>7. ASSUME NEW S, S = Stopped \/ S = Pending
      PROVE  /\ WithStatus(S, "FAILURE") \in [NBL -> NblContext] /\ S \in SUBSET AllHeld
             /\ \A l \in NBL :
                  /\ WithStatus(S, "FAILURE")[l].phase = context[l].phase
                  /\ WithStatus(S, "FAILURE")[l].completions = context[l].completions
                  /\ WithStatus(S, "FAILURE")[l].Canceld = context[l].Canceld
  <2>1. "FAILURE" \in Statuses
    BY DEF Statuses
  <2>2. WithStatus(S, "FAILURE") \in [NBL -> NblContext]
    BY <1>1, <2>1, StatusType DEF ContextOK
  <2>3. S \in SUBSET AllHeld
    BY <1>7 DEF AllHeld
  <2> QED BY <1>1, <2>2, <2>3 DEF WithStatus, NblContext, ContextOK
<1>8. CASE PausePurgesFlow
  <2>1. /\ Return(Stopped, WithStatus(Stopped, "FAILURE"))
        /\ QMAPFlowControlList' = <<>> /\ TxPendingList' = TxPendingList
    BY <1>8 DEF PausePurgesFlow, Stopped
  <2>2. Apart' /\ AllHeld' = AllHeld \ Stopped /\ FlowIsServed'
    <3>1. Stopped' = {} /\ Pending' = Pending
      BY <1>6, <2>1 DEF Stopped, Pending
    <3>2. FlowIsServed'
      BY <1>4, <2>1, FlowCases, PlaceParts, Zenon
    <3> QED BY <1>1, <1>2, <1>3, <1>6, <2>1, <3>1, <3>2 DEF Apart, AllHeld
  <2> DEFINE ctx == WithStatus(Stopped, "FAILURE")
  <2>3. /\ ctx \in [NBL -> NblContext] /\ Stopped \in SUBSET AllHeld
        /\ \A l \in NBL : /\ ctx[l].phase = context[l].phase
                          /\ ctx[l].completions = context[l].completions
                          /\ ctx[l].Canceld = context[l].Canceld
    BY <1>7
  <2>4. Return(Stopped, ctx)
    BY <2>1
  <2> HIDE DEF ctx
  <2>5. ListsInv'
    BY <1>1, <1>2, <1>3, <1>5, <2>2, <2>3, <2>4, ReturnKeeps
  <2> QED BY <1>3, <2>2, <2>5, PlaceParts
<1>9. CASE PauseCleansUp
  <2>1. /\ Return(Pending, WithStatus(Pending, "FAILURE"))
        /\ TxPendingList' = <<>> /\ QMAPFlowControlList' = QMAPFlowControlList
    BY <1>9 DEF PauseCleansUp, Pending
  <2>2. Apart' /\ AllHeld' = AllHeld \ Pending /\ FlowIsServed'
    <3>1. Pending' = {} /\ Stopped' = Stopped
      BY <1>6, <2>1 DEF Stopped, Pending
    <3>2. FlowIsServed'
      BY <1>4, <2>1, FlowCases, PlaceParts, Zenon
    <3> QED BY <1>1, <1>2, <1>3, <1>6, <2>1, <3>1, <3>2 DEF Apart, AllHeld
  <2> DEFINE ctx == WithStatus(Pending, "FAILURE")
  <2>3. /\ ctx \in [NBL -> NblContext] /\ Pending \in SUBSET AllHeld
        /\ \A l \in NBL : /\ ctx[l].phase = context[l].phase
                          /\ ctx[l].completions = context[l].completions
                          /\ ctx[l].Canceld = context[l].Canceld
    BY <1>7
  <2>4. Return(Pending, ctx)
    BY <2>1
  <2> HIDE DEF ctx
  <2>5. ListsInv'
    BY <1>1, <1>2, <1>3, <1>5, <2>2, <2>3, <2>4, ReturnKeeps
  <2> QED BY <1>3, <2>2, <2>5, PlaceParts
<1> QED BY <1>8, <1>9

\* MPThread copies what it has in hand, or finds nothing to copy.
Copyable ==
    /\ thread.nb \notin Unreadable
    /\ Head(UplinkFreeBufferQueue).RemainingCapacity > SizeOf(thread.nb) + Header

LEMMA CopyCopied ==
    ASSUME TypeInv, CopyPacket
    PROVE  /\ thread.nb \in NBs /\ CopiedPackets \in Seq(NBs)
           /\ HeadOnly => HeadOnly'
           /\ \/ CopiedPackets' = CopiedPackets /\ ~Copyable
              \/ /\ thread.nb \notin Unreadable
                 /\ CopiedPackets' = CopiedPackets \o <<thread.nb>>
<1> DEFINE nb == thread.nb
           item == Head(UplinkFreeBufferQueue)
           length == SizeOf(nb) + Header
           filled == [packets |-> Append(item.packets, nb),
                      RemainingCapacity |-> item.RemainingCapacity - length]
           t == Tail(UplinkFreeBufferQueue)
<1>1. thread \in ThreadType /\ HandOK /\ BuffersOK
  BY TypeParts DEF Parts, ThreadOK
<1>2. UplinkFreeBufferQueue # <<>> /\ nb \in NBs
  BY <1>1 DEF CopyPacket, ThreadType, HandOK
<1>3. /\ UplinkFreeBufferQueue \in Seq(Item) /\ t \in Seq(Item)
      /\ item.packets \in Seq(NBs)
  BY <1>1, <1>2, BufferTypes, Zenon DEF BuffersOK
<1>4. CopiedPackets = item.packets
  BY <1>2 DEF CopiedPackets
<1>5. \/ UplinkFreeBufferQueue' = UplinkFreeBufferQueue /\ ~Copyable
      \/ nb \notin Unreadable /\ UplinkFreeBufferQueue' = <<filled>> \o t
  BY Zenon DEF CopyPacket, Copyable
<1>6. CASE UplinkFreeBufferQueue' = UplinkFreeBufferQueue /\ ~Copyable
  <2>1. CopiedPackets' = CopiedPackets /\ (HeadOnly => HeadOnly') /\ ~Copyable
    BY <1>6 DEF HeadOnly, CopiedPackets
  <2> QED BY <1>2, <1>3, <1>4, <2>1
<1>7. CASE nb \notin Unreadable /\ UplinkFreeBufferQueue' = <<filled>> \o t
  <2>1. filled.packets = item.packets \o <<nb>>
    <3>1. filled.packets = Append(item.packets, nb)
      OBVIOUS
    <3> DEFINE p == item.packets
    <3>2. p \in Seq(NBs)
      BY <1>3
    <3> HIDE DEF p, nb
    <3>3. Append(p, nb) = p \o <<nb>>
      BY <1>2, <3>2, AppendIsConcatOfOne, Zenon
    <3> QED BY <3>1, <3>3 DEF p
  <2>2. /\ Len(UplinkFreeBufferQueue) = 1 + Len(t)
        /\ \A i \in 1 .. Len(t) : t[i] = UplinkFreeBufferQueue[i + 1]
    BY <1>2, <1>3
  <2> HIDE DEF filled, t
  <2> DEFINE u == <<filled>> \o t
  <2>3. /\ Len(u) = 1 + Len(t) /\ u # <<>> /\ Head(u) = filled
        /\ \A i \in 1 .. Len(t) : u[i + 1] = t[i]
    BY <1>3
  <2>4. UplinkFreeBufferQueue' = u
    BY <1>7
  <2> HIDE DEF u
  <2>5. ASSUME HeadOnly PROVE HeadOnly'
    <3> SUFFICES ASSUME NEW i \in 2 .. Len(u) PROVE u[i].packets = <<>>
      BY <2>4 DEF HeadOnly
    <3>1. i - 1 \in 1 .. Len(t) /\ i \in 2 .. Len(UplinkFreeBufferQueue)
      BY <1>3, <2>2, <2>3
    <3>2. u[(i - 1) + 1] = t[i - 1] /\ t[i - 1] = UplinkFreeBufferQueue[(i - 1) + 1]
      BY <2>2, <2>3, <3>1
    <3>3. (i - 1) + 1 = i
      OBVIOUS
    <3> QED BY <2>5, <3>1, <3>2, <3>3 DEF HeadOnly
  <2>6. CopiedPackets' = filled.packets
    BY <2>3, <2>4 DEF CopiedPackets
  <2> QED BY <1>2, <1>3, <1>4, <1>7, <2>1, <2>5, <2>6
<1> QED BY <1>5, <1>6, <1>7

LEMMA CopyPlaces ==
    ASSUME TypeInv, PlaceInv, TypeInv', CopyPacket
    PROVE  /\ PlaceInv' /\ thread.nb \in Hand
           /\ Sent' = Sent \cup {thread.nb} \/ (Sent' = Sent /\ ~Copyable)
<1> DEFINE nb == thread.nb
<1>1. thread \in ThreadType /\ HandOK /\ ListsInv /\ Apart /\ BuffersOK
  BY TypeParts, PlaceParts DEF Parts, ThreadOK
<1>2. /\ UNCHANGED <<lists, thread.nb, canceller.queue>> /\ UNCHANGED lists
      /\ UNCHANGED context /\ left' = left /\ wire' = wire
  BY <1>1 DEF CopyPacket, ThreadType
<1>3. thread.pc = "packet" /\ Copied(nb)' /\ UplinkFreeBufferQueue # <<>>
      /\ nb \in Hand /\ nb # None
  BY <1>1, <1>2 DEF CopyPacket, ThreadType, Copied, HandOK, Hand
<1>4. AllHeld' = AllHeld /\ Apart' /\ FlowIsServed' /\ nb \in AllHeld
  BY <1>2, <1>3, Frames, PlaceParts DEF AllHeld
<1>5. Completed' = Completed \/ (nb \in Unreadable /\ Completed' = Completed \cup {nb})
  BY DEF CopyPacket
<1>6. /\ HeadOnly'
      /\ \/ ToSet(CopiedPackets') = ToSet(CopiedPackets) /\ ~Copyable
         \/ ToSet(CopiedPackets') = ToSet(CopiedPackets) \cup {nb}
  <2>1. ASSUME CopiedPackets' = CopiedPackets \o <<nb>>
        PROVE  ToSet(CopiedPackets') = ToSet(CopiedPackets) \cup {nb}
    <3>1. CopiedPackets \in Seq(NBs) /\ nb \in NBs
      BY CopyCopied
    <3> HIDE DEF nb
    <3>2. /\ ToSet(CopiedPackets \o <<nb>>) = ToSet(CopiedPackets) \cup ToSet(<<nb>>)
          /\ ToSet(<<nb>>) = {nb}
      <4>1. <<nb>> \in Seq(NBs) /\ ToSet(<<nb>>) = {nb}
        BY <3>1, ElementsOfOne
      <4> QED BY <3>1, <4>1, ElementsOfConcat, ZenonT(60)
    <3> QED BY <2>1, <3>2
  <2> QED BY <2>1, CopyCopied, PlaceParts
<1>7. Sent' = Sent \cup {nb} \/ (Sent' = Sent /\ ~Copyable)
  BY <1>2, <1>6 DEF Sent
<1>8. \A x : ~Copied(x) /\ (x = nb => Copied(x)')
  BY <1>1, <1>3 DEF Copied, CopyPacket, ThreadType
<1> HIDE DEF nb
<1>9. \A l \in NBL : Touched(l)' => Touched(l)
  BY <1>4, <1>5, <1>7 DEF Touched
<1>10. HeldInv'
  BY <1>1, <1>2, <1>3, <1>4, <1>5, <1>7, <1>8 DEF ListsInv, HeldInv
<1>11. ASSUME NEW l \in NBL PROVE ListInv(l)'
  <2>1. NB(l) \subseteq Completed => NB(l) \subseteq Completed'
    BY <1>5
  <2> QED BY <1>1, <1>2, <1>9, <2>1 DEF ListsInv, ListInv
<1>12. LostInv'
  <2>1. Queued' = Queued
    BY <1>2 DEF Queued
  <2> QED BY <1>1, <1>2, <1>4, <1>5, <2>1 DEF ListsInv, LostInv
<1> QED BY <1>3, <1>4, <1>6, <1>7, <1>10, <1>11, <1>12, PlaceParts DEF ListsInv, nb

\* MPThread completes what it has in hand.
LEMMA CompletePlaces ==
    ASSUME TypeInv, PlaceInv, TypeInv', Complete
    PROVE  PlaceInv' /\ AllHeld' = AllHeld \ {thread.nb} /\ thread.nb \in AllHeld
<1> DEFINE nb == thread.nb
<1>1. thread \in ThreadType /\ HandOK /\ ContextOK /\ ListsInv /\ Apart
  BY TypeParts, PlaceParts DEF Parts, ThreadOK
<1>2. /\ UNCHANGED lists /\ UNCHANGED buffers /\ left' = left /\ UNCHANGED canceller.queue
      /\ thread.pc = "complete" /\ thread'.nb = None
  BY <1>1 DEF Complete, ThreadType
<1>3. Hand = {nb} /\ Hand' = {}
  BY <1>1, <1>2 DEF HandOK, Hand
<1>4. /\ Cancelled' = Cancelled /\ Pending' = Pending /\ Stopped' = Stopped /\ Sent' = Sent
      /\ HeadOnly' /\ FlowIsServed'
  BY <1>2, Frames, PlaceParts
<1>5. UNCHANGED <<TxPendingList, QMAPFlowControlList>>
  BY <1>2 DEF lists
<1>6. nb \in NBs /\ ListOf(nb) \in NBL /\ nb \in NB(ListOf(nb))
  BY <1>1, <1>2, NetBuffers DEF HandOK, ThreadType
<1> HIDE DEF nb
<1>7. Apart' /\ AllHeld' = AllHeld \ {nb} /\ {nb} \in SUBSET AllHeld
  BY <1>1, <1>2, <1>3, <1>4, <1>5 DEF Apart, AllHeld
<1>8. \A x \in AllHeld' : Copied(x) => Copied(x)'
  BY <1>7 DEF Copied, nb
<1>9. CASE Return({nb}, context)
  <2>1. ListsInv'
    BY <1>1, <1>2, <1>4, <1>7, <1>8, <1>9, ReturnKeeps DEF ContextOK
  <2> QED BY <1>4, <1>7, <2>1, PlaceParts DEF nb
<1>10. CASE /\ context[ListOf(nb)].phase = "returned"
            /\ UNCHANGED <<context, Completed>>
  <2>1. \A x \in AllHeld' : x \in AllHeld
    BY <1>7
  <2>2. HeldInv'
    BY <1>1, <1>4, <1>8, <1>10, <2>1 DEF ListsInv, HeldInv
  <2>3. ASSUME NEW l \in NBL PROVE ListInv(l)'
    <3>1. Touched(l)' => Touched(l)
      BY <1>4, <1>10, <2>1 DEF Touched
    <3> QED BY <1>1, <1>2, <1>10, <3>1 DEF ListsInv, ListInv
  <2>4. LostInv'
    <3>1. Queued' = Queued /\ nb \notin Queued
      BY <1>10 DEF Queued
    <3> QED BY <1>1, <1>7, <1>10, <3>1 DEF ListsInv, LostInv
  <2> QED BY <1>4, <1>7, <2>2, <2>3, <2>4, PlaceParts DEF ListsInv, nb
<1> QED BY <1>9, <1>10 DEF Complete, nb

\* CancelSend takes off its list what it queues and what it forgets; the lists
\* of what it forgets are cancelled.
LEMMA CancelPlaces ==
    ASSUME TypeInv, PlaceInv, TypeInv', NEW id, CancelSend(id)
    PROVE  PlaceInv' /\ AllHeld' \subseteq AllHeld /\ AllHeld \ AllHeld' \subseteq Pending
<1> DEFINE q == TxPendingList
           R == Removed(id)
           T == {nb \in ToSet(TxPendingList) :
                   /\ Matches(ListOf(nb), id)
                   /\ \A i \in 1 .. (nb[2] - 1) :
                         <<ListOf(nb), i>> \notin ToSet(TxPendingList)}
<1>1. ContextOK /\ CancelOK /\ LeftOK /\ ListsInv /\ Apart
  BY TypeParts, PlaceParts DEF Parts
<1>2. /\ UNCHANGED <<Completed, QMAPFlowControlList, thread>> /\ UNCHANGED buffers
      /\ canceller.queue = <<>>
      /\ canceller'.queue = Keep(q, T) /\ q' = Keep(q, Pending \ R)
  BY <1>1 DEF CancelSend, CancelOK, CancellerOK, ForCancelQueue, Pending
<1>3. left'.lists = left.lists
  BY <1>1 DEF CancelSend, LeftOK
<1>4. Hand' = Hand /\ Stopped' = Stopped /\ Sent' = Sent /\ HeadOnly' /\ Cancelled = {}
  <2>1. thread'.nb = thread.nb
    BY <1>2
  <2> QED BY <1>2, <2>1, Frames, PlaceParts, ElementsOfNone DEF Stopped, Cancelled
<1>5. q \in Seq(NBs) /\ IsInjective(q) /\ ToSet(q) = Pending /\ Pending \subseteq NBs
  BY <1>1, QueueTypes DEF Apart, Pending
<1>6. T \subseteq R /\ R \subseteq Pending
  BY DEF Removed, Pending
<1>7. /\ IsInjective(canceller'.queue) /\ IsInjective(q')
      /\ Cancelled' = T /\ Pending' = Pending \ R
  <2> HIDE DEF T, R
  <2>1. ToSet(Keep(q, T)) = Pending \cap T /\ IsInjective(Keep(q, T))
    BY <1>5, KeepElements
  <2>2. ToSet(Keep(q, Pending \ R)) = Pending \cap (Pending \ R)
        /\ IsInjective(Keep(q, Pending \ R))
    BY <1>5, KeepElements
  <2>3. Cancelled' = ToSet(Keep(q, T)) /\ Pending' = ToSet(Keep(q, Pending \ R))
    BY <1>2 DEF Cancelled, Pending
  <2> QED BY <1>2, <1>6, <2>1, <2>2, <2>3
<1>8. FlowIsServed'
  <2>1. QMAPFlowControl' = QMAPFlowControl
    BY Zenon DEF CancelSend
  <2>2. q = <<>> => q' = <<>>
    <3>1. q = <<>> => ToSet(q) = {}
      BY ElementsOfNone
    <3> HIDE DEF R
    <3>2. q = <<>> => Keep(q, Pending \ R) = <<>>
      BY <1>5, <3>1, KeepNone
    <3> QED BY <1>2, <3>2
  <2> QED BY <1>2, <2>1, <2>2, FlowCases, PlaceParts, Zenon
<1>9. Apart' /\ AllHeld' \subseteq AllHeld
      /\ \A nb \in AllHeld \ AllHeld' : nb \in R /\ nb \notin T
  <2> HIDE DEF T, R
  <2>1. UNCHANGED QMAPFlowControlList
    BY <1>2
  <2> QED BY <1>1, <1>4, <1>6, <1>7, <2>1 DEF Apart, AllHeld
<1>10. \A l \in NBL : /\ SameList(l)
                      /\ (\E nb \in T : ListOf(nb) = l) => context'[l].Canceld
  <2>1. Cancelled' = ToSet(ForCancelQueue(id))
    BY DEF CancelSend, Cancelled
  <2>2. ToSet(ForCancelQueue(id)) = T
    BY <1>7, <2>1
  <2>3. context' = [l \in NBL |-> IF \E nb \in T : ListOf(nb) = l
                                  THEN [context[l] EXCEPT !.Canceld = TRUE]
                                  ELSE context[l]]
    BY <2>2 DEF CancelSend
  <2> HIDE DEF T
  <2>4. ASSUME NEW l \in NBL
        PROVE  /\ SameList(l)
               /\ (\E nb \in T : ListOf(nb) = l) => context'[l].Canceld
    <3>1. context[l] \in NblContext
      BY <1>1 DEF ContextOK
    <3>2. CASE \E nb \in T : ListOf(nb) = l
      <4>1. context'[l] = [context[l] EXCEPT !.Canceld = TRUE]
        BY <2>3, <3>2
      <4> QED BY <3>1, <4>1 DEF NblContext, SameList
    <3>3. CASE ~\E nb \in T : ListOf(nb) = l
      <4>1. context'[l] = context[l]
        BY <2>3, <3>3
      <4> QED BY <3>3, <4>1 DEF SameList
    <3> QED BY <3>2, <3>3
  <2> QED BY <2>4
<1>11. ASSUME NEW nb \in R, nb \notin T
       PROVE  context'[ListOf(nb)].Canceld
  <2> DEFINE l == ListOf(nb)
  <2>1. nb \in Pending /\ nb \in NBs /\ l \in NBL /\ nb \in NB(l)
    BY <1>5, <1>6, NetBuffers
  <2>2. CASE context[l].Canceld
    BY <1>10, <2>1, <2>2 DEF SameList
  <2>3. CASE Matches(l, id)
    <3> DEFINE I == {i \in 1 .. NumNB[l] : <<l, i>> \in Pending}
    <3>1. NumNB[l] \in Nat
      BY <2>1, NetBuffers
    <3>2. nb = <<l, nb[2]>> /\ nb[2] \in 1 .. NumNB[l]
      BY <2>1 DEF NB
    <3>3. I # {}
      BY <2>1, <3>2
    <3>4. I \in SUBSET (1 .. NumNB[l])
      OBVIOUS
    <3> HIDE DEF l
    <3>5. PICK first \in I : \A j \in I : first <= j
      <4> HIDE DEF I
      <4> QED BY <3>1, <3>3, <3>4, FirstPlace
    <3>6. /\ <<l, first>> \in Pending /\ first \in 1 .. NumNB[l]
          /\ \A i \in 1 .. (first - 1) : <<l, i>> \notin Pending
      <4>1. first \in 1 .. NumNB[l] /\ <<l, first>> \in Pending
        OBVIOUS
      <4>2. ASSUME NEW i \in 1 .. (first - 1), <<l, i>> \in Pending PROVE FALSE
        <5>1. i \in 1 .. NumNB[l] /\ i < first
          BY <3>1, <4>1
        <5>2. i \in I
          BY <4>2, <5>1
        <5> QED BY <3>5, <4>1, <5>1, <5>2
      <4> QED BY <4>1, <4>2
    <3> DEFINE one == <<l, first>>
    <3>7. ListOf(one) = l /\ one[2] = first
      BY DEF ListOf
    <3>8. one \in T
      <4>1. one \in ToSet(TxPendingList)
        BY <3>6 DEF Pending
      <4>2. Matches(ListOf(one), id)
        BY <2>3, <3>7 DEF l
      <4>3. \A i \in 1 .. (one[2] - 1) : <<ListOf(one), i>> \notin ToSet(TxPendingList)
        BY <3>6, <3>7 DEF Pending
      <4> HIDE DEF one
      <4> QED BY <4>1, <4>2, <4>3
    <3> HIDE DEF one, T
    <3> QED BY <1>10, <2>1, <3>7, <3>8 DEF l
  <2>4. context[l].Canceld \/ Matches(l, id)
    BY DEF Removed
  <2> QED BY <2>2, <2>3, <2>4
<1>12. \A x \in AllHeld' : Copied(x) => Copied(x)'
  BY <1>2 DEF Copied
<1>13. ListsInv'
  <2> HIDE DEF T, R
  <2>1. Completed' = Completed /\ \A l \in NBL : SameList(l)
    BY <1>2, <1>10
  <2>2. \A nb \in AllHeld \ AllHeld' : context'[ListOf(nb)].Canceld
    BY <1>9, <1>11
  <2> QED BY <1>1, <1>3, <1>4, <1>9, <1>12, <2>1, <2>2, MoveKeeps
<1> QED BY <1>6, <1>4, <1>8, <1>9, <1>13, PlaceParts

LEMMA StepPlaces == ASSUME TypeInv, PlaceInv, TypeInv', [Next]_vars PROVE PlaceInv'
<1>1. CASE Send
  BY <1>1, SendPlaces DEF Send
<1>2. CASE Queue
  BY <1>2, QueuePlaces DEF Queue
<1>3. CASE Cancel
  BY <1>3, CancelPlaces DEF Cancel
<1>4. CASE FlowControl
  BY <1>4, FlowPlaces DEF FlowControl
<1>5. CASE ThreadStep
  BY <1>5, WalkPlaces, DequeuePlaces, CopyPlaces, SetStatusPlaces, CompletePlaces,
     FlushPlaces DEF ThreadStep
<1>6. CASE CancelStep
  BY <1>6, CancelStatusPlaces, CancelCompletesPlaces DEF CancelStep
<1>7. CASE Pause \/ PauseStep \/ Restart
  BY <1>7, PauseFlagPlaces, PausePurgePlaces DEF PauseStep
<1>8. CASE UNCHANGED vars
  <2>1. /\ UNCHANGED <<context, Completed, nBusyTx, thread, canceller, pause, left>>
        /\ UNCHANGED lists /\ UNCHANGED buffers
    BY <1>8 DEF vars
  <2>2. /\ UNCHANGED <<lists, canceller.queue, Completed>> /\ thread'.nb = thread.nb
        /\ (Copied(thread.nb) => Copied(thread.nb)')
    BY <2>1 DEF Copied
  <2> QED BY <2>1, <2>2, Frames, PlaceParts, StillPlaces
<1> QED BY <1>1, <1>2, <1>3, <1>4, <1>5, <1>6, <1>7, <1>8, TimerPlaces, UsbPlaces DEF Next

LEMMA PlaceInvariant == Spec => [](TypeInv /\ PlaceInv)
<1>1. Init => TypeInv /\ PlaceInv
  BY InitType, InitPlaces
<1>2. TypeInv /\ PlaceInv /\ [Next]_vars => (TypeInv /\ PlaceInv)'
  BY StepType, StepPlaces
<1> QED BY <1>1, <1>2, PTL DEF Spec

\* Every net buffer that NDIS waits for is in one place only, where the state of
\* the flow lets it go on, or it is of a list that CancelSend has cancelled.
THEOREM OnePlaceEach == Spec => []EachInOnePlace
<1>1. TypeInv /\ PlaceInv => EachInOnePlace
  BY PlaceInvImplies
<1> QED BY <1>1, PlaceInvariant, PTL

\* No list of readable net buffers is returned twice, and none that was returned
\* has a net buffer that MPThread, the canceller or a pause is still to complete.
THEOREM ContextsAreNotReused == Spec => []FreedIsNotUsed
<1>1. TypeInv /\ PlaceInv => FreedIsNotUsed
  BY PlaceInvImplies
<1> QED BY <1>1, PlaceInvariant, PTL

-----------------------------------------------------------------------------
(* The waiting net buffers are one queue *)

NotCopiedYet == ToSet(NotCopied)

LEMMA WaitingIs ==
    ASSUME TypeInv, PlaceInv
    PROVE  /\ NotCopied \in Seq(NBs) /\ TxPendingList \in Seq(NBs)
           /\ QMAPFlowControlList \in Seq(NBs) /\ Waiting \in Seq(NBs)
           /\ NotCopied = <<>> \/ (NotCopied = <<thread.nb>> /\ thread.pc = "packet")
           /\ NotCopiedYet \subseteq Hand
           /\ ToSet(Waiting) = NotCopiedYet \cup Pending \cup Stopped
           /\ ToSet(Waiting) \cap Sent = {} /\ IsInjective(Waiting)
<1>1. /\ TxPendingList \in Seq(NBs) /\ QMAPFlowControlList \in Seq(NBs)
      /\ InHand \in Seq(NBs) /\ ToSet(InHand) = Hand /\ IsInjective(InHand)
  BY QueueTypes
<1>2. Apart /\ HeldInv
  BY DEF PlaceInv
<1>3. thread.pc = "packet" => InHand = <<thread.nb>>
  BY TypeParts DEF Parts, ThreadOK, HandOK, InHand
<1>4. /\ NotCopied = <<>> \/ (NotCopied = <<thread.nb>> /\ thread.pc = "packet")
      /\ NotCopied = <<>> \/ NotCopied = InHand
  BY <1>3 DEF NotCopied
<1>5. /\ NotCopied \in Seq(NBs) /\ NotCopiedYet \subseteq Hand
      /\ IsInjective(NotCopied)
  <2>1. CASE NotCopied = <<>>
    BY <2>1, ElementsOfNone DEF NotCopiedYet, IsInjective
  <2>2. CASE NotCopied = InHand
    BY <1>1, <2>2 DEF NotCopiedYet
  <2> QED BY <1>4, <2>1, <2>2
<1> DEFINE a == NotCopied
           b == TxPendingList
           c == QMAPFlowControlList
           ab == a \o b
<1>6. /\ a \in Seq(NBs) /\ b \in Seq(NBs) /\ c \in Seq(NBs)
      /\ IsInjective(a) /\ IsInjective(b) /\ IsInjective(c)
      /\ ToSet(a) = NotCopiedYet /\ ToSet(b) = Pending /\ ToSet(c) = Stopped
  BY <1>1, <1>2, <1>5 DEF Apart, Pending, Stopped, NotCopiedYet
<1>7. ToSet(a) \cap ToSet(b) = {} /\ ToSet(a) \cap ToSet(c) = {} /\ ToSet(b) \cap ToSet(c) = {}
  BY <1>2, <1>5, <1>6 DEF Apart
<1>8. Waiting = ab \o c
  BY DEF Waiting
<1> HIDE DEF a, b, c
<1>9. ab \in Seq(NBs) /\ ToSet(ab) = ToSet(a) \cup ToSet(b) /\ IsInjective(ab)
  BY <1>6, <1>7, ConcatIsSeq, ElementsOfConcat, InjectiveConcat
<1> HIDE DEF ab
<1>10. ab \o c \in Seq(NBs) /\ ToSet(ab \o c) = ToSet(ab) \cup ToSet(c)
       /\ IsInjective(ab \o c)
  <2>1. ToSet(ab) \cap ToSet(c) = {}
    BY <1>7, <1>9
  <2> QED BY <1>6, <1>9, <2>1, ConcatIsSeq, ElementsOfConcat, InjectiveConcat
<1>11. ToSet(Waiting) = NotCopiedYet \cup Pending \cup Stopped
  BY <1>6, <1>8, <1>9, <1>10
<1>12. ToSet(Waiting) \cap Sent = {}
  <2> SUFFICES ASSUME NEW nb \in ToSet(Waiting) \cap Sent PROVE FALSE
    OBVIOUS
  <2>1. nb \in AllHeld
    BY <1>5, <1>11 DEF AllHeld
  <2>2. nb = thread.nb /\ thread.pc \in {"status", "complete"}
    BY <1>2, <2>1 DEF HeldInv, Copied
  <2>3. nb \notin NotCopiedYet
    BY <1>4, <2>2, ElementsOfNone DEF NotCopiedYet
  <2>4. nb \in Hand
    <3>1. thread.nb # None
      BY <2>2, TypeParts DEF Parts, ThreadOK, HandOK
    <3> QED BY <2>2, <3>1 DEF Hand
  <2> QED BY <1>2, <1>11, <2>3, <2>4 DEF Apart
<1> QED BY <1>1, <1>4, <1>5, <1>8, <1>10, <1>11, <1>12

\* What remains of the queue when each part keeps what is in T.
LEMMA WaitingKeeps ==
    ASSUME TypeInv, PlaceInv, NEW T
    PROVE  Keep(Waiting, T) =
             Keep(NotCopied, T) \o Keep(TxPendingList, T) \o Keep(QMAPFlowControlList, T)
<1> DEFINE a == NotCopied
           b == TxPendingList
           c == QMAPFlowControlList
<1>1. a \in Seq(NBs) /\ b \in Seq(NBs) /\ c \in Seq(NBs)
  BY WaitingIs
<1>2. Waiting = (a \o b) \o c
  BY DEF Waiting
<1> HIDE DEF a, b, c
<1>3. a \o b \in Seq(NBs) /\ Keep(a \o b, T) = Keep(a, T) \o Keep(b, T)
  BY <1>1, ConcatIsSeq, KeepConcat
<1> DEFINE ab == a \o b
<1>4. ab \in Seq(NBs) /\ Keep(ab, T) = Keep(a, T) \o Keep(b, T)
  BY <1>3
<1> HIDE DEF ab
<1>5. Keep(ab \o c, T) = Keep(ab, T) \o Keep(c, T)
  <2>1. ab \in Seq(NBs) /\ c \in Seq(NBs)
    BY <1>1, <1>4
  <2> QED BY <2>1, KeepConcat
<1> QED BY <1>2, <1>4, <1>5 DEF ab, a, b, c

-----------------------------------------------------------------------------
(* The steps of the queue *)

TQ == TransmitQueueOfAdapter!Next
Stutters == UNCHANGED <<Waiting, CopiedPackets, wire>>

\* TransmitQueue reads the operators on sequences as this module does.
LEMMA SameOperators ==
    /\ \A s, S : TransmitQueueOfAdapter!Keep(s, S) = Keep(s, S)
    /\ \A s : TransmitQueueOfAdapter!ToSet(s) = ToSet(s)
    /\ \A s : TransmitQueueOfAdapter!IsInjective(s) <=> IsInjective(s)
    /\ \A s, t : TransmitQueueOfAdapter!IsPrefix(s, t) <=> IsPrefix(s, t)
<1>1. \A s, S : TransmitQueueOfAdapter!Keep(s, S) = Keep(s, S)
  BY DEF TransmitQueueOfAdapter!Keep, TransmitQueueOfAdapter!Places,
         TransmitQueueOfAdapter!Rank, TransmitQueueOfAdapter!Cardinality,
         Keep, Places, Rank, Cardinality
<1>2. \A s : TransmitQueueOfAdapter!ToSet(s) = ToSet(s)
  BY DEF TransmitQueueOfAdapter!ToSet, ToSet
<1>3. \A s : TransmitQueueOfAdapter!IsInjective(s) <=> IsInjective(s)
  BY DEF TransmitQueueOfAdapter!IsInjective, IsInjective
<1>4. \A s, t : TransmitQueueOfAdapter!IsPrefix(s, t) <=> IsPrefix(s, t)
  BY DEF TransmitQueueOfAdapter!IsPrefix, IsPrefix
<1> QED BY <1>1, <1>2, <1>3, <1>4

\* Giving up: every part keeps what is in T.
LEMMA GivesUp ==
    ASSUME TypeInv, PlaceInv, NEW T, Waiting' = Keep(Waiting, T),
           CopiedPackets' = CopiedPackets, wire' = wire
    PROVE  TransmitQueueOfAdapter!GiveUp
<1>1. Waiting \in Seq(NBs)
  BY WaitingIs
<1>2. Keep(Waiting, T) = Keep(Waiting, ToSet(Keep(Waiting, T)))
  BY <1>1, KeepOfKept
<1>3. Waiting' = Keep(Waiting, ToSet(Waiting'))
  BY <1>2
<1> QED BY <1>3, SameOperators DEF TransmitQueueOfAdapter!GiveUp

LEMMA SameQueue ==
    ASSUME UNCHANGED lists, NotCopied' = NotCopied,
           UNCHANGED <<UplinkFreeBufferQueue, wire>>
    PROVE  Stutters
<1>1. UNCHANGED <<TxPendingList, QMAPFlowControlList>>
  BY DEF lists
<1> QED BY <1>1 DEF Stutters, Waiting, CopiedPackets

LEMMA HandSignalled ==
    ASSUME TypeInv, NEW e \in {"tx", "timer"}, thread' = Signal(thread, e)
    PROVE  NotCopied' = NotCopied
<1>1. /\ thread'.nb = thread.nb
      /\ thread'.pc = "packet" <=> thread.pc = "packet"
  BY TypeParts, SignalThread DEF Parts, ThreadOK
<1> QED BY <1>1 DEF NotCopied, InHand

QueueOK ==
    /\ Waiting \in Seq(NBs) /\ IsInjective(Waiting)
    /\ ToSet(Waiting) \cap Sent = {} /\ ToSet(Waiting) \subseteq NBs

LEMMA QueueIsOK ==
    (TypeInv /\ PlaceInv => QueueOK) /\ (TypeInv' /\ PlaceInv' => QueueOK')
<1>1. TypeInv /\ PlaceInv => QueueOK
  <2> SUFFICES ASSUME TypeInv, PlaceInv PROVE QueueOK
    OBVIOUS
  <2>1. Waiting \in Seq(NBs) /\ IsInjective(Waiting) /\ ToSet(Waiting) \cap Sent = {}
    BY WaitingIs
  <2>2. ToSet(Waiting) \subseteq NBs
    BY <2>1, Elements
  <2> QED BY <2>1, <2>2 DEF QueueOK
<1>2. TypeInv' /\ PlaceInv' => QueueOK'
  BY <1>1, PTL
<1> QED BY <1>1, <1>2

\* SendQueues accepts: the net buffers of the list join the end.
LEMMA QueueAccepts ==
    ASSUME TypeInv, PlaceInv, TypeInv', PlaceInv', NEW l \in NBL, SendQueues(l)
    PROVE  TransmitQueueOfAdapter!Accept
<1> DEFINE a == NotCopied
           b == TxPendingList
           c == QMAPFlowControlList
           n == NBsInOrder(l)
<1>1. UNCHANGED <<UplinkFreeBufferQueue, wire>>
  BY DEF SendQueues, buffers
<1>2. a \in Seq(NBs) /\ b \in Seq(NBs) /\ c \in Seq(NBs) /\ n \in Seq(NBs)
  BY WaitingIs, InOrder
<1>3. NotCopied' = a
  <2>1. CASE context[l].startTx
    BY <2>1, HandSignalled DEF SendQueues
  <2>2. CASE ~context[l].startTx
    BY <2>2 DEF SendQueues, NotCopied, InHand
  <2> QED BY <2>1, <2>2
<1>4. \/ QMAPFlowControlList' = c \o n /\ TxPendingList' = b
      \/ TxPendingList' = b \o n /\ QMAPFlowControlList' = c /\ c = <<>>
  <2>1. \/ /\ QMAPFlowControl
           /\ QMAPFlowControlList' = QMAPFlowControlList \o NBsInOrder(l)
           /\ TxPendingList' = TxPendingList
        \/ /\ ~QMAPFlowControl
           /\ TxPendingList' = TxPendingList \o NBsInOrder(l)
           /\ QMAPFlowControlList' = QMAPFlowControlList
    BY Zenon DEF SendQueues, IsFlowControlled
  <2> QED BY <2>1, FlowCases, PlaceParts, Zenon
<1>5. Waiting = (a \o b) \o c
  BY DEF Waiting
<1>6. Waiting' = (a \o TxPendingList') \o QMAPFlowControlList'
  BY <1>3 DEF Waiting
<1> HIDE DEF a, b, c, n
<1>7. Waiting' = Waiting \o n
  <2>1. a \o b \in Seq(NBs)
    BY <1>2, ConcatIsSeq
  <2>2. CASE QMAPFlowControlList' = c \o n /\ TxPendingList' = b
    <3>1. Waiting' = (a \o b) \o (c \o n)
      BY <1>6, <2>2
    <3>2. ((a \o b) \o c) \o n = (a \o b) \o (c \o n)
      BY <1>2, <2>1, ConcatLaws
    <3> QED BY <1>5, <3>1, <3>2
  <2>3. CASE TxPendingList' = b \o n /\ QMAPFlowControlList' = c /\ c = <<>>
    <3>1. Waiting' = (a \o (b \o n)) \o <<>> /\ Waiting = (a \o b) \o <<>>
      BY <1>5, <1>6, <2>3
    <3>2. a \o (b \o n) \in Seq(NBs) /\ (a \o b) \o n = a \o (b \o n)
      BY <1>2, ConcatLaws, ConcatIsSeq
    <3>3. (a \o (b \o n)) \o <<>> = a \o (b \o n) /\ (a \o b) \o <<>> = a \o b
      BY <2>1, <3>2, ConcatLaws
    <3> QED BY <3>1, <3>2, <3>3
  <2> QED BY <1>4, <2>2, <2>3
<1>8. QueueOK /\ QueueOK'
  BY QueueIsOK
<1>9. IsPrefix(Waiting, Waiting') /\ Len(Waiting') >= Len(Waiting)
  <2>1. Waiting \in Seq(NBs)
    BY <1>8 DEF QueueOK
  <2>2. IsPrefix(Waiting, Waiting \o n) /\ Len(Waiting \o n) = Len(Waiting) + Len(n)
    BY <1>2, <2>1, PrefixOfConcat, ConcatIsSeq
  <2>3. Len(Waiting) \in Nat /\ Len(n) \in Nat
    BY <1>2, <2>1
  <2> QED BY <1>7, <2>2, <2>3
<1>10. CopiedPackets' = CopiedPackets /\ wire' = wire
  BY <1>1, Frames
<1>11. /\ ToSet(Waiting') \cap (ToSet(CopiedPackets) \cup ToSet(wire)) = {}
       /\ IsInjective(Waiting') /\ ToSet(Waiting') \subseteq NBs
  BY <1>8, <1>10 DEF QueueOK, Sent
<1> QED BY <1>9, <1>10, <1>11, SameOperators DEF TransmitQueueOfAdapter!Accept

\* FlowControlCall leaves the queue as it is.
LEMMA FlowKeepsQueue ==
    ASSUME TypeInv, PlaceInv, NEW FlowControlled \in BOOLEAN, FlowControlCall(FlowControlled)
    PROVE  Stutters
<1> DEFINE a == NotCopied
           b == TxPendingList
           c == QMAPFlowControlList
<1>1. /\ UNCHANGED <<UplinkFreeBufferQueue, wire>> /\ thread' = Signal(thread, "tx")
  BY DEF FlowControlCall, buffers
<1>2. a \in Seq(NBs) /\ b \in Seq(NBs) /\ c \in Seq(NBs)
  BY WaitingIs
<1>3. NotCopied' = a
  BY <1>1, HandSignalled
<1>4. b = <<>> \/ c = <<>>
  BY FlowCases, PlaceParts, Zenon
<1>5. \/ QMAPFlowControlList' = c \o b /\ TxPendingList' = <<>>
      \/ TxPendingList' = c \o b /\ QMAPFlowControlList' = <<>>
  BY Zenon DEF FlowControlCall, Released
<1>6. Waiting = (a \o b) \o c /\ Waiting' = (a \o TxPendingList') \o QMAPFlowControlList'
  BY <1>3 DEF Waiting
<1> HIDE DEF a, b, c
<1>7. /\ <<>> \o b = b /\ c \o <<>> = c /\ a \o <<>> = a
      /\ (a \o c) \o <<>> = a \o c /\ (a \o b) \o <<>> = a \o b
  BY <1>2, ConcatLaws, ConcatIsSeq
<1>8. Waiting' = Waiting
  <2>1. CASE b = <<>>
    <3>1. c \o b = c /\ Waiting = a \o c
      BY <1>6, <1>7, <2>1
    <3> QED BY <1>5, <1>6, <1>7, <3>1
  <2>2. CASE c = <<>>
    <3>1. c \o b = b /\ Waiting = a \o b
      BY <1>6, <1>7, <2>2
    <3> QED BY <1>5, <1>6, <1>7, <3>1
  <2> QED BY <1>4, <2>1, <2>2
<1> QED BY <1>1, <1>8, Frames DEF Stutters

\* The head of the queue leaves it, copied or not.
LEMMA FirstGivenUp ==
    ASSUME TypeInv, PlaceInv, Waiting # <<>>, Waiting' = Tail(Waiting),
           CopiedPackets' = CopiedPackets, wire' = wire
    PROVE  TransmitQueueOfAdapter!GiveUp
<1>1. Waiting \in Seq(NBs) /\ IsInjective(Waiting)
  BY WaitingIs
<1>2. Waiting' = Keep(Waiting, ToSet(Waiting) \ {Head(Waiting)})
  BY <1>1, KeepTail
<1> QED BY <1>2, GivesUp

\* MPThread takes the first to copy it, or refuses it.
LEMMA DequeueKeepsQueue ==
    ASSUME TypeInv, PlaceInv, Dequeue
    PROVE  Stutters \/ TransmitQueueOfAdapter!GiveUp
<1> DEFINE b == TxPendingList
           c == QMAPFlowControlList
           h == Head(TxPendingList)
           t == Tail(TxPendingList)
<1>1. /\ UNCHANGED <<UplinkFreeBufferQueue, wire>> /\ QMAPFlowControlList' = c
      /\ TxPendingList' = t /\ b # <<>> /\ thread.pc = "process"
  BY DEF Dequeue, Processing, buffers
<1>2. b \in Seq(NBs) /\ c \in Seq(NBs)
  BY WaitingIs
<1>3. h \in NBs /\ t \in Seq(NBs) /\ b = <<h>> \o t /\ h # None
  BY <1>1, <1>2, HeadAndTail, NetBuffers
<1>4. NotCopied = <<>>
  BY <1>1 DEF NotCopied
<1>5. NotCopied' = <<h>> \/ NotCopied' = <<>>
  BY <1>3, TypeParts DEF Dequeue, NotCopied, InHand, Parts, ThreadOK, ThreadType
<1>6. /\ Waiting = (<<>> \o b) \o c
      /\ Waiting' = (NotCopied' \o TxPendingList') \o QMAPFlowControlList'
  BY <1>4 DEF Waiting
<1>7. CopiedPackets' = CopiedPackets /\ wire' = wire
  BY <1>1, Frames
<1> DEFINE one == <<h>>
<1>8. one \in Seq(NBs)
  BY <1>3
<1>9. b = one \o t /\ QMAPFlowControlList' = c /\ TxPendingList' = t
  BY <1>1, <1>3
<1> HIDE DEF b, c, t, one
<1>10. /\ <<>> \o b = b /\ <<>> \o t = t /\ t \o c \in Seq(NBs)
       /\ (one \o t) \o c = one \o (t \o c)
  BY <1>2, <1>3, <1>8, ConcatLaws, ConcatIsSeq
<1>11. CASE NotCopied' = <<h>>
  <2>1. Waiting' = (one \o t) \o c /\ Waiting = b \o c
    BY <1>6, <1>9, <1>10, <1>11 DEF one
  <2> QED BY <1>7, <1>9, <2>1 DEF Stutters
<1>12. CASE NotCopied' = <<>>
  <2>1. Waiting' = t \o c /\ Waiting = one \o (t \o c)
    BY <1>6, <1>9, <1>10, <1>12
  <2> HIDE DEF h
  <2>2. Waiting # <<>> /\ Waiting' = Tail(Waiting)
    <3> DEFINE u == t \o c
    <3>1. u \in Seq(NBs)
      BY <1>10
    <3> HIDE DEF u
    <3>2. <<h>> \o u # <<>> /\ Tail(<<h>> \o u) = u
      BY <1>3, <3>1, FirstOfConcat
    <3> QED BY <2>1, <3>2 DEF one, u
  <2> QED BY <1>7, <2>2, FirstGivenUp
<1> QED BY <1>5, <1>11, <1>12

LEMMA CopyTakesFirst ==
    ASSUME TypeInv, PlaceInv, CopyPacket
    PROVE  TransmitQueueOfAdapter!Copy \/ TransmitQueueOfAdapter!GiveUp
<1> DEFINE h == thread.nb
           u == TxPendingList \o QMAPFlowControlList
<1>1. /\ UNCHANGED lists /\ wire' = wire /\ thread.pc = "packet" /\ thread'.pc = "status"
      /\ h \in NBs /\ h # None
  BY TypeParts, CopyCopied DEF CopyPacket, Parts, ThreadOK, ThreadType, HandOK
<1>2. /\ TxPendingList \in Seq(NBs) /\ QMAPFlowControlList \in Seq(NBs)
      /\ UNCHANGED <<TxPendingList, QMAPFlowControlList>>
  BY <1>1, WaitingIs DEF lists
<1>3. NotCopied = <<h>> /\ NotCopied' = <<>>
  BY <1>1 DEF NotCopied, InHand
<1>4. u \in Seq(NBs) /\ <<>> \o TxPendingList = TxPendingList
  BY <1>2, ConcatIsSeq, ConcatLaws
<1>5. Waiting' = u
  BY <1>2, <1>3, <1>4 DEF Waiting
<1>6. Waiting = <<h>> \o u
  <2> DEFINE one == <<h>>
  <2>1. one \in Seq(NBs) /\ Waiting = (one \o TxPendingList) \o QMAPFlowControlList
    BY <1>1, <1>3 DEF Waiting
  <2> HIDE DEF one
  <2>2. (one \o TxPendingList) \o QMAPFlowControlList = one \o u
    BY <1>2, <2>1, ConcatLaws
  <2> QED BY <2>1, <2>2 DEF one
<1>7. Waiting # <<>> /\ Head(Waiting) = h /\ Waiting' = Tail(Waiting)
  <2> HIDE DEF h, u
  <2> QED BY <1>1, <1>4, <1>5, <1>6, FirstOfConcat
<1>8. CASE CopiedPackets' = CopiedPackets
  BY <1>1, <1>7, <1>8, FirstGivenUp
<1>9. CASE CopiedPackets' = CopiedPackets \o <<thread.nb>>
  <2>1. CopiedPackets \in Seq(NBs) /\ thread.nb \in NBs
    BY CopyCopied
  <2>2. CopiedPackets' = Append(CopiedPackets, thread.nb)
    BY <1>9, <2>1, AppendIsConcatOfOne
  <2> QED BY <1>1, <1>7, <2>2 DEF TransmitQueueOfAdapter!Copy
<1> QED BY <1>8, <1>9, CopyCopied

\* CancelSend and a pause give up what they take off the lists.
LEMMA PurgeGivesUp ==
    ASSUME TypeInv, PlaceInv,
           (\E id : CancelSend(id)) \/ PausePurgesFlow \/ PauseCleansUp
    PROVE  TransmitQueueOfAdapter!GiveUp
<1> DEFINE a == NotCopied
           b == TxPendingList
           c == QMAPFlowControlList
<1>1. /\ UNCHANGED <<UplinkFreeBufferQueue, wire>> /\ thread' = thread
  BY DEF CancelSend, PausePurgesFlow, PauseCleansUp, buffers
<1>2. /\ a \in Seq(NBs) /\ b \in Seq(NBs) /\ c \in Seq(NBs)
      /\ ToSet(a) \subseteq Hand /\ ToSet(b) = Pending /\ ToSet(c) = Stopped
  BY WaitingIs DEF NotCopiedYet, Pending, Stopped
<1>3. ToSet(a) \cap ToSet(b) = {} /\ ToSet(a) \cap ToSet(c) = {} /\ ToSet(b) \cap ToSet(c) = {}
  BY <1>2 DEF PlaceInv, Apart
<1>4. CopiedPackets' = CopiedPackets /\ wire' = wire
  BY <1>1, Frames
<1>5. Waiting' = (a \o TxPendingList') \o QMAPFlowControlList'
  BY <1>1 DEF Waiting, NotCopied, InHand
<1>6. ASSUME NEW T PROVE Keep(Waiting, T) = (Keep(a, T) \o Keep(b, T)) \o Keep(c, T)
  BY WaitingKeeps
<1> HIDE DEF a, b, c
<1>7. CASE \E id : CancelSend(id)
  <2>1. PICK id : CancelSend(id)
    BY <1>7
  <2> DEFINE T == (ToSet(a) \cup ToSet(c)) \cup (ToSet(b) \ Removed(id))
  <2>2. TxPendingList' = Keep(b, ToSet(b) \ Removed(id)) /\ QMAPFlowControlList' = c
    BY <2>1 DEF CancelSend, b, c
  <2>3. ToSet(b) \cap T = ToSet(b) \cap (ToSet(b) \ Removed(id))
    BY <1>3
  <2>4. ToSet(a) \subseteq T /\ ToSet(c) \subseteq T
    OBVIOUS
  <2> HIDE DEF T
  <2>5. Keep(a, T) = a /\ Keep(c, T) = c
    BY <1>2, <2>4, KeepAll
  <2>6. Keep(b, T) = Keep(b, ToSet(b) \ Removed(id))
    BY <1>2, <2>3, KeepSame
  <2>7. Waiting' = Keep(Waiting, T)
    BY <1>5, <1>6, <2>2, <2>5, <2>6
  <2> QED BY <1>4, <2>7, GivesUp
<1>8. CASE PausePurgesFlow
  <2> DEFINE T == ToSet(a) \cup ToSet(b)
  <2>1. TxPendingList' = b /\ QMAPFlowControlList' = <<>>
    BY <1>8 DEF PausePurgesFlow, b
  <2>2. ToSet(a) \subseteq T /\ ToSet(b) \subseteq T /\ ToSet(c) \cap T = {}
    BY <1>3
  <2> HIDE DEF T
  <2>3. Keep(a, T) = a /\ Keep(b, T) = b /\ Keep(c, T) = <<>>
    BY <1>2, <2>2, KeepAll, KeepNone
  <2>4. Waiting' = Keep(Waiting, T)
    BY <1>5, <1>6, <2>1, <2>3
  <2> QED BY <1>4, <2>4, GivesUp
<1>9. CASE PauseCleansUp
  <2> DEFINE T == ToSet(a) \cup ToSet(c)
  <2>1. TxPendingList' = <<>> /\ QMAPFlowControlList' = c
    BY <1>9 DEF PauseCleansUp, c
  <2>2. ToSet(a) \subseteq T /\ ToSet(c) \subseteq T /\ ToSet(b) \cap T = {}
    BY <1>3
  <2> HIDE DEF T
  <2>3. Keep(a, T) = a /\ Keep(b, T) = <<>> /\ Keep(c, T) = c
    BY <1>2, <2>2, KeepAll, KeepNone
  <2>4. Waiting' = Keep(Waiting, T)
    BY <1>5, <1>6, <2>1, <2>3
  <2> QED BY <1>4, <2>4, GivesUp
<1> QED BY <1>7, <1>8, <1>9

\* A flush transmits what has been copied.
LEMMA FlushTransmits ==
    ASSUME TypeInv, PlaceInv, Flush
    PROVE  Stutters \/ TransmitQueueOfAdapter!Transmit
<1>1. thread \in ThreadType /\ BuffersOK /\ HeadOnly
  BY TypeParts DEF Parts, ThreadOK, PlaceInv
<1>2. UNCHANGED lists /\ NotCopied = <<>> /\ NotCopied' = <<>>
  BY <1>1, AfterFlushType DEF Flush, NotCopied
<1>3. CASE UNCHANGED buffers
  BY <1>2, <1>3, SameQueue DEF buffers
<1>4. CASE /\ UplinkFreeBufferQueue # <<>>
           /\ wire' = wire \o Head(UplinkFreeBufferQueue).packets
           /\ UplinkFreeBufferQueue' = Tail(UplinkFreeBufferQueue)
  <2>1. UplinkFreeBufferQueue \in Seq(Item)
    BY <1>1, Zenon DEF BuffersOK
  <2>2. CopiedPackets' = <<>> /\ CopiedPackets = Head(UplinkFreeBufferQueue).packets
    BY <1>1, <1>4, <2>1, EmptyTail DEF CopiedPackets
  <2>3. Waiting' = Waiting
    BY <1>2 DEF lists, Waiting
  <2> QED BY <1>4, <2>2, <2>3 DEF TransmitQueueOfAdapter!Transmit
<1> QED BY <1>3, <1>4 DEF Flush

LEMMA UsbStutters == ASSUME TypeInv, UsbCompletes PROVE Stutters
<1>1. UNCHANGED lists /\ wire' = wire /\ thread' = Signal(thread, "tx")
  BY DEF UsbCompletes
<1>2. NotCopied' = NotCopied
  BY <1>1, HandSignalled
<1>3. UNCHANGED <<TxPendingList, QMAPFlowControlList>>
  BY <1>1 DEF lists
<1> QED BY <1>1, <1>2, <1>3, UsbCopied DEF Stutters, Waiting

LEMMA OthersStutter ==
    ASSUME TypeInv,
           \/ \E l \in NBL : SendAllocates(l) \/ SendFails(l)
           \/ CancelStep \/ Pause \/ PauseLooks \/ PauseEnds \/ Restart
           \/ TakeTxEvent \/ TakeTimerEvent \/ SelfCheck \/ SendFull \/ StopProcessing
           \/ SetStatus \/ Complete \/ TimerExpires \/ UNCHANGED vars
    PROVE  Stutters
<1>1. thread \in ThreadType
  BY TypeParts DEF Parts, ThreadOK
<1>2. CASE \/ \E l \in NBL : SendAllocates(l) \/ SendFails(l)
           \/ CancelStep \/ Pause \/ PauseLooks \/ PauseEnds \/ Restart
  <2>1. UNCHANGED lists /\ UNCHANGED buffers /\ thread' = thread
    BY <1>2 DEF SendAllocates, SendFails, CancelStep, CancelSetsStatus, CancelCompletes,
                Pause, PauseLooks, PauseEnds, Restart
  <2> QED BY <2>1, SameQueue DEF NotCopied, InHand, buffers
<1>3. CASE SelfCheck \/ TimerExpires
  <2>1. /\ UNCHANGED lists /\ UNCHANGED <<UplinkFreeBufferQueue, wire>>
        /\ \E e \in {"tx", "timer"} : thread' = Signal(thread, e)
    BY <1>3 DEF SelfCheck, TimerExpires, buffers
  <2> QED BY <2>1, HandSignalled, SameQueue
<1>4. CASE \/ TakeTxEvent \/ TakeTimerEvent \/ SendFull \/ StopProcessing
           \/ SetStatus \/ Complete
  <2>1. UNCHANGED lists /\ UNCHANGED <<UplinkFreeBufferQueue, wire>>
    BY <1>4 DEF TakeTxEvent, TakeTimerEvent, TakeEvent, SendFull, StopProcessing,
                SetStatus, Complete, buffers
  <2>2. thread.pc # "packet"
    BY <1>4 DEF TakeTxEvent, TakeTimerEvent, TakeEvent, SendFull, StopProcessing,
                Processing, SetStatus, Complete
  <2>3. thread'.pc # "packet"
    <3>1. CASE TakeTxEvent \/ TakeTimerEvent
      BY <1>1, <3>1 DEF TakeTxEvent, TakeTimerEvent, TakeEvent, Clear, ThreadType
    <3>2. CASE SendFull \/ SetStatus \/ Complete
      BY <1>1, <3>2 DEF SendFull, SetStatus, Complete, ThreadType
    <3>3. CASE StopProcessing
      BY <1>1, <3>3, WaitThread DEF StopProcessing
    <3> QED BY <1>4, <3>1, <3>2, <3>3
  <2> QED BY <2>1, <2>2, <2>3, SameQueue DEF NotCopied
<1>5. CASE UNCHANGED vars
  <2>1. UNCHANGED lists /\ UNCHANGED buffers /\ thread' = thread
    BY <1>5 DEF vars
  <2> QED BY <2>1, SameQueue DEF NotCopied, InHand, buffers
<1> QED BY <1>2, <1>3, <1>4, <1>5

LEMMA StepQueue ==
    ASSUME TypeInv, PlaceInv, TypeInv', PlaceInv', [Next]_vars
    PROVE  [TransmitQueueOfAdapter!Next]_(TransmitQueueOfAdapter!vars)
<1>1. Stutters => UNCHANGED TransmitQueueOfAdapter!vars
  BY DEF Stutters, TransmitQueueOfAdapter!vars
<1>2. \/ Stutters \/ TransmitQueueOfAdapter!Accept \/ TransmitQueueOfAdapter!Copy
      \/ TransmitQueueOfAdapter!Transmit \/ TransmitQueueOfAdapter!GiveUp
  <2>1. CASE Send \/ CancelStep \/ Pause \/ Restart \/ TimerExpires \/ UNCHANGED vars
    BY <2>1, OthersStutter DEF Send
  <2>2. CASE Queue
    BY <2>2, QueueAccepts DEF Queue
  <2>3. CASE Cancel
    BY <2>3, PurgeGivesUp DEF Cancel
  <2>4. CASE FlowControl
    BY <2>4, FlowKeepsQueue DEF FlowControl
  <2>5. CASE PauseStep
    BY <2>5, OthersStutter, PurgeGivesUp DEF PauseStep
  <2>6. CASE ThreadStep
    BY <2>6, OthersStutter, DequeueKeepsQueue, CopyTakesFirst, FlushTransmits
       DEF ThreadStep
  <2>7. CASE UsbCompletes
    BY <2>7, UsbStutters
  <2> QED BY <2>1, <2>2, <2>3, <2>4, <2>5, <2>6, <2>7 DEF Next
<1> QED BY <1>1, <1>2 DEF TransmitQueueOfAdapter!Next

\* The transmit path of the adapter keeps what TransmitQueue promises NDIS: the
\* net buffers leave in the order in which they were sent, each at most once,
\* and none that has been copied is taken back.
THEOREM AdapterImplementsQueue == Spec => ImplementsQueue
<1>1. Init => TransmitQueueOfAdapter!Init
  <2> SUFFICES ASSUME Init PROVE TransmitQueueOfAdapter!Init
    OBVIOUS
  <2>1. /\ TxPendingList = <<>> /\ QMAPFlowControlList = <<>> /\ wire = <<>>
        /\ UplinkFreeBufferQueue = [i \in 1 .. NumTLPBuffers |-> FreshItem]
        /\ NotCopied = <<>>
    BY DEF Init, Idle, NotCopied
  <2>2. NumTLPBuffers \in Nat \ {0}
    BY SizesAreNumbers
  <2>3. CopiedPackets = <<>>
    BY <2>1, <2>2 DEF CopiedPackets, FreshItem
  <2>4. Waiting = <<>>
    BY <2>1 DEF Waiting
  <2> QED BY <2>1, <2>3, <2>4 DEF TransmitQueueOfAdapter!Init
<1>2. /\ TypeInv /\ PlaceInv /\ TypeInv' /\ PlaceInv' /\ [Next]_vars
      => [TransmitQueueOfAdapter!Next]_(TransmitQueueOfAdapter!vars)
  BY StepQueue
<1> QED BY <1>1, <1>2, PlaceInvariant, PTL
        DEF Spec, ImplementsQueue, TransmitQueueOfAdapter!Spec

-----------------------------------------------------------------------------
(***************************************************************************)
(* What nBusyTx counts: the net buffers that are held and those that are   *)
(* still waited for, which are a finite set.                               *)
(***************************************************************************)
Awaited == Queued \ Completed
Open == AllHeld \cup Awaited

LEMMA SizeOfList ==
    ASSUME NEW l \in NBL
    PROVE  IsFiniteSet(NB(l)) /\ Cardinality(NB(l)) = NumNB[l]
<1>1. NumNB[l] \in Nat \ {0}
  BY SizesAreNumbers
<1>2. IsFiniteSet(1 .. NumNB[l]) /\ Cardinality(1 .. NumNB[l]) = NumNB[l]
  BY <1>1, FS_Interval, SMTT(30)
<1>3. IsFiniteSet({l}) /\ Cardinality({l}) = 1
  BY FS_Singleton
<1> DEFINE I == 1 .. NumNB[l]
           L == {l}
<1>4. IsFiniteSet(I) /\ Cardinality(I) = NumNB[l] /\ IsFiniteSet(L) /\ Cardinality(L) = 1
  BY <1>2, <1>3
<1> HIDE DEF I, L
<1>5. IsFiniteSet(L \X I) /\ Cardinality(L \X I) = Cardinality(L) * Cardinality(I)
  BY <1>4, FS_Product
<1>6. NB(l) = L \X I
  BY DEF NB, L, I
<1> QED BY <1>1, <1>4, <1>5, <1>6

LEMMA FiniteNBs == IsFiniteSet(NBs)
<1> DEFINE S == {NB(l) : l \in NBL}
           f == [l \in NBL |-> NB(l)]
<1>1. f \in Surjection(NBL, S)
  BY DEF Surjection
<1>2. IsFiniteSet(NBL)
  BY SizesAreNumbers
<1>3. \A T \in S : IsFiniteSet(T)
  BY SizeOfList
<1>4. NBs = UNION S
  BY DEF NBs
<1> HIDE DEF S, f
<1>5. IsFiniteSet(S)
  BY <1>1, <1>2, FS_Surjection
<1> QED BY <1>3, <1>4, <1>5, FS_UNION

\* What is held and not copied is waited for.
LEMMA HeldIsAwaited ==
    ASSUME TypeInv, PlaceInv, NEW nb \in AllHeld, ~Copied(nb)
    PROVE  nb \in Awaited
<1>1. HeldInv /\ nb \in NBs /\ ListOf(nb) \in NBL /\ nb \in NB(ListOf(nb))
  BY QueueTypes, NetBuffers DEF PlaceInv
<1>2. nb \notin Completed
  BY <1>1 DEF HeldInv
<1>3. ListInv(ListOf(nb))
  BY <1>1 DEF PlaceInv
<1>4. context[ListOf(nb)].phase # "returned"
  BY <1>1, <1>2, <1>3 DEF ListInv, Touched
<1> QED BY <1>1, <1>2, <1>4 DEF HeldInv, Awaited, Queued

OpenOK ==
    /\ Outstanding = Cardinality(Open) /\ IsFiniteSet(Open)
    /\ Cardinality(Open) \in Nat

LEMMA OutstandingIsOpen ==
    (TypeInv /\ PlaceInv => OpenOK) /\ (TypeInv' /\ PlaceInv' => OpenOK')
<1>1. TypeInv /\ PlaceInv => OpenOK
  <2> SUFFICES ASSUME TypeInv, PlaceInv PROVE OpenOK
    OBVIOUS
  <2>1. Held \in Seq(NBs) /\ ToSet(Held) = AllHeld /\ IsInjective(Held)
    BY HeldIs DEF PlaceInv
  <2>2. IsFiniteSet(AllHeld) /\ Cardinality(AllHeld) = Len(Held)
    BY <2>1, LengthIsSize
  <2>3. Forgotten = Awaited \ AllHeld
    <3>1. \A nb \in Awaited : nb \in AllHeld \/ context[ListOf(nb)].Canceld
      BY DEF PlaceInv, LostInv, Awaited
    <3> QED BY <2>1, <3>1 DEF Forgotten, Awaited
  <2>4. IsFiniteSet(Awaited)
    <3>1. Awaited \in SUBSET NBs
      BY DEF Awaited, Queued
    <3> QED BY <3>1, FiniteNBs, FS_Subset
  <2>5. IsFiniteSet(Forgotten)
    BY <2>3, <2>4, FS_Difference
  <2>6. Open = AllHeld \cup Forgotten /\ AllHeld \cap Forgotten = {}
    BY <2>3 DEF Open
  <2>7. /\ IsFiniteSet(AllHeld \cup Forgotten)
        /\ Cardinality(AllHeld \cup Forgotten)
             = Cardinality(AllHeld) + Cardinality(Forgotten)
                 - Cardinality(AllHeld \cap Forgotten)
    BY <2>2, <2>5, FS_Union
  <2>8. /\ Cardinality(AllHeld \cap Forgotten) = 0 /\ Cardinality(AllHeld) \in Nat
        /\ Cardinality(Forgotten) \in Nat
    BY <2>2, <2>5, <2>6, FS_EmptySet, FS_CardinalityType
  <2> QED BY <2>2, <2>6, <2>7, <2>8 DEF OpenOK, Outstanding
<1>2. TypeInv' /\ PlaceInv' => OpenOK'
  BY <1>1, PTL
<1> QED BY <1>1, <1>2

Counts == nBusyTx' - nBusyTx = Outstanding' - Outstanding

LEMMA SameCount ==
    ASSUME TypeInv, PlaceInv, TypeInv', PlaceInv', Open' = Open, nBusyTx' = nBusyTx
    PROVE  Counts
<1>1. /\ Outstanding = Cardinality(Open) /\ Outstanding' = Cardinality(Open')
      /\ Cardinality(Open) \in Nat /\ nBusyTx \in Int
  BY OutstandingIsOpen, TypeParts DEF OpenOK, Parts
<1> QED BY <1>1 DEF Counts

LEMMA OneLess ==
    ASSUME TypeInv, PlaceInv, TypeInv', PlaceInv', NEW nb \in Open,
           Open' = Open \ {nb}, nBusyTx' = nBusyTx - 1
    PROVE  Counts
<1>1. /\ Outstanding = Cardinality(Open) /\ Outstanding' = Cardinality(Open')
      /\ Cardinality(Open) \in Nat /\ IsFiniteSet(Open) /\ nBusyTx \in Int
  BY OutstandingIsOpen, TypeParts DEF OpenOK, Parts
<1>2. Cardinality(Open \ {nb}) = Cardinality(Open) - 1
  BY <1>1, FS_RemoveElement
<1> QED BY <1>1, <1>2 DEF Counts

\* A completion takes one net buffer out, whether its list is returned or not.
LEMMA ReturnCloses ==
    ASSUME TypeInv, PlaceInv, NEW nb \in AllHeld, AllHeld' = AllHeld \ {nb},
           Return({nb}, context)
    PROVE  Open' = Open \ {nb}
<1>1. \A l \in NBL : context[l] \in NblContext /\ context'[l] \in NblContext
  <2>1. {nb} \in SUBSET NBs /\ context \in [NBL -> NblContext] /\ Completed \subseteq NBs
    BY QueueTypes, TypeParts DEF Parts, ContextOK
  <2> QED BY <2>1, ReturnType
<1>2. Completed' = Completed \cup {nb}
  BY DEF Return
<1>3. ASSUME NEW x \in NBs, x \notin Completed'
      PROVE  context'[ListOf(x)].phase = context[ListOf(x)].phase
  <2>1. ListOf(x) \in NBL /\ x \in NB(ListOf(x))
    BY NetBuffers
  <2>2. ~AllMarked(ListOf(x), {nb})
    BY <1>2, <1>3, <2>1 DEF AllMarked
  <2> QED BY <2>1, <2>2 DEF Return
<1>4. Awaited' = Awaited \ {nb}
  BY <1>2, <1>3 DEF Awaited, Queued
<1> QED BY <1>4 DEF Open

LEMMA StillCounts ==
    ASSUME TypeInv, PlaceInv, TypeInv', PlaceInv', AllHeld' = AllHeld,
           Awaited' \subseteq Awaited, Awaited \ Awaited' \subseteq AllHeld,
           nBusyTx' = nBusyTx
    PROVE  Counts
<1>1. Open' = Open
  BY DEF Open
<1> QED BY <1>1, SameCount

LEMMA SamePhases ==
    ASSUME \A l \in NBL : context'[l].phase = context[l].phase, Completed' = Completed
    PROVE  Awaited' = Awaited
BY NetBuffers DEF Awaited, Queued

\* The steps that move no net buffer.
LEMMA StillSteps ==
    ASSUME TypeInv, PlaceInv, TypeInv', PlaceInv', pause' = pause,
           \/ \E l \in NBL : SendAllocates(l) \/ SendFails(l)
           \/ CancelSetsStatus \/ TakeTxEvent \/ TakeTimerEvent \/ SelfCheck \/ SendFull
           \/ StopProcessing \/ SetStatus \/ CopyPacket \/ Flush \/ TimerExpires
           \/ UsbCompletes \/ UNCHANGED vars
    PROVE  Counts
<1>1. thread \in ThreadType /\ ContextOK /\ CancelOK
  BY TypeParts DEF Parts, ThreadOK
<1>2. nBusyTx' = nBusyTx /\ UNCHANGED lists
  BY DEF SendAllocates, SendFails, CancelSetsStatus, TakeTxEvent, TakeTimerEvent, TakeEvent,
         SelfCheck, SendFull, StopProcessing, SetStatus, CopyPacket, Flush, TimerExpires,
         UsbCompletes, vars
<1>3. canceller'.queue = canceller.queue
  BY <1>1 DEF SendAllocates, SendFails, CancelSetsStatus, CancelOK, TakeTxEvent,
         TakeTimerEvent, TakeEvent, SelfCheck, SendFull, StopProcessing, SetStatus,
         CopyPacket, Flush, TimerExpires, UsbCompletes, vars
<1>4. thread'.nb = thread.nb
  <2>1. CASE SelfCheck \/ TimerExpires \/ UsbCompletes
    BY <1>1, <2>1, SignalThread DEF SelfCheck, TimerExpires, UsbCompletes
  <2>2. CASE StopProcessing
    BY <1>1, <2>2, WaitThread DEF StopProcessing
  <2>3. CASE Flush
    BY <1>1, <2>3, AfterFlushType DEF Flush
  <2>4. CASE \/ \E l \in NBL : SendAllocates(l) \/ SendFails(l)
             \/ CancelSetsStatus \/ UNCHANGED vars
    BY <2>4 DEF SendAllocates, SendFails, CancelSetsStatus, vars
  <2>5. CASE TakeTxEvent \/ TakeTimerEvent \/ SendFull \/ SetStatus \/ CopyPacket
    BY <1>1, <2>5 DEF TakeTxEvent, TakeTimerEvent, TakeEvent, Clear, SendFull, SetStatus,
                      CopyPacket, ThreadType
  <2> QED BY <2>1, <2>2, <2>3, <2>4, <2>5
<1>5. AllHeld' = AllHeld
  BY <1>2, <1>3, <1>4, Frames
<1>6. Awaited' \subseteq Awaited /\ Awaited \ Awaited' \subseteq AllHeld
  <2>1. CASE \E l \in NBL : SendAllocates(l) \/ SendFails(l)
    <3>1. PICK l \in NBL : SendAllocates(l) \/ SendFails(l)
      BY <2>1
    <3>2. context[l].phase = "new"
      BY <3>1 DEF PlaceInv, ListInv, SendAllocates, SendFails
    <3>3. context'[l].phase # "queued" /\ \A m \in NBL : m # l => context'[m] = context[m]
      <4>1. CASE SendFails(l)
        BY <1>1, <4>1 DEF SendFails, ContextOK, NblContext
      <4>2. CASE SendAllocates(l)
        <5> DEFINE starts == TxPendingList = <<>>
        <5> HIDE DEF starts
        <5>1. \E garbage \in BOOLEAN :
                context' = [context EXCEPT ![l].phase = "allocated", ![l].Canceld = garbage,
                                           ![l].startTx = starts]
          BY <4>2 DEF SendAllocates, starts
        <5> QED BY <1>1, <5>1 DEF ContextOK, NblContext
      <4> QED BY <3>1, <4>1, <4>2
    <3>4. Completed' = Completed
      BY <3>1 DEF SendAllocates, SendFails
    <3>5. Awaited' = Awaited
      BY <3>2, <3>3, <3>4, NetBuffers DEF Awaited, Queued
    <3> QED BY <3>5
  <2>2. CASE CopyPacket
    <3>1. context' = context /\ thread.nb \in AllHeld
          /\ (Completed' = Completed \/ Completed' = Completed \cup {thread.nb})
      BY <1>1, <2>2, TypeParts
         DEF CopyPacket, Parts, ThreadOK, HandOK, AllHeld, Hand
    <3>2. Queued' = Queued
      BY <3>1 DEF Queued
    <3> QED BY <3>1, <3>2 DEF Awaited
  <2>3. CASE SetStatus \/ CancelSetsStatus
    <3>1. \A l \in NBL : context'[l].phase = context[l].phase
      <4>1. CASE UNCHANGED context
        BY <4>1
      <4>2. CASE \E S, status : context' = WithStatus(S, status)
        BY <1>1, <4>2, StatusSame DEF ContextOK, SameList
      <4> QED BY <2>3, <4>1, <4>2 DEF SetStatus, CancelSetsStatus
    <3>2. Completed' = Completed
      BY <2>3 DEF SetStatus, CancelSetsStatus
    <3> QED BY <3>1, <3>2, SamePhases
  <2>4. CASE \/ TakeTxEvent \/ TakeTimerEvent \/ SelfCheck \/ SendFull
             \/ StopProcessing \/ Flush \/ TimerExpires \/ UsbCompletes \/ UNCHANGED vars
    <3>1. UNCHANGED <<context, Completed>>
      BY <2>4 DEF TakeTxEvent, TakeTimerEvent, TakeEvent, SelfCheck, SendFull,
                  StopProcessing, Flush, TimerExpires, UsbCompletes, vars
    <3> QED BY <3>1, SamePhases
  <2> QED BY <2>1, <2>2, <2>3, <2>4
<1> QED BY <1>2, <1>5, <1>6, StillCounts

LEMMA QueueCounts ==
    ASSUME TypeInv, PlaceInv, TypeInv', PlaceInv', NEW l \in NBL, SendQueues(l)
    PROVE  Counts
<1>1. /\ ContextOK /\ context[l].phase = "allocated" /\ Completed' = Completed
      /\ nBusyTx' = nBusyTx + NumNB[l] /\ nBusyTx \in Int
  BY TypeParts DEF Parts, SendQueues
<1>2. AllHeld' = AllHeld \cup NB(l)
  BY QueuePlaces
<1>3. /\ \A m \in NBL : m # l => context'[m] = context[m]
      /\ context'[l].phase = "queued"
  BY <1>1 DEF SendQueues, ContextOK, NblContext
<1>4. NB(l) \cap AllHeld = {} /\ NB(l) \cap Completed = {} /\ NB(l) \subseteq NBs
  BY <1>1, NetBuffers DEF PlaceInv, ListInv, Touched
<1>5. Awaited' = Awaited \cup NB(l) /\ NB(l) \cap Awaited = {}
  <2>1. \A nb \in NBs : /\ ListOf(nb) \in NBL /\ nb \in NB(ListOf(nb))
                        /\ nb \in NB(l) <=> ListOf(nb) = l
    BY NetBuffers
  <2> QED BY <1>1, <1>3, <1>4, <2>1 DEF Awaited, Queued
<1>6. Open' = Open \cup NB(l) /\ Open \cap NB(l) = {}
  BY <1>2, <1>4, <1>5 DEF Open
<1>7. /\ Outstanding = Cardinality(Open) /\ Outstanding' = Cardinality(Open')
      /\ Cardinality(Open) \in Nat /\ IsFiniteSet(Open)
  BY OutstandingIsOpen DEF OpenOK
<1>8. /\ Cardinality(Open \cup NB(l))
           = Cardinality(Open) + Cardinality(NB(l)) - Cardinality(Open \cap NB(l))
      /\ Cardinality(NB(l)) = NumNB[l] /\ NumNB[l] \in Nat
  BY <1>7, SizeOfList, FS_Union, NetBuffers
<1>9. Cardinality(Open \cap NB(l)) = 0
  BY <1>6, FS_EmptySet
<1> QED BY <1>1, <1>6, <1>7, <1>8, <1>9 DEF Counts

\* What CancelSend takes off was waited for, and still is.
LEMMA CancelCounts ==
    ASSUME TypeInv, PlaceInv, TypeInv', PlaceInv', NEW id, CancelSend(id)
    PROVE  Counts
<1>1. ContextOK /\ Completed' = Completed /\ nBusyTx' = nBusyTx
  BY TypeParts DEF Parts, CancelSend
<1>2. AllHeld' \subseteq AllHeld /\ AllHeld \ AllHeld' \subseteq Pending
  BY CancelPlaces
<1>3. Pending \subseteq Awaited
  <2> SUFFICES ASSUME NEW nb \in Pending PROVE nb \in Awaited
    OBVIOUS
  <2>1. nb \in AllHeld /\ nb \notin Hand
    BY DEF AllHeld, PlaceInv, Apart
  <2>2. nb \in NBs /\ nb # None
    BY <2>1, QueueTypes, NetBuffers
  <2>3. ~Copied(nb)
    BY <2>1, <2>2 DEF Copied, Hand
  <2> QED BY <2>1, <2>3, HeldIsAwaited
<1>4. \A l \in NBL : context'[l].phase = context[l].phase
  <2> DEFINE T == ToSet(ForCancelQueue(id))
  <2>1. context' = [l \in NBL |-> IF \E nb \in T : ListOf(nb) = l
                                  THEN [context[l] EXCEPT !.Canceld = TRUE]
                                  ELSE context[l]]
    BY DEF CancelSend
  <2> HIDE DEF T
  <2> QED BY <1>1, <2>1 DEF ContextOK, NblContext
<1>5. Awaited' = Awaited
  BY <1>1, <1>4, SamePhases
<1>6. Open' = Open
  BY <1>2, <1>3, <1>5 DEF Open
<1> QED BY <1>1, <1>6, SameCount

LEMMA MoveCounts ==
    ASSUME TypeInv, PlaceInv, TypeInv', PlaceInv',
           Dequeue \/ \E FlowControlled \in BOOLEAN : FlowControlCall(FlowControlled)
    PROVE  Counts
<1>1. AllHeld' = AllHeld
  <2>1. CASE Dequeue
    BY <2>1, DequeuePlaces
  <2>2. CASE \E FlowControlled \in BOOLEAN : FlowControlCall(FlowControlled)
    BY <2>2, FlowPlaces
  <2> QED BY <2>1, <2>2
<1>2. UNCHANGED <<context, Completed, nBusyTx>>
  BY DEF Dequeue, FlowControlCall
<1>3. Awaited' = Awaited
  BY <1>2, SamePhases
<1> QED BY <1>1, <1>2, <1>3, StillCounts

LEMMA CompleteCounts ==
    ASSUME TypeInv, PlaceInv, TypeInv', PlaceInv', Complete
    PROVE  Counts
<1> DEFINE nb == thread.nb
<1>1. AllHeld' = AllHeld \ {nb} /\ nb \in AllHeld
  BY CompletePlaces
<1>2. nBusyTx' = nBusyTx - 1
  <2>1. nBusyTx' = CountedOff({nb})
    BY DEF Complete
  <2> HIDE DEF nb
  <2> QED BY <2>1, CountedOffOne
<1>3. \/ Return({nb}, context)
      \/ context[ListOf(nb)].phase = "returned" /\ UNCHANGED <<context, Completed>>
  BY DEF Complete
<1>4. nb \in Open
  BY <1>1 DEF Open
<1> HIDE DEF nb
<1>5. CASE Return({nb}, context)
  BY <1>1, <1>2, <1>4, <1>5, ReturnCloses, OneLess
<1>6. CASE context[ListOf(nb)].phase = "returned" /\ UNCHANGED <<context, Completed>>
  <2>1. Awaited' = Awaited
    BY <1>6, SamePhases
  <2>2. nb \notin Awaited
    BY <1>6 DEF Awaited, Queued
  <2>3. Open' = Open \ {nb}
    BY <1>1, <2>1, <2>2 DEF Open
  <2> QED BY <1>2, <1>4, <2>3, OneLess
<1> QED BY <1>3, <1>5, <1>6

LEMMA CancelCompletesCounts ==
    ASSUME TypeInv, PlaceInv, TypeInv', PlaceInv', CancelCompletes
    PROVE  Counts
<1> DEFINE nb == Head(canceller.queue)
<1>1. AllHeld' = AllHeld \ {nb} /\ nb \in AllHeld
  BY CancelCompletesPlaces DEF AllHeld
<1>2. Return({nb}, context) /\ nBusyTx' = CountedOff({nb})
  BY DEF CancelCompletes
<1> HIDE DEF nb
<1>3. nBusyTx' = nBusyTx - 1
  BY <1>2, CountedOffOne
<1>4. nb \in Open
  BY <1>1 DEF Open
<1> QED BY <1>1, <1>2, <1>3, <1>4, ReturnCloses, OneLess

LEMMA StepCounts ==
    ASSUME TypeInv, PlaceInv, TypeInv', PlaceInv', [Next]_vars, pause' = pause
    PROVE  Counts
<1>1. CASE Send
  BY <1>1, StillSteps DEF Send
<1>2. CASE Queue
  BY <1>2, QueueCounts DEF Queue
<1>3. CASE Cancel
  BY <1>3, CancelCounts DEF Cancel
<1>4. CASE CancelStep
  BY <1>4, StillSteps, CancelCompletesCounts DEF CancelStep
<1>5. CASE FlowControl
  BY <1>5, MoveCounts DEF FlowControl
<1>6. CASE Pause \/ PauseStep \/ Restart
  <2>1. pause' # pause
    BY <1>6 DEF Pause, PauseStep, PausePurgesFlow, PauseLooks, PauseCleansUp, PauseEnds,
                Restart
  <2> QED BY <2>1
<1>7. CASE ThreadStep
  BY <1>7, StillSteps, MoveCounts, CompleteCounts DEF ThreadStep
<1>8. CASE TimerExpires \/ UsbCompletes \/ UNCHANGED vars
  BY <1>8, StillSteps
<1> QED BY <1>1, <1>2, <1>3, <1>4, <1>5, <1>6, <1>7, <1>8 DEF Next

\* Whatever is not a step of a pause changes nBusyTx by what it changes in the
\* number of net buffers on their way: those in a place, and those CancelSend
\* has forgotten.
THEOREM BusyCountFollows == Spec => CountFollows
<1>1. /\ TypeInv /\ PlaceInv /\ TypeInv' /\ PlaceInv' /\ [Next]_vars
      => [pause' = pause => nBusyTx' - nBusyTx = Outstanding' - Outstanding]_vars
  BY StepCounts DEF Counts
<1> QED BY <1>1, PlaceInvariant, PTL DEF Spec, CountFollows

-----------------------------------------------------------------------------
(***************************************************************************)
(* The status of a list that one net buffer decides on.  With version 1    *)
(* of QMAP the test of the room counts the header that the copy adds, so   *)
(* that what passes the test is copied.                                    *)
(***************************************************************************)
Only(l) == <<l, 1>>
Single(l) == NumNB[l] = 1 /\ NB(l) \cap Unreadable = {}

RoomInv ==
    thread.pc = "packet" =>
        Head(UplinkFreeBufferQueue).RemainingCapacity > SizeOf(thread.nb) + TestedHeader

StatusInv(l) ==
    /\ context[l].phase = "returned" =>
          (context[l].Status = "SUCCESS" <=> Only(l) \in Sent)
    /\ thread.nb = Only(l) /\ thread.pc = "status" => Only(l) \in Sent
    /\ thread.nb = Only(l) /\ thread.pc = "complete" =>
          (context[l].NdisStatus = "SUCCESS" <=> Only(l) \in Sent)
    /\ canceller.pc = "complete" /\ Head(canceller.queue) = Only(l) =>
          context[l].NdisStatus # "SUCCESS"

FateInv == RoomInv /\ \A l \in NBL : Single(l) => StatusInv(l)

LEMMA OnlyOne ==
    ASSUME NEW l \in NBL, Single(l)
    PROVE  /\ NB(l) = {Only(l)} /\ Only(l) \in NBs /\ ListOf(Only(l)) = l
           /\ Only(l) \notin Unreadable /\ Only(l) # None
           /\ \A nb \in NBs : ListOf(nb) = l => nb = Only(l)
<1>1. NB(l) = {Only(l)}
  BY DEF NB, Only, Single
<1>2. Only(l) \in NBs /\ ListOf(Only(l)) = l /\ Only(l) # None
  BY <1>1, NetBuffers
<1>3. Only(l) \notin Unreadable
  BY <1>1 DEF Single
<1>4. \A nb \in NBs : ListOf(nb) = l => nb = Only(l)
  BY <1>1, NetBuffers
<1> QED BY <1>1, <1>2, <1>3, <1>4

\* Steps that neither copy nor decide on a status.
LEMMA StatusKept ==
    ASSUME NEW l, StatusInv(l), Sent' = Sent,
           context'[l].NdisStatus = context[l].NdisStatus,
           context'[l].phase = "returned" =>
              context[l].phase = "returned" /\ context'[l].Status = context[l].Status,
           thread'.pc \in {"status", "complete"} =>
              thread'.pc = thread.pc /\ thread'.nb = thread.nb,
           canceller'.pc = "complete" => canceller' = canceller
    PROVE  StatusInv(l)'
BY DEF StatusInv, Only

\* What is held and not copied has not been sent.
LEMMA HeldIsNotSent ==
    ASSUME TypeInv, PlaceInv, NEW nb \in AllHeld, ~Copied(nb)
    PROVE  nb \notin Sent
BY DEF PlaceInv, HeldInv

LEMMA OthersHeld ==
    ASSUME TypeInv, PlaceInv, NEW nb \in Cancelled \cup Pending \cup Stopped
    PROVE  ~Copied(nb) /\ nb \notin Sent /\ nb # thread.nb /\ nb \in Awaited /\ nb \in NBs
<1>1. nb \in AllHeld /\ nb \notin Hand
  BY DEF PlaceInv, Apart, AllHeld
<1>2. nb \in NBs /\ nb # None
  BY <1>1, QueueTypes, NetBuffers
<1>3. nb # thread.nb
  BY <1>1, <1>2 DEF Hand
<1>4. ~Copied(nb)
  BY <1>3 DEF Copied
<1> QED BY <1>1, <1>2, <1>3, <1>4, HeldIsNotSent, HeldIsAwaited

\* The context of a list and the thread's program counter, field by field.
SameStatus(l) ==
    /\ context'[l].NdisStatus = context[l].NdisStatus
    /\ context'[l].phase = "returned" =>
          context[l].phase = "returned" /\ context'[l].Status = context[l].Status

LEMMA WalkFates ==
    ASSUME TypeInv, PlaceInv, FateInv,
           \/ CancelSetsStatus /\ canceller.queue = <<>>
           \/ \E FlowControlled \in BOOLEAN : FlowControlCall(FlowControlled)
           \/ Pause \/ PauseLooks \/ PauseEnds \/ Restart
           \/ TakeTxEvent \/ TakeTimerEvent \/ SelfCheck \/ SendFull \/ StopProcessing
           \/ TimerExpires \/ UNCHANGED vars
    PROVE  FateInv'
<1>1. thread \in ThreadType /\ CancelOK
  BY TypeParts DEF Parts, ThreadOK
<1>2. context' = context /\ UNCHANGED <<UplinkFreeBufferQueue, wire>>
  BY DEF CancelSetsStatus, FlowControlCall, Pause, PauseLooks, PauseEnds, Restart,
         TakeTxEvent, TakeTimerEvent, TakeEvent, SelfCheck, SendFull, StopProcessing,
         TimerExpires, vars, buffers
<1>3. canceller'.pc = "complete" => canceller' = canceller
  BY <1>1 DEF CancelSetsStatus, CancelOK, FlowControlCall, Pause, PauseLooks, PauseEnds,
         Restart, TakeTxEvent, TakeTimerEvent, TakeEvent, SelfCheck, SendFull,
         StopProcessing, TimerExpires, vars
<1>4. thread'.pc \in {"packet", "status", "complete"} =>
        thread'.pc = thread.pc /\ thread'.nb = thread.nb
  <2>1. CASE \/ SelfCheck \/ TimerExpires
             \/ \E FlowControlled \in BOOLEAN : FlowControlCall(FlowControlled)
    <3>1. \E e \in {"tx", "timer"} : thread' = Signal(thread, e)
      BY <2>1 DEF SelfCheck, TimerExpires, FlowControlCall
    <3> QED BY <1>1, <3>1, SignalThread
  <2>2. CASE StopProcessing
    BY <1>1, <2>2, WaitThread DEF StopProcessing
  <2>3. CASE TakeTxEvent \/ TakeTimerEvent \/ SendFull
    BY <1>1, <2>3 DEF TakeTxEvent, TakeTimerEvent, TakeEvent, Clear, SendFull, ThreadType
  <2>4. CASE \/ CancelSetsStatus \/ Pause \/ PauseLooks \/ PauseEnds \/ Restart
             \/ UNCHANGED vars
    BY <2>4 DEF CancelSetsStatus, Pause, PauseLooks, PauseEnds, Restart, vars
  <2> QED BY <2>1, <2>2, <2>3, <2>4
<1>5. Sent' = Sent
  BY <1>2, Frames
<1>6. RoomInv'
  BY <1>2, <1>4 DEF FateInv, RoomInv, SizeOf
<1>7. ASSUME NEW l \in NBL, Single(l) PROVE StatusInv(l)'
  <2>1. StatusInv(l)
    BY <1>7 DEF FateInv
  <2> QED BY <1>2, <1>3, <1>4, <1>5, <2>1, StatusKept
<1> QED BY <1>6, <1>7 DEF FateInv, Single

LEMMA BufferFates ==
    ASSUME TypeInv, PlaceInv, TypeInv', FateInv, UsbCompletes \/ Flush
    PROVE  FateInv'
<1>1. thread \in ThreadType /\ BuffersOK /\ UplinkFreeBufferQueue \in Seq(Item)
  BY TypeParts, Zenon DEF Parts, ThreadOK, BuffersOK
<1>2. context' = context /\ canceller' = canceller
  BY DEF UsbCompletes, Flush
<1>3. CASE UsbCompletes
  <2>1. /\ thread'.nb = thread.nb
        /\ thread'.pc \in {"packet", "status", "complete"} => thread'.pc = thread.pc
    BY <1>1, <1>3, SignalThread DEF UsbCompletes
  <2>2. Sent' = Sent
    BY <1>3, UsbCopied DEF UsbCompletes, Sent
  <2>3. RoomInv'
    <3>1. thread.pc = "packet" => UplinkFreeBufferQueue # <<>>
      BY TypeParts DEF Parts, ThreadOK, HandOK
    <3>2. UplinkFreeBufferQueue # <<>> =>
            Head(UplinkFreeBufferQueue') = Head(UplinkFreeBufferQueue)
      BY <1>1, <1>3, UsbCopied
    <3> QED BY <2>1, <3>1, <3>2 DEF FateInv, RoomInv, SizeOf
  <2>4. ASSUME NEW l \in NBL, Single(l) PROVE StatusInv(l)'
    <3>1. StatusInv(l)
      BY <2>4 DEF FateInv
    <3> QED BY <1>2, <2>1, <2>2, <3>1, StatusKept
  <2> QED BY <2>3, <2>4 DEF FateInv, Single
<1>4. CASE Flush
  <2>1. thread'.pc \notin {"packet", "status", "complete"}
    BY <1>1, <1>4, AfterFlushType DEF Flush
  <2>2. Sent' = Sent
    BY <1>4, FlushPlaces
  <2>3. RoomInv'
    BY <2>1 DEF RoomInv
  <2>4. ASSUME NEW l \in NBL, Single(l) PROVE StatusInv(l)'
    <3>1. StatusInv(l)
      BY <2>4 DEF FateInv
    <3> QED BY <1>2, <2>1, <2>2, <3>1, StatusKept
  <2> QED BY <2>3, <2>4 DEF FateInv, Single
<1> QED BY <1>3, <1>4

LEMMA DequeueFates == ASSUME TypeInv, PlaceInv, FateInv, Dequeue PROVE FateInv'
<1>1. thread \in ThreadType /\ BuffersOK /\ TxPendingList \in Seq(NBs)
  BY TypeParts, QueueTypes DEF Parts, ThreadOK
<1>2. /\ context' = context /\ canceller' = canceller
      /\ UNCHANGED <<UplinkFreeBufferQueue, wire>>
      /\ TxPendingList # <<>> /\ UplinkFreeBufferQueue # <<>>
      /\ AggregationAvailable(Head(TxPendingList)) = "MORE"
      /\ thread'.pc \in {"packet", "refused"} /\ thread'.nb = Head(TxPendingList)
  BY <1>1 DEF Dequeue, Processing, AggregationAvailable, ThreadType, buffers
<1>3. Sent' = Sent
  BY <1>2, Frames
<1>4. RoomInv'
  <2>1. Head(TxPendingList) \in NBs
    BY <1>1, <1>2, HeadAndTail
  <2>2. /\ SizeOf(Head(TxPendingList)) \in Nat /\ TestedHeader \in {0, 1}
        /\ Head(UplinkFreeBufferQueue).RemainingCapacity \in Nat
    BY <1>1, <1>2, <2>1, SizeType, BufferTypes
  <2>3. ~(Head(UplinkFreeBufferQueue).RemainingCapacity
            <= SizeOf(Head(TxPendingList)) + TestedHeader)
    BY <1>2 DEF AggregationAvailable
  <2> QED BY <1>2, <2>2, <2>3 DEF RoomInv, SizeOf
<1>5. ASSUME NEW l \in NBL, Single(l) PROVE StatusInv(l)'
  <2>1. StatusInv(l)
    BY <1>5 DEF FateInv
  <2> QED BY <1>2, <1>3, <2>1, StatusKept
<1> QED BY <1>4, <1>5 DEF FateInv, Single

\* The sending and the cancelling threads: no list is returned but for want of
\* memory.
LEMMA SendFates ==
    ASSUME TypeInv, PlaceInv, FateInv,
           \/ \E l \in NBL : SendAllocates(l) \/ SendFails(l) \/ SendQueues(l)
           \/ \E id : CancelSend(id)
    PROVE  FateInv'
<1>1. thread \in ThreadType /\ ContextOK
  BY TypeParts DEF Parts, ThreadOK
<1>2. UNCHANGED <<UplinkFreeBufferQueue, wire>>
  BY DEF SendAllocates, SendFails, SendQueues, CancelSend, buffers
<1>3. canceller'.pc = "complete" => canceller' = canceller
  <2>1. CASE \E l \in NBL : SendAllocates(l) \/ SendFails(l) \/ SendQueues(l)
    BY <2>1 DEF SendAllocates, SendFails, SendQueues
  <2>2. CASE \E id : CancelSend(id)
    <3>1. PICK id : canceller' = [pc |-> "status", queue |-> ForCancelQueue(id)]
      BY <2>2 DEF CancelSend
    <3> QED BY <3>1
  <2> QED BY <2>1, <2>2
<1>4. thread'.nb = thread.nb
      /\ (thread'.pc \in {"packet", "status", "complete"} => thread'.pc = thread.pc)
  <2>1. CASE \E l \in NBL : SendQueues(l)
    <3>1. PICK l \in NBL : SendQueues(l)
      BY <2>1
    <3> DEFINE starts == context[l].startTx
    <3>2. thread' = IF starts THEN Signal(thread, "tx") ELSE thread
      BY <3>1 DEF SendQueues
    <3> HIDE DEF starts
    <3>3. thread' = thread \/ thread' = Signal(thread, "tx")
      BY <3>2
    <3> QED BY <1>1, <3>3, SignalThread
  <2>2. CASE thread' = thread
    BY <2>2
  <2> QED BY <2>1, <2>2 DEF SendAllocates, SendFails, CancelSend
<1>5. Sent' = Sent
  BY <1>2, Frames
<1>6. RoomInv'
  BY <1>2, <1>4 DEF FateInv, RoomInv, SizeOf
<1>7. ASSUME NEW l \in NBL, Single(l) PROVE StatusInv(l)'
  <2>1. StatusInv(l)
    BY <1>7 DEF FateInv
  <2>2. CASE SendFails(l)
    <3>1. ~Touched(l)
      BY <2>2 DEF PlaceInv, ListInv, SendFails
    <3>2. Only(l) \notin Sent
      BY <1>7, <3>1, OnlyOne DEF Touched
    <3>3. /\ context'[l].NdisStatus = context[l].NdisStatus
          /\ context'[l].Status # "SUCCESS"
      BY <1>1, <2>2 DEF SendFails, ContextOK, NblContext
    <3> QED BY <1>3, <1>4, <1>5, <2>1, <3>2, <3>3 DEF StatusInv, Only
  <2>3. CASE ~SendFails(l)
    <3>1. SameStatus(l)
      <4>1. CASE \E m \in NBL : SendFails(m)
        BY <1>1, <2>3, <4>1 DEF SendFails, ContextOK, NblContext, SameStatus
      <4>2. CASE \E m \in NBL : SendAllocates(m)
        <5>1. PICK m \in NBL : SendAllocates(m)
          BY <4>2
        <5> DEFINE starts == TxPendingList = <<>>
        <5> HIDE DEF starts
        <5>2. \E garbage \in BOOLEAN :
                context' = [context EXCEPT ![m].phase = "allocated", ![m].Canceld = garbage,
                                           ![m].startTx = starts]
          BY <5>1 DEF SendAllocates, starts
        <5> QED BY <1>1, <5>2 DEF ContextOK, NblContext, SameStatus
      <4>3. CASE \E m \in NBL : SendQueues(m)
        <5>1. PICK m \in NBL : context' = [context EXCEPT ![m].phase = "queued"]
          BY <4>3 DEF SendQueues
        <5> QED BY <1>1, <5>1 DEF ContextOK, NblContext, SameStatus
      <4>4. CASE \E id : CancelSend(id)
        <5>1. PICK id : CancelSend(id)
          BY <4>4
        <5> DEFINE T == ToSet(ForCancelQueue(id))
        <5>2. context' = [m \in NBL |-> IF \E nb \in T : ListOf(nb) = m
                                        THEN [context[m] EXCEPT !.Canceld = TRUE]
                                        ELSE context[m]]
          BY <5>1 DEF CancelSend
        <5> HIDE DEF T
        <5> QED BY <1>1, <5>2 DEF ContextOK, NblContext, SameStatus
      <4> QED BY <4>1, <4>2, <4>3, <4>4
    <3> QED BY <1>3, <1>4, <1>5, <2>1, <3>1, StatusKept DEF SameStatus
  <2> QED BY <2>2, <2>3
<1> QED BY <1>6, <1>7 DEF FateInv, Single

\* A net buffer that decides alone is held only while its list is out.
LEMMA HeldSingle ==
    ASSUME TypeInv, PlaceInv, NEW l \in NBL, Single(l), Only(l) \in AllHeld
    PROVE  context[l].phase = "queued"
<1>1. /\ Only(l) \in NB(l) /\ NB(l) = {Only(l)} /\ ListOf(Only(l)) = l
      /\ Only(l) \notin Unreadable
  BY OnlyOne
<1>2. Only(l) \notin Completed /\ context[l].phase \in {"queued", "returned"}
  BY <1>1 DEF PlaceInv, HeldInv
<1>3. Touched(l)
  BY <1>1 DEF Touched
<1>4. ListInv(l)
  BY DEF PlaceInv
<1> QED BY <1>1, <1>2, <1>3, <1>4 DEF ListInv

LEMMA StatusOfSingle ==
    ASSUME ContextOK, NEW S \in SUBSET NBs, NEW status \in Statuses,
           NEW l \in NBL, Single(l)
    PROVE  LET ctx == WithStatus(S, status)
           IN  /\ ctx \in [NBL -> NblContext] /\ ctx[l].phase = context[l].phase
               /\ ctx[l].Status = context[l].Status
               /\ Only(l) \in S => ctx[l].NdisStatus = status
               /\ Only(l) \notin S => ctx[l].NdisStatus = context[l].NdisStatus
<1> DEFINE ctx == WithStatus(S, status)
<1>1. /\ ctx \in [NBL -> NblContext]
      /\ ctx[l] = IF \E nb \in S : ListOf(nb) = l
                  THEN [context[l] EXCEPT !.NdisStatus = status] ELSE context[l]
  BY StatusType DEF ContextOK
<1>2. (\E nb \in S : ListOf(nb) = l) <=> Only(l) \in S
  BY OnlyOne
<1>3. context[l] \in NblContext
  BY DEF ContextOK
<1> HIDE DEF ctx
<1>4. /\ ctx \in [NBL -> NblContext] /\ ctx[l].phase = context[l].phase
      /\ ctx[l].Status = context[l].Status
      /\ Only(l) \in S => ctx[l].NdisStatus = status
      /\ Only(l) \notin S => ctx[l].NdisStatus = context[l].NdisStatus
  BY <1>1, <1>2, <1>3 DEF NblContext
<1> QED BY <1>4 DEF ctx

LEMMA ReturnOfSingle ==
    ASSUME NEW S \in SUBSET NBs, NEW ctx \in [NBL -> NblContext], Return(S, ctx),
           NEW l \in NBL, Single(l)
    PROVE  /\ context'[l].NdisStatus = ctx[l].NdisStatus
           /\ Only(l) \in S => context'[l].Status = ctx[l].NdisStatus
           /\ Only(l) \notin S => context'[l] = ctx[l]
<1> DEFINE returned == (\E nb \in S : ListOf(nb) = l) /\ AllMarked(l, S)
<1>1. context'[l] = IF returned
                    THEN [ctx[l] EXCEPT !.phase = "returned",
                              !.Status = ctx[l].NdisStatus, !.completions = @ + 1]
                    ELSE ctx[l]
  BY DEF Return
<1>2. returned <=> Only(l) \in S
  BY OnlyOne DEF AllMarked
<1>3. ctx[l] \in NblContext
  OBVIOUS
<1> HIDE DEF returned
<1> QED BY <1>1, <1>2, <1>3 DEF NblContext

LEMMA CopyFates ==
    ASSUME TypeInv, PlaceInv, TypeInv', FateInv, CopyPacket, ~QMAPEnabledV4
    PROVE  FateInv'
<1>1. thread \in ThreadType /\ thread.pc = "packet"
  BY TypeParts DEF Parts, ThreadOK, CopyPacket
<1>2. /\ context' = context /\ canceller' = canceller
      /\ thread'.pc = "status" /\ thread'.nb = thread.nb
  BY <1>1 DEF CopyPacket, ThreadType
<1>3. /\ Sent' = Sent \cup {thread.nb} \/ (Sent' = Sent /\ ~Copyable)
      /\ thread.nb \in Hand
  BY CopyPlaces
<1>4. thread.nb \notin Unreadable => Copyable
  <2>1. Header = TestedHeader
    BY DEF Header, TestedHeader
  <2> QED BY <1>1, <2>1 DEF FateInv, RoomInv, Copyable
<1>5. ASSUME NEW l \in NBL, Single(l) PROVE StatusInv(l)'
  <2>1. StatusInv(l) /\ Only(l) \notin Unreadable
    BY <1>5, OnlyOne DEF FateInv
  <2>2. CASE thread.nb = Only(l)
    <3>1. Only(l) \in Sent'
      BY <1>3, <1>4, <2>1, <2>2
    <3>2. context[l].phase = "queued"
      BY <1>3, <1>5, <2>2, HeldSingle DEF AllHeld
    <3> QED BY <1>2, <2>1, <3>1, <3>2 DEF StatusInv, Only
  <2>3. CASE thread.nb # Only(l)
    <3>1. Only(l) \in Sent' <=> Only(l) \in Sent
      BY <1>3, <2>3
    <3> QED BY <1>2, <2>1, <2>3, <3>1 DEF StatusInv, Only
  <2> QED BY <2>2, <2>3
<1>6. RoomInv'
  BY <1>2 DEF RoomInv
<1> QED BY <1>5, <1>6 DEF FateInv, Single

LEMMA InHandOnly ==
    ASSUME TypeInv, PlaceInv, thread.nb # None
    PROVE  /\ thread.nb \in NBs /\ thread.nb \in Hand /\ thread.nb \in AllHeld
           /\ thread.nb \notin Cancelled
<1>1. thread.nb \in NBs
  BY TypeParts DEF Parts, ThreadOK, ThreadType
<1>2. thread.nb \in Hand /\ thread.nb \in AllHeld
  BY DEF Hand, AllHeld
<1> QED BY <1>1, <1>2 DEF PlaceInv, Apart

LEMMA CancelledHead ==
    ASSUME TypeInv, PlaceInv, canceller.queue # <<>>
    PROVE  /\ Head(canceller.queue) \in Cancelled /\ Head(canceller.queue) \in NBs
           /\ Head(canceller.queue) # thread.nb
<1> DEFINE q == canceller.queue
<1>1. q \in Seq(NBs) /\ q # <<>> /\ Cancelled = ToSet(q) /\ Cancelled \subseteq NBs
  BY QueueTypes DEF Cancelled
<1>2. Head(q) \in Cancelled /\ Head(q) \in NBs
  <2> HIDE DEF q
  <2>1. ToSet(q) = {Head(q)} \cup ToSet(Tail(q))
    BY <1>1, HeadAndTail
  <2> QED BY <1>1, <2>1
<1> QED BY <1>2, OthersHeld

LEMMA SetStatusFates ==
    ASSUME TypeInv, PlaceInv, FateInv, SetStatus
    PROVE  FateInv'
<1> DEFINE nb == thread.nb
           status == IF thread.pc = "status" THEN "SUCCESS" ELSE "FAILURE"
<1>1. thread \in ThreadType /\ ContextOK /\ HandOK /\ CancelOK
  BY TypeParts DEF Parts, ThreadOK
<1>2. /\ context' = WithStatus({nb}, status) /\ canceller' = canceller
      /\ thread'.pc = "complete" /\ thread'.nb = nb
      /\ thread.pc \in {"status", "refused"} /\ UNCHANGED buffers
  BY <1>1 DEF SetStatus, ThreadType
<1>3. nb # None
  BY <1>1, <1>2 DEF HandOK
<1>4. /\ nb \in NBs /\ nb \in AllHeld /\ nb \notin Cancelled
      /\ Sent' = Sent /\ status \in Statuses
  BY <1>2, <1>3, InHandOnly, Frames DEF Statuses
<1>5. thread.pc = "refused" => nb \notin Sent
  BY <1>4, HeldIsNotSent DEF Copied
<1>6. (status = "SUCCESS") <=> (thread.pc = "status")
  OBVIOUS
<1> HIDE DEF status, nb
<1>7. ASSUME NEW l \in NBL, Single(l) PROVE StatusInv(l)'
  <2>1. StatusInv(l)
    BY <1>7 DEF FateInv
  <2>2. /\ context'[l].phase = context[l].phase
        /\ context'[l].Status = context[l].Status
        /\ Only(l) = nb => context'[l].NdisStatus = status
        /\ Only(l) # nb => context'[l].NdisStatus = context[l].NdisStatus
    BY <1>1, <1>2, <1>4, <1>7, StatusOfSingle
  <2>3. CASE nb = Only(l)
    <3>1. status = "SUCCESS" <=> Only(l) \in Sent
      BY <1>2, <1>5, <1>6, <2>1, <2>3 DEF StatusInv, nb
    <3>2. canceller.pc = "complete" => Head(canceller.queue) # Only(l)
      BY <1>1, <2>3, CancelledHead DEF CancelOK, CancellerOK, nb
    <3> QED BY <1>2, <1>4, <2>1, <2>2, <2>3, <3>1, <3>2 DEF StatusInv, Only
  <2>4. CASE nb # Only(l)
    BY <1>2, <1>4, <2>1, <2>2, <2>4 DEF StatusInv, Only
  <2> QED BY <2>3, <2>4
<1>8. RoomInv'
  BY <1>2 DEF RoomInv
<1> QED BY <1>7, <1>8 DEF FateInv, Single

LEMMA CompleteFates ==
    ASSUME TypeInv, PlaceInv, FateInv, Complete
    PROVE  FateInv'
<1> DEFINE nb == thread.nb
<1>1. thread \in ThreadType /\ ContextOK /\ HandOK
  BY TypeParts DEF Parts, ThreadOK
<1>2. /\ Return({nb}, context) \/ context' = context
      /\ thread'.pc = "process" /\ thread'.nb = None
      /\ thread.pc = "complete" /\ UNCHANGED buffers /\ canceller' = canceller
  BY <1>1 DEF Complete, ThreadType
<1>3. nb # None
  BY <1>1, <1>2 DEF HandOK
<1>4. nb \in NBs /\ Sent' = Sent
  BY <1>2, <1>3, InHandOnly, Frames
<1> HIDE DEF nb
<1>5. ASSUME NEW l \in NBL, Single(l) PROVE StatusInv(l)'
  <2>1. StatusInv(l)
    BY <1>5 DEF FateInv
  <2>2. CASE context' = context
    BY <1>2, <1>4, <2>1, <2>2 DEF StatusInv, Only
  <2>3. CASE Return({nb}, context)
    <3>1. /\ context'[l].NdisStatus = context[l].NdisStatus
          /\ Only(l) = nb => context'[l].Status = context[l].NdisStatus
          /\ Only(l) # nb => context'[l] = context[l]
      BY <1>1, <1>4, <1>5, <2>3, ReturnOfSingle DEF ContextOK
    <3>2. CASE nb = Only(l)
      BY <1>2, <1>4, <2>1, <3>1, <3>2 DEF StatusInv, Only, nb
    <3>3. CASE nb # Only(l)
      BY <1>2, <1>4, <2>1, <3>1, <3>3 DEF StatusInv, Only
    <3> QED BY <3>2, <3>3
  <2> QED BY <1>2, <2>2, <2>3
<1>6. RoomInv'
  BY <1>2 DEF RoomInv
<1> QED BY <1>5, <1>6 DEF FateInv, Single

\* What CancelSend has queued is not copied, and its lists are aborted.
LEMMA CancelStatusFates ==
    ASSUME TypeInv, PlaceInv, FateInv, CancelSetsStatus, canceller.queue # <<>>
    PROVE  FateInv'
<1> DEFINE nb == Head(canceller.queue)
<1>1. ContextOK /\ CancelOK
  BY TypeParts DEF Parts
<1>2. /\ context' = WithStatus({nb}, "ABORTED") /\ canceller'.queue = canceller.queue
      /\ UNCHANGED thread /\ UNCHANGED buffers
  BY <1>1 DEF CancelSetsStatus, CancelOK
<1>3. /\ nb \in NBs /\ nb # thread.nb /\ Sent' = Sent /\ "ABORTED" \in Statuses
  BY <1>2, CancelledHead, Frames DEF Statuses
<1> HIDE DEF nb
<1>4. Head(canceller'.queue) = nb
  BY <1>2 DEF nb
<1>5. ASSUME NEW l \in NBL, Single(l) PROVE StatusInv(l)'
  <2>1. StatusInv(l)
    BY <1>5 DEF FateInv
  <2>2. /\ context'[l].phase = context[l].phase
        /\ context'[l].Status = context[l].Status
        /\ Only(l) = nb => context'[l].NdisStatus = "ABORTED"
        /\ Only(l) # nb => context'[l].NdisStatus = context[l].NdisStatus
    BY <1>1, <1>2, <1>3, <1>5, StatusOfSingle
  <2> QED BY <1>2, <1>3, <1>4, <2>1, <2>2 DEF StatusInv, Only
<1>6. RoomInv'
  BY <1>2 DEF FateInv, RoomInv, SizeOf, buffers
<1> QED BY <1>5, <1>6 DEF FateInv, Single

LEMMA CancelCompletesFates ==
    ASSUME TypeInv, PlaceInv, FateInv, CancelCompletes
    PROVE  FateInv'
<1> DEFINE nb == Head(canceller.queue)
<1>1. ContextOK /\ CancelOK
  BY TypeParts DEF Parts
<1>2. /\ Return({nb}, context) /\ canceller.pc = "complete" /\ canceller.queue # <<>>
      /\ canceller'.pc = "status" /\ UNCHANGED thread /\ UNCHANGED buffers
  BY <1>1 DEF CancelCompletes, CancelOK, CancellerOK
<1>3. /\ nb \in NBs /\ nb # thread.nb /\ Sent' = Sent /\ nb \notin Sent
  BY <1>2, CancelledHead, OthersHeld, Frames
<1> HIDE DEF nb
<1>4. ASSUME NEW l \in NBL, Single(l) PROVE StatusInv(l)'
  <2>1. StatusInv(l)
    BY <1>4 DEF FateInv
  <2>2. /\ context'[l].NdisStatus = context[l].NdisStatus
        /\ Only(l) = nb => context'[l].Status = context[l].NdisStatus
        /\ Only(l) # nb => context'[l] = context[l]
    <3>1. {nb} \in SUBSET NBs /\ context \in [NBL -> NblContext] /\ Return({nb}, context)
      BY <1>1, <1>2, <1>3 DEF ContextOK
    <3>2. Only(l) \in {nb} <=> Only(l) = nb
      OBVIOUS
    <3> QED BY <1>4, <3>1, <3>2, ReturnOfSingle
  <2>3. Only(l) = nb => context[l].NdisStatus # "SUCCESS"
    BY <1>2, <2>1 DEF StatusInv, nb
  <2> QED BY <1>2, <1>3, <2>1, <2>2, <2>3 DEF StatusInv, Only
<1>5. RoomInv'
  BY <1>2 DEF FateInv, RoomInv, SizeOf, buffers
<1> QED BY <1>4, <1>5 DEF FateInv, Single

\* A pause fails what waits, none of which has been copied.
LEMMA PurgeFates ==
    ASSUME TypeInv, PlaceInv, FateInv, PausePurgesFlow \/ PauseCleansUp
    PROVE  FateInv'
<1>1. ContextOK
  BY TypeParts DEF Parts
<1>2. /\ UNCHANGED thread /\ UNCHANGED canceller /\ UNCHANGED buffers
      /\ \E S \in {Stopped, Pending} : Return(S, WithStatus(S, "FAILURE"))
  BY DEF PausePurgesFlow, PauseCleansUp, Stopped, Pending
<1>3. PICK S \in {Stopped, Pending} : Return(S, WithStatus(S, "FAILURE"))
  BY <1>2
<1>4. S \in SUBSET NBs /\ Sent' = Sent /\ "FAILURE" \in Statuses
  BY <1>2, QueueTypes, Frames DEF Statuses
<1>5. \A nb \in S : nb \notin Sent /\ nb # thread.nb
  BY OthersHeld
<1>6. ASSUME NEW l \in NBL, Single(l) PROVE StatusInv(l)'
  <2> DEFINE ctx == WithStatus(S, "FAILURE")
  <2>1. StatusInv(l)
    BY <1>6 DEF FateInv
  <2>2. /\ ctx \in [NBL -> NblContext] /\ ctx[l].phase = context[l].phase
        /\ ctx[l].Status = context[l].Status
        /\ Only(l) \in S => ctx[l].NdisStatus = "FAILURE"
        /\ Only(l) \notin S => ctx[l].NdisStatus = context[l].NdisStatus
    BY <1>1, <1>4, <1>6, StatusOfSingle
  <2>3. Return(S, ctx)
    BY <1>3
  <2> HIDE DEF ctx
  <2>4. /\ context'[l].NdisStatus = ctx[l].NdisStatus
        /\ Only(l) \in S => context'[l].Status = ctx[l].NdisStatus
        /\ Only(l) \notin S => context'[l] = ctx[l]
    BY <1>4, <1>6, <2>2, <2>3, ReturnOfSingle
  <2>5. CASE Only(l) \in S
    BY <1>2, <1>4, <1>5, <2>1, <2>2, <2>4, <2>5 DEF StatusInv, Only
  <2>6. CASE Only(l) \notin S
    BY <1>2, <1>4, <2>1, <2>2, <2>4, <2>6 DEF StatusInv, Only
  <2> QED BY <2>5, <2>6
<1>7. RoomInv'
  BY <1>2 DEF FateInv, RoomInv, SizeOf, buffers
<1> QED BY <1>6, <1>7 DEF FateInv, Single

LEMMA InitFates == ASSUME Init, TypeInv, PlaceInv PROVE FateInv
<1>1. /\ thread.pc = "blocked" /\ canceller.pc = "idle"
      /\ \A l \in NBL : context[l].phase = "new"
  BY DEF Init, Idle
<1> QED BY <1>1 DEF FateInv, RoomInv, StatusInv

LEMMA StepFates ==
    ASSUME TypeInv, PlaceInv, TypeInv', FateInv, [Next]_vars, ~QMAPEnabledV4
    PROVE  FateInv'
<1>1. CASE Send \/ Queue \/ Cancel
  BY <1>1, SendFates DEF Send, Queue, Cancel
<1>2. CASE CancelStep
  BY <1>2, WalkFates, CancelStatusFates, CancelCompletesFates DEF CancelStep
<1>3. CASE FlowControl \/ Pause \/ PauseStep \/ Restart
  BY <1>3, WalkFates, PurgeFates DEF FlowControl, PauseStep
<1>4. CASE ThreadStep
  BY <1>4, WalkFates, DequeueFates, CopyFates, SetStatusFates, CompleteFates,
     BufferFates DEF ThreadStep
<1>5. CASE TimerExpires \/ UsbCompletes \/ UNCHANGED vars
  BY <1>5, WalkFates, BufferFates
<1> QED BY <1>1, <1>2, <1>3, <1>4, <1>5 DEF Next

LEMMA FateImplies == ASSUME TypeInv, FateInv PROVE SuccessIsCopied
<1> SUFFICES ASSUME NEW l \in NBL, NumNB[l] = 1, NB(l) \cap Unreadable = {},
                    context[l].phase = "returned"
             PROVE  context[l].Status = "SUCCESS"
                       <=> <<l, 1>> \in ToSet(wire \o CopiedPackets)
  BY DEF SuccessIsCopied
<1>1. context[l].Status = "SUCCESS" <=> <<l, 1>> \in Sent
  BY DEF FateInv, Single, StatusInv, Only
<1>2. BuffersOK
  BY TypeParts DEF Parts
<1>3. wire \in Seq(NBs) /\ CopiedPackets \in Seq(NBs)
  <2>1. wire \in Seq(NBs)
    BY <1>2 DEF BuffersOK
  <2> QED BY <1>2, <2>1, BufferTypes DEF CopiedPackets
<1>4. ToSet(wire \o CopiedPackets) = Sent
  BY <1>3, ElementsOfConcat DEF Sent
<1> QED BY <1>1, <1>4

\* With version 1 of QMAP, NDIS is told of success exactly for the lists whose
\* data has been copied, where one net buffer decides on the status of its list.
THEOREM SuccessFollowsTheCopy ==
    ASSUME ~QMAPEnabledV4
    PROVE  Spec => []SuccessIsCopied
<1>1. TypeInv /\ PlaceInv /\ Init => FateInv
  BY InitFates
<1>2. TypeInv /\ PlaceInv /\ TypeInv' /\ FateInv /\ [Next]_vars => FateInv'
  BY StepFates
<1>3. TypeInv /\ FateInv => SuccessIsCopied
  BY FateImplies
<1> QED BY <1>1, <1>2, <1>3, PlaceInvariant, PTL DEF Spec
=============================================================================
