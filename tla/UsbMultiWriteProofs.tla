------------------------- MODULE UsbMultiWriteProofs -------------------------
(***************************************************************************)
(* Proofs about UsbMultiWrite, for every number of transfer buffers, every *)
(* sequence of writes and every value of the bounds.                       *)
(***************************************************************************)
EXTENDS UsbMultiWrite, SubsequenceProofs, TLAPS

-----------------------------------------------------------------------------
(***************************************************************************)
(* The inductive invariant.                                                *)
(***************************************************************************)
Records == MWTSentIrpQueue

\* A write is in hand between its removal from the queue and its submission.
Sending == wt.pc = "sending"
InHand(w) == Sending /\ wt.pWriteCurrent = w
Recorded(w) == \E k \in DOMAIN Records : Records[k].SentIrp = w
\* The thread has the write: queued, in hand or recorded as sent.
Has(w) == w \in ToSet(WriteDataQueue) \/ InHand(w) \/ Recorded(w)

TypeInv == TypeOK /\ count \in AnySpent

\* The records, the write in hand and the queue have the writes in the order in
\* which they were enqueued; so no write is in two of these places.
QueueRises ==
    /\ \A i, j \in DOMAIN WriteDataQueue :
          i < j => WriteDataQueue[i] < WriteDataQueue[j]
    /\ \A i \in DOMAIN WriteDataQueue : WriteDataQueue[i] <= count.writes
RecordsRise ==
    /\ \A i, j \in DOMAIN Records :
          i < j /\ Records[j].SentIrp # 0 =>
             Records[i].SentIrp < Records[j].SentIrp
    /\ \A i \in DOMAIN Records, j \in DOMAIN WriteDataQueue :
          Records[i].SentIrp < WriteDataQueue[j]
    /\ \A i \in DOMAIN Records : Records[i].SentIrp <= count.writes
HandRises ==
    Sending =>
       /\ \A j \in DOMAIN WriteDataQueue : wt.pWriteCurrent < WriteDataQueue[j]
       /\ wt.pWriteCurrent # 0 =>
             \A i \in DOMAIN Records : Records[i].SentIrp < wt.pWriteCurrent
       /\ wt.pWriteCurrent <= count.writes
OrderInv == QueueRises /\ RecordsRise /\ HandRises

\* A buffer is on one of the three queues once, and its own state tells which.
Finished == {"SUCCESS", "ERROR", "CANCELLED"}
BufferInv ==
    /\ IsInjective(MWriteIdleQueue) /\ IsInjective(MWritePendingQueue)
    /\ IsInjective(MWriteCompletionQueue)
    /\ ToSet(MWriteIdleQueue) \cap ToSet(MWritePendingQueue) = {}
    /\ ToSet(MWriteIdleQueue) \cap ToSet(MWriteCompletionQueue) = {}
    /\ ToSet(MWritePendingQueue) \cap ToSet(MWriteCompletionQueue) = {}
    /\ \A b \in ToSet(MWriteIdleQueue) : buf[b] = IdleBuffer
    /\ \A b \in ToSet(MWritePendingQueue) :
          buf[b].Status = "IDLE" => Sending /\ b = Last(MWritePendingQueue)
    /\ Sending => /\ MWritePendingQueue # <<>>
                  /\ buf[Last(MWritePendingQueue)] = IdleBuffer
    /\ \A b \in ToSet(MWriteCompletionQueue) : buf[b].Status \in Finished

\* The transfers that have been submitted and not been given back.
Out == {b \in ToSet(MWritePendingQueue) \cup ToSet(MWriteCompletionQueue) :
           buf[b].Status # "IDLE"}

\* Each of them has its record, the last of its buffer; and only a flow-off
\* keeps the record of a transfer that has been given back, as long as another
\* one is out, unless a request took the flow-off's place.
RecordOf(k, b) ==
    /\ Records[k].MWTBuf = b /\ ~Records[k].IrpReturned
    /\ Records[k].SentIrp = buf[b].CallingIrp
    /\ \A j \in DOMAIN Records :
          Records[j].MWTBuf = b /\ j # k => j < k /\ Records[j].IrpReturned
Kept == \E k \in DOMAIN Records : Records[k].IrpReturned
Unreturned == \E k \in DOMAIN Records : ~Records[k].IrpReturned
RecordInv ==
    /\ \A b \in Out : \E k \in DOMAIN Records : RecordOf(k, b)
    /\ \A k \in DOMAIN Records :
          ~Records[k].IrpReturned => Records[k].MWTBuf \in Out
    /\ "overwritten" \notin faults /\ Kept =>
          wt.mwtState = "FLOW_OFF" /\ Unreturned

\* What the device has of a write is at least what the driver counts of it.
Reached(w, n) == \A k \in 1 .. n : <<w, k>> \in ToSet(device)
TransferInv ==
    \A b \in Out :
       /\ buf[b].Transferred <= buf[b].Length
       /\ buf[b].Status = "PENDING" => buf[b].Transferred = 0
       /\ buf[b].Status = "SUCCESS" => buf[b].Transferred = buf[b].Length
       /\ buf[b].CallingIrp # 0 =>
             /\ buf[b].First + buf[b].Length = Packets[buf[b].CallingIrp]
             /\ Reached(buf[b].CallingIrp, buf[b].First + buf[b].Transferred)
SizeInv ==
    \A w \in Writes : Has(w) => /\ irp[w].Information <= Packets[w]
                                /\ Reached(w, irp[w].Information)

\* An active write is the thread's, or its cancel routine has been called.
IrpInv ==
    \A w \in Writes :
       /\ irp[w].routine # "none" <=> irp[w].where = "active"
       /\ w > count.writes => irp[w].where = "new" /\ irp[w].Information = 0
       /\ Has(w) /\ "adopted" \notin faults => irp[w].where = "active"
       /\ irp[w].routine = "set" => Has(w)
       /\ irp[w].routine = "running" => irp[w].cancelled

PipeInv == /\ TypeInv /\ OrderInv /\ BufferInv /\ RecordInv /\ TransferInv
           /\ SizeInv /\ IrpInv /\ SuccessIsSent

-----------------------------------------------------------------------------
(***************************************************************************)
(* The wait of the thread.                                                 *)
(***************************************************************************)
ThreadEvents == WriteEvents \cup Buffers

\* The buffers' events come after those of the requests.
LEMMA Indices ==
    /\ \A e \in WriteEvents :
          WriteIndex[e] = RequestIndex[e] /\ RequestIndex[e] \in 1 .. 9
    /\ \A b \in Buffers : WriteIndex[b] \in 10 .. Len(pMwtBuffer) + 9
    /\ Len(pMwtBuffer) \in Nat
<1>1. \A e \in WriteEvents :
         WriteIndex[e] = RequestIndex[e] /\ RequestIndex[e] \in 1 .. 9
  BY DEF WriteIndex, RequestIndex, WriteEvents
<1>2. Len(pMwtBuffer) \in Nat /\ DOMAIN pMwtBuffer = 1 .. Len(pMwtBuffer)
  BY WriteBuffersAssumption
<1>3. ASSUME NEW b \in Buffers
      PROVE  WriteIndex[b] \in 10 .. Len(pMwtBuffer) + 9
  <2> DEFINE i == CHOOSE i \in DOMAIN pMwtBuffer : pMwtBuffer[i] = b
  <2>1. \E j \in DOMAIN pMwtBuffer : pMwtBuffer[j] = b
    BY DEF Buffers, Range
  <2>2. i \in 1 .. Len(pMwtBuffer)
    BY <1>2, <2>1
  <2>3. b \notin WriteEvents
    BY WriteBuffersAssumption DEF WritePoints
  <2>4. WriteIndex[b] = 10 - 1 + i
    BY <2>3 DEF WriteIndex, WRITE_EVENT_COUNT
  <2> HIDE DEF i
  <2> QED BY <1>2, <2>2, <2>4
<1> QED BY <1>1, <1>2, <1>3

\* A wait returns the event of lowest index that is set.
LEMMA WriteLowest ==
    ASSUME NEW set \in SUBSET ThreadEvents, set # {}
    PROVE  /\ LowestEvent(set, WriteIndex) \in set
           /\ \A e \in set : WriteIndex[LowestEvent(set, WriteIndex)] <= WriteIndex[e]
<1> DEFINE n == Len(pMwtBuffer) + 9
           I == {WriteIndex[e] : e \in set}
<1>1. n \in Nat /\ \A e \in ThreadEvents : WriteIndex[e] \in 1 .. n
  BY Indices DEF ThreadEvents
<1> HIDE DEF n
<1>2. I \in SUBSET (1 .. n) /\ I # {}
  BY <1>1
<1>3. PICK i \in I : \A j \in I : i <= j
  BY <1>1, <1>2, FirstPlace
<1>4. \E e \in set : \A f \in set : WriteIndex[e] <= WriteIndex[f]
  BY <1>3
<1> QED BY <1>4 DEF LowestEvent

LEMMA SignalThread ==
    ASSUME wt \in WriteThread, NEW e \in ThreadEvents
    PROVE  /\ Signal(wt, e) \in WriteThread
           /\ Signal(wt, e) = [wt EXCEPT !.set = wt.set \cup {e},
                                         !.pc = Signal(wt, e).pc]
           /\ Signal(wt, e).pc = IF wt.pc = "blocked" THEN e ELSE wt.pc
BY DEF Signal, WriteThread, WritePcs, WritePoints, ThreadEvents

LEMMA GotoThread ==
    ASSUME wt \in WriteThread, NEW pc \in WritePoints
    PROVE  Goto(wt, pc) \in WriteThread
BY DEF Goto, WriteThread, WritePcs

LEMMA ClearThread ==
    ASSUME wt \in WriteThread, NEW e, NEW pc \in WritePoints
    PROVE  Clear(wt, e, pc) \in WriteThread
BY DEF Clear, WriteThread, WritePcs

LEMMA WaitThread ==
    ASSUME wt \in WriteThread
    PROVE  /\ WaitAny(wt, WriteIndex) \in WriteThread
           /\ WaitAny(wt, WriteIndex) =
                 [wt EXCEPT !.pc = WaitAny(wt, WriteIndex).pc]
           /\ \/ /\ WaitAny(wt, WriteIndex).pc = "blocked" /\ wt.set = {}
              \/ /\ WaitAny(wt, WriteIndex).pc \in wt.set
                 /\ \A e \in wt.set :
                       WriteIndex[WaitAny(wt, WriteIndex).pc] <= WriteIndex[e]
<1>1. wt.set \in SUBSET ThreadEvents
  BY DEF WriteThread, ThreadEvents
<1>2. CASE wt.set = {}
  BY <1>2 DEF WaitAny, WriteThread, WritePcs, WritePoints
<1>3. CASE wt.set # {}
  <2> DEFINE e == LowestEvent(wt.set, WriteIndex)
  <2>1. e \in wt.set /\ \A f \in wt.set : WriteIndex[e] <= WriteIndex[f]
    BY <1>1, <1>3, WriteLowest
  <2>2. WaitAny(wt, WriteIndex) = [wt EXCEPT !.pc = e]
    BY <1>3 DEF WaitAny
  <2>3. e \in WritePcs
    BY <1>1, <2>1 DEF ThreadEvents, WritePcs, WritePoints
  <2> HIDE DEF e
  <2> QED BY <2>1, <2>2, <2>3, <1>3 DEF WriteThread
<1> QED BY <1>2, <1>3

-----------------------------------------------------------------------------
(***************************************************************************)
(* What the operators return.                                              *)
(***************************************************************************)
LEMMA WritesAre ==
    /\ Len(Packets) \in Nat /\ Writes = 1 .. Len(Packets)
    /\ \A w \in Writes : w \in Nat /\ w # 0 /\ Packets[w] \in Nat
                         /\ Packets[w] > 0
    /\ 0 \notin Writes
BY WritesAssumption DEF Writes

LEMMA Members ==
    ASSUME NEW S, NEW q \in Seq(S)
    PROVE  /\ Range(q) = ToSet(q) /\ ToSet(q) \in SUBSET S
           /\ \A e : Contains(q, e) <=> e \in ToSet(q)
           /\ q # <<>> => /\ Head(q) \in ToSet(q) /\ Tail(q) \in Seq(S)
                          /\ Last(q) \in ToSet(q)
           /\ q = <<>> <=> ToSet(q) = {}
<1>1. Range(q) = ToSet(q) /\ ToSet(q) \in SUBSET S
  BY DEF Range, ToSet
<1>2. \A e : Contains(q, e) <=> e \in ToSet(q)
  BY DEF Contains, ToSet
<1>3. q # <<>> => /\ Head(q) \in ToSet(q) /\ Tail(q) \in Seq(S)
                  /\ Last(q) \in ToSet(q)
  BY DEF ToSet, Last
<1>4. q = <<>> <=> ToSet(q) = {}
  BY DEF ToSet
<1> QED BY <1>1, <1>2, <1>3, <1>4

\* The record of a write that has been answered.
AnsweredIrp(old, status, information) ==
    [old EXCEPT !.where = "answered", !.routine = "none", !.Status = status,
                !.Information = information]

LEMMA AnswerIs ==
    ASSUME NEW irps \in [Writes -> WriteIrp], NEW w \in Sent,
           NEW status \in TransferStatus, NEW information \in Nat
    PROVE  /\ Answer(irps, w, status, information) \in [Writes -> WriteIrp]
           /\ \A v \in Writes :
                 Answer(irps, w, status, information)[v] =
                    IF v = w /\ irps[w].routine = "set"
                    THEN AnsweredIrp(irps[w], status, information) ELSE irps[v]
BY WritesAre, ZenonT(60) DEF Answer, AnsweredIrp, WriteIrp, Sent

LEMMA AnsweredType ==
    ASSUME NEW old \in WriteIrp, NEW status \in TransferStatus,
           NEW information \in Nat
    PROVE  /\ AnsweredIrp(old, status, information) \in WriteIrp
           /\ AnsweredIrp(old, status, information).where = "answered"
           /\ AnsweredIrp(old, status, information).routine = "none"
           /\ AnsweredIrp(old, status, information).Status = status
           /\ AnsweredIrp(old, status, information).Information = information
           /\ AnsweredIrp(old, status, information).cancelled = old.cancelled
BY DEF AnsweredIrp, WriteIrp

\* A purge answers the writes of the queue whose cancel routine is still set.
LEMMA PurgeQueueIs ==
    ASSUME TypeInv, PurgeQueue
    PROVE  /\ irp' \in [Writes -> WriteIrp] /\ WriteDataQueue' = <<>>
           /\ faults' \in SUBSET Faults /\ faults \subseteq faults'
           /\ faults' \subseteq faults \cup {"broken"}
           /\ \A w \in Writes :
                 irp'[w] = IF w \in ToSet(WriteDataQueue) /\ irp[w].routine = "set"
                           THEN AnsweredIrp(irp[w], "CANCELLED", 0) ELSE irp[w]
           /\ "broken" \in faults' =>
                 \/ "broken" \in faults
                 \/ \E w \in ToSet(WriteDataQueue) : irp[w].where = "done"
<1>1. /\ irp \in [Writes -> WriteIrp] /\ WriteDataQueue \in Seq(Writes)
      /\ faults \subseteq Faults
  BY DEF TypeInv, TypeOK
<1>2. Range(WriteDataQueue) = ToSet(WriteDataQueue)
      /\ \A w : Contains(WriteDataQueue, w) <=> w \in ToSet(WriteDataQueue)
  BY <1>1, Members
<1>3. /\ irp' = [w \in Writes |->
                   IF Contains(WriteDataQueue, w)
                   THEN Answer(irp, w, "CANCELLED", 0)[w] ELSE irp[w]]
      /\ WriteDataQueue' = <<>>
      /\ faults' = faults \cup
            FaultIf(\E w \in Range(WriteDataQueue) : Completed(w), "broken")
  BY DEF PurgeQueue
<1>4. ASSUME NEW w \in Writes
      PROVE  Answer(irp, w, "CANCELLED", 0)[w] =
                IF irp[w].routine = "set"
                THEN AnsweredIrp(irp[w], "CANCELLED", 0) ELSE irp[w]
  <2>1. "CANCELLED" \in TransferStatus /\ 0 \in Nat /\ w \in Sent
    BY DEF TransferStatus, Sent
  <2> QED BY <1>1, <2>1, AnswerIs
<1>5. \A w \in Writes :
         irp'[w] = IF w \in ToSet(WriteDataQueue) /\ irp[w].routine = "set"
                   THEN AnsweredIrp(irp[w], "CANCELLED", 0) ELSE irp[w]
  BY <1>2, <1>3, <1>4
<1>6. \A w \in Writes : irp'[w] \in WriteIrp
  <2>1. "CANCELLED" \in TransferStatus /\ 0 \in Nat
    BY DEF TransferStatus
  <2> QED BY <1>1, <1>5, <2>1, AnsweredType
<1>7. irp' \in [Writes -> WriteIrp]
  BY <1>3, <1>6
<1>8. /\ faults' \in SUBSET Faults /\ faults \subseteq faults'
      /\ faults' \subseteq faults \cup {"broken"}
      /\ "broken" \in faults' =>
            \/ "broken" \in faults
            \/ \E w \in ToSet(WriteDataQueue) : irp[w].where = "done"
  BY <1>1, <1>2, <1>3 DEF FaultIf, Faults, Completed
<1> QED BY <1>3, <1>5, <1>7, <1>8

\* The adjustment changes one write's count, if its transfer moved less than it
\* should have.
LEMMA AdjustedIs ==
    ASSUME TypeInv, NEW b \in Buffers
    PROVE  /\ Adjusted(b) \in [Writes -> WriteIrp]
           /\ \A v \in Writes :
                 \/ Adjusted(b)[v] = irp[v]
                 \/ /\ v = buf[b].CallingIrp /\ buf[b].Status # "SUCCESS"
                    /\ buf[b].Transferred < buf[b].Length
                    /\ Adjusted(b)[v] = [irp[v] EXCEPT !.Information = buf[b].Transferred]
<1>1. /\ irp \in [Writes -> WriteIrp] /\ buf[b].CallingIrp \in Sent
      /\ buf[b].Transferred \in Nat
  BY DEF TypeInv, TypeOK, TransferBuffer
<1>2. \/ Adjusted(b) = irp
      \/ /\ buf[b].CallingIrp \in Writes /\ buf[b].Status # "SUCCESS"
         /\ buf[b].Transferred < buf[b].Length
         /\ Adjusted(b) = [irp EXCEPT ![buf[b].CallingIrp].Information = buf[b].Transferred]
  BY <1>1 DEF Adjusted, Sent
<1>3. ASSUME NEW w \in Writes, NEW n \in Nat
      PROVE  /\ [irp EXCEPT ![w].Information = n] \in [Writes -> WriteIrp]
             /\ \A v \in Writes : [irp EXCEPT ![w].Information = n][v] =
                   IF v = w THEN [irp[v] EXCEPT !.Information = n] ELSE irp[v]
  BY <1>1 DEF WriteIrp
<1> QED BY <1>1, <1>2, <1>3

LEMMA ReceivedIs ==
    ASSUME TypeInv, NEW b \in Buffers, NEW n \in Nat, Received(b, n)
    PROVE  /\ device' \in Seq(Sent \X Nat)
           /\ ToSet(device) \subseteq ToSet(device')
           /\ \A k \in 1 .. n :
                 <<buf[b].CallingIrp, buf[b].First + k>> \in ToSet(device')
<1> DEFINE s == [k \in 1 .. n |-> <<buf[b].CallingIrp, buf[b].First + k>>]
<1>1. device \in Seq(Sent \X Nat) /\ buf[b].CallingIrp \in Sent /\ buf[b].First \in Nat
  BY DEF TypeInv, TypeOK, TransferBuffer
<1>2. s \in Seq(Sent \X Nat)
  BY <1>1
<1>3. \A k \in 1 .. n : <<buf[b].CallingIrp, buf[b].First + k>> \in ToSet(s)
  BY <1>2 DEF ToSet
<1>4. device' = device \o s
  BY DEF Received
<1> HIDE DEF s
<1>5. device' \in Seq(Sent \X Nat) /\ ToSet(device') = ToSet(device) \cup ToSet(s)
  BY <1>1, <1>2, <1>4, ConcatIsSeq, ElementsOfConcat
<1> QED BY <1>3, <1>5

-----------------------------------------------------------------------------
(***************************************************************************)
(* The bus.                                                                *)
(***************************************************************************)
LEMMA HeldIs ==
    ASSUME TypeInv
    PROVE  /\ HeldBuffers \in Seq(Buffers)
           /\ \A b \in Buffers :
                 Held(b) <=> b \in ToSet(MWritePendingQueue) /\ buf[b].Status = "PENDING"
           /\ \A b : b \in ToSet(HeldBuffers) <=> b \in Buffers /\ Held(b)
           /\ \A b : Served(b) => b \in Buffers /\ Held(b)
           /\ HeldBuffers # <<>> => Served(Head(HeldBuffers))
<1>1. MWritePendingQueue \in Seq(Buffers)
  BY DEF TypeInv, TypeOK
<1>2. /\ HeldBuffers \in Seq(Buffers)
      /\ ToSet(HeldBuffers) =
            ToSet(MWritePendingQueue) \cap {b \in Buffers : Held(b)}
  BY <1>1, KeepElements DEF HeldBuffers
<1>3. \A b \in Buffers :
         Held(b) <=> b \in ToSet(MWritePendingQueue) /\ buf[b].Status = "PENDING"
  BY <1>1, Members DEF Held
<1>4. \A b : b \in ToSet(HeldBuffers) <=> b \in Buffers /\ Held(b)
  BY <1>2, <1>3
<1>5. HeldBuffers # <<>> => Head(HeldBuffers) \in ToSet(HeldBuffers)
  BY <1>2, Members
<1> QED BY <1>2, <1>3, <1>4, <1>5 DEF Served

LEMMA PartialIs ==
    ASSUME TypeInv, NEW b \in Buffers, NEW n \in MovedBeforeItEnded(b)
    PROVE  n \in Nat /\ n <= buf[b].Length /\ (n # 0 => Served(b))
BY DEF TypeInv, TypeOK, TransferBuffer, MovedBeforeItEnded, Partial

\* A transfer that the lower driver holds ends, and what it moved is received.
Ends(b) ==
    /\ b \in ToSet(MWritePendingQueue) /\ buf[b].Status = "PENDING"
    /\ \E status \in Finished, n \in Nat :
          /\ buf'[b] = Ended(b, status, n) /\ n <= buf[b].Length
          /\ status = "SUCCESS" => n = buf[b].Length
          /\ buf[b].CallingIrp # 0 =>
                \A k \in 1 .. n :
                   <<buf[b].CallingIrp, buf[b].First + k>> \in ToSet(device')
BusMoves ==
    /\ buf' \in [Buffers -> TransferBuffer] /\ device' \in Seq(Sent \X Nat)
    /\ ToSet(device) \subseteq ToSet(device')
    /\ \A b \in Buffers : buf'[b] = buf[b] \/ Ends(b)

LEMMA EndedType ==
    ASSUME TypeInv, NEW b \in Buffers, NEW status \in Finished, NEW n \in Nat
    PROVE  /\ Ended(b, status, n) \in TransferBuffer
           /\ Ended(b, status, n).Status = status
           /\ Ended(b, status, n).Transferred = n
           /\ Ended(b, status, n).CallingIrp = buf[b].CallingIrp
           /\ Ended(b, status, n).First = buf[b].First
           /\ Ended(b, status, n).Length = buf[b].Length
           /\ Ended(b, status, n).Cancel = buf[b].Cancel
BY DEF TypeInv, TypeOK, TransferBuffer, TransferStatus, Finished, Ended

LEMMA OneEnds ==
    ASSUME TypeInv, NEW b \in Buffers, Held(b), NEW status \in Finished, NEW n \in Nat,
           buf' = [buf EXCEPT ![b] = Ended(b, status, n)],
           n <= buf[b].Length, status = "SUCCESS" => n = buf[b].Length,
           device' \in Seq(Sent \X Nat), ToSet(device) \subseteq ToSet(device'),
           buf[b].CallingIrp # 0 =>
              \A k \in 1 .. n :
                 <<buf[b].CallingIrp, buf[b].First + k>> \in ToSet(device')
    PROVE  BusMoves
<1>1. buf \in [Buffers -> TransferBuffer]
  BY DEF TypeInv, TypeOK
<1>2. Ended(b, status, n) \in TransferBuffer
  BY EndedType
<1>3. buf' \in [Buffers -> TransferBuffer]
      /\ \A x \in Buffers : buf'[x] = IF x = b THEN Ended(b, status, n) ELSE buf[x]
  BY <1>1, <1>2
<1>4. b \in ToSet(MWritePendingQueue) /\ buf[b].Status = "PENDING"
  BY HeldIs
<1>5. Ends(b)
  BY <1>3, <1>4 DEF Ends
<1> QED BY <1>3, <1>5 DEF BusMoves

LEMMA BusDataMoves ==
    ASSUME TypeInv, BusData
    PROVE  BusMoves
<1>1. PICK b \in Buffers :
         /\ Served(b)
         /\ buf' = [buf EXCEPT ![b] = Ended(b, "SUCCESS", buf[b].Length)]
         /\ IF buf[b].CallingIrp = 0 THEN device' = Append(device, <<0, 0>>)
            ELSE Received(b, buf[b].Length)
  BY DEF BusData
<1>2. /\ Held(b) /\ buf[b].Length \in Nat /\ device \in Seq(Sent \X Nat)
      /\ "SUCCESS" \in Finished
  BY <1>1, HeldIs DEF TypeInv, TypeOK, TransferBuffer, Finished
<1>3. CASE buf[b].CallingIrp = 0
  <2> DEFINE x == <<0, 0>>
  <2>1. x \in Sent \X Nat /\ device' = Append(device, x)
    BY <1>1, <1>3 DEF Sent
  <2> HIDE DEF x
  <2>2. device' = device \o <<x>> /\ device' \in Seq(Sent \X Nat)
        /\ ToSet(device') = ToSet(device) \cup {x}
    <3>0. ASSUME NEW T, NEW s \in Seq(T), NEW y \in T
          PROVE  /\ Append(s, y) = s \o <<y>> /\ s \o <<y>> \in Seq(T)
                 /\ ToSet(s \o <<y>>) = ToSet(s) \cup {y}
      BY AppendIsConcatOfOne
    <3>1. /\ Append(device, x) = device \o <<x>>
          /\ device \o <<x>> \in Seq(Sent \X Nat)
          /\ ToSet(device \o <<x>>) = ToSet(device) \cup {x}
      BY <1>2, <2>1, <3>0
    <3> QED BY <2>1, <3>1, Zenon
  <2>3. buf[b].Length <= buf[b].Length
    BY <1>2
  <2> QED BY <1>1, <1>2, <1>3, <2>2, <2>3, OneEnds
<1>4. CASE buf[b].CallingIrp # 0
  <2>1. Received(b, buf[b].Length) /\ buf[b].Length <= buf[b].Length
    BY <1>1, <1>2, <1>4
  <2> QED BY <1>1, <1>2, <2>1, ReceivedIs, OneEnds
<1> QED BY <1>3, <1>4

LEMMA BusErrorMoves ==
    ASSUME TypeInv, BusError
    PROVE  BusMoves
<1>1. PICK b \in Buffers, n \in UNION {Partial(x) : x \in Buffers} :
         /\ Served(b) /\ n \in MovedBeforeItEnded(b)
         /\ buf' = [buf EXCEPT ![b] = Ended(b, "ERROR", n)]
         /\ Received(b, n)
  BY DEF BusError
<1>2. Held(b) /\ n \in Nat /\ n <= buf[b].Length /\ "ERROR" \in Finished
  BY <1>1, HeldIs, PartialIs DEF Finished
<1> QED BY <1>1, <1>2, ReceivedIs, OneEnds

LEMMA BusCancelledMoves ==
    ASSUME TypeInv, BusCancelled
    PROVE  BusMoves
<1>1. PICK b \in Buffers, n \in UNION {Partial(x) : x \in Buffers} :
         /\ Held(b) /\ n \in MovedBeforeItEnded(b)
         /\ buf' = [buf EXCEPT ![b] = Ended(b, "CANCELLED", n)]
         /\ Received(b, n)
  BY DEF BusCancelled
<1>2. n \in Nat /\ n <= buf[b].Length /\ "CANCELLED" \in Finished
  BY <1>1, PartialIs DEF Finished
<1> QED BY <1>1, <1>2, ReceivedIs, OneEnds

LEMMA AbortMoves ==
    ASSUME TypeInv, AbortPipe
    PROVE  /\ BusMoves
           /\ \A b \in Buffers :
                 buf'[b] # buf[b] => buf'[b].Status = "CANCELLED"
           /\ \A b \in ToSet(MWritePendingQueue) : buf'[b].Status # "PENDING"
<1>0. /\ buf \in [Buffers -> TransferBuffer] /\ device \in Seq(Sent \X Nat)
      /\ MWritePendingQueue \in Seq(Buffers)
  BY DEF TypeInv, TypeOK
<1>00. ToSet(MWritePendingQueue) \subseteq Buffers
  BY <1>0, Members
<1>1. CASE HeldBuffers = <<>>
  <2>1. buf' = buf /\ device' = device
    BY <1>1 DEF AbortPipe
  <2>2. \A b \in Buffers : ~Held(b)
    BY <1>1, HeldIs, Members
  <2> QED BY <1>0, <1>00, <2>1, <2>2, HeldIs DEF BusMoves
<1>2. CASE HeldBuffers # <<>>
  <2> DEFINE h == Head(HeldBuffers)
  <2>1. h \in Buffers /\ Held(h) /\ Served(h)
    BY <1>2, HeldIs
  <2>2. PICK n \in MovedBeforeItEnded(h) :
           /\ buf' = [b \in Buffers |->
                          IF Served(b) THEN Ended(b, "CANCELLED", n)
                          ELSE IF Held(b) THEN Ended(b, "CANCELLED", 0)
                          ELSE buf[b]]
           /\ Received(h, n)
    BY <1>2 DEF AbortPipe
  <2>3. \A b : Served(b) <=> b = h
    BY <1>2 DEF Served
  <2> HIDE DEF h
  <2>4. n \in Nat /\ n <= buf[h].Length
    BY <2>1, <2>2, PartialIs
  <2>5. /\ device' \in Seq(Sent \X Nat) /\ ToSet(device) \subseteq ToSet(device')
        /\ \A k \in 1 .. n :
              <<buf[h].CallingIrp, buf[h].First + k>> \in ToSet(device')
    BY <2>1, <2>2, <2>4, ReceivedIs
  <2>6. "CANCELLED" \in Finished /\ 0 \in Nat /\ "CANCELLED" # "SUCCESS"
    BY DEF Finished
  <2>7. ASSUME NEW b \in Buffers
        PROVE  /\ buf'[b] \in TransferBuffer /\ (buf'[b] = buf[b] \/ Ends(b))
               /\ buf'[b] # buf[b] => buf'[b].Status = "CANCELLED"
               /\ b \in ToSet(MWritePendingQueue) => buf'[b].Status # "PENDING"
    <3>1. CASE b = h
      <4>1. buf'[b] = Ended(b, "CANCELLED", n)
        BY <2>2, <2>3, <3>1
      <4>2. b \in ToSet(MWritePendingQueue) /\ buf[b].Status = "PENDING"
        BY <2>1, <3>1, HeldIs
      <4>3. Ends(b)
        BY <4>1, <4>2, <2>4, <2>5, <2>6, <3>1 DEF Ends
      <4> QED BY <2>4, <2>6, <4>1, <4>3, EndedType
    <3>2. CASE b # h /\ Held(b)
      <4>1. buf'[b] = Ended(b, "CANCELLED", 0)
        BY <2>2, <2>3, <3>2
      <4>2. b \in ToSet(MWritePendingQueue) /\ buf[b].Status = "PENDING"
            /\ 0 <= buf[b].Length
        BY <1>0, <3>2, HeldIs DEF TransferBuffer
      <4>3. \A k \in 1 .. 0 : FALSE
        OBVIOUS
      <4>4. Ends(b)
        BY <4>1, <4>2, <4>3, <2>6 DEF Ends
      <4> QED BY <2>6, <4>1, <4>4, EndedType
    <3>3. CASE b # h /\ ~Held(b)
      <4>1. buf'[b] = buf[b]
        BY <2>2, <2>3, <3>3
      <4> QED BY <1>0, <3>3, <4>1, HeldIs
    <3> QED BY <3>1, <3>2, <3>3
  <2>8. buf' \in [Buffers -> TransferBuffer]
    BY <2>2, <2>7
  <2> QED BY <1>00, <2>5, <2>7, <2>8 DEF BusMoves
<1> QED BY <1>1, <1>2

-----------------------------------------------------------------------------
(***************************************************************************)
(* Types.                                                                  *)
(***************************************************************************)
LEMMA TypeParts ==
    ASSUME TypeInv
    PROVE  /\ irp \in [Writes -> WriteIrp] /\ WriteDataQueue \in Seq(Writes)
           /\ buf \in [Buffers -> TransferBuffer]
           /\ MWriteIdleQueue \in Seq(Buffers) /\ MWritePendingQueue \in Seq(Buffers)
           /\ MWriteCompletionQueue \in Seq(Buffers)
           /\ MWriteCancellingQueue \in Seq(Buffers)
           /\ Records \in Seq(SentIrp) /\ signalling \in SUBSET Buffers
           /\ dev \in Device /\ wt \in WriteThread
           /\ int \in [flow : {"on", "waiting", "off", "late"}, acked : BOOLEAN]
           /\ canceller \in {"idle", "wait", "purge"}
           /\ purger \in {"idle", "signal", "answered", "wait"}
           /\ device \in Seq(Sent \X Nat) /\ faults \in SUBSET Faults
           /\ count \in AnySpent
BY DEF TypeInv, TypeOK, Records

\* Faults are added, never taken back.
LEMMA FaultIfIs ==
    ASSUME NEW c, NEW f
    PROVE  FaultIf(c, f) \subseteq {f} /\ (f \in FaultIf(c, f) <=> c)
BY DEF FaultIf

LEMMA ThreadOnlyType ==
    ASSUME TypeInv, ThreadOnly, wt' \in WriteThread
    PROVE  TypeInv'
BY DEF TypeInv, TypeOK, ThreadOnly, QueuesAlone, ThreadStep, bufferQueues

\* Steps of the thread that change nothing but its own state.
LEMMA ThreadAloneType ==
    ASSUME TypeInv,
           Top \/ SendNothing \/ Check \/ Kick \/ CancelCurrent \/ CancelDone
             \/ Resume \/ FlowOn \/ CompleteNothing
    PROVE  ThreadOnly /\ TypeInv'
<1>1. wt \in WriteThread /\ dev \in Device
  BY TypeParts
<1>2. CASE Top
  <2>1. wt' = Goto(wt, IF MaySend THEN "send" ELSE "check") /\ ThreadOnly
    BY <1>2 DEF Top
  <2>2. (IF MaySend THEN "send" ELSE "check") \in WritePoints
    BY DEF WritePoints
  <2> QED BY <1>1, <2>1, <2>2, GotoThread, ThreadOnlyType
<1>3. CASE SendNothing
  <2>1. wt' = Goto(wt, "check") /\ ThreadOnly /\ "check" \in WritePoints
    BY <1>3 DEF SendNothing, WritePoints
  <2> QED BY <1>1, <2>1, GotoThread, ThreadOnlyType
<1>4. CASE Check
  <2>1. wt' \in {Goto(wt, "terminated"), WaitAny(wt, WriteIndex)} /\ ThreadOnly
        /\ "terminated" \in WritePoints
    BY <1>4 DEF Check, WritePoints
  <2> QED BY <1>1, <2>1, GotoThread, WaitThread, ThreadOnlyType
<1>5. CASE Kick \/ CancelCurrent
  <2>1. \E e \in WriteEvents, pc \in WritePoints : wt' = Clear(wt, e, pc)
    BY <1>5 DEF Kick, CancelCurrent, WritePoints, WriteEvents
  <2>2. ThreadOnly
    BY <1>5 DEF Kick, CancelCurrent
  <2> QED BY <1>1, <2>1, <2>2, ClearThread, ThreadOnlyType
<1>6. CASE CancelDone \/ CompleteNothing
  <2>1. wt' = Goto(wt, "top") /\ ThreadOnly /\ "top" \in WritePoints
    BY <1>6 DEF CancelDone, CompleteNothing, WritePoints
  <2> QED BY <1>1, <2>1, GotoThread, ThreadOnlyType
<1>7. CASE Resume
  <2>1. wt' = [Clear(wt, "RESUME", "top") EXCEPT !.bWriteStopped = dev.PowerSuspended]
        /\ ThreadOnly /\ "top" \in WritePoints
    BY <1>7 DEF Resume, WritePoints
  <2>2. Clear(wt, "RESUME", "top") \in WriteThread /\ dev.PowerSuspended \in BOOLEAN
    BY <1>1, <2>1, ClearThread DEF Device
  <2>3. wt' \in WriteThread
    BY <2>1, <2>2 DEF WriteThread
  <2> QED BY <2>1, <2>3, ThreadOnlyType
<1>8. CASE FlowOn
  <2>1. wt' = [Clear(wt, "FLOW_ON", "top") EXCEPT !.bWriteStopped = dev.PowerSuspended,
                                                   !.bFlowOn = TRUE]
        /\ ThreadOnly /\ "top" \in WritePoints
    BY <1>8 DEF FlowOn, WritePoints
  <2>2. Clear(wt, "FLOW_ON", "top") \in WriteThread /\ dev.PowerSuspended \in BOOLEAN
    BY <1>1, <2>1, ClearThread DEF Device
  <2>3. wt' \in WriteThread
    BY <2>1, <2>2 DEF WriteThread
  <2> QED BY <2>1, <2>3, ThreadOnlyType
<1> QED BY <1>2, <1>3, <1>4, <1>5, <1>6, <1>7, <1>8

LEMMA TopPurgeType ==
    ASSUME TypeInv, TopPurge
    PROVE  TypeInv'
<1>1. wt \in WriteThread
  BY TypeParts
<1>2. wt' = [wt EXCEPT !.pc = "check", !.bPurged = FALSE]
  BY DEF TopPurge
<1>3. wt' \in WriteThread
  BY <1>1, <1>2 DEF WriteThread, WritePcs, WritePoints
<1>4. PurgeQueue /\ purger' \in {"idle", "signal", "answered", "wait"}
  BY TypeParts DEF TopPurge
<1>5. irp' \in [Writes -> WriteIrp] /\ WriteDataQueue' = <<>> /\ faults' \in SUBSET Faults
  BY <1>4, PurgeQueueIs
<1>6. UNCHANGED <<buf, MWriteCancellingQueue, dev, int, device, MWriteIdleQueue,
                  MWritePendingQueue, MWriteCompletionQueue, MWTSentIrpQueue,
                  signalling, canceller, count>>
  BY DEF TopPurge, QueuesAlone, ThreadStep, bufferQueues
<1> QED BY <1>3, <1>4, <1>5, <1>6 DEF TypeInv, TypeOK

LEMMA SendCancelledType ==
    ASSUME TypeInv, SendCancelled
    PROVE  TypeInv'
<1>1. wt \in WriteThread /\ irp \in [Writes -> WriteIrp]
      /\ WriteDataQueue \in Seq(Writes) /\ faults \in SUBSET Faults
  BY TypeParts
<1>2. wt' = Goto(wt, "check") /\ "check" \in WritePoints
  BY DEF SendCancelled, WritePoints
<1>3. wt' \in WriteThread
  BY <1>1, <1>2, GotoThread
<1>4. PurgeQueue \/ (irp' = irp /\ WriteDataQueue' = WriteDataQueue /\ faults' = faults)
  BY DEF SendCancelled
<1>5. /\ irp' \in [Writes -> WriteIrp] /\ WriteDataQueue' \in Seq(Writes)
      /\ faults' \in SUBSET Faults
  <2>1. CASE PurgeQueue
    <3>1. <<>> \in Seq(Writes)
      OBVIOUS
    <3> QED BY <2>1, <3>1, PurgeQueueIs, Zenon
  <2> QED BY <1>1, <1>4, <2>1
<1>6. UNCHANGED <<buf, MWriteCancellingQueue, dev, int, purger, device, MWriteIdleQueue,
                  MWritePendingQueue, MWriteCompletionQueue, MWTSentIrpQueue,
                  signalling, canceller, count>>
  BY DEF SendCancelled, QueuesAlone, ThreadStep, bufferQueues
<1> QED BY <1>3, <1>5, <1>6 DEF TypeInv, TypeOK

LEMMA SendTakeType ==
    ASSUME TypeInv, SendTake
    PROVE  TypeInv'
<1>1. /\ wt \in WriteThread /\ WriteDataQueue \in Seq(Writes)
      /\ MWriteIdleQueue \in Seq(Buffers) /\ MWritePendingQueue \in Seq(Buffers)
  BY TypeParts
<1>2. MWriteIdleQueue # <<>> /\ (WriteDataQueue # <<>> \/ wt.bSendZeroLength)
  BY DEF SendTake, SomethingToSend
<1>3. MWriteIdleQueue' \in Seq(Buffers) /\ MWritePendingQueue' \in Seq(Buffers)
  BY <1>1, <1>2 DEF SendTake
<1>6. wt' \in WriteThread /\ WriteDataQueue' \in Seq(Writes)
  <2>1. CASE wt.bSendZeroLength
    <3>1. wt' = [wt EXCEPT !.pc = "sending", !.pWriteCurrent = 0]
          /\ WriteDataQueue' = WriteDataQueue
      BY <2>1 DEF SendTake
    <3> QED BY <1>1, <3>1 DEF WriteThread, WritePcs, WritePoints, Sent
  <2>2. CASE ~wt.bSendZeroLength
    <3>1. wt' = [wt EXCEPT !.pc = "sending", !.pWriteCurrent = Head(WriteDataQueue)]
          /\ WriteDataQueue' = Tail(WriteDataQueue) /\ WriteDataQueue # <<>>
      BY <1>2, <2>2 DEF SendTake
    <3>2. Head(WriteDataQueue) \in Writes /\ Tail(WriteDataQueue) \in Seq(Writes)
      BY <1>1, <3>1
    <3> QED BY <1>1, <3>1, <3>2 DEF WriteThread, WritePcs, WritePoints, Sent
  <2> QED BY <2>1, <2>2
<1>7. UNCHANGED <<irp, buf, MWriteCompletionQueue, MWriteCancellingQueue,
                  MWTSentIrpQueue, dev, int, purger, device, faults,
                  signalling, canceller, count>>
  BY DEF SendTake, ThreadStep
<1> QED BY <1>3, <1>6, <1>7 DEF TypeInv, TypeOK

LEMMA SendSubmitType ==
    ASSUME TypeInv, BufferInv, SizeInv, SendSubmit
    PROVE  TypeInv'
<1> DEFINE w == wt.pWriteCurrent
           b == Last(MWritePendingQueue)
           first == IF w = 0 THEN 0 ELSE irp[w].Information
           length == IF w = 0 THEN 0 ELSE Packets[w] - first
           sent == [CallingIrp |-> w, First |-> first, Length |-> length,
                    Status |-> "PENDING", Transferred |-> 0, Cancel |-> FALSE]
           record == [SentIrp |-> w, MWTBuf |-> b, IrpReturned |-> FALSE]
<1>1. /\ wt \in WriteThread /\ irp \in [Writes -> WriteIrp] /\ w \in Sent
      /\ buf \in [Buffers -> TransferBuffer] /\ Records \in Seq(SentIrp)
      /\ faults \in SUBSET Faults /\ MWritePendingQueue \in Seq(Buffers)
  BY TypeParts DEF WriteThread
<1>2. first \in Nat /\ length \in Nat
  <2>1. CASE w = 0
    BY <2>1
  <2>2. CASE w # 0
    <3>1. w \in Writes /\ Has(w)
      BY <1>1, <2>2 DEF Sent, Has, InHand, Sending, SendSubmit
    <3>2. irp[w].Information <= Packets[w] /\ Packets[w] \in Nat
          /\ irp[w].Information \in Nat
      BY <1>1, <3>1, WritesAre DEF SizeInv, WriteIrp
    <3> QED BY <2>2, <3>2
  <2> QED BY <2>1, <2>2
<1>3. b \in Buffers
  BY <1>1, Members DEF BufferInv, Sending, SendSubmit
<1>4. /\ buf' = [buf EXCEPT ![b] = sent]
      /\ Records' = Append(Records, record)
      /\ wt' = [wt EXCEPT !.pc = "send",
                          !.bSendZeroLength = w \in FullPacket /\ length > 0]
      /\ faults' = faults \cup FaultIf(Completed(w), "broken")
      /\ UNCHANGED <<irp, WriteDataQueue, bufferQueues, MWriteCancellingQueue,
                     dev, int, purger, device>> /\ ThreadStep
  BY DEF SendSubmit, Records
<1>5. sent \in TransferBuffer /\ record \in SentIrp
  <2> HIDE DEF w, first, length, b
  <2> QED BY <1>1, <1>2, <1>3 DEF TransferBuffer, TransferStatus, SentIrp
<1> HIDE DEF w, first, length, b, sent, record
<1>6. buf' \in [Buffers -> TransferBuffer] /\ Records' \in Seq(SentIrp)
  <2>1. buf' \in [Buffers -> TransferBuffer]
    BY <1>1, <1>4, <1>5
  <2>2. Append(Records, record) \in Seq(SentIrp)
    BY <1>1, <1>5
  <2> QED BY <1>4, <2>1, <2>2
<1>7. wt' \in WriteThread
  BY <1>1, <1>4 DEF WriteThread, WritePcs, WritePoints
<1>8. faults' \in SUBSET Faults
  BY <1>1, <1>4 DEF FaultIf, Faults
<1> QED BY <1>4, <1>6, <1>7, <1>8
        DEF TypeInv, TypeOK, Records, ThreadStep, bufferQueues

LEMMA CancelNextType ==
    ASSUME TypeInv, CancelNext
    PROVE  TypeInv'
<1>1. /\ buf \in [Buffers -> TransferBuffer] /\ MWriteCancellingQueue \in Seq(Buffers)
      /\ MWriteCancellingQueue # <<>>
  BY TypeParts DEF CancelNext
<1>2. MWriteCancellingQueue' \in Seq(Buffers)
  BY <1>1 DEF CancelNext
<1>3. buf' \in [Buffers -> TransferBuffer]
  BY <1>1 DEF CancelNext, TransferBuffer, Contains
<1> QED BY <1>2, <1>3
        DEF TypeInv, TypeOK, CancelNext, QueuesAlone, ThreadStep, bufferQueues

\* A request that finds transfers pending cancels the first of them.
LEMMA CancelPendingIs ==
    ASSUME TypeInv, NEW state, CancelPending(state)
    PROVE  /\ buf' \in [Buffers -> TransferBuffer]
           /\ Head(MWritePendingQueue) \in ToSet(MWritePendingQueue)
           /\ Head(MWritePendingQueue) \in Buffers
           /\ \A b \in Buffers :
                 buf'[b] = IF b = Head(MWritePendingQueue)
                           THEN [buf[b] EXCEPT !.Cancel = TRUE] ELSE buf[b]
           /\ faults' \in SUBSET Faults /\ faults \subseteq faults'
           /\ faults' \subseteq faults \cup {"overwritten", "unpurged"}
           /\ wt.mwtState \notin {"WORKING", state} => "overwritten" \in faults'
           /\ UNCHANGED <<irp, WriteDataQueue, MWriteCancellingQueue, dev, int,
                          purger, device, MWriteIdleQueue, MWritePendingQueue,
                          MWriteCompletionQueue, MWTSentIrpQueue, signalling,
                          canceller, count>>
<1>1. /\ buf \in [Buffers -> TransferBuffer] /\ MWritePendingQueue \in Seq(Buffers)
      /\ MWritePendingQueue # <<>> /\ faults \in SUBSET Faults
  BY TypeParts DEF CancelPending
<1>2. Head(MWritePendingQueue) \in ToSet(MWritePendingQueue)
      /\ Head(MWritePendingQueue) \in Buffers
  BY <1>1, Members
<1>3. buf' = [buf EXCEPT ![Head(MWritePendingQueue)].Cancel = TRUE]
  BY DEF CancelPending, CancelFirst
<1>4. buf' \in [Buffers -> TransferBuffer]
      /\ \A b \in Buffers :
            buf'[b] = IF b = Head(MWritePendingQueue)
                      THEN [buf[b] EXCEPT !.Cancel = TRUE] ELSE buf[b]
  BY <1>1, <1>2, <1>3 DEF TransferBuffer
<1>5. /\ faults' \in SUBSET Faults /\ faults \subseteq faults'
      /\ faults' \subseteq faults \cup {"overwritten", "unpurged"}
      /\ wt.mwtState \notin {"WORKING", state} => "overwritten" \in faults'
  BY <1>1 DEF CancelPending, FaultIf, Faults
<1> QED BY <1>2, <1>4, <1>5
        DEF CancelPending, QueuesAlone, ThreadStep, bufferQueues

\* How the thread takes a cancellation, a purge or a stop.
Taken(event) ==
    /\ wt' \in WriteThread /\ wt'.set = wt.set \ {event}
    /\ wt'.bFlowOn = wt.bFlowOn /\ wt'.pWriteCurrent = wt.pWriteCurrent
    /\ wt'.bCancelled => wt.bCancelled \/ event = "CANCEL"
RequestTaken(event, state) ==
    /\ wt.pc = event /\ Taken(event)
    /\ \/ /\ CancelPending(state) /\ wt'.pc = "check" /\ wt'.mwtState = state
          /\ wt'.bCancelled = wt.bCancelled
       \/ /\ MWritePendingQueue = <<>> /\ ThreadOnly
          /\ wt'.pc = "top" /\ wt'.mwtState = wt.mwtState

LEMMA Requests ==
    ASSUME TypeInv
    PROVE  /\ CancelThread => RequestTaken("CANCEL", "CANCELLING")
           /\ Purge => RequestTaken("PURGE", "PURGING")
           /\ Stop => RequestTaken("STOP", "STOPPING")
<1>0. wt \in WriteThread
  BY TypeParts
<1> USE DEF WriteThread, WritePcs, WritePoints, MwtState
<1>1. ASSUME CancelThread PROVE RequestTaken("CANCEL", "CANCELLING")
  <2>1. CASE /\ CancelPending("CANCELLING")
             /\ wt' = [wt EXCEPT !.set = @ \ {"CANCEL"}, !.bWriteStopped = TRUE,
                                 !.pc = "check", !.mwtState = "CANCELLING"]
    BY <1>0, <1>1, <2>1 DEF CancelThread, RequestTaken, Taken
  <2>2. CASE /\ MWritePendingQueue = <<>> /\ ThreadOnly
             /\ wt' = [wt EXCEPT !.set = @ \ {"CANCEL"}, !.bWriteStopped = TRUE,
                                 !.pc = "top", !.bCancelled = TRUE]
    BY <1>0, <1>1, <2>2 DEF CancelThread, RequestTaken, Taken
  <2> QED BY <1>0, <1>1, <2>1, <2>2 DEF CancelThread
<1>2. ASSUME Purge PROVE RequestTaken("PURGE", "PURGING")
  <2>1. CASE /\ CancelPending("PURGING")
             /\ wt' = [wt EXCEPT !.set = @ \ {"PURGE"}, !.pc = "check",
                                 !.mwtState = "PURGING"]
    BY <1>0, <1>2, <2>1 DEF Purge, RequestTaken, Taken
  <2>2. CASE /\ MWritePendingQueue = <<>> /\ ThreadOnly
             /\ wt' = [wt EXCEPT !.set = @ \ {"PURGE"}, !.pc = "top", !.bPurged = TRUE]
    BY <1>0, <1>2, <2>2 DEF Purge, RequestTaken, Taken
  <2> QED BY <1>0, <1>2, <2>1, <2>2 DEF Purge
<1>3. ASSUME Stop PROVE RequestTaken("STOP", "STOPPING")
  <2>1. CASE /\ CancelPending("STOPPING")
             /\ wt' = [wt EXCEPT !.set = @ \ {"STOP"}, !.bWriteStopped = TRUE,
                                 !.pc = "check", !.mwtState = "STOPPING"]
    BY <1>0, <1>3, <2>1 DEF Stop, RequestTaken, Taken
  <2>2. CASE /\ MWritePendingQueue = <<>> /\ ThreadOnly
             /\ wt' = [wt EXCEPT !.set = @ \ {"STOP"}, !.bWriteStopped = TRUE, !.pc = "top"]
    BY <1>0, <1>3, <2>2 DEF Stop, RequestTaken, Taken
  <2> QED BY <1>0, <1>3, <2>1, <2>2 DEF Stop
<1> QED BY <1>1, <1>2, <1>3

LEMMA RequestType ==
    ASSUME TypeInv, CancelThread \/ Purge \/ Stop
    PROVE  TypeInv'
<1>1. wt' \in WriteThread /\ (ThreadOnly \/ \E state \in MwtState : CancelPending(state))
  BY Requests DEF RequestTaken, Taken, MwtState
<1>2. CASE ThreadOnly
  BY <1>1, <1>2, ThreadOnlyType
<1>3. CASE \E state \in MwtState : CancelPending(state)
  BY <1>1, <1>3, CancelPendingIs DEF TypeInv, TypeOK
<1> QED BY <1>1, <1>2, <1>3

LEMMA FlowOffType ==
    ASSUME TypeInv, FlowOff
    PROVE  /\ TypeInv' /\ wt'.set = wt.set \ {"FLOW_OFF"}
           /\ wt'.pc = IF MWritePendingQueue = <<>> THEN "top" ELSE "abort"
           /\ wt'.mwtState = "FLOW_OFF" /\ wt'.bFlowOn = FALSE
           /\ wt'.pWriteCurrent = wt.pWriteCurrent /\ wt'.bCancelled = wt.bCancelled
<1>1. /\ wt \in WriteThread /\ faults \in SUBSET Faults
      /\ int \in [flow : {"on", "waiting", "off", "late"}, acked : BOOLEAN]
  BY TypeParts
<1>2. PICK pc \in {"abort", "top"} :
         /\ wt' = [wt EXCEPT !.set = @ \ {"FLOW_OFF"}, !.bWriteStopped = TRUE,
                             !.bFlowOn = FALSE, !.mwtState = "FLOW_OFF", !.pc = pc]
         /\ pc = IF MWritePendingQueue = <<>> THEN "top" ELSE "abort"
  BY <1>1 DEF FlowOff, Goto
<1>3. /\ wt' \in WriteThread /\ wt'.set = wt.set \ {"FLOW_OFF"}
      /\ wt'.pc = IF MWritePendingQueue = <<>> THEN "top" ELSE "abort"
      /\ wt'.mwtState = "FLOW_OFF" /\ wt'.bFlowOn = FALSE
      /\ wt'.pWriteCurrent = wt.pWriteCurrent /\ wt'.bCancelled = wt.bCancelled
  <2>1. pc \in WritePcs /\ "FLOW_OFF" \in MwtState
    BY DEF WritePcs, WritePoints, MwtState
  <2>2. /\ wt' \in WriteThread /\ wt'.set = wt.set \ {"FLOW_OFF"} /\ wt'.pc = pc
        /\ wt'.mwtState = "FLOW_OFF" /\ wt'.bFlowOn = FALSE
        /\ wt'.pWriteCurrent = wt.pWriteCurrent /\ wt'.bCancelled = wt.bCancelled
    BY <1>1, <1>2, <2>1 DEF WriteThread
  <2> QED BY <1>2, <2>2
<1>4. int' \in [flow : {"on", "waiting", "off", "late"}, acked : BOOLEAN]
      /\ faults' \in SUBSET Faults
  BY <1>1 DEF FlowOff, FaultIf, Faults
<1>5. UNCHANGED <<irp, WriteDataQueue, buf, MWriteCancellingQueue, dev, purger, device,
                  MWriteIdleQueue, MWritePendingQueue, MWriteCompletionQueue,
                  MWTSentIrpQueue, signalling, canceller, count>>
  BY DEF FlowOff, QueuesAlone, ThreadStep, bufferQueues
<1> QED BY <1>3, <1>4, <1>5 DEF TypeInv, TypeOK

LEMMA FlowOffAbortType ==
    ASSUME TypeInv, FlowOffAbort
    PROVE  TypeInv'
<1>1. wt' = Goto(wt, "top") /\ wt \in WriteThread /\ "top" \in WritePoints
  BY TypeParts DEF FlowOffAbort, WritePoints
<1>2. wt' \in WriteThread
  BY <1>1, GotoThread
<1>3. BusMoves
  BY AbortMoves DEF FlowOffAbort
<1> QED BY <1>2, <1>3 DEF TypeInv, TypeOK, BusMoves, FlowOffAbort, QueuesAlone,
           ThreadStep, bufferQueues

\* The record of the transfer that is handled.
LEMMA MarkedIs ==
    ASSUME TypeInv, NEW b \in Buffers
    PROVE  /\ Marked(b) \in Seq(SentIrp) /\ Len(Marked(b)) = Len(Records)
           /\ Len(Records) \in Nat /\ DOMAIN Records = 1 .. Len(Records)
           /\ DOMAIN Marked(b) = DOMAIN Records
           /\ \A k \in DOMAIN Records :
                 /\ Marked(b)[k].SentIrp = Records[k].SentIrp
                 /\ Marked(b)[k].MWTBuf = Records[k].MWTBuf
                 /\ Marked(b)[k].IrpReturned <=>
                       Records[k].IrpReturned \/ Records[k].MWTBuf = b
<1>1. Records \in Seq(SentIrp) /\ Len(Records) \in Nat
      /\ DOMAIN Records = 1 .. Len(Records)
  BY TypeParts
<1>2. \A k \in DOMAIN Records : Records[k] \in SentIrp
  BY <1>1
<1>3. Marked(b) = [k \in DOMAIN Records |->
                     [Records[k] EXCEPT !.IrpReturned = @ \/ Records[k].MWTBuf = b]]
  BY DEF Marked, Records
<1>4. \A k \in DOMAIN Records :
         /\ Marked(b)[k] \in SentIrp
         /\ Marked(b)[k].SentIrp = Records[k].SentIrp
         /\ Marked(b)[k].MWTBuf = Records[k].MWTBuf
         /\ Marked(b)[k].IrpReturned <=>
               Records[k].IrpReturned \/ Records[k].MWTBuf = b
  <2> SUFFICES ASSUME NEW k \in DOMAIN Records
               PROVE  /\ Marked(b)[k] \in SentIrp
                      /\ Marked(b)[k].SentIrp = Records[k].SentIrp
                      /\ Marked(b)[k].MWTBuf = Records[k].MWTBuf
                      /\ Marked(b)[k].IrpReturned <=>
                            Records[k].IrpReturned \/ Records[k].MWTBuf = b
    OBVIOUS
  <2> DEFINE x == Records[k].IrpReturned \/ Records[k].MWTBuf = b
  <2>1. x \in BOOLEAN /\ Marked(b)[k] = [Records[k] EXCEPT !.IrpReturned = x]
    BY <1>3
  <2> HIDE DEF x
  <2>2. /\ Marked(b)[k] \in SentIrp
        /\ Marked(b)[k].SentIrp = Records[k].SentIrp
        /\ Marked(b)[k].MWTBuf = Records[k].MWTBuf
        /\ Marked(b)[k].IrpReturned = x
    BY <1>2, <2>1 DEF SentIrp
  <2> QED BY <2>2 DEF x
<1>5. Marked(b) \in Seq(SentIrp) /\ DOMAIN Marked(b) = DOMAIN Records
      /\ Len(Marked(b)) = Len(Records)
  <2>1. \A k \in 1 .. Len(Records) : Marked(b)[k] \in SentIrp
    BY <1>1, <1>4
  <2>2. Marked(b) = [k \in 1 .. Len(Records) |-> Marked(b)[k]]
    BY <1>1, <1>3
  <2> DEFINE m == Marked(b)
  <2> HIDE DEF m
  <2>3. m \in Seq(SentIrp) /\ DOMAIN m = 1 .. Len(Records) /\ Len(m) = Len(Records)
    BY <1>1, <2>1, <2>2 DEF m
  <2> QED BY <1>1, <2>3 DEF m
<1> QED BY <1>1, <1>4, <1>5

LEMMA WithoutRecordIs ==
    ASSUME TypeInv, NEW b \in Buffers, NEW k \in DOMAIN Records, RecordOf(k, b)
    PROVE  /\ WithoutRecord(b) = RemoveAt(Marked(b), k)
           /\ WithoutRecord(b) \in Seq(SentIrp)
           /\ Len(WithoutRecord(b)) = Len(Records) - 1
           /\ \A j \in 1 .. Len(Records) - 1 :
                 WithoutRecord(b)[j] = Marked(b)[IF j < k THEN j ELSE j + 1]
<1>1. RecordsOf(b) = {j \in DOMAIN Records : Records[j].MWTBuf = b}
  BY DEF RecordsOf, Records
<1>2. k \in RecordsOf(b) /\ \A j \in RecordsOf(b) : j <= k
  BY <1>1, MarkedIs DEF RecordOf
<1>3. \A i \in RecordsOf(b) : (\A j \in RecordsOf(b) : j <= i) => i = k
  BY <1>1, <1>2, MarkedIs
<1>4. (CHOOSE i \in RecordsOf(b) : \A j \in RecordsOf(b) : j <= i) = k
  BY <1>2, <1>3
<1>5. WithoutRecord(b) = RemoveAt(Marked(b), k)
  BY <1>2, <1>4 DEF WithoutRecord
<1>6. Marked(b) \in Seq(SentIrp) /\ k \in 1 .. Len(Marked(b))
      /\ Len(Marked(b)) = Len(Records)
  BY MarkedIs
<1> HIDE DEF RecordOf
<1>7. /\ RemoveAt(Marked(b), k) \in Seq(SentIrp)
      /\ Len(RemoveAt(Marked(b), k)) = Len(Marked(b)) - 1
      /\ \A j \in 1 .. Len(Marked(b)) - 1 :
            RemoveAt(Marked(b), k)[j] = IF j < k THEN Marked(b)[j] ELSE Marked(b)[j + 1]
  BY <1>6, RemoveAtSeq
<1> QED BY <1>5, <1>6, <1>7

-----------------------------------------------------------------------------
(***************************************************************************)
(* The handling of a completion.                                           *)
(***************************************************************************)
\* The buffer that is handled, and its status as the thread sees it.
Done == Head(MWriteCompletionQueue)
DoneStatus == IF dev.present THEN buf[Done].Status ELSE "CANCELLED"
Handles == wt.pc \in Buffers /\ MWriteCompletionQueue # <<>>

\* The fields of a write that its transfer's outcome does not touch.
Unanswered(new, old) ==
    /\ new.where = old.where /\ new.routine = old.routine
    /\ new.cancelled = old.cancelled /\ new.Status = old.Status

LEMMA DoneIs ==
    ASSUME TypeInv, BufferInv, RecordInv, Handles
    PROVE  /\ Done \in Buffers /\ Done \in ToSet(MWriteCompletionQueue)
           /\ Done \in Out /\ buf[Done].Status \in Finished
           /\ DoneStatus \in Finished /\ DoneStatus \in TransferStatus
           /\ DoneStatus = "SUCCESS" => buf[Done].Status = "SUCCESS"
           /\ buf[Done].CallingIrp \in Sent
           /\ \E k \in DOMAIN Records : RecordOf(k, Done)
<1>1. MWriteCompletionQueue \in Seq(Buffers) /\ MWriteCompletionQueue # <<>>
      /\ buf \in [Buffers -> TransferBuffer]
  BY TypeParts DEF Handles
<1>2. Done \in ToSet(MWriteCompletionQueue) /\ Done \in Buffers
  BY <1>1, Members DEF Done
<1>3. buf[Done].Status \in Finished /\ buf[Done].CallingIrp \in Sent
  BY <1>1, <1>2 DEF BufferInv, TransferBuffer
<1>4. Done \in Out
  BY <1>2, <1>3 DEF Out, Finished
<1>5. \E k \in DOMAIN Records : RecordOf(k, Done)
  BY <1>4 DEF RecordInv
<1>6. DoneStatus \in Finished /\ DoneStatus \in TransferStatus
      /\ (DoneStatus = "SUCCESS" => buf[Done].Status = "SUCCESS")
  BY <1>3 DEF DoneStatus, Finished, TransferStatus
<1> QED BY <1>2, <1>3, <1>4, <1>5, <1>6

LEMMA AnswerTransferIs ==
    ASSUME TypeInv, NEW b \in Buffers, NEW status \in TransferStatus
    PROVE  /\ AnswerTransfer(b, status) \in [Writes -> WriteIrp]
           /\ \A v \in Writes :
                 LET new == AnswerTransfer(b, status)[v]
                 IN  /\ v # buf[b].CallingIrp => new = irp[v]
                     /\ v = buf[b].CallingIrp /\ irp[v].routine = "set" =>
                           /\ new.where = "answered" /\ new.routine = "none"
                           /\ new.Status = status
                           /\ new.cancelled = irp[v].cancelled
                     /\ v = buf[b].CallingIrp /\ irp[v].routine # "set" =>
                           Unanswered(new, irp[v])
<1> DEFINE w == buf[b].CallingIrp
           n == IF w = 0 THEN 0 ELSE Adjusted(b)[w].Information + buf[b].Transferred
<1>1. /\ irp \in [Writes -> WriteIrp] /\ w \in Sent /\ buf[b].Transferred \in Nat
  BY TypeParts DEF TransferBuffer
<1>2. Adjusted(b) \in [Writes -> WriteIrp]
  BY AdjustedIs
<1>3. \A v \in Writes :
         /\ Unanswered(Adjusted(b)[v], irp[v])
         /\ v # w => Adjusted(b)[v] = irp[v]
  <2> SUFFICES ASSUME NEW v \in Writes
               PROVE  /\ Unanswered(Adjusted(b)[v], irp[v])
                      /\ v # w => Adjusted(b)[v] = irp[v]
    OBVIOUS
  <2>1. CASE Adjusted(b)[v] = irp[v]
    BY <2>1 DEF Unanswered
  <2>2. CASE /\ v = w
             /\ Adjusted(b)[v] = [irp[v] EXCEPT !.Information = buf[b].Transferred]
    BY <1>1, <2>2 DEF Unanswered, WriteIrp
  <2> QED BY <2>1, <2>2, AdjustedIs
<1>4. n \in Nat
  BY <1>1, <1>2 DEF Sent, WriteIrp
<1>5. AnswerTransfer(b, status) = Answer(Adjusted(b), w, status, n)
  BY DEF AnswerTransfer
<1> HIDE DEF w, n
<1>6. /\ Answer(Adjusted(b), w, status, n) \in [Writes -> WriteIrp]
      /\ \A v \in Writes :
            Answer(Adjusted(b), w, status, n)[v] =
               IF v = w /\ Adjusted(b)[w].routine = "set"
               THEN AnsweredIrp(Adjusted(b)[w], status, n) ELSE Adjusted(b)[v]
  BY <1>1, <1>2, <1>4, AnswerIs
<1>7. ASSUME NEW v \in Writes
      PROVE  LET new == AnswerTransfer(b, status)[v]
             IN  /\ v # w => new = irp[v]
                 /\ v = w /\ irp[v].routine = "set" =>
                       /\ new.where = "answered" /\ new.routine = "none"
                       /\ new.Status = status
                       /\ new.cancelled = irp[v].cancelled
                 /\ v = w /\ irp[v].routine # "set" => Unanswered(new, irp[v])
  <2>1. Adjusted(b)[v] \in WriteIrp /\ Adjusted(b)[v].routine = irp[v].routine
        /\ Adjusted(b)[v].cancelled = irp[v].cancelled
    BY <1>2, <1>3 DEF Unanswered
  <2>2. CASE v # w
    BY <1>3, <1>5, <1>6, <2>2
  <2>3. CASE v = w /\ irp[v].routine = "set"
    <3>1. AnswerTransfer(b, status)[v] = AnsweredIrp(Adjusted(b)[v], status, n)
      BY <1>5, <1>6, <2>1, <2>3
    <3> QED BY <1>4, <2>1, <2>3, <3>1, AnsweredType
  <2>4. CASE v = w /\ irp[v].routine # "set"
    <3>1. AnswerTransfer(b, status)[v] = Adjusted(b)[v]
      BY <1>5, <1>6, <2>1, <2>4
    <3> QED BY <1>3, <2>4, <3>1
  <2> QED BY <2>2, <2>3, <2>4
<1> QED BY <1>5, <1>6, <1>7 DEF w

LEMMA CountErrorType ==
    ASSUME TypeInv, NEW status, NEW halted \in BOOLEAN, CountError(status, halted)
    PROVE  dev' \in Device
<1>1. dev \in Device /\ NumOfRetriesOnError \in Nat
  BY TypeParts, WriteRetriesAssumption
<1>2. CASE status # "ERROR"
  <2>1. dev' = [dev EXCEPT !.WtErrorCount = 0, !.halted = halted]
    BY <1>2 DEF CountError
  <2> QED BY <1>1, <2>1 DEF Device
<1>3. CASE status = "ERROR" /\ GivesUp(status)
  <2>1. dev' = [dev EXCEPT !.WtErrorCount = NumOfRetriesOnError,
                           !.present = FALSE, !.halted = halted]
    BY <1>3 DEF CountError
  <2>2. ASSUME NEW n \in Nat, NEW present \in BOOLEAN
        PROVE  [dev EXCEPT !.WtErrorCount = n, !.present = present, !.halted = halted]
                  \in Device
    BY <1>1 DEF Device
  <2> QED BY <1>1, <2>1, <2>2
<1>4. CASE status = "ERROR" /\ ~GivesUp(status)
  <2>1. dev' = [dev EXCEPT !.WtErrorCount = dev.WtErrorCount + 1, !.halted = halted]
    BY <1>4 DEF CountError
  <2>2. dev.WtErrorCount + 1 \in Nat
    BY <1>1 DEF Device
  <2>3. ASSUME NEW n \in Nat
        PROVE  [dev EXCEPT !.WtErrorCount = n, !.halted = halted] \in Device
    BY <1>1 DEF Device
  <2> QED BY <2>1, <2>2, <2>3
<1> QED BY <1>2, <1>3, <1>4

\* The buffer goes from the completion queue to the idle queue.
LEMMA ReleaseIs ==
    ASSUME TypeInv, Handles, Release(Done)
    PROVE  /\ MWriteCompletionQueue' = Tail(MWriteCompletionQueue)
           /\ MWriteIdleQueue' = Append(MWriteIdleQueue, Done)
           /\ MWriteCompletionQueue' \in Seq(Buffers) /\ MWriteIdleQueue' \in Seq(Buffers)
           /\ UNCHANGED <<MWritePendingQueue, MWriteCancellingQueue, purger, device,
                          signalling, canceller, count>>
           /\ Defined
<1>1. MWriteCompletionQueue \in Seq(Buffers) /\ MWriteCompletionQueue # <<>>
      /\ MWriteIdleQueue \in Seq(Buffers)
  BY TypeParts DEF Handles
<1>2. Done \in Buffers
  BY <1>1, Members DEF Done
<1> QED BY <1>1, <1>2 DEF Release, ThreadStep

LEMMA CompleteWriteType ==
    ASSUME TypeInv, BufferInv, RecordInv, CompleteWrite
    PROVE  /\ TypeInv' /\ wt'.set \subseteq (wt.set \ {Done}) \cup {"STOP"}
           /\ wt.set \ {Done} \subseteq wt'.set
           /\ wt'.pc \in {"check", "top"} /\ wt'.bFlowOn = wt.bFlowOn
           /\ wt'.bCancelled => wt.bCancelled \/ MWritePendingQueue = <<>>
<1> DEFINE b == Done
           status == DoneStatus
           more == wt.mwtState # "WORKING" /\ MWritePendingQueue # <<>>
           thread == [wt EXCEPT !.set = @ \ {b}]
           done == StopsItself(thread, status)
           halted == dev.halted /\ ~(dev.present /\ buf[b].Status = "ERROR")
<1>1. /\ wt \in WriteThread /\ buf \in [Buffers -> TransferBuffer] /\ dev \in Device
      /\ faults \in SUBSET Faults /\ Records \in Seq(SentIrp)
      /\ MWritePendingQueue \in Seq(Buffers)
  BY TypeParts
<1>2. Handles
  BY DEF CompleteWrite, Handles
<1>3. /\ b \in Buffers /\ status \in TransferStatus
      /\ \E k \in DOMAIN Records : RecordOf(k, b)
  BY <1>2, DoneIs
<1>4. /\ irp' = AnswerTransfer(b, status)
      /\ MWTSentIrpQueue' = WithoutRecord(b)
      /\ buf' = [x \in Buffers |->
                    IF x = b THEN IdleBuffer
                    ELSE IF more /\ x = Head(MWritePendingQueue)
                    THEN [buf[x] EXCEPT !.Cancel = TRUE]
                    ELSE buf[x]]
      /\ CountError(status, halted)
      /\ wt' = [done EXCEPT !.pc = IF more THEN "check" ELSE "top",
                            !.bCancelled = @ \/ LastCancelled(more),
                            !.mwtState = IF more THEN @ ELSE "WORKING"]
      /\ faults' = faults \cup FaultIf(Rewound(b), "rewound")
                          \cup FaultIf(ClearsAnother(b), "cleared")
                          \cup FaultIf(Completed(buf[b].CallingIrp), "broken")
      /\ UNCHANGED <<WriteDataQueue, int>>
      /\ Release(b)
  BY DEF CompleteWrite, Done, DoneStatus
<1>5. more \in BOOLEAN /\ halted \in BOOLEAN
  BY <1>1 DEF Device
<1>6. /\ thread \in WriteThread /\ thread.set = wt.set \ {b}
      /\ thread.bFlowOn = wt.bFlowOn /\ thread.bCancelled = wt.bCancelled
  BY <1>1 DEF WriteThread
<1>7. /\ done \in WriteThread /\ done.set \subseteq thread.set \cup {"STOP"}
      /\ thread.set \subseteq done.set
      /\ done.bFlowOn = thread.bFlowOn /\ done.bCancelled = thread.bCancelled
  <2> HIDE DEF thread
  <2>1. CASE GivesUp(status)
    <3>1. done = [thread EXCEPT !.bWriteStopped = TRUE, !.set = thread.set \cup {"STOP"}]
      BY <2>1 DEF StopsItself
    <3>2. "STOP" \in WriteEvents \cup Buffers
      BY DEF WriteEvents
    <3> QED BY <1>6, <3>1, <3>2 DEF WriteThread
  <2>2. CASE ~GivesUp(status)
    <3>1. done = thread
      BY <2>2 DEF StopsItself
    <3> QED BY <1>6, <3>1
  <2> QED BY <2>1, <2>2
<1>8. /\ wt' \in WriteThread /\ wt'.set = done.set /\ wt'.pc \in {"check", "top"}
      /\ wt'.bFlowOn = done.bFlowOn
      /\ wt'.bCancelled => done.bCancelled \/ LastCancelled(more)
  <2> DEFINE pc == IF more THEN "check" ELSE "top"
             ended == done.bCancelled \/ LastCancelled(more)
             state == IF more THEN done.mwtState ELSE "WORKING"
  <2> HIDE DEF done
  <2>1. wt' = [done EXCEPT !.pc = pc, !.bCancelled = ended, !.mwtState = state]
    BY <1>4, <1>5
  <2>2. /\ pc \in {"check", "top"} /\ pc \in WritePcs
        /\ ended \in BOOLEAN /\ state \in MwtState
    BY <1>7 DEF WriteThread, WritePcs, WritePoints, MwtState
  <2> HIDE DEF pc, ended, state
  <2>3. /\ wt' \in WriteThread /\ wt'.set = done.set /\ wt'.pc = pc
        /\ wt'.bFlowOn = done.bFlowOn /\ wt'.bCancelled = ended
    BY <1>7, <2>1, <2>2 DEF WriteThread
  <2> QED BY <2>2, <2>3 DEF ended
<1>9. LastCancelled(more) => MWritePendingQueue = <<>>
  BY DEF LastCancelled
<1> HIDE DEF thread, done
<1>10. irp' \in [Writes -> WriteIrp]
  BY <1>3, <1>4, AnswerTransferIs
<1>11. MWTSentIrpQueue' \in Seq(SentIrp)
  BY <1>3, <1>4, WithoutRecordIs
<1>12. buf' \in [Buffers -> TransferBuffer]
  <2>1. IdleBuffer \in TransferBuffer
    BY DEF IdleBuffer, TransferBuffer, TransferStatus, Sent
  <2>2. \A x \in Buffers : [buf[x] EXCEPT !.Cancel = TRUE] \in TransferBuffer
    BY <1>1 DEF TransferBuffer
  <2> HIDE DEF b, more
  <2> QED BY <1>1, <1>4, <2>1, <2>2
<1>13. dev' \in Device
  BY <1>4, <1>5, CountErrorType
<1>14. faults' \in SUBSET Faults
  BY <1>1, <1>4 DEF FaultIf, Faults
<1>15. /\ MWriteCompletionQueue' \in Seq(Buffers) /\ MWriteIdleQueue' \in Seq(Buffers)
       /\ UNCHANGED <<MWritePendingQueue, MWriteCancellingQueue, purger, device,
                      signalling, canceller, count>>
  BY <1>2, <1>4, ReleaseIs
<1>16. TypeInv'
  BY <1>4, <1>8, <1>10, <1>11, <1>12, <1>13, <1>14, <1>15 DEF TypeInv, TypeOK
<1> QED BY <1>6, <1>7, <1>8, <1>9, <1>16

\* With the flow off, what is kept of the records and of the writes.
KeptRecords ==
    IF DoneStatus = "SUCCESS" THEN WithoutRecord(Done) ELSE Marked(Done)
KeptIrps ==
    IF DoneStatus = "SUCCESS" THEN AnswerTransfer(Done, DoneStatus)
    ELSE Adjusted(Done)
Resend == AllReturned(Done)

LEMMA WritesOfIs ==
    ASSUME NEW records \in Seq(SentIrp)
    PROVE  /\ WritesOf(records) \in Seq(Writes)
           /\ \A w : w \in ToSet(WritesOf(records)) <=>
                 w \in Writes /\ \E k \in DOMAIN records : records[k].SentIrp = w
<1> DEFINE s == [k \in DOMAIN records |-> records[k].SentIrp]
<1>1. DOMAIN records = 1 .. Len(records) /\ Len(records) \in Nat
      /\ \A k \in DOMAIN records : records[k].SentIrp \in Sent
  <2>1. DOMAIN records = 1 .. Len(records) /\ Len(records) \in Nat
        /\ \A k \in DOMAIN records : records[k] \in SentIrp
    OBVIOUS
  <2> QED BY <2>1 DEF SentIrp
<1>2. s \in Seq(Sent) /\ DOMAIN s = DOMAIN records
      /\ \A k \in DOMAIN records : s[k] = records[k].SentIrp
  BY <1>1
<1>3. WritesOf(records) = Keep(s, Writes)
  BY DEF WritesOf
<1> HIDE DEF s
<1>4. Keep(s, Writes) \in Seq(Sent) /\ ToSet(Keep(s, Writes)) = ToSet(s) \cap Writes
  BY <1>2, KeepElements
<1>5. ToSet(s) = {s[k] : k \in DOMAIN s}
  BY DEF ToSet
<1>6. \A w : w \in ToSet(Keep(s, Writes)) <=>
                w \in Writes /\ \E k \in DOMAIN records : records[k].SentIrp = w
  BY <1>2, <1>4, <1>5
<1>7. Keep(s, Writes) \in Seq(Writes)
  <2> DEFINE q == Keep(s, Writes)
  <2>1. q \in Seq(Sent) /\ ToSet(q) \subseteq Writes
    BY <1>4
  <2> HIDE DEF q
  <2>2. DOMAIN q = 1 .. Len(q) /\ Len(q) \in Nat /\ \A i \in 1 .. Len(q) : q[i] \in Writes
    BY <2>1 DEF ToSet
  <2>3. q \in Seq(Writes)
    BY <2>1, <2>2
  <2> QED BY <2>3 DEF q
<1> QED BY <1>3, <1>6, <1>7

LEMMA KeptIs ==
    ASSUME TypeInv, BufferInv, RecordInv, Handles
    PROVE  /\ KeptRecords \in Seq(SentIrp) /\ KeptIrps \in [Writes -> WriteIrp]
           /\ WritesOf(KeptRecords) \in Seq(Writes)
           /\ Resend \in BOOLEAN
<1>1. /\ Done \in Buffers /\ DoneStatus \in TransferStatus
      /\ \E k \in DOMAIN Records : RecordOf(k, Done)
  BY DoneIs
<1>2. KeptRecords \in Seq(SentIrp)
  BY <1>1, WithoutRecordIs, MarkedIs DEF KeptRecords
<1>3. KeptIrps \in [Writes -> WriteIrp]
  BY <1>1, AnswerTransferIs, AdjustedIs DEF KeptIrps
<1> QED BY <1>2, <1>3, WritesOfIs DEF Resend, AllReturned

LEMMA CompleteFlowOffType ==
    ASSUME TypeInv, BufferInv, RecordInv, CompleteFlowOff
    PROVE  /\ TypeInv' /\ wt'.set = wt.set \ {Done} /\ wt'.pc = "top"
           /\ wt'.bFlowOn = wt.bFlowOn /\ wt'.bCancelled = wt.bCancelled
           /\ wt'.mwtState = IF Resend THEN "WORKING" ELSE wt.mwtState
<1> DEFINE b == Done
           status == DoneStatus
           head == Head(KeptRecords).SentIrp
           zeroFirst ==
               IF ~Resend \/ KeptRecords = <<>> THEN wt.bSendZeroLength
               ELSE IF head = 0 THEN TRUE
                    ELSE /\ wt.bSendZeroLength
                         /\ ~(/\ KeptIrps[head].Information > 0
                              /\ Packets[head] > KeptIrps[head].Information)
           state == IF Resend THEN "WORKING" ELSE wt.mwtState
<1>1. /\ wt \in WriteThread /\ buf \in [Buffers -> TransferBuffer] /\ dev \in Device
      /\ faults \in SUBSET Faults /\ Records \in Seq(SentIrp)
      /\ WriteDataQueue \in Seq(Writes)
      /\ int \in [flow : {"on", "waiting", "off", "late"}, acked : BOOLEAN]
  BY TypeParts
<1>2. Handles
  BY DEF CompleteFlowOff, Handles
<1>3. /\ b \in Buffers /\ KeptRecords \in Seq(SentIrp) /\ KeptIrps \in [Writes -> WriteIrp]
      /\ WritesOf(KeptRecords) \in Seq(Writes) /\ Resend \in BOOLEAN
  BY <1>2, DoneIs, KeptIs
<1>4. /\ irp' = KeptIrps
      /\ WriteDataQueue' = IF Resend THEN WritesOf(KeptRecords) \o WriteDataQueue
                           ELSE WriteDataQueue
      /\ MWTSentIrpQueue' = IF Resend THEN <<>> ELSE KeptRecords
      /\ buf' = [buf EXCEPT ![b] = IdleBuffer]
      /\ IF status = "SUCCESS"
         THEN CountError(status, dev.halted)
         ELSE dev' = [dev EXCEPT !.halted =
                         @ /\ ~(dev.present /\ buf[b].Status = "ERROR")]
      /\ wt' = [wt EXCEPT !.pc = "top", !.set = @ \ {b},
                          !.bSendZeroLength = zeroFirst,
                          !.mwtState = IF Resend THEN "WORKING" ELSE @]
      /\ int' = IF Resend THEN [int EXCEPT !.acked = TRUE] ELSE int
      /\ faults' = faults
            \cup FaultIf(Rewound(b), "rewound")
            \cup FaultIf(status # "SUCCESS" /\ buf[b].Cancel, "singled")
            \cup FaultIf(\/ Completed(buf[b].CallingIrp)
                         \/ Resend /\ \E x \in Range(WritesOf(KeptRecords)) :
                                         Relinked(x),
                         "broken")
      /\ Release(b)
  BY DEF CompleteFlowOff, Done, DoneStatus, KeptRecords, KeptIrps, Resend
<1>5. zeroFirst \in BOOLEAN /\ state \in MwtState
  BY <1>1 DEF WriteThread, MwtState
<1>6. wt' = [wt EXCEPT !.pc = "top", !.set = wt.set \ {b}, !.bSendZeroLength = zeroFirst,
                       !.mwtState = state]
  BY <1>1, <1>3, <1>4
<1> HIDE DEF zeroFirst, state
<1>7. /\ wt' \in WriteThread /\ wt'.set = wt.set \ {b} /\ wt'.pc = "top"
      /\ wt'.bFlowOn = wt.bFlowOn /\ wt'.bCancelled = wt.bCancelled
      /\ wt'.mwtState = state
  BY <1>1, <1>5, <1>6 DEF WriteThread, WritePcs, WritePoints
<1>8. WriteDataQueue' \in Seq(Writes)
  BY <1>1, <1>3, <1>4, ConcatIsSeq
<1>9. MWTSentIrpQueue' \in Seq(SentIrp)
  <2>1. <<>> \in Seq(SentIrp)
    OBVIOUS
  <2> QED BY <1>3, <1>4, <2>1, Zenon
<1>10. buf' \in [Buffers -> TransferBuffer]
  <2>1. IdleBuffer \in TransferBuffer
    BY DEF IdleBuffer, TransferBuffer, TransferStatus, Sent
  <2> QED BY <1>1, <1>4, <2>1
<1>11. dev' \in Device
  <2>1. CASE status = "SUCCESS"
    <3>1. dev.halted \in BOOLEAN /\ CountError(status, dev.halted)
      BY <1>1, <1>4, <2>1 DEF Device
    <3> QED BY <3>1, CountErrorType
  <2>2. CASE status # "SUCCESS"
    <3> DEFINE halted == dev.halted /\ ~(dev.present /\ buf[b].Status = "ERROR")
    <3>1. dev' = [dev EXCEPT !.halted = halted] /\ halted \in BOOLEAN
      BY <1>1, <1>4, <2>2 DEF Device
    <3> HIDE DEF halted
    <3> QED BY <1>1, <3>1 DEF Device
  <2> QED BY <2>1, <2>2
<1>12. faults' \in SUBSET Faults
  BY <1>1, <1>4 DEF FaultIf, Faults
<1>13. int' \in [flow : {"on", "waiting", "off", "late"}, acked : BOOLEAN]
  BY <1>1, <1>4
<1>14. /\ MWriteCompletionQueue' \in Seq(Buffers) /\ MWriteIdleQueue' \in Seq(Buffers)
       /\ UNCHANGED <<MWritePendingQueue, MWriteCancellingQueue, purger, device,
                      signalling, canceller, count>>
  BY <1>2, <1>4, ReleaseIs
<1>15. TypeInv'
  BY <1>3, <1>4, <1>7, <1>8, <1>9, <1>10, <1>11, <1>12, <1>13, <1>14
     DEF TypeInv, TypeOK
<1> QED BY <1>7, <1>15 DEF state

-----------------------------------------------------------------------------
(***************************************************************************)
(* Steps that leave every write and every buffer where it is.              *)
(***************************************************************************)
HandSame == /\ Sending' <=> Sending
            /\ Sending => wt'.pWriteCurrent = wt.pWriteCurrent
OnlyCancelled(b) ==
    /\ b \in ToSet(MWritePendingQueue) /\ ~Sending
    /\ buf'[b].CallingIrp = buf[b].CallingIrp /\ buf'[b].First = buf[b].First
    /\ buf'[b].Length = buf[b].Length /\ buf'[b].Status = buf[b].Status
    /\ buf'[b].Transferred = buf[b].Transferred
\* The IRP is completed or cancelled, or its cancel routine runs or puts itself
\* back.
IrpMoves(w) ==
    /\ irp'[w].Status = irp[w].Status /\ irp'[w].Information = irp[w].Information
    /\ \/ irp'[w].where = irp[w].where
       \/ irp[w].where = "answered" /\ irp'[w].where = "done"
    /\ irp'[w].routine = irp[w].routine
         \/ (irp[w].routine # "none" /\ irp'[w].routine # "none")
    /\ irp'[w].routine = "set" => irp[w].routine = "set" \/ Has(w)
    /\ irp'[w].routine = "running" => irp'[w].cancelled
Gone == wt.pc \in {"terminated", "none"}
Still ==
    /\ UNCHANGED <<WriteDataQueue, MWriteIdleQueue, MWritePendingQueue,
                   MWriteCompletionQueue, MWTSentIrpQueue>>
    /\ HandSame /\ count'.writes = count.writes
    /\ \A b \in Buffers : buf'[b] = buf[b] \/ OnlyCancelled(b) \/ Ends(b)
    /\ ToSet(device) \subseteq ToSet(device')
    /\ \A w \in Writes : irp'[w] = irp[w] \/ IrpMoves(w)
    /\ faults \subseteq faults'
    /\ wt.mwtState = "FLOW_OFF" /\ "overwritten" \notin faults' =>
          wt'.mwtState = "FLOW_OFF" \/ wt.pc = "none"
    /\ Gone' => Gone \/ NothingActive

\* A thread that ends, or has ended, has no transfer.
GoneInv == Gone => NothingActive

\* Signalling an event does not make the thread forget anything.
LEMMA SignalIs ==
    ASSUME TypeInv, NEW e \in ThreadEvents, wt' = Signal(wt, e)
    PROVE  /\ wt' \in WriteThread /\ wt'.set = wt.set \cup {e}
           /\ wt'.pc = IF wt.pc = "blocked" THEN e ELSE wt.pc
           /\ wt'.mwtState = wt.mwtState /\ wt'.bFlowOn = wt.bFlowOn
           /\ wt'.bCancelled = wt.bCancelled /\ wt'.pWriteCurrent = wt.pWriteCurrent
           /\ HandSame /\ (Gone' <=> Gone)
<1>1. wt \in WriteThread
  BY TypeParts
<1>2. /\ Signal(wt, e) \in WriteThread
      /\ Signal(wt, e) = [wt EXCEPT !.set = wt.set \cup {e}, !.pc = Signal(wt, e).pc]
      /\ Signal(wt, e).pc = IF wt.pc = "blocked" THEN e ELSE wt.pc
  BY <1>1, SignalThread
<1>3. /\ wt' \in WriteThread /\ wt'.set = wt.set \cup {e}
      /\ wt'.pc = IF wt.pc = "blocked" THEN e ELSE wt.pc
      /\ wt'.mwtState = wt.mwtState /\ wt'.bFlowOn = wt.bFlowOn
      /\ wt'.bCancelled = wt.bCancelled /\ wt'.pWriteCurrent = wt.pWriteCurrent
  <2> DEFINE pc == Signal(wt, e).pc
  <2>1. wt' = [wt EXCEPT !.set = wt.set \cup {e}, !.pc = pc]
    BY <1>2
  <2> HIDE DEF pc
  <2>2. /\ wt'.set = wt.set \cup {e} /\ wt'.pc = pc
        /\ wt'.mwtState = wt.mwtState /\ wt'.bFlowOn = wt.bFlowOn
        /\ wt'.bCancelled = wt.bCancelled /\ wt'.pWriteCurrent = wt.pWriteCurrent
    BY <1>1, <2>1 DEF WriteThread
  <2> QED BY <1>2, <2>2 DEF pc
<1>4. e \notin {"sending", "terminated", "none"}
  BY WriteBuffersAssumption DEF ThreadEvents, WriteEvents, WritePoints
<1>5. HandSame /\ (Gone' <=> Gone)
  BY <1>3, <1>4 DEF HandSame, Sending, Gone
<1> QED BY <1>3, <1>5

LEMMA MovesAreStill ==
    ASSUME TypeInv, BusMoves, wt' = wt, faults \subseteq faults',
           count'.writes = count.writes,
           UNCHANGED <<irp, WriteDataQueue, MWriteIdleQueue, MWritePendingQueue,
                       MWriteCompletionQueue, MWTSentIrpQueue>>
    PROVE  Still
BY DEF BusMoves, Still, HandSame, Sending, Gone

\* The bounds count something else than the writes.
LEMMA CountedIs ==
    ASSUME TypeInv,
           \/ count' = [count EXCEPT !.failures = @ + 1]
           \/ count' = [count EXCEPT !.irpCancels = @ + 1]
           \/ count' = [count EXCEPT !.flows = @ + 1]
           \/ count' = [count EXCEPT !.timeouts = @ + 1]
           \/ count' = [count EXCEPT !.stops = @ + 1]
           \/ count' = [count EXCEPT !.purges = @ + 1]
           \/ count' = [count EXCEPT !.cancels = @ + 1]
           \/ count' = [count EXCEPT !.entered = @ + 1]
           \/ count' = [count EXCEPT !.purged = count.writes]
           \/ count' = count
    PROVE  count' \in AnySpent /\ count'.writes = count.writes
<1>1. count \in AnySpent
  BY TypeParts
<1>2. CASE count' = [count EXCEPT !.failures = @ + 1]
  BY <1>1, <1>2 DEF AnySpent
<1>3. CASE count' = [count EXCEPT !.irpCancels = @ + 1]
  BY <1>1, <1>3 DEF AnySpent
<1>4. CASE count' = [count EXCEPT !.flows = @ + 1]
  BY <1>1, <1>4 DEF AnySpent
<1>5. CASE count' = [count EXCEPT !.timeouts = @ + 1]
  BY <1>1, <1>5 DEF AnySpent
<1>6. CASE count' = [count EXCEPT !.stops = @ + 1]
  BY <1>1, <1>6 DEF AnySpent
<1>7. CASE count' = [count EXCEPT !.purges = @ + 1]
  BY <1>1, <1>7 DEF AnySpent
<1>8. CASE count' = [count EXCEPT !.cancels = @ + 1]
  BY <1>1, <1>8 DEF AnySpent
<1>9. CASE count' = [count EXCEPT !.entered = @ + 1]
  BY <1>1, <1>9 DEF AnySpent
<1>10. CASE count' = [count EXCEPT !.purged = count.writes]
  BY <1>1, <1>10 DEF AnySpent
<1> QED BY <1>1, <1>2, <1>3, <1>4, <1>5, <1>6, <1>7, <1>8, <1>9, <1>10

\* The transfers that the lower driver ends.
LEMMA BusStill ==
    ASSUME TypeInv, BusData \/ BusError \/ BusCancelled
    PROVE  TypeInv' /\ Still
<1>1. BusMoves
  BY BusDataMoves, BusErrorMoves, BusCancelledMoves
<1>2. /\ UNCHANGED <<irp, WriteDataQueue, MWriteIdleQueue, MWriteCancellingQueue,
                     MWTSentIrpQueue, wt, int, canceller, purger, faults>>
      /\ UNCHANGED <<MWritePendingQueue, MWriteCompletionQueue, signalling>>
  BY DEF BusData, BusError, BusCancelled, BusStep, BusAlone
<1>3. dev' \in Device /\ count' \in AnySpent /\ count'.writes = count.writes
  <2>1. dev' = dev \/ dev' = [dev EXCEPT !.halted = TRUE]
    BY DEF BusData, BusError, BusCancelled
  <2>2. dev' \in Device
    BY <2>1, TypeParts DEF Device
  <2>3. count' = count \/ count' = [count EXCEPT !.failures = @ + 1]
    BY DEF BusData, BusError, BusCancelled
  <2> QED BY <2>2, <2>3, CountedIs
<1>4. TypeInv'
  BY <1>1, <1>2, <1>3 DEF TypeInv, TypeOK, BusMoves
<1> QED BY <1>1, <1>2, <1>3, <1>4, MovesAreStill

LEMMA SignalStill ==
    ASSUME TypeInv, WriteCompletionSignal
    PROVE  /\ TypeInv' /\ Still
           /\ \E b \in signalling :
                 /\ wt' = Signal(wt, b) /\ signalling' = signalling \ {b}
                 /\ b \in ToSet(MWriteCompletionQueue) \/ "stale" \in faults'
<1>1. PICK b \in signalling :
         /\ signalling' = signalling \ {b} /\ wt' = Signal(wt, b)
         /\ faults' = faults \cup
               FaultIf(~Contains(MWriteCompletionQueue, b), "stale")
  BY DEF WriteCompletionSignal
<1>2. /\ b \in Buffers /\ faults \in SUBSET Faults /\ b \in ThreadEvents
      /\ signalling \in SUBSET Buffers /\ MWriteCompletionQueue \in Seq(Buffers)
  BY <1>1, TypeParts DEF ThreadEvents
<1>3. /\ wt' \in WriteThread /\ HandSame /\ (Gone' <=> Gone) /\ wt'.mwtState = wt.mwtState
  BY <1>1, <1>2, SignalIs
<1>4. /\ UNCHANGED <<irp, WriteDataQueue, buf, MWriteIdleQueue, MWritePendingQueue,
                     MWriteCompletionQueue, MWriteCancellingQueue, MWTSentIrpQueue,
                     dev, int, canceller, purger, count, device>>
  BY DEF WriteCompletionSignal, bufferQueues, callers
<1>5. faults' \in SUBSET Faults /\ faults \subseteq faults'
  BY <1>1, <1>2 DEF FaultIf, Faults
<1>6. TypeInv'
  BY <1>1, <1>2, <1>3, <1>4, <1>5 DEF TypeInv, TypeOK
<1>7. Still
  BY <1>3, <1>4, <1>5 DEF Still
<1>8. b \in ToSet(MWriteCompletionQueue) \/ "stale" \in faults'
  BY <1>1, <1>2, Members DEF FaultIf
<1> QED BY <1>1, <1>6, <1>7, <1>8

\* The thread's own steps.
LEMMA ThreadOnlyStill ==
    ASSUME TypeInv, ThreadOnly, ~Sending, ~Sending', Gone' => Gone \/ NothingActive,
           wt.mwtState = "FLOW_OFF" => wt'.mwtState = "FLOW_OFF"
    PROVE  Still
BY DEF ThreadOnly, QueuesAlone, ThreadStep, bufferQueues, Still, HandSame

LEMMA ThreadAloneStill ==
    ASSUME TypeInv,
           Top \/ SendNothing \/ Check \/ Kick \/ CancelCurrent \/ CancelDone
             \/ Resume \/ FlowOn \/ CompleteNothing
    PROVE  /\ Still /\ wt'.mwtState = wt.mwtState
           /\ wt'.set \subseteq wt.set
           /\ wt'.pc \in {"terminated", "none"} => wt'.pc = "terminated"
<1>1. wt \in WriteThread
  BY TypeParts
<1>2. ~Sending
  BY WriteBuffersAssumption
     DEF Sending, Top, SendNothing, Check, Kick, CancelCurrent, CancelDone, Resume,
         FlowOn, CompleteNothing, WritePoints
<1>3. /\ wt'.mwtState = wt.mwtState /\ wt'.set \subseteq wt.set
      /\ \/ wt'.pc \in {"top", "send", "check", "blocked", "cancelling"}
         \/ wt'.pc = "terminated" /\ NothingActive
         \/ wt'.pc \in wt.set
  <2>1. CASE Check
    <3>1. CASE wt' = Goto(wt, "terminated") /\ NothingActive
      BY <1>1, <3>1 DEF Goto, WriteThread
    <3>2. CASE wt' = WaitAny(wt, WriteIndex)
      <4> DEFINE pc == WaitAny(wt, WriteIndex).pc
      <4>1. wt' = [wt EXCEPT !.pc = pc] /\ (pc = "blocked" \/ pc \in wt.set)
        BY <1>1, <3>2, WaitThread
      <4> HIDE DEF pc
      <4> QED BY <1>1, <4>1 DEF WriteThread
    <3> QED BY <2>1, <3>1, <3>2 DEF Check
  <2>2. CASE Top \/ SendNothing \/ CancelDone \/ CompleteNothing
    <3>1. \E pc \in {"top", "send", "check"} : wt' = [wt EXCEPT !.pc = pc]
      BY <2>2 DEF Top, SendNothing, CancelDone, CompleteNothing, Goto
    <3> QED BY <1>1, <3>1 DEF WriteThread
  <2>3. CASE Kick \/ CancelCurrent
    <3>1. \E pc \in {"top", "cancelling"}, e \in {"KICK", "CANCEL_CURRENT"} :
             wt' = [wt EXCEPT !.set = wt.set \ {e}, !.pc = pc]
      BY <2>3 DEF Kick, CancelCurrent, Clear
    <3> QED BY <1>1, <3>1 DEF WriteThread
  <2>4. CASE Resume
    <3>1. wt' = [[wt EXCEPT !.set = wt.set \ {"RESUME"}, !.pc = "top"]
                    EXCEPT !.bWriteStopped = dev.PowerSuspended]
      BY <2>4 DEF Resume, Clear
    <3> QED BY <1>1, <3>1 DEF WriteThread
  <2>5. CASE FlowOn
    <3>1. wt' = [[wt EXCEPT !.set = wt.set \ {"FLOW_ON"}, !.pc = "top"]
                    EXCEPT !.bWriteStopped = dev.PowerSuspended, !.bFlowOn = TRUE]
      BY <2>5 DEF FlowOn, Clear
    <3> QED BY <1>1, <3>1 DEF WriteThread
  <2> QED BY <2>1, <2>2, <2>3, <2>4, <2>5
<1>4. wt.set \cap {"sending", "terminated", "none"} = {}
  BY <1>1, WriteBuffersAssumption DEF WriteThread, WriteEvents, WritePoints
<1>5. ~Sending' /\ (Gone' => NothingActive)
      /\ (wt'.pc \in {"terminated", "none"} => wt'.pc = "terminated")
  BY <1>3, <1>4 DEF Sending, Gone
<1>6. ThreadOnly
  BY ThreadAloneType
<1>7. Still
  BY <1>2, <1>3, <1>5, <1>6, ThreadOnlyStill
<1> QED BY <1>3, <1>5, <1>7

LEMMA CancelNextStill ==
    ASSUME TypeInv, CancelNext
    PROVE  /\ Still /\ wt' = wt
           /\ MWriteCancellingQueue # <<>>
           /\ MWriteCancellingQueue' = Tail(MWriteCancellingQueue)
           /\ faults' = faults /\ irp' = irp
<1>1. /\ buf \in [Buffers -> TransferBuffer] /\ MWritePendingQueue \in Seq(Buffers)
      /\ MWriteCancellingQueue \in Seq(Buffers)
  BY TypeParts
<1>2. ~Sending /\ MWriteCancellingQueue # <<>> /\ wt' = wt
  BY DEF CancelNext, Sending
<1>3. UNCHANGED <<irp, WriteDataQueue, dev, int, purger, device, faults, MWriteIdleQueue,
                  MWritePendingQueue, MWriteCompletionQueue, MWTSentIrpQueue,
                  signalling, canceller, count>>
  BY DEF CancelNext, QueuesAlone, ThreadStep, bufferQueues
<1>4. ASSUME NEW b \in Buffers PROVE buf'[b] = buf[b] \/ OnlyCancelled(b)
  <2> DEFINE h == Head(MWriteCancellingQueue)
             cancel == buf[h].Cancel \/ Contains(MWritePendingQueue, h)
  <2>1. buf' = [buf EXCEPT ![h].Cancel = cancel] /\ h \in Buffers
    BY <1>1, <1>2 DEF CancelNext
  <2>2. cancel \in BOOLEAN /\ (cancel = buf[h].Cancel \/ h \in ToSet(MWritePendingQueue))
    BY <1>1, <2>1, Members DEF TransferBuffer
  <2> HIDE DEF h, cancel
  <2>3. CASE b # h
    BY <1>1, <2>1, <2>3
  <2>4. CASE b = h
    <3>1. buf'[b] = [buf[b] EXCEPT !.Cancel = cancel] /\ buf[b] \in TransferBuffer
      BY <1>1, <2>1, <2>4
    <3>2. /\ buf'[b].CallingIrp = buf[b].CallingIrp /\ buf'[b].First = buf[b].First
          /\ buf'[b].Length = buf[b].Length /\ buf'[b].Status = buf[b].Status
          /\ buf'[b].Transferred = buf[b].Transferred
          /\ (cancel = buf[b].Cancel => buf'[b] = buf[b])
      BY <3>1 DEF TransferBuffer
    <3> QED BY <1>2, <2>2, <2>4, <3>2 DEF OnlyCancelled
  <2> QED BY <2>3, <2>4
<1>5. Still
  BY <1>2, <1>3, <1>4 DEF Still, HandSame, Sending, Gone
<1> QED BY <1>2, <1>3, <1>5 DEF CancelNext

\* A request is taken by a thread that is not between two steps of a send.
LEMMA RequestStill ==
    ASSUME TypeInv, NEW event \in {"CANCEL", "PURGE", "STOP"},
           NEW state \in {"CANCELLING", "PURGING", "STOPPING"},
           RequestTaken(event, state)
    PROVE  /\ Still /\ irp' = irp
           /\ UNCHANGED <<MWriteCancellingQueue, signalling, canceller>>
           /\ faults' \subseteq faults \cup {"overwritten", "unpurged"}
<1>1. /\ buf \in [Buffers -> TransferBuffer] /\ MWritePendingQueue \in Seq(Buffers)
  BY TypeParts
<1>2. ~Sending /\ ~Sending' /\ ~Gone'
  BY DEF RequestTaken, Sending, Gone
<1>3. CASE CancelPending(state) /\ wt'.mwtState = state
  <2>1. /\ \A b \in Buffers :
              buf'[b] = IF b = Head(MWritePendingQueue)
                        THEN [buf[b] EXCEPT !.Cancel = TRUE] ELSE buf[b]
        /\ Head(MWritePendingQueue) \in ToSet(MWritePendingQueue)
        /\ faults \subseteq faults'
        /\ faults' \subseteq faults \cup {"overwritten", "unpurged"}
        /\ wt.mwtState \notin {"WORKING", state} => "overwritten" \in faults'
        /\ UNCHANGED <<irp, WriteDataQueue, MWriteCancellingQueue, dev, int,
                       purger, device, MWriteIdleQueue, MWritePendingQueue,
                       MWriteCompletionQueue, MWTSentIrpQueue, signalling,
                       canceller, count>>
    BY <1>3, CancelPendingIs
  <2>2. \A b \in Buffers : buf'[b] = buf[b] \/ OnlyCancelled(b)
    BY <1>1, <1>2, <2>1 DEF OnlyCancelled, TransferBuffer
  <2>3. wt.mwtState = "FLOW_OFF" => "overwritten" \in faults'
    BY <2>1
  <2> QED BY <1>2, <2>1, <2>2, <2>3 DEF Still, HandSame
<1>4. CASE ThreadOnly /\ wt'.mwtState = wt.mwtState
  <2>1. Still
    BY <1>2, <1>4, ThreadOnlyStill
  <2> QED BY <1>4, <2>1 DEF ThreadOnly, QueuesAlone, ThreadStep, bufferQueues
<1> QED BY <1>3, <1>4 DEF RequestTaken

LEMMA FlowOffStill ==
    ASSUME TypeInv, FlowOff
    PROVE  /\ Still /\ irp' = irp
           /\ UNCHANGED <<MWriteCancellingQueue, signalling, canceller>>
           /\ faults' \subseteq faults \cup {"overwritten", "idleOff"}
<1>1. ~Sending /\ ~Sending' /\ ~Gone' /\ wt'.mwtState = "FLOW_OFF"
  <2>1. wt'.pc \in {"top", "abort"} /\ wt'.mwtState = "FLOW_OFF"
    BY FlowOffType
  <2> QED BY <2>1 DEF FlowOff, Sending, Gone
<1>2. UNCHANGED <<irp, WriteDataQueue, buf, MWriteCancellingQueue, dev, purger, device,
                  MWriteIdleQueue, MWritePendingQueue, MWriteCompletionQueue,
                  MWTSentIrpQueue, signalling, canceller, count>>
  BY DEF FlowOff, QueuesAlone, ThreadStep, bufferQueues
<1>3. faults \subseteq faults' /\ faults' \subseteq faults \cup {"overwritten", "idleOff"}
  BY DEF FlowOff, FaultIf
<1> QED BY <1>1, <1>2, <1>3 DEF Still, HandSame

LEMMA FlowOffAbortStill ==
    ASSUME TypeInv, FlowOffAbort
    PROVE  /\ Still /\ wt'.pc = "top" /\ wt'.set = wt.set
           /\ wt'.mwtState = wt.mwtState /\ wt'.bFlowOn = wt.bFlowOn
           /\ UNCHANGED <<irp, MWriteCancellingQueue, signalling, canceller, faults>>
<1>1. wt' = Goto(wt, "top") /\ wt \in WriteThread /\ wt.pc = "abort"
  BY TypeParts DEF FlowOffAbort
<1>2. wt'.pc = "top" /\ wt'.set = wt.set /\ wt'.mwtState = wt.mwtState
      /\ wt'.bFlowOn = wt.bFlowOn
  BY <1>1 DEF Goto, WriteThread
<1>3. ~Sending /\ ~Sending' /\ ~Gone'
  BY <1>1, <1>2 DEF Sending, Gone
<1>4. BusMoves
  BY AbortMoves DEF FlowOffAbort
<1>5. UNCHANGED <<irp, WriteDataQueue, MWriteIdleQueue, MWritePendingQueue,
                  MWriteCompletionQueue, MWriteCancellingQueue, MWTSentIrpQueue,
                  faults, signalling, canceller, count>>
  BY DEF FlowOffAbort, QueuesAlone, ThreadStep, bufferQueues
<1>6. Still
  BY <1>2, <1>3, <1>4, <1>5 DEF Still, HandSame, BusMoves
<1> QED BY <1>2, <1>5, <1>6

-----------------------------------------------------------------------------
(***************************************************************************)
(* Steps of the other threads.                                             *)
(***************************************************************************)
\* What a step of another thread that moves neither the writes nor the
\* transfers leaves alone.
LEMMA OtherStill ==
    ASSUME TypeInv, wt' \in WriteThread, HandSame, Gone' => Gone,
           wt'.mwtState = wt.mwtState \/ wt.pc = "none",
           BusMoves, \A w \in Writes : irp'[w] = irp[w] \/ IrpMoves(w),
           irp' \in [Writes -> WriteIrp], MWriteCancellingQueue' \in Seq(Buffers),
           UNCHANGED <<WriteDataQueue, MWriteIdleQueue, MWritePendingQueue,
                       MWriteCompletionQueue, MWTSentIrpQueue, signalling>>,
           dev' \in Device, count' \in AnySpent, count'.writes = count.writes,
           int' \in [flow : {"on", "waiting", "off", "late"}, acked : BOOLEAN],
           canceller' \in {"idle", "wait", "purge"},
           purger' \in {"idle", "signal", "answered", "wait"},
           faults' \in SUBSET Faults, faults \subseteq faults'
    PROVE  TypeInv' /\ Still
<1>1. TypeInv'
  BY DEF TypeInv, TypeOK, BusMoves
<1>2. Still
  BY DEF Still, BusMoves
<1> QED BY <1>1, <1>2

LEMMA NothingMoves ==
    ASSUME TypeInv, UNCHANGED <<buf, device>>
    PROVE  BusMoves
BY TypeParts DEF BusMoves

\* The interrupt thread, the purge and the callers only ask the thread.
LEMMA AskedStill ==
    ASSUME TypeInv, NEW e \in WriteEvents, Request(e), NotSent, OtherStep,
           dev' \in Device, count' \in AnySpent, count'.writes = count.writes,
           int' \in [flow : {"on", "waiting", "off", "late"}, acked : BOOLEAN],
           canceller' \in {"idle", "wait", "purge"},
           purger' \in {"idle", "signal", "answered", "wait"},
           faults' = faults
    PROVE  TypeInv' /\ Still /\ wt' = Signal(wt, e) /\ irp' = irp
<1>1. wt' = Signal(wt, e) /\ e \in ThreadEvents
  BY DEF Request, ThreadEvents
<1>2. wt' \in WriteThread /\ HandSame /\ (Gone' => Gone) /\ wt'.mwtState = wt.mwtState
  BY <1>1, SignalIs
<1>3. BusMoves
  BY NothingMoves DEF NotSent
<1>4. UNCHANGED <<irp, WriteDataQueue, MWriteIdleQueue, MWritePendingQueue,
                  MWriteCompletionQueue, MWriteCancellingQueue, MWTSentIrpQueue,
                  signalling>>
  BY DEF Request, OtherStep, bufferQueues
<1>5. /\ irp' \in [Writes -> WriteIrp] /\ MWriteCancellingQueue' \in Seq(Buffers)
      /\ faults' \in SUBSET Faults
  BY <1>4, TypeParts
<1> QED BY <1>1, <1>2, <1>3, <1>4, <1>5, OtherStill

LEMMA AskersStill ==
    ASSUME TypeInv,
           NotifyFlowOff \/ NotifyFlowOn \/ RequestStop \/ RequestResume
             \/ PurgeSignal \/ CancelWriteThread
    PROVE  /\ TypeInv' /\ Still /\ irp' = irp /\ faults' = faults
           /\ \E e \in WriteEvents : wt' = Signal(wt, e)
           /\ UNCHANGED <<MWriteCancellingQueue, signalling>>
<1>1. \E e \in WriteEvents : Request(e)
  BY DEF NotifyFlowOff, NotifyFlowOn, RequestStop, RequestResume, PurgeSignal,
         CancelWriteThread, WriteEvents
<1>2. NotSent /\ OtherStep /\ faults' = faults
  BY DEF NotifyFlowOff, NotifyFlowOn, RequestStop, RequestResume, PurgeSignal,
         CancelWriteThread
<1>3. dev' \in Device
  <2>1. dev' = dev \/ \E x \in BOOLEAN : dev' = [dev EXCEPT !.PowerSuspended = x]
    BY DEF NotifyFlowOff, NotifyFlowOn, RequestStop, RequestResume, PurgeSignal,
           CancelWriteThread, callers
  <2> QED BY <2>1, TypeParts DEF Device
<1>4. count' \in AnySpent /\ count'.writes = count.writes
  <2>1. \/ count' = [count EXCEPT !.flows = @ + 1]
        \/ count' = [count EXCEPT !.stops = @ + 1]
        \/ count' = [count EXCEPT !.cancels = @ + 1]
        \/ count' = count
    BY DEF NotifyFlowOff, NotifyFlowOn, RequestStop, RequestResume, PurgeSignal,
           CancelWriteThread, callers
  <2> QED BY <2>1, CountedIs
<1>5. int' \in [flow : {"on", "waiting", "off", "late"}, acked : BOOLEAN]
  <2>1. \/ int' = [flow |-> "waiting", acked |-> FALSE]
        \/ int' = [int EXCEPT !.flow = "on"] \/ int' = int
    BY DEF NotifyFlowOff, NotifyFlowOn, RequestStop, RequestResume, PurgeSignal,
           CancelWriteThread, callers
  <2>2. int \in [flow : {"on", "waiting", "off", "late"}, acked : BOOLEAN]
    BY TypeParts
  <2>3. CASE int' = [flow |-> "waiting", acked |-> FALSE]
    BY <2>3
  <2>4. CASE int' = [int EXCEPT !.flow = "on"]
    BY <2>2, <2>4
  <2>5. CASE int' = int
    BY <2>2, <2>5
  <2> QED BY <2>1, <2>3, <2>4, <2>5
<1>6. canceller' \in {"idle", "wait", "purge"}
      /\ purger' \in {"idle", "signal", "answered", "wait"}
  <2>1. (canceller' = canceller \/ canceller' = "wait")
        /\ (purger' = purger \/ purger' \in {"wait", "idle"})
    BY DEF NotifyFlowOff, NotifyFlowOn, RequestStop, RequestResume, PurgeSignal,
           CancelWriteThread, callers
  <2> QED BY <2>1, TypeParts
<1>7. TypeInv' /\ Still /\ irp' = irp /\ \E e \in WriteEvents : wt' = Signal(wt, e)
  BY <1>1, <1>2, <1>3, <1>4, <1>5, <1>6, AskedStill
<1> QED BY <1>2, <1>7 DEF OtherStep

LEMMA WatchersStill ==
    ASSUME TypeInv, IrpInv,
           EmptyWtCompletionQueue \/ FlowOffAcked \/ FlowOffTimeout \/ PurgeAbort
    PROVE  /\ TypeInv' /\ Still /\ wt' = wt
           /\ UNCHANGED <<MWriteCancellingQueue, signalling, canceller>>
           /\ faults' \subseteq faults \cup {"late", "aborted"}
           /\ \A w \in Writes :
                 \/ irp'[w] = irp[w]
                 \/ irp[w].where = "answered" /\ irp'[w] = [irp[w] EXCEPT !.where = "done"]
<1>1. /\ irp \in [Writes -> WriteIrp] /\ wt \in WriteThread /\ dev \in Device
      /\ int \in [flow : {"on", "waiting", "off", "late"}, acked : BOOLEAN]
      /\ canceller \in {"idle", "wait", "purge"}
      /\ purger \in {"idle", "signal", "answered", "wait"}
      /\ MWriteCancellingQueue \in Seq(Buffers) /\ faults \in SUBSET Faults
  BY TypeParts
<1>2. /\ UNCHANGED <<WriteDataQueue, MWriteIdleQueue, MWritePendingQueue,
                     MWriteCompletionQueue, MWriteCancellingQueue, MWTSentIrpQueue,
                     signalling, wt, dev, canceller>>
  BY DEF EmptyWtCompletionQueue, FlowOffAcked, FlowOffTimeout, PurgeAbort, OtherStep,
         bufferQueues, callers
<1>3. HandSame /\ (Gone' => Gone) /\ wt'.mwtState = wt.mwtState /\ wt' \in WriteThread
  BY <1>1, <1>2 DEF HandSame, Sending, Gone
<1>4. BusMoves
  <2>1. AbortPipe \/ UNCHANGED <<buf, device>>
    BY DEF EmptyWtCompletionQueue, FlowOffAcked, FlowOffTimeout, PurgeAbort, NotSent
  <2> QED BY <2>1, AbortMoves, NothingMoves
<1>5. /\ irp' \in [Writes -> WriteIrp]
      /\ \A w \in Writes :
            /\ irp'[w] = irp[w] \/ IrpMoves(w)
            /\ \/ irp'[w] = irp[w]
               \/ irp[w].where = "answered" /\ irp'[w] = [irp[w] EXCEPT !.where = "done"]
  <2>1. CASE EmptyWtCompletionQueue
    <3>1. PICK v \in Writes : /\ irp[v].where = "answered"
                              /\ irp' = [irp EXCEPT ![v].where = "done"]
      BY <2>1 DEF EmptyWtCompletionQueue
    <3>2. irp' \in [Writes -> WriteIrp]
          /\ \A w \in Writes :
                irp'[w] = IF w = v THEN [irp[w] EXCEPT !.where = "done"] ELSE irp[w]
      BY <1>1, <3>1 DEF WriteIrp
    <3>3. irp[v].routine = "none"
      BY <1>1, <3>1 DEF IrpInv, WriteIrp
    <3>4. IrpMoves(v)
      BY <1>1, <3>1, <3>2, <3>3 DEF IrpMoves, WriteIrp
    <3> QED BY <3>1, <3>2, <3>4
  <2>2. CASE irp' = irp
    BY <1>1, <2>2
  <2>3. EmptyWtCompletionQueue \/ irp' = irp
    BY DEF FlowOffAcked, FlowOffTimeout, PurgeAbort
  <2> QED BY <2>1, <2>2, <2>3
<1>6. count' \in AnySpent /\ count'.writes = count.writes
  <2>1. \/ count' = [count EXCEPT !.timeouts = @ + 1]
        \/ count' = [count EXCEPT !.purges = @ + 1]
        \/ count' = count
    BY DEF EmptyWtCompletionQueue, FlowOffAcked, FlowOffTimeout, PurgeAbort, callers
  <2> QED BY <2>1, CountedIs
<1>7. /\ int' \in [flow : {"on", "waiting", "off", "late"}, acked : BOOLEAN]
      /\ purger' \in {"idle", "signal", "answered", "wait"}
  <2>1. (int' = int \/ \E flow \in {"off", "late"} : int' = [int EXCEPT !.flow = flow])
        /\ (purger' = purger \/ purger' = "signal")
    BY DEF EmptyWtCompletionQueue, FlowOffAcked, FlowOffTimeout, PurgeAbort, callers
  <2> QED BY <1>1, <2>1
<1>8. faults' \in SUBSET Faults /\ faults \subseteq faults'
      /\ faults' \subseteq faults \cup {"late", "aborted"}
  BY <1>1 DEF EmptyWtCompletionQueue, FlowOffAcked, FlowOffTimeout, PurgeAbort,
              FaultIf, Faults
<1>9. TypeInv' /\ Still
  BY <1>1, <1>2, <1>3, <1>4, <1>5, <1>6, <1>7, <1>8, OtherStill
<1> QED BY <1>2, <1>5, <1>8, <1>9

LEMMA CancelWriteThreadDoneStill ==
    ASSUME TypeInv, CancelWriteThreadDone
    PROVE  /\ TypeInv' /\ Still /\ irp' = irp /\ faults' = faults
           /\ wt'.pc = "none" /\ wt'.set = wt.set /\ wt'.mwtState = wt.mwtState
           /\ UNCHANGED <<MWriteCancellingQueue, signalling>>
<1>1. wt \in WriteThread /\ wt.pc = "terminated" /\ wt' = Goto(wt, "none")
      /\ "none" \in WritePoints
  BY TypeParts DEF CancelWriteThreadDone, WritePoints
<1>2. /\ wt' \in WriteThread /\ wt'.pc = "none" /\ wt'.set = wt.set
      /\ wt'.mwtState = wt.mwtState
  BY <1>1, GotoThread DEF Goto, WriteThread
<1>3. HandSame /\ (Gone' => Gone)
  BY <1>1, <1>2 DEF HandSame, Sending, Gone
<1>4. /\ UNCHANGED <<irp, WriteDataQueue, dev, int, purger, count, faults, buf, device>>
      /\ UNCHANGED <<MWriteIdleQueue, MWritePendingQueue, MWriteCompletionQueue,
                     MWriteCancellingQueue, MWTSentIrpQueue, signalling>>
  BY DEF CancelWriteThreadDone, NotSent, OtherStep, bufferQueues
<1>5. BusMoves
  BY <1>4, NothingMoves
<1>6. canceller' \in {"idle", "wait", "purge"}
  BY DEF CancelWriteThreadDone
<1>7. TypeInv' /\ Still
  BY <1>2, <1>3, <1>4, <1>5, <1>6, TypeParts, OtherStill
<1> QED BY <1>2, <1>4, <1>7

LEMMA CreateThreadStill ==
    ASSUME TypeInv, CreateThread
    PROVE  /\ TypeInv' /\ Still /\ irp' = irp
           /\ wt'.pc = "top" /\ wt'.set = wt.set \ {"PURGE"}
           /\ UNCHANGED <<MWriteCancellingQueue, signalling, canceller>>
           /\ faults' = faults
                \cup FaultIf(int.flow # "on", "forgotten")
                \cup FaultIf("PURGE" \in wt.set, "unpurged")
                \cup FaultIf(MWTSentIrpQueue # <<>>, "broken")
<1>1. wt \in WriteThread /\ dev \in Device /\ wt.pc = "none"
      /\ wt' = NewThread(wt.set \ {"PURGE"}, dev.PowerSuspended)
  BY TypeParts DEF CreateThread
<1>2. wt' \in WriteThread /\ wt'.pc = "top" /\ wt'.set = wt.set \ {"PURGE"}
  BY <1>1 DEF NewThread, WriteThread, Device, WritePcs, WritePoints, MwtState, Sent
<1>3. HandSame /\ (Gone' => Gone)
  BY <1>1, <1>2 DEF HandSame, Sending, Gone
<1>4. /\ UNCHANGED <<irp, WriteDataQueue, dev, int, canceller, purger, count, buf, device>>
      /\ UNCHANGED <<MWriteIdleQueue, MWritePendingQueue, MWriteCompletionQueue,
                     MWriteCancellingQueue, MWTSentIrpQueue, signalling>>
  BY DEF CreateThread, NotSent, OtherStep, bufferQueues, callers
<1>5. BusMoves
  BY <1>4, NothingMoves
<1>6. /\ faults' = faults
           \cup FaultIf(int.flow # "on", "forgotten")
           \cup FaultIf("PURGE" \in wt.set, "unpurged")
           \cup FaultIf(MWTSentIrpQueue # <<>>, "broken")
      /\ faults' \in SUBSET Faults /\ faults \subseteq faults'
  BY TypeParts DEF CreateThread, FaultIf, Faults
<1>7. TypeInv' /\ Still
  BY <1>1, <1>2, <1>3, <1>4, <1>5, <1>6, TypeParts, OtherStill
<1> QED BY <1>2, <1>4, <1>6, <1>7

LEMMA CancelIrpStill ==
    ASSUME TypeInv, IrpInv, NEW w \in Writes, CancelIrp(w)
    PROVE  /\ TypeInv' /\ Still
           /\ UNCHANGED <<wt, MWriteCancellingQueue, signalling, canceller, faults>>
           /\ \A v \in Writes :
                 /\ irp[v].cancelled => irp'[v].cancelled
                 /\ irp'[v].routine = "running" /\ irp[v].cancelled =>
                       irp[v].routine = "running"
                 /\ irp'[v].where = irp[v].where
<1>1. irp \in [Writes -> WriteIrp] /\ irp[w].where = "active" /\ irp[w].routine # "none"
      /\ ~irp[w].cancelled
  BY TypeParts DEF CancelIrp, IrpInv
<1>2. irp' = [irp EXCEPT ![w].cancelled = TRUE,
                         ![w].routine = IF @ = "set" THEN "running" ELSE @]
  BY DEF CancelIrp
<1>3. irp'[w] = [[irp[w] EXCEPT !.cancelled = TRUE]
                    EXCEPT !.routine = IF irp[w].routine = "set" THEN "running"
                                       ELSE irp[w].routine]
  BY <1>1, <1>2 DEF WriteIrp
<1>4. irp[w].routine \in {"set", "running"}
  BY <1>1 DEF WriteIrp
<1>5. /\ irp'[w] \in WriteIrp /\ irp'[w].cancelled /\ irp'[w].routine = "running"
      /\ irp'[w].where = irp[w].where /\ irp'[w].Status = irp[w].Status
      /\ irp'[w].Information = irp[w].Information
  BY <1>1, <1>3, <1>4 DEF WriteIrp
<1>6. \A v \in Writes : v # w => irp'[v] = irp[v]
  BY <1>1, <1>2
<1>7. irp' \in [Writes -> WriteIrp]
  BY <1>1, <1>2, <1>5, <1>6
<1>8. \A v \in Writes : irp'[v] = irp[v] \/ IrpMoves(v)
  <2>1. IrpMoves(w)
    BY <1>4, <1>5 DEF IrpMoves
  <2> QED BY <1>6, <2>1
<1>9. /\ UNCHANGED <<WriteDataQueue, MWriteCancellingQueue, wt, int, canceller, purger,
                     faults, buf, MWriteIdleQueue, MWritePendingQueue,
                     MWriteCompletionQueue, MWTSentIrpQueue, signalling, dev, device>>
      /\ count' = [count EXCEPT !.irpCancels = @ + 1]
  BY DEF CancelIrp, ClientStep, bufferQueues
<1>10. BusMoves /\ count' \in AnySpent /\ count'.writes = count.writes
  BY <1>9, NothingMoves, CountedIs
<1>11. HandSame /\ (Gone' => Gone)
  BY <1>9 DEF HandSame, Sending, Gone
<1>12. TypeInv' /\ Still
  BY <1>7, <1>8, <1>9, <1>10, <1>11, TypeParts, OtherStill
<1> QED BY <1>1, <1>5, <1>6, <1>9, <1>12

\* A buffer with an active write is out.
LEMMA PendingBuffersAre ==
    ASSUME TypeInv, BufferInv, NEW w \in Writes
    PROVE  /\ PendingBuffers(w) \in Seq(Buffers)
           /\ \A b \in ToSet(PendingBuffers(w)) :
                 /\ b \in ToSet(MWritePendingQueue) /\ b \in Out
                 /\ buf[b].CallingIrp = w
           /\ \A b \in ToSet(MWritePendingQueue) :
                 buf[b].CallingIrp = w => PendingBuffers(w) # <<>>
<1>1. MWritePendingQueue \in Seq(Buffers) /\ w # 0
  BY TypeParts, WritesAre
<1>2. /\ PendingBuffers(w) \in Seq(Buffers)
      /\ ToSet(PendingBuffers(w)) =
            ToSet(MWritePendingQueue) \cap {b \in Buffers : buf[b].CallingIrp = w}
  BY <1>1, KeepElements DEF PendingBuffers
<1>3. ASSUME NEW b \in ToSet(MWritePendingQueue), buf[b].CallingIrp = w
      PROVE  b \in Out
  <2>1. IdleBuffer.CallingIrp = 0
    BY DEF IdleBuffer
  <2>2. buf[b].Status # "IDLE"
    BY <1>1, <1>3, <2>1 DEF BufferInv
  <2> QED BY <2>2 DEF Out
<1>4. ASSUME NEW b \in ToSet(MWritePendingQueue), buf[b].CallingIrp = w
      PROVE  PendingBuffers(w) # <<>>
  <2>1. b \in Buffers /\ b \in ToSet(PendingBuffers(w))
    BY <1>1, <1>2, <1>4, Members
  <2> QED BY <1>2, <2>1, Members
<1> QED BY <1>2, <1>3, <1>4

\* The cancel routine of a write whose transfer is pending hands its buffer to
\* the thread and puts itself back.
CancelsTransfer(w) ==
    /\ PendingBuffers(w) # <<>> /\ irp[w].routine = "running"
    /\ MWriteCancellingQueue' =
          Append(MWriteCancellingQueue, Head(PendingBuffers(w)))
    /\ faults' = faults \cup
          FaultIf(Contains(MWriteCancellingQueue, Head(PendingBuffers(w))), "broken")
    /\ wt' = Signal(wt, "CANCEL_CURRENT")
    /\ irp'[w].routine = "set" /\ irp'[w].cancelled = irp[w].cancelled
    /\ irp'[w].where = irp[w].where
    /\ \A v \in Writes : v # w => irp'[v] = irp[v]

\* Otherwise it completes the write, which is queued or is not.
CancelsWrite(w) ==
    /\ irp[w].routine = "running"
    /\ irp' \in [Writes -> WriteIrp]
    /\ \A v \in Writes : v # w => irp'[v] = irp[v]
    /\ irp'[w].where = "answered" /\ irp'[w].routine = "none"
    /\ irp'[w].Status = "CANCELLED" /\ irp'[w].Information = 0
    /\ UNCHANGED <<wt, MWriteCancellingQueue>>
    /\ \/ /\ w \in ToSet(WriteDataQueue)
          /\ WriteDataQueue' = Keep(WriteDataQueue, Writes \ {w})
          /\ faults' = faults
       \/ /\ w \notin ToSet(WriteDataQueue) /\ UNCHANGED WriteDataQueue
          /\ PendingBuffers(w) = <<>>
          /\ faults' = faults \cup FaultIf(HeldByThread(w), "adopted")
                              \cup FaultIf(Relinked(w), "broken")

LEMMA CancelWriteRoutineType ==
    ASSUME TypeInv, BufferInv, RecordInv, IrpInv, NEW w \in Writes,
           CancelWriteRoutine(w)
    PROVE  /\ TypeInv' /\ faults \subseteq faults'
           /\ UNCHANGED <<buf, MWriteIdleQueue, MWritePendingQueue,
                          MWriteCompletionQueue, MWTSentIrpQueue, signalling, dev,
                          device, int, canceller, purger, count>>
           /\ CancelsWrite(w) \/ (CancelsTransfer(w) /\ Still)
<1> DEFINE cancelled == [irp EXCEPT ![w] =
                            [@ EXCEPT !.where = "answered", !.routine = "none",
                                      !.Status = "CANCELLED", !.Information = 0]]
<1>1. /\ irp \in [Writes -> WriteIrp] /\ WriteDataQueue \in Seq(Writes)
      /\ MWriteCancellingQueue \in Seq(Buffers) /\ wt \in WriteThread
      /\ faults \in SUBSET Faults /\ irp[w].routine = "running"
  BY TypeParts DEF CancelWriteRoutine
<1>2. UNCHANGED <<buf, MWriteIdleQueue, MWritePendingQueue, MWriteCompletionQueue,
                  MWTSentIrpQueue, signalling, dev, device, int, canceller, purger,
                  count>>
  BY DEF CancelWriteRoutine, ClientStep, callers, bufferQueues
<1>3. Contains(WriteDataQueue, w) <=> w \in ToSet(WriteDataQueue)
  BY <1>1, Members
<1>4. /\ cancelled \in [Writes -> WriteIrp]
      /\ \A v \in Writes : v # w => cancelled[v] = irp[v]
      /\ cancelled[w].where = "answered" /\ cancelled[w].routine = "none"
      /\ cancelled[w].Status = "CANCELLED" /\ cancelled[w].Information = 0
  <2>1. cancelled[w] = AnsweredIrp(irp[w], "CANCELLED", 0)
        /\ \A v \in Writes : v # w => cancelled[v] = irp[v]
    BY <1>1 DEF AnsweredIrp
  <2>2. "CANCELLED" \in TransferStatus /\ 0 \in Nat
    BY DEF TransferStatus
  <2> QED BY <1>1, <2>1, <2>2, AnsweredType
<1>5. CASE /\ Contains(WriteDataQueue, w)
           /\ WriteDataQueue' = Keep(WriteDataQueue, Writes \ {w})
           /\ irp' = cancelled
           /\ UNCHANGED <<MWriteCancellingQueue, wt, faults>>
  <2>1. CancelsWrite(w)
    BY <1>1, <1>3, <1>4, <1>5 DEF CancelsWrite
  <2>2. WriteDataQueue' \in Seq(Writes)
    BY <1>1, <1>5, KeepElements
  <2>3. TypeInv'
    BY <1>2, <1>4, <1>5, <2>2 DEF TypeInv, TypeOK
  <2> QED BY <1>2, <1>5, <2>1, <2>3
<1>6. CASE /\ ~Contains(WriteDataQueue, w) /\ PendingBuffers(w) = <<>>
           /\ irp' = cancelled
           /\ faults' = faults \cup FaultIf(HeldByThread(w), "adopted")
                               \cup FaultIf(Relinked(w), "broken")
           /\ UNCHANGED <<WriteDataQueue, MWriteCancellingQueue, wt>>
  <2>1. CancelsWrite(w)
    BY <1>1, <1>3, <1>4, <1>6 DEF CancelsWrite
  <2>2. faults' \in SUBSET Faults /\ faults \subseteq faults'
    BY <1>1, <1>6 DEF FaultIf, Faults
  <2>3. TypeInv'
    BY <1>2, <1>4, <1>6, <2>2 DEF TypeInv, TypeOK
  <2> QED BY <1>2, <2>1, <2>2, <2>3
<1>7. CASE /\ ~Contains(WriteDataQueue, w) /\ PendingBuffers(w) # <<>>
           /\ MWriteCancellingQueue' =
                 Append(MWriteCancellingQueue, Head(PendingBuffers(w)))
           /\ faults' = faults \cup
                 FaultIf(Contains(MWriteCancellingQueue, Head(PendingBuffers(w))),
                         "broken")
           /\ irp' = [irp EXCEPT ![w].routine = "set"]
           /\ wt' = Signal(wt, "CANCEL_CURRENT")
           /\ UNCHANGED WriteDataQueue
  <2> DEFINE b == Head(PendingBuffers(w))
  <2>1. b \in ToSet(PendingBuffers(w)) /\ b \in Buffers /\ b \in Out
        /\ buf[b].CallingIrp = w
    BY <1>7, PendingBuffersAre, Members
  <2>2. Has(w)
    <3>1. PICK k \in DOMAIN Records : RecordOf(k, b)
      BY <2>1 DEF RecordInv
    <3> QED BY <2>1, <3>1 DEF RecordOf, Has, Recorded
  <2>3. MWriteCancellingQueue' \in Seq(Buffers)
    <3> HIDE DEF b
    <3> QED BY <1>1, <1>7, <2>1 DEF b
  <2>4. /\ irp' \in [Writes -> WriteIrp] /\ irp'[w].routine = "set"
        /\ irp'[w].cancelled = irp[w].cancelled /\ irp'[w].where = irp[w].where
        /\ irp'[w].Status = irp[w].Status /\ irp'[w].Information = irp[w].Information
        /\ \A v \in Writes : v # w => irp'[v] = irp[v]
    BY <1>1, <1>7 DEF WriteIrp
  <2>5. CancelsTransfer(w)
    BY <1>1, <1>7, <2>4 DEF CancelsTransfer
  <2>6. \A v \in Writes : irp'[v] = irp[v] \/ IrpMoves(v)
    <3>1. IrpMoves(w)
      BY <1>1, <2>2, <2>4 DEF IrpMoves
    <3> QED BY <2>4, <3>1
  <2>7. "CANCEL_CURRENT" \in ThreadEvents
    BY DEF ThreadEvents, WriteEvents
  <2>8. wt' \in WriteThread /\ HandSame /\ (Gone' => Gone) /\ wt'.mwtState = wt.mwtState
    BY <1>7, <2>7, SignalIs
  <2>9. BusMoves
    BY <1>2, NothingMoves
  <2>10. faults' \in SUBSET Faults /\ faults \subseteq faults'
    BY <1>1, <1>7 DEF FaultIf, Faults
  <2>11. TypeInv' /\ Still
    BY <1>2, <1>7, <2>3, <2>4, <2>6, <2>8, <2>9, <2>10, TypeParts, OtherStill
  <2> QED BY <1>2, <2>5, <2>10, <2>11
<1> QED BY <1>5, <1>6, <1>7 DEF CancelWriteRoutine

LEMMA EnqueueType ==
    ASSUME TypeInv, Enqueue
    PROVE  /\ TypeInv' /\ HandSame /\ (Gone' <=> Gone)
           /\ wt'.mwtState = wt.mwtState
           /\ wt' = wt \/ wt' = Signal(wt, "KICK")
           /\ WriteDataQueue = <<>> => wt' = Signal(wt, "KICK")
           /\ count'.writes = count.writes + 1 /\ count.writes + 1 \in Writes
           /\ count'.purged = count.purged
           /\ WriteDataQueue' = Append(WriteDataQueue, count'.writes)
           /\ irp'[count'.writes].where = "active" /\ irp'[count'.writes].routine = "set"
           /\ irp'[count'.writes].Information = irp[count'.writes].Information
           /\ irp'[count'.writes].cancelled = irp[count'.writes].cancelled
           /\ \A v \in Writes : v # count'.writes => irp'[v] = irp[v]
           /\ UNCHANGED <<buf, MWriteIdleQueue, MWritePendingQueue,
                          MWriteCompletionQueue, MWriteCancellingQueue,
                          MWTSentIrpQueue, signalling, dev, device, int, canceller,
                          purger, faults>>
<1> DEFINE w == count.writes + 1
<1>1. /\ irp \in [Writes -> WriteIrp] /\ WriteDataQueue \in Seq(Writes)
      /\ wt \in WriteThread /\ count \in AnySpent
  BY TypeParts
<1>2. /\ count' = [count EXCEPT !.writes = w] /\ count.writes < Len(Packets)
      /\ irp' = [irp EXCEPT ![w].where = "active", ![w].routine = "set"]
      /\ WriteDataQueue' = Append(WriteDataQueue, w)
      /\ wt' = IF WakesThread THEN Signal(wt, "KICK") ELSE wt
      /\ UNCHANGED <<MWriteCancellingQueue, int, canceller, purger, faults>>
      /\ ClientStep
  BY DEF Enqueue
<1>3. count.writes \in Nat
  BY <1>1 DEF AnySpent
<1>4. w \in Writes /\ w \in Nat
  BY <1>2, <1>3, WritesAre
<1> HIDE DEF w
<1>5. count' \in AnySpent /\ count'.writes = w /\ count'.purged = count.purged
  BY <1>1, <1>2, <1>4 DEF AnySpent
<1>6. WriteDataQueue' \in Seq(Writes)
  BY <1>1, <1>2, <1>4
<1>7. irp'[w] = [[irp[w] EXCEPT !.where = "active"] EXCEPT !.routine = "set"]
      /\ \A v \in Writes : v # w => irp'[v] = irp[v]
  BY <1>1, <1>2, <1>4 DEF WriteIrp
<1>8. /\ irp'[w] \in WriteIrp /\ irp'[w].where = "active" /\ irp'[w].routine = "set"
      /\ irp'[w].Information = irp[w].Information /\ irp'[w].cancelled = irp[w].cancelled
  <2>1. irp[w] \in WriteIrp
        /\ irp'[w] = [irp[w] EXCEPT !.where = "active", !.routine = "set"]
    BY <1>1, <1>4, <1>7 DEF WriteIrp
  <2> QED BY <2>1 DEF WriteIrp
<1>9. irp' \in [Writes -> WriteIrp]
  BY <1>1, <1>2, <1>7, <1>8
<1>10. "KICK" \in ThreadEvents
  BY DEF ThreadEvents, WriteEvents
<1>11. wt' \in WriteThread /\ HandSame /\ (Gone' <=> Gone) /\ wt'.mwtState = wt.mwtState
  <2>1. CASE wt' = Signal(wt, "KICK")
    BY <1>10, <2>1, SignalIs
  <2>2. CASE wt' = wt
    BY <1>1, <2>2 DEF HandSame, Sending, Gone
  <2> QED BY <1>2, <2>1, <2>2
<1>12. UNCHANGED <<buf, MWriteIdleQueue, MWritePendingQueue, MWriteCompletionQueue,
                   MWTSentIrpQueue, signalling, dev, device>>
  BY <1>2 DEF ClientStep, bufferQueues
<1>13. TypeInv'
  BY <1>2, <1>5, <1>6, <1>9, <1>11, <1>12 DEF TypeInv, TypeOK
<1> QED BY <1>2, <1>4, <1>5, <1>7, <1>8, <1>11, <1>12, <1>13 DEF w, WakesThread

LEMMA EnterEnqueueStill ==
    ASSUME TypeInv, EnterEnqueue
    PROVE  /\ TypeInv' /\ Still
           /\ count'.purged = count.purged
           /\ UNCHANGED <<irp, WriteDataQueue, MWriteCancellingQueue, wt, int,
                          canceller, purger, faults, signalling, dev, device>>
<1>1. /\ UNCHANGED <<irp, WriteDataQueue, MWriteCancellingQueue, wt, int, canceller,
                     purger, faults, buf, MWriteIdleQueue, MWritePendingQueue,
                     MWriteCompletionQueue, MWTSentIrpQueue, signalling, dev, device>>
      /\ count' = [count EXCEPT !.entered = @ + 1]
  BY DEF EnterEnqueue, ClientStep, bufferQueues
<1>2. BusMoves /\ count' \in AnySpent /\ count'.writes = count.writes
  BY <1>1, NothingMoves, CountedIs
<1>3. HandSame /\ (Gone' => Gone)
  BY <1>1 DEF HandSame, Sending, Gone
<1>4. TypeInv' /\ Still
  BY <1>1, <1>2, <1>3, TypeParts, OtherStill
<1>5. count'.purged = count.purged
  BY <1>1, TypeParts DEF AnySpent
<1> QED BY <1>1, <1>4, <1>5

LEMMA WriteCompletionRoutineType ==
    ASSUME TypeInv, BufferInv, WriteCompletionRoutine
    PROVE  /\ TypeInv'
           /\ \E b \in ToSet(MWritePendingQueue) :
                 /\ buf[b].Status \in Finished
                 /\ MWritePendingQueue' = Keep(MWritePendingQueue, Buffers \ {b})
                 /\ MWriteCompletionQueue' = Append(MWriteCompletionQueue, b)
                 /\ signalling' = signalling \cup {b}
           /\ UNCHANGED <<irp, WriteDataQueue, MWriteIdleQueue, buf, dev, count, device,
                          MWriteCancellingQueue, MWTSentIrpQueue, wt, int,
                          canceller, purger, faults>>
<1>1. /\ MWritePendingQueue \in Seq(Buffers) /\ MWriteCompletionQueue \in Seq(Buffers)
      /\ signalling \in SUBSET Buffers
  BY TypeParts
<1>2. PICK b \in ToSet(MWritePendingQueue) :
         /\ buf[b].Status \in Finished
         /\ MWritePendingQueue' = Keep(MWritePendingQueue, Buffers \ {b})
         /\ MWriteCompletionQueue' = Append(MWriteCompletionQueue, b)
         /\ signalling' = signalling \cup {b}
  BY <1>1, Members, ZenonT(60) DEF WriteCompletionRoutine, Finished
<1>3. b \in Buffers
  BY <1>1, Members
<1>4. UNCHANGED <<irp, WriteDataQueue, MWriteIdleQueue, buf, dev, count, device,
                  MWriteCancellingQueue, MWTSentIrpQueue, wt, int,
                  canceller, purger, faults>>
  BY DEF WriteCompletionRoutine, BusStep
<1>5. /\ MWritePendingQueue' \in Seq(Buffers) /\ MWriteCompletionQueue' \in Seq(Buffers)
      /\ signalling' \in SUBSET Buffers
  BY <1>1, <1>2, <1>3, KeepElements
<1>6. TypeInv'
  BY <1>4, <1>5 DEF TypeInv, TypeOK
<1> QED BY <1>2, <1>4, <1>6

LEMMA CancelWriteThreadPurgeType ==
    ASSUME TypeInv, CancelWriteThreadPurge
    PROVE  TypeInv'
<1>1. PurgeQueue /\ canceller' = "idle"
  BY DEF CancelWriteThreadPurge
<1>2. irp' \in [Writes -> WriteIrp] /\ WriteDataQueue' = <<>> /\ faults' \in SUBSET Faults
  BY <1>1, PurgeQueueIs
<1>3. UNCHANGED <<buf, wt, dev, int, purger, device, MWriteIdleQueue,
                  MWritePendingQueue, MWriteCompletionQueue, MWriteCancellingQueue,
                  MWTSentIrpQueue, signalling>>
  BY DEF CancelWriteThreadPurge, NotSent, OtherStep, bufferQueues
<1>4. count' \in AnySpent
  BY CountedIs DEF CancelWriteThreadPurge
<1> QED BY <1>1, <1>2, <1>3, <1>4 DEF TypeInv, TypeOK

-----------------------------------------------------------------------------
(***************************************************************************)
(* The invariant: what leaves everything where it is.                      *)
(***************************************************************************)
LEMMA OutStays ==
    ASSUME TypeInv, BufferInv, TypeInv', Still
    PROVE  /\ Out' = Out
           /\ \A b \in Out : buf'[b].CallingIrp = buf[b].CallingIrp
           /\ \A k, b : RecordOf(k, b) /\ b \in Out => RecordOf(k, b)'
<1>1. /\ MWritePendingQueue' = MWritePendingQueue
      /\ MWriteCompletionQueue' = MWriteCompletionQueue
      /\ MWTSentIrpQueue' = MWTSentIrpQueue
      /\ \A b \in Buffers : buf'[b] = buf[b] \/ OnlyCancelled(b) \/ Ends(b)
  BY DEF Still
<1>2. /\ ToSet(MWritePendingQueue) \subseteq Buffers
      /\ ToSet(MWriteCompletionQueue) \subseteq Buffers
  BY TypeParts, Members
<1>3. ASSUME NEW b \in Buffers
      PROVE  /\ buf'[b].Status = "IDLE" <=> buf[b].Status = "IDLE"
             /\ buf'[b].CallingIrp = buf[b].CallingIrp
  <2>1. CASE buf'[b] = buf[b]
    BY <2>1
  <2>2. CASE OnlyCancelled(b)
    BY <2>2 DEF OnlyCancelled
  <2>3. CASE Ends(b)
    <3>1. PICK status \in Finished, n \in Nat : buf'[b] = Ended(b, status, n)
      BY <2>3 DEF Ends
    <3> QED BY <2>3, <3>1, EndedType DEF Ends, Finished
  <2> QED BY <1>1, <2>1, <2>2, <2>3
<1>4. Out' = Out /\ Out \subseteq Buffers
  BY <1>1, <1>2, <1>3 DEF Out
<1> QED BY <1>1, <1>3, <1>4 DEF RecordOf, Records

LEMMA StillOrder ==
    ASSUME TypeInv, OrderInv, Still
    PROVE  OrderInv'
<1>1. /\ WriteDataQueue' = WriteDataQueue /\ Records' = Records /\ HandSame
      /\ count'.writes = count.writes
  BY DEF Still, Records
<1> QED BY <1>1 DEF OrderInv, QueueRises, RecordsRise, HandRises, HandSame

LEMMA StillBuffer ==
    ASSUME TypeInv, BufferInv, TypeInv', Still
    PROVE  BufferInv'
<1>1. /\ MWriteIdleQueue' = MWriteIdleQueue
      /\ MWritePendingQueue' = MWritePendingQueue
      /\ MWriteCompletionQueue' = MWriteCompletionQueue
      /\ HandSame
      /\ \A b \in Buffers : buf'[b] = buf[b] \/ OnlyCancelled(b) \/ Ends(b)
  BY DEF Still
<1>2. /\ ToSet(MWriteIdleQueue) \subseteq Buffers
      /\ ToSet(MWritePendingQueue) \subseteq Buffers
      /\ ToSet(MWriteCompletionQueue) \subseteq Buffers
      /\ MWritePendingQueue # <<>> =>
            Last(MWritePendingQueue) \in ToSet(MWritePendingQueue)
  BY TypeParts, Members
<1>3. \A b \in Buffers :
         b \notin ToSet(MWritePendingQueue) => buf'[b] = buf[b]
  BY <1>1 DEF OnlyCancelled, Ends
<1>4. ASSUME NEW b \in ToSet(MWritePendingQueue)
      PROVE  /\ buf'[b].Status = "IDLE" => buf[b].Status = "IDLE"
             /\ Sending /\ buf[b].Status = "IDLE" => buf'[b] = buf[b]
  <2>1. CASE buf'[b] = buf[b]
    BY <2>1
  <2>2. CASE OnlyCancelled(b)
    BY <2>2 DEF OnlyCancelled
  <2>3. CASE Ends(b)
    <3>1. PICK status \in Finished, n \in Nat : buf'[b] = Ended(b, status, n)
      BY <2>3 DEF Ends
    <3> QED BY <1>2, <2>3, <3>1, EndedType DEF Ends, Finished
  <2> QED BY <1>1, <1>2, <2>1, <2>2, <2>3
<1>5. IdleBuffer.Status = "IDLE"
  BY DEF IdleBuffer
<1>6. \A b \in ToSet(MWriteIdleQueue) : buf'[b] = IdleBuffer
  BY <1>2, <1>3 DEF BufferInv
<1>7. \A b \in ToSet(MWritePendingQueue) :
         buf'[b].Status = "IDLE" => Sending /\ b = Last(MWritePendingQueue)
  BY <1>4 DEF BufferInv
<1>8. Sending => /\ MWritePendingQueue # <<>>
                 /\ buf'[Last(MWritePendingQueue)] = IdleBuffer
  BY <1>2, <1>4, <1>5 DEF BufferInv
<1>9. \A b \in ToSet(MWriteCompletionQueue) : buf'[b].Status \in Finished
  BY <1>2, <1>3 DEF BufferInv
<1> QED BY <1>1, <1>6, <1>7, <1>8, <1>9 DEF BufferInv, HandSame

LEMMA StillRecord ==
    ASSUME TypeInv, BufferInv, RecordInv, GoneInv, TypeInv', Still
    PROVE  RecordInv'
<1>1. /\ Out' = Out /\ Records' = Records
      /\ \A k, b : RecordOf(k, b) /\ b \in Out => RecordOf(k, b)'
  BY OutStays DEF Still, Records
<1>2. \A b \in Out : \E k \in DOMAIN Records : RecordOf(k, b)'
  BY <1>1 DEF RecordInv
<1>3. \A k \in DOMAIN Records : ~Records[k].IrpReturned => Records[k].MWTBuf \in Out
  BY DEF RecordInv
<1>4. ASSUME "overwritten" \notin faults', Kept
      PROVE  wt'.mwtState = "FLOW_OFF" /\ Unreturned
  <2>1. wt.mwtState = "FLOW_OFF" /\ Unreturned
    BY <1>4 DEF RecordInv, Still
  <2>2. Out # {}
    BY <1>3, <2>1 DEF Unreturned
  <2>3. wt.pc # "none"
    BY <2>2, Members DEF GoneInv, Gone, NothingActive, Out, ToSet
  <2> QED BY <1>4, <2>1, <2>3 DEF Still
<1>5. Kept' = Kept /\ Unreturned' = Unreturned
  BY <1>1 DEF Kept, Unreturned
<1> QED BY <1>1, <1>2, <1>3, <1>4, <1>5 DEF RecordInv

LEMMA StillTransfer ==
    ASSUME TypeInv, BufferInv, TransferInv, TypeInv', Still
    PROVE  TransferInv'
<1> SUFFICES ASSUME NEW b \in Out
             PROVE  /\ buf'[b].Transferred <= buf'[b].Length
                    /\ buf'[b].Status = "PENDING" => buf'[b].Transferred = 0
                    /\ buf'[b].Status = "SUCCESS" => buf'[b].Transferred = buf'[b].Length
                    /\ buf'[b].CallingIrp # 0 =>
                          /\ buf'[b].First + buf'[b].Length = Packets[buf'[b].CallingIrp]
                          /\ \A k \in 1 .. (buf'[b].First + buf'[b].Transferred) :
                                <<buf'[b].CallingIrp, k>> \in ToSet(device')
  BY OutStays DEF TransferInv, Reached
<1>1. /\ buf[b].Transferred <= buf[b].Length
      /\ buf[b].Status = "PENDING" => buf[b].Transferred = 0
      /\ buf[b].Status = "SUCCESS" => buf[b].Transferred = buf[b].Length
      /\ buf[b].CallingIrp # 0 =>
            /\ buf[b].First + buf[b].Length = Packets[buf[b].CallingIrp]
            /\ \A k \in 1 .. (buf[b].First + buf[b].Transferred) :
                  <<buf[b].CallingIrp, k>> \in ToSet(device)
  BY DEF TransferInv, Reached
<1>2. b \in Buffers /\ buf[b] \in TransferBuffer
  BY TypeParts, Members DEF Out
<1>3. ToSet(device) \subseteq ToSet(device')
      /\ (buf'[b] = buf[b] \/ OnlyCancelled(b) \/ Ends(b))
  BY <1>2 DEF Still
<1>4. CASE buf'[b] = buf[b] \/ OnlyCancelled(b)
  BY <1>1, <1>3, <1>4 DEF OnlyCancelled
<1>5. CASE Ends(b)
  <2>1. PICK status \in Finished, n \in Nat :
           /\ buf'[b] = Ended(b, status, n) /\ n <= buf[b].Length
           /\ status = "SUCCESS" => n = buf[b].Length
           /\ buf[b].CallingIrp # 0 =>
                 \A k \in 1 .. n :
                    <<buf[b].CallingIrp, buf[b].First + k>> \in ToSet(device')
    BY <1>5 DEF Ends
  <2>2. /\ buf'[b].Status = status /\ buf'[b].Transferred = n
        /\ buf'[b].CallingIrp = buf[b].CallingIrp
        /\ buf'[b].First = buf[b].First /\ buf'[b].Length = buf[b].Length
    BY <1>2, <2>1, EndedType
  <2>3. buf[b].Transferred = 0 /\ buf[b].First \in Nat
    BY <1>1, <1>2, <1>5 DEF Ends, TransferBuffer
  <2>4. ASSUME buf[b].CallingIrp # 0
        PROVE  \A k \in 1 .. (buf[b].First + n) :
                  <<buf[b].CallingIrp, k>> \in ToSet(device')
    <3> SUFFICES ASSUME NEW k \in 1 .. (buf[b].First + n)
                 PROVE  <<buf[b].CallingIrp, k>> \in ToSet(device')
      OBVIOUS
    <3>1. CASE k <= buf[b].First
      BY <1>1, <1>3, <2>3, <2>4, <3>1
    <3>2. CASE k > buf[b].First
      <4>1. k - buf[b].First \in 1 .. n /\ buf[b].First + (k - buf[b].First) = k
        BY <2>3, <3>2
      <4> QED BY <2>1, <2>4, <4>1
    <3> QED BY <2>3, <3>1, <3>2
  <2> QED BY <1>1, <2>1, <2>2, <2>4 DEF Finished
<1> QED BY <1>3, <1>4, <1>5

LEMMA StillHas ==
    ASSUME Still
    PROVE  \A w : Has(w)' <=> Has(w)
BY DEF Still, Has, InHand, Recorded, HandSame, Records

LEMMA StillSize ==
    ASSUME TypeInv, SizeInv, Still
    PROVE  SizeInv'
<1>1. /\ \A w \in Writes : irp'[w].Information = irp[w].Information
      /\ ToSet(device) \subseteq ToSet(device')
  BY DEF Still, IrpMoves
<1> QED BY <1>1, StillHas DEF SizeInv, Reached

LEMMA StillIrp ==
    ASSUME TypeInv, TypeInv', IrpInv, Still
    PROVE  IrpInv'
<1>1. /\ \A w \in Writes : irp'[w] = irp[w] \/ IrpMoves(w)
      /\ faults \subseteq faults' /\ count'.writes = count.writes
      /\ \A w \in Writes : irp[w] \in WriteIrp /\ irp'[w] \in WriteIrp
      /\ \A w \in Writes : Has(w)' <=> Has(w)
  BY TypeParts, StillHas DEF Still, TypeInv, TypeOK
<1> SUFFICES ASSUME NEW w \in Writes
             PROVE  /\ irp'[w].routine # "none" <=> irp'[w].where = "active"
                    /\ w > count.writes => irp'[w].where = "new" /\ irp'[w].Information = 0
                    /\ Has(w) /\ "adopted" \notin faults' => irp'[w].where = "active"
                    /\ irp'[w].routine = "set" => Has(w)
                    /\ irp'[w].routine = "running" => irp'[w].cancelled
  BY <1>1 DEF IrpInv
<1>2. /\ irp[w].routine # "none" <=> irp[w].where = "active"
      /\ w > count.writes => irp[w].where = "new" /\ irp[w].Information = 0
      /\ Has(w) /\ "adopted" \notin faults => irp[w].where = "active"
      /\ irp[w].routine = "set" => Has(w)
      /\ irp[w].routine = "running" => irp[w].cancelled
  BY DEF IrpInv
<1>3. CASE irp'[w] = irp[w]
  BY <1>1, <1>2, <1>3
<1>4. CASE IrpMoves(w)
  BY <1>1, <1>2, <1>4 DEF IrpMoves
<1> QED BY <1>1, <1>3, <1>4

LEMMA StillSuccess ==
    ASSUME SuccessIsSent, TypeInv, TypeInv', Still
    PROVE  SuccessIsSent'
<1>1. device \in Seq(Sent \X Nat) /\ device' \in Seq(Sent \X Nat)
  BY DEF TypeInv, TypeOK
<1>2. \A x : (Contains(device, x) <=> x \in ToSet(device))
             /\ (Contains(device', x) <=> x \in ToSet(device'))
  BY <1>1, Members
<1>3. /\ \A w \in Writes : irp'[w] = irp[w] \/ IrpMoves(w)
      /\ ToSet(device) \subseteq ToSet(device')
  BY DEF Still
<1> QED BY <1>2, <1>3 DEF SuccessIsSent, IrpMoves

LEMMA StillGone ==
    ASSUME GoneInv, Still
    PROVE  GoneInv'
BY DEF GoneInv, Still, NothingActive

CoreInv == PipeInv /\ GoneInv

LEMMA StillCore ==
    ASSUME CoreInv, TypeInv', Still
    PROVE  CoreInv'
<1> USE DEF CoreInv, PipeInv
<1>1. TypeInv /\ OrderInv /\ BufferInv /\ RecordInv /\ TransferInv /\ SizeInv
      /\ IrpInv /\ SuccessIsSent /\ GoneInv
  OBVIOUS
<1> HIDE DEF CoreInv, PipeInv
<1>2. OrderInv' /\ BufferInv' /\ RecordInv' /\ TransferInv' /\ SizeInv'
      /\ IrpInv' /\ SuccessIsSent' /\ GoneInv'
  BY <1>1, StillOrder, StillBuffer, StillRecord, StillTransfer, StillSize, StillIrp,
     StillSuccess, StillGone
<1> QED BY <1>2 DEF CoreInv, PipeInv

-----------------------------------------------------------------------------
(***************************************************************************)
(* The invariant: steps that take writes off the queue or answer them.     *)
(***************************************************************************)
\* A write is in one place.
LEMMA OnePlace ==
    ASSUME TypeInv, OrderInv, NEW w \in Writes
    PROVE  /\ w \in ToSet(WriteDataQueue) => ~InHand(w) /\ ~Recorded(w)
           /\ InHand(w) => ~Recorded(w)
           /\ \A i, j \in DOMAIN Records :
                 Records[i].SentIrp = w /\ Records[j].SentIrp = w => i = j
<1>1. w # 0 /\ w \in Nat
  BY WritesAre
<1>2. w \in ToSet(WriteDataQueue) =>
         \E j \in DOMAIN WriteDataQueue : WriteDataQueue[j] = w
  BY DEF ToSet
<1>3. ASSUME w \in ToSet(WriteDataQueue), InHand(w) \/ Recorded(w) PROVE FALSE
  BY <1>1, <1>2, <1>3 DEF OrderInv, RecordsRise, HandRises, InHand, Recorded
<1>4. ASSUME InHand(w), Recorded(w) PROVE FALSE
  BY <1>1, <1>4 DEF OrderInv, HandRises, InHand, Recorded
<1>5. ASSUME NEW i \in DOMAIN Records, NEW j \in DOMAIN Records,
             Records[i].SentIrp = w, Records[j].SentIrp = w, i < j
      PROVE  FALSE
  BY <1>1, <1>5 DEF OrderInv, RecordsRise
<1>6. DOMAIN Records = 1 .. Len(Records) /\ Len(Records) \in Nat
  BY TypeParts
<1> QED BY <1>3, <1>4, <1>5, <1>6

\* Purging the queue.
LEMMA PurgedCore ==
    ASSUME CoreInv, TypeInv', PurgeQueue,
           UNCHANGED <<buf, MWriteIdleQueue, MWritePendingQueue, MWriteCompletionQueue,
                       MWTSentIrpQueue, device>>,
           count'.writes = count.writes, HandSame, wt'.mwtState = wt.mwtState,
           Gone' => Gone
    PROVE  CoreInv'
<1>0. TypeInv /\ OrderInv /\ BufferInv /\ RecordInv /\ TransferInv /\ SizeInv
      /\ IrpInv /\ SuccessIsSent /\ GoneInv
  BY DEF CoreInv, PipeInv
<1>1. /\ WriteDataQueue' = <<>>
      /\ faults \subseteq faults' /\ faults' \subseteq faults \cup {"broken"}
      /\ \A w \in Writes :
            irp'[w] = IF w \in ToSet(WriteDataQueue) /\ irp[w].routine = "set"
                      THEN AnsweredIrp(irp[w], "CANCELLED", 0) ELSE irp[w]
  BY <1>0, PurgeQueueIs
<1>2. Records' = Records /\ ToSet(WriteDataQueue') = {}
  BY <1>1, ElementsOfNone DEF Records
<1>3. \A w : Has(w)' <=> InHand(w) \/ Recorded(w)
  BY <1>2 DEF Has, InHand, Recorded, HandSame
<1>4. \A w \in Writes : Has(w)' => Has(w) /\ w \notin ToSet(WriteDataQueue)
  BY <1>0, <1>3, OnePlace DEF Has
<1>5. OrderInv'
  BY <1>0, <1>1, <1>2 DEF OrderInv, QueueRises, RecordsRise, HandRises, HandSame
<1>6. BufferInv'
  BY <1>0 DEF BufferInv, HandSame
<1>7. Out' = Out
  BY DEF Out
<1>8. RecordInv'
  BY <1>0, <1>1, <1>2, <1>7 DEF RecordInv, RecordOf, Kept, Unreturned
<1>9. TransferInv'
  BY <1>0, <1>7 DEF TransferInv, Reached
<1>10. SizeInv'
  BY <1>0, <1>1, <1>4 DEF SizeInv, Reached
<1>11. IrpInv'
  <2> SUFFICES ASSUME NEW w \in Writes
               PROVE  /\ irp'[w].routine # "none" <=> irp'[w].where = "active"
                      /\ w > count.writes => irp'[w].where = "new" /\ irp'[w].Information = 0
                      /\ Has(w)' /\ "adopted" \notin faults' => irp'[w].where = "active"
                      /\ irp'[w].routine = "set" => Has(w)'
                      /\ irp'[w].routine = "running" => irp'[w].cancelled
    BY DEF IrpInv
  <2>1. /\ irp[w].routine # "none" <=> irp[w].where = "active"
        /\ w > count.writes => irp[w].where = "new" /\ irp[w].Information = 0
        /\ Has(w) /\ "adopted" \notin faults => irp[w].where = "active"
        /\ irp[w].routine = "set" => Has(w)
        /\ irp[w].routine = "running" => irp[w].cancelled
        /\ irp[w] \in WriteIrp
    BY <1>0, TypeParts DEF IrpInv
  <2>2. CASE w \in ToSet(WriteDataQueue) /\ irp[w].routine = "set"
    <3>1. irp'[w] = AnsweredIrp(irp[w], "CANCELLED", 0)
      BY <1>1, <2>2
    <3>2. irp'[w].where = "answered" /\ irp'[w].routine = "none"
      BY <2>1, <3>1 DEF AnsweredIrp, WriteIrp
    <3> QED BY <1>4, <2>1, <2>2, <3>2
  <2>3. CASE w \in ToSet(WriteDataQueue) /\ irp[w].routine # "set"
    BY <1>1, <1>4, <2>1, <2>3
  <2>4. CASE w \notin ToSet(WriteDataQueue)
    BY <1>1, <1>3, <2>1, <2>4 DEF Has
  <2> QED BY <2>2, <2>3, <2>4
<1>12. SuccessIsSent'
  <2>1. ASSUME NEW w \in Writes
        PROVE  \/ irp'[w] = irp[w]
               \/ irp'[w].Status = "CANCELLED"
    <3>1. irp[w] \in WriteIrp /\ "CANCELLED" \in TransferStatus /\ 0 \in Nat
      BY <1>0, TypeParts DEF TransferStatus
    <3> QED BY <1>1, <3>1, AnsweredType
  <2> QED BY <1>0, <2>1 DEF SuccessIsSent
<1>13. GoneInv'
  BY <1>0 DEF GoneInv, NothingActive
<1> QED BY <1>5, <1>6, <1>8, <1>9, <1>10, <1>11, <1>12, <1>13 DEF CoreInv, PipeInv

LEMMA TopPurgeCore ==
    ASSUME CoreInv, TopPurge \/ SendCancelled \/ CancelWriteThreadPurge
    PROVE  TypeInv' /\ CoreInv'
<1>1. TypeInv
  BY DEF CoreInv, PipeInv
<1>2. TypeInv'
  BY <1>1, TopPurgeType, SendCancelledType, CancelWriteThreadPurgeType
<1>3. /\ UNCHANGED <<buf, MWriteIdleQueue, MWritePendingQueue, MWriteCompletionQueue,
                     MWTSentIrpQueue, device>>
      /\ count'.writes = count.writes
  BY <1>1, CountedIs DEF TopPurge, SendCancelled, CancelWriteThreadPurge, QueuesAlone,
         ThreadStep, bufferQueues, NotSent, OtherStep
<1>4. wt \in WriteThread
  BY <1>1, TypeParts
<1>5. HandSame /\ wt'.mwtState = wt.mwtState /\ (Gone' => Gone)
  <2>1. CASE TopPurge
    <3>1. wt' = [wt EXCEPT !.pc = "check", !.bPurged = FALSE] /\ wt.pc = "top"
      BY <2>1 DEF TopPurge
    <3> QED BY <1>4, <3>1 DEF WriteThread, HandSame, Sending, Gone
  <2>2. CASE SendCancelled
    <3>1. wt' = [wt EXCEPT !.pc = "check"] /\ wt.pc = "send"
      BY <2>2 DEF SendCancelled, Goto
    <3> QED BY <1>4, <3>1 DEF WriteThread, HandSame, Sending, Gone
  <2>3. CASE CancelWriteThreadPurge
    <3>1. wt' = wt
      BY <2>3 DEF CancelWriteThreadPurge
    <3> QED BY <3>1 DEF HandSame, Sending, Gone
  <2> QED BY <2>1, <2>2, <2>3
<1>6. CASE PurgeQueue
  BY <1>2, <1>3, <1>5, <1>6, PurgedCore
<1>7. CASE ~PurgeQueue
  <2>1. UNCHANGED <<irp, WriteDataQueue, faults>>
    BY <1>7 DEF TopPurge, SendCancelled, CancelWriteThreadPurge
  <2>2. \A w \in Writes : irp'[w] = irp[w]
    BY <2>1
  <2>3. Still
    BY <1>3, <1>5, <2>1, <2>2 DEF Still
  <2> QED BY <1>2, <2>3, StillCore
<1> QED BY <1>2, <1>6, <1>7

\* The cancel routine completes the write.
LEMMA CancelsWriteCore ==
    ASSUME CoreInv, TypeInv', NEW w \in Writes, CancelsWrite(w),
           UNCHANGED <<buf, MWriteIdleQueue, MWritePendingQueue, MWriteCompletionQueue,
                       MWTSentIrpQueue, device, count>>
    PROVE  CoreInv'
<1>0. TypeInv /\ OrderInv /\ BufferInv /\ RecordInv /\ TransferInv /\ SizeInv
      /\ IrpInv /\ SuccessIsSent /\ GoneInv
  BY DEF CoreInv, PipeInv
<1>1. /\ irp[w].routine = "running"
      /\ \A v \in Writes : v # w => irp'[v] = irp[v]
      /\ irp'[w].where = "answered" /\ irp'[w].routine = "none"
      /\ irp'[w].Status = "CANCELLED" /\ irp'[w].Information = 0
      /\ wt' = wt
  BY DEF CancelsWrite
<1>2. /\ WriteDataQueue \in Seq(Writes) /\ WriteDataQueue' \in Seq(Writes)
      /\ Records' = Records /\ HandSame
      /\ MWriteCompletionQueue \in Seq(Buffers) /\ Records \in Seq(SentIrp)
  BY <1>0, <1>1, TypeParts DEF Records, HandSame, Sending, TypeInv, TypeOK
<1>3. \E f \in [DOMAIN WriteDataQueue' -> DOMAIN WriteDataQueue] :
         /\ \A k \in DOMAIN WriteDataQueue' :
               WriteDataQueue'[k] = WriteDataQueue[f[k]]
         /\ \A k, m \in DOMAIN WriteDataQueue' : k < m => f[k] < f[m]
  <2>1. CASE WriteDataQueue' = WriteDataQueue
    <3> DEFINE f == [k \in DOMAIN WriteDataQueue |-> k]
    <3>1. /\ f \in [DOMAIN WriteDataQueue -> DOMAIN WriteDataQueue]
          /\ \A k \in DOMAIN WriteDataQueue : f[k] = k
      OBVIOUS
    <3> HIDE DEF f
    <3> QED BY <2>1, <3>1
  <2>2. CASE WriteDataQueue' = Keep(WriteDataQueue, Writes \ {w})
    <3>1. PICK f \in [1 .. Len(WriteDataQueue') -> 1 .. Len(WriteDataQueue)] :
             /\ \A k \in 1 .. Len(WriteDataQueue') :
                   WriteDataQueue'[k] = WriteDataQueue[f[k]]
             /\ \A k, m \in 1 .. Len(WriteDataQueue') : k < m => f[k] < f[m]
      <4> DEFINE q == Keep(WriteDataQueue, Writes \ {w})
      <4>1. \E f \in [1 .. Len(q) -> 1 .. Len(WriteDataQueue)] :
               /\ \A k \in 1 .. Len(q) :
                     q[k] = WriteDataQueue[f[k]] /\ WriteDataQueue[f[k]] \in Writes \ {w}
               /\ \A k, m \in 1 .. Len(q) : k < m => f[k] < f[m]
        BY <1>2, KeepPlaces
      <4>2. WriteDataQueue' = q
        BY <2>2
      <4> HIDE DEF q
      <4> QED BY <4>1, <4>2
    <3>2. DOMAIN WriteDataQueue' = 1 .. Len(WriteDataQueue')
          /\ DOMAIN WriteDataQueue = 1 .. Len(WriteDataQueue)
      BY <1>2
    <3> QED BY <3>1, <3>2
  <2> QED BY <2>1, <2>2 DEF CancelsWrite
<1>4. ToSet(WriteDataQueue') = ToSet(WriteDataQueue) \ {w}
  <2>1. CASE w \in ToSet(WriteDataQueue)
             /\ WriteDataQueue' = Keep(WriteDataQueue, Writes \ {w})
    <3>1. ToSet(WriteDataQueue') = ToSet(WriteDataQueue) \cap (Writes \ {w})
      BY <1>2, <2>1, KeepElements
    <3> QED BY <1>2, <3>1, Members
  <2>2. CASE w \notin ToSet(WriteDataQueue) /\ WriteDataQueue' = WriteDataQueue
    BY <2>2
  <2> QED BY <2>1, <2>2 DEF CancelsWrite
<1>5. \A v \in Writes : v # w => (Has(v)' <=> Has(v))
  BY <1>1, <1>2, <1>4 DEF Has, InHand, Recorded, Sending
<1>6. Has(w)' => Has(w) /\ "adopted" \in faults'
  <2>1. ASSUME Has(w)' PROVE (InHand(w) \/ Recorded(w)) /\ Has(w)
    BY <1>1, <1>2, <1>4, <2>1 DEF Has, InHand, Recorded, Sending
  <2>2. InHand(w) \/ Recorded(w) => w \notin ToSet(WriteDataQueue)
    BY <1>0, OnePlace
  <2>3. Range(Records) = ToSet(Records)
    BY <1>2, Members
  <2>4. InHand(w) \/ Recorded(w) => HeldByThread(w)
    BY <2>3 DEF HeldByThread, InHand, Sending, Recorded, Records, ToSet
  <2> QED BY <2>1, <2>2, <2>4 DEF CancelsWrite, FaultIf
<1>7. OrderInv'
  <2>1. PICK f \in [DOMAIN WriteDataQueue' -> DOMAIN WriteDataQueue] :
           /\ \A k \in DOMAIN WriteDataQueue' :
                 WriteDataQueue'[k] = WriteDataQueue[f[k]]
           /\ \A k, m \in DOMAIN WriteDataQueue' : k < m => f[k] < f[m]
    BY <1>3
  <2>2. QueueRises'
    BY <1>0, <2>1 DEF OrderInv, QueueRises
  <2>3. RecordsRise'
    BY <1>0, <1>2, <2>1 DEF OrderInv, RecordsRise
  <2>4. HandRises'
    BY <1>0, <1>2, <2>1 DEF OrderInv, HandRises, HandSame
  <2> QED BY <2>2, <2>3, <2>4 DEF OrderInv
<1>8. BufferInv'
  BY <1>0, <1>2 DEF BufferInv, HandSame
<1>9. Out' = Out /\ faults \subseteq faults' /\ faults' \subseteq faults \cup {"adopted", "broken"}
  BY DEF Out, CancelsWrite, FaultIf
<1>10. RecordInv'
  BY <1>0, <1>1, <1>2, <1>9 DEF RecordInv, RecordOf, Kept, Unreturned
<1>11. TransferInv'
  BY <1>0, <1>9 DEF TransferInv, Reached
<1>12. SizeInv'
  <2>1. Packets[w] \in Nat /\ 0 <= Packets[w]
    BY WritesAre
  <2>2. irp'[w].Information <= Packets[w]
        /\ \A k \in 1 .. irp'[w].Information : <<w, k>> \in ToSet(device)
    BY <1>1, <2>1
  <2> QED BY <1>0, <1>1, <1>5, <2>2 DEF SizeInv, Reached
<1>13. IrpInv'
  <2>1. w <= count.writes
    <3>1. irp[w].where = "active" /\ w \in Nat /\ count.writes \in Nat
      BY <1>0, <1>1, WritesAre, TypeParts DEF IrpInv, AnySpent
    <3> QED BY <1>0, <3>1 DEF IrpInv
  <2>2. w \in Nat /\ count.writes \in Nat
    BY <1>0, WritesAre, TypeParts DEF AnySpent
  <2>3. /\ irp'[w].routine # "none" <=> irp'[w].where = "active"
        /\ w > count'.writes => irp'[w].where = "new" /\ irp'[w].Information = 0
        /\ Has(w)' /\ "adopted" \notin faults' => irp'[w].where = "active"
        /\ irp'[w].routine = "set" => Has(w)'
        /\ irp'[w].routine = "running" => irp'[w].cancelled
    BY <1>1, <1>6, <2>1, <2>2
  <2>4. \A v \in Writes : v # w =>
            /\ irp'[v].routine # "none" <=> irp'[v].where = "active"
            /\ v > count'.writes => irp'[v].where = "new" /\ irp'[v].Information = 0
            /\ Has(v)' /\ "adopted" \notin faults' => irp'[v].where = "active"
            /\ irp'[v].routine = "set" => Has(v)'
            /\ irp'[v].routine = "running" => irp'[v].cancelled
    BY <1>0, <1>1, <1>5, <1>9 DEF IrpInv
  <2> QED BY <2>3, <2>4 DEF IrpInv
<1>14. SuccessIsSent'
  BY <1>0, <1>1 DEF SuccessIsSent
<1>15. GoneInv'
  BY <1>0, <1>1 DEF GoneInv, Gone, NothingActive
<1> QED BY <1>7, <1>8, <1>10, <1>11, <1>12, <1>13, <1>14, <1>15 DEF CoreInv, PipeInv

-----------------------------------------------------------------------------
(***************************************************************************)
(* The invariant: steps that move a write or a transfer on.                *)
(***************************************************************************)
LEMMA EnqueueCore ==
    ASSUME CoreInv, Enqueue
    PROVE  TypeInv' /\ CoreInv'
<1>0. TypeInv /\ OrderInv /\ BufferInv /\ RecordInv /\ TransferInv /\ SizeInv
      /\ IrpInv /\ SuccessIsSent /\ GoneInv
  BY DEF CoreInv, PipeInv
<1>a. PICK w \in Writes : w = count'.writes
  BY <1>0, EnqueueType
<1>1. /\ TypeInv' /\ HandSame /\ (Gone' <=> Gone)
      /\ wt'.mwtState = wt.mwtState
      /\ w = count.writes + 1 /\ w \in Writes
      /\ WriteDataQueue' = Append(WriteDataQueue, w)
      /\ irp'[w].where = "active" /\ irp'[w].routine = "set"
      /\ irp'[w].Information = irp[w].Information
      /\ irp'[w].cancelled = irp[w].cancelled
      /\ \A v \in Writes : v # w => irp'[v] = irp[v]
      /\ UNCHANGED <<buf, MWriteIdleQueue, MWritePendingQueue,
                     MWriteCompletionQueue, MWriteCancellingQueue,
                     MWTSentIrpQueue, device, faults>>
  BY <1>0, <1>a, EnqueueType
<1>2. /\ WriteDataQueue \in Seq(Writes) /\ count.writes \in Nat /\ wt \in WriteThread
      /\ Records' = Records /\ w \in Nat
      /\ Records \in Seq(SentIrp)
  BY <1>0, <1>1, TypeParts, WritesAre DEF Records, AnySpent
<1>3. /\ DOMAIN WriteDataQueue' = 1 .. Len(WriteDataQueue) + 1
      /\ Len(WriteDataQueue) \in Nat
      /\ DOMAIN WriteDataQueue = 1 .. Len(WriteDataQueue)
      /\ \A i \in 1 .. Len(WriteDataQueue) : WriteDataQueue'[i] = WriteDataQueue[i]
      /\ WriteDataQueue'[Len(WriteDataQueue) + 1] = w
  BY <1>1, <1>2
<1>4. ToSet(WriteDataQueue') = ToSet(WriteDataQueue) \cup {w}
  BY <1>3 DEF ToSet
<1>5. \A v : Has(v)' <=> Has(v) \/ v = w
  BY <1>1, <1>2, <1>4 DEF Has, InHand, Recorded, HandSame
<1>6. irp[w].Information = 0
  BY <1>0, <1>1, <1>2 DEF IrpInv
<1>7. /\ \A i \in 1 .. Len(WriteDataQueue) :
            WriteDataQueue[i] \in Nat /\ WriteDataQueue[i] <= count.writes
      /\ \A i \in DOMAIN Records :
            Records[i].SentIrp \in Nat /\ Records[i].SentIrp <= count.writes
  <2>1. \A i \in 1 .. Len(WriteDataQueue) : WriteDataQueue[i] \in Writes
    BY <1>2
  <2>2. \A i \in DOMAIN Records : Records[i].SentIrp \in Sent
    <3>1. \A i \in DOMAIN Records : Records[i] \in SentIrp
      BY <1>2
    <3> QED BY <3>1 DEF SentIrp
  <2>3. \A v \in Sent : v \in Nat
    BY WritesAre DEF Sent
  <2>4. /\ \A i \in 1 .. Len(WriteDataQueue) : WriteDataQueue[i] <= count.writes
        /\ \A i \in DOMAIN Records : Records[i].SentIrp <= count.writes
    BY <1>0, <1>3 DEF OrderInv, QueueRises, RecordsRise
  <2> QED BY <2>1, <2>2, <2>3, <2>4 DEF Sent
<1>8. OrderInv'
  <2>1. QueueRises'
    <3>1. QueueRises
      BY <1>0 DEF OrderInv
    <3>2. ASSUME NEW i \in 1 .. Len(WriteDataQueue) + 1,
                 NEW j \in 1 .. Len(WriteDataQueue) + 1, i < j
          PROVE  WriteDataQueue'[i] < WriteDataQueue'[j]
      <4>1. i \in 1 .. Len(WriteDataQueue)
        BY <1>3, <3>2
      <4>2. CASE j \in 1 .. Len(WriteDataQueue)
        BY <1>3, <3>1, <3>2, <4>1, <4>2 DEF QueueRises
      <4>3. CASE j = Len(WriteDataQueue) + 1
        BY <1>1, <1>2, <1>3, <1>7, <4>1, <4>3
      <4> QED BY <1>3, <4>2, <4>3
    <3>3. \A i \in 1 .. Len(WriteDataQueue) + 1 : WriteDataQueue'[i] <= w
      BY <1>1, <1>2, <1>3, <1>7
    <3> QED BY <1>a, <1>3, <3>2, <3>3 DEF QueueRises
  <2>2. RecordsRise'
    <3>1. \A i \in DOMAIN Records, j \in 1 .. Len(WriteDataQueue) + 1 :
             Records[i].SentIrp < WriteDataQueue'[j]
      BY <1>0, <1>1, <1>2, <1>3, <1>7 DEF OrderInv, RecordsRise
    <3>2. \A i \in DOMAIN Records : Records[i].SentIrp <= w
      BY <1>1, <1>2, <1>7
    <3> QED BY <1>a, <1>0, <1>2, <1>3, <3>1, <3>2 DEF OrderInv, RecordsRise
  <2>3. HandRises'
    <3>1. wt.pWriteCurrent \in Nat
      BY <1>2, WritesAre DEF WriteThread, Sent
    <3>2. Sending => \A j \in 1 .. Len(WriteDataQueue) + 1 :
                        wt.pWriteCurrent < WriteDataQueue'[j]
      BY <1>0, <1>1, <1>2, <1>3, <3>1 DEF OrderInv, HandRises
    <3>3. Sending => wt.pWriteCurrent <= w
      BY <1>0, <1>1, <1>2, <3>1 DEF OrderInv, HandRises
    <3> QED BY <1>a, <1>0, <1>1, <1>2, <1>3, <3>2, <3>3
            DEF OrderInv, HandRises, HandSame
  <2> QED BY <2>1, <2>2, <2>3 DEF OrderInv
<1>9. BufferInv'
  BY <1>0, <1>1 DEF BufferInv, HandSame
<1>10. Out' = Out
  BY <1>1 DEF Out
<1>11. RecordInv'
  BY <1>0, <1>1, <1>2, <1>10 DEF RecordInv, RecordOf, Kept, Unreturned
<1>12. TransferInv'
  BY <1>0, <1>1, <1>10 DEF TransferInv, Reached
<1>13. SizeInv'
  <2>1. Packets[w] \in Nat /\ 0 <= Packets[w]
    BY <1>1, WritesAre
  <2> QED BY <1>0, <1>1, <1>5, <1>6, <2>1 DEF SizeInv, Reached
<1>14. IrpInv'
  <2>1. /\ irp'[w].routine # "none" <=> irp'[w].where = "active"
        /\ w > w => irp'[w].where = "new" /\ irp'[w].Information = 0
        /\ Has(w)' /\ "adopted" \notin faults' => irp'[w].where = "active"
        /\ irp'[w].routine = "set" => Has(w)'
        /\ irp'[w].routine = "running" => irp'[w].cancelled
    BY <1>1, <1>2, <1>5
  <2>2. \A v \in Writes : v # w =>
            /\ irp'[v].routine # "none" <=> irp'[v].where = "active"
            /\ v > w => irp'[v].where = "new" /\ irp'[v].Information = 0
            /\ Has(v)' /\ "adopted" \notin faults' => irp'[v].where = "active"
            /\ irp'[v].routine = "set" => Has(v)'
            /\ irp'[v].routine = "running" => irp'[v].cancelled
    <3>1. \A v \in Writes : v \in Nat /\ (v > w => v > count.writes)
      BY <1>1, <1>2, WritesAre
    <3> QED BY <1>0, <1>1, <1>5, <3>1 DEF IrpInv
  <2> QED BY <1>a, <2>1, <2>2 DEF IrpInv
<1>15. SuccessIsSent'
  BY <1>0, <1>1 DEF SuccessIsSent
<1>16. GoneInv'
  BY <1>0, <1>1 DEF GoneInv, NothingActive
<1> QED BY <1>1, <1>8, <1>9, <1>11, <1>12, <1>13, <1>14, <1>15, <1>16
        DEF CoreInv, PipeInv

LEMMA WriteCompletionRoutineCore ==
    ASSUME CoreInv, WriteCompletionRoutine
    PROVE  TypeInv' /\ CoreInv' /\ Out' = Out
<1>0. TypeInv /\ OrderInv /\ BufferInv /\ RecordInv /\ TransferInv /\ SizeInv
      /\ IrpInv /\ SuccessIsSent /\ GoneInv
  BY DEF CoreInv, PipeInv
<1>1. /\ TypeInv'
      /\ UNCHANGED <<irp, WriteDataQueue, MWriteIdleQueue, buf, dev, count, device,
                     MWriteCancellingQueue, MWTSentIrpQueue, wt, int,
                     canceller, purger, faults>>
  BY <1>0, WriteCompletionRoutineType
<1>2. PICK b \in ToSet(MWritePendingQueue) :
         /\ buf[b].Status \in Finished
         /\ MWritePendingQueue' = Keep(MWritePendingQueue, Buffers \ {b})
         /\ MWriteCompletionQueue' = Append(MWriteCompletionQueue, b)
  BY <1>0, WriteCompletionRoutineType
<1>3. /\ MWritePendingQueue \in Seq(Buffers) /\ MWriteCompletionQueue \in Seq(Buffers)
      /\ b \in Buffers /\ ToSet(MWritePendingQueue) \subseteq Buffers
  BY <1>0, <1>2, TypeParts, Members
<1>4. /\ ToSet(MWritePendingQueue') = ToSet(MWritePendingQueue) \ {b}
      /\ IsInjective(MWritePendingQueue')
  BY <1>0, <1>2, <1>3, KeepElements DEF BufferInv
<1>5. /\ ToSet(MWriteCompletionQueue') = ToSet(MWriteCompletionQueue) \cup {b}
      /\ IsInjective(MWriteCompletionQueue')
  <2>1. MWriteCompletionQueue' = MWriteCompletionQueue \o <<b>>
        /\ <<b>> \in Seq(Buffers)
        /\ ToSet(MWriteCompletionQueue \o <<b>>) = ToSet(MWriteCompletionQueue) \cup {b}
    BY <1>2, <1>3, AppendIsConcatOfOne
  <2>2. IsInjective(<<b>>) /\ ToSet(<<b>>) = {b}
    BY ElementsOfOne
  <2>3. IsInjective(MWriteCompletionQueue \o <<b>>)
    <3>1. IsInjective(MWriteCompletionQueue)
          /\ ToSet(MWriteCompletionQueue) \cap ToSet(<<b>>) = {}
      BY <1>0, <1>2, <2>2 DEF BufferInv
    <3> QED BY <1>3, <2>1, <2>2, <3>1, InjectiveConcat
  <2> QED BY <2>1, <2>3
<1>6. Sending => /\ MWritePendingQueue' # <<>>
                 /\ Last(MWritePendingQueue') = Last(MWritePendingQueue)
  <2> SUFFICES ASSUME Sending
               PROVE  /\ MWritePendingQueue' # <<>>
                      /\ Last(MWritePendingQueue') = Last(MWritePendingQueue)
    OBVIOUS
  <2>1. /\ MWritePendingQueue # <<>> /\ buf[Last(MWritePendingQueue)] = IdleBuffer
        /\ Last(MWritePendingQueue) \in Buffers
    BY <1>0, <1>3, Members DEF BufferInv
  <2>2. Last(MWritePendingQueue) \in Buffers \ {b}
    BY <1>2, <2>1 DEF IdleBuffer, Finished
  <2> QED BY <1>2, <1>3, <2>1, <2>2, KeepLast
<1>7. BufferInv'
  <2>1. /\ MWriteIdleQueue' = MWriteIdleQueue /\ buf' = buf /\ Sending' = Sending
    BY <1>1 DEF Sending
  <2>2. ToSet(MWriteIdleQueue) \cap ToSet(MWritePendingQueue) = {}
        /\ ToSet(MWriteIdleQueue) \cap ToSet(MWriteCompletionQueue) = {}
        /\ ToSet(MWritePendingQueue) \cap ToSet(MWriteCompletionQueue) = {}
    BY <1>0 DEF BufferInv
  <2>3. ToSet(MWriteIdleQueue') \cap ToSet(MWritePendingQueue') = {}
        /\ ToSet(MWriteIdleQueue') \cap ToSet(MWriteCompletionQueue') = {}
        /\ ToSet(MWritePendingQueue') \cap ToSet(MWriteCompletionQueue') = {}
    BY <1>2, <1>4, <1>5, <2>1, <2>2
  <2>4. \A x \in ToSet(MWritePendingQueue') :
           buf'[x].Status = "IDLE" => Sending' /\ x = Last(MWritePendingQueue')
    BY <1>0, <1>4, <1>6, <2>1 DEF BufferInv
  <2>5. \A x \in ToSet(MWriteCompletionQueue') : buf'[x].Status \in Finished
    BY <1>0, <1>2, <1>5, <2>1 DEF BufferInv
  <2> QED BY <1>0, <1>4, <1>5, <1>6, <2>1, <2>3, <2>4, <2>5 DEF BufferInv
<1>8. Out' = Out
  BY <1>1, <1>2, <1>4, <1>5 DEF Out, Finished
<1>9. OrderInv'
  BY <1>0, <1>1 DEF OrderInv, QueueRises, RecordsRise, HandRises, Records, Sending
<1>10. RecordInv'
  BY <1>0, <1>1, <1>8 DEF RecordInv, RecordOf, Kept, Unreturned, Records
<1>11. TransferInv'
  BY <1>0, <1>1, <1>8 DEF TransferInv, Reached
<1>12. \A w : Has(w)' <=> Has(w)
  BY <1>1 DEF Has, InHand, Recorded, Records, Sending
<1>13. SizeInv'
  BY <1>0, <1>1, <1>12 DEF SizeInv, Reached
<1>14. IrpInv'
  BY <1>0, <1>1, <1>12 DEF IrpInv
<1>15. SuccessIsSent'
  BY <1>0, <1>1 DEF SuccessIsSent
<1>16. GoneInv'
  <2>1. Gone => ToSet(MWritePendingQueue) = {}
    BY <1>0, <1>3, Members DEF GoneInv, NothingActive
  <2> QED BY <1>1, <1>2, <2>1 DEF GoneInv, Gone
<1> QED BY <1>1, <1>7, <1>8, <1>9, <1>10, <1>11, <1>13, <1>14, <1>15, <1>16
        DEF CoreInv, PipeInv

LEMMA SendTakeCore ==
    ASSUME CoreInv, SendTake
    PROVE  TypeInv' /\ CoreInv' /\ Out' = Out
<1>0. TypeInv /\ OrderInv /\ BufferInv /\ RecordInv /\ TransferInv /\ SizeInv
      /\ IrpInv /\ SuccessIsSent /\ GoneInv
  BY DEF CoreInv, PipeInv
<1>1. TypeInv'
  BY <1>0, SendTakeType
<1>2. PICK b \in Buffers : b = Head(MWriteIdleQueue)
  BY <1>0, TypeParts, Members DEF SendTake, SomethingToSend
<1>3. /\ wt.pc = "send" /\ MWriteIdleQueue # <<>>
      /\ MWriteIdleQueue' = Tail(MWriteIdleQueue)
      /\ MWritePendingQueue' = Append(MWritePendingQueue, b)
      /\ UNCHANGED <<irp, buf, MWriteCompletionQueue, MWriteCancellingQueue,
                     MWTSentIrpQueue, device, faults, signalling, canceller, count>>
  BY <1>2 DEF SendTake, SomethingToSend, ThreadStep
<1>4. /\ wt \in WriteThread /\ MWriteIdleQueue \in Seq(Buffers)
      /\ MWritePendingQueue \in Seq(Buffers) /\ WriteDataQueue \in Seq(Writes)
      /\ MWriteCompletionQueue \in Seq(Buffers) /\ Records \in Seq(SentIrp)
      /\ count.writes \in Nat
  BY <1>0, TypeParts DEF AnySpent
<1>5. /\ wt'.pc = "sending" /\ wt'.mwtState = wt.mwtState
      /\ \/ wt'.pWriteCurrent = 0 /\ WriteDataQueue' = WriteDataQueue
         \/ /\ WriteDataQueue # <<>>
            /\ wt'.pWriteCurrent = Head(WriteDataQueue)
            /\ WriteDataQueue' = Tail(WriteDataQueue)
  <2>1. CASE wt.bSendZeroLength
    <3>1. wt' = [wt EXCEPT !.pc = "sending", !.pWriteCurrent = 0]
          /\ WriteDataQueue' = WriteDataQueue
      BY <2>1 DEF SendTake
    <3> QED BY <1>4, <3>1 DEF WriteThread
  <2>2. CASE ~wt.bSendZeroLength
    <3>1. wt' = [wt EXCEPT !.pc = "sending", !.pWriteCurrent = Head(WriteDataQueue)]
          /\ WriteDataQueue' = Tail(WriteDataQueue) /\ WriteDataQueue # <<>>
      BY <2>2 DEF SendTake, SomethingToSend
    <3> QED BY <1>4, <3>1 DEF WriteThread
  <2> QED BY <2>1, <2>2
<1>6. ~Sending /\ Sending' /\ ~Gone' /\ Records' = Records
  BY <1>3, <1>5 DEF Sending, Gone, Records
\* The write in hand and the queue.
<1>7. /\ \A j \in DOMAIN WriteDataQueue' :
            \/ /\ j \in DOMAIN WriteDataQueue
               /\ WriteDataQueue'[j] = WriteDataQueue[j] /\ wt'.pWriteCurrent = 0
            \/ /\ j + 1 \in DOMAIN WriteDataQueue /\ j + 1 > 1
               /\ WriteDataQueue'[j] = WriteDataQueue[j + 1]
               /\ wt'.pWriteCurrent = WriteDataQueue[1]
      /\ wt'.pWriteCurrent # 0 =>
            1 \in DOMAIN WriteDataQueue /\ wt'.pWriteCurrent = WriteDataQueue[1]
  <2>1. CASE wt'.pWriteCurrent = 0 /\ WriteDataQueue' = WriteDataQueue
    BY <2>1
  <2>2. CASE /\ WriteDataQueue # <<>>
             /\ wt'.pWriteCurrent = Head(WriteDataQueue)
             /\ WriteDataQueue' = Tail(WriteDataQueue)
    BY <1>4, <2>2
  <2> QED BY <1>5, <2>1, <2>2
<1>8. \A v \in Writes : Has(v)' <=> Has(v)
  <2>1. \A v \in Writes : v \in ToSet(WriteDataQueue') \/ wt'.pWriteCurrent = v
                            <=> v \in ToSet(WriteDataQueue)
    <3>1. 0 \notin Writes
      BY WritesAre
    <3>2. CASE wt'.pWriteCurrent = 0 /\ WriteDataQueue' = WriteDataQueue
      BY <3>1, <3>2
    <3>3. CASE /\ WriteDataQueue # <<>>
               /\ wt'.pWriteCurrent = Head(WriteDataQueue)
               /\ WriteDataQueue' = Tail(WriteDataQueue)
      <4>1. ToSet(WriteDataQueue) = {Head(WriteDataQueue)} \cup ToSet(Tail(WriteDataQueue))
        BY <1>4, <3>3, HeadAndTail
      <4> QED BY <3>3, <4>1
    <3> QED BY <1>5, <3>2, <3>3
  <2> QED BY <1>6, <2>1 DEF Has, InHand, Recorded
<1>9. OrderInv'
  <2>1. /\ DOMAIN WriteDataQueue = 1 .. Len(WriteDataQueue) /\ Len(WriteDataQueue) \in Nat
        /\ \A j \in DOMAIN WriteDataQueue : WriteDataQueue[j] \in Nat /\ WriteDataQueue[j] > 0
    <3>1. \A j \in DOMAIN WriteDataQueue : WriteDataQueue[j] \in Writes
      BY <1>4
    <3>2. \A w \in Writes : w \in Nat /\ w > 0
      BY WritesAre
    <3> QED BY <1>4, <3>1, <3>2
  <2>2. DOMAIN WriteDataQueue' \subseteq Nat
    <3>1. WriteDataQueue' \in Seq(Writes)
      BY <1>1 DEF TypeInv, TypeOK
    <3> QED BY <3>1
  <2>3. QueueRises'
    <3>1. /\ \A i, j \in DOMAIN WriteDataQueue :
                i < j => WriteDataQueue[i] < WriteDataQueue[j]
          /\ \A i \in DOMAIN WriteDataQueue : WriteDataQueue[i] <= count.writes
      BY <1>0 DEF OrderInv, QueueRises
    <3>2. CASE WriteDataQueue' = WriteDataQueue
      BY <1>3, <3>1, <3>2 DEF QueueRises
    <3>3. CASE WriteDataQueue # <<>> /\ WriteDataQueue' = Tail(WriteDataQueue)
      <4>1. \A j \in DOMAIN WriteDataQueue' :
               /\ j \in Nat /\ j + 1 \in DOMAIN WriteDataQueue
               /\ WriteDataQueue'[j] = WriteDataQueue[j + 1]
        BY <1>4, <3>3
      <4>2. \A i, j \in DOMAIN WriteDataQueue' :
               i < j => WriteDataQueue'[i] < WriteDataQueue'[j]
        BY <3>1, <4>1
      <4>3. \A j \in DOMAIN WriteDataQueue' : WriteDataQueue'[j] <= count.writes
        BY <3>1, <4>1
      <4> QED BY <1>3, <4>2, <4>3 DEF QueueRises
    <3> QED BY <1>5, <3>2, <3>3
  <2>4. RecordsRise'
    BY <1>0, <1>3, <1>6, <1>7, <2>1 DEF OrderInv, RecordsRise
  <2>5. HandRises'
    <3>1. \A j \in DOMAIN WriteDataQueue' : wt'.pWriteCurrent < WriteDataQueue'[j]
      BY <1>0, <1>7, <2>1, <2>2 DEF OrderInv, QueueRises
    <3>2. wt'.pWriteCurrent # 0 =>
             \A i \in DOMAIN Records : Records[i].SentIrp < wt'.pWriteCurrent
      BY <1>0, <1>7 DEF OrderInv, RecordsRise
    <3>3. wt'.pWriteCurrent <= count.writes
      BY <1>0, <1>4, <1>7, <2>1, SMTT(30) DEF OrderInv, QueueRises
    <3> QED BY <1>3, <1>6, <3>1, <3>2, <3>3 DEF HandRises
  <2> QED BY <2>3, <2>4, <2>5 DEF OrderInv
<1>10. /\ b \in ToSet(MWriteIdleQueue)
       /\ ToSet(MWriteIdleQueue') = ToSet(MWriteIdleQueue) \ {b}
       /\ IsInjective(MWriteIdleQueue')
  <2>1. /\ ToSet(MWriteIdleQueue) = {b} \cup ToSet(MWriteIdleQueue')
        /\ IsInjective(MWriteIdleQueue') /\ b \notin ToSet(MWriteIdleQueue')
    BY <1>0, <1>2, <1>3, <1>4, HeadAndTail DEF BufferInv
  <2> QED BY <2>1
<1>11. /\ ToSet(MWritePendingQueue') = ToSet(MWritePendingQueue) \cup {b}
       /\ IsInjective(MWritePendingQueue')
       /\ MWritePendingQueue' # <<>> /\ Last(MWritePendingQueue') = b
  <2>1. /\ MWritePendingQueue' = MWritePendingQueue \o <<b>> /\ <<b>> \in Seq(Buffers)
        /\ ToSet(MWritePendingQueue \o <<b>>) = ToSet(MWritePendingQueue) \cup {b}
    BY <1>3, <1>4, AppendIsConcatOfOne
  <2>2. IsInjective(<<b>>) /\ ToSet(<<b>>) = {b}
    BY ElementsOfOne
  <2>3. IsInjective(MWritePendingQueue)
        /\ ToSet(MWritePendingQueue) \cap ToSet(<<b>>) = {}
    BY <1>0, <1>10, <2>2 DEF BufferInv
  <2>4. IsInjective(MWritePendingQueue \o <<b>>)
    BY <1>4, <2>1, <2>2, <2>3, InjectiveConcat
  <2>5. MWritePendingQueue \o <<b>> # <<>> /\ Last(MWritePendingQueue \o <<b>>) = b
    BY <1>4, LastOfConcat
  <2> QED BY <2>1, <2>4, <2>5
<1>12. BufferInv'
  <2>1. /\ buf' = buf /\ MWriteCompletionQueue' = MWriteCompletionQueue
        /\ ToSet(MWriteIdleQueue) \cap ToSet(MWritePendingQueue) = {}
        /\ ToSet(MWriteIdleQueue) \cap ToSet(MWriteCompletionQueue) = {}
        /\ ToSet(MWritePendingQueue) \cap ToSet(MWriteCompletionQueue) = {}
        /\ IsInjective(MWriteCompletionQueue)
    BY <1>0, <1>3 DEF BufferInv
  <2>2. /\ \A x \in ToSet(MWriteIdleQueue) : buf[x] = IdleBuffer
        /\ \A x \in ToSet(MWritePendingQueue) : buf[x].Status # "IDLE"
        /\ \A x \in ToSet(MWriteCompletionQueue) : buf[x].Status \in Finished
    BY <1>0, <1>6 DEF BufferInv
  <2> QED BY <1>6, <1>10, <1>11, <2>1, <2>2 DEF BufferInv
<1>13. Out' = Out
  <2>1. buf[b].Status = "IDLE"
    BY <1>0, <1>10 DEF BufferInv, IdleBuffer
  <2> QED BY <1>3, <1>11, <2>1 DEF Out
<1>14. RecordInv'
  BY <1>0, <1>3, <1>5, <1>6, <1>13 DEF RecordInv, RecordOf, Kept, Unreturned
<1>15. TransferInv'
  BY <1>0, <1>3, <1>13 DEF TransferInv, Reached
<1>16. SizeInv'
  BY <1>0, <1>3, <1>8 DEF SizeInv, Reached
<1>17. IrpInv'
  BY <1>0, <1>3, <1>8 DEF IrpInv
<1>18. SuccessIsSent'
  BY <1>0, <1>3 DEF SuccessIsSent
<1>19. GoneInv'
  BY <1>6 DEF GoneInv
<1> QED BY <1>1, <1>9, <1>12, <1>13, <1>14, <1>15, <1>16, <1>17, <1>18, <1>19
        DEF CoreInv, PipeInv

LEMMA SendSubmitCore ==
    ASSUME CoreInv, SendSubmit
    PROVE  TypeInv' /\ CoreInv'
<1>0. TypeInv /\ OrderInv /\ BufferInv /\ RecordInv /\ TransferInv /\ SizeInv
      /\ IrpInv /\ SuccessIsSent /\ GoneInv
  BY DEF CoreInv, PipeInv
<1>1. TypeInv'
  BY <1>0, SendSubmitType
<1>2. Sending
  BY DEF Sending, SendSubmit
<1>3. PICK b \in Buffers : /\ b = Last(MWritePendingQueue)
                           /\ b \in ToSet(MWritePendingQueue)
                           /\ buf[b] = IdleBuffer
  BY <1>0, <1>2, TypeParts, Members DEF BufferInv
<1>4. PICK w \in Sent : w = wt.pWriteCurrent
  BY <1>0, TypeParts DEF WriteThread
<1>5. PICK first, length :
         /\ first = IF w = 0 THEN 0 ELSE irp[w].Information
         /\ length = IF w = 0 THEN 0 ELSE Packets[w] - first
         /\ buf' = [buf EXCEPT ![b] =
                      [CallingIrp |-> w, First |-> first, Length |-> length,
                       Status |-> "PENDING", Transferred |-> 0, Cancel |-> FALSE]]
         /\ Records' = Append(Records, [SentIrp |-> w, MWTBuf |-> b,
                                        IrpReturned |-> FALSE])
         /\ wt' = [wt EXCEPT !.pc = "send",
                      !.bSendZeroLength = w \in FullPacket /\ length > 0]
         /\ faults' = faults \cup FaultIf(Completed(w), "broken")
  BY <1>3, <1>4 DEF SendSubmit, Records
<1>6. UNCHANGED <<irp, WriteDataQueue, MWriteIdleQueue, MWritePendingQueue,
                  MWriteCompletionQueue, device, count>>
  BY DEF SendSubmit, bufferQueues, ThreadStep
<1>7. /\ wt \in WriteThread /\ buf \in [Buffers -> TransferBuffer]
      /\ Records \in Seq(SentIrp) /\ irp \in [Writes -> WriteIrp]
      /\ ToSet(MWritePendingQueue) \subseteq Buffers
      /\ ToSet(MWriteCompletionQueue) \subseteq Buffers
      /\ ToSet(MWriteIdleQueue) \subseteq Buffers
  BY <1>0, TypeParts, Members
<1>8. /\ buf'[b].CallingIrp = w /\ buf'[b].First = first /\ buf'[b].Length = length
      /\ buf'[b].Status = "PENDING" /\ buf'[b].Transferred = 0
      /\ \A x \in Buffers : x # b => buf'[x] = buf[x]
  BY <1>5, <1>7
<1>9. /\ DOMAIN Records = 1 .. Len(Records) /\ Len(Records) \in Nat
      /\ DOMAIN Records' = 1 .. Len(Records) + 1
      /\ \A k \in DOMAIN Records : Records'[k] = Records[k]
      /\ Records'[Len(Records) + 1] = [SentIrp |-> w, MWTBuf |-> b, IrpReturned |-> FALSE]
  <2>1. ASSUME NEW r
        PROVE  /\ DOMAIN Append(Records, r) = 1 .. Len(Records) + 1
               /\ \A k \in DOMAIN Records : Append(Records, r)[k] = Records[k]
               /\ Append(Records, r)[Len(Records) + 1] = r
    BY <1>7
  <2>2. DOMAIN Records = 1 .. Len(Records) /\ Len(Records) \in Nat
    BY <1>7
  <2> QED BY <1>5, <2>1, <2>2
<1>10. \A k \in DOMAIN Records' :
          \/ k \in DOMAIN Records /\ Records'[k] = Records[k]
          \/ /\ k = Len(Records) + 1 /\ Records'[k].SentIrp = w
             /\ Records'[k].MWTBuf = b /\ ~Records'[k].IrpReturned
  BY <1>9
<1>11. /\ ~Sending' /\ ~Gone' /\ wt'.mwtState = wt.mwtState
  BY <1>5, <1>7 DEF Sending, Gone, WriteThread
<1>12. \A v \in Writes : Has(v)' <=> Has(v)
  <2>1. \A v \in Writes : Recorded(v)' <=> Recorded(v) \/ v = w
    BY <1>9, <1>10 DEF Recorded
  <2>2. \A v : InHand(v) <=> v = w
    BY <1>2, <1>4 DEF InHand
  <2> QED BY <1>6, <1>11, <2>1, <2>2 DEF Has, InHand
<1>13. OrderInv'
  <2>1. QueueRises'
    BY <1>0, <1>6 DEF OrderInv, QueueRises
  <2>2. /\ \A j \in DOMAIN WriteDataQueue : w < WriteDataQueue[j]
        /\ w # 0 => \A i \in DOMAIN Records : Records[i].SentIrp < w
        /\ w <= count.writes
    BY <1>0, <1>2, <1>4 DEF OrderInv, HandRises
  <2>3. /\ \A i, j \in DOMAIN Records :
              i < j /\ Records[j].SentIrp # 0 =>
                 Records[i].SentIrp < Records[j].SentIrp
        /\ \A i \in DOMAIN Records, j \in DOMAIN WriteDataQueue :
              Records[i].SentIrp < WriteDataQueue[j]
        /\ \A i \in DOMAIN Records : Records[i].SentIrp <= count.writes
    BY <1>0 DEF OrderInv, RecordsRise
  <2>4. RecordsRise'
    <3>1. ASSUME NEW i \in DOMAIN Records', NEW j \in DOMAIN Records',
                 i < j, Records'[j].SentIrp # 0
          PROVE  Records'[i].SentIrp < Records'[j].SentIrp
      <4>1. i \in DOMAIN Records /\ Records'[i] = Records[i]
        BY <1>9, <3>1
      <4> QED BY <1>10, <2>2, <2>3, <3>1, <4>1
    <3>2. \A i \in DOMAIN Records', j \in DOMAIN WriteDataQueue :
             Records'[i].SentIrp < WriteDataQueue[j]
      BY <1>10, <2>2, <2>3
    <3>3. \A i \in DOMAIN Records' : Records'[i].SentIrp <= count.writes
      BY <1>10, <2>2, <2>3
    <3> QED BY <1>6, <3>1, <3>2, <3>3 DEF RecordsRise
  <2> QED BY <1>11, <2>1, <2>4 DEF OrderInv, HandRises
<1>14. b \notin ToSet(MWriteIdleQueue) /\ b \notin ToSet(MWriteCompletionQueue)
       /\ b \notin Out
  BY <1>0, <1>3 DEF BufferInv, Out, IdleBuffer
<1>15. BufferInv'
  <2>1. \A x \in ToSet(MWriteIdleQueue) : buf'[x] = IdleBuffer
    BY <1>0, <1>7, <1>8, <1>14 DEF BufferInv
  <2>2. \A x \in ToSet(MWritePendingQueue) : buf'[x].Status # "IDLE"
    BY <1>0, <1>3, <1>7, <1>8 DEF BufferInv
  <2>3. \A x \in ToSet(MWriteCompletionQueue) : buf'[x].Status \in Finished
    BY <1>0, <1>7, <1>8, <1>14 DEF BufferInv
  <2> QED BY <1>0, <1>6, <1>11, <2>1, <2>2, <2>3 DEF BufferInv
<1>16. Out' = Out \cup {b}
  BY <1>3, <1>6, <1>7, <1>8 DEF Out
<1>17. RecordInv'
  <2>1. ASSUME NEW x \in Out
        PROVE  \E k \in DOMAIN Records' : RecordOf(k, x)'
    <3>1. PICK k \in DOMAIN Records : RecordOf(k, x)
      BY <1>0 DEF RecordInv
    <3>2. x \in Buffers /\ x # b /\ k \in DOMAIN Records'
      BY <1>7, <1>9, <1>14 DEF Out
    <3>3. RecordOf(k, x)'
      BY <1>8, <1>9, <1>10, <3>1, <3>2 DEF RecordOf
    <3> QED BY <3>2, <3>3
  <2>2. \A k \in DOMAIN Records : Records[k].MWTBuf = b => Records[k].IrpReturned
    BY <1>0, <1>14 DEF RecordInv
  <2>3. \E k \in DOMAIN Records' : RecordOf(k, b)'
    <3>1. PICK k \in Nat : k = Len(Records) + 1
      BY <1>9
    <3>2. \A j \in DOMAIN Records' :
             Records'[j].MWTBuf = b /\ j # k => j < k /\ Records'[j].IrpReturned
      BY <1>9, <1>10, <2>2, <3>1
    <3>3. RecordOf(k, b)'
      BY <1>8, <1>9, <3>1, <3>2 DEF RecordOf
    <3> QED BY <1>9, <3>1, <3>3
  <2>4. \A x \in Out' : \E k \in DOMAIN Records' : RecordOf(k, x)'
    BY <1>16, <2>1, <2>3
  <2>5. \A k \in DOMAIN Records' : ~Records'[k].IrpReturned => Records'[k].MWTBuf \in Out'
    BY <1>0, <1>10, <1>16 DEF RecordInv
  <2>6. (Kept' => Kept) /\ Unreturned'
    BY <1>9, <1>10 DEF Kept, Unreturned
  <2>7. "overwritten" \notin faults' => "overwritten" \notin faults
    BY <1>5
  <2>8. "overwritten" \notin faults' /\ Kept' =>
           wt'.mwtState = "FLOW_OFF" /\ Unreturned'
    BY <1>0, <1>11, <2>6, <2>7 DEF RecordInv
  <2> QED BY <2>4, <2>5, <2>8 DEF RecordInv
<1>18. TransferInv'
  <2>1. ASSUME NEW x \in Out'
        PROVE  /\ buf'[x].Transferred <= buf'[x].Length
               /\ buf'[x].Status = "PENDING" => buf'[x].Transferred = 0
               /\ buf'[x].Status = "SUCCESS" => buf'[x].Transferred = buf'[x].Length
               /\ buf'[x].CallingIrp # 0 =>
                     /\ buf'[x].First + buf'[x].Length = Packets[buf'[x].CallingIrp]
                     /\ Reached(buf'[x].CallingIrp, buf'[x].First + buf'[x].Transferred)
    <3>1. CASE x \in Out
      <4>1. buf'[x] = buf[x]
        BY <1>7, <1>8, <1>14, <3>1 DEF Out
      <4> QED BY <1>0, <3>1, <4>1 DEF TransferInv
    <3>2. CASE x = b
      <4>1. CASE w = 0
        BY <1>5, <1>8, <3>2, <4>1
      <4>2. CASE w # 0
        <5>1. w \in Writes /\ Has(w)
          BY <1>2, <1>4, <4>2 DEF Sent, Has, InHand
        <5>2. /\ irp[w].Information <= Packets[w] /\ irp[w].Information \in Nat
              /\ Packets[w] \in Nat /\ Reached(w, irp[w].Information)
          BY <1>0, <1>7, <5>1, WritesAre DEF SizeInv, WriteIrp
        <5>3. first = irp[w].Information /\ length = Packets[w] - irp[w].Information
          BY <1>5, <4>2
        <5>4. first + 0 = first /\ 0 <= length /\ first + length = Packets[w]
          BY <5>2, <5>3
        <5> QED BY <1>8, <3>2, <5>2, <5>3, <5>4
      <4> QED BY <4>1, <4>2
    <3> QED BY <1>16, <3>1, <3>2
  <2> QED BY <1>6, <2>1 DEF TransferInv, Reached
<1>19. SizeInv'
  BY <1>0, <1>6, <1>12 DEF SizeInv, Reached
<1>20. IrpInv'
  <2>1. "adopted" \notin faults' => "adopted" \notin faults
    BY <1>5
  <2> QED BY <1>0, <1>6, <1>12, <2>1 DEF IrpInv
<1>21. SuccessIsSent'
  BY <1>0, <1>6 DEF SuccessIsSent
<1>22. GoneInv'
  BY <1>11 DEF GoneInv
<1> QED BY <1>1, <1>13, <1>15, <1>17, <1>18, <1>19, <1>20, <1>21, <1>22
        DEF CoreInv, PipeInv

-----------------------------------------------------------------------------
(***************************************************************************)
(* The invariant: the handling of a completion.                            *)
(***************************************************************************)
\* The transfer that is handled leaves its buffer free.
Frees ==
    /\ Handles /\ Release(Done) /\ buf'[Done] = IdleBuffer
    /\ \A x \in Buffers : x # Done => buf'[x] = buf[x] \/ OnlyCancelled(x)
    /\ wt'.pc \in {"check", "top"}

LEMMA HandlesCannotSend ==
    ASSUME Handles
    PROVE  ~Sending /\ ~Gone
BY WriteBuffersAssumption DEF Handles, Sending, Gone, WritePoints

LEMMA FreesIs ==
    ASSUME CoreInv, TypeInv', Frees
    PROVE  /\ BufferInv' /\ Out' = Out \ {Done} /\ ~Sending' /\ ~Gone'
           /\ TransferInv' /\ device' = device
           /\ \A x \in Out' : buf'[x].CallingIrp = buf[x].CallingIrp
<1>0. TypeInv /\ BufferInv /\ RecordInv /\ TransferInv
  BY DEF CoreInv, PipeInv
<1>1. PICK b \in Buffers : b = Done
  BY <1>0, DoneIs DEF Frees
<1>2. /\ b \in ToSet(MWriteCompletionQueue) /\ b \in Out /\ ~Sending
  BY <1>0, <1>1, DoneIs, HandlesCannotSend DEF Frees
<1>3. /\ MWriteCompletionQueue' = Tail(MWriteCompletionQueue)
      /\ MWriteIdleQueue' = Append(MWriteIdleQueue, b)
      /\ MWriteCompletionQueue # <<>> /\ b = Head(MWriteCompletionQueue)
      /\ UNCHANGED <<MWritePendingQueue, device>>
      /\ buf'[b] = IdleBuffer
      /\ \A x \in Buffers : x # b => buf'[x] = buf[x] \/ OnlyCancelled(x)
  BY <1>0, <1>1, ReleaseIs DEF Frees, Handles, Done
<1>4. ~Sending' /\ ~Gone'
  BY DEF Frees, Sending, Gone
<1>5. /\ MWriteIdleQueue \in Seq(Buffers) /\ MWriteCompletionQueue \in Seq(Buffers)
      /\ ToSet(MWriteIdleQueue) \subseteq Buffers
      /\ ToSet(MWritePendingQueue) \subseteq Buffers
      /\ ToSet(MWriteCompletionQueue) \subseteq Buffers
  BY <1>0, TypeParts, Members
<1>6. /\ IsInjective(MWriteIdleQueue) /\ IsInjective(MWritePendingQueue)
      /\ IsInjective(MWriteCompletionQueue)
      /\ ToSet(MWriteIdleQueue) \cap ToSet(MWritePendingQueue) = {}
      /\ ToSet(MWriteIdleQueue) \cap ToSet(MWriteCompletionQueue) = {}
      /\ ToSet(MWritePendingQueue) \cap ToSet(MWriteCompletionQueue) = {}
      /\ \A x \in ToSet(MWriteIdleQueue) : buf[x] = IdleBuffer
      /\ \A x \in ToSet(MWritePendingQueue) : buf[x].Status # "IDLE"
      /\ \A x \in ToSet(MWriteCompletionQueue) : buf[x].Status \in Finished
  BY <1>0, <1>2 DEF BufferInv
<1>7. /\ ToSet(MWriteCompletionQueue') = ToSet(MWriteCompletionQueue) \ {b}
      /\ IsInjective(MWriteCompletionQueue')
  <2>1. /\ ToSet(MWriteCompletionQueue) = {b} \cup ToSet(MWriteCompletionQueue')
        /\ IsInjective(MWriteCompletionQueue') /\ b \notin ToSet(MWriteCompletionQueue')
    BY <1>3, <1>5, <1>6, HeadAndTail
  <2> QED BY <2>1
<1>8. /\ ToSet(MWriteIdleQueue') = ToSet(MWriteIdleQueue) \cup {b}
      /\ IsInjective(MWriteIdleQueue')
  <2>1. /\ MWriteIdleQueue' = MWriteIdleQueue \o <<b>> /\ <<b>> \in Seq(Buffers)
        /\ ToSet(MWriteIdleQueue \o <<b>>) = ToSet(MWriteIdleQueue) \cup {b}
    BY <1>3, <1>5, AppendIsConcatOfOne
  <2>2. IsInjective(<<b>>) /\ ToSet(<<b>>) = {b}
    BY ElementsOfOne
  <2>3. ToSet(MWriteIdleQueue) \cap ToSet(<<b>>) = {}
    BY <1>2, <1>6, <2>2
  <2>4. IsInjective(MWriteIdleQueue \o <<b>>)
    BY <1>5, <1>6, <2>1, <2>2, <2>3, InjectiveConcat
  <2> QED BY <2>1, <2>4
<1>9. /\ \A x \in ToSet(MWriteIdleQueue) : x # b /\ buf'[x] = buf[x]
      /\ \A x \in ToSet(MWritePendingQueue) :
            x # b /\ buf'[x].Status = buf[x].Status
      /\ \A x \in ToSet(MWriteCompletionQueue) : x # b => buf'[x] = buf[x]
  BY <1>2, <1>3, <1>5, <1>6 DEF OnlyCancelled
<1>10. BufferInv'
  <2>1. \A x \in ToSet(MWriteIdleQueue') : buf'[x] = IdleBuffer
    BY <1>3, <1>6, <1>8, <1>9
  <2>2. \A x \in ToSet(MWritePendingQueue') : buf'[x].Status # "IDLE"
    BY <1>3, <1>6, <1>9
  <2>3. \A x \in ToSet(MWriteCompletionQueue') : buf'[x].Status \in Finished
    BY <1>6, <1>7, <1>9
  <2>4. /\ ToSet(MWriteIdleQueue') \cap ToSet(MWritePendingQueue') = {}
        /\ ToSet(MWriteIdleQueue') \cap ToSet(MWriteCompletionQueue') = {}
        /\ ToSet(MWritePendingQueue') \cap ToSet(MWriteCompletionQueue') = {}
        /\ IsInjective(MWritePendingQueue')
    BY <1>3, <1>6, <1>7, <1>8, <1>9
  <2> QED BY <1>4, <1>7, <1>8, <2>1, <2>2, <2>3, <2>4 DEF BufferInv
<1>11. Out' = Out \ {b}
  BY <1>3, <1>7, <1>9 DEF Out
<1>12. ASSUME NEW x \in Out'
       PROVE  /\ x \in Out /\ buf'[x].Status = buf[x].Status
              /\ buf'[x].Transferred = buf[x].Transferred
              /\ buf'[x].Length = buf[x].Length /\ buf'[x].First = buf[x].First
              /\ buf'[x].CallingIrp = buf[x].CallingIrp
  <2>1. x \in Out /\ x \in Buffers /\ x # b
    BY <1>5, <1>11 DEF Out
  <2> QED BY <1>3, <2>1 DEF OnlyCancelled
<1>13. TransferInv'
  BY <1>0, <1>3, <1>12 DEF TransferInv, Reached
<1> QED BY <1>1, <1>3, <1>4, <1>10, <1>11, <1>12, <1>13

\* The records that are left when the transfer of record k has been handled, and
\* where they stood.
Passed(r, g, k) ==
    /\ g \in [DOMAIN r -> DOMAIN Records]
    /\ \A i, j \in DOMAIN r : i < j => g[i] < g[j]
    /\ \A j \in DOMAIN r :
          /\ r[j].SentIrp = Records[g[j]].SentIrp
          /\ r[j].MWTBuf = Records[g[j]].MWTBuf
          /\ r[j].IrpReturned <=> Records[g[j]].IrpReturned \/ g[j] = k
    /\ \A i \in DOMAIN Records : i # k => \E j \in DOMAIN r : g[j] = i

LEMMA PassedWithout ==
    ASSUME TypeInv, NEW b \in Buffers, NEW k \in DOMAIN Records, RecordOf(k, b)
    PROVE  /\ WithoutRecord(b) \in Seq(SentIrp)
           /\ \E g : /\ Passed(WithoutRecord(b), g, k)
                     /\ \A j \in DOMAIN WithoutRecord(b) : g[j] # k
<1>1. /\ WithoutRecord(b) \in Seq(SentIrp)
      /\ Len(WithoutRecord(b)) = Len(Records) - 1
      /\ \A j \in 1 .. Len(Records) - 1 :
            WithoutRecord(b)[j] = Marked(b)[IF j < k THEN j ELSE j + 1]
  BY WithoutRecordIs
<1>2. PICK r \in Seq(SentIrp) : r = WithoutRecord(b)
  BY <1>1
<1> DEFINE g == [j \in DOMAIN r |-> IF j < k THEN j ELSE j + 1]
<1>3. /\ DOMAIN r = 1 .. Len(Records) - 1 /\ Len(Records) \in Nat
      /\ DOMAIN Records = 1 .. Len(Records)
      /\ k \in Nat /\ 1 <= k /\ k <= Len(Records)
  BY <1>1, <1>2, MarkedIs
<1>4. /\ g \in [DOMAIN r -> DOMAIN Records]
      /\ \A i, j \in DOMAIN r : i < j => g[i] < g[j]
      /\ \A j \in DOMAIN r : g[j] # k
  BY <1>3
<1>5. \A i \in DOMAIN Records : i # k => \E j \in DOMAIN r : g[j] = i
  <2> SUFFICES ASSUME NEW i \in DOMAIN Records, i # k
               PROVE  \E j \in DOMAIN r : g[j] = i
    OBVIOUS
  <2>1. CASE i < k
    <3>1. i \in DOMAIN r /\ g[i] = i
      BY <1>3, <2>1
    <3> QED BY <3>1
  <2>2. CASE i > k
    <3>1. i - 1 \in DOMAIN r /\ g[i - 1] = i
      BY <1>3, <2>2
    <3> QED BY <3>1
  <2> QED BY <1>3, <2>1, <2>2
<1>6. \A j \in DOMAIN r : r[j] = Marked(b)[g[j]]
  BY <1>1, <1>2, <1>3
<1> HIDE DEF g
<1>7. ASSUME NEW j \in DOMAIN r
      PROVE  /\ r[j].SentIrp = Records[g[j]].SentIrp
             /\ r[j].MWTBuf = Records[g[j]].MWTBuf
             /\ r[j].IrpReturned <=> Records[g[j]].IrpReturned \/ g[j] = k
  <2>1. g[j] \in DOMAIN Records /\ g[j] # k /\ r[j] = Marked(b)[g[j]]
    BY <1>4, <1>6
  <2>2. Records[g[j]].MWTBuf = b => Records[g[j]].IrpReturned
    BY <2>1 DEF RecordOf
  <2> QED BY <2>1, <2>2, MarkedIs
<1>8. Passed(r, g, k)
  BY <1>4, <1>5, <1>7 DEF Passed
<1> QED BY <1>2, <1>4, <1>8

LEMMA PassedMarked ==
    ASSUME TypeInv, NEW b \in Buffers, NEW k \in DOMAIN Records, RecordOf(k, b)
    PROVE  /\ Marked(b) \in Seq(SentIrp)
           /\ \E g : /\ Passed(Marked(b), g, k)
                     /\ \E j \in DOMAIN Marked(b) : g[j] = k
<1>1. PICK r \in Seq(SentIrp) : r = Marked(b)
  BY MarkedIs
<1> DEFINE g == [j \in DOMAIN Records |-> j]
<1>2. DOMAIN r = DOMAIN Records /\ DOMAIN Records = 1 .. Len(Records)
      /\ Len(Records) \in Nat
  BY <1>1, MarkedIs
<1>3. ASSUME NEW j \in DOMAIN r
      PROVE  /\ r[j].SentIrp = Records[g[j]].SentIrp
             /\ r[j].MWTBuf = Records[g[j]].MWTBuf
             /\ r[j].IrpReturned <=> Records[g[j]].IrpReturned \/ g[j] = k
  <2>1. g[j] = j /\ j \in DOMAIN Records
    BY <1>2
  <2>2. /\ r[j].SentIrp = Records[j].SentIrp /\ r[j].MWTBuf = Records[j].MWTBuf
        /\ r[j].IrpReturned <=> Records[j].IrpReturned \/ Records[j].MWTBuf = b
    BY <1>1, <2>1, MarkedIs
  <2>3. Records[j].MWTBuf = b => Records[j].IrpReturned \/ j = k
    BY <2>1 DEF RecordOf
  <2>4. Records[k].MWTBuf = b
    BY DEF RecordOf
  <2> QED BY <2>1, <2>2, <2>3, <2>4
<1>4. /\ g \in [DOMAIN r -> DOMAIN Records]
      /\ \A i, j \in DOMAIN r : i < j => g[i] < g[j]
      /\ \A i \in DOMAIN Records : i \in DOMAIN r /\ g[i] = i
  BY <1>2
<1> HIDE DEF g
<1>5. Passed(r, g, k)
  BY <1>3, <1>4 DEF Passed
<1> QED BY <1>1, <1>4, <1>5

\* All of them have been given back when the others were.
LEMMA ResendIs ==
    ASSUME TypeInv, NEW k \in DOMAIN Records, Done \in Buffers, RecordOf(k, Done)
    PROVE  Resend <=> \A i \in DOMAIN Records : i # k => Records[i].IrpReturned
<1>1. Resend <=> \A i \in DOMAIN Records : Marked(Done)[i].IrpReturned
  BY DEF Resend, AllReturned, Records
<1>2. \A i \in DOMAIN Records :
         Marked(Done)[i].IrpReturned <=> Records[i].IrpReturned \/ Records[i].MWTBuf = Done
  BY MarkedIs
<1> QED BY <1>1, <1>2 DEF RecordOf

\* They still have the writes in order.
LEMMA PassedRises ==
    ASSUME TypeInv, OrderInv, NEW r \in Seq(SentIrp), NEW g, NEW k \in DOMAIN Records,
           Passed(r, g, k)
    PROVE  /\ \A i, j \in DOMAIN r :
                 i < j /\ r[j].SentIrp # 0 => r[i].SentIrp < r[j].SentIrp
           /\ \A i \in DOMAIN r, j \in DOMAIN WriteDataQueue :
                 r[i].SentIrp < WriteDataQueue[j]
           /\ \A i \in DOMAIN r : r[i].SentIrp <= count.writes
<1>1. /\ \A i \in DOMAIN r : /\ g[i] \in DOMAIN Records
                             /\ r[i].SentIrp = Records[g[i]].SentIrp
      /\ \A i, j \in DOMAIN r : i < j => g[i] < g[j]
  BY DEF Passed
<1>2. /\ \A i, j \in DOMAIN Records :
            i < j /\ Records[j].SentIrp # 0 =>
               Records[i].SentIrp < Records[j].SentIrp
      /\ \A i \in DOMAIN Records, j \in DOMAIN WriteDataQueue :
            Records[i].SentIrp < WriteDataQueue[j]
      /\ \A i \in DOMAIN Records : Records[i].SentIrp <= count.writes
  BY DEF OrderInv, RecordsRise
<1>3. ASSUME NEW i \in DOMAIN r, NEW j \in DOMAIN r, i < j, r[j].SentIrp # 0
      PROVE  r[i].SentIrp < r[j].SentIrp
  BY <1>1, <1>2, <1>3
<1> QED BY <1>1, <1>2, <1>3

\* And the transfers that are out.
LEMMA PassedOut ==
    ASSUME TypeInv, RecordInv, NEW b \in Buffers, NEW k \in DOMAIN Records,
           RecordOf(k, b), NEW r \in Seq(SentIrp), NEW g, Passed(r, g, k),
           Records' = r, Out' = Out \ {b},
           \A x \in Out' : buf'[x].CallingIrp = buf[x].CallingIrp
    PROVE  /\ \A x \in Out' : \E j \in DOMAIN Records' : RecordOf(j, x)'
           /\ \A j \in DOMAIN Records' :
                 ~Records'[j].IrpReturned => Records'[j].MWTBuf \in Out'
<1>1. /\ \A j \in DOMAIN r :
            /\ g[j] \in DOMAIN Records
            /\ r[j].SentIrp = Records[g[j]].SentIrp
            /\ r[j].MWTBuf = Records[g[j]].MWTBuf
            /\ r[j].IrpReturned <=> Records[g[j]].IrpReturned \/ g[j] = k
      /\ \A i, j \in DOMAIN r : i < j => g[i] < g[j]
      /\ \A i \in DOMAIN Records : i # k => \E j \in DOMAIN r : g[j] = i
  BY DEF Passed
<1>2. DOMAIN r = 1 .. Len(r) /\ Len(r) \in Nat
      /\ DOMAIN Records = 1 .. Len(Records) /\ Len(Records) \in Nat
  BY MarkedIs
<1>3. ASSUME NEW x \in Out'
      PROVE  \E j \in DOMAIN r : RecordOf(j, x)'
  <2>1. x \in Out /\ x # b
    OBVIOUS
  <2>2. PICK i \in DOMAIN Records : RecordOf(i, x)
    BY <2>1 DEF RecordInv
  <2>3. i # k
    BY <2>1, <2>2 DEF RecordOf
  <2>4. PICK j \in DOMAIN r : g[j] = i
    BY <1>1, <2>3
  <2>5. ASSUME NEW m \in DOMAIN r, r[m].MWTBuf = x, m # j
        PROVE  m < j /\ r[m].IrpReturned
    <3>1. g[m] \in DOMAIN Records /\ Records[g[m]].MWTBuf = x
      BY <1>1, <2>5
    <3>2. g[m] # i
      BY <1>1, <1>2, <2>4, <2>5
    <3>3. g[m] < i /\ Records[g[m]].IrpReturned
      BY <2>2, <3>1, <3>2 DEF RecordOf
    <3>4. ~(j < m)
      BY <1>1, <1>2, <2>4, <3>1, <3>3
    <3> QED BY <1>1, <1>2, <2>5, <3>3, <3>4
  <2>6. r[j].MWTBuf = x /\ ~r[j].IrpReturned /\ r[j].SentIrp = buf'[x].CallingIrp
    BY <1>1, <2>2, <2>3, <2>4 DEF RecordOf
  <2>7. RecordOf(j, x)'
    BY <2>5, <2>6 DEF RecordOf
  <2> QED BY <2>7
<1>4. ASSUME NEW j \in DOMAIN r, ~r[j].IrpReturned
      PROVE  r[j].MWTBuf \in Out'
  <2>1. g[j] \in DOMAIN Records /\ ~Records[g[j]].IrpReturned /\ g[j] # k
        /\ r[j].MWTBuf = Records[g[j]].MWTBuf
    BY <1>1, <1>4
  <2>2. Records[g[j]].MWTBuf \in Out /\ Records[g[j]].MWTBuf # b
    BY <2>1 DEF RecordInv, RecordOf
  <2> QED BY <2>1, <2>2
<1> QED BY <1>3, <1>4

\* The writes that are still recorded.
RecordedIn(r, w) == \E j \in DOMAIN r : r[j].SentIrp = w

LEMMA PassedRecorded ==
    ASSUME TypeInv, OrderInv, NEW k \in DOMAIN Records, NEW r \in Seq(SentIrp),
           NEW g, Passed(r, g, k), NEW w \in Writes
    PROVE  /\ RecordedIn(r, w) => Recorded(w)
           /\ Recorded(w) /\ w # Records[k].SentIrp => RecordedIn(r, w)
           /\ (\A j \in DOMAIN r : g[j] # k) /\ w = Records[k].SentIrp =>
                 ~RecordedIn(r, w)
           /\ (\E j \in DOMAIN r : g[j] = k) /\ w = Records[k].SentIrp =>
                 RecordedIn(r, w)
<1>1. /\ \A j \in DOMAIN r :
            g[j] \in DOMAIN Records /\ r[j].SentIrp = Records[g[j]].SentIrp
      /\ \A i \in DOMAIN Records : i # k => \E j \in DOMAIN r : g[j] = i
  BY DEF Passed
<1>2. \A i, j \in DOMAIN Records :
         Records[i].SentIrp = w /\ Records[j].SentIrp = w => i = j
  BY OnePlace
<1> QED BY <1>1, <1>2 DEF Recorded, RecordedIn

\* Writes that go back to the head of the queue are in order.
LEMMA ResentRises ==
    ASSUME TypeInv, OrderInv, NEW k \in DOMAIN Records, NEW r \in Seq(SentIrp),
           NEW g, Passed(r, g, k),
           WriteDataQueue' = WritesOf(r) \o WriteDataQueue, count' = count
    PROVE  /\ QueueRises'
           /\ \A w \in Writes : w \in ToSet(WriteDataQueue') <=>
                 RecordedIn(r, w) \/ w \in ToSet(WriteDataQueue)
<1> DEFINE s == [j \in DOMAIN r |-> r[j].SentIrp]
<1>1. DOMAIN r = 1 .. Len(r) /\ Len(r) \in Nat /\ \A j \in DOMAIN r : r[j].SentIrp \in Sent
  <2>1. DOMAIN r = 1 .. Len(r) /\ Len(r) \in Nat /\ \A j \in DOMAIN r : r[j] \in SentIrp
    OBVIOUS
  <2> QED BY <2>1 DEF SentIrp
<1>2. s \in Seq(Sent) /\ Len(s) = Len(r) /\ \A j \in DOMAIN r : s[j] = r[j].SentIrp
  BY <1>1
<1>3. PICK q \in Seq(Writes) : q = WritesOf(r)
  BY WritesOfIs
<1>4. q = Keep(s, Writes)
  BY <1>3 DEF WritesOf
<1> HIDE DEF s
<1>5. PICK f \in [1 .. Len(q) -> 1 .. Len(s)] :
         /\ \A j \in 1 .. Len(q) : q[j] = s[f[j]] /\ s[f[j]] \in Writes
         /\ \A j, m \in 1 .. Len(q) : j < m => f[j] < f[m]
  <2>1. \E f \in [1 .. Len(Keep(s, Writes)) -> 1 .. Len(s)] :
           /\ \A j \in 1 .. Len(Keep(s, Writes)) :
                 Keep(s, Writes)[j] = s[f[j]] /\ s[f[j]] \in Writes
           /\ \A j, m \in 1 .. Len(Keep(s, Writes)) : j < m => f[j] < f[m]
    BY <1>2, KeepPlaces, Zenon
  <2> QED BY <1>4, <2>1, Zenon
<1>6. \A j \in 1 .. Len(q) :
         f[j] \in DOMAIN r /\ q[j] = r[f[j]].SentIrp /\ q[j] # 0
  BY <1>1, <1>2, <1>5, WritesAre
<1>7. /\ \A i, j \in DOMAIN r :
            i < j /\ r[j].SentIrp # 0 => r[i].SentIrp < r[j].SentIrp
      /\ \A i \in DOMAIN r, j \in DOMAIN WriteDataQueue :
            r[i].SentIrp < WriteDataQueue[j]
      /\ \A i \in DOMAIN r : r[i].SentIrp <= count.writes
  BY PassedRises
<1>8. /\ \A i, j \in 1 .. Len(q) : i < j => q[i] < q[j]
      /\ \A i \in 1 .. Len(q), j \in DOMAIN WriteDataQueue : q[i] < WriteDataQueue[j]
      /\ \A i \in 1 .. Len(q) : q[i] <= count.writes
  BY <1>5, <1>6, <1>7
<1>9. /\ \A i, j \in DOMAIN WriteDataQueue :
            i < j => WriteDataQueue[i] < WriteDataQueue[j]
      /\ \A i \in DOMAIN WriteDataQueue : WriteDataQueue[i] <= count.writes
  BY DEF OrderInv, QueueRises
<1>10. PICK t \in Seq(Writes) : t = WriteDataQueue
  BY TypeParts
<1>11. PICK u \in Seq(Writes) : u = q \o t
  BY <1>3, <1>10, ConcatIsSeq
<1>12. /\ Len(q) \in Nat /\ Len(t) \in Nat /\ Len(u) = Len(q) + Len(t)
       /\ DOMAIN u = 1 .. Len(q) + Len(t) /\ DOMAIN t = 1 .. Len(t)
       /\ \A i \in 1 .. Len(q) : u[i] = q[i]
       /\ \A i \in 1 .. Len(t) : u[Len(q) + i] = t[i]
  <2>1. /\ Len(q \o t) = Len(q) + Len(t)
        /\ \A i \in 1 .. Len(q) : (q \o t)[i] = q[i]
        /\ \A i \in 1 .. Len(t) : (q \o t)[Len(q) + i] = t[i]
    BY <1>3, <1>10, ConcatIs
  <2>2. Len(q) \in Nat /\ Len(t) \in Nat /\ DOMAIN t = 1 .. Len(t)
        /\ DOMAIN u = 1 .. Len(u)
    BY <1>3, <1>10, <1>11
  <2> QED BY <1>11, <2>1, <2>2
<1>13. \A i \in DOMAIN u : \/ i \in 1 .. Len(q) /\ u[i] = q[i]
                           \/ i - Len(q) \in 1 .. Len(t) /\ u[i] = t[i - Len(q)]
  <2> SUFFICES ASSUME NEW i \in DOMAIN u
               PROVE  \/ i \in 1 .. Len(q) /\ u[i] = q[i]
                      \/ i - Len(q) \in 1 .. Len(t) /\ u[i] = t[i - Len(q)]
    OBVIOUS
  <2>1. CASE i <= Len(q)
    BY <1>12, <2>1
  <2>2. CASE i > Len(q)
    <3>1. i - Len(q) \in 1 .. Len(t) /\ Len(q) + (i - Len(q)) = i
      BY <1>12, <2>2
    <3> QED BY <1>12, <3>1
  <2> QED BY <1>12, <2>1, <2>2
<1>14. WriteDataQueue' = u
  BY <1>3, <1>10, <1>11
<1>15. ASSUME NEW i \in DOMAIN u, NEW j \in DOMAIN u, i < j
       PROVE  u[i] < u[j]
  <2>1. CASE j \in 1 .. Len(q)
    <3>1. i \in 1 .. Len(q)
      BY <1>12, <1>15, <2>1
    <3> QED BY <1>8, <1>12, <1>15, <2>1, <3>1
  <2>2. CASE j \notin 1 .. Len(q) /\ i \in 1 .. Len(q)
    <3>1. j - Len(q) \in 1 .. Len(t) /\ u[j] = t[j - Len(q)] /\ u[i] = q[i]
      BY <1>12, <1>13, <2>2
    <3> QED BY <1>8, <1>10, <1>12, <2>2, <3>1
  <2>3. CASE j \notin 1 .. Len(q) /\ i \notin 1 .. Len(q)
    <3>1. /\ j - Len(q) \in 1 .. Len(t) /\ u[j] = t[j - Len(q)]
          /\ i - Len(q) \in 1 .. Len(t) /\ u[i] = t[i - Len(q)]
          /\ i - Len(q) < j - Len(q)
      BY <1>12, <1>13, <1>15, <2>3
    <3> QED BY <1>9, <1>10, <1>12, <3>1
  <2> QED BY <2>1, <2>2, <2>3
<1>16. \A i \in DOMAIN u : u[i] <= count.writes
  BY <1>8, <1>9, <1>10, <1>12, <1>13
<1>17. QueueRises'
  BY <1>14, <1>15, <1>16 DEF QueueRises
<1>18. \A w \in Writes : w \in ToSet(u) <=> RecordedIn(r, w) \/ w \in ToSet(t)
  <2>1. ToSet(q \o t) = ToSet(q) \cup ToSet(t)
    BY <1>3, <1>10, ElementsOfConcat
  <2>2. \A w : w \in ToSet(q) <=>
           w \in Writes /\ \E j \in DOMAIN r : r[j].SentIrp = w
    BY <1>3, WritesOfIs
  <2> QED BY <1>11, <2>1, <2>2 DEF RecordedIn
<1> QED BY <1>10, <1>14, <1>17, <1>18

\* The write of the transfer is answered.
LEMMA AnsweredKeeps ==
    ASSUME CoreInv, TypeInv', Handles, irp' = AnswerTransfer(Done, DoneStatus),
           device' = device, count' = count, faults \subseteq faults',
           \A v \in Writes : Has(v)' <=> Has(v) /\ v # buf[Done].CallingIrp
    PROVE  IrpInv' /\ SizeInv' /\ SuccessIsSent'
<1>0. TypeInv /\ OrderInv /\ BufferInv /\ RecordInv /\ TransferInv /\ SizeInv
      /\ IrpInv /\ SuccessIsSent
  BY DEF CoreInv, PipeInv
<1>1. PICK b \in Buffers : b = Done
  BY <1>0, DoneIs
<1>2. PICK w \in Sent : w = buf[b].CallingIrp
  BY <1>0, <1>1, DoneIs
<1>3. PICK status \in TransferStatus : status = DoneStatus
  BY <1>0, DoneIs
<1>4. /\ b \in Out /\ (status = "SUCCESS" => buf[b].Status = "SUCCESS")
  BY <1>0, <1>1, <1>3, DoneIs
<1>5. \A v \in Writes :
         /\ v # w => irp'[v] = irp[v]
         /\ v = w /\ irp[v].routine = "set" =>
               /\ irp'[v].where = "answered" /\ irp'[v].routine = "none"
               /\ irp'[v].Status = status /\ irp'[v].cancelled = irp[v].cancelled
         /\ v = w /\ irp[v].routine # "set" => Unanswered(irp'[v], irp[v])
  BY <1>0, <1>1, <1>2, <1>3, AnswerTransferIs
<1>6. \A v \in Writes : Has(v)' <=> Has(v) /\ v # w
  BY <1>1, <1>2
<1>7. w \in Writes => Recorded(w) /\ w <= count.writes /\ Has(w)
  <2>1. PICK k \in DOMAIN Records : RecordOf(k, b)
    BY <1>0, <1>4 DEF RecordInv
  <2>2. Records[k].SentIrp = w
    BY <1>2, <2>1 DEF RecordOf
  <2> QED BY <1>0, <2>2 DEF OrderInv, RecordsRise, Recorded, Has
<1>8. IrpInv'
  <2> SUFFICES ASSUME NEW v \in Writes
               PROVE  /\ irp'[v].routine # "none" <=> irp'[v].where = "active"
                      /\ v > count.writes => irp'[v].where = "new" /\ irp'[v].Information = 0
                      /\ Has(v)' /\ "adopted" \notin faults' => irp'[v].where = "active"
                      /\ irp'[v].routine = "set" => Has(v)'
                      /\ irp'[v].routine = "running" => irp'[v].cancelled
    BY DEF IrpInv
  <2>1. /\ irp[v].routine # "none" <=> irp[v].where = "active"
        /\ v > count.writes => irp[v].where = "new" /\ irp[v].Information = 0
        /\ Has(v) /\ "adopted" \notin faults => irp[v].where = "active"
        /\ irp[v].routine = "set" => Has(v)
        /\ irp[v].routine = "running" => irp[v].cancelled
    BY <1>0 DEF IrpInv
  <2>2. CASE v # w
    BY <1>5, <1>6, <2>1, <2>2
  <2>3. CASE v = w
    <3>1. ~(v > count.writes)
      BY <1>0, <1>7, <2>3, WritesAre, TypeParts DEF AnySpent
    <3>2. ~(Has(v)')
      BY <1>6, <2>3
    <3>3. CASE irp[v].routine = "set"
      BY <1>5, <2>1, <2>3, <3>1, <3>2, <3>3
    <3>4. CASE irp[v].routine # "set"
      BY <1>5, <2>1, <2>3, <3>1, <3>2, <3>4 DEF Unanswered
    <3> QED BY <3>3, <3>4
  <2> QED BY <2>2, <2>3
<1>9. SizeInv'
  BY <1>0, <1>5, <1>6 DEF SizeInv, Reached
<1>10. SuccessIsSent'
  <2> SUFFICES ASSUME NEW v \in Writes, irp'[v].where \in {"answered", "done"},
                      irp'[v].Status = "SUCCESS"
               PROVE  \A i \in 1 .. Packets[v] : Contains(device, <<v, i>>)
    BY DEF SuccessIsSent
  <2>1. CASE v # w \/ irp[v].routine # "set"
    <3>1. irp[v].where \in {"answered", "done"} /\ irp[v].Status = "SUCCESS"
      BY <1>5, <2>1 DEF Unanswered
    <3> QED BY <1>0, <3>1 DEF SuccessIsSent
  <2>2. CASE v = w /\ irp[v].routine = "set"
    <3>1. buf[b].Status = "SUCCESS"
      BY <1>4, <1>5, <2>2
    <3>2. buf[b].Transferred = buf[b].Length /\ w # 0
          /\ buf[b].First + buf[b].Length = Packets[w]
          /\ Reached(w, buf[b].First + buf[b].Transferred)
      BY <1>0, <1>2, <1>4, <2>2, <3>1, WritesAre DEF TransferInv
    <3>3. Reached(w, Packets[w])
      BY <3>2
    <3>4. \A x : Contains(device, x) <=> x \in ToSet(device)
      BY <1>0, TypeParts, Members
    <3> QED BY <2>2, <3>3, <3>4 DEF Reached
  <2> QED BY <2>1, <2>2
<1> QED BY <1>8, <1>9, <1>10

\* The write of the transfer is kept, its count set to what the transfer moved.
LEMMA AdjustedKeeps ==
    ASSUME CoreInv, TypeInv', Handles, irp' = Adjusted(Done),
           device' = device, count' = count, faults \subseteq faults',
           \A v \in Writes : Has(v)' <=> Has(v)
    PROVE  IrpInv' /\ SizeInv' /\ SuccessIsSent'
<1>0. TypeInv /\ OrderInv /\ BufferInv /\ RecordInv /\ TransferInv /\ SizeInv
      /\ IrpInv /\ SuccessIsSent
  BY DEF CoreInv, PipeInv
<1>1. PICK b \in Buffers : b = Done
  BY <1>0, DoneIs
<1>2. /\ b \in Out /\ buf[b] \in TransferBuffer
  BY <1>0, <1>1, DoneIs, TypeParts
<1>3. PICK k \in DOMAIN Records : RecordOf(k, b)
  BY <1>0, <1>2 DEF RecordInv
<1>4. ASSUME NEW v \in Writes
      PROVE  /\ Unanswered(irp'[v], irp[v])
             /\ \/ irp'[v].Information = irp[v].Information
                \/ /\ v = buf[b].CallingIrp
                   /\ buf[b].Transferred < buf[b].Length
                   /\ irp'[v].Information = buf[b].Transferred
  <2>1. irp[v] \in WriteIrp
    BY <1>0, TypeParts
  <2>2. \/ irp'[v] = irp[v]
        \/ /\ v = buf[b].CallingIrp /\ buf[b].Transferred < buf[b].Length
           /\ irp'[v] = [irp[v] EXCEPT !.Information = buf[b].Transferred]
    BY <1>0, <1>1, AdjustedIs
  <2>3. CASE irp'[v] = irp[v]
    BY <2>3 DEF Unanswered
  <2>4. CASE /\ v = buf[b].CallingIrp /\ buf[b].Transferred < buf[b].Length
             /\ irp'[v] = [irp[v] EXCEPT !.Information = buf[b].Transferred]
    BY <2>1, <2>4 DEF Unanswered, WriteIrp
  <2> QED BY <2>2, <2>3, <2>4
<1>5. ASSUME NEW v \in Writes, v = buf[b].CallingIrp
      PROVE  /\ ~(v > count.writes) /\ Has(v)
             /\ buf[b].Transferred < buf[b].Length =>
                   /\ buf[b].Transferred <= Packets[v]
                   /\ Reached(v, buf[b].Transferred)
  <2>1. Records[k].SentIrp = v
    BY <1>3, <1>5 DEF RecordOf
  <2>2. v <= count.writes /\ Has(v) /\ v \in Nat /\ count.writes \in Nat
    BY <1>0, <2>1, WritesAre, TypeParts DEF OrderInv, RecordsRise, Has, Recorded, AnySpent
  <2>3. /\ buf[b].First + buf[b].Length = Packets[v]
        /\ Reached(v, buf[b].First + buf[b].Transferred)
    BY <1>0, <1>2, <1>5, WritesAre DEF TransferInv
  <2>4. buf[b].First \in Nat /\ buf[b].Length \in Nat /\ buf[b].Transferred \in Nat
    BY <1>2 DEF TransferBuffer
  <2>5. buf[b].Transferred < buf[b].Length => buf[b].Transferred <= Packets[v]
    BY <2>3, <2>4
  <2>6. Reached(v, buf[b].Transferred)
    BY <2>3, <2>4 DEF Reached
  <2> QED BY <2>2, <2>5, <2>6
<1>6. IrpInv'
  <2> SUFFICES ASSUME NEW v \in Writes
               PROVE  /\ irp'[v].routine # "none" <=> irp'[v].where = "active"
                      /\ v > count.writes => irp'[v].where = "new" /\ irp'[v].Information = 0
                      /\ Has(v)' /\ "adopted" \notin faults' => irp'[v].where = "active"
                      /\ irp'[v].routine = "set" => Has(v)'
                      /\ irp'[v].routine = "running" => irp'[v].cancelled
    BY DEF IrpInv
  <2>1. /\ irp[v].routine # "none" <=> irp[v].where = "active"
        /\ v > count.writes => irp[v].where = "new" /\ irp[v].Information = 0
        /\ Has(v) /\ "adopted" \notin faults => irp[v].where = "active"
        /\ irp[v].routine = "set" => Has(v)
        /\ irp[v].routine = "running" => irp[v].cancelled
    BY <1>0 DEF IrpInv
  <2> QED BY <1>4, <1>5, <2>1 DEF Unanswered
<1>7. SizeInv'
  <2> SUFFICES ASSUME NEW v \in Writes, Has(v)
               PROVE  /\ irp'[v].Information <= Packets[v]
                      /\ Reached(v, irp'[v].Information)
    BY DEF SizeInv, Reached
  <2>1. irp[v].Information <= Packets[v] /\ Reached(v, irp[v].Information)
    BY <1>0 DEF SizeInv
  <2> QED BY <1>4, <1>5, <2>1
<1>8. SuccessIsSent'
  BY <1>0, <1>4 DEF SuccessIsSent, Unanswered
<1> QED BY <1>6, <1>7, <1>8

LEMMA CompleteWriteCore ==
    ASSUME CoreInv, CompleteWrite
    PROVE  TypeInv' /\ CoreInv' /\ Frees
<1>0. TypeInv /\ OrderInv /\ BufferInv /\ RecordInv /\ TransferInv /\ SizeInv
      /\ IrpInv /\ SuccessIsSent
  BY DEF CoreInv, PipeInv
<1>1. TypeInv' /\ wt'.pc \in {"check", "top"}
  BY <1>0, CompleteWriteType
<1>2. Handles
  BY DEF CompleteWrite, Handles
<1>3. PICK b \in Buffers : b = Done
  BY <1>0, <1>2, DoneIs
<1>4. PICK k \in DOMAIN Records : RecordOf(k, b)
  BY <1>0, <1>2, <1>3, DoneIs
<1>5. /\ wt.mwtState # "FLOW_OFF"
      /\ irp' = AnswerTransfer(Done, DoneStatus)
      /\ MWTSentIrpQueue' = WithoutRecord(b)
      /\ \E more \in BOOLEAN :
            /\ more => MWritePendingQueue # <<>>
            /\ buf' = [x \in Buffers |->
                         IF x = b THEN IdleBuffer
                         ELSE IF more /\ x = Head(MWritePendingQueue)
                         THEN [buf[x] EXCEPT !.Cancel = TRUE]
                         ELSE buf[x]]
      /\ faults \subseteq faults'
      /\ UNCHANGED WriteDataQueue
      /\ Release(Done)
  <2>1. (wt.mwtState # "WORKING" /\ MWritePendingQueue # <<>>) \in BOOLEAN
    OBVIOUS
  <2> QED BY <1>3, <2>1 DEF CompleteWrite, Done, DoneStatus
<1>6. Frees
  <2>1. PICK more \in BOOLEAN :
            /\ more => MWritePendingQueue # <<>>
            /\ buf' = [x \in Buffers |->
                         IF x = b THEN IdleBuffer
                         ELSE IF more /\ x = Head(MWritePendingQueue)
                         THEN [buf[x] EXCEPT !.Cancel = TRUE]
                         ELSE buf[x]]
    BY <1>5
  <2>2. ~Sending
    BY <1>2, HandlesCannotSend
  <2>3. MWritePendingQueue # <<>> => Head(MWritePendingQueue) \in ToSet(MWritePendingQueue)
    BY <1>0, TypeParts, Members
  <2>4. \A x \in Buffers : x # b => buf'[x] = buf[x] \/ OnlyCancelled(x)
    <3> SUFFICES ASSUME NEW x \in Buffers, x # b
                 PROVE  buf'[x] = buf[x] \/ OnlyCancelled(x)
      OBVIOUS
    <3>1. buf[x] \in TransferBuffer
      BY <1>0, TypeParts
    <3>2. CASE more /\ x = Head(MWritePendingQueue)
      <4>1. buf'[x] = [buf[x] EXCEPT !.Cancel = TRUE]
        BY <2>1, <3>2
      <4>2. x \in ToSet(MWritePendingQueue)
        BY <2>1, <2>3, <3>2
      <4> QED BY <2>2, <3>1, <4>1, <4>2 DEF OnlyCancelled, TransferBuffer
    <3>3. CASE ~(more /\ x = Head(MWritePendingQueue))
      BY <2>1, <3>3
    <3> QED BY <3>2, <3>3
  <2> QED BY <1>1, <1>2, <1>3, <1>5, <2>1, <2>4 DEF Frees
<1>7. /\ BufferInv' /\ Out' = Out \ {b} /\ ~Sending' /\ ~Gone' /\ TransferInv'
      /\ device' = device
      /\ \A x \in Out' : buf'[x].CallingIrp = buf[x].CallingIrp
  BY <1>1, <1>3, <1>6, FreesIs
<1>8. count' = count
  BY <1>0, <1>2, <1>5, ReleaseIs
<1>9. PICK r, g :
         /\ r \in Seq(SentIrp) /\ r = WithoutRecord(b) /\ Passed(r, g, k)
         /\ \A j \in DOMAIN r : g[j] # k
  BY <1>0, <1>4, PassedWithout
<1>10. Records' = r /\ WriteDataQueue' = WriteDataQueue
  BY <1>5, <1>9 DEF Records
<1>11. OrderInv'
  <2>1. QueueRises'
    BY <1>0, <1>8, <1>10 DEF OrderInv, QueueRises
  <2>2. RecordsRise'
    BY <1>0, <1>8, <1>9, <1>10, PassedRises DEF RecordsRise
  <2> QED BY <1>7, <2>1, <2>2 DEF OrderInv, HandRises
<1>12. RecordInv'
  <2>1. /\ \A x \in Out' : \E j \in DOMAIN Records' : RecordOf(j, x)'
        /\ \A j \in DOMAIN Records' :
              ~Records'[j].IrpReturned => Records'[j].MWTBuf \in Out'
    BY <1>0, <1>4, <1>7, <1>9, <1>10, PassedOut
  <2>2. Kept' => Kept
    BY <1>9, <1>10 DEF Kept, Passed
  <2>3. "overwritten" \notin faults' => ~Kept'
    BY <1>0, <1>5, <2>2 DEF RecordInv
  <2> QED BY <2>1, <2>3 DEF RecordInv
<1>13. \A v \in Writes : Has(v)' <=> Has(v) /\ v # buf[Done].CallingIrp
  <2> SUFFICES ASSUME NEW v \in Writes
               PROVE  Has(v)' <=> Has(v) /\ v # buf[Done].CallingIrp
    OBVIOUS
  <2>1. Records[k].SentIrp = buf[Done].CallingIrp
    BY <1>3, <1>4 DEF RecordOf
  <2>2. Recorded(v)' <=> RecordedIn(r, v)
    BY <1>10 DEF Recorded, RecordedIn
  <2>3. Recorded(v)' <=> Recorded(v) /\ v # buf[Done].CallingIrp
    BY <1>0, <1>9, <2>1, <2>2, PassedRecorded
  <2>4. ~InHand(v) /\ ~(InHand(v)')
    BY <1>2, <1>7, HandlesCannotSend DEF InHand
  <2>5. v = buf[Done].CallingIrp => v \notin ToSet(WriteDataQueue)
    BY <1>0, <2>1, OnePlace DEF Recorded
  <2> QED BY <1>10, <2>3, <2>4, <2>5 DEF Has
<1>14. IrpInv' /\ SizeInv' /\ SuccessIsSent'
  BY <1>1, <1>2, <1>5, <1>7, <1>8, <1>13, AnsweredKeeps
<1>15. GoneInv'
  BY <1>7 DEF GoneInv
<1> QED BY <1>1, <1>6, <1>7, <1>11, <1>12, <1>14, <1>15 DEF CoreInv, PipeInv

LEMMA CompleteFlowOffCore ==
    ASSUME CoreInv, CompleteFlowOff
    PROVE  TypeInv' /\ CoreInv' /\ Frees
<1>0. TypeInv /\ OrderInv /\ BufferInv /\ RecordInv /\ TransferInv /\ SizeInv
      /\ IrpInv /\ SuccessIsSent
  BY DEF CoreInv, PipeInv
<1>1. TypeInv' /\ wt'.pc = "top"
      /\ wt'.mwtState = IF Resend THEN "WORKING" ELSE wt.mwtState
  BY <1>0, CompleteFlowOffType
<1>2. Handles
  BY DEF CompleteFlowOff, Handles
<1>3. PICK b \in Buffers : b = Done
  BY <1>0, <1>2, DoneIs
<1>4. PICK k \in DOMAIN Records : RecordOf(k, b)
  BY <1>0, <1>2, <1>3, DoneIs
<1>5. /\ wt.mwtState = "FLOW_OFF"
      /\ irp' = KeptIrps
      /\ WriteDataQueue' = IF Resend THEN WritesOf(KeptRecords) \o WriteDataQueue
                           ELSE WriteDataQueue
      /\ MWTSentIrpQueue' = IF Resend THEN <<>> ELSE KeptRecords
      /\ buf' = [buf EXCEPT ![b] = IdleBuffer]
      /\ faults \subseteq faults'
      /\ Release(Done)
  BY <1>3 DEF CompleteFlowOff, Done, DoneStatus, KeptRecords, KeptIrps, Resend
<1>6. Frees
  <2>1. buf'[b] = IdleBuffer /\ \A x \in Buffers : x # b => buf'[x] = buf[x]
    BY <1>0, <1>5, TypeParts
  <2> QED BY <1>1, <1>2, <1>3, <1>5, <2>1 DEF Frees
<1>7. /\ BufferInv' /\ Out' = Out \ {b} /\ ~Sending' /\ ~Gone' /\ TransferInv'
      /\ device' = device
      /\ \A x \in Out' : buf'[x].CallingIrp = buf[x].CallingIrp
  BY <1>1, <1>3, <1>6, FreesIs
<1>8. count' = count
  BY <1>0, <1>2, <1>5, ReleaseIs
<1>9. PICK r, g :
         /\ r \in Seq(SentIrp) /\ r = KeptRecords /\ Passed(r, g, k)
         /\ DoneStatus = "SUCCESS" => \A j \in DOMAIN r : g[j] # k
         /\ DoneStatus # "SUCCESS" => \E j \in DOMAIN r : g[j] = k
  <2>1. CASE DoneStatus = "SUCCESS"
    <3>1. KeptRecords = WithoutRecord(b)
      BY <1>3, <2>1 DEF KeptRecords
    <3> QED BY <1>0, <1>4, <2>1, <3>1, PassedWithout
  <2>2. CASE DoneStatus # "SUCCESS"
    <3>1. KeptRecords = Marked(b)
      BY <1>3, <2>2 DEF KeptRecords
    <3> QED BY <1>0, <1>4, <2>2, <3>1, PassedMarked
  <2> QED BY <2>1, <2>2
<1>10. Resend <=> \A i \in DOMAIN Records : i # k => Records[i].IrpReturned
  BY <1>0, <1>3, <1>4, ResendIs
<1>11. \A v \in Writes :
          RecordedIn(r, v) \/ v \in ToSet(WriteDataQueue) <=>
             Has(v) /\ (DoneStatus = "SUCCESS" => v # buf[Done].CallingIrp)
  <2> SUFFICES ASSUME NEW v \in Writes
               PROVE  RecordedIn(r, v) \/ v \in ToSet(WriteDataQueue) <=>
                         Has(v) /\ (DoneStatus = "SUCCESS" => v # buf[Done].CallingIrp)
    OBVIOUS
  <2>1. Records[k].SentIrp = buf[Done].CallingIrp
    BY <1>3, <1>4 DEF RecordOf
  <2>2. RecordedIn(r, v) <=>
           Recorded(v) /\ (DoneStatus = "SUCCESS" => v # buf[Done].CallingIrp)
    BY <1>0, <1>9, <2>1, PassedRecorded
  <2>3. ~InHand(v)
    BY <1>2, HandlesCannotSend DEF InHand
  <2>4. v = buf[Done].CallingIrp => v \notin ToSet(WriteDataQueue)
    BY <1>0, <2>1, OnePlace DEF Recorded
  <2> QED BY <2>2, <2>3, <2>4 DEF Has
<1>12. OrderInv' /\ RecordInv'
       /\ \A v \in Writes : Has(v)' <=>
             RecordedIn(r, v) \/ v \in ToSet(WriteDataQueue)
  <2>1. CASE Resend
    <3>1. /\ WriteDataQueue' = WritesOf(r) \o WriteDataQueue /\ Records' = <<>>
      BY <1>5, <1>9, <2>1 DEF Records
    <3>2. /\ QueueRises'
          /\ \A v \in Writes : v \in ToSet(WriteDataQueue') <=>
                RecordedIn(r, v) \/ v \in ToSet(WriteDataQueue)
      BY <1>0, <1>8, <1>9, <3>1, ResentRises
    <3>3. OrderInv'
      BY <1>7, <3>1, <3>2 DEF OrderInv, RecordsRise, HandRises
    <3>4. Out' = {}
      <4>1. ASSUME NEW x \in Out' PROVE FALSE
        <5>1. PICK j \in DOMAIN Records : RecordOf(j, x)
          BY <1>0, <1>7 DEF RecordInv
        <5>2. x # b /\ Records[j].MWTBuf = x /\ ~Records[j].IrpReturned
              /\ Records[k].MWTBuf = b
          BY <1>4, <1>7, <5>1 DEF RecordOf
        <5> QED BY <1>10, <2>1, <5>2
      <4> QED BY <4>1
    <3>5. RecordInv'
      BY <3>1, <3>4 DEF RecordInv, Kept
    <3> QED BY <1>7, <3>1, <3>2, <3>3, <3>5 DEF Has, InHand, Recorded
  <2>2. CASE ~Resend
    <3>1. WriteDataQueue' = WriteDataQueue /\ Records' = r
      BY <1>5, <1>9, <2>2 DEF Records
    <3>2. QueueRises'
      BY <1>0, <1>8, <3>1 DEF OrderInv, QueueRises
    <3>3. RecordsRise'
      BY <1>0, <1>8, <1>9, <3>1, PassedRises DEF RecordsRise
    <3>4. /\ \A x \in Out' : \E j \in DOMAIN Records' : RecordOf(j, x)'
          /\ \A j \in DOMAIN Records' :
                ~Records'[j].IrpReturned => Records'[j].MWTBuf \in Out'
      BY <1>0, <1>4, <1>7, <1>9, <3>1, PassedOut
    <3>5. Unreturned'
      <4>1. PICK i \in DOMAIN Records : i # k /\ ~Records[i].IrpReturned
        BY <1>10, <2>2
      <4>2. \E j \in DOMAIN r : ~r[j].IrpReturned
        BY <1>9, <4>1 DEF Passed
      <4> QED BY <3>1, <4>2 DEF Unreturned
    <3>6. wt'.mwtState = "FLOW_OFF"
      BY <1>1, <1>5, <2>2
    <3>7. RecordInv'
      BY <3>4, <3>5, <3>6 DEF RecordInv
    <3>8. OrderInv'
      BY <1>7, <3>2, <3>3 DEF OrderInv, HandRises
    <3>9. \A v : Recorded(v)' <=> RecordedIn(r, v)
      BY <3>1 DEF Recorded, RecordedIn
    <3> QED BY <1>7, <3>1, <3>7, <3>8, <3>9 DEF Has, InHand
  <2> QED BY <2>1, <2>2
<1>13. IrpInv' /\ SizeInv' /\ SuccessIsSent'
  <2>1. CASE DoneStatus = "SUCCESS"
    <3>1. irp' = AnswerTransfer(Done, DoneStatus)
      BY <1>5, <2>1 DEF KeptIrps
    <3>2. \A v \in Writes : Has(v)' <=> Has(v) /\ v # buf[Done].CallingIrp
      BY <1>11, <1>12, <2>1
    <3> QED BY <1>1, <1>2, <1>5, <1>7, <1>8, <3>1, <3>2, AnsweredKeeps
  <2>2. CASE DoneStatus # "SUCCESS"
    <3>1. irp' = Adjusted(Done)
      BY <1>5, <2>2 DEF KeptIrps
    <3>2. \A v \in Writes : Has(v)' <=> Has(v)
      BY <1>11, <1>12, <2>2
    <3> QED BY <1>1, <1>2, <1>5, <1>7, <1>8, <3>1, <3>2, AdjustedKeeps
  <2> QED BY <2>1, <2>2
<1>14. GoneInv'
  BY <1>7 DEF GoneInv
<1> QED BY <1>1, <1>6, <1>7, <1>12, <1>13, <1>14 DEF CoreInv, PipeInv

-----------------------------------------------------------------------------
(***************************************************************************)
(* The invariant holds.                                                    *)
(***************************************************************************)
LEMMA InitCore ==
    ASSUME Init
    PROVE  CoreInv
<1>1. PICK spent \in AnySpent : InitWith(spent)
  BY DEF Init
<1>2. /\ irp = [w \in Writes |-> NewIrp] /\ WriteDataQueue = <<>>
      /\ buf = [b \in Buffers |-> IdleBuffer]
      /\ MWriteIdleQueue = pMwtBuffer /\ MWritePendingQueue = <<>>
      /\ MWriteCompletionQueue = <<>> /\ MWriteCancellingQueue = <<>>
      /\ Records = <<>> /\ signalling = {}
      /\ dev = [present |-> TRUE, PowerSuspended |-> FALSE, halted |-> FALSE,
                WtErrorCount |-> 0]
      /\ wt = NewThread({}, FALSE)
      /\ int = [flow |-> "on", acked |-> FALSE]
      /\ canceller = "idle" /\ purger = "idle"
      /\ count \in AnySpent /\ device = <<>> /\ faults = {}
  BY <1>1 DEF InitWith, Records
<1>3. /\ NewIrp \in WriteIrp /\ IdleBuffer \in TransferBuffer
      /\ \A S : <<>> \in Seq(S)
  BY DEF NewIrp, WriteIrp, TransferStatus, IdleBuffer, TransferBuffer, Sent
<1>4. wt \in WriteThread /\ wt.pc = "top"
  BY <1>2 DEF NewThread, WriteThread, WritePcs, WritePoints, MwtState, Sent
<1>5. TypeInv
  <2>1. /\ irp \in [Writes -> WriteIrp] /\ buf \in [Buffers -> TransferBuffer]
    BY <1>2, <1>3
  <2>2. pMwtBuffer \in Seq(Buffers)
    BY WriteBuffersAssumption
  <2>3. dev \in Device
    BY <1>2 DEF Device
  <2> QED BY <1>2, <1>3, <1>4, <2>1, <2>2, <2>3 DEF TypeInv, TypeOK, Records
<1>a. /\ DOMAIN WriteDataQueue = {} /\ DOMAIN Records = {} /\ ~Sending
      /\ ToSet(WriteDataQueue) = {}
  <2>1. DOMAIN WriteDataQueue = {} /\ DOMAIN Records = {}
    BY <1>2
  <2>2. ~Sending /\ ToSet(WriteDataQueue) = {}
    BY <1>2, <1>4, ElementsOfNone DEF Sending
  <2> QED BY <2>1, <2>2
<1>6. \A w : ~Has(w)
  BY <1>a DEF Has, InHand, Recorded
<1>7. OrderInv
  BY <1>a DEF OrderInv, QueueRises, RecordsRise, HandRises
<1>8. BufferInv
  <2>1. /\ IsInjective(MWriteIdleQueue) /\ ToSet(MWriteIdleQueue) \subseteq Buffers
    <3>1. pMwtBuffer \in Seq(Buffers) /\ IsInjective(pMwtBuffer)
      BY WriteBuffersAssumption
    <3> QED BY <1>2, <3>1, Members
  <2>2. ToSet(MWritePendingQueue) = {} /\ ToSet(MWriteCompletionQueue) = {}
    BY <1>2, ElementsOfNone
  <2>3. IsInjective(MWritePendingQueue) /\ IsInjective(MWriteCompletionQueue)
    BY <1>2 DEF IsInjective
  <2>4. \A b \in ToSet(MWriteIdleQueue) : buf[b] = IdleBuffer
    BY <1>2, <2>1
  <2> QED BY <1>4, <2>1, <2>2, <2>3, <2>4 DEF BufferInv, Sending
<1>9. Out = {}
  BY <1>2, ElementsOfNone DEF Out
<1>10. RecordInv /\ TransferInv
  BY <1>2, <1>9 DEF RecordInv, Kept, TransferInv
<1>11. SizeInv
  BY <1>6 DEF SizeInv
<1>12. \A w \in Writes : /\ irp[w].where = "new" /\ irp[w].routine = "none"
                         /\ irp[w].Information = 0
  BY <1>2 DEF NewIrp
<1>13. IrpInv /\ SuccessIsSent
  BY <1>6, <1>12 DEF IrpInv, SuccessIsSent
<1>14. GoneInv
  BY <1>4 DEF GoneInv, Gone
<1> QED BY <1>5, <1>7, <1>8, <1>10, <1>11, <1>13, <1>14 DEF CoreInv, PipeInv

\* Steps of the thread that leave everything where it is.
LEMMA ThreadCore ==
    ASSUME CoreInv,
           \/ Top \/ SendNothing \/ Check \/ Kick \/ CancelCurrent \/ CancelNext
           \/ CancelDone \/ CancelThread \/ Purge \/ Stop \/ Resume \/ FlowOn
           \/ FlowOff \/ FlowOffAbort \/ CompleteNothing
    PROVE  TypeInv' /\ Still /\ CoreInv'
<1>1. TypeInv
  BY DEF CoreInv, PipeInv
<1>2. CASE Top \/ SendNothing \/ Check \/ Kick \/ CancelCurrent \/ CancelDone
             \/ Resume \/ FlowOn \/ CompleteNothing
  BY <1>1, <1>2, ThreadAloneType, ThreadAloneStill, StillCore
<1>3. CASE CancelNext
  BY <1>1, <1>3, CancelNextType, CancelNextStill, StillCore
<1>4. CASE CancelThread \/ Purge \/ Stop
  <2>1. TypeInv'
    BY <1>1, <1>4, RequestType
  <2>2. Still
    <3>1. \/ RequestTaken("CANCEL", "CANCELLING")
          \/ RequestTaken("PURGE", "PURGING")
          \/ RequestTaken("STOP", "STOPPING")
      BY <1>1, <1>4, Requests
    <3> QED BY <1>1, <3>1, RequestStill
  <2> QED BY <2>1, <2>2, StillCore
<1>5. CASE FlowOff
  BY <1>1, <1>5, FlowOffType, FlowOffStill, StillCore
<1>6. CASE FlowOffAbort
  BY <1>1, <1>6, FlowOffAbortType, FlowOffAbortStill, StillCore
<1> QED BY <1>2, <1>3, <1>4, <1>5, <1>6

\* Steps of the others that do.
LEMMA OthersCore ==
    ASSUME CoreInv,
           \/ BusData \/ BusError \/ BusCancelled \/ WriteCompletionSignal
           \/ CreateThread \/ IntNext \/ RequestStop \/ RequestResume
           \/ PurgeAbort \/ PurgeSignal \/ CancelWriteThread
           \/ CancelWriteThreadDone \/ EnterEnqueue
           \/ \E w \in Writes : CancelIrp(w)
    PROVE  TypeInv' /\ Still /\ CoreInv'
<1>1. TypeInv /\ IrpInv
  BY DEF CoreInv, PipeInv
<1>2. CASE BusData \/ BusError \/ BusCancelled
  BY <1>1, <1>2, BusStill, StillCore
<1>3. CASE WriteCompletionSignal
  BY <1>1, <1>3, SignalStill, StillCore
<1>4. CASE CreateThread
  BY <1>1, <1>4, CreateThreadStill, StillCore
<1>5. CASE NotifyFlowOff \/ NotifyFlowOn \/ RequestStop \/ RequestResume
             \/ PurgeSignal \/ CancelWriteThread
  BY <1>1, <1>5, AskersStill, StillCore
<1>6. CASE EmptyWtCompletionQueue \/ FlowOffAcked \/ FlowOffTimeout \/ PurgeAbort
  BY <1>1, <1>6, WatchersStill, StillCore
<1>7. CASE CancelWriteThreadDone
  BY <1>1, <1>7, CancelWriteThreadDoneStill, StillCore
<1>8. CASE \E w \in Writes : CancelIrp(w)
  <2>1. PICK w \in Writes : CancelIrp(w)
    BY <1>8
  <2> QED BY <1>1, <2>1, CancelIrpStill, StillCore
<1>9. CASE EnterEnqueue
  BY <1>1, <1>9, EnterEnqueueStill, StillCore
<1> QED BY <1>2, <1>3, <1>4, <1>5, <1>6, <1>7, <1>8, <1>9 DEF IntNext

LEMMA CancelWriteRoutineCore ==
    ASSUME CoreInv, NEW w \in Writes, CancelWriteRoutine(w)
    PROVE  TypeInv' /\ CoreInv'
<1>1. TypeInv /\ BufferInv /\ RecordInv /\ IrpInv
  BY DEF CoreInv, PipeInv
<1>2. /\ TypeInv'
      /\ UNCHANGED <<buf, MWriteIdleQueue, MWritePendingQueue,
                     MWriteCompletionQueue, MWTSentIrpQueue, device, count>>
      /\ CancelsWrite(w) \/ (CancelsTransfer(w) /\ Still)
  BY <1>1, CancelWriteRoutineType
<1>3. CASE CancelsWrite(w)
  BY <1>2, <1>3, CancelsWriteCore
<1>4. CASE Still
  BY <1>2, <1>4, StillCore
<1> QED BY <1>2, <1>3, <1>4

LEMMA StutterStill ==
    ASSUME UNCHANGED vars
    PROVE  Still
BY DEF vars, bufferQueues, callers, Still, HandSame, Sending, Gone

LEMMA StepCore ==
    ASSUME CoreInv, [Next]_vars
    PROVE  CoreInv'
<1>1. CASE TopPurge \/ SendCancelled \/ CancelWriteThreadPurge
  BY <1>1, TopPurgeCore
<1>2. CASE \/ Top \/ SendNothing \/ Check \/ Kick \/ CancelCurrent \/ CancelNext
           \/ CancelDone \/ CancelThread \/ Purge \/ Stop \/ Resume \/ FlowOn
           \/ FlowOff \/ FlowOffAbort \/ CompleteNothing
  BY <1>2, ThreadCore
<1>3. CASE SendTake
  BY <1>3, SendTakeCore
<1>4. CASE SendSubmit
  BY <1>4, SendSubmitCore
<1>5. CASE CompleteFlowOff
  BY <1>5, CompleteFlowOffCore
<1>6. CASE CompleteWrite
  BY <1>6, CompleteWriteCore
<1>7. CASE WriteCompletionRoutine
  BY <1>7, WriteCompletionRoutineCore
<1>8. CASE Enqueue
  BY <1>8, EnqueueCore
<1>9. CASE \E w \in Writes : CancelWriteRoutine(w)
  BY <1>9, CancelWriteRoutineCore
<1>10. CASE \/ BusData \/ BusError \/ BusCancelled \/ WriteCompletionSignal
            \/ CreateThread \/ IntNext \/ RequestStop \/ RequestResume
            \/ PurgeAbort \/ PurgeSignal \/ CancelWriteThread
            \/ CancelWriteThreadDone \/ EnterEnqueue
           \/ \E w \in Writes : CancelIrp(w)
  BY <1>10, OthersCore
<1>11. CASE UNCHANGED vars
  <2>1. TypeInv
    BY DEF CoreInv, PipeInv
  <2>2. TypeInv'
    BY <1>11, <2>1 DEF TypeInv, TypeOK, vars, bufferQueues, callers
  <2> QED BY <1>11, <2>2, StutterStill, StillCore
<1> QED BY <1>1, <1>2, <1>3, <1>4, <1>5, <1>6, <1>7, <1>8, <1>9, <1>10, <1>11
        DEF Next, ThreadNext, BusNext, ClientNext, CallerNext

\* Whatever the write thread, its transfers, its callers and the interrupt thread
\* do, the writes stay in order and each in its place: on WriteDataQueue, in the
\* thread's hand, or in the one record that its transfer has.
THEOREM CoreIsInvariant == Spec => []CoreInv
BY InitCore, StepCore, PTL DEF Spec

\* The fields of the pipeline keep to their ranges, whatever the threads do: no
\* length or count of a write falls below zero, and every queue holds what it
\* is meant to hold.
THEOREM WriteTypeIsInvariant == Spec => []TypeOK
<1>1. CoreInv => TypeOK
  BY DEF CoreInv, PipeInv, TypeInv
<1> QED BY <1>1, CoreIsInvariant, PTL

\* A write that is completed with success has reached the device whole, even if
\* it was sent in parts because the flow was turned off under it, a purge or a
\* stop cancelled its transfers, or its count of transferred packets fell back.
THEOREM SuccessReachesTheDevice == Spec => []SuccessIsSent
<1>1. CoreInv => SuccessIsSent
  BY DEF CoreInv, PipeInv
<1> QED BY <1>1, CoreIsInvariant, PTL

-----------------------------------------------------------------------------
(***************************************************************************)
(* What cancels a transfer, and what a wait returns.                       *)
(***************************************************************************)
\* A transfer that a cancel routine has listed is out, its write is cancelled
\* and the routine has returned; the thread has been told of it.
ListInv ==
    /\ MWriteCancellingQueue # <<>> =>
          "CANCEL_CURRENT" \in wt.set \/ wt.pc = "cancelling"
    /\ \A b \in ToSet(MWriteCancellingQueue) :
          /\ b \in Out /\ buf[b].CallingIrp \in Writes
          /\ irp[buf[b].CallingIrp].cancelled
          /\ irp[buf[b].CallingIrp].routine # "running"
\* A buffer's event is set when its transfer is to be completed, and the thread
\* handles no completion before it has looked at the list.
WaitInv ==
    /\ wt.pc \in Buffers =>
          /\ MWriteCompletionQueue # <<>>
          /\ Head(MWriteCompletionQueue) \notin ToSet(MWriteCancellingQueue)
    /\ \A b \in Buffers : b \in wt.set => b \in ToSet(MWriteCompletionQueue)
    /\ wt.pc = "blocked" => wt.set = {}
CancelInv == "stale" \notin faults => ListInv /\ WaitInv

\* No cancel routine is called a second time.
Calm ==
    \A w \in Writes :
       /\ irp[w].cancelled => irp'[w].cancelled
       /\ irp'[w].routine = "running" /\ irp[w].cancelled =>
             irp[w].routine = "running"

\* The thread goes on, to a point where it neither waits nor handles a
\* completion.
MovesOn ==
    /\ wt'.pc \in WritePoints \ {"blocked", "none"} /\ wt.pc # "none"
    /\ wt'.set \subseteq wt.set \cup {"STOP"}
    /\ "CANCEL_CURRENT" \in wt.set =>
          "CANCEL_CURRENT" \in wt'.set \/ wt'.pc = "cancelling"
    /\ wt.pc = "cancelling" =>
          wt'.pc = "cancelling" \/ MWriteCancellingQueue = <<>>

LEMMA AloneMovesOn ==
    ASSUME TypeInv,
           Top \/ SendNothing \/ Kick \/ CancelCurrent \/ CancelDone
             \/ Resume \/ FlowOn \/ CompleteNothing
    PROVE  MovesOn
<1>1. wt \in WriteThread
  BY TypeParts
<1>2. CASE Top \/ SendNothing \/ CancelDone \/ CompleteNothing
  <2>1. \E pc \in {"top", "send", "check"} : wt' = [wt EXCEPT !.pc = pc]
    BY <1>2 DEF Top, SendNothing, CancelDone, CompleteNothing, Goto
  <2>2. /\ wt.pc # "none"
        /\ wt.pc = "cancelling" => MWriteCancellingQueue = <<>>
    BY <1>2, WriteBuffersAssumption
       DEF Top, SendNothing, CancelDone, CompleteNothing, WritePoints
  <2> QED BY <1>1, <2>1, <2>2 DEF WriteThread, MovesOn, WritePoints
<1>3. CASE Kick
  <2>1. wt' = [wt EXCEPT !.set = wt.set \ {"KICK"}, !.pc = "top"] /\ wt.pc = "KICK"
    BY <1>3 DEF Kick, Clear
  <2> QED BY <1>1, <2>1 DEF WriteThread, MovesOn, WritePoints
<1>4. CASE CancelCurrent
  <2>1. wt' = [wt EXCEPT !.set = wt.set \ {"CANCEL_CURRENT"}, !.pc = "cancelling"]
        /\ wt.pc = "CANCEL_CURRENT"
    BY <1>4 DEF CancelCurrent, Clear
  <2> QED BY <1>1, <2>1 DEF WriteThread, MovesOn, WritePoints
<1>5. CASE Resume
  <2>1. wt' = [[wt EXCEPT !.set = wt.set \ {"RESUME"}, !.pc = "top"]
                  EXCEPT !.bWriteStopped = dev.PowerSuspended] /\ wt.pc = "RESUME"
    BY <1>5 DEF Resume, Clear
  <2> QED BY <1>1, <2>1 DEF WriteThread, MovesOn, WritePoints
<1>6. CASE FlowOn
  <2>1. wt' = [[wt EXCEPT !.set = wt.set \ {"FLOW_ON"}, !.pc = "top"]
                  EXCEPT !.bWriteStopped = dev.PowerSuspended, !.bFlowOn = TRUE]
        /\ wt.pc = "FLOW_ON"
    BY <1>6 DEF FlowOn, Clear
  <2> QED BY <1>1, <2>1 DEF WriteThread, MovesOn, WritePoints
<1> QED BY <1>2, <1>3, <1>4, <1>5, <1>6

LEMMA ThreadMovesOn ==
    ASSUME CoreInv, ThreadNext, ~Check
    PROVE  MovesOn
<1>1. TypeInv /\ BufferInv /\ RecordInv
  BY DEF CoreInv, PipeInv
<1>2. wt \in WriteThread
  BY <1>1, TypeParts
<1>3. CASE Top \/ SendNothing \/ Kick \/ CancelCurrent \/ CancelDone
             \/ Resume \/ FlowOn \/ CompleteNothing
  BY <1>1, <1>3, AloneMovesOn
<1>4. CASE TopPurge
  <2>1. wt' = [wt EXCEPT !.pc = "check", !.bPurged = FALSE] /\ wt.pc = "top"
    BY <1>4 DEF TopPurge
  <2> QED BY <1>2, <2>1 DEF WriteThread, MovesOn, WritePoints
<1>5. CASE SendCancelled
  <2>1. wt' = [wt EXCEPT !.pc = "check"] /\ wt.pc = "send"
    BY <1>5 DEF SendCancelled, Goto
  <2> QED BY <1>2, <2>1 DEF WriteThread, MovesOn, WritePoints
<1>6. CASE SendTake
  <2>1. \E w : wt' = [wt EXCEPT !.pc = "sending", !.pWriteCurrent = w]
    BY <1>6 DEF SendTake
  <2>2. wt.pc = "send"
    BY <1>6 DEF SendTake
  <2> QED BY <1>2, <2>1, <2>2 DEF WriteThread, MovesOn, WritePoints
<1>7. CASE SendSubmit
  <2>1. \E z : wt' = [wt EXCEPT !.pc = "send", !.bSendZeroLength = z]
    BY <1>7 DEF SendSubmit
  <2>2. wt.pc = "sending"
    BY <1>7 DEF SendSubmit
  <2> QED BY <1>2, <2>1, <2>2 DEF WriteThread, MovesOn, WritePoints
<1>8. CASE CancelNext
  <2>1. wt' = wt /\ wt.pc = "cancelling"
    BY <1>8 DEF CancelNext
  <2> QED BY <2>1 DEF MovesOn, WritePoints
<1>9. CASE CancelThread \/ Purge \/ Stop
  <2>1. \E e \in {"CANCEL", "PURGE", "STOP"} :
           wt.pc = e /\ wt'.set = wt.set \ {e} /\ wt'.pc \in {"check", "top"}
    BY <1>1, <1>9, Requests DEF RequestTaken, Taken
  <2> QED BY <2>1 DEF MovesOn, WritePoints
<1>10. CASE FlowOff
  <2>1. wt'.set = wt.set \ {"FLOW_OFF"} /\ wt'.pc \in {"top", "abort"}
    BY <1>1, <1>10, FlowOffType
  <2>2. wt.pc = "FLOW_OFF"
    BY <1>10 DEF FlowOff
  <2> QED BY <2>1, <2>2 DEF MovesOn, WritePoints
<1>11. CASE FlowOffAbort
  <2>1. wt'.pc = "top" /\ wt'.set = wt.set
    BY <1>1, <1>11, FlowOffAbortStill
  <2>2. wt.pc = "abort"
    BY <1>11 DEF FlowOffAbort
  <2> QED BY <2>1, <2>2 DEF MovesOn, WritePoints
<1>12. CASE CompleteFlowOff \/ CompleteWrite
  <2>1. /\ wt'.pc \in {"check", "top"}
        /\ wt'.set \subseteq wt.set \cup {"STOP"} /\ wt.set \ {Done} \subseteq wt'.set
    BY <1>1, <1>12, CompleteFlowOffType, CompleteWriteType
  <2>2. wt.pc \in Buffers /\ Handles
    BY <1>12 DEF CompleteFlowOff, CompleteWrite, Handles
  <2>3. Done \in Buffers
    BY <1>1, <2>2, DoneIs
  <2>4. wt.pc # "none" /\ wt.pc # "cancelling" /\ Done # "CANCEL_CURRENT"
    BY <2>2, <2>3, WriteBuffersAssumption DEF WritePoints, WriteEvents
  <2> QED BY <2>1, <2>4 DEF MovesOn, WritePoints
<1> QED BY <1>3, <1>4, <1>5, <1>6, <1>7, <1>8, <1>9, <1>10, <1>11, <1>12
        DEF ThreadNext

\* A listed transfer stays what it is as long as its buffer is out.
LEMMA ListedKept ==
    ASSUME TypeInv, ListInv, TypeInv', Calm, NEW b \in ToSet(MWriteCancellingQueue),
           b \in Out', buf'[b].CallingIrp = buf[b].CallingIrp
    PROVE  /\ buf'[b].CallingIrp \in Writes
           /\ irp'[buf'[b].CallingIrp].cancelled
           /\ irp'[buf'[b].CallingIrp].routine # "running"
  BY DEF ListInv, Calm

\* Steps in which the thread does not take part.
LEMMA WaitGoesOn ==
    ASSUME CoreInv, ListInv, WaitInv, TypeInv', Calm, Out \subseteq Out',
           \A b \in Out : buf'[b].CallingIrp = buf[b].CallingIrp,
           wt' = wt, UNCHANGED MWriteCancellingQueue,
           \/ UNCHANGED MWriteCompletionQueue
           \/ \E b \in Buffers : MWriteCompletionQueue' = Append(MWriteCompletionQueue, b)
    PROVE  ListInv' /\ WaitInv'
<1>1. TypeInv
  BY DEF CoreInv, PipeInv
<1>2. MWriteCompletionQueue \in Seq(Buffers)
  BY <1>1, TypeParts
<1>3. ListInv'
  <2>1. \A b \in ToSet(MWriteCancellingQueue') :
           /\ b \in Out' /\ buf'[b].CallingIrp \in Writes
           /\ irp'[buf'[b].CallingIrp].cancelled
           /\ irp'[buf'[b].CallingIrp].routine # "running"
    <3> SUFFICES ASSUME NEW b \in ToSet(MWriteCancellingQueue)
                 PROVE  /\ b \in Out' /\ buf'[b].CallingIrp \in Writes
                        /\ irp'[buf'[b].CallingIrp].cancelled
                        /\ irp'[buf'[b].CallingIrp].routine # "running"
      OBVIOUS
    <3>1. b \in Out' /\ buf'[b].CallingIrp = buf[b].CallingIrp
      BY DEF ListInv
    <3> QED BY <1>1, <3>1, ListedKept
  <2> QED BY <2>1 DEF ListInv
<1>4. /\ ToSet(MWriteCompletionQueue) \subseteq ToSet(MWriteCompletionQueue')
      /\ MWriteCompletionQueue # <<>> =>
            /\ MWriteCompletionQueue' # <<>>
            /\ Head(MWriteCompletionQueue') = Head(MWriteCompletionQueue)
  <2>1. CASE UNCHANGED MWriteCompletionQueue
    BY <2>1
  <2>2. CASE \E b \in Buffers : MWriteCompletionQueue' = Append(MWriteCompletionQueue, b)
    <3>1. PICK b \in Buffers : MWriteCompletionQueue' = Append(MWriteCompletionQueue, b)
      BY <2>2
    <3>2. \A i \in 1 .. Len(MWriteCompletionQueue) :
             /\ i \in DOMAIN MWriteCompletionQueue'
             /\ MWriteCompletionQueue'[i] = MWriteCompletionQueue[i]
      BY <1>2, <3>1
    <3> QED BY <1>2, <3>1, <3>2 DEF ToSet
  <2> QED BY <2>1, <2>2
<1>5. WaitInv'
  BY <1>4 DEF WaitInv
<1> QED BY <1>3, <1>5

\* An event is set.  The buffer that a cancel routine lists is one whose
\* transfer is pending.
LEMMA SignalWaits ==
    ASSUME CoreInv, ListInv, WaitInv, TypeInv', Calm, Out \subseteq Out',
           \A b \in Out : buf'[b].CallingIrp = buf[b].CallingIrp,
           UNCHANGED MWriteCompletionQueue,
           NEW e \in ThreadEvents, wt' = Signal(wt, e),
           e \in Buffers => e \in ToSet(MWriteCompletionQueue),
           \/ UNCHANGED MWriteCancellingQueue
           \/ /\ e = "CANCEL_CURRENT"
              /\ \E b \in ToSet(MWritePendingQueue) :
                    /\ MWriteCancellingQueue' = Append(MWriteCancellingQueue, b)
                    /\ b \in Out' /\ buf'[b].CallingIrp \in Writes
                    /\ irp'[buf'[b].CallingIrp].cancelled
                    /\ irp'[buf'[b].CallingIrp].routine # "running"
    PROVE  ListInv' /\ WaitInv'
<1>1. TypeInv /\ BufferInv
  BY DEF CoreInv, PipeInv
<1>2. /\ MWriteCompletionQueue \in Seq(Buffers) /\ MWriteCancellingQueue \in Seq(Buffers)
      /\ wt \in WriteThread /\ MWritePendingQueue \in Seq(Buffers)
  BY <1>1, TypeParts
<1>3. /\ wt'.set = wt.set \cup {e}
      /\ wt'.pc = IF wt.pc = "blocked" THEN e ELSE wt.pc
  BY <1>1, SignalIs
<1>4. \A b \in ToSet(MWriteCancellingQueue) :
           /\ b \in Out' /\ buf'[b].CallingIrp \in Writes
           /\ irp'[buf'[b].CallingIrp].cancelled
           /\ irp'[buf'[b].CallingIrp].routine # "running"
  <2> SUFFICES ASSUME NEW b \in ToSet(MWriteCancellingQueue)
               PROVE  /\ b \in Out' /\ buf'[b].CallingIrp \in Writes
                      /\ irp'[buf'[b].CallingIrp].cancelled
                      /\ irp'[buf'[b].CallingIrp].routine # "running"
    OBVIOUS
  <2>1. b \in Out' /\ buf'[b].CallingIrp = buf[b].CallingIrp
    BY DEF ListInv
  <2> QED BY <1>1, <2>1, ListedKept
<1>5. \A b \in Buffers : b \in wt'.set => b \in ToSet(MWriteCompletionQueue)
  BY <1>3 DEF WaitInv
<1>6. "blocked" \notin Buffers /\ "CANCEL_CURRENT" \notin Buffers /\ "cancelling" # "blocked"
      /\ e # "blocked"
  BY WriteBuffersAssumption DEF WritePoints, WriteEvents, ThreadEvents
<1>7. wt'.pc # "blocked"
  BY <1>3, <1>6
<1>8. wt.pc = "blocked" => MWriteCancellingQueue = <<>>
  BY <1>6 DEF ListInv, WaitInv
<1>9. wt'.pc \in Buffers =>
         /\ MWriteCompletionQueue # <<>>
         /\ Head(MWriteCompletionQueue) \notin ToSet(MWriteCancellingQueue)
  <2>1. CASE wt.pc = "blocked"
    <3>1. ToSet(MWriteCancellingQueue) = {}
      BY <1>2, <1>8, <2>1, Members
    <3>2. e \in Buffers => MWriteCompletionQueue # <<>>
      BY <1>2, Members
    <3> QED BY <1>3, <2>1, <3>1, <3>2
  <2>2. CASE wt.pc # "blocked"
    BY <1>3, <2>2 DEF WaitInv
  <2> QED BY <2>1, <2>2
<1>10. CASE UNCHANGED MWriteCancellingQueue
  <2>1. MWriteCancellingQueue' # <<>> =>
           "CANCEL_CURRENT" \in wt'.set \/ wt'.pc = "cancelling"
    BY <1>3, <1>6, <1>10 DEF ListInv
  <2> QED BY <1>4, <1>5, <1>7, <1>9, <1>10, <2>1 DEF ListInv, WaitInv
<1>11. ASSUME e = "CANCEL_CURRENT", NEW b \in ToSet(MWritePendingQueue),
              MWriteCancellingQueue' = Append(MWriteCancellingQueue, b),
              b \in Out', buf'[b].CallingIrp \in Writes,
              irp'[buf'[b].CallingIrp].cancelled,
              irp'[buf'[b].CallingIrp].routine # "running"
       PROVE  ListInv' /\ WaitInv'
  <2>1. "CANCEL_CURRENT" \in wt'.set
    BY <1>3, <1>11
  <2>2. ToSet(MWriteCancellingQueue') = ToSet(MWriteCancellingQueue) \cup {b}
    <3>1. b \in Buffers
      BY <1>2, <1>11, Members
    <3>2. /\ Append(MWriteCancellingQueue, b) = MWriteCancellingQueue \o <<b>>
          /\ ToSet(MWriteCancellingQueue \o <<b>>) = ToSet(MWriteCancellingQueue) \cup {b}
      BY <1>2, <3>1, AppendIsConcatOfOne
    <3> QED BY <1>11, <3>2
  <2>3. b \notin ToSet(MWriteCompletionQueue)
    BY <1>1, <1>11 DEF BufferInv
  <2>4. wt'.pc \in Buffers => Head(MWriteCompletionQueue) # b
    BY <1>2, <1>9, <2>3, Members
  <2> QED BY <1>4, <1>5, <1>7, <1>9, <1>11, <2>1, <2>2, <2>4 DEF ListInv, WaitInv
<1> QED BY <1>10, <1>11

\* A thread that goes, or comes, finds no transfer and no list.
LEMMA NoneListed ==
    ASSUME CoreInv, ListInv, WaitInv, Gone, UNCHANGED <<MWriteCancellingQueue, MWriteCompletionQueue>>,
           wt'.set \subseteq wt.set, wt'.pc \in {"top", "none"}
    PROVE  ListInv' /\ WaitInv'
<1>1. TypeInv /\ NothingActive
  BY DEF CoreInv, PipeInv, GoneInv
<1>2. MWriteCancellingQueue \in Seq(Buffers)
  BY <1>1, TypeParts
<1>3. Out = {}
  BY <1>1 DEF NothingActive, Out, ToSet
<1>4. MWriteCancellingQueue = <<>> /\ ToSet(MWriteCancellingQueue) = {}
  BY <1>2, <1>3, Members DEF ListInv
<1>5. wt'.pc \notin Buffers /\ wt'.pc # "blocked"
  BY WriteBuffersAssumption DEF WritePoints
<1> QED BY <1>4, <1>5 DEF ListInv, WaitInv

\* The steps in which the thread does not take part, one by one.
LEMMA WatchingWaits ==
    ASSUME CoreInv, ListInv, WaitInv,
           \/ BusData \/ BusError \/ BusCancelled \/ EmptyWtCompletionQueue
           \/ FlowOffAcked \/ FlowOffTimeout \/ PurgeAbort \/ EnterEnqueue
           \/ \E w \in Writes : CancelIrp(w)
    PROVE  ListInv' /\ WaitInv'
<1>1. TypeInv /\ BufferInv /\ IrpInv
  BY DEF CoreInv, PipeInv
<1>2. TypeInv' /\ Still
  BY OthersCore DEF IntNext
<1>3. wt' = wt /\ Calm /\ UNCHANGED MWriteCancellingQueue
  <2>1. CASE BusData \/ BusError \/ BusCancelled
    <3>1. wt' = wt /\ irp' = irp /\ UNCHANGED MWriteCancellingQueue
      BY <2>1 DEF BusData, BusError, BusCancelled, BusStep
    <3> QED BY <3>1 DEF Calm
  <2>2. CASE EmptyWtCompletionQueue \/ FlowOffAcked \/ FlowOffTimeout \/ PurgeAbort
    <3>1. /\ wt' = wt /\ UNCHANGED MWriteCancellingQueue
          /\ \A w \in Writes :
                 \/ irp'[w] = irp[w]
                 \/ irp[w].where = "answered" /\ irp'[w] = [irp[w] EXCEPT !.where = "done"]
      BY <1>1, <2>2, WatchersStill
    <3>2. irp \in [Writes -> WriteIrp]
      BY <1>1, TypeParts
    <3>3. ASSUME NEW w \in Writes
          PROVE  irp'[w].cancelled = irp[w].cancelled /\ irp'[w].routine = irp[w].routine
      BY <3>1, <3>2, <3>3 DEF WriteIrp
    <3> QED BY <3>1, <3>3 DEF Calm
  <2>3. ASSUME NEW w \in Writes, CancelIrp(w)
        PROVE  wt' = wt /\ Calm /\ UNCHANGED MWriteCancellingQueue
    BY <1>1, <2>3, CancelIrpStill DEF Calm
  <2>4. CASE EnterEnqueue
    BY <1>1, <2>4, EnterEnqueueStill DEF Calm
  <2> QED BY <2>1, <2>2, <2>3, <2>4
<1>4. /\ Out' = Out /\ UNCHANGED MWriteCompletionQueue
      /\ \A b \in Out : buf'[b].CallingIrp = buf[b].CallingIrp
  BY <1>1, <1>2, OutStays DEF Still
<1> QED BY <1>2, <1>3, <1>4, WaitGoesOn

LEMMA ReturnWaits ==
    ASSUME CoreInv, ListInv, WaitInv, WriteCompletionRoutine
    PROVE  ListInv' /\ WaitInv'
<1>1. TypeInv /\ BufferInv
  BY DEF CoreInv, PipeInv
<1>2. TypeInv' /\ Out' = Out
  BY WriteCompletionRoutineCore
<1>3. /\ \E b \in ToSet(MWritePendingQueue) :
            MWriteCompletionQueue' = Append(MWriteCompletionQueue, b)
      /\ UNCHANGED <<irp, buf, MWriteCancellingQueue, wt>>
  BY <1>1, WriteCompletionRoutineType
<1>4. ToSet(MWritePendingQueue) \subseteq Buffers
  BY <1>1, TypeParts, Members
<1>5. Calm
  BY <1>3 DEF Calm
<1> QED BY <1>2, <1>3, <1>4, <1>5, WaitGoesOn

\* Events that are set by others.
LEMMA AskingWaits ==
    ASSUME CoreInv, ListInv, WaitInv,
           \/ NotifyFlowOff \/ NotifyFlowOn \/ RequestStop \/ RequestResume
           \/ PurgeSignal \/ CancelWriteThread \/ Enqueue
           \/ WriteCompletionSignal /\ "stale" \notin faults'
    PROVE  ListInv' /\ WaitInv'
<1>1. TypeInv /\ BufferInv
  BY DEF CoreInv, PipeInv
<1>2. WriteEvents \cap Buffers = {}
  BY WriteBuffersAssumption DEF WritePoints
<1>3. CASE \/ NotifyFlowOff \/ NotifyFlowOn \/ RequestStop \/ RequestResume
           \/ PurgeSignal \/ CancelWriteThread
  <2>1. /\ TypeInv' /\ Still /\ irp' = irp
        /\ UNCHANGED MWriteCancellingQueue
    BY <1>1, <1>3, AskersStill
  <2>2. PICK e \in WriteEvents : wt' = Signal(wt, e)
    BY <1>1, <1>3, AskersStill
  <2>3. /\ Out' = Out /\ UNCHANGED MWriteCompletionQueue
        /\ \A b \in Out : buf'[b].CallingIrp = buf[b].CallingIrp
    BY <1>1, <2>1, OutStays DEF Still
  <2>4. Calm
    BY <2>1 DEF Calm
  <2> QED BY <1>2, <2>1, <2>2, <2>3, <2>4, SignalWaits DEF ThreadEvents
<1>4. CASE WriteCompletionSignal /\ "stale" \notin faults'
  <2>1. TypeInv' /\ Still
    BY <1>1, <1>4, SignalStill
  <2>2. PICK b \in signalling :
               wt' = Signal(wt, b) /\ b \in ToSet(MWriteCompletionQueue)
    BY <1>1, <1>4, SignalStill
  <2>3. irp' = irp /\ UNCHANGED MWriteCancellingQueue
    BY <1>4 DEF WriteCompletionSignal
  <2>4. /\ Out' = Out /\ UNCHANGED MWriteCompletionQueue
        /\ \A x \in Out : buf'[x].CallingIrp = buf[x].CallingIrp
    BY <1>1, <2>1, OutStays DEF Still
  <2>5. Calm
    BY <2>3 DEF Calm
  <2>6. b \in Buffers
    BY <1>1, TypeParts
  <2> QED BY <2>1, <2>2, <2>3, <2>4, <2>5, <2>6, SignalWaits DEF ThreadEvents
<1>5. CASE Enqueue
  <2>1. /\ TypeInv'
        /\ wt' = wt \/ wt' = Signal(wt, "KICK")
        /\ count.writes + 1 \in Writes /\ count'.writes = count.writes + 1
        /\ irp'[count'.writes].routine = "set"
        /\ irp'[count'.writes].cancelled = irp[count'.writes].cancelled
        /\ \A v \in Writes : v # count'.writes => irp'[v] = irp[v]
        /\ UNCHANGED <<buf, MWritePendingQueue, MWriteCompletionQueue,
                       MWriteCancellingQueue>>
    BY <1>1, <1>5, EnqueueType
  <2>2. Calm
    BY <2>1 DEF Calm
  <2>3. Out' = Out
    BY <2>1 DEF Out
  <2>4. CASE wt' = wt
    BY <2>1, <2>2, <2>3, <2>4, WaitGoesOn
  <2>5. CASE wt' = Signal(wt, "KICK")
    <3>1. "KICK" \in WriteEvents /\ "KICK" \notin Buffers
      BY <1>2 DEF WriteEvents
    <3> QED BY <2>1, <2>2, <2>3, <2>5, <3>1, SignalWaits DEF ThreadEvents
  <2> QED BY <2>1, <2>4, <2>5
<1> QED BY <1>3, <1>4, <1>5

\* The cancel routine.
LEMMA RoutineWaits ==
    ASSUME CoreInv, ListInv, WaitInv, NEW w \in Writes, CancelWriteRoutine(w)
    PROVE  ListInv' /\ WaitInv'
<1>1. TypeInv /\ BufferInv /\ RecordInv /\ IrpInv
  BY DEF CoreInv, PipeInv
<1>2. /\ TypeInv'
      /\ UNCHANGED <<buf, MWritePendingQueue, MWriteCompletionQueue>>
      /\ CancelsWrite(w) \/ CancelsTransfer(w)
  BY <1>1, CancelWriteRoutineType
<1>3. Out' = Out
  BY <1>2 DEF Out
<1>4. irp[w].routine = "running" /\ irp[w].cancelled
  BY <1>1 DEF CancelWriteRoutine, IrpInv
<1>5. CASE CancelsWrite(w)
  <2>1. Calm
    <3>1. irp'[w].routine = "none" /\ \A v \in Writes : v # w => irp'[v] = irp[v]
      BY <1>5 DEF CancelsWrite
    <3>2. irp'[w].cancelled
      <4>1. irp \in [Writes -> WriteIrp]
        BY <1>1, TypeParts
      <4>2. \/ irp' = [irp EXCEPT ![w] =
                            [irp[w] EXCEPT !.where = "answered", !.routine = "none",
                                           !.Status = "CANCELLED",
                                           !.Information = 0]]
            \/ irp' = [irp EXCEPT ![w] = [irp[w] EXCEPT !.routine = "set"]]
        BY DEF CancelWriteRoutine
      <4>3. \/ irp'[w] = [irp[w] EXCEPT !.where = "answered", !.routine = "none",
                                        !.Status = "CANCELLED", !.Information = 0]
            \/ irp'[w] = [irp[w] EXCEPT !.routine = "set"]
        BY <4>1, <4>2
      <4> QED BY <1>4, <4>1, <4>3 DEF WriteIrp
    <3> QED BY <3>1, <3>2 DEF Calm
  <2>2. UNCHANGED <<wt, MWriteCancellingQueue>>
    BY <1>5 DEF CancelsWrite
  <2> QED BY <1>2, <1>3, <2>1, <2>2, WaitGoesOn
<1>6. CASE CancelsTransfer(w)
  <2> DEFINE b == Head(PendingBuffers(w))
  <2>1. /\ irp'[w].routine = "set" /\ irp'[w].cancelled
        /\ \A v \in Writes : v # w => irp'[v] = irp[v]
        /\ MWriteCancellingQueue' = Append(MWriteCancellingQueue, b)
        /\ wt' = Signal(wt, "CANCEL_CURRENT") /\ PendingBuffers(w) # <<>>
    BY <1>4, <1>6 DEF CancelsTransfer
  <2>2. Calm
    BY <2>1 DEF Calm
  <2>3. b \in ToSet(MWritePendingQueue) /\ b \in Out /\ buf[b].CallingIrp = w
    <3>1. PendingBuffers(w) \in Seq(Buffers)
      BY <1>1, PendingBuffersAre
    <3>2. b \in ToSet(PendingBuffers(w))
      BY <2>1, <3>1, Members
    <3> QED BY <1>1, <3>2, PendingBuffersAre
  <2>4. "CANCEL_CURRENT" \in ThreadEvents /\ "CANCEL_CURRENT" \notin Buffers
    BY WriteBuffersAssumption DEF WritePoints, WriteEvents, ThreadEvents
  <2>5. /\ b \in Out' /\ buf'[b].CallingIrp \in Writes
        /\ irp'[buf'[b].CallingIrp].cancelled
        /\ irp'[buf'[b].CallingIrp].routine # "running"
    BY <1>2, <1>3, <2>1, <2>3
  <2>6. \E x \in ToSet(MWritePendingQueue) :
                    /\ MWriteCancellingQueue' = Append(MWriteCancellingQueue, x)
                    /\ x \in Out' /\ buf'[x].CallingIrp \in Writes
                    /\ irp'[buf'[x].CallingIrp].cancelled
                    /\ irp'[buf'[x].CallingIrp].routine # "running"
    BY <2>1, <2>3, <2>5
  <2> HIDE DEF b
  <2> QED BY <1>2, <1>3, <2>1, <2>2, <2>4, <2>6, SignalWaits
<1> QED BY <1>2, <1>5, <1>6

\* A purge of the queue calls no cancel routine.
LEMMA PurgedCalm ==
    ASSUME TypeInv, PurgeQueue
    PROVE  Calm
<1>1. \A w \in Writes :
         irp'[w] = irp[w] \/ irp'[w] = AnsweredIrp(irp[w], "CANCELLED", 0)
  BY PurgeQueueIs
<1>2. \A w \in Writes : irp[w] \in WriteIrp
  BY TypeParts
<1>3. "CANCELLED" \in TransferStatus /\ 0 \in Nat
  BY DEF TransferStatus
<1>4. ASSUME NEW w \in Writes
      PROVE  /\ irp[w].cancelled => irp'[w].cancelled
             /\ irp'[w].routine = "running" /\ irp[w].cancelled =>
                   irp[w].routine = "running"
  <2>1. CASE irp'[w] = irp[w]
    BY <2>1
  <2>2. CASE irp'[w] = AnsweredIrp(irp[w], "CANCELLED", 0)
    <3>1. irp'[w].routine = "none" /\ irp'[w].cancelled = irp[w].cancelled
      BY <1>2, <1>3, <2>2, AnsweredType
    <3> QED BY <3>1
  <2> QED BY <1>1, <2>1, <2>2
<1> QED BY <1>4 DEF Calm

\* Nor does the handling of a completion.
LEMMA AnsweredCalm ==
    ASSUME TypeInv, NEW b \in Buffers, NEW status \in TransferStatus,
           irp' = AnswerTransfer(b, status) \/ irp' = Adjusted(b)
    PROVE  Calm
<1>1. ASSUME NEW w \in Writes
      PROVE  /\ irp[w].cancelled => irp'[w].cancelled
             /\ irp'[w].routine = "running" /\ irp[w].cancelled =>
                   irp[w].routine = "running"
  <2>1. CASE irp' = AnswerTransfer(b, status)
    <3>1. \/ irp'[w] = irp[w]
          \/ irp'[w].routine = "none" /\ irp'[w].cancelled = irp[w].cancelled
          \/ Unanswered(irp'[w], irp[w])
      <4>1. /\ w # buf[b].CallingIrp => irp'[w] = irp[w]
            /\ w = buf[b].CallingIrp /\ irp[w].routine = "set" =>
                  irp'[w].routine = "none" /\ irp'[w].cancelled = irp[w].cancelled
            /\ w = buf[b].CallingIrp /\ irp[w].routine # "set" =>
                  Unanswered(irp'[w], irp[w])
        BY <2>1, AnswerTransferIs
      <4> QED BY <4>1
    <3> QED BY <3>1 DEF Unanswered
  <2>2. CASE irp' = Adjusted(b)
    <3>1. \/ irp'[w] = irp[w]
          \/ irp'[w] = [irp[w] EXCEPT !.Information = buf[b].Transferred]
      BY <2>2, AdjustedIs
    <3>2. irp[w] \in WriteIrp
      BY TypeParts
    <3>3. irp'[w].cancelled = irp[w].cancelled /\ irp'[w].routine = irp[w].routine
      BY <3>1, <3>2 DEF WriteIrp
    <3> QED BY <3>3
  <2> QED BY <2>1, <2>2
<1> QED BY <1>1 DEF Calm

\* The thread moves on, and takes nothing off the completion queue but the
\* buffer whose event it has cleared.
LEMMA MovingWaits ==
    ASSUME CoreInv, ListInv, WaitInv, TypeInv', Calm, MovesOn,
           \/ UNCHANGED MWriteCancellingQueue
           \/ /\ wt'.pc = "cancelling" /\ MWriteCancellingQueue # <<>>
              /\ MWriteCancellingQueue' = Tail(MWriteCancellingQueue),
           \A b \in ToSet(MWriteCancellingQueue') :
              b \in Out => b \in Out' /\ buf'[b].CallingIrp = buf[b].CallingIrp,
           \A b \in Buffers :
              b \in wt'.set /\ b \in ToSet(MWriteCompletionQueue) =>
                 b \in ToSet(MWriteCompletionQueue')
    PROVE  ListInv' /\ WaitInv'
<1>1. TypeInv
  BY DEF CoreInv, PipeInv
<1>2. MWriteCancellingQueue \in Seq(Buffers) /\ MWriteCancellingQueue' \in Seq(Buffers)
  BY <1>1 DEF TypeInv, TypeOK
<1>3. wt'.pc \notin Buffers /\ wt'.pc # "blocked"
  BY WriteBuffersAssumption DEF MovesOn
<1>4. ToSet(MWriteCancellingQueue') \subseteq ToSet(MWriteCancellingQueue)
  BY <1>2, HeadAndTail
<1>5. \A b \in ToSet(MWriteCancellingQueue') :
           /\ b \in Out' /\ buf'[b].CallingIrp \in Writes
           /\ irp'[buf'[b].CallingIrp].cancelled
           /\ irp'[buf'[b].CallingIrp].routine # "running"
  <2> SUFFICES ASSUME NEW b \in ToSet(MWriteCancellingQueue')
               PROVE  /\ b \in Out' /\ buf'[b].CallingIrp \in Writes
                      /\ irp'[buf'[b].CallingIrp].cancelled
                      /\ irp'[buf'[b].CallingIrp].routine # "running"
    OBVIOUS
  <2>1. b \in ToSet(MWriteCancellingQueue)
    BY <1>4
  <2>2. b \in Out' /\ buf'[b].CallingIrp = buf[b].CallingIrp
    BY <2>1 DEF ListInv
  <2> QED BY <1>1, <2>1, <2>2, ListedKept
<1>6. MWriteCancellingQueue' # <<>> =>
         "CANCEL_CURRENT" \in wt'.set \/ wt'.pc = "cancelling"
  BY DEF ListInv, MovesOn
<1>7. \A b \in Buffers : b \in wt'.set => b \in ToSet(MWriteCompletionQueue')
  <2> SUFFICES ASSUME NEW b \in Buffers, b \in wt'.set
               PROVE  b \in ToSet(MWriteCompletionQueue')
    OBVIOUS
  <2>1. b \in wt.set
    BY WriteBuffersAssumption DEF MovesOn, WritePoints, WriteEvents
  <2> QED BY <2>1 DEF WaitInv
<1> QED BY <1>3, <1>5, <1>6, <1>7 DEF ListInv, WaitInv

\* The thread's steps, one by one.
LEMMA ThreadWaits ==
    ASSUME CoreInv, ListInv, WaitInv, ThreadNext, ~Check
    PROVE  ListInv' /\ WaitInv'
<1>1. TypeInv /\ BufferInv /\ RecordInv /\ MovesOn
  BY ThreadMovesOn DEF CoreInv, PipeInv
<1>2. CASE \/ Top \/ SendNothing \/ Kick \/ CancelCurrent \/ CancelNext
           \/ CancelDone \/ CancelThread \/ Purge \/ Stop \/ Resume \/ FlowOn
           \/ FlowOff \/ FlowOffAbort \/ CompleteNothing
  <2>1. TypeInv' /\ Still
    BY <1>2, ThreadCore
  <2>2. /\ Out' = Out /\ UNCHANGED MWriteCompletionQueue
        /\ \A b \in Out : buf'[b].CallingIrp = buf[b].CallingIrp
    BY <1>1, <2>1, OutStays DEF Still
  <2>3. irp' = irp
    <3>1. CASE \/ Top \/ SendNothing \/ Kick \/ CancelCurrent
               \/ CancelDone \/ Resume \/ FlowOn \/ CompleteNothing
      BY <1>1, <3>1, ThreadAloneType DEF ThreadOnly
    <3>2. CASE CancelThread \/ Purge \/ Stop
      BY <1>1, <3>2, Requests, RequestStill
    <3>3. CASE FlowOff \/ FlowOffAbort \/ CancelNext
      BY <1>1, <3>3, FlowOffStill, FlowOffAbortStill, CancelNextStill
    <3> QED BY <1>2, <3>1, <3>2, <3>3
  <2>4. \/ UNCHANGED MWriteCancellingQueue
        \/ /\ wt'.pc = "cancelling" /\ MWriteCancellingQueue # <<>>
           /\ MWriteCancellingQueue' = Tail(MWriteCancellingQueue)
    <3>1. CASE \/ Top \/ SendNothing \/ Kick \/ CancelCurrent
               \/ CancelDone \/ Resume \/ FlowOn \/ CompleteNothing
      BY <1>1, <3>1, ThreadAloneType DEF ThreadOnly
    <3>2. CASE CancelThread \/ Purge \/ Stop
      BY <1>1, <3>2, Requests, RequestStill
    <3>3. CASE FlowOff \/ FlowOffAbort
      BY <1>1, <3>3, FlowOffStill, FlowOffAbortStill
    <3>4. CASE CancelNext
      BY <3>4 DEF CancelNext
    <3> QED BY <1>2, <3>1, <3>2, <3>3, <3>4
  <2>5. Calm
    BY <2>3 DEF Calm
  <2> QED BY <1>1, <2>1, <2>2, <2>4, <2>5, MovingWaits
<1>3. CASE TopPurge \/ SendCancelled
  <2>1. TypeInv'
    BY <1>3, TopPurgeCore
  <2>2. UNCHANGED <<buf, MWritePendingQueue, MWriteCompletionQueue, MWriteCancellingQueue>>
    BY <1>3 DEF TopPurge, SendCancelled, QueuesAlone, bufferQueues
  <2>3. Calm
    <3>1. PurgeQueue \/ irp' = irp
      BY <1>3 DEF TopPurge, SendCancelled
    <3>2. CASE irp' = irp
      BY <3>2 DEF Calm
    <3> QED BY <1>1, <3>1, <3>2, PurgedCalm
  <2>4. Out' = Out
    BY <2>2 DEF Out
  <2> QED BY <1>1, <2>1, <2>2, <2>3, <2>4, MovingWaits
<1>4. CASE SendTake
  <2>1. TypeInv' /\ Out' = Out
    BY <1>4, SendTakeCore
  <2>2. UNCHANGED <<irp, buf, MWriteCompletionQueue, MWriteCancellingQueue>>
    BY <1>4 DEF SendTake
  <2>3. Calm
    BY <2>2 DEF Calm
  <2> QED BY <1>1, <2>1, <2>2, <2>3, MovingWaits
<1>5. CASE SendSubmit
  <2>1. TypeInv'
    BY <1>5, SendSubmitCore
  <2>2. /\ UNCHANGED <<irp, MWritePendingQueue, MWriteCompletionQueue, MWriteCancellingQueue>>
        /\ \E r : buf' = [buf EXCEPT ![Last(MWritePendingQueue)] = r]
    BY <1>5 DEF SendSubmit, bufferQueues
  <2>3. Calm
    BY <2>2 DEF Calm
  <2>4. buf \in [Buffers -> TransferBuffer] /\ Out \subseteq Buffers
    BY <1>1, TypeParts, Members DEF Out
  <2>5. ASSUME NEW b \in Out
        PROVE  b \in Out' /\ buf'[b] = buf[b]
    <3>1. b # Last(MWritePendingQueue)
      BY <1>1, <1>5 DEF BufferInv, SendSubmit, Sending, Out, IdleBuffer
    <3>2. buf'[b] = buf[b]
      BY <2>2, <2>4, <3>1
    <3> QED BY <2>2, <3>2 DEF Out
  <2> QED BY <1>1, <2>1, <2>2, <2>3, <2>5, MovingWaits
<1>6. CASE CompleteFlowOff \/ CompleteWrite
  <2>1. TypeInv' /\ Frees
    BY <1>6, CompleteFlowOffCore, CompleteWriteCore
  <2>2. wt'.set \subseteq (wt.set \ {Done}) \cup {"STOP"} /\ Handles
    BY <1>1, <1>6, CompleteFlowOffType, CompleteWriteType DEF CompleteFlowOff, CompleteWrite, Handles
  <2>3. Done \in Buffers /\ DoneStatus \in TransferStatus
    BY <1>1, <2>2, DoneIs
  <2>4. /\ MWriteCompletionQueue' = Tail(MWriteCompletionQueue)
        /\ UNCHANGED MWriteCancellingQueue
    BY <1>1, <2>1, <2>2, ReleaseIs DEF Frees
  <2>5. Calm
    <3>1. \/ irp' = AnswerTransfer(Done, DoneStatus) \/ irp' = Adjusted(Done)
      <4>1. CASE CompleteWrite
        BY <4>1 DEF CompleteWrite, Done, DoneStatus
      <4>2. CASE CompleteFlowOff
        BY <4>2 DEF CompleteFlowOff, Done, DoneStatus
      <4> QED BY <1>6, <4>1, <4>2
    <3> QED BY <1>1, <2>3, <3>1, AnsweredCalm
  <2>6. Done \notin ToSet(MWriteCancellingQueue)
    BY <2>2 DEF WaitInv, Handles, Done
  <2>7. /\ Out' = Out \ {Done}
        /\ \A b \in Out' : buf'[b].CallingIrp = buf[b].CallingIrp
    BY <2>1, FreesIs
  <2>8. ToSet(MWriteCompletionQueue) = {Done} \cup ToSet(Tail(MWriteCompletionQueue))
    BY <1>1, <2>2, TypeParts, HeadAndTail DEF Done, Handles
  <2>9. Done # "STOP"
    BY <2>3, WriteBuffersAssumption DEF WritePoints, WriteEvents
  <2> QED BY <1>1, <2>1, <2>2, <2>4, <2>5, <2>6, <2>7, <2>8, <2>9, MovingWaits
<1> QED BY <1>2, <1>3, <1>4, <1>5, <1>6 DEF ThreadNext

\* A wait returns the event of lowest index: no completion while a cancel
\* routine has a buffer listed.
LEMMA CheckWaits ==
    ASSUME CoreInv, ListInv, WaitInv, Check
    PROVE  ListInv' /\ WaitInv'
<1>1. TypeInv /\ BufferInv
  BY DEF CoreInv, PipeInv
<1>2. /\ TypeInv' /\ Still
  BY ThreadCore
<1>3. /\ UNCHANGED <<irp, buf, MWritePendingQueue, MWriteCompletionQueue,
                     MWriteCancellingQueue>>
      /\ wt.pc = "check"
  BY DEF Check, ThreadOnly, QueuesAlone, bufferQueues
<1>4. wt \in WriteThread /\ MWriteCompletionQueue \in Seq(Buffers)
      /\ MWriteCancellingQueue \in Seq(Buffers)
  BY <1>1, TypeParts
<1>5. Out' = Out /\ Calm
  BY <1>3 DEF Out, Calm
<1>6. /\ wt'.set = wt.set
      /\ \/ wt'.pc = "terminated"
         \/ wt'.pc = "blocked" /\ wt.set = {}
         \/ /\ wt'.pc \in wt.set
            /\ \A e \in wt.set : WriteIndex[wt'.pc] <= WriteIndex[e]
  <2>1. CASE wt' = Goto(wt, "terminated")
    BY <1>4, <2>1 DEF Goto, WriteThread
  <2>2. CASE wt' = WaitAny(wt, WriteIndex)
    <3>1. wt' = [wt EXCEPT !.pc = wt'.pc]
      BY <1>4, <2>2, WaitThread
    <3>2. wt'.set = wt.set
      BY <1>4, <3>1 DEF WriteThread
    <3> QED BY <1>4, <2>2, <3>2, WaitThread
  <2> QED BY <2>1, <2>2 DEF Check
<1>7. \A b \in ToSet(MWriteCancellingQueue) :
           /\ b \in Out' /\ buf'[b].CallingIrp \in Writes
           /\ irp'[buf'[b].CallingIrp].cancelled
           /\ irp'[buf'[b].CallingIrp].routine # "running"
  BY <1>3, <1>5 DEF ListInv
<1>8. /\ "terminated" \notin Buffers /\ "blocked" \notin Buffers
      /\ "CANCEL_CURRENT" \in WriteEvents /\ "cancelling" # "check"
      /\ "terminated" # "blocked"
  BY WriteBuffersAssumption DEF WritePoints, WriteEvents
<1>9. MWriteCancellingQueue # <<>> => "CANCEL_CURRENT" \in wt.set
  BY <1>3, <1>8 DEF ListInv
<1>10. wt'.pc \in Buffers =>
          /\ MWriteCompletionQueue # <<>> /\ MWriteCancellingQueue = <<>>
  <2> SUFFICES ASSUME wt'.pc \in Buffers
               PROVE  MWriteCompletionQueue # <<>> /\ MWriteCancellingQueue = <<>>
    OBVIOUS
  <2>1. /\ wt'.pc \in wt.set
        /\ \A e \in wt.set : WriteIndex[wt'.pc] <= WriteIndex[e]
    BY <1>6, <1>8
  <2>2. wt'.pc \in ToSet(MWriteCompletionQueue)
    BY <2>1 DEF WaitInv
  <2>3. "CANCEL_CURRENT" \notin wt.set
    <3>1. WriteIndex["CANCEL_CURRENT"] = 2
      BY <1>8, Indices DEF RequestIndex
    <3>2. WriteIndex[wt'.pc] \in Nat /\ WriteIndex[wt'.pc] >= 10
      BY Indices
    <3> QED BY <2>1, <3>1, <3>2
  <2> QED BY <1>4, <1>9, <2>2, <2>3, Members
<1>11. ToSet(<<>>) = {}
  BY ElementsOfNone
<1>12. wt'.pc = "blocked" => wt.set = {}
  <2>1. ASSUME wt'.pc \in wt.set PROVE wt'.pc # "blocked"
    <3>1. wt.set \subseteq WriteEvents \cup Buffers
      BY <1>4 DEF WriteThread
    <3> QED BY <1>8, <2>1, <3>1 DEF WriteEvents
  <2> QED BY <1>6, <1>8, <2>1
<1>13. ListInv'
  BY <1>3, <1>6, <1>7, <1>9 DEF ListInv
<1>14. WaitInv'
  BY <1>3, <1>6, <1>10, <1>11, <1>12 DEF WaitInv
<1> QED BY <1>13, <1>14

\* A thread that goes, or comes.
LEMMA ComingWaits ==
    ASSUME CoreInv, ListInv, WaitInv,
           CreateThread \/ CancelWriteThreadDone \/ CancelWriteThreadPurge
    PROVE  ListInv' /\ WaitInv'
<1>1. TypeInv /\ BufferInv
  BY DEF CoreInv, PipeInv
<1>2. CASE CreateThread
  <2>1. /\ UNCHANGED <<MWriteCancellingQueue, MWriteCompletionQueue>>
        /\ wt'.pc = "top" /\ wt'.set \subseteq wt.set
    BY <1>1, <1>2, CreateThreadStill DEF Still
  <2>2. Gone
    BY <1>2 DEF CreateThread, Gone
  <2> QED BY <2>1, <2>2, NoneListed
<1>3. CASE CancelWriteThreadDone
  <2>1. /\ UNCHANGED <<MWriteCancellingQueue, MWriteCompletionQueue>>
        /\ wt'.pc = "none" /\ wt'.set \subseteq wt.set
    BY <1>1, <1>3, CancelWriteThreadDoneStill DEF Still
  <2>2. Gone
    BY <1>3 DEF CancelWriteThreadDone, Gone
  <2> QED BY <2>1, <2>2, NoneListed
<1>4. CASE CancelWriteThreadPurge
  <2>1. TypeInv'
    BY <1>4, TopPurgeCore
  <2>2. UNCHANGED <<buf, MWritePendingQueue, MWriteCompletionQueue,
                    MWriteCancellingQueue, wt>>
    BY <1>4 DEF CancelWriteThreadPurge, NotSent, OtherStep, bufferQueues
  <2>3. Calm
    BY <1>1, <1>4, PurgedCalm DEF CancelWriteThreadPurge
  <2>4. Out' = Out
    BY <2>2 DEF Out
  <2> QED BY <2>1, <2>2, <2>3, <2>4, WaitGoesOn
<1> QED BY <1>2, <1>3, <1>4

\* Faults are added, never taken back.
LEMMA FaultsGrow ==
    ASSUME CoreInv, [Next]_vars
    PROVE  faults \subseteq faults'
<1>1. TypeInv /\ BufferInv /\ RecordInv /\ IrpInv
  BY DEF CoreInv, PipeInv
<1>2. CASE UNCHANGED vars
  BY <1>2 DEF vars
<1>3. CASE ThreadNext
  <2>1. CASE \/ Top \/ SendNothing \/ Check \/ Kick \/ CancelCurrent \/ CancelNext
             \/ CancelDone \/ CancelThread \/ Purge \/ Stop \/ Resume \/ FlowOn
             \/ FlowOff \/ FlowOffAbort \/ CompleteNothing
    BY <2>1, ThreadCore DEF Still
  <2>2. CASE TopPurge \/ SendCancelled
    <3>1. PurgeQueue \/ faults' = faults
      BY <2>2 DEF TopPurge, SendCancelled
    <3> QED BY <3>1 DEF PurgeQueue
  <2>3. CASE SendTake \/ SendSubmit
    BY <2>3 DEF SendTake, SendSubmit
  <2>4. CASE CompleteFlowOff
    BY <2>4 DEF CompleteFlowOff
  <2>5. CASE CompleteWrite
    BY <2>5 DEF CompleteWrite
  <2> QED BY <1>3, <2>1, <2>2, <2>3, <2>4, <2>5 DEF ThreadNext
<1>4. CASE WriteCompletionRoutine \/ Enqueue \/ CancelWriteThreadPurge
  <2>1. faults' = faults \/ PurgeQueue
    BY <1>4 DEF WriteCompletionRoutine, BusStep, Enqueue, CancelWriteThreadPurge
  <2> QED BY <2>1 DEF PurgeQueue
<1>5. CASE \E w \in Writes : CancelWriteRoutine(w)
  BY <1>1, <1>5, CancelWriteRoutineType
<1>6. CASE \/ BusData \/ BusError \/ BusCancelled \/ WriteCompletionSignal
           \/ CreateThread \/ IntNext \/ RequestStop \/ RequestResume
           \/ PurgeAbort \/ PurgeSignal \/ CancelWriteThread
           \/ CancelWriteThreadDone \/ EnterEnqueue
           \/ \E w \in Writes : CancelIrp(w)
  BY <1>6, OthersCore DEF Still
<1> QED BY <1>2, <1>3, <1>4, <1>5, <1>6 DEF Next, BusNext, ClientNext, CallerNext

LEMMA StepCancel ==
    ASSUME CoreInv, CancelInv, [Next]_vars
    PROVE  CancelInv'
<1>1. faults \subseteq faults' /\ CoreInv'
  BY FaultsGrow, StepCore
<1>2. SUFFICES ASSUME "stale" \notin faults'
               PROVE  ListInv' /\ WaitInv'
  BY DEF CancelInv
<1>3. ListInv /\ WaitInv
  BY <1>1, <1>2 DEF CancelInv
<1>4. CASE UNCHANGED vars
  <2>1. UNCHANGED <<irp, buf, bufferQueues, MWriteCancellingQueue, wt>>
    BY <1>4 DEF vars
  <2>2. UNCHANGED <<MWritePendingQueue, MWriteCompletionQueue>>
    BY <2>1 DEF bufferQueues
  <2>3. Out' = Out /\ Calm
    BY <2>1, <2>2 DEF Out, Calm
  <2>4. TypeInv'
    BY <1>1 DEF CoreInv, PipeInv
  <2> QED BY <1>3, <2>1, <2>2, <2>3, <2>4, WaitGoesOn
<1>5. CASE Next
  <2>1. CASE ThreadNext
    BY <1>3, <2>1, ThreadWaits, CheckWaits
  <2>2. CASE BusNext
    BY <1>2, <1>3, <2>2, WatchingWaits, ReturnWaits, AskingWaits DEF BusNext
  <2>3. CASE ClientNext
    BY <1>3, <2>3, AskingWaits, ComingWaits, WatchingWaits, RoutineWaits DEF ClientNext
  <2>4. CASE IntNext
    BY <1>3, <2>4, WatchingWaits, AskingWaits DEF IntNext
  <2>5. CASE CallerNext
    BY <1>3, <2>5, WatchingWaits, AskingWaits, ComingWaits DEF CallerNext
  <2> QED BY <1>5, <2>1, <2>2, <2>3, <2>4, <2>5 DEF Next
<1> QED BY <1>4, <1>5

-----------------------------------------------------------------------------
(***************************************************************************)
(* What leads to undefined behaviour.                                      *)
(***************************************************************************)
Known == {"adopted", "overwritten", "stale"}

\* A write that the thread has is not completed, unless a cancel routine
\* completed it in the thread's hands.
LEMMA HeldIsActive ==
    ASSUME IrpInv, NEW w \in Writes, Has(w), faults \cap Known = {}
    PROVE  ~Completed(w) /\ ~Relinked(w)
BY DEF IrpInv, Completed, Relinked, Known

LEMMA PurgeIsDefined ==
    ASSUME CoreInv, faults \cap Known = {}, Defined, PurgeQueue
    PROVE  Defined'
<1>1. TypeInv /\ IrpInv
  BY DEF CoreInv, PipeInv
<1>2. SUFFICES ASSUME "broken" \in faults' PROVE FALSE
  BY DEF Defined
<1>3. PICK w \in ToSet(WriteDataQueue) : irp[w].where = "done"
  BY <1>1, <1>2, PurgeQueueIs DEF Defined
<1>4. w \in Writes
  BY <1>1, TypeParts, Members
<1> QED BY <1>1, <1>3, <1>4, HeldIsActive, WritesAre DEF Has, Completed

LEMMA SubmitIsDefined ==
    ASSUME CoreInv, faults \cap Known = {}, SendSubmit
    PROVE  Defined'
<1>1. TypeInv /\ IrpInv
  BY DEF CoreInv, PipeInv
<1>2. /\ faults' = faults \cup FaultIf(Completed(wt.pWriteCurrent), "broken")
      /\ wt.pc = "sending" /\ Defined
  BY DEF SendSubmit, ThreadStep
<1>3. wt \in WriteThread
  BY <1>1, TypeParts
<1>4. wt.pWriteCurrent \in Sent
  BY <1>3 DEF WriteThread
<1>5. ~Completed(wt.pWriteCurrent)
  <2>1. CASE wt.pWriteCurrent = 0
    BY <2>1 DEF Completed
  <2>2. CASE wt.pWriteCurrent \in Writes
    BY <1>1, <1>2, <2>2, HeldIsActive DEF Has, InHand, Sending
  <2> QED BY <1>4, <2>1, <2>2 DEF Sent
<1> QED BY <1>2, <1>5, FaultIfIs DEF Defined

\* The write of the transfer that is handled has its record, and so has each one
\* that goes back to the queue.
LEMMA HandlingIsDefined ==
    ASSUME CoreInv, faults \cap Known = {}, Handles
    PROVE  /\ ~Completed(buf[Done].CallingIrp)
           /\ \A x \in Range(WritesOf(KeptRecords)) : ~Relinked(x)
<1>1. TypeInv /\ BufferInv /\ RecordInv /\ IrpInv
  BY DEF CoreInv, PipeInv
<1>2. PICK k \in DOMAIN Records : RecordOf(k, Done)
  BY <1>1, DoneIs
<1>3. Done \in Buffers /\ buf[Done].CallingIrp \in Sent
  BY <1>1, DoneIs
<1>4. ~Completed(buf[Done].CallingIrp)
  <2>1. CASE buf[Done].CallingIrp = 0
    BY <2>1 DEF Completed
  <2>2. CASE buf[Done].CallingIrp \in Writes
    <3>1. Recorded(buf[Done].CallingIrp)
      BY <1>2 DEF RecordOf, Recorded
    <3> QED BY <1>1, <2>2, <3>1, HeldIsActive DEF Has
  <2> QED BY <1>3, <2>1, <2>2 DEF Sent
<1>5. KeptRecords \in Seq(SentIrp) /\ WritesOf(KeptRecords) \in Seq(Writes)
  BY <1>1, KeptIs
<1>6. \A x : RecordedIn(KeptRecords, x) => Recorded(x)
  <2>1. \E g : Passed(KeptRecords, g, k)
    BY <1>1, <1>2, <1>3, PassedWithout, PassedMarked DEF KeptRecords
  <2> QED BY <2>1 DEF Passed, RecordedIn, Recorded
<1>7. ASSUME NEW x \in Range(WritesOf(KeptRecords))
      PROVE  ~Relinked(x)
  <2>1. x \in ToSet(WritesOf(KeptRecords))
    BY <1>5, Members
  <2>2. x \in Writes /\ RecordedIn(KeptRecords, x)
    BY <1>5, <2>1, WritesOfIs DEF RecordedIn
  <2> QED BY <1>1, <1>6, <2>2, HeldIsActive DEF Has
<1> QED BY <1>4, <1>7

LEMMA CompletionIsDefined ==
    ASSUME CoreInv, faults \cap Known = {}, CompleteFlowOff \/ CompleteWrite
    PROVE  Defined'
<1>1. Handles /\ Defined
  BY DEF CompleteFlowOff, CompleteWrite, Handles, Release, ThreadStep
<1>2. CASE CompleteWrite
  <2>1. faults' = faults
           \cup FaultIf(Rewound(Done), "rewound")
           \cup FaultIf(ClearsAnother(Done), "cleared")
           \cup FaultIf(Completed(buf[Done].CallingIrp), "broken")
    BY <1>2 DEF CompleteWrite, Done
  <2>2. ~Completed(buf[Done].CallingIrp)
    BY <1>1, HandlingIsDefined
  <2> QED BY <1>1, <2>1, <2>2, FaultIfIs DEF Defined
<1>3. CASE CompleteFlowOff
  <2>1. faults' = faults
           \cup FaultIf(Rewound(Done), "rewound")
           \cup FaultIf(DoneStatus # "SUCCESS" /\ buf[Done].Cancel, "singled")
           \cup FaultIf(\/ Completed(buf[Done].CallingIrp)
                        \/ Resend /\ \E x \in Range(WritesOf(KeptRecords)) : Relinked(x),
                        "broken")
    BY <1>3 DEF CompleteFlowOff, Done, DoneStatus, KeptRecords, Resend
  <2>2. ~(\/ Completed(buf[Done].CallingIrp)
          \/ Resend /\ \E x \in Range(WritesOf(KeptRecords)) : Relinked(x))
    BY <1>1, HandlingIsDefined
  <2> QED BY <1>1, <2>1, <2>2, FaultIfIs, ZenonT(60) DEF Defined
<1> QED BY <1>2, <1>3

\* A cancel routine that runs does so for the first time: it finds the buffer
\* not listed, and the write active.
LEMMA RoutineIsDefined ==
    ASSUME CoreInv, CancelInv, faults \cap Known = {}, NEW w \in Writes,
           CancelWriteRoutine(w)
    PROVE  Defined'
<1>1. TypeInv /\ BufferInv /\ RecordInv /\ IrpInv
  BY DEF CoreInv, PipeInv
<1>2. ListInv
  BY DEF CancelInv, Known
<1>3. Defined /\ irp[w].routine = "running"
  BY DEF CancelWriteRoutine, ClientStep
<1>4. CASE CancelsTransfer(w)
  <2> DEFINE b == Head(PendingBuffers(w))
  <2>1. /\ faults' = faults \cup FaultIf(Contains(MWriteCancellingQueue, b), "broken")
        /\ PendingBuffers(w) # <<>>
    BY <1>4 DEF CancelsTransfer
  <2>2. buf[b].CallingIrp = w
    <3>1. PendingBuffers(w) \in Seq(Buffers)
      BY <1>1, PendingBuffersAre
    <3>2. b \in ToSet(PendingBuffers(w))
      BY <2>1, <3>1, Members
    <3> QED BY <1>1, <3>2, PendingBuffersAre
  <2>3. b \notin ToSet(MWriteCancellingQueue)
    BY <1>2, <1>3, <2>2 DEF ListInv
  <2>4. ~Contains(MWriteCancellingQueue, b)
    BY <1>1, <2>3, TypeParts, Members
  <2> HIDE DEF b
  <2> QED BY <1>3, <2>1, <2>4, FaultIfIs DEF Defined
<1>5. CASE CancelsWrite(w)
  <2>1. ~Relinked(w)
    BY <1>1, <1>3 DEF IrpInv, Relinked
  <2>2. faults' \subseteq faults \cup FaultIf(HeldByThread(w), "adopted")
                                 \cup FaultIf(Relinked(w), "broken")
    BY <1>5 DEF CancelsWrite
  <2> QED BY <1>3, <2>1, <2>2, FaultIfIs DEF Defined
<1> QED BY <1>1, <1>4, <1>5, CancelWriteRoutineType

\* A new thread finds no record: one that has been given back is kept for others
\* that are out.
LEMMA CreationIsDefined ==
    ASSUME CoreInv, faults \cap Known = {}, CreateThread
    PROVE  Defined'
<1>1. TypeInv /\ RecordInv /\ GoneInv
  BY DEF CoreInv, PipeInv
<1>2. Defined /\ Gone
  BY DEF CreateThread, OtherStep, Gone
<1>3. Out = {}
  BY <1>1, <1>2 DEF GoneInv, NothingActive, Out, ToSet
<1>4. Records \in Seq(SentIrp)
  BY <1>1, TypeParts
<1>5. MWTSentIrpQueue = <<>>
  <2>1. SUFFICES ASSUME MWTSentIrpQueue # <<>> PROVE FALSE
    OBVIOUS
  <2>2. ~Unreturned
    BY <1>1, <1>3 DEF RecordInv, Unreturned
  <2>3. Kept
    <3>1. 1 \in DOMAIN Records
      BY <1>4, <2>1 DEF Records
    <3> QED BY <2>2, <3>1 DEF Kept, Unreturned
  <2> QED BY <1>1, <2>2, <2>3 DEF RecordInv, Known
<1>6. faults' = faults
                \cup FaultIf(int.flow # "on", "forgotten")
                \cup FaultIf("PURGE" \in wt.set, "unpurged")
                \cup FaultIf(MWTSentIrpQueue # <<>>, "broken")
  BY <1>1, CreateThreadStill
<1>7. /\ "broken" \notin FaultIf(int.flow # "on", "forgotten")
      /\ "broken" \notin FaultIf("PURGE" \in wt.set, "unpurged")
      /\ "broken" \notin FaultIf(MWTSentIrpQueue # <<>>, "broken")
  BY <1>5 DEF FaultIf
<1> QED BY <1>2, <1>6, <1>7 DEF Defined

LEMMA StepIsKnown ==
    ASSUME CoreInv, CancelInv, Defined, faults' \cap Known = {}, [Next]_vars
    PROVE  Defined'
<1>1. TypeInv /\ IrpInv
  BY DEF CoreInv, PipeInv
<1>2. faults \cap Known = {}
  BY FaultsGrow
<1>3. CASE UNCHANGED vars
  BY <1>3 DEF vars, Defined
<1>4. CASE ThreadNext
  <2>1. CASE \/ Top \/ SendNothing \/ Check \/ Kick \/ CancelCurrent
             \/ CancelDone \/ Resume \/ FlowOn \/ CompleteNothing
    BY <1>1, <2>1, ThreadAloneType DEF ThreadOnly, Defined
  <2>2. CASE CancelNext \/ FlowOffAbort \/ SendTake
    BY <2>2 DEF CancelNext, FlowOffAbort, SendTake, Defined
  <2>3. CASE CancelThread \/ Purge \/ Stop
    <3>1. faults' \subseteq faults \cup {"overwritten", "unpurged"}
      BY <1>1, <2>3, Requests, RequestStill
    <3> QED BY <3>1 DEF Defined
  <2>4. CASE FlowOff
    BY <1>1, <2>4, FlowOffStill DEF Defined
  <2>5. CASE TopPurge \/ SendCancelled
    <3>1. PurgeQueue \/ faults' = faults
      BY <2>5 DEF TopPurge, SendCancelled
    <3> QED BY <1>2, <3>1, PurgeIsDefined DEF Defined
  <2>6. CASE SendSubmit
    BY <1>2, <2>6, SubmitIsDefined
  <2>7. CASE CompleteFlowOff \/ CompleteWrite
    BY <1>2, <2>7, CompletionIsDefined
  <2> QED BY <1>4, <2>1, <2>2, <2>3, <2>4, <2>5, <2>6, <2>7 DEF ThreadNext
<1>5. CASE BusNext
  <2>1. CASE WriteCompletionSignal
    <3>1. faults' \subseteq faults \cup {"stale"}
      BY <2>1 DEF WriteCompletionSignal, FaultIf
    <3> QED BY <3>1 DEF Defined
  <2>2. CASE BusData \/ BusError \/ BusCancelled \/ WriteCompletionRoutine
    BY <2>2 DEF BusData, BusError, BusCancelled, WriteCompletionRoutine, BusStep, Defined
  <2> QED BY <1>5, <2>1, <2>2 DEF BusNext
<1>6. CASE ClientNext
  <2>1. CASE EnterEnqueue \/ Enqueue \/ \E w \in Writes : CancelIrp(w)
    BY <2>1 DEF EnterEnqueue, Enqueue, CancelIrp, Defined
  <2> QED BY <1>2, <1>6, <2>1, CreationIsDefined, RoutineIsDefined DEF ClientNext
<1>7. CASE IntNext
  <2>1. CASE EmptyWtCompletionQueue \/ FlowOffAcked \/ FlowOffTimeout
    BY <1>1, <2>1, WatchersStill DEF Defined
  <2>2. CASE NotifyFlowOff \/ NotifyFlowOn
    BY <1>1, <2>2, AskersStill DEF Defined
  <2> QED BY <1>7, <2>1, <2>2 DEF IntNext
<1>8. CASE CallerNext
  <2>1. CASE RequestStop \/ RequestResume \/ PurgeSignal \/ CancelWriteThread
    BY <1>1, <2>1, AskersStill DEF Defined
  <2>2. CASE PurgeAbort
    BY <1>1, <2>2, WatchersStill DEF Defined
  <2>3. CASE CancelWriteThreadDone
    BY <2>3 DEF CancelWriteThreadDone, Defined
  <2>4. CASE CancelWriteThreadPurge
    BY <1>2, <2>4, PurgeIsDefined DEF CancelWriteThreadPurge
  <2> QED BY <1>8, <2>1, <2>2, <2>3, <2>4 DEF CallerNext
<1> QED BY <1>3, <1>4, <1>5, <1>6, <1>7, <1>8 DEF Next

LEMMA InitCancel ==
    ASSUME Init
    PROVE  CancelInv /\ Defined
<1>1. PICK spent \in AnySpent : InitWith(spent)
  BY DEF Init
<1>2. /\ MWriteCancellingQueue = <<>> /\ wt = NewThread({}, FALSE) /\ faults = {}
  BY <1>1 DEF InitWith
<1>3. wt.pc = "top" /\ wt.set = {}
  BY <1>2 DEF NewThread
<1>4. "top" \notin Buffers
  BY WriteBuffersAssumption DEF WritePoints
<1>5. ToSet(MWriteCancellingQueue) = {}
  BY <1>2, ElementsOfNone
<1> QED BY <1>2, <1>3, <1>4, <1>5 DEF CancelInv, ListInv, WaitInv, Defined

\* What a cancel routine lists and what a wait returns, as long as no event has
\* been set after its completion was processed.
THEOREM CancelIsInvariant == Spec => [](CoreInv /\ CancelInv)
<1>1. Init => CoreInv /\ CancelInv
  BY InitCore, InitCancel
<1>2. CoreInv /\ CancelInv /\ [Next]_vars => CoreInv' /\ CancelInv'
  BY StepCore, StepCancel
<1> QED BY <1>1, <1>2, PTL DEF Spec

\* No completed write IRP is used and no list entry is inserted twice, unless
\* one of three things has gone before: a cancel routine completed a write
\* that the thread held, a request took the place of the one that was being
\* carried out, or a buffer's event was set after its completion had been
\* processed.
THEOREM BreaksAreKnown == Spec => []OnlyKnownBreaks
<1> DEFINE I == CoreInv /\ CancelInv /\ (Defined \/ faults \cap Known # {})
<1>1. Init => I
  BY InitCore, InitCancel
<1>2. I /\ [Next]_vars => I'
  <2> SUFFICES ASSUME I, [Next]_vars PROVE I'
    OBVIOUS
  <2>1. CoreInv' /\ CancelInv'
    BY StepCore, StepCancel
  <2>2. faults \subseteq faults'
    BY FaultsGrow
  <2>3. (Defined \/ faults \cap Known # {})'
    <3>1. CASE faults' \cap Known # {}
      BY <3>1
    <3>2. CASE faults' \cap Known = {}
      BY <2>2, <3>2, StepIsKnown
    <3> QED BY <3>1, <3>2
  <2> QED BY <2>1, <2>3
<1>3. I => OnlyKnownBreaks
  BY DEF OnlyKnownBreaks, Known
<1> HIDE DEF I
<1> QED BY <1>1, <1>2, <1>3, PTL DEF Spec

-----------------------------------------------------------------------------
(***************************************************************************)
(* What the canceller of the thread leaves.                                *)
(***************************************************************************)
\* When a thread is gone, and its canceller with it, what is queued came after the
\* canceller's purge and set the kick.
EndInv ==
    /\ wt.pc = "none" /\ canceller = "idle" =>
          /\ count.purged <= count.writes
          /\ \A w \in ToSet(WriteDataQueue) : w > count.purged
          /\ WriteDataQueue # <<>> => "KICK" \in wt.set
    /\ canceller = "wait" => wt.pc # "none"

LEMMA ThreadStaysOn ==
    ASSUME CoreInv, ThreadNext
    PROVE  wt'.pc # "none" /\ wt.pc # "none"
<1>1. TypeInv
  BY DEF CoreInv, PipeInv
<1>2. CASE ~Check
  BY <1>2, ThreadMovesOn DEF MovesOn
<1>3. CASE Check
  <2>1. wt \in WriteThread
    BY <1>1, TypeParts
  <2>2. wt.pc = "check"
    BY <1>3 DEF Check
  <2>3. CASE wt' = Goto(wt, "terminated")
    BY <2>1, <2>2, <2>3 DEF Goto, WriteThread
  <2>4. CASE wt' = WaitAny(wt, WriteIndex)
    <3>1. wt'.pc = "blocked" \/ wt'.pc \in wt.set
      BY <2>1, <2>4, WaitThread
    <3>2. wt.set \subseteq WriteEvents \cup Buffers
      BY <2>1 DEF WriteThread
    <3>3. "none" \notin WriteEvents \cup Buffers
      BY WriteBuffersAssumption DEF WritePoints, WriteEvents
    <3> QED BY <2>2, <3>1, <3>2, <3>3
  <2> QED BY <1>3, <2>3, <2>4 DEF Check
<1> QED BY <1>2, <1>3

LEMMA EndCounts ==
    ASSUME count \in AnySpent,
           \/ count' = [count EXCEPT !.failures = @ + 1]
           \/ count' = [count EXCEPT !.flows = @ + 1]
           \/ count' = [count EXCEPT !.timeouts = @ + 1]
           \/ count' = [count EXCEPT !.stops = @ + 1]
           \/ count' = [count EXCEPT !.purges = @ + 1]
           \/ count' = count
    PROVE  count'.writes = count.writes /\ count'.purged = count.purged
BY DEF AnySpent

LEMMA StepEnd ==
    ASSUME CoreInv, EndInv, [Next]_vars
    PROVE  EndInv'
<1>1. TypeInv /\ BufferInv /\ RecordInv /\ IrpInv
  BY DEF CoreInv, PipeInv
<1>2. CASE UNCHANGED vars
  BY <1>2 DEF vars, callers, EndInv
<1>3. CASE ThreadNext
  BY <1>3, ThreadStaysOn DEF EndInv
<1>4. CASE BusNext \/ IntNext \/ PurgeAbort \/ RequestStop \/ RequestResume
           \/ PurgeSignal
  <2>1. UNCHANGED <<WriteDataQueue, canceller>>
        /\ count'.writes = count.writes /\ count'.purged = count.purged
    BY <1>1, <1>4, EndCounts, TypeParts DEF BusNext, BusData, BusError, BusCancelled, BusStep,
                WriteCompletionRoutine, WriteCompletionSignal, callers, IntNext,
                EmptyWtCompletionQueue, NotifyFlowOff, NotifyFlowOn, Request,
                FlowOffAcked, FlowOffTimeout, PurgeAbort, RequestStop,
                RequestResume, PurgeSignal
  <2>2. wt' = wt \/ \E e \in ThreadEvents : wt' = Signal(wt, e)
    <3>1. signalling \subseteq Buffers
      BY <1>1, TypeParts
    <3> QED BY <1>4, <3>1 DEF BusNext, BusData, BusError, BusCancelled, BusStep,
                WriteCompletionRoutine, WriteCompletionSignal, IntNext,
                EmptyWtCompletionQueue, NotifyFlowOff, NotifyFlowOn, Request,
                FlowOffAcked, FlowOffTimeout, PurgeAbort, RequestStop,
                RequestResume, PurgeSignal, ThreadEvents, WriteEvents
  <2>3. (wt'.pc = "none" <=> wt.pc = "none") /\ wt.set \subseteq wt'.set
    <3>1. "none" \notin ThreadEvents
      BY WriteBuffersAssumption DEF WritePoints, WriteEvents, ThreadEvents
    <3> QED BY <1>1, <2>2, <3>1, SignalIs
  <2> QED BY <2>1, <2>3 DEF EndInv
<1>5. CASE CancelWriteThread
  <2>1. wt.pc # "none" /\ (wt' = wt \/ \E e \in ThreadEvents : wt' = Signal(wt, e))
    BY <1>5 DEF CancelWriteThread, Request, ThreadEvents, WriteEvents
  <2>2. "none" \notin ThreadEvents
    BY WriteBuffersAssumption DEF WritePoints, WriteEvents, ThreadEvents
  <2>3. wt'.pc # "none"
    BY <1>1, <2>1, <2>2, SignalIs
  <2> QED BY <2>3 DEF EndInv
<1>6. CASE CreateThread
  BY <1>1, <1>6, CreateThreadStill DEF EndInv
<1>7. CASE CancelWriteThreadDone
  <2>1. canceller' = "purge"
    BY <1>7 DEF CancelWriteThreadDone
  <2> QED BY <2>1 DEF EndInv
<1>8. CASE CancelWriteThreadPurge
  <2>1. /\ canceller' = "idle" /\ WriteDataQueue' = <<>>
        /\ count' = [count EXCEPT !.purged = count.writes]
    BY <1>8 DEF CancelWriteThreadPurge, PurgeQueue
  <2>2. count'.purged = count.writes /\ count'.writes = count.writes /\ count.writes \in Nat
    BY <1>1, <2>1, TypeParts DEF AnySpent
  <2>3. ToSet(WriteDataQueue') = {}
    BY <2>1, ElementsOfNone
  <2> QED BY <2>1, <2>2, <2>3 DEF EndInv
<1>9. ASSUME NEW w \in Writes, CancelIrp(w)
      PROVE  EndInv'
  <2>1. count' = [count EXCEPT !.irpCancels = @ + 1]
        /\ UNCHANGED <<WriteDataQueue, wt, canceller>>
    BY <1>9 DEF CancelIrp
  <2>2. count'.writes = count.writes /\ count'.purged = count.purged
    BY <1>1, <2>1, TypeParts DEF AnySpent
  <2> QED BY <2>1, <2>2 DEF EndInv
<1>10. ASSUME NEW w \in Writes, CancelWriteRoutine(w)
       PROVE  EndInv'
  <2>1. canceller' = canceller /\ count' = count
    BY <1>1, <1>10, CancelWriteRoutineType DEF CancelWriteRoutine, callers
  <2>2. CASE CancelsWrite(w)
    <3>1. wt' = wt /\ WriteDataQueue \in Seq(Writes)
      BY <1>1, <2>2, TypeParts DEF CancelsWrite
    <3>2. /\ WriteDataQueue = <<>> => WriteDataQueue' = <<>>
          /\ ToSet(WriteDataQueue') \subseteq ToSet(WriteDataQueue)
      <4>1. ToSet(Keep(WriteDataQueue, Writes \ {w})) \subseteq ToSet(WriteDataQueue)
        BY <3>1, KeepElements
      <4> QED BY <2>2, <3>1, <4>1, Members DEF CancelsWrite
    <3> QED BY <2>1, <3>1, <3>2 DEF EndInv
  <2>3. CASE CancelsTransfer(w) /\ Still
    <3>1. WriteDataQueue' = WriteDataQueue /\ wt' = Signal(wt, "CANCEL_CURRENT")
      BY <2>3 DEF Still, CancelsTransfer
    <3>2. "CANCEL_CURRENT" \in ThreadEvents
      BY DEF ThreadEvents, WriteEvents
    <3>3. (wt'.pc = "none" <=> wt.pc = "none") /\ wt.set \subseteq wt'.set
      BY <1>1, <3>1, <3>2, SignalIs
    <3> QED BY <2>1, <3>1, <3>3 DEF EndInv
  <2> QED BY <1>1, <1>10, <2>2, <2>3, CancelWriteRoutineType
<1>11. CASE EnterEnqueue
  <2>1. /\ UNCHANGED <<WriteDataQueue, wt, canceller>> /\ count'.writes = count.writes
        /\ count'.purged = count.purged
    BY <1>1, <1>11, EnterEnqueueStill DEF Still
  <2> QED BY <2>1 DEF EndInv
<1>12. CASE Enqueue
  <2>1. PICK w \in Writes : w = count.writes + 1 /\ WriteDataQueue' = Append(WriteDataQueue, w)
    BY <1>1, <1>12, EnqueueType
  <2>2. /\ wt' = wt \/ wt' = Signal(wt, "KICK")
        /\ WriteDataQueue = <<>> => wt' = Signal(wt, "KICK")
        /\ count'.writes = count.writes + 1 /\ count'.purged = count.purged
        /\ canceller' = canceller
    BY <1>1, <1>12, EnqueueType
  <2>3. WriteDataQueue \in Seq(Writes) /\ count.writes \in Nat /\ count.purged \in Nat
    BY <1>1, TypeParts DEF AnySpent
  <2>4. ToSet(WriteDataQueue') = ToSet(WriteDataQueue) \cup {w}
    <3>1. /\ Append(WriteDataQueue, w) = WriteDataQueue \o <<w>>
          /\ ToSet(WriteDataQueue \o <<w>>) = ToSet(WriteDataQueue) \cup {w}
      BY <2>3, AppendIsConcatOfOne
    <3> QED BY <2>1, <3>1
  <2>5. /\ wt'.pc = "none" <=> wt.pc = "none"
        /\ wt.set \subseteq wt'.set
        /\ WriteDataQueue = <<>> => "KICK" \in wt'.set
    BY <1>1, <2>2, SignalIs DEF ThreadEvents, WriteEvents
  <2> QED BY <2>1, <2>2, <2>3, <2>4, <2>5 DEF EndInv
<1> QED BY <1>2, <1>3, <1>4, <1>5, <1>6, <1>7, <1>8, <1>9, <1>10, <1>11, <1>12
        DEF Next, ClientNext, CallerNext

LEMMA NothingIsLeft ==
    ASSUME CoreInv, EndInv
    PROVE  NothingLeftBehind
<1>1. TypeInv /\ RecordInv /\ IrpInv /\ GoneInv
  BY DEF CoreInv, PipeInv
<1>2. SUFFICES ASSUME wt.pc = "none", canceller = "idle", "overwritten" \notin faults,
                      NEW w \in Writes, irp[w].where = "active"
               PROVE  irp[w].routine = "running" \/ WaitsForThread(w)
  BY DEF NothingLeftBehind
<1>3. irp[w].routine \in {"set", "running"}
  BY <1>1, <1>2, TypeParts DEF WriteIrp, IrpInv
<1>4. SUFFICES ASSUME Has(w) PROVE WaitsForThread(w)
  BY <1>1, <1>3 DEF IrpInv
<1>5. ~InHand(w)
  BY <1>2 DEF InHand, Sending
<1>6. Out = {}
  BY <1>1, <1>2 DEF GoneInv, Gone, NothingActive, Out, ToSet
<1>7. ~Recorded(w)
  BY <1>1, <1>2, <1>6 DEF RecordInv, Recorded, Kept, Unreturned
<1>8. w \in ToSet(WriteDataQueue) /\ WriteDataQueue \in Seq(Writes)
  BY <1>1, <1>4, <1>5, <1>7, TypeParts DEF Has
<1>9. Contains(WriteDataQueue, w) /\ WriteDataQueue # <<>>
  BY <1>8, Members DEF Contains, ToSet
<1> QED BY <1>2, <1>8, <1>9 DEF EndInv, WaitsForThread

\* When the thread has been cancelled and has gone, every write queued before its
\* canceller's purge has been answered, or its cancel routine is about to, unless a
\* request took the place of the one that was being carried out: the canceller's
\* purge empties the queue, and the thread does not end before its transfers have
\* been handled.  A write that a caller inserts after that purge, having found
\* the thread before, stays on the queue with the kick set.
THEOREM NoWriteIsLeftBehind == Spec => []NothingLeftBehind
<1>1. Init => CoreInv /\ EndInv
  <2> SUFFICES ASSUME Init PROVE CoreInv /\ EndInv
    OBVIOUS
  <2>1. \E spent \in AnySpent : InitWith(spent)
    BY DEF Init
  <2>2. wt.pc = "top" /\ canceller = "idle"
    BY <2>1 DEF InitWith, NewThread
  <2> QED BY <2>2, InitCore DEF EndInv
<1>2. CoreInv /\ EndInv /\ [Next]_vars => CoreInv' /\ EndInv'
  BY StepCore, StepEnd
<1>3. CoreInv /\ EndInv => NothingLeftBehind
  BY NothingIsLeft
<1> QED BY <1>1, <1>2, <1>3, PTL DEF Spec

-----------------------------------------------------------------------------
(***************************************************************************)
(* A flow-off and what follows it.                                         *)
(***************************************************************************)
\* The thread does not wait while an event is set.
BlockedInv == wt.pc = "blocked" => wt.set = {}

\* A flow-off that has been asked for, is being carried out or has been
\* acknowledged.  When it has, nothing turns the flow on, and no transfer is
\* with the lower driver.
FlowIsQuiet ==
    /\ ~wt.bFlowOn /\ wt.pc \notin {"send", "sending", "FLOW_ON", "FLOW_OFF"}
    /\ "FLOW_ON" \notin wt.set /\ "FLOW_OFF" \notin wt.set
    /\ \A b \in ToSet(MWritePendingQueue) : buf[b].Status # "PENDING"
FlowAsked == "FLOW_OFF" \in wt.set \/ wt.pc = "FLOW_OFF"
FlowAcked == int.flow = "off" \/ (int.flow = "waiting" /\ int.acked)
FlowInv ==
    faults \cap {"idleOff", "late"} = {} =>
       /\ FlowAsked => /\ int.flow = "waiting" /\ ~int.acked
                       /\ wt.mwtState # "FLOW_OFF"
       /\ wt.mwtState = "FLOW_OFF" =>
             /\ int.flow = "waiting" /\ ~int.acked /\ ~wt.bFlowOn
             /\ "FLOW_ON" \notin wt.set
             /\ wt.pc \notin {"FLOW_ON", "send", "sending"}
       /\ wt.pc = "FLOW_OFF" => "FLOW_ON" \notin wt.set
       /\ FlowAcked /\ "forgotten" \notin faults => FlowIsQuiet

\* Steps that have nothing to do with the flow.
Pends(b) == b \in ToSet(MWritePendingQueue) /\ buf[b].Status = "PENDING"
FlowSame ==
    /\ int' = int /\ faults \subseteq faults'
    /\ wt'.bFlowOn => wt.bFlowOn
    /\ wt'.mwtState = "FLOW_OFF" => wt.mwtState = "FLOW_OFF"
    /\ \A e \in {"FLOW_ON", "FLOW_OFF"} : e \in wt'.set => e \in wt.set
    /\ wt'.pc = "FLOW_ON" => wt.pc = "FLOW_ON" \/ "FLOW_ON" \in wt.set
    /\ wt'.pc = "FLOW_OFF" =>
          wt.pc = "FLOW_OFF" \/ ("FLOW_OFF" \in wt.set /\ "FLOW_ON" \notin wt.set)
    /\ wt'.pc \in {"send", "sending"} => wt.pc \in {"send", "sending"} \/ wt.bFlowOn
    /\ \A b \in ToSet(MWritePendingQueue') :
          buf'[b].Status = "PENDING" => Pends(b) \/ wt.pc = "sending"

LEMMA FlowSameKeeps ==
    ASSUME FlowInv, FlowSame
    PROVE  FlowInv'
<1>1. SUFFICES ASSUME faults' \cap {"idleOff", "late"} = {}
               PROVE  /\ FlowAsked' => /\ int'.flow = "waiting" /\ ~int'.acked
                                       /\ wt'.mwtState # "FLOW_OFF"
                      /\ wt'.mwtState = "FLOW_OFF" =>
                            /\ int'.flow = "waiting" /\ ~int'.acked /\ ~wt'.bFlowOn
                            /\ "FLOW_ON" \notin wt'.set
                            /\ wt'.pc \notin {"FLOW_ON", "send", "sending"}
                      /\ wt'.pc = "FLOW_OFF" => "FLOW_ON" \notin wt'.set
                      /\ FlowAcked' /\ "forgotten" \notin faults' => FlowIsQuiet'
  BY DEF FlowInv
<1>2. /\ FlowAsked => /\ int.flow = "waiting" /\ ~int.acked
                      /\ wt.mwtState # "FLOW_OFF"
      /\ wt.mwtState = "FLOW_OFF" =>
            /\ int.flow = "waiting" /\ ~int.acked /\ ~wt.bFlowOn
            /\ "FLOW_ON" \notin wt.set
            /\ wt.pc \notin {"FLOW_ON", "send", "sending"}
      /\ wt.pc = "FLOW_OFF" => "FLOW_ON" \notin wt.set
      /\ FlowAcked /\ "forgotten" \notin faults => FlowIsQuiet
  BY <1>1 DEF FlowInv, FlowSame
<1>3. FlowAsked' => FlowAsked
  BY DEF FlowSame, FlowAsked
<1>4. /\ FlowAsked' => /\ int'.flow = "waiting" /\ ~int'.acked
                       /\ wt'.mwtState # "FLOW_OFF"
  BY <1>2, <1>3 DEF FlowSame
<1>5. wt'.mwtState = "FLOW_OFF" =>
            /\ int'.flow = "waiting" /\ ~int'.acked /\ ~wt'.bFlowOn
            /\ "FLOW_ON" \notin wt'.set
            /\ wt'.pc \notin {"FLOW_ON", "send", "sending"}
  BY <1>2 DEF FlowSame
<1>6. wt'.pc = "FLOW_OFF" => "FLOW_ON" \notin wt'.set
  BY <1>2 DEF FlowSame
<1>7. ASSUME FlowAcked', "forgotten" \notin faults'
      PROVE  FlowIsQuiet'
  <2>1. FlowIsQuiet
    BY <1>2, <1>7 DEF FlowAcked, FlowSame
  <2>2. \A b \in ToSet(MWritePendingQueue') : buf'[b].Status # "PENDING"
    BY <2>1 DEF FlowIsQuiet, FlowSame, Pends
  <2> QED BY <2>1, <2>2 DEF FlowIsQuiet, FlowSame
<1> QED BY <1>4, <1>5, <1>6, <1>7

\* Steps that submit no transfer.
LEMMA StillPends ==
    ASSUME TypeInv, Still
    PROVE  \A b \in ToSet(MWritePendingQueue') : buf'[b].Status = "PENDING" => Pends(b)
<1>1. SUFFICES ASSUME NEW b \in ToSet(MWritePendingQueue'), buf'[b].Status = "PENDING"
               PROVE  buf[b].Status = "PENDING" /\ b \in ToSet(MWritePendingQueue)
  BY DEF Pends
<1>2. b \in ToSet(MWritePendingQueue) /\ b \in Buffers
  BY <1>1, TypeParts, Members DEF Still
<1>3. buf'[b] = buf[b] \/ OnlyCancelled(b) \/ Ends(b)
  BY <1>2 DEF Still
<1>4. CASE Ends(b)
  <2>1. PICK status \in Finished, n \in Nat : buf'[b] = Ended(b, status, n)
    BY <1>4 DEF Ends
  <2>2. buf'[b].Status = status
    BY <1>2, <2>1, EndedType
  <2> QED BY <1>1, <2>2 DEF Finished
<1> QED BY <1>1, <1>2, <1>3, <1>4 DEF OnlyCancelled

\* An event that is not about the flow is set.
LEMMA SignalFlow ==
    ASSUME TypeInv, Still, int' = int, NEW e \in ThreadEvents \ {"FLOW_ON", "FLOW_OFF"},
           wt' = Signal(wt, e)
    PROVE  FlowSame
<1>1. /\ wt'.set = wt.set \cup {e}
      /\ wt'.pc = IF wt.pc = "blocked" THEN e ELSE wt.pc
      /\ wt'.mwtState = wt.mwtState /\ wt'.bFlowOn = wt.bFlowOn
  BY SignalIs
<1>2. e \notin {"send", "sending"}
  BY WriteBuffersAssumption DEF ThreadEvents, WriteEvents, WritePoints
<1>3. faults \subseteq faults'
  BY DEF Still
<1> QED BY <1>1, <1>2, <1>3, StillPends DEF FlowSame

\* The thread does not take part.
LEMMA QuietFlow ==
    ASSUME faults \subseteq faults', int' = int, wt' = wt,
           \A b \in ToSet(MWritePendingQueue') : buf'[b].Status = "PENDING" => Pends(b)
    PROVE  FlowSame
BY DEF FlowSame

LEMMA OthersFlow ==
    ASSUME CoreInv, \/ BusNext \/ PurgeAbort \/ RequestStop \/ RequestResume
                    \/ PurgeSignal \/ CancelWriteThread \/ CancelWriteThreadDone
                    \/ CancelWriteThreadPurge \/ EmptyWtCompletionQueue
                    \/ EnterEnqueue \/ Enqueue
                    \/ \E w \in Writes : CancelIrp(w) \/ CancelWriteRoutine(w)
    PROVE  FlowSame
<1>1. TypeInv /\ BufferInv /\ RecordInv /\ IrpInv
  BY DEF CoreInv, PipeInv
<1>2. CASE BusData \/ BusError \/ BusCancelled
  <2>1. Still /\ wt' = wt /\ int' = int
    BY <1>1, <1>2, BusStill DEF BusData, BusError, BusCancelled, BusStep
  <2> QED BY <1>1, <2>1, StillPends, QuietFlow DEF Still
<1>3. CASE WriteCompletionRoutine
  <2>1. /\ \E b \in ToSet(MWritePendingQueue) :
              MWritePendingQueue' = Keep(MWritePendingQueue, Buffers \ {b})
        /\ UNCHANGED <<buf, wt, int, faults>>
    BY <1>1, <1>3, WriteCompletionRoutineType
  <2>2. ToSet(MWritePendingQueue') \subseteq ToSet(MWritePendingQueue)
    BY <1>1, <2>1, TypeParts, KeepElements
  <2> QED BY <2>1, <2>2, QuietFlow DEF Pends
<1>4. CASE WriteCompletionSignal
  <2>1. Still /\ \E b \in signalling : wt' = Signal(wt, b)
    BY <1>1, <1>4, SignalStill
  <2>2. signalling \subseteq Buffers /\ "FLOW_ON" \notin Buffers /\ "FLOW_OFF" \notin Buffers
    BY <1>1, TypeParts, WriteBuffersAssumption DEF WritePoints, WriteEvents
  <2>3. int' = int
    BY <1>4 DEF WriteCompletionSignal, callers
  <2> QED BY <1>1, <2>1, <2>2, <2>3, SignalFlow DEF ThreadEvents
<1>5. CASE PurgeAbort \/ EmptyWtCompletionQueue
  <2>1. Still /\ wt' = wt
    BY <1>1, <1>5, WatchersStill
  <2>2. int' = int
    BY <1>5 DEF PurgeAbort, EmptyWtCompletionQueue, callers
  <2> QED BY <1>1, <2>1, <2>2, StillPends, QuietFlow DEF Still
<1>6. CASE RequestStop \/ RequestResume \/ PurgeSignal \/ CancelWriteThread
  <2>1. Still
    BY <1>1, <1>6, AskersStill
  <2>2. /\ int' = int
        /\ \E e \in {"STOP", "RESUME", "PURGE", "CANCEL"} : wt' = Signal(wt, e)
    BY <1>6 DEF RequestStop, RequestResume, PurgeSignal, CancelWriteThread, Request, callers
  <2>3. {"STOP", "RESUME", "PURGE", "CANCEL"} \subseteq ThreadEvents \ {"FLOW_ON", "FLOW_OFF"}
    BY DEF ThreadEvents, WriteEvents
  <2> QED BY <1>1, <2>1, <2>2, <2>3, SignalFlow
<1>7. CASE CancelWriteThreadDone
  <2>1. /\ Still /\ wt'.pc = "none" /\ wt'.set = wt.set /\ wt'.mwtState = wt.mwtState
    BY <1>1, <1>7, CancelWriteThreadDoneStill
  <2>2. int' = int /\ wt'.bFlowOn = wt.bFlowOn
    BY <1>1, <1>7, TypeParts DEF CancelWriteThreadDone, Goto, WriteThread
  <2> QED BY <1>1, <2>1, <2>2, StillPends DEF FlowSame, Still
<1>8. CASE CancelWriteThreadPurge
  <2>1. UNCHANGED <<buf, MWritePendingQueue, wt, int>> /\ faults \subseteq faults'
    BY <1>8 DEF CancelWriteThreadPurge, NotSent, OtherStep, bufferQueues, PurgeQueue
  <2> QED BY <2>1, QuietFlow DEF Pends
<1>9. CASE Enqueue
  <2>1. /\ wt' = wt \/ wt' = Signal(wt, "KICK")
        /\ UNCHANGED <<buf, MWritePendingQueue, int, faults>>
    BY <1>1, <1>9, EnqueueType
  <2>2. CASE wt' = wt
    BY <2>1, <2>2, QuietFlow DEF Pends
  <2>3. CASE wt' = Signal(wt, "KICK")
    <3>1. /\ wt'.set = wt.set \cup {"KICK"}
          /\ wt'.pc = IF wt.pc = "blocked" THEN "KICK" ELSE wt.pc
          /\ wt'.mwtState = wt.mwtState /\ wt'.bFlowOn = wt.bFlowOn
      BY <1>1, <2>3, SignalIs DEF ThreadEvents, WriteEvents
    <3> QED BY <2>1, <3>1 DEF FlowSame, Pends
  <2> QED BY <2>1, <2>2, <2>3
<1>10. ASSUME NEW w \in Writes, CancelIrp(w)
       PROVE  FlowSame
  <2>1. Still /\ UNCHANGED <<wt, faults>>
    BY <1>1, <1>10, CancelIrpStill
  <2>2. int' = int
    BY <1>10 DEF CancelIrp
  <2> QED BY <1>1, <2>1, <2>2, StillPends, QuietFlow
<1>11. ASSUME NEW w \in Writes, CancelWriteRoutine(w)
       PROVE  FlowSame
  <2>1. /\ UNCHANGED <<buf, MWritePendingQueue, int>> /\ faults \subseteq faults'
        /\ CancelsWrite(w) \/ (CancelsTransfer(w) /\ Still)
    BY <1>1, <1>11, CancelWriteRoutineType
  <2>2. CASE CancelsWrite(w)
    BY <2>1, <2>2, QuietFlow DEF CancelsWrite, Pends
  <2>3. CASE CancelsTransfer(w) /\ Still
    <3>1. wt' = Signal(wt, "CANCEL_CURRENT")
          /\ "CANCEL_CURRENT" \in ThreadEvents \ {"FLOW_ON", "FLOW_OFF"}
      BY <2>3 DEF CancelsTransfer, ThreadEvents, WriteEvents
    <3> QED BY <1>1, <2>1, <2>3, <3>1, SignalFlow
  <2> QED BY <2>1, <2>2, <2>3
<1>12. CASE EnterEnqueue
  <2>1. Still /\ wt' = wt /\ int' = int
    BY <1>1, <1>12, EnterEnqueueStill
  <2> QED BY <1>1, <2>1, StillPends, QuietFlow DEF Still
<1> QED BY <1>2, <1>3, <1>4, <1>5, <1>6, <1>7, <1>8, <1>9, <1>10, <1>11, <1>12 DEF BusNext

\* The thread's own steps, those apart that are about the flow.
LEMMA AloneFlow ==
    ASSUME TypeInv,
           \/ Top \/ SendNothing \/ Check \/ Kick \/ CancelCurrent \/ CancelDone
           \/ Resume \/ CompleteNothing
    PROVE  FlowSame
<1>1. /\ wt \in WriteThread /\ ThreadOnly /\ Still
  BY TypeParts, ThreadAloneType, ThreadAloneStill
<1>2. /\ int' = int /\ faults' = faults
      /\ \A b \in ToSet(MWritePendingQueue') : buf'[b].Status = "PENDING" => Pends(b)
  BY <1>1, StillPends DEF ThreadOnly
<1>3. CASE Top
  <2>1. wt' = [wt EXCEPT !.pc = IF MaySend THEN "send" ELSE "check"]
    BY <1>3 DEF Top, Goto
  <2>2. /\ wt'.set = wt.set /\ wt'.bFlowOn = wt.bFlowOn /\ wt'.mwtState = wt.mwtState
        /\ wt'.pc = IF MaySend THEN "send" ELSE "check"
    BY <1>1, <2>1 DEF WriteThread
  <2> QED BY <1>2, <2>2 DEF FlowSame, MaySend
<1>4. CASE SendNothing \/ CancelDone \/ CompleteNothing
  <2>1. \E pc \in {"check", "top"} : wt' = [wt EXCEPT !.pc = pc]
    BY <1>4 DEF SendNothing, CancelDone, CompleteNothing, Goto
  <2>2. /\ wt'.set = wt.set /\ wt'.bFlowOn = wt.bFlowOn /\ wt'.mwtState = wt.mwtState
        /\ wt'.pc \in {"check", "top"}
    BY <1>1, <2>1 DEF WriteThread
  <2> QED BY <1>2, <2>2 DEF FlowSame
<1>5. CASE Kick \/ CancelCurrent
  <2>1. \E e, pc \in {"KICK", "top", "CANCEL_CURRENT", "cancelling"} :
           /\ wt' = [wt EXCEPT !.set = wt.set \ {e}, !.pc = pc]
           /\ pc \in {"top", "cancelling"}
    BY <1>5 DEF Kick, CancelCurrent, Clear
  <2>2. /\ wt'.set \subseteq wt.set /\ wt'.bFlowOn = wt.bFlowOn /\ wt'.mwtState = wt.mwtState
        /\ wt'.pc \in {"cancelling", "top"}
    BY <1>1, <2>1 DEF WriteThread
  <2> QED BY <1>2, <2>2 DEF FlowSame
<1>6. CASE Resume
  <2>1. wt' = [[wt EXCEPT !.set = wt.set \ {"RESUME"}, !.pc = "top"]
                  EXCEPT !.bWriteStopped = dev.PowerSuspended]
    BY <1>6 DEF Resume, Clear
  <2>2. /\ wt'.set \subseteq wt.set /\ wt'.bFlowOn = wt.bFlowOn /\ wt'.mwtState = wt.mwtState
        /\ wt'.pc = "top"
    BY <1>1, <2>1 DEF WriteThread
  <2> QED BY <1>2, <2>2 DEF FlowSame
<1>7. CASE Check
  <2>1. CASE wt' = Goto(wt, "terminated")
    <3>1. /\ wt'.set = wt.set /\ wt'.bFlowOn = wt.bFlowOn /\ wt'.mwtState = wt.mwtState
          /\ wt'.pc = "terminated"
      BY <1>1, <2>1 DEF WriteThread, Goto
    <3> QED BY <1>2, <3>1 DEF FlowSame
  <2>2. CASE wt' = WaitAny(wt, WriteIndex)
    <3>1. /\ wt' = [wt EXCEPT !.pc = wt'.pc]
          /\ \/ wt'.pc = "blocked"
             \/ /\ wt'.pc \in wt.set
                /\ \A e \in wt.set : WriteIndex[wt'.pc] <= WriteIndex[e]
      BY <1>1, <2>2, WaitThread
    <3>2. /\ wt'.set = wt.set /\ wt'.bFlowOn = wt.bFlowOn /\ wt'.mwtState = wt.mwtState
      BY <1>1, <3>1 DEF WriteThread
    <3>3. wt.set \subseteq WriteEvents \cup Buffers
      BY <1>1 DEF WriteThread
    <3>4. wt'.pc \notin {"send", "sending"}
      BY <3>1, <3>3, WriteBuffersAssumption DEF WritePoints, WriteEvents
    <3>5. wt'.pc = "FLOW_OFF" => "FLOW_ON" \notin wt.set
      <4>1. WriteIndex["FLOW_ON"] = 8 /\ WriteIndex["FLOW_OFF"] = 9
        BY Indices DEF WriteEvents, RequestIndex
      <4> QED BY <3>1, <4>1
    <3> QED BY <1>2, <3>1, <3>2, <3>4, <3>5 DEF FlowSame
  <2> QED BY <1>7, <2>1, <2>2 DEF Check
<1> QED BY <1>3, <1>4, <1>5, <1>6, <1>7

\* A transfer that is handled was not the flow-off's, when it is not the last.
LEMMA CompleteWriteFlow ==
    ASSUME CoreInv, CompleteWrite
    PROVE  FlowSame
<1>1. TypeInv /\ BufferInv /\ RecordInv
  BY DEF CoreInv, PipeInv
<1>2. /\ wt'.set \subseteq (wt.set \ {Done}) \cup {"STOP"}
      /\ wt'.pc \in {"check", "top"} /\ wt'.bFlowOn = wt.bFlowOn
  BY <1>1, CompleteWriteType
<1>3. Frees /\ wt \in WriteThread
  BY <1>1, CompleteWriteCore, TypeParts
<1>4. wt'.mwtState = "FLOW_OFF" => wt.mwtState = "FLOW_OFF"
  <2> DEFINE more == wt.mwtState # "WORKING" /\ MWritePendingQueue # <<>>
             done == StopsItself([wt EXCEPT !.set = @ \ {Done}], DoneStatus)
  <2>1. wt' = [done EXCEPT
                  !.pc = IF more THEN "check" ELSE "top",
                  !.bCancelled = @ \/ LastCancelled(more),
                  !.mwtState = IF more THEN @ ELSE "WORKING"]
    BY DEF CompleteWrite, Done, DoneStatus
  <2>2. done \in WriteThread /\ done.mwtState = wt.mwtState
    <3>1. \/ done = [wt EXCEPT !.set = wt.set \ {Done}]
          \/ done = [[wt EXCEPT !.set = wt.set \ {Done}] EXCEPT
                        !.bWriteStopped = TRUE, !.set = @ \cup {"STOP"}]
      BY DEF StopsItself
    <3> QED BY <1>3, <3>1 DEF WriteThread, WriteEvents
  <2>3. wt'.mwtState = IF more THEN done.mwtState ELSE "WORKING"
    <3> HIDE DEF done, more
    <3> QED BY <2>1, <2>2 DEF WriteThread
  <2> QED BY <2>2, <2>3
<1>5. ASSUME NEW b \in ToSet(MWritePendingQueue'), buf'[b].Status = "PENDING"
      PROVE  Pends(b)
  <2>1. MWritePendingQueue' = MWritePendingQueue
    BY <1>1, <1>3, ReleaseIs DEF Frees
  <2>2. b \in Buffers
    BY <1>1, <1>5, <2>1, TypeParts, Members
  <2>3. b # Done
    BY <1>3, <1>5 DEF Frees, IdleBuffer
  <2>4. buf'[b] = buf[b] \/ OnlyCancelled(b)
    BY <1>3, <2>2, <2>3 DEF Frees
  <2> QED BY <1>5, <2>1, <2>4 DEF Pends, OnlyCancelled
<1>6. int' = int /\ faults \subseteq faults'
  BY DEF CompleteWrite
<1> QED BY <1>2, <1>4, <1>5, <1>6 DEF FlowSame

LEMMA ThreadFlow ==
    ASSUME CoreInv, ThreadNext, ~FlowOn, ~FlowOff, ~CompleteFlowOff
    PROVE  FlowSame
<1>1. TypeInv /\ BufferInv /\ RecordInv
  BY DEF CoreInv, PipeInv
<1>2. wt \in WriteThread
  BY <1>1, TypeParts
<1>3. CASE TopPurge \/ SendCancelled
  <2>1. \/ wt' = [wt EXCEPT !.pc = "check", !.bPurged = FALSE]
        \/ wt' = [wt EXCEPT !.pc = "check"]
    BY <1>3 DEF TopPurge, SendCancelled, Goto
  <2>2. /\ wt'.set = wt.set /\ wt'.bFlowOn = wt.bFlowOn /\ wt'.mwtState = wt.mwtState
        /\ wt'.pc = "check"
    BY <1>2, <2>1 DEF WriteThread
  <2>3. UNCHANGED <<buf, MWritePendingQueue, int>> /\ faults \subseteq faults'
    BY <1>3 DEF TopPurge, SendCancelled, QueuesAlone, bufferQueues, PurgeQueue
  <2> QED BY <2>2, <2>3 DEF FlowSame, Pends
<1>4. CASE SendTake
  <2>1. \E w : wt' = [wt EXCEPT !.pc = "sending", !.pWriteCurrent = w]
    BY <1>4 DEF SendTake
  <2>2. /\ wt'.set = wt.set /\ wt'.bFlowOn = wt.bFlowOn /\ wt'.mwtState = wt.mwtState
        /\ wt'.pc = "sending"
    BY <1>2, <2>1 DEF WriteThread
  <2>3. /\ UNCHANGED <<buf, int, faults>> /\ wt.pc = "send" /\ MWriteIdleQueue # <<>>
        /\ MWritePendingQueue' = Append(MWritePendingQueue, Head(MWriteIdleQueue))
    BY <1>4 DEF SendTake, SomethingToSend
  <2>4. Head(MWriteIdleQueue) \in ToSet(MWriteIdleQueue) /\ Head(MWriteIdleQueue) \in Buffers
    BY <1>1, <2>3, TypeParts, Members
  <2>5. ToSet(MWritePendingQueue') = ToSet(MWritePendingQueue) \cup {Head(MWriteIdleQueue)}
    <3> DEFINE b == Head(MWriteIdleQueue)
    <3>1. MWritePendingQueue \in Seq(Buffers) /\ b \in Buffers
      BY <1>1, <2>4, TypeParts
    <3> HIDE DEF b
    <3>2. /\ Append(MWritePendingQueue, b) = MWritePendingQueue \o <<b>>
          /\ ToSet(MWritePendingQueue \o <<b>>) = ToSet(MWritePendingQueue) \cup {b}
      BY <3>1, AppendIsConcatOfOne
    <3>3. MWritePendingQueue' = Append(MWritePendingQueue, b)
      BY <2>3 DEF b
    <3> QED BY <3>2, <3>3 DEF b
  <2>6. buf[Head(MWriteIdleQueue)] = IdleBuffer
    BY <1>1, <2>4 DEF BufferInv
  <2> QED BY <2>2, <2>3, <2>5, <2>6 DEF FlowSame, Pends, IdleBuffer
<1>5. CASE SendSubmit
  <2>1. \E z : wt' = [wt EXCEPT !.pc = "send", !.bSendZeroLength = z]
    BY <1>5 DEF SendSubmit
  <2>2. /\ wt'.set = wt.set /\ wt'.bFlowOn = wt.bFlowOn /\ wt'.mwtState = wt.mwtState
        /\ wt'.pc = "send"
    BY <1>2, <2>1 DEF WriteThread
  <2>3. int' = int /\ faults \subseteq faults' /\ wt.pc = "sending"
    BY <1>5 DEF SendSubmit
  <2> QED BY <2>2, <2>3 DEF FlowSame
<1>6. CASE CancelNext
  <2>1. Still /\ wt' = wt /\ int' = int
    BY <1>1, <1>6, CancelNextStill DEF CancelNext
  <2> QED BY <1>1, <2>1, StillPends, QuietFlow DEF Still
<1>7. CASE CancelThread \/ Purge \/ Stop
  <2>1. PICK event \in {"CANCEL", "PURGE", "STOP"},
             state \in {"CANCELLING", "PURGING", "STOPPING"} : RequestTaken(event, state)
    BY <1>1, <1>7, Requests
  <2>2. Still /\ wt'.set = wt.set \ {event} /\ wt'.bFlowOn = wt.bFlowOn
    BY <1>1, <2>1, RequestStill DEF RequestTaken, Taken
  <2>3. wt'.mwtState = "FLOW_OFF" => wt.mwtState = "FLOW_OFF"
    BY <2>1 DEF RequestTaken
  <2>4. wt'.pc \in {"check", "top"}
    BY <2>1 DEF RequestTaken
  <2>5. int' = int
    <3>1. CASE CancelPending(state)
      BY <3>1 DEF CancelPending
    <3>2. CASE ThreadOnly
      BY <3>2 DEF ThreadOnly
    <3> QED BY <2>1, <3>1, <3>2 DEF RequestTaken
  <2> QED BY <1>1, <2>2, <2>3, <2>4, <2>5, StillPends DEF FlowSame, Still
<1>8. CASE FlowOffAbort
  <2>1. /\ Still /\ wt'.pc = "top" /\ wt'.set = wt.set
        /\ wt'.mwtState = wt.mwtState /\ wt'.bFlowOn = wt.bFlowOn
    BY <1>1, <1>8, FlowOffAbortStill
  <2>2. int' = int
    BY <1>8 DEF FlowOffAbort
  <2> QED BY <1>1, <2>1, <2>2, StillPends DEF FlowSame, Still
<1> QED BY <1>1, <1>3, <1>4, <1>5, <1>6, <1>7, <1>8, AloneFlow, CompleteWriteFlow
        DEF ThreadNext

\* What the invariant says while no flow-off is late or has found nothing to
\* abort.
FlowOrderly ==
    /\ FlowAsked => int.flow = "waiting" /\ ~int.acked /\ wt.mwtState # "FLOW_OFF"
    /\ wt.mwtState = "FLOW_OFF" =>
          /\ int.flow = "waiting" /\ ~int.acked /\ ~wt.bFlowOn
          /\ "FLOW_ON" \notin wt.set
          /\ wt.pc \notin {"FLOW_ON", "send", "sending"}
    /\ wt.pc = "FLOW_OFF" => "FLOW_ON" \notin wt.set
    /\ FlowAcked /\ "forgotten" \notin faults => FlowIsQuiet

LEMMA FlowInvIs == FlowInv <=> (faults \cap {"idleOff", "late"} = {} => FlowOrderly)
BY DEF FlowInv, FlowOrderly

\* The flow is turned on.
LEMMA FlowOnFlow ==
    ASSUME CoreInv, FlowInv, FlowOn
    PROVE  FlowInv'
<1>1. TypeInv /\ wt \in WriteThread
  BY TypeParts DEF CoreInv, PipeInv
<1>2. /\ wt.pc = "FLOW_ON" /\ ThreadOnly
      /\ wt' = [[wt EXCEPT !.set = wt.set \ {"FLOW_ON"}, !.pc = "top"]
                  EXCEPT !.bWriteStopped = dev.PowerSuspended, !.bFlowOn = TRUE]
  BY DEF FlowOn, Clear
<1>3. /\ wt'.set = wt.set \ {"FLOW_ON"} /\ wt'.pc = "top" /\ wt'.mwtState = wt.mwtState
  BY <1>1, <1>2 DEF WriteThread
<1>4. int' = int /\ faults' = faults
  BY <1>2 DEF ThreadOnly
<1>5. SUFFICES ASSUME FlowOrderly, faults' \cap {"idleOff", "late"} = {}
               PROVE  FlowOrderly'
  BY <1>4, FlowInvIs DEF FlowInv, FlowOrderly
<1>6. wt.mwtState # "FLOW_OFF" /\ ~FlowIsQuiet
  BY <1>2, <1>5 DEF FlowOrderly, FlowIsQuiet
<1>7. FlowAsked' => FlowAsked
  BY <1>3 DEF FlowAsked
<1>8. FlowAcked' /\ "forgotten" \notin faults' => FALSE
  BY <1>4, <1>5, <1>6 DEF FlowOrderly, FlowAcked
<1> QED BY <1>3, <1>4, <1>5, <1>6, <1>7, <1>8 DEF FlowOrderly

\* The flow is turned off.
LEMMA FlowOffFlow ==
    ASSUME CoreInv, FlowInv, FlowOff
    PROVE  FlowInv'
<1>1. TypeInv
  BY DEF CoreInv, PipeInv
<1>2. /\ wt'.set = wt.set \ {"FLOW_OFF"} /\ wt'.mwtState = "FLOW_OFF"
      /\ wt'.pc = IF MWritePendingQueue = <<>> THEN "top" ELSE "abort"
      /\ wt'.bFlowOn = FALSE
  BY <1>1, FlowOffType
<1>3. /\ wt.pc = "FLOW_OFF" /\ faults \subseteq faults'
      /\ MWritePendingQueue = <<>> => "idleOff" \in faults'
      /\ MWritePendingQueue # <<>> => int' = int
  BY FaultIfIs DEF FlowOff
<1>4. SUFFICES ASSUME FlowOrderly, faults' \cap {"idleOff", "late"} = {}
               PROVE  FlowOrderly'
  BY <1>3, FlowInvIs DEF FlowInv, FlowOrderly
<1>5. int' = int /\ wt'.pc = "abort"
  BY <1>2, <1>3, <1>4
<1>6. int.flow = "waiting" /\ ~int.acked /\ "FLOW_ON" \notin wt.set
  BY <1>3, <1>4 DEF FlowOrderly, FlowAsked
<1>7. ~FlowAsked' /\ ~FlowAcked'
  BY <1>2, <1>5, <1>6 DEF FlowAsked, FlowAcked
<1> QED BY <1>2, <1>5, <1>6, <1>7 DEF FlowOrderly

\* The last transfer of a flow-off comes back: none is out.
LEMMA LastComesBack ==
    ASSUME CoreInv, CompleteFlowOff, Resend
    PROVE  \A b \in ToSet(MWritePendingQueue') : buf'[b].Status # "PENDING"
<1>1. TypeInv /\ BufferInv /\ RecordInv
  BY DEF CoreInv, PipeInv
<1>2. Frees /\ TypeInv' /\ CoreInv'
  BY CompleteFlowOffCore
<1>3. Out' = Out \ {Done} /\ Handles
  BY <1>2, FreesIs DEF Frees
<1>4. Records' = <<>>
  BY DEF CompleteFlowOff, Resend, Done, Records
<1>5. Out' = {}
  <2>1. RecordInv'
    BY <1>2 DEF CoreInv, PipeInv
  <2>2. DOMAIN Records' = {}
    BY <1>4
  <2> QED BY <2>1, <2>2 DEF RecordInv
<1> QED BY <1>5 DEF Out

LEMMA CompleteFlow ==
    ASSUME CoreInv, FlowInv, CompleteFlowOff
    PROVE  FlowInv'
<1>1. TypeInv /\ BufferInv /\ RecordInv
  BY DEF CoreInv, PipeInv
<1>2. /\ wt'.set = wt.set \ {Done} /\ wt'.pc = "top" /\ wt'.bFlowOn = wt.bFlowOn
      /\ wt'.mwtState = IF Resend THEN "WORKING" ELSE wt.mwtState
  BY <1>1, CompleteFlowOffType
<1>3. Frees
  BY CompleteFlowOffCore
<1>4. /\ faults \subseteq faults' /\ wt.mwtState = "FLOW_OFF" /\ wt.pc \in Buffers
      /\ int' = IF Resend THEN [int EXCEPT !.acked = TRUE] ELSE int
  BY DEF CompleteFlowOff, Resend, Done
<1>5. CASE ~Resend
  <2>1. ASSUME NEW b \in ToSet(MWritePendingQueue'), buf'[b].Status = "PENDING"
        PROVE  Pends(b)
    <3>1. MWritePendingQueue' = MWritePendingQueue
      BY <1>1, <1>3, ReleaseIs DEF Frees
    <3>2. b \in Buffers
      BY <1>1, <2>1, <3>1, TypeParts, Members
    <3>3. b # Done
      BY <1>3, <2>1 DEF Frees, IdleBuffer
    <3>4. buf'[b] = buf[b] \/ OnlyCancelled(b)
      BY <1>3, <3>2, <3>3 DEF Frees
    <3> QED BY <2>1, <3>1, <3>4 DEF Pends, OnlyCancelled
  <2>2. FlowSame
    BY <1>2, <1>4, <1>5, <2>1 DEF FlowSame
  <2> QED BY <2>2, FlowSameKeeps
<1>6. CASE Resend
  <2>1. SUFFICES ASSUME FlowOrderly, faults' \cap {"idleOff", "late"} = {}
                 PROVE  FlowOrderly'
    BY <1>4, FlowInvIs DEF FlowInv, FlowOrderly
  <2>2. ~FlowAsked /\ ~wt.bFlowOn /\ "FLOW_ON" \notin wt.set
    BY <1>4, <2>1 DEF FlowOrderly
  <2>3. ~FlowAsked'
    BY <1>2, <2>2 DEF FlowAsked
  <2>4. FlowIsQuiet'
    BY <1>2, <1>6, <2>2, LastComesBack DEF FlowIsQuiet, FlowAsked
  <2> QED BY <1>2, <1>6, <2>3, <2>4 DEF FlowOrderly
<1> QED BY <1>5, <1>6

\* The interrupt thread's part.
LEMMA NotifyFlow ==
    ASSUME CoreInv, FlowInv, BlockedInv, NotifyFlowOff \/ NotifyFlowOn
    PROVE  FlowInv'
<1>1. TypeInv
  BY DEF CoreInv, PipeInv
<1>2. Still /\ faults' = faults /\ int.flow # "waiting"
  BY <1>1, AskersStill DEF NotifyFlowOff, NotifyFlowOn
<1>3. SUFFICES ASSUME FlowOrderly, faults' \cap {"idleOff", "late"} = {}
               PROVE  FlowOrderly'
  BY <1>2, FlowInvIs DEF FlowInv, FlowOrderly
<1>4. ~FlowAsked /\ wt.mwtState # "FLOW_OFF"
  BY <1>2, <1>3 DEF FlowOrderly
<1>5. CASE NotifyFlowOff
  <2>1. int' = [flow |-> "waiting", acked |-> FALSE] /\ wt' = Signal(wt, "FLOW_OFF")
    BY <1>5 DEF NotifyFlowOff, Request
  <2>2. /\ wt'.set = wt.set \cup {"FLOW_OFF"} /\ wt'.mwtState = wt.mwtState
        /\ wt'.pc = IF wt.pc = "blocked" THEN "FLOW_OFF" ELSE wt.pc
    BY <1>1, <2>1, SignalIs DEF ThreadEvents, WriteEvents
  <2>3. int'.flow = "waiting" /\ ~int'.acked
    BY <2>1
  <2>4. wt'.pc = "FLOW_OFF" => "FLOW_ON" \notin wt'.set
    BY <1>4, <2>2 DEF BlockedInv, FlowAsked
  <2> QED BY <1>4, <2>2, <2>3, <2>4 DEF FlowOrderly, FlowAcked
<1>6. CASE NotifyFlowOn
  <2>1. int' = [int EXCEPT !.flow = "on"] /\ wt' = Signal(wt, "FLOW_ON")
    BY <1>6 DEF NotifyFlowOn, Request
  <2>2. /\ wt'.set = wt.set \cup {"FLOW_ON"} /\ wt'.mwtState = wt.mwtState
        /\ wt'.pc = IF wt.pc = "blocked" THEN "FLOW_ON" ELSE wt.pc
    BY <1>1, <2>1, SignalIs DEF ThreadEvents, WriteEvents
  <2>3. int'.flow = "on"
    BY <1>1, <2>1, TypeParts
  <2>4. ~FlowAsked' /\ ~FlowAcked'
    BY <1>4, <2>2, <2>3 DEF FlowAsked, FlowAcked
  <2> QED BY <1>4, <2>2, <2>4 DEF FlowOrderly, FlowAsked
<1> QED BY <1>5, <1>6

LEMMA AckedFlow ==
    ASSUME CoreInv, FlowInv, FlowOffAcked
    PROVE  FlowInv'
<1>1. TypeInv /\ IrpInv
  BY DEF CoreInv, PipeInv
<1>2. /\ Still /\ wt' = wt /\ faults' = faults
      /\ int.flow = "waiting" /\ int.acked /\ int' = [int EXCEPT !.flow = "off"]
  BY <1>1, WatchersStill DEF FlowOffAcked
<1>3. SUFFICES ASSUME FlowOrderly, faults' \cap {"idleOff", "late"} = {}
               PROVE  FlowOrderly'
  BY <1>2, FlowInvIs DEF FlowInv, FlowOrderly
<1>4. ~FlowAsked /\ wt.mwtState # "FLOW_OFF" /\ ("forgotten" \notin faults => FlowIsQuiet)
  BY <1>2, <1>3 DEF FlowOrderly, FlowAcked
<1>5. ~FlowAsked' /\ wt'.mwtState # "FLOW_OFF"
  BY <1>2, <1>4 DEF FlowAsked
<1>6. FlowIsQuiet => FlowIsQuiet'
  <2>1. \A b \in ToSet(MWritePendingQueue') : buf'[b].Status = "PENDING" => Pends(b)
    BY <1>1, <1>2, StillPends
  <2> QED BY <1>2, <2>1 DEF FlowIsQuiet, Pends
<1> QED BY <1>2, <1>4, <1>5, <1>6 DEF FlowOrderly, FlowAsked

\* A new thread does not know that the flow is off.
LEMMA CreateFlow ==
    ASSUME CoreInv, FlowInv, CreateThread
    PROVE  FlowInv'
<1>1. TypeInv
  BY DEF CoreInv, PipeInv
<1>2. /\ Still /\ wt'.pc = "top" /\ wt'.set = wt.set \ {"PURGE"}
      /\ faults' = faults
                \cup FaultIf(int.flow # "on", "forgotten")
                \cup FaultIf("PURGE" \in wt.set, "unpurged")
                \cup FaultIf(MWTSentIrpQueue # <<>>, "broken")
  BY <1>1, CreateThreadStill
<1>3. wt'.mwtState = "WORKING" /\ int' = int
  BY DEF CreateThread, NewThread, callers
<1>4. int.flow # "on" => "forgotten" \in faults'
  BY <1>2, FaultIfIs
<1>5. SUFFICES ASSUME FlowOrderly, faults' \cap {"idleOff", "late"} = {}
               PROVE  FlowOrderly'
  BY <1>2, FlowInvIs DEF FlowInv, FlowOrderly
<1>6. FlowAsked' => FlowAsked
  BY <1>2 DEF FlowAsked
<1>7. FlowAcked' => "forgotten" \in faults'
  BY <1>3, <1>4 DEF FlowAcked
<1> QED BY <1>2, <1>3, <1>5, <1>6, <1>7 DEF FlowOrderly

LEMMA StepFlow ==
    ASSUME CoreInv, FlowInv, BlockedInv, [Next]_vars
    PROVE  FlowInv'
<1>1. CASE UNCHANGED vars
  <2>1. UNCHANGED <<buf, bufferQueues, wt, callers, faults>>
    BY <1>1 DEF vars
  <2>2. UNCHANGED <<int, MWritePendingQueue>>
    BY <2>1 DEF bufferQueues, callers
  <2>3. FlowSame
    BY <2>1, <2>2, QuietFlow DEF Pends
  <2> QED BY <2>3, FlowSameKeeps
<1>2. CASE ThreadNext
  BY <1>2, ThreadFlow, FlowSameKeeps, FlowOnFlow, FlowOffFlow, CompleteFlow
<1>3. CASE IntNext
  <2>1. CASE FlowOffTimeout
    BY <2>1 DEF FlowOffTimeout, FlowInv
  <2> QED BY <1>3, <2>1, OthersFlow, FlowSameKeeps, NotifyFlow, AckedFlow DEF IntNext
<1>4. CASE BusNext \/ CallerNext
  BY <1>4, OthersFlow, FlowSameKeeps DEF CallerNext
<1>5. CASE ClientNext
  BY <1>5, OthersFlow, FlowSameKeeps, CreateFlow DEF ClientNext
<1> QED BY <1>1, <1>2, <1>3, <1>4, <1>5 DEF Next

\* Every step leaves the thread waiting only for events that are not set.
LEMMA StepBlocked ==
    ASSUME CoreInv, BlockedInv, [Next]_vars
    PROVE  BlockedInv'
<1>1. TypeInv /\ BufferInv /\ RecordInv /\ IrpInv
  BY DEF CoreInv, PipeInv
<1>2. SUFFICES ASSUME wt'.pc = "blocked"
               PROVE  wt' = wt \/ wt'.set = {}
  BY DEF BlockedInv
<1>3. ~\E e \in ThreadEvents : wt' = Signal(wt, e)
  <2> SUFFICES ASSUME NEW e \in ThreadEvents, wt' = Signal(wt, e) PROVE FALSE
    OBVIOUS
  <2>1. wt'.pc = IF wt.pc = "blocked" THEN e ELSE wt.pc
    BY <1>1, SignalIs
  <2>2. e # "blocked"
    BY WriteBuffersAssumption DEF ThreadEvents, WriteEvents, WritePoints
  <2> QED BY <1>2, <2>1, <2>2
<1>4. CASE UNCHANGED vars
  BY <1>4 DEF vars
<1>5. CASE ThreadNext
  <2>1. CASE ~Check
    BY <1>2, <1>5, <2>1, ThreadMovesOn DEF MovesOn
  <2>2. CASE Check
    <3>1. wt \in WriteThread
      BY <1>1, TypeParts
    <3>2. CASE wt' = Goto(wt, "terminated")
      BY <1>2, <3>1, <3>2 DEF Goto, WriteThread
    <3>3. CASE wt' = WaitAny(wt, WriteIndex)
      <4>1. /\ wt' = [wt EXCEPT !.pc = wt'.pc]
            /\ \/ wt'.pc = "blocked" /\ wt.set = {}
               \/ wt'.pc \in wt.set
        BY <3>1, <3>3, WaitThread
      <4>2. wt'.set = wt.set /\ wt.set \subseteq ThreadEvents
        BY <3>1, <4>1 DEF WriteThread, ThreadEvents
      <4>3. "blocked" \notin ThreadEvents
        BY WriteBuffersAssumption DEF ThreadEvents, WriteEvents, WritePoints
      <4> QED BY <1>2, <4>1, <4>2, <4>3
    <3> QED BY <2>2, <3>2, <3>3 DEF Check
  <2> QED BY <2>1, <2>2
<1>6. CASE BusNext
  <2>1. CASE WriteCompletionSignal
    BY <1>1, <1>3, <2>1, SignalStill, TypeParts DEF ThreadEvents
  <2>2. CASE BusData \/ BusError \/ BusCancelled \/ WriteCompletionRoutine
    BY <2>2 DEF BusData, BusError, BusCancelled, WriteCompletionRoutine, BusStep
  <2> QED BY <1>6, <2>1, <2>2 DEF BusNext
<1>7. CASE ClientNext
  <2>1. CASE Enqueue
    BY <1>1, <1>3, <2>1, EnqueueType DEF ThreadEvents, WriteEvents
  <2>2. CASE CreateThread
    BY <1>1, <1>2, <2>2, CreateThreadStill
  <2>3. CASE EnterEnqueue \/ \E w \in Writes : CancelIrp(w)
    BY <2>3 DEF EnterEnqueue, CancelIrp
  <2>4. CASE \E w \in Writes : CancelWriteRoutine(w)
    BY <1>1, <1>3, <2>4, CancelWriteRoutineType
       DEF CancelsWrite, CancelsTransfer, ThreadEvents, WriteEvents
  <2> QED BY <1>7, <2>1, <2>2, <2>3, <2>4 DEF ClientNext
<1>8. CASE IntNext \/ CallerNext
  <2>1. CASE \/ NotifyFlowOff \/ NotifyFlowOn \/ RequestStop \/ RequestResume
             \/ PurgeSignal \/ CancelWriteThread
    BY <1>1, <1>3, <2>1, AskersStill DEF ThreadEvents
  <2>2. CASE EmptyWtCompletionQueue \/ FlowOffAcked \/ FlowOffTimeout \/ PurgeAbort
    BY <1>1, <2>2, WatchersStill
  <2>3. CASE CancelWriteThreadDone
    BY <1>1, <1>2, <2>3, CancelWriteThreadDoneStill
  <2>4. CASE CancelWriteThreadPurge
    BY <2>4 DEF CancelWriteThreadPurge
  <2> QED BY <1>8, <2>1, <2>2, <2>3, <2>4 DEF IntNext, CallerNext
<1> QED BY <1>4, <1>5, <1>6, <1>7, <1>8 DEF Next

-----------------------------------------------------------------------------
(***************************************************************************)
(* What ends a transfer while the flow is off.                             *)
(***************************************************************************)
\* A transfer that nobody but an abort has ended is the flow-off's, unless the
\* device is gone, a purge aborted it or a request took the flow-off's place.
Aborted(b) == buf[b].Status = "CANCELLED" /\ ~buf[b].Cancel
AbortKnown == \/ ~dev.present \/ faults \cap {"aborted", "overwritten"} # {}
              \/ wt.mwtState = "FLOW_OFF"
AbortInv ==
    /\ wt.pc = "abort" => wt.mwtState = "FLOW_OFF"
    /\ \A b \in Out : Aborted(b) => AbortKnown

\* A device that is gone does not come back.
LEMMA PresentFalls ==
    ASSUME CoreInv, [Next]_vars, dev'.present
    PROVE  dev.present
<1>1. TypeInv /\ BufferInv /\ RecordInv /\ IrpInv /\ dev \in Device
  BY TypeParts DEF CoreInv, PipeInv
<1>2. CASE UNCHANGED vars
  BY <1>2 DEF vars
<1>3. CASE ThreadNext
  <2>1. CASE \/ Top \/ SendNothing \/ Check \/ Kick \/ CancelCurrent \/ CancelDone
             \/ Resume \/ FlowOn \/ CompleteNothing
    BY <1>1, <2>1, ThreadAloneType DEF ThreadOnly
  <2>2. CASE \/ TopPurge \/ SendCancelled \/ SendTake \/ SendSubmit \/ CancelNext
             \/ FlowOff \/ FlowOffAbort
    BY <2>2 DEF TopPurge, SendCancelled, SendTake, SendSubmit, CancelNext, FlowOff, FlowOffAbort
  <2>3. CASE CancelThread \/ Purge \/ Stop
    BY <1>1, <2>3, Requests DEF RequestTaken, CancelPending, ThreadOnly
  <2>4. ASSUME NEW status, NEW halted, CountError(status, halted)
        PROVE  dev.present
    BY <1>1, <2>4 DEF CountError, Device
  <2>5. CASE CompleteWrite
    <3>1. \E status, halted : CountError(status, halted)
      BY <2>5 DEF CompleteWrite
    <3> QED BY <2>4, <3>1
  <2>6. CASE CompleteFlowOff
    <3>1. \/ \E status, halted : CountError(status, halted)
          \/ \E halted : dev' = [dev EXCEPT !.halted = halted]
      <4>1. CASE DoneStatus = "SUCCESS"
        <5>1. CountError(DoneStatus, dev.halted)
          BY <2>6, <4>1 DEF CompleteFlowOff, Done, DoneStatus
        <5> QED BY <5>1
      <4>2. CASE DoneStatus # "SUCCESS"
        <5>1. dev' = [dev EXCEPT !.halted =
                         dev.halted /\ ~(dev.present /\ buf[Done].Status = "ERROR")]
          BY <2>6, <4>2 DEF CompleteFlowOff, Done, DoneStatus
        <5> QED BY <5>1
      <4> QED BY <4>1, <4>2
    <3> QED BY <1>1, <2>4, <3>1 DEF Device
  <2> QED BY <1>3, <2>1, <2>2, <2>3, <2>5, <2>6 DEF ThreadNext
<1>4. CASE BusNext
  <2>1. CASE BusError
    <3>1. dev' = [dev EXCEPT !.halted = TRUE]
      BY <2>1 DEF BusError
    <3> QED BY <1>1, <3>1 DEF Device
  <2> QED BY <1>4, <2>1 DEF BusNext, BusData, BusCancelled, WriteCompletionRoutine,
                            WriteCompletionSignal
<1>5. CASE ClientNext
  BY <1>5 DEF ClientNext, EnterEnqueue, Enqueue, CreateThread, CancelIrp, CancelWriteRoutine, ClientStep
<1>6. CASE IntNext
  BY <1>6 DEF IntNext, EmptyWtCompletionQueue, NotifyFlowOff, NotifyFlowOn,
              FlowOffAcked, FlowOffTimeout
<1>7. CASE CallerNext
  <2>1. CASE RequestStop \/ RequestResume
    <3>1. \E s \in BOOLEAN : dev' = [dev EXCEPT !.PowerSuspended = s]
      BY <2>1 DEF RequestStop, RequestResume
    <3> QED BY <1>1, <3>1 DEF Device
  <2> QED BY <1>7, <2>1 DEF CallerNext, PurgeAbort, PurgeSignal, CancelWriteThread,
                            CancelWriteThreadDone, CancelWriteThreadPurge
<1> QED BY <1>2, <1>3, <1>4, <1>5, <1>6, <1>7 DEF Next

\* The transfers that are out after a step were out before it, or have just
\* been submitted.
LEMMA OutBefore ==
    ASSUME CoreInv, [Next]_vars
    PROVE  /\ CoreInv'
           /\ \A b \in Out' : b \in Out \/ buf'[b].Status = "PENDING"
<1>1. TypeInv /\ BufferInv /\ RecordInv /\ IrpInv
  BY DEF CoreInv, PipeInv
<1>2. CoreInv' /\ TypeInv'
  BY StepCore DEF CoreInv, PipeInv
<1>3. CASE Still
  BY <1>1, <1>2, <1>3, OutStays
<1>4. CASE UNCHANGED <<buf, MWritePendingQueue, MWriteCompletionQueue>>
  BY <1>2, <1>4 DEF Out
<1>5. CASE UNCHANGED vars
  BY <1>3, <1>5, StutterStill
<1>6. CASE ThreadNext
  <2>1. CASE \/ Top \/ SendNothing \/ Check \/ Kick \/ CancelCurrent \/ CancelNext
             \/ CancelDone \/ CancelThread \/ Purge \/ Stop \/ Resume \/ FlowOn
             \/ FlowOff \/ FlowOffAbort \/ CompleteNothing
    BY <1>3, <2>1, ThreadCore
  <2>2. CASE TopPurge \/ SendCancelled
    BY <1>4, <2>2 DEF TopPurge, SendCancelled, QueuesAlone, bufferQueues
  <2>3. CASE SendTake
    BY <1>2, <2>3, SendTakeCore
  <2>4. CASE SendSubmit
    <3> DEFINE w == wt.pWriteCurrent
               first == IF w = 0 THEN 0 ELSE irp[w].Information
               length == IF w = 0 THEN 0 ELSE Packets[w] - first
               r == [CallingIrp |-> w, First |-> first, Length |-> length,
                     Status |-> "PENDING", Transferred |-> 0, Cancel |-> FALSE]
    <3>1. /\ UNCHANGED <<MWritePendingQueue, MWriteCompletionQueue>>
          /\ buf' = [buf EXCEPT ![Last(MWritePendingQueue)] = r]
          /\ r.Status = "PENDING"
      BY <2>4 DEF SendSubmit, bufferQueues
    <3> HIDE DEF r
    <3>2. buf \in [Buffers -> TransferBuffer] /\ Out' \subseteq Buffers
      BY <1>1, <1>2, <3>1, TypeParts, Members DEF Out
    <3>3. ASSUME NEW b \in Out'
          PROVE  b \in Out \/ buf'[b].Status = "PENDING"
      <4>1. CASE b = Last(MWritePendingQueue)
        BY <3>1, <3>2, <4>1
      <4>2. CASE b # Last(MWritePendingQueue)
        <5>1. buf'[b] = buf[b]
          BY <3>1, <3>2, <4>2
        <5> QED BY <3>1, <5>1 DEF Out
      <4> QED BY <4>1, <4>2
    <3> QED BY <1>2, <3>3
  <2>5. CASE CompleteFlowOff \/ CompleteWrite
    BY <1>2, <2>5, CompleteFlowOffCore, CompleteWriteCore, FreesIs
  <2> QED BY <1>6, <2>1, <2>2, <2>3, <2>4, <2>5 DEF ThreadNext
<1>7. CASE WriteCompletionRoutine
  BY <1>2, <1>7, WriteCompletionRoutineCore
<1>8. CASE Enqueue \/ CancelWriteThreadPurge \/ \E w \in Writes : CancelWriteRoutine(w)
  BY <1>4, <1>8 DEF Enqueue, ClientStep, CancelWriteThreadPurge, NotSent, OtherStep,
                    CancelWriteRoutine, bufferQueues
<1>9. CASE \/ BusData \/ BusError \/ BusCancelled \/ WriteCompletionSignal
           \/ CreateThread \/ IntNext \/ RequestStop \/ RequestResume
           \/ PurgeAbort \/ PurgeSignal \/ CancelWriteThread
           \/ CancelWriteThreadDone \/ EnterEnqueue
           \/ \E w \in Writes : CancelIrp(w)
  BY <1>3, <1>9, OthersCore
<1> QED BY <1>5, <1>6, <1>7, <1>8, <1>9 DEF Next, BusNext, ClientNext, CallerNext

\* An abort is known of as long as a transfer is out.
LEMMA KnownStays ==
    ASSUME CoreInv, [Next]_vars, AbortKnown
    PROVE  AbortKnown' \/ Out' = {}
<1>1. TypeInv /\ BufferInv /\ RecordInv /\ IrpInv /\ GoneInv
  BY DEF CoreInv, PipeInv
<1>2. faults \subseteq faults' /\ (dev'.present => dev.present)
  BY FaultsGrow, PresentFalls
<1>3. SUFFICES ASSUME wt.mwtState = "FLOW_OFF", "overwritten" \notin faults'
               PROVE  wt'.mwtState = "FLOW_OFF" \/ Out' = {}
  BY <1>2 DEF AbortKnown
<1>4. CASE Still
  <2>1. CASE wt.pc = "none"
    <3>1. Out = {}
      BY <1>1, <2>1 DEF GoneInv, Gone, NothingActive, Out, ToSet
    <3>2. TypeInv'
      BY StepCore DEF CoreInv, PipeInv
    <3> QED BY <1>1, <1>4, <3>1, <3>2, OutStays
  <2> QED BY <1>3, <1>4, <2>1 DEF Still
<1>5. CASE wt'.mwtState = wt.mwtState
  BY <1>3, <1>5
<1>6. wt \in WriteThread
  BY <1>1, TypeParts
<1>7. CASE UNCHANGED vars
  BY <1>5, <1>7 DEF vars
<1>8. CASE ThreadNext
  <2>1. CASE \/ Top \/ SendNothing \/ Check \/ Kick \/ CancelCurrent \/ CancelNext
             \/ CancelDone \/ CancelThread \/ Purge \/ Stop \/ Resume \/ FlowOn
             \/ FlowOff \/ FlowOffAbort \/ CompleteNothing
    BY <1>4, <2>1, ThreadCore
  <2>2. CASE TopPurge \/ SendCancelled
    <3>1. \/ wt' = [wt EXCEPT !.pc = "check", !.bPurged = FALSE]
          \/ wt' = [wt EXCEPT !.pc = "check"]
      BY <2>2 DEF TopPurge, SendCancelled, Goto
    <3> QED BY <1>5, <1>6, <3>1 DEF WriteThread
  <2>3. CASE SendTake
    <3>1. \E w : wt' = [wt EXCEPT !.pc = "sending", !.pWriteCurrent = w]
      BY <2>3 DEF SendTake
    <3> QED BY <1>5, <1>6, <3>1 DEF WriteThread
  <2>4. CASE SendSubmit
    <3>1. \E z : wt' = [wt EXCEPT !.pc = "send", !.bSendZeroLength = z]
      BY <2>4 DEF SendSubmit
    <3> QED BY <1>5, <1>6, <3>1 DEF WriteThread
  <2>5. CASE CompleteWrite
    BY <1>3, <2>5 DEF CompleteWrite
  <2>6. CASE CompleteFlowOff
    <3>1. wt'.mwtState = IF Resend THEN "WORKING" ELSE wt.mwtState
      BY <1>1, <2>6, CompleteFlowOffType
    <3>2. Resend => Out' = {}
      <4> SUFFICES ASSUME Resend PROVE Out' = {}
        OBVIOUS
      <4>1. Records' = <<>>
        BY <2>6 DEF CompleteFlowOff, Resend, Done, Records
      <4>2. RecordInv'
        BY StepCore DEF CoreInv, PipeInv
      <4>3. DOMAIN Records' = {}
        BY <4>1
      <4> QED BY <4>2, <4>3 DEF RecordInv
    <3> QED BY <1>3, <3>1, <3>2
  <2> QED BY <1>8, <2>1, <2>2, <2>3, <2>4, <2>5, <2>6 DEF ThreadNext
<1>9. CASE WriteCompletionRoutine \/ CancelWriteThreadPurge
  <2>1. wt' = wt
    BY <1>9 DEF WriteCompletionRoutine, BusStep, CancelWriteThreadPurge
  <2> QED BY <1>5, <2>1
<1>10. CASE Enqueue
  BY <1>1, <1>5, <1>10, EnqueueType
<1>11. ASSUME NEW w \in Writes, CancelWriteRoutine(w)
       PROVE  wt'.mwtState = "FLOW_OFF" \/ Out' = {}
  BY <1>1, <1>4, <1>5, <1>11, CancelWriteRoutineType DEF CancelsWrite
<1>12. CASE \/ BusData \/ BusError \/ BusCancelled \/ WriteCompletionSignal
           \/ CreateThread \/ IntNext \/ RequestStop \/ RequestResume
           \/ PurgeAbort \/ PurgeSignal \/ CancelWriteThread
           \/ CancelWriteThreadDone \/ EnterEnqueue
           \/ \E w \in Writes : CancelIrp(w)
  BY <1>4, <1>12, OthersCore
<1> QED BY <1>7, <1>8, <1>9, <1>10, <1>11, <1>12
        DEF Next, BusNext, ClientNext, CallerNext

\* Who aborts a transfer is known.
LEMMA NewlyAborted ==
    ASSUME CoreInv, AbortInv, [Next]_vars, NEW b \in Buffers, Aborted(b)'
    PROVE  Aborted(b) \/ AbortKnown'
<1>1. TypeInv /\ BufferInv /\ RecordInv /\ IrpInv
  BY DEF CoreInv, PipeInv
<1>2. buf \in [Buffers -> TransferBuffer]
  BY <1>1, TypeParts
<1>3. buf'[b].Status = "CANCELLED" /\ ~buf'[b].Cancel
  BY DEF Aborted
<1>4. CASE buf'[b] = buf[b]
  BY <1>3, <1>4 DEF Aborted
<1>5. CASE buf'[b].Status = "CANCELLED" => buf[b].Status = "CANCELLED" /\ (buf[b].Cancel => buf'[b].Cancel)
  BY <1>3, <1>5 DEF Aborted
<1>6. CASE UNCHANGED buf
  BY <1>4, <1>6
<1>7. CASE ThreadNext
  <2>1. CASE \/ Top \/ SendNothing \/ Check \/ Kick \/ CancelCurrent \/ CancelDone
             \/ Resume \/ FlowOn \/ CompleteNothing
    BY <1>1, <1>6, <2>1, ThreadAloneType DEF ThreadOnly
  <2>2. CASE TopPurge \/ SendCancelled \/ SendTake \/ FlowOff
    BY <1>6, <2>2 DEF TopPurge, SendCancelled, SendTake, FlowOff
  <2>3. CASE SendSubmit
    <3> DEFINE w == wt.pWriteCurrent
               first == IF w = 0 THEN 0 ELSE irp[w].Information
               length == IF w = 0 THEN 0 ELSE Packets[w] - first
               r == [CallingIrp |-> w, First |-> first, Length |-> length,
                     Status |-> "PENDING", Transferred |-> 0, Cancel |-> FALSE]
    <3>1. buf' = [buf EXCEPT ![Last(MWritePendingQueue)] = r] /\ r.Status = "PENDING"
      BY <2>3 DEF SendSubmit
    <3> HIDE DEF r
    <3>2. buf'[b] = r \/ buf'[b] = buf[b]
      BY <1>2, <3>1
    <3> QED BY <1>3, <1>4, <3>1, <3>2
  <2>4. CASE CancelNext
    <3>1. buf' = [buf EXCEPT ![Head(MWriteCancellingQueue)] =
                     [buf[Head(MWriteCancellingQueue)] EXCEPT
                        !.Cancel = @ \/ Contains(MWritePendingQueue, Head(MWriteCancellingQueue))]]
      BY <2>4 DEF CancelNext
    <3>2. \/ buf'[b] = buf[b]
          \/ \E c : buf'[b] = [buf[b] EXCEPT !.Cancel = buf[b].Cancel \/ c]
      BY <1>2, <3>1
    <3>3. CASE \E c : buf'[b] = [buf[b] EXCEPT !.Cancel = buf[b].Cancel \/ c]
      <4>1. PICK c : buf'[b] = [buf[b] EXCEPT !.Cancel = buf[b].Cancel \/ c]
        BY <3>3
      <4>2. buf'[b].Status = buf[b].Status /\ buf'[b].Cancel = (buf[b].Cancel \/ c)
        BY <1>2, <4>1 DEF TransferBuffer
      <4> QED BY <1>5, <4>2
    <3> QED BY <1>4, <3>2, <3>3
  <2>5. CASE CancelThread \/ Purge \/ Stop
    <3>1. PICK event \in {"CANCEL", "PURGE", "STOP"},
               state \in {"CANCELLING", "PURGING", "STOPPING"} : RequestTaken(event, state)
      BY <1>1, <2>5, Requests
    <3>2. CASE ThreadOnly
      BY <1>6, <3>2 DEF ThreadOnly
    <3>3. CASE CancelPending(state)
      <4>1. buf'[b] = buf[b] \/ buf'[b] = [buf[b] EXCEPT !.Cancel = TRUE]
        BY <1>1, <3>3, CancelPendingIs
      <4>2. buf'[b] = [buf[b] EXCEPT !.Cancel = TRUE] => buf'[b].Cancel
        BY <1>2 DEF TransferBuffer
      <4> QED BY <1>3, <1>4, <4>1, <4>2
    <3> QED BY <3>1, <3>2, <3>3 DEF RequestTaken
  <2>6. CASE FlowOffAbort
    <3>1. wt.mwtState = "FLOW_OFF" /\ wt'.mwtState = wt.mwtState
      BY <1>1, <2>6, FlowOffAbortStill DEF FlowOffAbort, AbortInv
    <3> QED BY <3>1 DEF AbortKnown
  <2>7. CASE CompleteFlowOff
    <3>1. buf' = [buf EXCEPT ![Done] = IdleBuffer]
      BY <2>7 DEF CompleteFlowOff, Done
    <3>2. buf'[b] = IdleBuffer \/ buf'[b] = buf[b]
      BY <1>2, <3>1
    <3> QED BY <1>3, <1>4, <3>2 DEF IdleBuffer
  <2>8. CASE CompleteWrite
    <3> DEFINE more == wt.mwtState # "WORKING" /\ MWritePendingQueue # <<>>
    <3>1. buf' = [x \in Buffers |->
                         IF x = Done THEN IdleBuffer
                         ELSE IF more /\ x = Head(MWritePendingQueue)
                         THEN [buf[x] EXCEPT !.Cancel = TRUE]
                         ELSE buf[x]]
      BY <2>8 DEF CompleteWrite, Done
    <3> HIDE DEF more
    <3>2. \/ buf'[b] = IdleBuffer \/ buf'[b] = [buf[b] EXCEPT !.Cancel = TRUE]
          \/ buf'[b] = buf[b]
      BY <3>1
    <3>3. buf'[b] = [buf[b] EXCEPT !.Cancel = TRUE] => buf'[b].Cancel
      BY <1>2 DEF TransferBuffer
    <3> QED BY <1>3, <1>4, <3>2, <3>3 DEF IdleBuffer
  <2> QED BY <1>7, <2>1, <2>2, <2>3, <2>4, <2>5, <2>6, <2>7, <2>8 DEF ThreadNext
<1>8. CASE BusData \/ BusError \/ BusCancelled
  <2>1. PICK x \in Buffers, status \in Finished :
               /\ \E n : buf' = [buf EXCEPT ![x] = Ended(x, status, n)]
               /\ status = "CANCELLED" => buf[x].Cancel \/ (~dev.present /\ dev' = dev)
    <3>1. CASE BusData
      BY <3>1 DEF BusData, Finished
    <3>2. CASE BusError
      BY <3>2 DEF BusError, Finished
    <3>3. CASE BusCancelled
      BY <3>3 DEF BusCancelled, Finished
    <3> QED BY <1>8, <3>1, <3>2, <3>3
  <2>2. CASE b # x
    BY <1>2, <1>4, <2>1, <2>2
  <2>3. CASE b = x
    <3>1. PICK n : buf'[b] = [buf[b] EXCEPT !.Status = status, !.Transferred = n]
      BY <1>2, <2>1, <2>3 DEF Ended
    <3>2. buf'[b].Status = status /\ buf'[b].Cancel = buf[b].Cancel
      BY <1>2, <3>1 DEF TransferBuffer
    <3>3. ~dev'.present
      BY <1>3, <2>1, <2>3, <3>2
    <3> QED BY <3>3 DEF AbortKnown
  <2> QED BY <2>2, <2>3
<1>9. CASE PurgeAbort
  <2>1. CASE HeldBuffers = <<>>
    BY <1>6, <1>9, <2>1 DEF PurgeAbort, AbortPipe
  <2>2. CASE HeldBuffers # <<>>
    <3>1. "aborted" \in faults'
      BY <1>9, <2>2 DEF PurgeAbort, FaultIf
    <3> QED BY <3>1 DEF AbortKnown
  <2> QED BY <2>1, <2>2
<1>10. CASE WriteCompletionRoutine \/ WriteCompletionSignal \/ ClientNext
            \/ IntNext \/ RequestStop \/ RequestResume \/ PurgeSignal
            \/ CancelWriteThread \/ CancelWriteThreadDone \/ CancelWriteThreadPurge
  BY <1>6, <1>10
     DEF WriteCompletionRoutine, WriteCompletionSignal, ClientNext, EnterEnqueue, Enqueue,
         CreateThread, CancelIrp, CancelWriteRoutine, ClientStep, NotSent, IntNext,
         EmptyWtCompletionQueue, NotifyFlowOff, NotifyFlowOn, FlowOffAcked,
         FlowOffTimeout, RequestStop, RequestResume, PurgeSignal, CancelWriteThread,
         CancelWriteThreadDone, CancelWriteThreadPurge
<1>11. CASE UNCHANGED vars
  BY <1>6, <1>11 DEF vars
<1> QED BY <1>7, <1>8, <1>9, <1>10, <1>11 DEF Next, BusNext, CallerNext

\* Only the flow-off makes the thread abort the pipe.
LEMMA OnlyFlowOffAborts ==
    ASSUME CoreInv, [Next]_vars, wt'.pc = "abort"
    PROVE  wt' = wt \/ wt'.mwtState = "FLOW_OFF"
              \/ (wt.pc = "abort" /\ wt'.mwtState = wt.mwtState)
<1>1. TypeInv /\ BufferInv /\ RecordInv /\ IrpInv /\ wt \in WriteThread
  BY TypeParts DEF CoreInv, PipeInv
<1>2. "abort" \notin ThreadEvents
  BY WriteBuffersAssumption DEF ThreadEvents, WriteEvents, WritePoints
<1>3. (\E e \in ThreadEvents : wt' = Signal(wt, e)) =>
         wt.pc = "abort" /\ wt'.mwtState = wt.mwtState
  BY <1>1, <1>2, SignalIs
<1>5. CASE UNCHANGED vars
  BY <1>5 DEF vars
<1>6. CASE ThreadNext
  <2>1. CASE Check
    <3>1. CASE wt' = Goto(wt, "terminated")
      BY <1>1, <3>1 DEF Goto, WriteThread
    <3>2. CASE wt' = WaitAny(wt, WriteIndex)
      <4>1. wt'.pc = "blocked" \/ wt'.pc \in wt.set
        BY <1>1, <3>2, WaitThread
      <4> QED BY <1>1, <1>2, <4>1 DEF WriteThread, ThreadEvents
    <3> QED BY <2>1, <3>1, <3>2 DEF Check
  <2>2. CASE Top
    <3>1. \E pc \in {"send", "check"} : wt' = [wt EXCEPT !.pc = pc]
      BY <2>2 DEF Top, Goto
    <3> QED BY <1>1, <3>1 DEF WriteThread
  <2>3. CASE \/ SendNothing \/ SendCancelled \/ CancelDone \/ CompleteNothing
    <3>1. \E pc \in {"top", "check"} : wt' = [wt EXCEPT !.pc = pc]
      BY <2>3 DEF SendNothing, SendCancelled, CancelDone, CompleteNothing, Goto
    <3> QED BY <1>1, <3>1 DEF WriteThread
  <2>4. CASE TopPurge
    BY <1>1, <2>4 DEF TopPurge, WriteThread
  <2>5. CASE SendTake
    <3>1. \E w : wt' = [wt EXCEPT !.pc = "sending", !.pWriteCurrent = w]
      BY <2>5 DEF SendTake
    <3> QED BY <1>1, <3>1 DEF WriteThread
  <2>6. CASE SendSubmit
    <3>1. \E z : wt' = [wt EXCEPT !.pc = "send", !.bSendZeroLength = z]
      BY <2>6 DEF SendSubmit
    <3> QED BY <1>1, <3>1 DEF WriteThread
  <2>7. CASE Kick \/ CancelCurrent
    <3>1. \E e, pc \in {"KICK", "top", "CANCEL_CURRENT", "cancelling"} :
             wt' = [wt EXCEPT !.set = wt.set \ {e}, !.pc = pc]
      BY <2>7 DEF Kick, CancelCurrent, Clear
    <3> QED BY <1>1, <3>1 DEF WriteThread
  <2>8. CASE CancelNext
    BY <2>8 DEF CancelNext
  <2>9. CASE CancelThread \/ Purge \/ Stop
    BY <1>1, <2>9, Requests DEF RequestTaken
  <2>10. CASE Resume
    <3>1. wt' = [[wt EXCEPT !.set = wt.set \ {"RESUME"}, !.pc = "top"]
                    EXCEPT !.bWriteStopped = dev.PowerSuspended]
      BY <2>10 DEF Resume, Clear
    <3> QED BY <1>1, <3>1 DEF WriteThread
  <2>11. CASE FlowOn
    <3>1. wt' = [[wt EXCEPT !.set = wt.set \ {"FLOW_ON"}, !.pc = "top"]
                    EXCEPT !.bWriteStopped = dev.PowerSuspended, !.bFlowOn = TRUE]
      BY <2>11 DEF FlowOn, Clear
    <3> QED BY <1>1, <3>1 DEF WriteThread
  <2>12. CASE FlowOff
    BY <1>1, <2>12, FlowOffType
  <2>13. CASE FlowOffAbort
    BY <1>1, <2>13, FlowOffAbortStill
  <2>14. CASE CompleteFlowOff \/ CompleteWrite
    BY <2>14, CompleteFlowOffCore, CompleteWriteCore DEF Frees
  <2> QED BY <1>6, <2>1, <2>2, <2>3, <2>4, <2>5, <2>6, <2>7, <2>8, <2>9, <2>10,
             <2>11, <2>12, <2>13, <2>14 DEF ThreadNext
<1>7. CASE BusNext
  <2>1. CASE WriteCompletionSignal
    BY <1>1, <1>3, <2>1, SignalStill, TypeParts DEF ThreadEvents
  <2>2. CASE BusData \/ BusError \/ BusCancelled \/ WriteCompletionRoutine
    BY <2>2 DEF BusData, BusError, BusCancelled, WriteCompletionRoutine, BusStep
  <2> QED BY <1>7, <2>1, <2>2 DEF BusNext
<1>8. CASE ClientNext
  <2>1. CASE Enqueue
    BY <1>1, <1>3, <2>1, EnqueueType DEF ThreadEvents, WriteEvents
  <2>2. CASE CreateThread
    BY <1>1, <2>2, CreateThreadStill
  <2>3. CASE EnterEnqueue \/ \E w \in Writes : CancelIrp(w)
    BY <2>3 DEF EnterEnqueue, CancelIrp
  <2>4. CASE \E w \in Writes : CancelWriteRoutine(w)
    BY <1>1, <1>3, <2>4, CancelWriteRoutineType
       DEF CancelsWrite, CancelsTransfer, ThreadEvents, WriteEvents
  <2> QED BY <1>8, <2>1, <2>2, <2>3, <2>4 DEF ClientNext
<1>9. CASE IntNext \/ CallerNext
  <2>1. CASE \/ NotifyFlowOff \/ NotifyFlowOn \/ RequestStop \/ RequestResume
             \/ PurgeSignal \/ CancelWriteThread
    BY <1>1, <1>3, <2>1, AskersStill DEF ThreadEvents
  <2>2. CASE EmptyWtCompletionQueue \/ FlowOffAcked \/ FlowOffTimeout \/ PurgeAbort
    BY <1>1, <2>2, WatchersStill
  <2>3. CASE CancelWriteThreadDone
    BY <1>1, <2>3, CancelWriteThreadDoneStill
  <2>4. CASE CancelWriteThreadPurge
    BY <2>4 DEF CancelWriteThreadPurge
  <2> QED BY <1>9, <2>1, <2>2, <2>3, <2>4 DEF IntNext, CallerNext
<1> QED BY <1>5, <1>6, <1>7, <1>8, <1>9 DEF Next

LEMMA StepAbort ==
    ASSUME CoreInv, AbortInv, [Next]_vars
    PROVE  AbortInv'
<1>1. CoreInv' /\ \A b \in Out' : b \in Out \/ buf'[b].Status = "PENDING"
  BY OutBefore
<1>2. wt'.pc = "abort" => wt'.mwtState = "FLOW_OFF"
  BY OnlyFlowOffAborts DEF AbortInv
<1>3. ASSUME NEW b \in Out', Aborted(b)'
      PROVE  AbortKnown'
  <2>1. b \in Out
    BY <1>1, <1>3 DEF Aborted
  <2>2. b \in Buffers
    BY <2>1, TypeParts, Members DEF CoreInv, PipeInv, Out
  <2>3. CASE Aborted(b)
    BY <1>3, <2>1, <2>3, KnownStays DEF AbortInv
  <2> QED BY <1>3, <2>2, <2>3, NewlyAborted
<1> QED BY <1>2, <1>3 DEF AbortInv

\* A write that was not queued and whose cancel routine was set is answered
\* with CANCELLED only when its transfer is handled.
LEMMA AnsweredByHandling ==
    ASSUME CoreInv, [Next]_vars, NEW w \in Writes, AnswersCancelled(w),
           w \notin ToSet(WriteDataQueue)
    PROVE  CompleteWrite \/ CompleteFlowOff
<1>1. TypeInv /\ BufferInv /\ RecordInv /\ IrpInv
  BY DEF CoreInv, PipeInv
<1>2. /\ irp[w].where = "active" /\ irp[w].routine = "set"
      /\ irp'[w].where = "answered"
  BY DEF AnswersCancelled
<1>3. irp'[w] # irp[w] /\ ~UNCHANGED irp
  BY <1>2
<1>4. ~Still
  BY <1>2 DEF Still, IrpMoves
<1>5. SUFFICES ASSUME ~CompleteWrite, ~CompleteFlowOff PROVE FALSE
  OBVIOUS
<1>6. ~PurgeQueue
  BY <1>1, <1>3, PurgeQueueIs
<1>7. CASE UNCHANGED vars
  BY <1>3, <1>7 DEF vars
<1>8. CASE ThreadNext
  <2>1. CASE \/ Top \/ SendNothing \/ Check \/ Kick \/ CancelCurrent \/ CancelNext
             \/ CancelDone \/ CancelThread \/ Purge \/ Stop \/ Resume \/ FlowOn
             \/ FlowOff \/ FlowOffAbort \/ CompleteNothing
    BY <1>4, <2>1, ThreadCore
  <2>2. CASE TopPurge \/ SendCancelled \/ SendTake \/ SendSubmit
    BY <1>3, <1>6, <2>2 DEF TopPurge, SendCancelled, SendTake, SendSubmit
  <2> QED BY <1>5, <1>8, <2>1, <2>2 DEF ThreadNext
<1>9. CASE WriteCompletionRoutine \/ CancelWriteThreadPurge
  BY <1>3, <1>6, <1>9 DEF WriteCompletionRoutine, BusStep, CancelWriteThreadPurge
<1>10. CASE Enqueue
  BY <1>1, <1>2, <1>10, EnqueueType
<1>11. ASSUME NEW v \in Writes, CancelWriteRoutine(v)
       PROVE  FALSE
  <2>1. CancelsWrite(v)
    BY <1>1, <1>4, <1>11, CancelWriteRoutineType
  <2>2. v # w
    BY <1>2, <2>1 DEF CancelsWrite
  <2> QED BY <1>3, <2>1, <2>2 DEF CancelsWrite
<1>12. CASE \/ BusData \/ BusError \/ BusCancelled \/ WriteCompletionSignal
            \/ CreateThread \/ IntNext \/ RequestStop \/ RequestResume
            \/ PurgeAbort \/ PurgeSignal \/ CancelWriteThread
            \/ CancelWriteThreadDone \/ EnterEnqueue
           \/ \E v \in Writes : CancelIrp(v)
  BY <1>4, <1>12, OthersCore
<1> QED BY <1>7, <1>8, <1>9, <1>10, <1>11, <1>12
        DEF Next, BusNext, ClientNext, CallerNext

\* With the flow off a write is answered only with success; else its transfer
\* was cancelled by its client, a request or an abort, and no flow-off's.
LEMMA HandlingIsKnown ==
    ASSUME CoreInv, AbortInv, CompleteWrite \/ CompleteFlowOff,
           NEW w \in Writes, AnswersCancelled(w)
    PROVE  \/ ~dev.present \/ buf[Done].Cancel
           \/ faults \cap {"aborted", "overwritten"} # {}
<1>1. TypeInv /\ BufferInv /\ RecordInv /\ Handles
  BY DEF CoreInv, PipeInv, CompleteWrite, CompleteFlowOff, Handles
<1>2. /\ irp[w].where = "active" /\ irp[w].routine = "set"
      /\ irp'[w].where = "answered" /\ irp'[w].Status = "CANCELLED"
  BY DEF AnswersCancelled
<1>3. Done \in Buffers /\ Done \in Out /\ DoneStatus \in TransferStatus
  BY <1>1, DoneIs
<1>4. irp' # Adjusted(Done)
  <2> SUFFICES ASSUME irp' = Adjusted(Done) PROVE FALSE
    OBVIOUS
  <2>1. \/ irp'[w] = irp[w]
        \/ irp'[w] = [irp[w] EXCEPT !.Information = buf[Done].Transferred]
    BY <1>1, <1>3, AdjustedIs
  <2>2. irp[w] \in WriteIrp
    BY <1>1, TypeParts
  <2> QED BY <1>2, <2>1, <2>2 DEF WriteIrp
<1>5. irp' = AnswerTransfer(Done, DoneStatus) => DoneStatus = "CANCELLED"
  <2> SUFFICES ASSUME irp' = AnswerTransfer(Done, DoneStatus) PROVE DoneStatus = "CANCELLED"
    OBVIOUS
  <2>1. /\ w # buf[Done].CallingIrp => irp'[w] = irp[w]
        /\ w = buf[Done].CallingIrp /\ irp[w].routine = "set" =>
              irp'[w].Status = DoneStatus
    BY <1>1, <1>3, AnswerTransferIs
  <2> QED BY <1>2, <2>1
<1>6. CASE CompleteFlowOff
  <2>1. irp' = IF DoneStatus = "SUCCESS" THEN AnswerTransfer(Done, DoneStatus)
               ELSE Adjusted(Done)
    BY <1>6 DEF CompleteFlowOff, Done, DoneStatus
  <2> QED BY <1>4, <1>5, <2>1
<1>7. CASE CompleteWrite
  <2>1. irp' = AnswerTransfer(Done, DoneStatus) /\ wt.mwtState # "FLOW_OFF"
    BY <1>7 DEF CompleteWrite, Done, DoneStatus
  <2>2. ~dev.present \/ buf[Done].Status = "CANCELLED"
    BY <1>5, <2>1 DEF DoneStatus
  <2> QED BY <1>3, <2>1, <2>2 DEF AbortInv, AbortKnown, Aborted
<1> QED BY <1>6, <1>7

LEMMA QuietIsHeld ==
    ASSUME CoreInv, FlowInv
    PROVE  FlowOffQuiet
<1>1. TypeInv
  BY DEF CoreInv, PipeInv
<1>2. SUFFICES ASSUME int.flow = "off", faults \cap {"idleOff", "forgotten", "late"} = {},
                      NEW b \in Range(MWritePendingQueue)
               PROVE  ~Held(b)
  BY DEF FlowOffQuiet
<1>3. FlowIsQuiet
  BY <1>2 DEF FlowInv, FlowAcked
<1>4. b \in ToSet(MWritePendingQueue)
  BY <1>1, <1>2, TypeParts, Members
<1> QED BY <1>3, <1>4 DEF FlowIsQuiet, Held

LEMMA InitFlow ==
    ASSUME Init
    PROVE  FlowInv /\ BlockedInv /\ AbortInv
<1>1. PICK spent \in AnySpent : InitWith(spent)
  BY DEF Init
<1>2. /\ wt = NewThread({}, FALSE) /\ int = [flow |-> "on", acked |-> FALSE]
      /\ MWritePendingQueue = <<>> /\ MWriteCompletionQueue = <<>>
  BY <1>1 DEF InitWith
<1>3. wt.pc = "top" /\ wt.set = {} /\ wt.mwtState = "WORKING" /\ int.flow = "on"
  BY <1>2 DEF NewThread
<1>4. Out = {}
  BY <1>2, ElementsOfNone DEF Out
<1> QED BY <1>3, <1>4 DEF FlowInv, FlowAsked, FlowAcked, BlockedInv, AbortInv

\* Once a flow-off has been acknowledged the lower driver holds no transfer
\* until the flow is turned on again, if the thread had something to abort, did
\* not start anew meanwhile and answered in time; and from the notification on
\* the thread answers no write with CANCELLED whose transfer only the flow-off
\* has ended.
THEOREM FlowOffIsQuietAndLosesNothing == Spec => FlowOffHolds
<1> DEFINE I == CoreInv /\ FlowInv /\ BlockedInv /\ AbortInv
<1>1. Init => I
  BY InitCore, InitFlow
<1>2. I /\ [Next]_vars => I'
  BY StepCore, StepFlow, StepBlocked, StepAbort
<1>3. I => FlowOffQuiet
  BY QuietIsHeld
<1>4. I /\ [Next]_vars =>
      [\A w \in Writes :
             /\ wt.pc \in Buffers /\ AnswersCancelled(w)
             /\ ~Contains(WriteDataQueue, w)
             /\ int.flow \in {"waiting", "off"}
             => \/ ~dev.present \/ buf[Head(MWriteCompletionQueue)].Cancel
                \/ faults \cap {"aborted", "overwritten"} # {}]_vars
  <2> SUFFICES ASSUME I, [Next]_vars, NEW w \in Writes, AnswersCancelled(w),
                      ~Contains(WriteDataQueue, w)
               PROVE  \/ ~dev.present \/ buf[Head(MWriteCompletionQueue)].Cancel
                      \/ faults \cap {"aborted", "overwritten"} # {}
    OBVIOUS
  <2>1. WriteDataQueue \in Seq(Writes)
    BY TypeParts DEF CoreInv, PipeInv
  <2>2. w \notin ToSet(WriteDataQueue)
    BY <2>1, Members
  <2> QED BY <2>2, AnsweredByHandling, HandlingIsKnown DEF Done
<1> HIDE DEF I
<1> QED BY <1>1, <1>2, <1>3, <1>4, PTL DEF Spec, FlowOffHolds

=============================================================================
