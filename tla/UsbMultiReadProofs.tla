------------------------- MODULE UsbMultiReadProofs -------------------------
(***************************************************************************)
(* Proofs about UsbMultiRead, for every ring size, every number of         *)
(* requesters and every value of the bounds.                               *)
(***************************************************************************)
EXTENDS UsbMultiRead, SubsequenceProofs, TLAPS

-----------------------------------------------------------------------------
\* A counter below its bound may be raised by one.
LEMMA OneMore ==
    ASSUME NEW n \in Nat, NEW k \in 0 .. n, k < n
    PROVE  k + 1 \in 0 .. n
  OBVIOUS

-----------------------------------------------------------------------------
(***************************************************************************)
(* The wait of a thread.                                                   *)
(***************************************************************************)

\* A wait on L1's events returns one that is set.
LEMMA L1Lowest ==
    ASSUME NEW set \in SUBSET L1Events, set # {}
    PROVE  LowestEvent(set, L1Index) \in set
<1>1. \E e \in set : \A f \in set : L1Index[e] <= L1Index[f]
  <2>1. CASE set \subseteq {"CANCEL", "KICK", "COMPLETION", "PURGE", "STOP", "RESUME"} /\ "CANCEL" \in set
    BY <2>1 DEF L1Index
  <2>2. CASE set \subseteq {"KICK", "COMPLETION", "PURGE", "STOP", "RESUME"} /\ "KICK" \in set
    BY <2>2 DEF L1Index
  <2>3. CASE set \subseteq {"COMPLETION", "PURGE", "STOP", "RESUME"} /\ "COMPLETION" \in set
    BY <2>3 DEF L1Index
  <2>4. CASE set \subseteq {"PURGE", "STOP", "RESUME"} /\ "PURGE" \in set
    BY <2>4 DEF L1Index
  <2>5. CASE set \subseteq {"STOP", "RESUME"} /\ "STOP" \in set
    BY <2>5 DEF L1Index
  <2>6. CASE set \subseteq {"RESUME"} /\ "RESUME" \in set
    BY <2>6 DEF L1Index
  <2> QED BY <2>1, <2>2, <2>3, <2>4, <2>5, <2>6 DEF L1Events
<1> QED BY <1>1 DEF LowestEvent

\* A wait on L2's events returns one that is set.
LEMMA L2Lowest ==
    ASSUME NEW set \in SUBSET L2Events, set # {}
    PROVE  LowestEvent(set, L2Index) \in set
<1>1. \E e \in set : \A f \in set : L2Index[e] <= L2Index[f]
  <2>1. CASE set \subseteq {"CANCEL", "KICK", "STOP", "RESUME", "USB"} /\ "CANCEL" \in set
    BY <2>1 DEF L2Index
  <2>2. CASE set \subseteq {"KICK", "STOP", "RESUME", "USB"} /\ "KICK" \in set
    BY <2>2 DEF L2Index
  <2>3. CASE set \subseteq {"STOP", "RESUME", "USB"} /\ "STOP" \in set
    BY <2>3 DEF L2Index
  <2>4. CASE set \subseteq {"RESUME", "USB"} /\ "RESUME" \in set
    BY <2>4 DEF L2Index
  <2>5. CASE set \subseteq {"USB"} /\ "USB" \in set
    BY <2>5 DEF L2Index
  <2> QED BY <2>1, <2>2, <2>3, <2>4, <2>5 DEF L2Events
<1> QED BY <1>1 DEF LowestEvent

\* What a signal does to L1's record.
LEMMA SignalL1 ==
    ASSUME l1 \in L1Thread, NEW e \in L1Events
    PROVE  /\ Signal(l1, e) \in L1Thread
           /\ Signal(l1, e).pc # l1.pc => l1.pc = "blocked"
BY DEF Signal, L1Thread, L1Pcs, L1Events

\* What a signal does to L2's record.
LEMMA SignalL2 ==
    ASSUME l2 \in L2Thread, NEW e \in L2Events
    PROVE  /\ Signal(l2, e) \in L2Thread
           /\ Signal(l2, e).pc # l2.pc => /\ l2.pc = "blocked"
                                          /\ Signal(l2, e).pc \in L2Events
           /\ Signal(l2, e).pActiveL2Buf = l2.pActiveL2Buf
BY DEF Signal, L2Thread, L2Pcs, L2Events

\* What it does to L1's record to clear an event.
LEMMA ClearL1 ==
    ASSUME l1 \in L1Thread, NEW e, NEW pc \in L1Pcs
    PROVE  Clear(l1, e, pc) \in L1Thread
<1>1. l1.set \ {e} \in SUBSET L1Events
  BY DEF L1Thread
<1> QED BY <1>1 DEF Clear, L1Thread

\* What it does to L2's record to clear an event.
LEMMA ClearL2 ==
    ASSUME l2 \in L2Thread, NEW e, NEW pc \in L2Pcs
    PROVE  /\ Clear(l2, e, pc) \in L2Thread
           /\ Clear(l2, e, pc).pc = pc
           /\ Clear(l2, e, pc).pActiveL2Buf = l2.pActiveL2Buf
<1>1. l2.set \ {e} \in SUBSET L2Events
  BY DEF L2Thread
<1> QED BY <1>1 DEF Clear, L2Thread

\* A wait leaves L1 blocked or at one of its events.
LEMMA WaitL1 ==
    ASSUME l1 \in L1Thread
    PROVE  /\ WaitAny(l1, L1Index) \in L1Thread
           /\ WaitAny(l1, L1Index).pc \in L1Events \cup {"blocked"}
BY L1Lowest DEF WaitAny, L1Thread, L1Pcs

\* A wait leaves L2 blocked or at one of its events.
LEMMA WaitL2 ==
    ASSUME l2 \in L2Thread
    PROVE  /\ WaitAny(l2, L2Index) \in L2Thread
           /\ WaitAny(l2, L2Index).pc \in L2Events \cup {"blocked"}
BY L2Lowest DEF WaitAny, L2Thread, L2Pcs

\* The ring's indices go round.
LEMMA NextIdxType == \A i \in Idx : NextIdx(i) \in Idx
BY BuffersAssumption DEF NextIdx, Idx

\* 0 is an index.
LEMMA ZeroIdx == 0 \in Idx
BY BuffersAssumption DEF Idx

-----------------------------------------------------------------------------
(***************************************************************************)
(* Type correctness.                                                       *)
(***************************************************************************)

\* The ring's buffers and IRPs that a reset leaves.
LEMMA ResetType ==
    ASSUME TypeOK, ResetL2Buffers
    PROVE  /\ buf' \in [Idx -> Buffer] /\ irp' \in [Idx -> ReadIrp]
           /\ L2IrpEndIdx' \in Idx /\ L2FillIdx' \in Idx
           /\ misuse' \in {"none", "stale", "broken"}
<1>1. ReadyBuffer \in Buffer
  BY BoundsAssumption DEF ReadyBuffer, Buffer, Status, Frames
<1>2. ASSUME NEW i \in Idx
      PROVE  [irp[i] EXCEPT !.Status = "SUCCESS", !.Cancel = FALSE] \in ReadIrp
  BY DEF TypeOK, ReadIrp, Status
<1> QED BY <1>1, <1>2, ZeroIdx DEF TypeOK, ResetL2Buffers

\* The initial state is of the right type.
LEMMA InitType == Init => TypeOK
<1> SUFFICES ASSUME Init PROVE TypeOK
  OBVIOUS
<1> USE DEF Init, InitWith
<1>1. buf \in [Idx -> Buffer] /\ irp \in [Idx -> ReadIrp]
  BY BoundsAssumption DEF ReadyBuffer, Buffer, ReadIrp, Status, Frames
<1>2. l1 \in L1Thread /\ l2 \in L2Thread
  BY ZeroIdx DEF NewL1, NewL2, L1Thread, L2Thread, L1Pcs, L2Pcs
<1>3. count \in Counts
  BY BoundsAssumption DEF NothingSpent, Counts, Frames
<1>4. rpc \in [Requesters -> RequesterPcs] /\ dev \in Device
  BY DEF RequesterPcs, Device
<1> QED BY <1>1, <1>2, <1>3, <1>4, ZeroIdx, EmptySeq DEF TypeOK

\* The end of a transfer.
LEMMA FinishType ==
    ASSUME irp \in [Idx -> ReadIrp], NEW i \in Idx, NEW status \in Status,
           NEW frame \in Frames, Finish(i, status, frame)
    PROVE  irp' \in [Idx -> ReadIrp]
<1>1. irp[i] \in ReadIrp
  OBVIOUS
<1>2. [[irp[i] EXCEPT !.Status = status] EXCEPT !.Frame = frame] \in ReadIrp
  BY <1>1 DEF ReadIrp
<1> QED BY <1>2 DEF Finish

\* The transfers' steps keep the type.
LEMMA BusType == ASSUME TypeOK, BusNext PROVE TypeOK'
<1> USE DEF TypeOK, BusStep, queues
<1>1. ASSUME BusData PROVE TypeOK'
  <2>1. count.sent + 1 \in Frames
    <3>1. count.sent \in Frames /\ count.sent < MaxFrames
      BY <1>1 DEF BusData, Counts
    <3> QED BY <3>1, BoundsAssumption, OneMore DEF Frames
  <2>2. irp' \in [Idx -> ReadIrp]
    BY <1>1, <2>1, FinishType DEF BusData, Status
  <2>3. count' \in Counts
    BY <1>1, <2>1 DEF BusData, Counts
  <2> QED BY <1>1, <2>2, <2>3 DEF BusData
<1>2. ASSUME BusBadTransfer PROVE TypeOK'
  <2>1. irp' \in [Idx -> ReadIrp]
    BY SMTT(30), <1>2, FinishType, BoundsAssumption DEF BusBadTransfer, Status, Frames
  <2>2. count.bad + 1 \in 0 .. MaxBadTransfers
    <3>1. count.bad \in 0 .. MaxBadTransfers /\ count.bad < MaxBadTransfers
      BY <1>2 DEF BusBadTransfer, Counts
    <3> QED BY <3>1, BoundsAssumption, OneMore
  <2>3. count' \in Counts
    BY <1>2, <2>2 DEF BusBadTransfer, Counts
  <2> QED BY <1>2, <2>1, <2>3 DEF BusBadTransfer
<1>3. ASSUME BusCancelled PROVE TypeOK'
  <2>1. irp' \in [Idx -> ReadIrp]
    BY <1>3, FinishType, BoundsAssumption DEF BusCancelled, Status, Frames
  <2> QED BY <1>3, <2>1 DEF BusCancelled
<1>4. ASSUME MultiReadCompletionRoutine PROVE TypeOK'
  <2>1. PICK k \in DOMAIN L2PendingQueue :
           /\ L2PendingQueue' = RemoveAt(L2PendingQueue, k)
           /\ L2CompletionQueue' =
                 Append(L2CompletionQueue, L2PendingQueue[k])
    BY <1>4 DEF MultiReadCompletionRoutine
  <2>2. k \in 1 .. Len(L2PendingQueue) /\ L2PendingQueue[k] \in Idx
    BY LenProperties
  <2>3. L2PendingQueue' \in Seq(Idx) /\ L2CompletionQueue' \in Seq(Idx)
    BY <2>1, <2>2, RemoveAtSeq, AppendProperties
  <2>4. l2' \in L2Thread
    BY <1>4, SignalL2 DEF MultiReadCompletionRoutine, L2Events
  <2> QED BY <1>4, <2>3, <2>4
             DEF MultiReadCompletionRoutine, ring, others
<1> QED BY <1>1, <1>2, <1>3, <1>4 DEF BusNext

\* IoCancelIrp on the next active transfer.
LEMMA CancelType ==
    ASSUME irp \in [Idx -> ReadIrp], L2PendingQueue \in Seq(Idx), Active,
           CancelNextActive
    PROVE  irp' \in [Idx -> ReadIrp]
<1>1. Head(L2PendingQueue) \in Idx
  BY HeadTailProperties DEF Active
<1>2. [irp[Head(L2PendingQueue)] EXCEPT !.Cancel = TRUE] \in ReadIrp
  BY <1>1 DEF ReadIrp
<1> QED BY <1>1, <1>2 DEF CancelNextActive

\* The steps of the L2 thread keep the type.
LEMMA L2Type == ASSUME TypeOK, L2Next PROVE TypeOK'
<1> USE DEF TypeOK, L2Step, L2Frame, queues
<1>1. ASSUME L2Submit PROVE TypeOK'
  <2>1. buf' \in [Idx -> Buffer]
    BY <1>1 DEF L2Submit, Buffer
  <2>2. irp' \in [Idx -> ReadIrp]
    BY <1>1, BoundsAssumption DEF L2Submit, ReadIrp, Status, Frames
  <2>3. L2PendingQueue' \in Seq(Idx)
    BY <1>1, AppendProperties DEF L2Submit
  <2>4. l2' \in L2Thread
    BY <1>1 DEF L2Submit, Goto, L2Thread, L2Pcs
  <2> QED BY <1>1, <2>1, <2>2, <2>3, <2>4 DEF L2Submit
<1>2. ASSUME L2SubmitDone PROVE TypeOK'
  BY <1>2 DEF L2SubmitDone, Goto, L2Thread, L2Pcs
<1>3. ASSUME L2Advance PROVE TypeOK'
  BY <1>3, NextIdxType DEF L2Advance, L2Thread, L2Pcs
<1>4. ASSUME L2AdvanceInline PROVE TypeOK'
  <2>1. L2IrpEndIdx' \in Idx
    BY <1>4, NextIdxType DEF L2AdvanceInline
  <2>2. buf' \in [Idx -> Buffer]
    <3>1. irp[L2IrpEndIdx].Status \in Status
      BY DEF ReadIrp
    <3>2. [[buf[L2IrpEndIdx] EXCEPT !.State = "COMPLETED"]
             EXCEPT !.Status = irp[L2IrpEndIdx].Status] \in Buffer
      BY <3>1 DEF Buffer
    <3> QED BY <1>4, <3>2 DEF L2AdvanceInline
  <2>3. l2' \in L2Thread
    <3> DEFINE errors == IF Failed(irp[L2IrpEndIdx].Status)
                         THEN l2.devErrCnt + 1 ELSE 0
    <3>1. errors \in Nat /\ l2.set \cup {"STOP"} \in SUBSET L2Events
      BY DEF L2Thread, L2Events
    <3>2. l2' = IF errors > 3
                THEN [l2 EXCEPT !.pc = "submit", !.devErrCnt = errors,
                                !.bL2Stopped = TRUE, !.state = "STOPPING",
                                !.set = @ \cup {"STOP"}]
                ELSE [l2 EXCEPT !.pc = "submit", !.devErrCnt = errors]
      BY <1>4 DEF L2AdvanceInline
    <3> HIDE DEF errors
    <3> QED BY <3>1, <3>2 DEF L2Thread, L2Pcs
  <2>4. count' \in Counts
    <3>1. count.inline + 1 \in 0 .. MaxInline
      <4>1. count.inline \in 0 .. MaxInline /\ count.inline < MaxInline
        BY <1>4 DEF L2AdvanceInline, Counts
      <4> QED BY <4>1, BoundsAssumption, OneMore
    <3> QED BY <1>4, <3>1 DEF L2AdvanceInline, Counts
  <2> QED BY <1>4, <2>1, <2>2, <2>3, <2>4 DEF L2AdvanceInline
<1>5. ASSUME L2Wait PROVE TypeOK'
  BY <1>5, WaitL2 DEF L2Wait
<1>6. ASSUME L2Kick PROVE TypeOK'
  BY <1>6, ClearL2 DEF L2Kick, L2Pcs
<1>7. ASSUME L2Cancel PROVE TypeOK'
  <2>1. l2' \in L2Thread
    <3>1. /\ Clear(l2, "CANCEL", "wait") \in L2Thread
          /\ Clear(l2, "CANCEL", "terminated") \in L2Thread
      BY ClearL2 DEF L2Pcs
    <3> QED BY <1>7, <3>1 DEF L2Cancel, L2Thread
  <2>2. irp' \in [Idx -> ReadIrp] /\ L2CompletionQueue' \in Seq(Idx)
    BY <1>7, CancelType, EmptySeq DEF L2Cancel
  <2> QED BY <1>7, <2>1, <2>2 DEF L2Cancel
<1>8. ASSUME L2Stop PROVE TypeOK'
  <2>1. l2' \in L2Thread
    <3>1. /\ Clear(l2, "STOP", "wait") \in L2Thread
          /\ Clear(l2, "STOP", "submit") \in L2Thread
      BY ClearL2 DEF L2Pcs
    <3> QED BY ZenonT(30), <1>8, <3>1 DEF L2Stop, L2Thread
  <2>2. irp' \in [Idx -> ReadIrp] /\ events' \subseteq Acknowledgements
    BY <1>8, CancelType DEF L2Stop, Acknowledgements
  <2> QED BY <1>8, <2>1, <2>2 DEF L2Stop
<1>9. ASSUME L2Resume PROVE TypeOK'
  <2>1. l2' \in L2Thread
    <3>1. Clear(l2, "RESUME", "submit") \in L2Thread
      BY ClearL2 DEF L2Pcs
    <3> QED BY <1>9, <3>1 DEF L2Resume, L2Thread, Device
  <2> QED BY <1>9, <2>1 DEF L2Resume, Acknowledgements
<1>10. ASSUME L2Dequeue PROVE TypeOK'
  <2>1. L2CompletionQueue # <<>> => /\ Head(L2CompletionQueue) \in Idx
                                    /\ Tail(L2CompletionQueue) \in Seq(Idx)
    BY HeadTailProperties
  <2>2. {"submit", "clear", "complete"} \subseteq L2Pcs
    BY DEF L2Pcs
  <2>3. l2' \in L2Thread
    BY <1>10, <2>1, <2>2 DEF L2Dequeue, Goto, L2Thread
  <2> QED BY <1>10, <2>1, <2>3 DEF L2Dequeue
<1>11. ASSUME L2ClearEvent PROVE TypeOK'
  BY <1>11, ClearL2 DEF L2ClearEvent, L2Pcs
<1>12. ASSUME L2Complete PROVE TypeOK'
  <2>1. l2.pActiveL2Buf \in Idx
    BY DEF L2Thread
  <2>2. CompletedBuffer(l2.pActiveL2Buf) \in Buffer
    BY <2>1 DEF CompletedBuffer, Buffer, ReadIrp
  <2>3. buf' \in [Idx -> Buffer]
    BY <1>12, <2>1, <2>2 DEF L2Complete, RecordCompletion
  <2>4. l2' \in L2Thread
    <3>1. {"notify", "stopSelf"} \subseteq L2Pcs
      BY DEF L2Pcs
    <3>2. l2.devBusyCnt + 1 \in Nat
      BY DEF L2Thread
    <3> QED BY <1>12, <3>1, <3>2 DEF L2Complete, Goto, L2Thread
  <2> QED BY <1>12, <2>3, <2>4 DEF L2Complete
<1>13. ASSUME L2StopSelf PROVE TypeOK'
  <2>1. l1' \in L1Thread
    BY <1>13, SignalL1 DEF L2StopSelf, L1Events
  <2>2. l2' \in L2Thread
    BY <1>13 DEF L2StopSelf, L2Thread, L2Pcs, L2Events
  <2> QED BY <1>13, <2>1, <2>2 DEF L2StopSelf
<1>14. ASSUME L2Notify PROVE TypeOK'
  <2>1. l1' \in L1Thread
    BY <1>14, SignalL1 DEF L2Notify, L1Events
  <2>2. irp' \in [Idx -> ReadIrp] /\ L2CompletionQueue' \in Seq(Idx)
    BY ZenonT(30), <1>14, CancelType, EmptySeq DEF L2Notify
  <2>3. l2' \in L2Thread
    <3>1. {"wait", "submit", "terminated"} \subseteq L2Pcs
      BY DEF L2Pcs
    <3>2. l2.set \cup {"STOP"} \in SUBSET L2Events
      BY DEF L2Thread, L2Events
    <3>3. (l2.bL2Stopped \/ ~dev.present) \in BOOLEAN
      BY DEF L2Thread
    <3> QED BY ZenonT(30), <1>14, <3>1, <3>2, <3>3 DEF L2Notify, Goto, L2Thread
  <2>4. events' \subseteq Acknowledgements
    BY <1>14 DEF L2Notify, Acknowledgements
  <2> QED BY <1>14, <2>1, <2>2, <2>3, <2>4 DEF L2Notify
<1> QED BY <1>1, <1>2, <1>3, <1>4, <1>5, <1>6, <1>7, <1>8, <1>9, <1>10, <1>11,
           <1>12, <1>13, <1>14 DEF L2Next

\* Other steps of L1's record.
LEMMA GotoL1 ==
    ASSUME l1 \in L1Thread, NEW pc \in L1Pcs
    PROVE  Goto(l1, pc) \in L1Thread
BY DEF Goto, L1Thread

\* The steps of the L1 thread keep the type.
LEMMA L1Type == ASSUME TypeOK, L1Next PROVE TypeOK'
<1> USE DEF TypeOK, L1Step, L1NoData, queues
<1> DEFINE Stands == {"wait", "COMPLETION", "fill", "checkKick", "stopSignal",
                      "stopWait", "resumeWait", "purgeWait", "cancelWait",
                      "exit", "terminated"}
<1>0. Stands \subseteq L1Pcs
  BY DEF L1Pcs, L1Events
<1>1. ASSUME L1Wait PROVE TypeOK'
  <2>1. l1' \in L1Thread
    BY <1>0, <1>1, WaitL1, GotoL1 DEF L1Wait
  <2> QED BY <1>1, <2>1 DEF L1Wait
<1>2. ASSUME L1Completion PROVE TypeOK'
  BY <1>0, <1>2, ClearL1 DEF L1Completion
<1>3. ASSUME L1Kick PROVE TypeOK'
  <2>1. l1' \in L1Thread
    BY <1>0, <1>3, ClearL1 DEF L1Kick
  <2>2. l2' \in L2Thread
    BY <1>3, SignalL2 DEF L1Kick, L2Events
  <2> QED BY <1>3, <2>1, <2>2 DEF L1Kick
<1>4. RecycleL2FillBuffer => buf' \in [Idx -> Buffer] /\ L2FillIdx' \in Idx
  <2>1. ReadyBuffer \in Buffer
    BY BoundsAssumption DEF ReadyBuffer, Buffer, Status, Frames
  <2> QED BY <2>1, NextIdxType DEF RecycleL2FillBuffer
<1>5. ASSUME L1Drop PROVE TypeOK'
  <2>1. l1' \in L1Thread
    BY <1>0, <1>5 DEF L1Drop, L1Thread
  <2> QED BY <1>4, <1>5, <2>1 DEF L1Drop
<1>6. ASSUME L1FillReadRequest PROVE TypeOK'
  <2> DEFINE b == buf[L2FillIdx]
             fill == ReadDataQueue > 0
             consumed == fill \/ Failed(b.Status)
             errors == IF b.Status = "ERROR" THEN l1.RdErrorCount + 1 ELSE 0
             gone == errors > NumOfRetriesOnError /\ ~ContinueOnDataError
  <2>1. /\ dev' = [dev EXCEPT !.present = @ /\ ~gone]
        /\ ReadDataQueue' = IF fill THEN ReadDataQueue - 1 ELSE 0
        /\ delivered' = IF fill /\ ~Failed(b.Status)
                        THEN Append(delivered, b.Frame) ELSE delivered
        /\ IF consumed THEN RecycleL2FillBuffer
                       ELSE UNCHANGED <<buf, L2FillIdx>>
        /\ l1' = [l1 EXCEPT
              !.pc = IF consumed THEN "checkKick" ELSE "wait",
              !.oldFillIdx = IF consumed THEN L2FillIdx ELSE @,
              !.RdErrorCount = IF gone THEN NumOfRetriesOnError ELSE errors,
              !.bL1Stopped = @ \/ gone \/ ~dev.present]
    BY <1>6 DEF L1FillReadRequest
  <2>2. b.Frame \in Frames /\ errors \in Nat
    BY DEF Buffer, L1Thread
  <2>3. gone \in BOOLEAN /\ dev.present \in BOOLEAN
    BY DEF Device
  <2> HIDE DEF b, consumed, errors, gone
  <2>4. ReadDataQueue' \in Nat
    BY <2>1
  <2>5. delivered' \in Seq(Frames)
    BY <2>1, <2>2, AppendProperties
  <2>6. buf' \in [Idx -> Buffer] /\ L2FillIdx' \in Idx
    BY <1>4, <2>1
  <2>7. dev' \in Device
    BY <2>1, <2>3 DEF Device
  <2>8. l1' \in L1Thread
    <3>1. (l1.bL1Stopped \/ gone \/ ~dev.present) \in BOOLEAN
      BY <2>3 DEF L1Thread
    <3>2. (IF gone THEN NumOfRetriesOnError ELSE errors) \in Nat
      BY <2>2, RetriesAssumption
    <3>3. (IF consumed THEN "checkKick" ELSE "wait") \in L1Pcs
      BY <1>0
    <3> QED BY <2>1, <3>1, <3>2, <3>3 DEF L1Thread
  <2> QED BY <1>6, <2>4, <2>5, <2>6, <2>7, <2>8 DEF L1FillReadRequest
<1>7. ASSUME L1NothingToFill PROVE TypeOK'
  BY <1>0, <1>7, GotoL1 DEF L1NothingToFill
<1>8. ASSUME L1CheckKick PROVE TypeOK'
  <2>1. l1' \in L1Thread
    BY <1>0, <1>8, GotoL1 DEF L1CheckKick
  <2>2. l2' \in L2Thread
    BY <1>8, SignalL2 DEF L1CheckKick, L2Events
  <2> QED BY <1>8, <2>1, <2>2 DEF L1CheckKick
<1>9. ASSUME L1Stop PROVE TypeOK'
  <2>1. l1' \in L1Thread
    BY ZenonT(30), <1>0, <1>9, ClearL1 DEF L1Stop, L1Thread
  <2> QED BY <1>9, <2>1 DEF L1Stop
<1>10. ASSUME L1StopSignal PROVE TypeOK'
  BY <1>0, <1>10, GotoL1, SignalL2 DEF L1StopSignal, L2Events
<1>11. ASSUME L1StopDone PROVE TypeOK'
  <2>1. rpc' \in [Requesters -> RequesterPcs]
    BY <1>11 DEF L1StopDone, Acknowledge, RequesterPcs
  <2>2. events' \subseteq Acknowledgements
    BY <1>11 DEF L1StopDone, Acknowledgements
  <2> QED BY <1>0, <1>11, <2>1, <2>2, GotoL1 DEF L1StopDone
<1>12. ASSUME L1Resume PROVE TypeOK'
  <2>1. l1' \in L1Thread
    BY ZenonT(30), <1>0, <1>12, ClearL1 DEF L1Resume, L1Thread
  <2>2. l2' \in L2Thread
    BY <1>12, SignalL2 DEF L1Resume, L2Events
  <2> QED BY <1>12, <2>1, <2>2 DEF L1Resume
<1>13. ASSUME L1ResumeDone PROVE TypeOK'
  <2>1. rpc' \in [Requesters -> RequesterPcs]
    BY <1>13 DEF L1ResumeDone, Acknowledge, RequesterPcs
  <2>2. events' \subseteq Acknowledgements
    BY <1>13 DEF L1ResumeDone, Acknowledgements
  <2> QED BY <1>0, <1>13, <2>1, <2>2, GotoL1 DEF L1ResumeDone
<1>14. ASSUME L1Purge PROVE TypeOK'
  <2>1. events' \subseteq Acknowledgements
    BY <1>14 DEF L1Purge, Acknowledgements
  <2> QED BY <1>0, <1>14, <2>1, ClearL1 DEF L1Purge
<1>15. ASSUME L1PurgeDone PROVE TypeOK'
  BY <1>0, <1>15, GotoL1 DEF L1PurgeDone
<1>16. ASSUME L1Cancel PROVE TypeOK'
  <2>1. l1' \in L1Thread
    BY ZenonT(30), <1>0, <1>16, ClearL1 DEF L1Cancel, L1Thread
  <2>2. l2' \in L2Thread
    BY <1>16, SignalL2 DEF L1Cancel, L2Events
  <2> QED BY <1>16, <2>1, <2>2 DEF L1Cancel
<1>17. ASSUME L1CancelDone PROVE TypeOK'
  <2>1. l2' \in L2Thread
    BY <1>17 DEF L1CancelDone, Goto, L2Thread, L2Pcs
  <2> QED BY <1>0, <1>17, <2>1, GotoL1 DEF L1CancelDone
<1>18. ASSUME L1Exit PROVE TypeOK'
  <2>1. l1' \in L1Thread
    BY <1>0, <1>18 DEF L1Exit, L1Thread
  <2> QED BY <1>18, <2>1, ResetType DEF L1Exit, others
<1> QED BY <1>1, <1>2, <1>3, <1>5, <1>6, <1>7, <1>8, <1>9, <1>10, <1>11,
           <1>12, <1>13, <1>14, <1>15, <1>16, <1>17, <1>18 DEF L1Next

\* A new request, which counts against the bound.
LEMMA RequestType ==
    ASSUME TypeOK, NEW r \in Requesters, NEW ack, NEW pc \in RequesterPcs,
           dev' \in Device, Request(r, ack, pc)
    PROVE  TypeOK'
<1>1. count' \in Counts
  <2>1. /\ count \in Counts /\ count.requests < MaxRequests
        /\ \/ count' = [count EXCEPT !.requests = @ + 1]
           \/ count' = [count EXCEPT !.requests = @ + 1,
                                     !.overlaps = @ \cup Overlaps(pc)]
    BY DEF Request, TypeOK
  <2>2. count.requests + 1 \in 0 .. MaxRequests
    BY <2>1, BoundsAssumption DEF Counts
  <2>3. count.overlaps \cup Overlaps(pc)
            \in SUBSET {"stops", "resumes", "crossed"}
    BY <2>1 DEF Counts, Overlaps
  <2> QED BY <2>1, <2>2, <2>3 DEF Counts
<1>2. rpc' \in [Requesters -> RequesterPcs] /\ events' \subseteq Acknowledgements
  BY DEF Request, TypeOK
<1> QED BY <1>1, <1>2 DEF TypeOK, Request, RingAlone, OtherStep, ring, queues

\* The steps of the other threads keep the type.
LEMMA OtherType ==
    ASSUME TypeOK,
           \/ ClientNext
           \/ \E r \in Requesters : RequesterNext(r)
           \/ DispatchPurge \/ CancelReadThreadDone
    PROVE  TypeOK'
<1> USE DEF TypeOK, OtherStep, RingAlone, ring, queues
<1>1. ASSUME NEW r \in Requesters, RequestStop(r) PROVE TypeOK'
  <2>1. dev' \in Device
    BY <1>1 DEF RequestStop, StopFlags, Device
  <2>2. "stopSignal" \in RequesterPcs
    BY DEF RequesterPcs
  <2> QED BY <1>1, <2>1, <2>2, RequestType DEF RequestStop
<1>2. ASSUME NEW r \in Requesters, RequestResume(r) PROVE TypeOK'
  <2>1. dev' \in Device
    BY <1>2 DEF RequestResume, ResumeFlags, Device
  <2>2. "resumeSignal" \in RequesterPcs
    BY DEF RequesterPcs
  <2> QED BY <1>2, <2>1, <2>2, RequestType DEF RequestResume
<1>3. ASSUME RequestPurge PROVE TypeOK'
  <2>1. l1' \in L1Thread
    BY <1>3, SignalL1 DEF RequestPurge, L1Events
  <2>2. irp' \in [Idx -> ReadIrp]
    <3>1. ASSUME NEW i \in Idx
          PROVE  [irp[i] EXCEPT !.Cancel = @ \/ (dev.present /\ Held(i))]
                    \in ReadIrp
      <4>1. (irp[i].Cancel \/ (dev.present /\ Held(i))) \in BOOLEAN
        BY DEF ReadIrp, Device
      <4> QED BY <4>1 DEF ReadIrp
    <3> QED BY <1>3, <3>1 DEF RequestPurge
  <2>3. count' \in Counts
    <3>1. count.purges + 1 \in 0 .. MaxPurges
      <4>1. count.purges \in 0 .. MaxPurges /\ count.purges < MaxPurges
        BY <1>3 DEF RequestPurge, Counts
      <4> QED BY <4>1, BoundsAssumption, OneMore
    <3> QED BY <1>3, <3>1 DEF RequestPurge, Counts
  <2> QED BY <1>3, <2>1, <2>2, <2>3 DEF RequestPurge, Acknowledgements
<1>4. ASSUME CancelReadThread PROVE TypeOK'
  <2>1. l1' \in L1Thread
    BY <1>4, SignalL1 DEF CancelReadThread, L1Events
  <2>2. count' \in Counts
    <3>1. count.cancels + 1 \in 0 .. MaxCancels
      <4>1. count.cancels \in 0 .. MaxCancels /\ count.cancels < MaxCancels
        BY <1>4 DEF CancelReadThread, Counts
      <4> QED BY <4>1, BoundsAssumption, OneMore
    <3> QED BY <1>4, <3>1 DEF CancelReadThread, Counts
  <2> QED BY <1>4, <2>1, <2>2 DEF CancelReadThread
<1>5. ASSUME Enqueue PROVE TypeOK'
  <2>1. l1' \in L1Thread
    BY <1>5, SignalL1 DEF Enqueue, L1Events
  <2>2. count' \in Counts
    <3>1. count.reads + 1 \in 0 .. MaxReadIrps
      <4>1. count.reads \in 0 .. MaxReadIrps /\ count.reads < MaxReadIrps
        BY <1>5 DEF Enqueue, Counts
      <4> QED BY <4>1, BoundsAssumption, OneMore
    <3> QED BY <1>5, <3>1 DEF Enqueue, Counts
  <2>3. ReadDataQueue' \in Nat
    BY <1>5 DEF Enqueue
  <2> QED BY <1>5, <2>1, <2>2, <2>3 DEF Enqueue
<1>6. ASSUME CreateThreads PROVE TypeOK'
  <2>1. l1' \in L1Thread
    <3>1. l1.set \ {"PURGE"} \in SUBSET L1Events /\ l1.RdErrorCount \in Nat
          /\ "wait" \in L1Pcs
      BY DEF L1Thread, L1Pcs
    <3> QED BY <1>6, <3>1, ZeroIdx DEF CreateThreads, NewL1, L1Thread
  <2>2. l2' \in L2Thread
    <3>1. l2.set \in SUBSET L2Events /\ "submit" \in L2Pcs
      BY DEF L2Thread, L2Pcs
    <3> QED BY <1>6, <3>1, ZeroIdx DEF CreateThreads, NewL2, L2Thread
  <2> QED BY <1>6, <2>1, <2>2, ResetType DEF CreateThreads, others
<1>7. ASSUME NEW r \in Requesters, RequesterNext(r) PROVE TypeOK'
  <2> USE DEF RequesterPcs
  <2>1. CASE SignalRequest(r)
    <3>1. l1' \in L1Thread
      BY <2>1, SignalL1 DEF SignalRequest, L1Events
    <3>2. rpc' \in [Requesters -> RequesterPcs]
      BY <2>1 DEF SignalRequest, AwaitAck
    <3> QED BY <2>1, <3>1, <3>2 DEF SignalRequest
  <2>2. CASE RequestTimeout(r)
    <3>1. rpc' \in [Requesters -> RequesterPcs]
      BY <2>2 DEF RequestTimeout, AwaitAck
    <3> QED BY <2>2, <3>1 DEF RequestTimeout
  <2>3. CASE RequestAcked(r)
    <3>1. rpc' \in [Requesters -> RequesterPcs]
      BY <2>3 DEF RequestAcked
    <3> QED BY <2>3, <3>1 DEF RequestAcked
  <2>4. CASE RequestReset(r)
    <3>1. rpc' \in [Requesters -> RequesterPcs]
      BY <2>4 DEF RequestReset
    <3> QED BY <2>4, <3>1, ResetType DEF RequestReset
  <2> QED BY <1>7, <2>1, <2>2, <2>3, <2>4 DEF RequesterNext
<1>8. ASSUME DispatchPurge PROVE TypeOK'
  BY <1>8 DEF DispatchPurge, Acknowledgements, others
<1>9. ASSUME CancelReadThreadDone PROVE TypeOK'
  <2>1. l1' \in L1Thread
    BY <1>9, GotoL1 DEF CancelReadThreadDone, L1Pcs
  <2> QED BY <1>9, <2>1 DEF CancelReadThreadDone
<1> QED BY <1>1, <1>2, <1>3, <1>4, <1>5, <1>6, <1>7, <1>8, <1>9 DEF ClientNext

\* Every step keeps the type.
LEMMA StepType == ASSUME TypeOK, [Next]_vars PROVE TypeOK'
<1>1. CASE UNCHANGED vars
  BY <1>1 DEF TypeOK, vars, ring, queues, others
<1> QED BY <1>1, L1Type, L2Type, BusType, OtherType DEF Next

\* The state of the pipeline is always of the right type: the indices stay in
\* the ring, both threads stay at the places the code has, and no counter
\* passes its bound.
THEOREM TypeCorrect == Spec => []TypeOK
<1>1. Init => TypeOK
  BY InitType
<1>2. TypeOK /\ [Next]_vars => TypeOK'
  BY StepType
<1> QED BY <1>1, <1>2, PTL DEF Spec

-----------------------------------------------------------------------------
(***************************************************************************)
(* The L2 thread ends with no transfer left.                               *)
(***************************************************************************)
Ended == {"terminated", "none"}

\* A step that leaves the queues alone and does not end L2.
LEMMA StillRunning ==
    ASSUME NoIrpAfterExit, Defined, UNCHANGED queues,
           l2'.pc \in Ended => l2.pc \in Ended
    PROVE  NoIrpAfterExit'
BY DEF NoIrpAfterExit, queues, Ended, Defined

\* A signal does not end L2.
LEMMA SignalEndsNothing ==
    ASSUME TypeOK, NEW e \in L2Events, l2' = Signal(l2, e)
    PROVE  l2'.pc \in Ended => l2.pc \in Ended
BY SignalL2 DEF TypeOK, Ended, L2Events

\* The steps of L2 itself.
LEMMA L2Ends == ASSUME TypeOK, NoIrpAfterExit, L2Next PROVE NoIrpAfterExit'
<1> USE DEF L2Step, L2Frame
<1>0. l2 \in L2Thread /\ L2Events \cap Ended = {}
  BY DEF TypeOK, L2Events, Ended
<1>1. ASSUME L2Submit PROVE NoIrpAfterExit'
  BY <1>0, <1>1 DEF L2Submit, Goto, L2Thread, NoIrpAfterExit
<1>2. ASSUME L2SubmitDone PROVE NoIrpAfterExit'
  BY <1>0, <1>2, StillRunning DEF L2SubmitDone, Goto, L2Thread, Ended
<1>3. ASSUME L2Advance PROVE NoIrpAfterExit'
  BY <1>0, <1>3, StillRunning DEF L2Advance, L2Thread, Ended
<1>4. ASSUME L2AdvanceInline PROVE NoIrpAfterExit'
  <2>1. l2'.pc = "submit"
    BY <1>0, <1>4 DEF L2AdvanceInline, L2Thread
  <2> QED BY <2>1 DEF NoIrpAfterExit
<1>5. ASSUME L2Wait PROVE NoIrpAfterExit'
  BY <1>0, <1>5, WaitL2, StillRunning DEF L2Wait, Ended
<1>6. ASSUME L2Kick PROVE NoIrpAfterExit'
  BY <1>0, <1>6, ClearL2, StillRunning DEF L2Kick, L2Pcs, Ended
<1>7. ASSUME L2Cancel PROVE NoIrpAfterExit'
  <2>1. CASE Active
    <3>1. Clear(l2, "CANCEL", "wait") \in L2Thread
          /\ Clear(l2, "CANCEL", "wait").pc = "wait"
      BY <1>0, ClearL2 DEF L2Pcs
    <3>2. l2'.pc = "wait"
      BY <1>7, <2>1, <3>1 DEF L2Cancel, L2Thread
    <3> QED BY <3>2 DEF NoIrpAfterExit
  <2>2. CASE ~Active
    BY <1>7, <2>2 DEF L2Cancel, Active, NoIrpAfterExit
  <2> QED BY <2>1, <2>2
<1>8. ASSUME L2Stop PROVE NoIrpAfterExit'
  <2>1. /\ Clear(l2, "STOP", "wait") \in L2Thread
        /\ Clear(l2, "STOP", "wait").pc = "wait"
        /\ Clear(l2, "STOP", "submit") \in L2Thread
        /\ Clear(l2, "STOP", "submit").pc = "submit"
    BY <1>0, ClearL2 DEF L2Pcs
  <2>2. l2'.pc \in {"wait", "submit"}
    BY <1>8, <2>1 DEF L2Stop, L2Thread
  <2> QED BY <2>2 DEF NoIrpAfterExit
<1>9. ASSUME L2Resume PROVE NoIrpAfterExit'
  <2>1. /\ Clear(l2, "RESUME", "submit") \in L2Thread
        /\ Clear(l2, "RESUME", "submit").pc = "submit"
    BY <1>0, ClearL2 DEF L2Pcs
  <2>2. l2'.pc = "submit"
    BY <1>9, <2>1 DEF L2Resume, L2Thread
  <2> QED BY <2>2 DEF NoIrpAfterExit
<1>10. ASSUME L2Dequeue PROVE NoIrpAfterExit'
  BY <1>0, <1>10 DEF L2Dequeue, Goto, L2Thread, NoIrpAfterExit
<1>11. ASSUME L2ClearEvent PROVE NoIrpAfterExit'
  BY <1>0, <1>11, ClearL2 DEF L2ClearEvent, L2Pcs, NoIrpAfterExit
<1>12. ASSUME L2Complete PROVE NoIrpAfterExit'
  BY <1>0, <1>12 DEF L2Complete, Goto, L2Thread, NoIrpAfterExit
<1>13. ASSUME L2StopSelf PROVE NoIrpAfterExit'
  BY <1>0, <1>13 DEF L2StopSelf, L2Thread, NoIrpAfterExit
<1>14. ASSUME L2Notify PROVE NoIrpAfterExit'
  <2>1. CASE l2.state # "WORKING" /\ Active
    BY <1>0, <1>14, <2>1 DEF L2Notify, Goto, L2Thread, NoIrpAfterExit
  <2>2. CASE ~(l2.state # "WORKING" /\ Active) /\ l2.state = "CANCELLING"
    BY <1>14, <2>2 DEF L2Notify, Active, NoIrpAfterExit
  <2>3. CASE ~(l2.state # "WORKING" /\ Active) /\ l2.state # "CANCELLING"
    BY <1>0, <1>14, <2>3 DEF L2Notify, L2Thread, NoIrpAfterExit
  <2> QED BY <2>1, <2>2, <2>3
<1> QED BY <1>1, <1>2, <1>3, <1>4, <1>5, <1>6, <1>7, <1>8, <1>9, <1>10, <1>11,
           <1>12, <1>13, <1>14 DEF L2Next

\* The other threads' steps leave the queues alone and do not end L2, except
\* that L1 reaps the thread that has ended.
LEMMA OthersEndNothing ==
    ASSUME TypeOK, L1Next \/ ClientNext \/ (\E r \in Requesters : RequesterNext(r))
                   \/ DispatchPurge \/ CancelReadThreadDone
    PROVE  /\ UNCHANGED queues
           /\ Defined
           /\ l2'.pc \in Ended => l2.pc \in Ended
<1>1. CASE L1Next
  <2>1. UNCHANGED queues /\ Defined
    BY <1>1 DEF L1Next, L1Step, L1Wait, L1Completion, L1Kick, L1Drop,
                L1FillReadRequest, L1NothingToFill, L1CheckKick, L1Stop,
                L1StopSignal, L1StopDone, L1Resume, L1ResumeDone, L1Purge,
                L1PurgeDone, L1Cancel, L1CancelDone, L1Exit
  <2>2. \/ UNCHANGED l2
        \/ \E e \in L2Events : l2' = Signal(l2, e)
        \/ l2.pc = "terminated"
    BY <1>1 DEF L1Next, L1Wait, L1Completion, L1Kick, L1Drop,
                L1FillReadRequest, L1NothingToFill, L1CheckKick, L1Stop,
                L1StopSignal, L1StopDone, L1Resume, L1ResumeDone, L1Purge,
                L1PurgeDone, L1Cancel, L1CancelDone, L1Exit, L2Events
  <2> QED BY <2>1, <2>2, SignalEndsNothing DEF Ended
<1>2. CASE ClientNext
  <2>1. UNCHANGED queues /\ Defined
    BY <1>2 DEF ClientNext, OtherStep, RequestStop, RequestResume, Request,
                RequestPurge, CancelReadThread, Enqueue, CreateThreads
  <2>2. UNCHANGED l2 \/ l2'.pc = "submit"
    BY <1>2 DEF ClientNext, RingAlone, RequestStop, RequestResume, Request,
                RequestPurge, CancelReadThread, Enqueue, CreateThreads, NewL2
  <2> QED BY <2>1, <2>2 DEF Ended
<1>3. CASE \/ \E r \in Requesters : RequesterNext(r)
           \/ DispatchPurge \/ CancelReadThreadDone
  BY <1>3 DEF RequesterNext, OtherStep, RingAlone, SignalRequest,
              RequestTimeout, RequestAcked, RequestReset, DispatchPurge,
              CancelReadThreadDone
<1> QED BY <1>1, <1>2, <1>3

\* No transfer finishes once L2 has ended.
LEMMA BusEndsNothing ==
    ASSUME TypeOK, NoIrpAfterExit, BusNext
    PROVE  NoIrpAfterExit'
<1>1. CASE BusData \/ BusBadTransfer \/ BusCancelled
  BY <1>1, StillRunning DEF BusData, BusBadTransfer, BusCancelled, BusStep
<1>2. CASE MultiReadCompletionRoutine
  <2>1. PICK k \in DOMAIN L2PendingQueue : TRUE
    BY <1>2 DEF MultiReadCompletionRoutine
  <2>2. L2PendingQueue # <<>>
    BY <2>1, LenProperties, EmptySeq DEF TypeOK
  <2>3. l2.pc \notin Ended
    BY <1>2, <2>2 DEF MultiReadCompletionRoutine, NoIrpAfterExit, Ended
  <2>4. l2'.pc \notin Ended
    BY <1>2, <2>3, SignalEndsNothing DEF MultiReadCompletionRoutine, L2Events
  <2> QED BY <2>4 DEF NoIrpAfterExit, Ended
<1> QED BY <1>1, <1>2 DEF BusNext

\* When the L2 thread has ended, the lower driver holds none of the ring's IRPs
\* and none waits to be processed.
THEOREM ExitIsQuiet == Spec => []NoIrpAfterExit
<1>1. Init => NoIrpAfterExit
  BY DEF Init, InitWith, NewL2, NoIrpAfterExit
<1>2. TypeOK /\ NoIrpAfterExit /\ [Next]_vars => NoIrpAfterExit'
  <2> SUFFICES ASSUME TypeOK, NoIrpAfterExit, [Next]_vars
               PROVE  NoIrpAfterExit'
    OBVIOUS
  <2>1. CASE UNCHANGED vars
    BY <2>1 DEF vars, queues, NoIrpAfterExit, Defined
  <2>2. CASE L2Next
    BY <2>2, L2Ends
  <2>3. CASE BusNext
    BY <2>3, BusEndsNothing
  <2>4. CASE L1Next \/ ClientNext \/ (\E r \in Requesters : RequesterNext(r))
             \/ DispatchPurge \/ CancelReadThreadDone
    BY <2>4, OthersEndNothing, StillRunning
  <2> QED BY <2>1, <2>2, <2>3, <2>4 DEF Next
<1> QED BY <1>1, <1>2, TypeCorrect, PTL DEF Spec

-----------------------------------------------------------------------------
(***************************************************************************)
(* The buffers in flight are PENDING, each on one queue once.  The         *)
(* invariant adds the buffer that L2 has taken off the queue and not yet   *)
(* marked COMPLETED: were it READY or on a queue, the mark would break     *)
(* what the property says of the queues.                                   *)
(***************************************************************************)
OnceAndPending(q, state) ==
    /\ \A k \in DOMAIN q : state[q[k]].State = "PENDING"
    /\ \A j, k \in DOMAIN q : q[j] = q[k] => j = k
Apart(p, q) == \A j \in DOMAIN p, k \in DOMAIN q : p[j] # q[k]
TakenOff == l2.pc \in {"clear", "complete"}
TakenIsPending ==
    TakenOff => /\ buf[l2.pActiveL2Buf].State = "PENDING"
                /\ \A k \in DOMAIN L2PendingQueue :
                      L2PendingQueue[k] # l2.pActiveL2Buf
                /\ \A k \in DOMAIN L2CompletionQueue :
                      L2CompletionQueue[k] # l2.pActiveL2Buf
Settled == /\ OnceAndPending(L2PendingQueue, buf)
           /\ OnceAndPending(L2CompletionQueue, buf)
           /\ Apart(L2PendingQueue, L2CompletionQueue)
           /\ TakenIsPending
IInv == misuse = "none" => Settled

\* The invariant says what the property says, and more.
LEMMA IInvImplies == ASSUME TypeOK, IInv PROVE InFlightIsPending
<1> SUFFICES ASSUME misuse = "none",
                    NEW j \in DOMAIN (L2PendingQueue \o L2CompletionQueue),
                    NEW k \in DOMAIN (L2PendingQueue \o L2CompletionQueue)
             PROVE  LET inFlight == L2PendingQueue \o L2CompletionQueue
                    IN  /\ buf[inFlight[k]].State = "PENDING"
                        /\ inFlight[j] = inFlight[k] => j = k
  BY DEF InFlightIsPending
<1> DEFINE p == L2PendingQueue
           q == L2CompletionQueue
<1>1. Settled
  BY DEF IInv
<1>2. p \in Seq(Idx) /\ q \in Seq(Idx) /\ Len(p) \in Nat /\ Len(q) \in Nat
      /\ DOMAIN p = 1 .. Len(p) /\ DOMAIN q = 1 .. Len(q)
  BY LenProperties DEF TypeOK
<1>3. /\ DOMAIN (p \o q) = 1 .. Len(p) + Len(q)
      /\ \A i \in 1 .. Len(p) + Len(q) :
            (p \o q)[i] = IF i <= Len(p) THEN p[i] ELSE q[i - Len(p)]
  BY <1>2, ConcatProperties, LenProperties
<1>4. \A i \in DOMAIN (p \o q) :
         \/ i \in DOMAIN p /\ (p \o q)[i] = p[i]
         \/ /\ i > Len(p) /\ i - Len(p) \in DOMAIN q
            /\ (p \o q)[i] = q[i - Len(p)]
  BY <1>2, <1>3
<1>5. j \in Nat /\ k \in Nat
  BY <1>2, <1>3
<1> HIDE DEF p, q
<1>6. /\ OnceAndPending(p, buf) /\ OnceAndPending(q, buf) /\ Apart(p, q)
  BY <1>1 DEF Settled, p, q
<1>7. j \in DOMAIN (p \o q) /\ k \in DOMAIN (p \o q)
  BY DEF p, q
<1>8. buf[(p \o q)[k]].State = "PENDING"
  BY <1>4, <1>6, <1>7 DEF OnceAndPending
<1>9. (p \o q)[j] = (p \o q)[k] => j = k
  <2>1. CASE j \in DOMAIN p /\ (p \o q)[j] = p[j]
    BY <1>2, <1>4, <1>5, <1>6, <1>7, <2>1 DEF OnceAndPending, Apart
  <2>2. CASE /\ j > Len(p) /\ j - Len(p) \in DOMAIN q
             /\ (p \o q)[j] = q[j - Len(p)]
    <3>1. CASE k \in DOMAIN p /\ (p \o q)[k] = p[k]
      BY <1>6, <2>2, <3>1 DEF Apart
    <3>2. CASE /\ k > Len(p) /\ k - Len(p) \in DOMAIN q
               /\ (p \o q)[k] = q[k - Len(p)]
      <4>1. (p \o q)[j] = (p \o q)[k] => j - Len(p) = k - Len(p)
        BY <1>6, <2>2, <3>2 DEF OnceAndPending
      <4> QED BY <1>2, <1>5, <4>1
    <3> QED BY <1>4, <1>7, <3>1, <3>2
  <2> QED BY <1>4, <1>7, <2>1, <2>2
<1> QED BY <1>8, <1>9 DEF p, q

\* A step that leaves the queues alone, keeps every PENDING buffer PENDING and
\* hands L2 no other buffer.
LEMMA StillSettled ==
    ASSUME IInv, UNCHANGED queues,
           misuse' = "none" => misuse = "none",
           misuse' = "none" => \A i \in Idx :
               buf[i].State = "PENDING" => buf'[i].State = "PENDING",
           TypeOK,
           TakenOff' => TakenOff /\ UNCHANGED l2.pActiveL2Buf
    PROVE  IInv'
<1> SUFFICES ASSUME misuse' = "none" PROVE Settled'
  BY DEF IInv
<1>1. Settled /\ misuse = "none"
  BY DEF IInv
<1>2. /\ \A k \in DOMAIN L2PendingQueue : L2PendingQueue[k] \in Idx
      /\ \A k \in DOMAIN L2CompletionQueue : L2CompletionQueue[k] \in Idx
      /\ l2.pActiveL2Buf \in Idx
  BY LenProperties DEF TypeOK, L2Thread
<1> QED BY <1>1, <1>2 DEF Settled, OnceAndPending, Apart, TakenIsPending,
                          queues

\* After a reset that overtakes nothing there is nothing in flight.
LEMMA ResetSettles ==
    ASSUME ResetL2Buffers, UNCHANGED queues, TypeOK,
           TakenOff' => TakenOff
    PROVE  IInv'
<1> SUFFICES ASSUME misuse' = "none" PROVE Settled'
  BY DEF IInv
<1>1. L2PendingQueue = <<>> /\ ~CompletionsOutstanding
  BY DEF ResetL2Buffers
<1>2. L2CompletionQueue = <<>> /\ ~TakenOff
  BY <1>1 DEF CompletionsOutstanding, TakenOff
<1>3. L2PendingQueue' = <<>> /\ L2CompletionQueue' = <<>> /\ ~TakenOff'
  BY <1>1, <1>2 DEF queues
<1>4. DOMAIN <<>> = {}
  OBVIOUS
<1> QED BY <1>3, <1>4 DEF Settled, OnceAndPending, Apart, TakenIsPending

\* A signal hands L2 no buffer.
LEMMA SignalTakesNothing ==
    ASSUME TypeOK, NEW e \in L2Events, l2' = Signal(l2, e)
    PROVE  TakenOff' => TakenOff /\ UNCHANGED l2.pActiveL2Buf
BY SignalL2 DEF TypeOK, TakenOff, L2Events

\* L2's submission takes a READY buffer, which is not in flight.
LEMMA SubmitSettled == ASSUME TypeOK, IInv, L2Submit PROVE IInv'
<1> SUFFICES ASSUME misuse' = "none" PROVE Settled'
  BY DEF IInv
<1> DEFINE i == L2IrpEndIdx
<1>1. misuse = "none"
  BY DEF L2Submit
<1>2. Settled /\ ~TakenOff'
  BY <1>1 DEF IInv, L2Submit, Goto, TakenOff, TypeOK, L2Thread
<1>3. /\ i \in Idx /\ buf[i].State = "READY"
      /\ buf' = [buf EXCEPT ![i].State = "PENDING"]
      /\ buf \in [Idx -> Buffer]
      /\ L2PendingQueue' = Append(L2PendingQueue, i)
      /\ L2CompletionQueue' = L2CompletionQueue
  BY DEF L2Submit, CanSubmit, TypeOK
<1>4. /\ L2PendingQueue \in Seq(Idx) /\ L2CompletionQueue \in Seq(Idx)
      /\ Len(L2PendingQueue) \in Nat
      /\ DOMAIN L2PendingQueue = 1 .. Len(L2PendingQueue)
      /\ \A k \in DOMAIN L2PendingQueue : L2PendingQueue[k] \in Idx
      /\ \A k \in DOMAIN L2CompletionQueue : L2CompletionQueue[k] \in Idx
  BY LenProperties DEF TypeOK
<1>5. /\ buf'[i].State = "PENDING"
      /\ \A j \in Idx : j # i => buf'[j].State = buf[j].State
  BY <1>3 DEF Buffer
<1>6. /\ DOMAIN L2PendingQueue' = 1 .. Len(L2PendingQueue) + 1
      /\ \A k \in DOMAIN L2PendingQueue :
            L2PendingQueue'[k] = L2PendingQueue[k]
      /\ L2PendingQueue'[Len(L2PendingQueue) + 1] = i
  BY <1>3, <1>4, AppendProperties, LenProperties
<1>7. /\ \A k \in DOMAIN L2PendingQueue : L2PendingQueue[k] # i
      /\ \A k \in DOMAIN L2CompletionQueue : L2CompletionQueue[k] # i
  BY <1>2, <1>3 DEF Settled, OnceAndPending
<1>8. \A k \in DOMAIN L2PendingQueue' :
         \/ k \in DOMAIN L2PendingQueue
         \/ k = Len(L2PendingQueue) + 1
  BY <1>4, <1>6
<1> HIDE DEF i
<1>9. OnceAndPending(L2PendingQueue, buf)'
  <2>1. \A k \in DOMAIN L2PendingQueue' :
           buf'[L2PendingQueue'[k]].State = "PENDING"
    BY <1>2, <1>4, <1>5, <1>6, <1>7, <1>8 DEF Settled, OnceAndPending
  <2>2. \A j, k \in DOMAIN L2PendingQueue' :
           L2PendingQueue'[j] = L2PendingQueue'[k] => j = k
    BY <1>2, <1>6, <1>7, <1>8 DEF Settled, OnceAndPending
  <2> QED BY <2>1, <2>2 DEF OnceAndPending
<1>10. OnceAndPending(L2CompletionQueue, buf)'
  BY <1>2, <1>3, <1>4, <1>5, <1>7 DEF Settled, OnceAndPending
<1>11. Apart(L2PendingQueue, L2CompletionQueue)'
  BY <1>2, <1>3, <1>6, <1>7, <1>8 DEF Settled, Apart
<1> QED BY <1>2, <1>9, <1>10, <1>11 DEF Settled, TakenIsPending

\* The completion routine moves a buffer from one queue to the other.
LEMMA CompletionSettled ==
    ASSUME TypeOK, IInv, MultiReadCompletionRoutine
    PROVE  IInv'
<1> SUFFICES ASSUME misuse' = "none" PROVE Settled'
  BY DEF IInv
<1> DEFINE p == L2PendingQueue
           q == L2CompletionQueue
<1>1. UNCHANGED buf /\ misuse = "none"
  BY DEF MultiReadCompletionRoutine, ring
<1>2. Settled
  BY <1>1 DEF IInv
<1>3. PICK n \in DOMAIN p : p' = RemoveAt(p, n) /\ q' = Append(q, p[n])
  BY DEF MultiReadCompletionRoutine
<1>4. /\ p \in Seq(Idx) /\ q \in Seq(Idx) /\ Len(p) \in Nat /\ Len(q) \in Nat
      /\ DOMAIN p = 1 .. Len(p) /\ DOMAIN q = 1 .. Len(q)
      /\ p[n] \in Idx
  BY <1>3, LenProperties DEF TypeOK
<1>5. /\ DOMAIN p' = 1 .. Len(p) - 1
      /\ \A k \in 1 .. Len(p) - 1 :
            p'[k] = IF k < n THEN p[k] ELSE p[k + 1]
  BY <1>3, <1>4, RemoveAtSeq, LenProperties
<1>6. /\ DOMAIN q' = 1 .. Len(q) + 1
      /\ \A k \in DOMAIN q : q'[k] = q[k]
      /\ q'[Len(q) + 1] = p[n]
  BY <1>3, <1>4, AppendProperties, LenProperties
<1>7. \A k \in DOMAIN p' : \E m \in DOMAIN p \ {n} :
         /\ p'[k] = p[m]
         /\ m = IF k < n THEN k ELSE k + 1
  BY <1>4, <1>5
<1>8. \A k \in DOMAIN q' : k \in DOMAIN q \/ k = Len(q) + 1
  BY <1>4, <1>6
<1>9. /\ OnceAndPending(p, buf) /\ OnceAndPending(q, buf) /\ Apart(p, q)
  BY <1>2 DEF Settled
<1>10. TakenIsPending /\ (TakenOff' => TakenOff /\ UNCHANGED l2.pActiveL2Buf)
  BY <1>2, SignalTakesNothing DEF Settled, MultiReadCompletionRoutine, L2Events
<1>11. OnceAndPending(p, buf)'
  <2>1. \A k \in DOMAIN p' : buf[p'[k]].State = "PENDING"
    BY <1>7, <1>9 DEF OnceAndPending
  <2>2. ASSUME NEW j \in DOMAIN p', NEW k \in DOMAIN p', p'[j] = p'[k]
        PROVE  j = k
    <3>1. PICK a \in DOMAIN p \ {n} :
             p'[j] = p[a] /\ a = IF j < n THEN j ELSE j + 1
      BY <1>7
    <3>2. PICK b \in DOMAIN p \ {n} :
             p'[k] = p[b] /\ b = IF k < n THEN k ELSE k + 1
      BY <1>7
    <3>3. a = b
      BY <1>9, <2>2, <3>1, <3>2 DEF OnceAndPending
    <3>4. j \in Nat /\ k \in Nat /\ n \in Nat
      BY <1>4, <1>5
    <3> QED BY <3>1, <3>2, <3>3, <3>4
  <2> HIDE DEF p
  <2>3. OnceAndPending(p', buf)
    BY <2>1, <2>2 DEF OnceAndPending
  <2> QED BY <1>1, <2>3 DEF OnceAndPending
<1>12. OnceAndPending(q, buf)'
  <2>1. \A k \in DOMAIN q' : buf[q'[k]].State = "PENDING"
    BY <1>6, <1>8, <1>9 DEF OnceAndPending
  <2>2. \A j, k \in DOMAIN q' : q'[j] = q'[k] => j = k
    BY <1>6, <1>8, <1>9 DEF OnceAndPending, Apart
  <2> HIDE DEF q
  <2>3. OnceAndPending(q', buf)
    BY <2>1, <2>2 DEF OnceAndPending
  <2> QED BY <1>1, <2>3 DEF OnceAndPending
<1>13. Apart(p, q)'
  BY <1>6, <1>7, <1>8, <1>9 DEF OnceAndPending, Apart
<1>14. TakenIsPending'
  <2> SUFFICES ASSUME TakenOff' PROVE TakenIsPending'
    BY DEF TakenIsPending
  <2> DEFINE i == l2.pActiveL2Buf
  <2>1. i' = i /\ TakenOff
    BY <1>10
  <2>2. /\ buf[i].State = "PENDING"
        /\ \A k \in DOMAIN p : p[k] # i
        /\ \A k \in DOMAIN q : q[k] # i
    BY <1>10, <2>1 DEF TakenIsPending
  <2> HIDE DEF i
  <2>3. /\ \A k \in DOMAIN p' : p'[k] # i
        /\ \A k \in DOMAIN q' : q'[k] # i
    BY <1>6, <1>7, <1>8, <2>2
  <2> QED BY <1>1, <2>1, <2>2, <2>3 DEF TakenIsPending, i
<1> QED BY <1>11, <1>12, <1>13, <1>14 DEF Settled

\* The steps of L2 keep the invariant.
LEMMA L2Settled == ASSUME TypeOK, IInv, L2Next PROVE IInv'
<1> USE DEF L2Step, L2Frame
<1>0. l2 \in L2Thread /\ l2.pActiveL2Buf \in Idx
      /\ buf \in [Idx -> Buffer]
  BY DEF TypeOK, L2Thread
<1>1. ASSUME L2Submit PROVE IInv'
  BY <1>1, SubmitSettled
<1>2. ASSUME L2SubmitDone PROVE IInv'
  BY <1>0, <1>2, StillSettled DEF L2SubmitDone, Goto, L2Thread, TakenOff, queues
<1>3. ASSUME L2Advance PROVE IInv'
  BY <1>0, <1>3, StillSettled DEF L2Advance, L2Thread, TakenOff, queues
<1>4. ASSUME L2AdvanceInline PROVE IInv'
  BY <1>4 DEF L2AdvanceInline, IInv
<1>5. ASSUME L2Wait PROVE IInv'
  <2>1. ~TakenOff'
    BY <1>0, <1>5, WaitL2 DEF L2Wait, TakenOff, L2Events
  <2> QED BY <1>5, <2>1, StillSettled DEF L2Wait
<1>6. ASSUME L2Kick PROVE IInv'
  <2>1. ~TakenOff'
    BY <1>0, <1>6, ClearL2 DEF L2Kick, TakenOff, L2Pcs
  <2> QED BY <1>6, <2>1, StillSettled DEF L2Kick
<1>7. ASSUME L2Cancel PROVE IInv'
  <2>1. /\ Clear(l2, "CANCEL", "wait") \in L2Thread
        /\ Clear(l2, "CANCEL", "wait").pc = "wait"
        /\ Clear(l2, "CANCEL", "terminated") \in L2Thread
        /\ Clear(l2, "CANCEL", "terminated").pc = "terminated"
    BY <1>0, ClearL2 DEF L2Pcs
  <2>2. ~TakenOff'
    BY <1>7, <2>1 DEF L2Cancel, TakenOff, L2Thread
  <2>3. CASE Active
    BY <1>7, <2>2, <2>3, StillSettled DEF L2Cancel, queues
  <2>4. CASE ~Active
    <3>1. L2PendingQueue' = <<>> /\ L2CompletionQueue' = <<>>
      BY <1>7, <2>4 DEF L2Cancel, Active
    <3>2. DOMAIN <<>> = {}
      OBVIOUS
    <3> QED BY <2>2, <3>1, <3>2
               DEF IInv, Settled, OnceAndPending, Apart, TakenIsPending
  <2> QED BY <2>3, <2>4
<1>8. ASSUME L2Stop PROVE IInv'
  <2>1. /\ Clear(l2, "STOP", "wait") \in L2Thread
        /\ Clear(l2, "STOP", "wait").pc = "wait"
        /\ Clear(l2, "STOP", "submit") \in L2Thread
        /\ Clear(l2, "STOP", "submit").pc = "submit"
    BY <1>0, ClearL2 DEF L2Pcs
  <2>2. ~TakenOff'
    BY <1>8, <2>1 DEF L2Stop, TakenOff, L2Thread
  <2> QED BY <1>8, <2>2, StillSettled DEF L2Stop
<1>9. ASSUME L2Resume PROVE IInv'
  <2>1. /\ Clear(l2, "RESUME", "submit") \in L2Thread
        /\ Clear(l2, "RESUME", "submit").pc = "submit"
    BY <1>0, ClearL2 DEF L2Pcs
  <2>2. ~TakenOff'
    BY <1>9, <2>1 DEF L2Resume, TakenOff, L2Thread
  <2> QED BY <1>9, <2>2, StillSettled DEF L2Resume
<1>10. ASSUME L2Dequeue PROVE IInv'
  <2>1. CASE L2CompletionQueue = <<>>
    <3>1. ~TakenOff'
      BY <1>0, <1>10, <2>1 DEF L2Dequeue, TakenOff, Goto, L2Thread
    <3> QED BY <1>10, <2>1, <3>1, StillSettled DEF L2Dequeue, queues
  <2>2. CASE L2CompletionQueue # <<>>
    <3> DEFINE q == L2CompletionQueue
    <3> SUFFICES ASSUME misuse' = "none" PROVE Settled'
      BY DEF IInv
    <3>1. Settled
      BY <1>10 DEF L2Dequeue, IInv
    <3>2. /\ q' = Tail(q) /\ l2'.pActiveL2Buf = Head(q)
          /\ UNCHANGED <<buf, L2PendingQueue>>
      BY <1>0, <1>10, <2>2 DEF L2Dequeue, L2Thread
    <3>3. /\ q \in Seq(Idx) /\ Len(q) \in Nat /\ DOMAIN q = 1 .. Len(q)
          /\ Len(q) # 0
      BY <2>2, LenProperties, EmptySeq DEF TypeOK
    <3>4. /\ Head(q) = q[1] /\ DOMAIN q' = 1 .. Len(q) - 1
          /\ \A k \in 1 .. Len(q) - 1 : q'[k] = q[k + 1]
      BY <2>2, <3>2, <3>3, HeadTailProperties, LenProperties
    <3>5. /\ \A k \in DOMAIN q' : k + 1 \in DOMAIN q /\ q'[k] = q[k + 1]
                                  /\ k \in Nat /\ k + 1 # 1
          /\ 1 \in DOMAIN q
      BY <3>3, <3>4
    <3> HIDE DEF q
    <3>6. /\ OnceAndPending(L2PendingQueue, buf) /\ OnceAndPending(q, buf)
          /\ Apart(L2PendingQueue, q)
      BY <3>1 DEF Settled, q
    <3>7. OnceAndPending(q', buf)
      <4>1. \A j, k \in DOMAIN q' : q'[j] = q'[k] => j = k
        <5>1. \A j, k \in Nat : j + 1 = k + 1 => j = k
          OBVIOUS
        <5> QED BY <3>5, <3>6, <5>1 DEF OnceAndPending
      <4> QED BY <3>5, <3>6, <4>1 DEF OnceAndPending
    <3>8. Apart(L2PendingQueue, q')
      BY <3>5, <3>6 DEF Apart
    <3>9. /\ buf[q[1]].State = "PENDING"
          /\ \A k \in DOMAIN L2PendingQueue : L2PendingQueue[k] # q[1]
          /\ \A k \in DOMAIN q' : q'[k] # q[1]
      BY <3>5, <3>6 DEF OnceAndPending, Apart
    <3> QED BY <3>2, <3>4, <3>6, <3>7, <3>8, <3>9
               DEF Settled, TakenIsPending, OnceAndPending, Apart, q
  <2> QED BY <2>1, <2>2
<1>11. ASSUME L2ClearEvent PROVE IInv'
  <2>1. TakenOff /\ UNCHANGED l2.pActiveL2Buf
    BY <1>0, <1>11, ClearL2 DEF L2ClearEvent, TakenOff, L2Pcs
  <2> QED BY <1>11, <2>1, StillSettled DEF L2ClearEvent
<1>12. ASSUME L2Complete PROVE IInv'
  <2> SUFFICES ASSUME misuse' = "none" PROVE Settled'
    BY DEF IInv
  <2> DEFINE i == l2.pActiveL2Buf
  <2>1. Settled /\ TakenOff /\ UNCHANGED queues
    BY <1>12 DEF L2Complete, IInv, TakenOff
  <2>2. ~TakenOff'
    BY <1>0, <1>12 DEF L2Complete, TakenOff, Goto, L2Thread
  <2>3. \A j \in Idx : j # i => buf'[j] = buf[j]
    BY <1>0, <1>12 DEF L2Complete, RecordCompletion
  <2>4. /\ \A k \in DOMAIN L2PendingQueue : L2PendingQueue[k] \in Idx \ {i}
        /\ \A k \in DOMAIN L2CompletionQueue :
              L2CompletionQueue[k] \in Idx \ {i}
    BY <2>1, LenProperties DEF TypeOK, Settled, TakenIsPending
  <2> HIDE DEF i
  <2> QED BY <2>1, <2>2, <2>3, <2>4
             DEF Settled, OnceAndPending, Apart, TakenIsPending, queues
<1>13. ASSUME L2StopSelf PROVE IInv'
  BY <1>0, <1>13, StillSettled DEF L2StopSelf, L2Thread, TakenOff, queues
<1>14. ASSUME L2Notify PROVE IInv'
  <2>1. ~TakenOff'
    BY <1>0, <1>14 DEF L2Notify, Goto, TakenOff, L2Thread
  <2>2. CASE L2CompletionQueue' = L2CompletionQueue
    BY <1>14, <2>1, <2>2, StillSettled DEF L2Notify, queues
  <2>3. CASE L2CompletionQueue' # L2CompletionQueue
    <3>1. L2PendingQueue' = <<>> /\ L2CompletionQueue' = <<>>
      BY <1>14, <2>3 DEF L2Notify, Active
    <3>2. DOMAIN <<>> = {}
      OBVIOUS
    <3> QED BY <2>1, <3>1, <3>2
               DEF IInv, Settled, OnceAndPending, Apart, TakenIsPending
  <2> QED BY <2>2, <2>3
<1> QED BY <1>1, <1>2, <1>3, <1>4, <1>5, <1>6, <1>7, <1>8, <1>9, <1>10, <1>11,
           <1>12, <1>13, <1>14 DEF L2Next

\* L1 makes only COMPLETED buffers READY, and those are not in flight.
LEMMA L1Settled == ASSUME TypeOK, IInv, L1Next PROVE IInv'
<1> USE DEF L1Step, L1NoData
<1>0. buf \in [Idx -> Buffer] /\ L2FillIdx \in Idx
  BY DEF TypeOK
<1>1. ASSUME L1Drop \/ L1FillReadRequest PROVE IInv'
  <2>1. buf[L2FillIdx].State = "COMPLETED"
    BY <1>1 DEF L1Drop, L1FillReadRequest
  <2>2. \/ UNCHANGED buf
        \/ buf' = [buf EXCEPT ![L2FillIdx] = ReadyBuffer]
    BY <1>1 DEF L1Drop, L1FillReadRequest, RecycleL2FillBuffer
  <2>3. \A i \in Idx : buf[i].State = "PENDING" => buf'[i].State = "PENDING"
    BY <1>0, <2>1, <2>2
  <2>4. UNCHANGED <<L2PendingQueue, L2CompletionQueue, l2, misuse>>
    BY <1>1 DEF L1Drop, L1FillReadRequest, queues
  <2> QED BY <2>3, <2>4, StillSettled DEF TakenOff, queues
<1>2. ASSUME L1Exit PROVE IInv'
  BY <1>2, ResetSettles DEF L1Exit, TakenOff
<1>3. ASSUME L1CancelDone PROVE IInv'
  <2>1. ~TakenOff'
    BY <1>3 DEF L1CancelDone, Goto, TakenOff, TypeOK, L2Thread
  <2> QED BY <1>3, <2>1, StillSettled DEF L1CancelDone
<1>4. ASSUME \/ L1Wait \/ L1Completion \/ L1Kick \/ L1NothingToFill
             \/ L1CheckKick \/ L1Stop \/ L1StopSignal \/ L1StopDone
             \/ L1Resume \/ L1ResumeDone \/ L1Purge \/ L1PurgeDone
             \/ L1Cancel
      PROVE  IInv'
  <2>1. UNCHANGED <<buf, queues, misuse>>
    BY <1>4 DEF L1Wait, L1Completion, L1Kick, L1NothingToFill, L1CheckKick,
                L1Stop, L1StopSignal, L1StopDone, L1Resume, L1ResumeDone,
                L1Purge, L1PurgeDone, L1Cancel
  <2>2. UNCHANGED l2 \/ \E e \in L2Events : l2' = Signal(l2, e)
    BY <1>4 DEF L1Wait, L1Completion, L1Kick, L1NothingToFill, L1CheckKick,
                L1Stop, L1StopSignal, L1StopDone, L1Resume, L1ResumeDone,
                L1Purge, L1PurgeDone, L1Cancel, L2Events
  <2>3. TakenOff' => TakenOff /\ UNCHANGED l2.pActiveL2Buf
    BY <2>2, SignalTakesNothing DEF TakenOff
  <2> QED BY <2>1, <2>3, StillSettled
<1> QED BY <1>1, <1>2, <1>3, <1>4 DEF L1Next

\* The bus and the other threads leave the buffers alone or reset the ring.
LEMMA OthersSettled ==
    ASSUME TypeOK, IInv,
           \/ BusNext \/ ClientNext
           \/ \E r \in Requesters : RequesterNext(r)
           \/ DispatchPurge \/ CancelReadThreadDone
    PROVE  IInv'
<1>1. CASE MultiReadCompletionRoutine
  BY <1>1, CompletionSettled
<1>2. CASE BusData \/ BusBadTransfer \/ BusCancelled
  BY <1>2, StillSettled
     DEF BusData, BusBadTransfer, BusCancelled, BusStep, TakenOff
<1>3. CASE CreateThreads
  <2>1. ~TakenOff'
    BY <1>3 DEF CreateThreads, NewL2, TakenOff
  <2> QED BY <1>3, <2>1, ResetSettles DEF CreateThreads, OtherStep
<1>4. CASE \E r \in Requesters : RequestReset(r)
  BY <1>4, ResetSettles DEF RequestReset, OtherStep, TakenOff
<1>5. CASE \/ \E r \in Requesters : \/ RequestStop(r) \/ RequestResume(r)
                                    \/ SignalRequest(r) \/ RequestTimeout(r)
                                    \/ RequestAcked(r)
           \/ RequestPurge \/ CancelReadThread \/ Enqueue
           \/ DispatchPurge \/ CancelReadThreadDone
  <2>1. UNCHANGED <<buf, queues, l2, misuse>>
    BY <1>5 DEF OtherStep, RingAlone, ring, RequestStop, RequestResume,
                Request, SignalRequest, RequestTimeout, RequestAcked,
                RequestPurge, CancelReadThread, Enqueue, DispatchPurge,
                CancelReadThreadDone
  <2> QED BY <2>1, StillSettled DEF TakenOff
<1> QED BY <1>1, <1>2, <1>3, <1>4, <1>5 DEF BusNext, ClientNext, RequesterNext

\* Until a reset or an inline status overtakes a completion, a buffer whose
\* transfer is in flight is PENDING and on one queue once, whatever the order
\* in which the transfers end and the threads run.
THEOREM FlightsAreApart == Spec => []InFlightIsPending
<1>1. Init => IInv
  <2> SUFFICES ASSUME Init PROVE Settled
    BY DEF IInv
  <2>1. L2PendingQueue = <<>> /\ L2CompletionQueue = <<>> /\ ~TakenOff
    BY DEF Init, InitWith, NewL2, TakenOff
  <2>2. DOMAIN <<>> = {}
    OBVIOUS
  <2> QED BY <2>1, <2>2 DEF Settled, OnceAndPending, Apart, TakenIsPending
<1>2. TypeOK /\ IInv /\ [Next]_vars => IInv'
  <2> SUFFICES ASSUME TypeOK, IInv, [Next]_vars PROVE IInv'
    OBVIOUS
  <2>1. CASE UNCHANGED vars
    BY <2>1, StillSettled DEF vars, ring, TakenOff
  <2> QED BY <2>1, L1Settled, L2Settled, OthersSettled DEF Next
<1>3. TypeOK /\ IInv => InFlightIsPending
  BY IInvImplies
<1> QED BY <1>1, <1>2, <1>3, TypeCorrect, PTL DEF Spec

-----------------------------------------------------------------------------
(***************************************************************************)
(* The pipeline implements ReadChannel.                                    *)
(*                                                                         *)
(* The invariant says where the ring's buffers are: from the fill index    *)
(* on, first those in use, up to L2's index, then the READY ones.  The     *)
(* transfers that the lower driver has not served follow all frames, in    *)
(* the order of the pending queue: the frame that the device sends next    *)
(* goes behind those that wait.                                            *)
(***************************************************************************)
Dist(i) == IF i >= L2FillIdx THEN i - L2FillIdx
                             ELSE i - L2FillIdx + NumberOfL2Buffers
Unserved(i) == buf[i].State = "PENDING" /\ irp[i].Status = "PENDING"

InUse(n) == /\ \A i \in Idx : buf[i].State = "READY" <=> Dist(i) >= n
            /\ L2IrpEndIdx = Place(IF l2.pc = "advance" THEN n - 1 ELSE n)
            /\ l2.pc = "advance" => n >= 1
Queued(i) == \/ \E k \in DOMAIN L2PendingQueue : L2PendingQueue[k] = i
             \/ \E k \in DOMAIN L2CompletionQueue : L2CompletionQueue[k] = i
Submitted == l2.pc = "advance" => Queued(L2IrpEndIdx)
InRingOrder == \A j, k \in DOMAIN L2PendingQueue :
                  j < k => Dist(L2PendingQueue[j]) < Dist(L2PendingQueue[k])
FramesFirst == \A i, j \in Idx :
                  FrameOf(i) # 0 /\ Unserved(j) => Dist(i) < Dist(j)
UnservedIsPending ==
    \A i \in Idx : Unserved(i) => \E k \in DOMAIN L2PendingQueue : L2PendingQueue[k] = i
EndedIsKnown == \A i \in Idx : buf[i].State = "COMPLETED" => buf[i].Status # "PENDING"

Lined == /\ \E n \in 0 .. NumberOfL2Buffers : InUse(n)
         /\ Submitted
         /\ InRingOrder
         /\ FramesFirst
         /\ UnservedIsPending
         /\ EndedIsKnown
CInv == misuse = "none" => Lined

\* Once L1 leaves its loop there is no L2, and the reset that follows leaves
\* every buffer READY until both threads are created again.
Gone == {"exit", "terminated", "none"}
Drained ==
    /\ l1.pc \in Gone => l2.pc = "none"
    /\ l1.pc \in Gone \ {"exit"} => \A i \in Idx : buf[i] = ReadyBuffer

\* The ring, counted from the fill index.
LEMMA Geometry ==
    ASSUME L2FillIdx \in Idx
    PROVE  /\ \A i \in Idx : Dist(i) \in 0 .. NumberOfL2Buffers - 1 /\ Place(Dist(i)) = i
           /\ \A k \in 0 .. NumberOfL2Buffers - 1 :
                 /\ Place(k) \in Idx /\ Dist(Place(k)) = k
                 /\ NextIdx(Place(k)) = Place(k + 1)
           /\ Place(0) = L2FillIdx /\ Place(NumberOfL2Buffers) = L2FillIdx
           /\ Dist(L2FillIdx) = 0
BY BuffersAssumption DEF Dist, Place, Idx, NextIdx

\* What a step of the fill index does to the places and the distances.
LEMMA Turned ==
    ASSUME L2FillIdx \in Idx, L2FillIdx' = NextIdx(L2FillIdx)
    PROVE  /\ \A k \in 0 .. NumberOfL2Buffers - 1 : Place(k)' = Place(k + 1)
           /\ \A i \in Idx \ {L2FillIdx} : Dist(i)' = Dist(i) - 1 /\ Dist(i) >= 1
           /\ Dist(L2FillIdx) = 0
           /\ \A i \in Idx : i = L2FillIdx => Dist(i)' = NumberOfL2Buffers - 1
BY BuffersAssumption DEF Dist, Place, Idx, NextIdx

\* The frames of the ring, before those that are none are left out.
Slots == [k \in 1 .. NumberOfL2Buffers |-> FrameOf(Place(k - 1))]

\* They are frames.
LEMMA SlotsType ==
    ASSUME TypeOK
    PROVE  /\ \A i \in Idx : FrameOf(i) \in Frames
           /\ Slots \in Seq(Frames) /\ Len(Slots) = NumberOfL2Buffers
           /\ \A i \in Idx : /\ Dist(i) + 1 \in 1 .. NumberOfL2Buffers
                             /\ Slots[Dist(i) + 1] = FrameOf(i)
           /\ \A k \in 1 .. NumberOfL2Buffers : Slots[k] = FrameOf(Place(k - 1))
<1>1. NumberOfL2Buffers \in Nat /\ L2FillIdx \in Idx
  BY BuffersAssumption DEF TypeOK
<1>2. ASSUME NEW i \in Idx PROVE FrameOf(i) \in Frames
  BY BoundsAssumption DEF FrameOf, TypeOK, Buffer, ReadIrp, Frames
<1>3. ASSUME NEW k \in 1 .. NumberOfL2Buffers
      PROVE  Place(k - 1) \in Idx
  <2>1. k - 1 \in 0 .. NumberOfL2Buffers - 1
    BY <1>1
  <2> QED BY <1>1, <2>1, Geometry
<1>4. Slots \in [1 .. NumberOfL2Buffers -> Frames]
  BY <1>2, <1>3 DEF Slots
<1>5. Slots \in Seq(Frames) /\ Len(Slots) = NumberOfL2Buffers
  BY <1>1, <1>4
<1>6. ASSUME NEW i \in Idx
      PROVE  /\ Dist(i) + 1 \in 1 .. NumberOfL2Buffers
             /\ Slots[Dist(i) + 1] = FrameOf(i)
  <2>1. Dist(i) \in 0 .. NumberOfL2Buffers - 1 /\ Place(Dist(i)) = i
    BY <1>1, Geometry
  <2>2. Dist(i) + 1 \in 1 .. NumberOfL2Buffers /\ (Dist(i) + 1) - 1 = Dist(i)
    BY <1>1, <2>1
  <2> QED BY <2>1, <2>2 DEF Slots
<1> QED BY <1>2, <1>5, <1>6 DEF Slots

\* A step that changes no buffer's frame and not the fill index.
LEMMA SameFrames ==
    ASSUME TypeOK, UNCHANGED L2FillIdx, \A i \in Idx : FrameOf(i)' = FrameOf(i)
    PROVE  RingFrames' = RingFrames
<1>1. \A k \in 1 .. NumberOfL2Buffers : Place(k - 1)' = Place(k - 1) /\ Place(k - 1) \in Idx
  <2>1. \A k \in 1 .. NumberOfL2Buffers : k - 1 \in 0 .. NumberOfL2Buffers - 1
    BY BuffersAssumption
  <2>2. L2FillIdx \in Idx
    BY DEF TypeOK
  <2> QED BY <2>1, <2>2, Geometry DEF Place
<1>2. \A k \in 1 .. NumberOfL2Buffers : FrameOf(Place(k - 1))' = FrameOf(Place(k - 1))
  BY <1>1 DEF FrameOf
<1>3. Slots' = Slots
  BY <1>2 DEF Slots
<1>4. RingFrames = Keep(Slots, 1 .. MaxFrames) /\ RingFrames' = Keep(Slots', 1 .. MaxFrames)
  BY DEF RingFrames, Slots
<1> QED BY <1>3, <1>4

\* No frame waits in a ring whose buffers are all READY.
LEMMA NoFrames ==
    ASSUME TypeOK, \A i \in Idx : buf[i] = ReadyBuffer
    PROVE  RingFrames = <<>>
<1>1. \A i \in Idx : FrameOf(i) = 0
  BY DEF FrameOf, ReadyBuffer
<1>2. Slots \in Seq(Frames) /\ Len(Slots) = NumberOfL2Buffers
  BY SlotsType
<1>3. \A k \in 1 .. NumberOfL2Buffers : Slots[k] = 0
  <2>1. \A k \in 1 .. NumberOfL2Buffers : k - 1 \in 0 .. NumberOfL2Buffers - 1
    BY BuffersAssumption
  <2>2. \A k \in 1 .. NumberOfL2Buffers : Place(k - 1) \in Idx
    BY <2>1, Geometry DEF TypeOK
  <2> QED BY <1>1, <2>2, SlotsType
<1>4. ToSet(Slots) \cap (1 .. MaxFrames) = {}
  BY <1>2, <1>3, Elements
<1> QED BY <1>2, <1>4, KeepNone DEF RingFrames, Slots

\* A rule that the environment has broken stays broken.
LEMMA MisuseStays ==
    ASSUME TypeOK, [Next]_vars, misuse' = "none"
    PROVE  misuse = "none"
<1> USE DEF ring
<1>1. CASE UNCHANGED vars
  BY <1>1 DEF vars
<1>2. CASE L1Next
  BY <1>2 DEF L1Next, L1NoData, ResetL2Buffers, L1Wait, L1Completion, L1Kick,
     L1Drop, L1FillReadRequest, L1NothingToFill, L1CheckKick, L1Stop,
     L1StopSignal, L1StopDone, L1Resume, L1ResumeDone, L1Purge, L1PurgeDone,
     L1Cancel, L1CancelDone, L1Exit
<1>3. CASE L2Next
  BY <1>3 DEF L2Next, L2Submit, L2SubmitDone, L2Advance, L2AdvanceInline, L2Wait,
     L2Kick, L2Cancel, L2Stop, L2Resume, L2Dequeue, L2ClearEvent, L2Complete,
     L2StopSelf, L2Notify
<1>4. CASE BusNext
  BY <1>4 DEF BusNext, BusStep, BusData, BusBadTransfer, BusCancelled,
     MultiReadCompletionRoutine
<1>5. CASE ClientNext \/ (\E r \in Requesters : RequesterNext(r))
           \/ DispatchPurge \/ CancelReadThreadDone
  BY <1>5 DEF ClientNext, RequesterNext, ResetL2Buffers, RingAlone, RequestStop,
     RequestResume, Request, SignalRequest, RequestTimeout, RequestAcked,
     RequestReset, RequestPurge, CancelReadThread, Enqueue, CreateThreads,
     DispatchPurge, CancelReadThreadDone
<1> QED BY <1>1, <1>2, <1>3, <1>4, <1>5 DEF Next

\* L1 leaves its loop only for good, when L2 has ended.
LEMMA L1Drained == ASSUME TypeOK, Drained, L1Next PROVE Drained'
<1> USE DEF L1Step, L1NoData
<1>0. l1 \in L1Thread /\ l2 \in L2Thread /\ L1Events \cap Gone = {}
  BY DEF TypeOK, L1Events, Gone
<1>1. ASSUME NEW e, NEW pc \in L1Pcs \ Gone, l1' = Clear(l1, e, pc) PROVE Drained'
  <2>1. l1'.pc = pc
    BY <1>0, <1>1 DEF Clear, L1Thread
  <2> QED BY <1>1, <2>1 DEF Drained
<1>2. ASSUME NEW pc \in L1Pcs \ Gone, l1'.pc = pc PROVE Drained'
  BY <1>2 DEF Drained
<1>3. CASE L1Wait
  <2>1. WaitAny(l1, L1Index).pc \in L1Events \cup {"blocked"}
    BY <1>0, WaitL1
  <2>2. l1'.pc \in L1Events \cup {"blocked"}
    BY <1>0, <1>3, <2>1 DEF L1Wait, Goto, L1Thread, L1Events
  <2> QED BY <1>0, <2>2 DEF Drained, Gone
<1>4. CASE L1Completion \/ L1Kick
  BY <1>1, <1>4 DEF L1Completion, L1Kick, L1Pcs, Gone
<1>5. CASE L1Drop
  BY <1>0, <1>2, <1>5 DEF L1Drop, L1Thread, L1Pcs, Gone
<1>6. CASE L1FillReadRequest
  <2>1. l1'.pc \in {"checkKick", "wait"}
    BY <1>0, <1>6 DEF L1FillReadRequest, L1Thread
  <2> QED BY <2>1 DEF Drained, Gone
<1>7. CASE \/ L1NothingToFill \/ L1CheckKick \/ L1StopSignal \/ L1StopDone
           \/ L1ResumeDone \/ L1PurgeDone
  <2>1. l1'.pc \in {"wait", "stopWait"}
    BY <1>0, <1>7 DEF L1NothingToFill, L1CheckKick, L1StopSignal, L1StopDone,
                      L1ResumeDone, L1PurgeDone, Goto, L1Thread
  <2> QED BY <2>1 DEF Drained, Gone
<1>8. CASE L1Stop \/ L1Resume \/ L1Purge \/ L1Cancel
  <2>1. /\ Clear(l1, "STOP", "stopSignal").pc = "stopSignal"
        /\ Clear(l1, "STOP", "stopSignal") \in L1Thread
        /\ Clear(l1, "RESUME", "resumeWait").pc = "resumeWait"
        /\ Clear(l1, "RESUME", "resumeWait") \in L1Thread
        /\ Clear(l1, "PURGE", "purgeWait").pc = "purgeWait"
        /\ Clear(l1, "CANCEL", "cancelWait").pc = "cancelWait"
        /\ Clear(l1, "CANCEL", "cancelWait") \in L1Thread
    BY <1>0, ClearL1 DEF Clear, L1Thread, L1Pcs
  <2>2. l1'.pc \in {"stopSignal", "resumeWait", "purgeWait", "cancelWait"}
    BY <1>8, <2>1 DEF L1Stop, L1Resume, L1Purge, L1Cancel, L1Thread
  <2> QED BY <2>2 DEF Drained, Gone
<1>9. CASE L1CancelDone
  <2>1. l1'.pc = "exit" /\ l2'.pc = "none"
    BY <1>0, <1>9 DEF L1CancelDone, Goto, L1Thread, L2Thread
  <2> QED BY <2>1 DEF Drained
<1>10. CASE L1Exit
  <2>1. l2.pc = "none" /\ l2' = l2
    BY <1>10 DEF L1Exit, Drained, Gone
  <2>2. \A i \in Idx : buf'[i] = ReadyBuffer
    BY <1>10 DEF L1Exit, ResetL2Buffers
  <2> QED BY <2>1, <2>2 DEF Drained, ReadyBuffer
<1> QED BY <1>3, <1>4, <1>5, <1>6, <1>7, <1>8, <1>9, <1>10 DEF L1Next

\* A signal does not make L1 leave its loop.
LEMMA SignalKeepsDrained ==
    ASSUME TypeOK, Drained, l1' = l1 \/ \E e \in L1Events : l1' = Signal(l1, e),
           l2.pc = "none" => l2'.pc = "none",
           \A i \in Idx : buf[i] = ReadyBuffer => buf'[i] = ReadyBuffer
    PROVE  Drained'
<1>1. l1'.pc \in Gone => l1'.pc = l1.pc
  BY DEF Signal, TypeOK, L1Thread, L1Events, Gone
<1>2. l1'.pc \in Gone => l1.pc \in Gone
  BY <1>1
<1> QED BY <1>1, <1>2 DEF Drained, ReadyBuffer

\* Without L2 nothing is submitted.
LEMMA StepDrained == ASSUME TypeOK, Drained, [Next]_vars PROVE Drained'
<1>1. CASE UNCHANGED vars
  BY <1>1 DEF vars, ring, Drained, ReadyBuffer
<1>2. CASE L2Next
  <2>1. l2.pc # "none"
    BY <1>2 DEF L2Next, L2Submit, L2SubmitDone, L2Advance, L2AdvanceInline, L2Wait,
       L2Kick, L2Cancel, L2Stop, L2Resume, L2Dequeue, L2ClearEvent, L2Complete,
       L2StopSelf, L2Notify
  <2>2. l1' = l1 \/ l1' = Signal(l1, "COMPLETION")
    BY <1>2 DEF L2Next, L2Submit, L2SubmitDone, L2Advance, L2AdvanceInline, L2Wait,
       L2Kick, L2Cancel, L2Stop, L2Resume, L2Dequeue, L2ClearEvent, L2Complete,
       L2StopSelf, L2Notify
  <2>3. l1'.pc \notin Gone
    BY <2>1, <2>2 DEF Drained, Signal, TypeOK, L1Thread, Gone
  <2> QED BY <2>3 DEF Drained
<1>3. CASE BusNext
  <2>1. UNCHANGED <<buf, l1>> /\ (l2' = l2 \/ l2' = Signal(l2, "USB"))
    BY <1>3 DEF BusNext, BusStep, BusData, BusBadTransfer, BusCancelled,
       MultiReadCompletionRoutine, ring
  <2>2. l2.pc = "none" => l2'.pc = "none"
    BY <2>1 DEF Signal, TypeOK, L2Thread
  <2> QED BY <2>1, <2>2, SignalKeepsDrained
<1>4. CASE CreateThreads
  <2>1. l1'.pc = "wait"
    BY <1>4 DEF CreateThreads, NewL1
  <2> QED BY <2>1 DEF Drained, Gone
<1>5. CASE CancelReadThreadDone
  <2>1. l1.pc = "terminated" /\ l1'.pc = "none" /\ UNCHANGED <<buf, l2>>
    BY <1>5 DEF CancelReadThreadDone, Goto, TypeOK, L1Thread, RingAlone, ring
  <2> QED BY <2>1 DEF Drained, Gone, ReadyBuffer
<1>6. CASE \/ \E r \in Requesters : \/ RequestStop(r) \/ RequestResume(r)
                                    \/ SignalRequest(r) \/ RequestTimeout(r)
                                    \/ RequestAcked(r) \/ RequestReset(r)
           \/ RequestPurge \/ CancelReadThread \/ Enqueue \/ DispatchPurge
  <2>1. /\ \/ l1' = l1 \/ l1' = Signal(l1, "STOP") \/ l1' = Signal(l1, "RESUME")
           \/ l1' = Signal(l1, "PURGE") \/ l1' = Signal(l1, "CANCEL")
           \/ l1' = Signal(l1, "KICK")
        /\ l2' = l2
    BY <1>6 DEF RingAlone, ring, RequestStop, RequestResume, Request, SignalRequest,
       RequestTimeout, RequestAcked, RequestReset, RequestPurge, CancelReadThread,
       Enqueue, DispatchPurge
  <2>2. \A i \in Idx : buf[i] = ReadyBuffer => buf'[i] = ReadyBuffer
    BY <1>6 DEF RingAlone, ring, RequestStop, RequestResume, Request, SignalRequest,
       RequestTimeout, RequestAcked, RequestReset, RequestPurge, CancelReadThread,
       Enqueue, DispatchPurge, ResetL2Buffers
  <2>3. l1' = l1 \/ \E e \in L1Events : l1' = Signal(l1, e)
    BY <2>1 DEF L1Events
  <2> QED BY <2>1, <2>2, <2>3, SignalKeepsDrained
<1> QED BY <1>1, <1>2, <1>3, <1>4, <1>5, <1>6, L1Drained
           DEF Next, ClientNext, RequesterNext

\* What the invariant says of the buffers does not change with a step that
\* leaves the ring and the ends of its transfers alone.
LEMMA SameRing ==
    ASSUME UNCHANGED <<buf, L2FillIdx>>,
           \A i \in Idx : /\ irp'[i].Status = irp[i].Status
                          /\ irp'[i].Frame = irp[i].Frame
    PROVE  /\ \A i \in Idx : /\ FrameOf(i)' = FrameOf(i)
                             /\ Unserved(i)' <=> Unserved(i)
                             /\ Dist(i)' = Dist(i)
           /\ EndedIsKnown => EndedIsKnown'
           /\ FramesFirst => FramesFirst'
<1>1. \A i \in Idx : FrameOf(i)' = FrameOf(i)
  BY DEF FrameOf
<1>2. \A i \in Idx : Unserved(i)' <=> Unserved(i)
  BY DEF Unserved
<1>3. \A i \in Idx : Dist(i)' = Dist(i)
  BY DEF Dist
<1>4. EndedIsKnown => EndedIsKnown'
  BY DEF EndedIsKnown
<1>5. FramesFirst => FramesFirst'
  BY <1>1, <1>2, <1>3 DEF FramesFirst
<1> QED BY <1>1, <1>2, <1>3, <1>4, <1>5

\* L2's index and the buffers in use, when L2 does not move on.
LEMMA SameUse ==
    ASSUME UNCHANGED <<buf, L2FillIdx, L2IrpEndIdx>>,
           l2'.pc = "advance" <=> l2.pc = "advance",
           NEW n, InUse(n)
    PROVE  InUse(n)'
<1>1. \A i \in Idx : Dist(i)' = Dist(i)
  BY DEF Dist
<1>2. \A k : Place(k)' = Place(k)
  BY DEF Place
<1> QED BY <1>1, <1>2 DEF InUse

\* A step that leaves the ring, the pending queue and the ends of the transfers
\* alone.
LEMMA QuietStep ==
    ASSUME TypeOK, Lined,
           UNCHANGED <<buf, L2FillIdx, L2IrpEndIdx, L2PendingQueue>>,
           \A i \in Idx : /\ irp'[i].Status = irp[i].Status
                          /\ irp'[i].Frame = irp[i].Frame,
           l2'.pc = "advance" <=> l2.pc = "advance",
           l2.pc = "advance" => UNCHANGED L2CompletionQueue
    PROVE  Lined' /\ RingFrames' = RingFrames
<1>1. RingFrames' = RingFrames
  BY SameRing, SameFrames
<1>2. PICK n \in 0 .. NumberOfL2Buffers : InUse(n)
  BY DEF Lined
<1>3. InUse(n)'
  BY <1>2, SameUse
<1>4. Submitted'
  BY DEF Lined, Submitted, Queued
<1>5. InRingOrder'
  <2>1. \A k \in DOMAIN L2PendingQueue : L2PendingQueue[k] \in Idx
    BY LenProperties DEF TypeOK
  <2> QED BY <2>1, SameRing DEF Lined, InRingOrder
<1>6. UnservedIsPending'
  BY SameRing DEF Lined, UnservedIsPending
<1> QED BY <1>1, <1>2, <1>3, <1>4, <1>5, <1>6, SameRing DEF Lined

\* The completion routine takes a transfer that has ended off the queue.
LEMMA CompletionLined ==
    ASSUME TypeOK, Lined, MultiReadCompletionRoutine
    PROVE  Lined' /\ RingFrames' = RingFrames
<1> DEFINE p == L2PendingQueue
           q == L2CompletionQueue
<1>0. p \in Seq(Idx) /\ q \in Seq(Idx) /\ Len(p) \in Nat /\ Len(q) \in Nat
      /\ DOMAIN p = 1 .. Len(p) /\ DOMAIN q = 1 .. Len(q)
      /\ \A k \in DOMAIN p : p[k] \in Idx
  BY LenProperties DEF TypeOK
<1>1. PICK m \in DOMAIN p : /\ irp[p[m]].Status # "PENDING"
                            /\ p' = RemoveAt(p, m) /\ q' = Append(q, p[m])
  BY DEF MultiReadCompletionRoutine
<1>2. UNCHANGED <<buf, irp, L2FillIdx, L2IrpEndIdx>>
  BY DEF MultiReadCompletionRoutine, ring
<1>3. l2'.pc = "advance" <=> l2.pc = "advance"
  BY SignalL2 DEF MultiReadCompletionRoutine, TypeOK, L2Events
<1>4. /\ DOMAIN p' = 1 .. Len(p) - 1
      /\ \A j \in 1 .. Len(p) - 1 : p'[j] = IF j < m THEN p[j] ELSE p[j + 1]
  <2>1. m \in 1 .. Len(p)
    BY <1>0
  <2> HIDE DEF p, q
  <2>2. /\ RemoveAt(p, m) \in Seq(Idx) /\ Len(RemoveAt(p, m)) = Len(p) - 1
        /\ \A j \in 1 .. Len(p) - 1 :
              RemoveAt(p, m)[j] = IF j < m THEN p[j] ELSE p[j + 1]
    BY <1>0, <2>1, RemoveAtSeq
  <2> QED BY <1>1, <2>2, LenProperties
<1>5. /\ q'[Len(q) + 1] = p[m] /\ Len(q) + 1 \in DOMAIN q'
      /\ \A k \in DOMAIN q : k \in DOMAIN q' /\ q'[k] = q[k]
  <2> HIDE DEF p, q
  <2>1. p[m] \in Idx
    BY <1>0
  <2> QED BY <1>0, <1>1, <2>1, AppendProperties, LenProperties
<1>6. \A k \in DOMAIN p : k # m => \E j \in DOMAIN p' : p'[j] = p[k]
  <2> SUFFICES ASSUME NEW k \in DOMAIN p, k # m PROVE \E j \in DOMAIN p' : p'[j] = p[k]
    OBVIOUS
  <2> HIDE DEF p, q
  <2>1. CASE k < m
    BY <1>0, <1>4, <2>1
  <2>2. CASE k > m
    <3>1. k - 1 \in 1 .. Len(p) - 1 /\ ~(k - 1 < m) /\ (k - 1) + 1 = k
      BY <1>0, <2>2
    <3> QED BY <1>4, <3>1
  <2> QED BY <1>0, <2>1, <2>2
<1>7. Submitted'
  <2> SUFFICES ASSUME l2'.pc = "advance" PROVE Queued(L2IrpEndIdx)'
    BY DEF Submitted
  <2>1. Queued(L2IrpEndIdx)
    BY <1>3 DEF Lined, Submitted
  <2> QED BY <1>1, <1>2, <1>5, <1>6, <2>1 DEF Queued
<1>8. InRingOrder'
  <2>1. ASSUME NEW j \in DOMAIN p', NEW k \in DOMAIN p', j < k
        PROVE  Dist(p'[j]) < Dist(p'[k])
    <3> DEFINE a == IF j < m THEN j ELSE j + 1
               b == IF k < m THEN k ELSE k + 1
    <3> HIDE DEF p, q
    <3>1. a \in DOMAIN p /\ b \in DOMAIN p /\ a < b /\ p'[j] = p[a] /\ p'[k] = p[b]
      BY <1>0, <1>1, <1>4, <2>1
    <3> HIDE DEF a, b
    <3> QED BY <3>1 DEF Lined, InRingOrder, p
  <2>2. \A i : Dist(i)' = Dist(i)
    BY <1>2 DEF Dist
  <2> QED BY <2>1, <2>2 DEF InRingOrder
<1>9. UnservedIsPending'
  <2> SUFFICES ASSUME NEW i \in Idx, Unserved(i)
               PROVE  \E k \in DOMAIN p' : p'[k] = i
    BY <1>2, SameRing DEF UnservedIsPending
  <2>1. PICK k \in DOMAIN p : p[k] = i
    BY DEF Lined, UnservedIsPending
  <2>2. k # m
    BY <1>1, <2>1 DEF Unserved
  <2> QED BY <1>6, <2>1, <2>2
<1>10. PICK n \in 0 .. NumberOfL2Buffers : InUse(n)
  BY DEF Lined
<1>11. InUse(n)'
  BY <1>2, <1>3, <1>10, SameUse
<1>12. RingFrames' = RingFrames
  BY <1>2, SameRing, SameFrames
<1>13. FramesFirst' /\ EndedIsKnown'
  BY <1>2, SameRing DEF Lined
<1> QED BY <1>7, <1>8, <1>9, <1>10, <1>11, <1>12, <1>13 DEF Lined

\* L2 submits the buffer that follows those in use.
LEMMA SubmitLined ==
    ASSUME TypeOK, Settled, Lined, L2Submit
    PROVE  Lined' /\ RingFrames' = RingFrames
<1> DEFINE e == L2IrpEndIdx
           p == L2PendingQueue
<1>0. /\ e \in Idx /\ L2FillIdx \in Idx /\ p \in Seq(Idx) /\ Len(p) \in Nat
      /\ DOMAIN p = 1 .. Len(p) /\ \A k \in DOMAIN p : p[k] \in Idx
      /\ buf \in [Idx -> Buffer] /\ irp \in [Idx -> ReadIrp] /\ NumberOfL2Buffers \in Nat
  BY LenProperties, BuffersAssumption DEF TypeOK
<1>1. /\ l2.pc = "submit" /\ buf[e].State = "READY" /\ l2'.pc = "advance"
      /\ buf' = [buf EXCEPT ![e].State = "PENDING"]
      /\ irp' = [irp EXCEPT ![e] = [Status |-> "PENDING", Frame |-> 0, Cancel |-> FALSE]]
      /\ p' = Append(p, e) /\ UNCHANGED <<L2FillIdx, L2IrpEndIdx, L2CompletionQueue>>
  BY DEF L2Submit, L2Step, L2Frame, CanSubmit, Goto, TypeOK, L2Thread
<1>2. PICK n \in 0 .. NumberOfL2Buffers : InUse(n)
  BY DEF Lined
<1>3. /\ buf'[e].State = "PENDING" /\ irp'[e].Status = "PENDING"
      /\ \A i \in Idx : i # e => buf'[i] = buf[i] /\ irp'[i] = irp[i]
  BY <1>0, <1>1 DEF Buffer
<1>4. \A i : Dist(i)' = Dist(i)
  BY <1>1 DEF Dist
<1>5. \A k : Place(k)' = Place(k)
  BY <1>1 DEF Place
<1>6. n < NumberOfL2Buffers /\ Dist(e) = n /\ e = Place(n)
  <2>1. e = Place(n) /\ Dist(e) >= n
    BY <1>0, <1>1, <1>2 DEF InUse
  <2>2. Dist(e) \in 0 .. NumberOfL2Buffers - 1
    BY <1>0, Geometry
  <2>3. n < NumberOfL2Buffers
    BY <1>0, <2>1, <2>2
  <2>4. n \in 0 .. NumberOfL2Buffers - 1
    BY <1>0, <2>3
  <2> QED BY <1>0, <2>1, <2>3, <2>4, Geometry
<1>7. \A i \in Idx : Dist(i) \in Nat /\ (i # e => Dist(i) # n)
  <2>1. \A i \in Idx : Dist(i) \in 0 .. NumberOfL2Buffers - 1 /\ Place(Dist(i)) = i
    BY <1>0, Geometry
  <2> QED BY <1>0, <1>6, <2>1
<1> HIDE DEF e, p
<1>8. n + 1 \in 0 .. NumberOfL2Buffers /\ (n + 1) - 1 = n /\ n + 1 >= 1 /\ n \in Nat
  BY <1>0, <1>6
<1>9. InUse(n + 1)'
  <2>1. ASSUME NEW i \in Idx
        PROVE  buf'[i].State = "READY" <=> Dist(i) >= n + 1
    <3>1. CASE i = e
      BY <1>3, <1>6, <1>8, <3>1
    <3>2. CASE i # e
      <4>1. buf'[i] = buf[i] /\ (buf[i].State = "READY" <=> Dist(i) >= n)
        BY <1>2, <1>3, <3>2 DEF InUse
      <4>2. Dist(i) \in Nat /\ Dist(i) # n
        BY <1>7, <3>2
      <4>3. Dist(i) >= n <=> Dist(i) >= n + 1
        BY <1>8, <4>2
      <4> QED BY <4>1, <4>3
    <3> QED BY <3>1, <3>2
  <2>2. L2IrpEndIdx' = Place((n + 1) - 1)'
    BY <1>1, <1>5, <1>6, <1>8 DEF e
  <2> QED BY <1>1, <1>4, <1>8, <2>1, <2>2 DEF InUse
<1>10. /\ DOMAIN p' = 1 .. Len(p) + 1 /\ p'[Len(p) + 1] = e
       /\ \A k \in 1 .. Len(p) : p'[k] = p[k]
  BY <1>0, <1>1, AppendProperties, LenProperties
<1>11. Submitted'
  <2>1. Len(p) + 1 \in DOMAIN p'
    BY <1>0, <1>10
  <2>2. L2IrpEndIdx' = e
    BY <1>1 DEF e
  <2> QED BY <1>10, <2>1, <2>2 DEF Submitted, Queued, p
<1>12. ASSUME NEW i \in Idx, buf[i].State # "READY"
       PROVE  Dist(i) < n
  BY <1>2, <1>7, <1>8, <1>12 DEF InUse
<1>13. ASSUME NEW k \in DOMAIN p
       PROVE  Dist(p[k]) < n
  <2>1. buf[p[k]].State = "PENDING"
    BY DEF Settled, OnceAndPending, p
  <2> QED BY <1>0, <1>12, <2>1
<1>14. ASSUME NEW i \in Idx PROVE FrameOf(i)' = FrameOf(i)
  <2>1. CASE i = e
    BY <1>1, <1>3, <2>1 DEF FrameOf, e
  <2>2. CASE i # e
    BY <1>3, <2>2 DEF FrameOf
  <2> QED BY <2>1, <2>2
<1>15. FramesFirst'
  <2> SUFFICES ASSUME NEW i \in Idx, NEW j \in Idx, FrameOf(i) # 0, Unserved(j)'
               PROVE  Dist(i) < Dist(j)
    BY <1>4, <1>14 DEF FramesFirst
  <2>1. CASE j = e
    <3>1. buf[i].State # "READY"
      BY DEF FrameOf
    <3> QED BY <1>6, <1>12, <2>1, <3>1
  <2>2. CASE j # e
    <3>1. Unserved(j)
      BY <1>3, <2>2 DEF Unserved
    <3> QED BY <3>1 DEF Lined, FramesFirst
  <2> QED BY <2>1, <2>2
<1>16. UnservedIsPending'
  <2> SUFFICES ASSUME NEW i \in Idx, Unserved(i)'
               PROVE  \E k \in DOMAIN p' : p'[k] = i
    BY DEF UnservedIsPending, p
  <2>1. CASE i = e
    <3>1. Len(p) + 1 \in DOMAIN p'
      BY <1>0, <1>10
    <3> QED BY <1>10, <2>1, <3>1
  <2>2. CASE i # e
    <3>1. PICK k \in DOMAIN p : p[k] = i
      BY <1>3, <2>2 DEF Lined, UnservedIsPending, Unserved, p
    <3>2. k \in 1 .. Len(p) /\ k \in DOMAIN p'
      BY <1>0, <1>10
    <3> QED BY <1>10, <3>1, <3>2
  <2> QED BY <2>1, <2>2
<1>17. EndedIsKnown'
  BY <1>3 DEF Lined, EndedIsKnown
<1>18. RingFrames' = RingFrames
  BY <1>1, <1>14, SameFrames
<1>19. InRingOrder'
  <2> SUFFICES ASSUME NEW j \in DOMAIN p', NEW k \in DOMAIN p', j < k
               PROVE  Dist(p'[j]) < Dist(p'[k])
    BY <1>4 DEF InRingOrder, p
  <2>1. j \in 1 .. Len(p) /\ p'[j] = p[j]
    BY <1>0, <1>10
  <2>2. CASE k = Len(p) + 1
    BY <1>0, <1>6, <1>10, <1>13, <2>1, <2>2
  <2>3. CASE k # Len(p) + 1
    <3>1. k \in 1 .. Len(p) /\ p'[k] = p[k]
      BY <1>0, <1>10, <2>3
    <3> QED BY <1>0, <2>1, <3>1 DEF Lined, InRingOrder, p
  <2> QED BY <2>2, <2>3
<1> QED BY <1>8, <1>9, <1>11, <1>15, <1>16, <1>17, <1>18, <1>19 DEF Lined

\* L2 moves on.
LEMMA AdvanceLined ==
    ASSUME TypeOK, Lined, L2Advance
    PROVE  Lined' /\ RingFrames' = RingFrames
<1>1. /\ UNCHANGED <<buf, irp, L2FillIdx, L2PendingQueue, L2CompletionQueue>>
      /\ l2.pc = "advance" /\ l2'.pc = "submit" /\ L2IrpEndIdx' = NextIdx(L2IrpEndIdx)
  BY DEF L2Advance, L2Step, L2Frame, queues, TypeOK, L2Thread
<1>2. PICK n \in 0 .. NumberOfL2Buffers : InUse(n)
  BY DEF Lined
<1>3. n - 1 \in 0 .. NumberOfL2Buffers - 1 /\ (n - 1) + 1 = n /\ L2IrpEndIdx = Place(n - 1)
  BY <1>1, <1>2, BuffersAssumption DEF InUse
<1>4. NextIdx(Place(n - 1)) = Place(n)
  BY <1>3, Geometry DEF TypeOK
<1>5. InUse(n)'
  <2>1. (\A i : Dist(i)' = Dist(i)) /\ Place(n)' = Place(n)
    BY <1>1 DEF Dist, Place
  <2> QED BY <1>1, <1>2, <1>3, <1>4, <2>1 DEF InUse
<1>6. Submitted'
  BY <1>1 DEF Submitted
<1>7. InRingOrder'
  BY <1>1 DEF Lined, InRingOrder, Dist
<1>8. UnservedIsPending'
  BY <1>1 DEF Lined, UnservedIsPending, Unserved
<1>9. RingFrames' = RingFrames
  BY <1>1, SameRing, SameFrames
<1> QED BY <1>1, <1>2, <1>5, <1>6, <1>7, <1>8, <1>9, SameRing DEF Lined

\* L2 records the end of a transfer; whether it was one with a frame is known
\* already.
LEMMA RecordLined ==
    ASSUME TypeOK, Settled, Lined, L2Complete
    PROVE  Lined' /\ RingFrames' = RingFrames
<1> DEFINE i == l2.pActiveL2Buf
<1>1. /\ i \in Idx /\ buf \in [Idx -> Buffer]
      /\ UNCHANGED <<irp, L2FillIdx, L2IrpEndIdx, L2PendingQueue, L2CompletionQueue>>
      /\ l2.pc = "complete" /\ l2'.pc \in {"notify", "stopSelf"}
      /\ buf' = [buf EXCEPT ![i] = CompletedBuffer(i)]
  BY DEF L2Complete, L2Step, L2Frame, queues, RecordCompletion, Goto, TypeOK, L2Thread
<1>2. /\ buf[i].State = "PENDING"
      /\ \A k \in DOMAIN L2PendingQueue : L2PendingQueue[k] # i
  BY <1>1 DEF Settled, TakenIsPending, TakenOff
<1>3. irp[i].Status # "PENDING"
  BY <1>1, <1>2 DEF Lined, UnservedIsPending, Unserved
<1> HIDE DEF i
<1>4. /\ buf'[i] = CompletedBuffer(i)
      /\ \A j \in Idx : j # i => buf'[j] = buf[j]
  BY <1>1
<1>5. ASSUME NEW j \in Idx
      PROVE  /\ FrameOf(j)' = FrameOf(j) /\ Unserved(j)' = Unserved(j)
             /\ buf'[j].State = "READY" <=> buf[j].State = "READY"
             /\ Dist(j)' = Dist(j)
  <2>1. CASE j = i
    BY <1>1, <1>2, <1>3, <1>4, <2>1 DEF FrameOf, Unserved, Dist, CompletedBuffer
  <2>2. CASE j # i
    BY <1>1, <1>4, <2>2 DEF FrameOf, Unserved, Dist
  <2> QED BY <2>1, <2>2
<1>6. PICK n \in 0 .. NumberOfL2Buffers : InUse(n)
  BY DEF Lined
<1>7. InUse(n)'
  <2>1. Place(n)' = Place(n)
    BY <1>1 DEF Place
  <2> QED BY <1>1, <1>5, <1>6, <2>1 DEF InUse
<1>8. Submitted'
  BY <1>1 DEF Submitted
<1>9. InRingOrder'
  <2>1. \A k \in DOMAIN L2PendingQueue : L2PendingQueue[k] \in Idx
    BY LenProperties DEF TypeOK
  <2> QED BY <1>1, <1>5, <2>1 DEF Lined, InRingOrder
<1>10. FramesFirst'
  BY <1>5 DEF Lined, FramesFirst
<1>11. UnservedIsPending'
  BY <1>1, <1>5 DEF Lined, UnservedIsPending
<1>12. EndedIsKnown'
  BY <1>3, <1>4 DEF Lined, EndedIsKnown, CompletedBuffer
<1>13. RingFrames' = RingFrames
  BY <1>1, <1>5, SameFrames
<1> QED BY <1>6, <1>7, <1>8, <1>9, <1>10, <1>11, <1>12, <1>13 DEF Lined

\* The lower driver ends a transfer that carries no frame.
LEMMA EmptyEndLined ==
    ASSUME TypeOK, Settled, Lined, NEW i \in Idx, Held(i),
           NEW status \in Status \ {"PENDING"}, Finish(i, status, 0),
           UNCHANGED <<buf, L2FillIdx, L2IrpEndIdx, queues, l2>>
    PROVE  Lined' /\ RingFrames' = RingFrames
<1>1. irp \in [Idx -> ReadIrp] /\ L2PendingQueue \in Seq(Idx)
  BY DEF TypeOK
<1>2. /\ irp'[i].Status = status /\ irp'[i].Frame = 0
      /\ \A j \in Idx : j # i => irp'[j] = irp[j]
  BY <1>1 DEF Finish, ReadIrp
<1>3. buf[i].State = "PENDING" /\ irp[i].Status = "PENDING"
  BY DEF Held, Range, Settled, OnceAndPending
<1>4. ASSUME NEW j \in Idx
      PROVE  /\ FrameOf(j)' = FrameOf(j) /\ (Unserved(j)' => Unserved(j))
             /\ Dist(j)' = Dist(j)
  <2>1. CASE j = i
    BY <1>2, <1>3, <2>1 DEF FrameOf, Unserved, Dist
  <2>2. CASE j # i
    BY <1>2, <2>2 DEF FrameOf, Unserved, Dist
  <2> QED BY <2>1, <2>2
<1>5. PICK n \in 0 .. NumberOfL2Buffers : InUse(n)
  BY DEF Lined
<1>6. InUse(n)'
  BY <1>5, SameUse
<1>7. Submitted'
  BY DEF Lined, Submitted, Queued, queues
<1>8. InRingOrder'
  BY DEF Lined, InRingOrder, Dist, queues
<1>9. FramesFirst'
  BY <1>4 DEF Lined, FramesFirst
<1>10. UnservedIsPending'
  BY <1>4 DEF Lined, UnservedIsPending, queues
<1>11. EndedIsKnown'
  BY DEF Lined, EndedIsKnown
<1>12. RingFrames' = RingFrames
  BY <1>4, SameFrames
<1> QED BY <1>5, <1>6, <1>7, <1>8, <1>9, <1>10, <1>11, <1>12 DEF Lined

\* The device's next frame goes behind those that wait.
LEMMA DataLined ==
    ASSUME TypeOK, Settled, Lined, BusData
    PROVE  /\ Lined'
           /\ count.sent + 1 \in 1 .. MaxFrames /\ count'.sent = count.sent + 1
           /\ RingFrames' = Append(RingFrames, count.sent + 1)
           /\ UNCHANGED delivered
<1> DEFINE f == count.sent + 1
           p == L2PendingQueue
<1>1. PICK i \in Idx : Served(i) /\ Finish(i, "SUCCESS", f)
  BY DEF BusData
<1>2. UNCHANGED <<buf, L2FillIdx, L2IrpEndIdx, queues, l2, delivered>>
  BY DEF BusData, BusStep
<1>3. f \in 1 .. MaxFrames /\ f \in Frames /\ f # 0 /\ count'.sent = f
  <2>1. count \in Counts /\ count.sent < MaxFrames
          /\ count' = [count EXCEPT !.sent = @ + 1]
    BY DEF BusData, TypeOK
  <2>2. count.sent \in 0 .. MaxFrames /\ MaxFrames \in Nat
    BY ONLY <2>1, BoundsAssumption DEF Counts, Frames
  <2>3. count'.sent = count.sent + 1
    BY ONLY <2>1 DEF Counts
  <2> QED BY ONLY <2>1, <2>2, <2>3 DEF Frames
<1>4. /\ irp \in [Idx -> ReadIrp] /\ p \in Seq(Idx) /\ DOMAIN p = 1 .. Len(p) /\ Len(p) \in Nat
      /\ \A k \in DOMAIN p : p[k] \in Idx
  BY LenProperties DEF TypeOK
<1> HIDE DEF f
<1>5. /\ irp'[i].Status = "SUCCESS" /\ irp'[i].Frame = f
      /\ \A j \in Idx : j # i => irp'[j] = irp[j]
  BY <1>1, <1>4 DEF Finish, ReadIrp
<1>6. PICK m \in DOMAIN p : p[m] = i /\ Held(i) /\ \A k \in 1 .. m - 1 : ~Held(p[k])
  BY <1>1 DEF Served
<1>7. buf[i].State = "PENDING" /\ irp[i].Status = "PENDING"
  BY <1>6 DEF Held, Settled, OnceAndPending
<1>8. /\ FrameOf(i) = 0 /\ FrameOf(i)' = f /\ Unserved(i) /\ ~Unserved(i)'
      /\ \A j \in Idx : j # i => FrameOf(j)' = FrameOf(j) /\ Unserved(j)' = Unserved(j)
  BY <1>2, <1>5, <1>7 DEF FrameOf, Unserved
<1>9. /\ \A j \in Idx : Dist(j)' = Dist(j) /\ Dist(j) \in 0 .. NumberOfL2Buffers - 1
      /\ \A j \in Idx : Place(Dist(j)) = j
  BY <1>2, Geometry DEF Dist, TypeOK
\* No transfer before this one is unserved.
<1>10. ASSUME NEW j \in Idx, Unserved(j), j # i
       PROVE  Dist(i) < Dist(j)
  <2>1. PICK k \in DOMAIN p : p[k] = j
    BY <1>10 DEF Lined, UnservedIsPending
  <2>2. Held(j)
    BY <1>10, <2>1 DEF Held, Range, Unserved
  <2>3. ~(k \in 1 .. m - 1) /\ k # m
    BY <1>6, <1>10, <2>1, <2>2
  <2>4. m < k
    BY <1>4, <2>3
  <2> QED BY <1>6, <2>1, <2>4 DEF Lined, InRingOrder
<1>11. FramesFirst'
  <2> SUFFICES ASSUME NEW j \in Idx, NEW k \in Idx, FrameOf(j)' # 0, Unserved(k)'
               PROVE  Dist(j) < Dist(k)
    BY <1>9 DEF FramesFirst
  <2>1. k # i /\ Unserved(k)
    BY <1>8
  <2>2. CASE j = i
    BY <1>10, <2>1, <2>2
  <2>3. CASE j # i
    BY <1>8, <2>1, <2>3 DEF Lined, FramesFirst
  <2> QED BY <2>2, <2>3
<1>12. PICK n \in 0 .. NumberOfL2Buffers : InUse(n)
  BY DEF Lined
<1>13. InUse(n)'
  BY <1>2, <1>12, SameUse
<1>14. Submitted'
  BY <1>2 DEF Lined, Submitted, Queued, queues
<1>15. InRingOrder'
  BY <1>2 DEF Lined, InRingOrder, Dist, queues
<1>16. UnservedIsPending'
  <2> SUFFICES ASSUME NEW j \in Idx, Unserved(j)'
               PROVE  \E k \in DOMAIN p : p[k] = j
    BY <1>2 DEF UnservedIsPending, queues
  <2>1. Unserved(j)
    BY <1>8
  <2> QED BY <2>1 DEF Lined, UnservedIsPending
<1>17. EndedIsKnown'
  BY <1>2 DEF Lined, EndedIsKnown
<1>18. Lined'
  BY <1>11, <1>12, <1>13, <1>14, <1>15, <1>16, <1>17 DEF Lined
<1>19. RingFrames' = Append(RingFrames, f)
  <2> DEFINE s == Slots
             d == Dist(i) + 1
  <2>1. /\ s \in Seq(Frames) /\ Len(s) = NumberOfL2Buffers
        /\ d \in 1 .. NumberOfL2Buffers /\ s[d] = 0 /\ NumberOfL2Buffers \in Nat
        /\ \A k \in 1 .. NumberOfL2Buffers : s[k] = FrameOf(Place(k - 1))
    BY <1>8, SlotsType, BuffersAssumption
  <2>2. \A k \in 1 .. NumberOfL2Buffers :
           /\ Place(k - 1)' = Place(k - 1) /\ Place(k - 1) \in Idx
           /\ Dist(Place(k - 1)) = k - 1
    <3>1. \A k \in 1 .. NumberOfL2Buffers : k - 1 \in 0 .. NumberOfL2Buffers - 1
      BY <2>1
    <3>2. L2FillIdx \in Idx /\ L2FillIdx' = L2FillIdx
      BY <1>2 DEF TypeOK
    <3> QED BY <3>1, <3>2, Geometry DEF Place
  <2>3. \A k \in 1 .. NumberOfL2Buffers : k >= d => s[k] = 0
    <3> SUFFICES ASSUME NEW k \in 1 .. NumberOfL2Buffers, k >= d PROVE s[k] = 0
      OBVIOUS
    <3>1. ~(Dist(Place(k - 1)) < Dist(i))
      BY <1>9, <2>1, <2>2
    <3> QED BY <1>8, <2>1, <2>2, <3>1 DEF Lined, FramesFirst
  <2>4. \A k \in 1 .. NumberOfL2Buffers : (Place(k - 1) = i) <=> (k = d)
    BY <1>9, <2>1, <2>2
  <2>5. \A k \in 1 .. NumberOfL2Buffers :
           FrameOf(Place(k - 1))' = IF k = d THEN f ELSE s[k]
    <3> SUFFICES ASSUME NEW k \in 1 .. NumberOfL2Buffers
                 PROVE  FrameOf(Place(k - 1))' = IF k = d THEN f ELSE s[k]
      OBVIOUS
    <3> DEFINE j == Place(k - 1)
    <3>1. j \in Idx /\ j' = j
      BY <2>2
    <3> HIDE DEF j
    <3>2. FrameOf(j)' = IF j = i THEN f ELSE FrameOf(j)
      BY <1>8, <3>1 DEF FrameOf
    <3> QED BY <2>1, <2>4, <3>2 DEF j
  <2>6. s' = [s EXCEPT ![d] = f]
    <3>1. s' = [k \in 1 .. NumberOfL2Buffers |-> IF k = d THEN f ELSE s[k]]
      BY <2>5 DEF Slots
    <3>2. DOMAIN s = 1 .. NumberOfL2Buffers
      BY DEF Slots
    <3> HIDE DEF s, d
    <3> QED BY <3>1, <3>2
  <2> DEFINE T == 1 .. MaxFrames
  <2>7. RingFrames = Keep(s, T) /\ RingFrames' = Keep(s', T)
    BY DEF RingFrames, Slots
  <2>8. \A k \in 1 .. NumberOfL2Buffers : k >= d => s[k] \notin T
    BY <2>3
  <2>9. f \in Frames \cap T
    BY <1>3
  <2> HIDE DEF s, d, T
  <2>10. s \in Seq(Frames) /\ d \in 1 .. Len(s) /\ NoneFrom(s, d, T)
    BY <2>1, <2>8 DEF NoneFrom
  <2>11. Keep(s', T) = Append(Keep(s, T), f)
    <3>1. IsUpdate(s', s, d, f)
      BY <2>6 DEF IsUpdate
    <3> QED BY ONLY <2>9, <2>10, <3>1, KeepOfLast
  <2> QED BY <2>7, <2>11
<1> QED BY <1>2, <1>3, <1>18, <1>19 DEF f

\* What is in flight is PENDING.
LEMMA QueuedIsPending ==
    ASSUME Settled, NEW i, Queued(i)
    PROVE  buf[i].State = "PENDING"
BY DEF Settled, OnceAndPending, Queued

\* L1 takes the oldest buffer: when it holds a frame, that is the oldest one.
LEMMA TurnLined ==
    ASSUME TypeOK, Settled, Lined, buf[L2FillIdx].State = "COMPLETED",
           RecycleL2FillBuffer, UNCHANGED <<irp, L2IrpEndIdx, queues, l2>>
    PROVE  /\ Lined'
           /\ FrameOf(L2FillIdx) # 0 => /\ RingFrames # <<>>
                                        /\ Head(RingFrames) = FrameOf(L2FillIdx)
                                        /\ RingFrames' = Tail(RingFrames)
           /\ FrameOf(L2FillIdx) = 0 => RingFrames' = RingFrames
<1> DEFINE N == NumberOfL2Buffers
<1>0. /\ L2FillIdx \in Idx /\ buf \in [Idx -> Buffer] /\ N \in Nat /\ N >= 2
      /\ \A k \in DOMAIN L2PendingQueue : L2PendingQueue[k] \in Idx
  BY LenProperties, BuffersAssumption DEF TypeOK
<1>23. PICK g \in Idx : g = L2FillIdx
  BY <1>0
<1>1. /\ L2FillIdx' = NextIdx(L2FillIdx) /\ buf'[g] = ReadyBuffer
      /\ \A i \in Idx : i # g => buf'[i] = buf[i]
  BY <1>0, <1>23 DEF RecycleL2FillBuffer
<1>2. PICK n \in 0 .. N : InUse(n)
  BY DEF Lined
<1>3. /\ \A k \in 0 .. N - 1 : Place(k)' = Place(k + 1)
      /\ \A i \in Idx : i # g => Dist(i)' = Dist(i) - 1 /\ Dist(i) >= 1
      /\ Dist(g) = 0 /\ Dist(g)' = N - 1
  BY <1>0, <1>23, <1>1, Turned
<1>4. \A i \in Idx : Dist(i) \in 0 .. N - 1 /\ Place(Dist(i)) = i
  BY <1>0, Geometry
<1>5. /\ \A k \in 0 .. N - 1 : Place(k) \in Idx /\ Dist(Place(k)) = k
      /\ Place(0) = g /\ Place(N) = g
  BY <1>0, <1>23, Geometry
<1>6. \A i \in Idx : Queued(i) => i # g
  BY <1>23, QueuedIsPending
<1>7. UNCHANGED <<L2PendingQueue, L2CompletionQueue>>
  BY DEF queues
<1>8. ASSUME NEW i \in Idx
      PROVE  /\ i # g => FrameOf(i)' = FrameOf(i) /\ Unserved(i)' = Unserved(i)
             /\ i = g => FrameOf(i)' = 0 /\ ~Unserved(i)'
  BY <1>1 DEF FrameOf, Unserved, ReadyBuffer
<1>9. n >= 1 /\ n - 1 \in 0 .. N /\ n - 1 \in 0 .. N - 1 /\ (n - 1) + 1 = n /\ n \in Nat
  <2>1. ~(Dist(g) >= n)
    BY <1>2, <1>23 DEF InUse
  <2> QED BY <1>0, <1>3, <2>1
<1>10. InUse(n - 1)'
  <2>1. ASSUME NEW i \in Idx
        PROVE  buf'[i].State = "READY" <=> Dist(i)' >= n - 1
    <3>1. CASE i = g
      BY <1>0, <1>1, <1>3, <1>9, <3>1 DEF ReadyBuffer
    <3>2. CASE i # g
      <4>1. buf'[i] = buf[i] /\ (buf[i].State = "READY" <=> Dist(i) >= n)
        BY <1>1, <1>2, <3>2 DEF InUse
      <4>2. Dist(i) \in Nat /\ Dist(i)' = Dist(i) - 1
        BY <1>0, <1>3, <1>4, <3>2
      <4>3. Dist(i) >= n <=> Dist(i) - 1 >= n - 1
        BY <1>9, <4>2
      <4> QED BY <4>1, <4>2, <4>3
    <3> QED BY <3>1, <3>2
  <2>2. CASE l2.pc = "advance"
    <3>1. L2IrpEndIdx = Place(n - 1) /\ L2IrpEndIdx # g
      <4>1. L2IrpEndIdx \in Idx
        BY DEF TypeOK
      <4> QED BY <1>2, <1>6, <2>2, <4>1 DEF InUse, Lined, Submitted
    <3>2. n - 1 # 0
      BY <1>5, <3>1
    <3>3. n - 1 >= 1 /\ (n - 1) - 1 \in 0 .. N - 1 /\ ((n - 1) - 1) + 1 = n - 1
      BY <1>0, <1>9, <3>2
    <3>4. L2IrpEndIdx' = Place((n - 1) - 1)'
      BY <1>3, <3>1, <3>3
    <3> QED BY <2>1, <2>2, <3>3, <3>4 DEF InUse
  <2>3. CASE l2.pc # "advance"
    <3>1. L2IrpEndIdx' = Place(n - 1)'
      BY <1>2, <1>3, <1>9, <2>3 DEF InUse
    <3> QED BY <2>1, <2>3, <3>1 DEF InUse
  <2> QED BY <2>2, <2>3
<1>11. Submitted'
  BY <1>7 DEF Lined, Submitted, Queued
<1>12. InRingOrder'
  <2> SUFFICES ASSUME NEW j \in DOMAIN L2PendingQueue, NEW k \in DOMAIN L2PendingQueue, j < k
               PROVE  Dist(L2PendingQueue[j])' < Dist(L2PendingQueue[k])'
    BY <1>7 DEF InRingOrder
  <2>1. PICK a \in Idx, b \in Idx : a = L2PendingQueue[j] /\ b = L2PendingQueue[k]
    BY <1>0
  <2>2. a # g /\ b # g
    BY <1>6, <2>1 DEF Queued
  <2>3. Dist(a) < Dist(b)
    BY <2>1 DEF Lined, InRingOrder
  <2>4. Dist(a)' < Dist(b)'
    BY <1>0, <1>3, <1>4, <2>2, <2>3
  <2> QED BY <1>7, <2>1, <2>4
<1>13. FramesFirst'
  <2> SUFFICES ASSUME NEW i \in Idx, NEW j \in Idx, FrameOf(i)' # 0, Unserved(j)'
               PROVE  Dist(i)' < Dist(j)'
    BY DEF FramesFirst
  <2>1. i # g /\ j # g
    BY <1>8
  <2>2. Dist(i) < Dist(j)
    BY <1>8, <2>1 DEF Lined, FramesFirst
  <2> QED BY <1>0, <1>3, <1>4, <2>1, <2>2
<1>14. UnservedIsPending'
  <2> SUFFICES ASSUME NEW i \in Idx, Unserved(i)'
               PROVE  \E k \in DOMAIN L2PendingQueue : L2PendingQueue[k] = i
    BY <1>7 DEF UnservedIsPending
  <2>1. i # g /\ Unserved(i)
    BY <1>8
  <2> QED BY <2>1 DEF Lined, UnservedIsPending
<1>15. EndedIsKnown'
  <2> SUFFICES ASSUME NEW i \in Idx, buf'[i].State = "COMPLETED"
               PROVE  buf'[i].Status # "PENDING"
    BY DEF EndedIsKnown
  <2>1. i # g
    BY <1>1 DEF ReadyBuffer
  <2> QED BY <1>1, <2>1 DEF Lined, EndedIsKnown
<1>16. Lined'
  BY <1>9, <1>10, <1>11, <1>12, <1>13, <1>14, <1>15 DEF Lined
<1> DEFINE s == Slots
           T == 1 .. MaxFrames
<1>17. /\ s \in Seq(Frames) /\ Len(s) = N /\ s # <<>>
       /\ \A k \in 1 .. N : s[k] = FrameOf(Place(k - 1))
  BY <1>0, SlotsType
<1>18. Head(s) = FrameOf(g)
  BY <1>0, <1>5, <1>17
<1>19. IsTurned(s', s, 0)
  <2>1. ASSUME NEW k \in 1 .. N
        PROVE  s'[k] = IF k < N THEN s[k + 1] ELSE 0
    <3>1. k - 1 \in 0 .. N - 1 /\ (k - 1) + 1 = k /\ k \in Nat
      BY <1>0
    <3>2. s'[k] = FrameOf(Place(k - 1))'
      BY DEF Slots
    <3>3. PICK i \in Idx : i = Place(k)
      <4>1. k \in 0 .. N - 1 \/ k = N
        BY <1>0
      <4> QED BY <1>5, <4>1
    <3>4. Place(k - 1)' = i
      BY <1>3, <3>1, <3>3
    <3>5. s'[k] = FrameOf(i)'
      BY <3>2, <3>4 DEF FrameOf
    <3>6. CASE k = N
      BY <1>0, <1>5, <1>8, <3>3, <3>5, <3>6
    <3>7. CASE k # N
      <4>1. k \in 0 .. N - 1 /\ k < N /\ k + 1 \in 1 .. N /\ (k + 1) - 1 = k
        BY <1>0, <3>7
      <4>2. i # g
        <5>1. Dist(i) = k
          BY <1>5, <3>3, <4>1
        <5> QED BY <1>3, <3>1, <5>1
      <4> QED BY <1>8, <1>17, <3>3, <3>5, <4>1, <4>2
    <3> QED BY <3>6, <3>7
  <2>2. s' \in Seq(Frames) /\ Len(s') = N
    <3>2. s' = [k \in 1 .. N |-> FrameOf(Place(k - 1))']
      BY DEF Slots
    <3>3. ASSUME NEW k \in 1 .. N PROVE s'[k] \in Frames
      <4>1. k < N => k + 1 \in 1 .. N
        BY <1>0
      <4> QED BY <1>17, <2>1, <4>1, BoundsAssumption, ElementOfSeq DEF Frames
    <3> QED BY <1>0, <3>2, <3>3
  <2> DEFINE u == Append(Tail(s), 0)
  <2>3. 0 \in Frames
    BY BoundsAssumption DEF Frames
  <2> HIDE DEF s
  <2>4. /\ Tail(s) \in Seq(Frames) /\ Len(Tail(s)) = N - 1
        /\ \A k \in 1 .. N - 1 : Tail(s)[k] = s[k + 1]
    BY <1>0, <1>17, HeadTailProperties
  <2>5. /\ u \in Seq(Frames) /\ Len(u) = N
        /\ \A k \in 1 .. N : u[k] = IF k < N THEN s[k + 1] ELSE 0
    BY <1>0, <2>3, <2>4, AppendProperties
  <2> HIDE DEF u
  <2>6. s' = u
    BY <2>1, <2>2, <2>5, SeqEqual
  <2> QED BY <2>6 DEF u, IsTurned
<1>20. RingFrames = Keep(s, T) /\ RingFrames' = Keep(s', T)
  BY DEF RingFrames, Slots
<1>21. 0 \in Frames \ T /\ (FrameOf(g) # 0 <=> FrameOf(g) \in T)
  BY SlotsType, BoundsAssumption DEF Frames
<1> HIDE DEF s, T
<1>22. /\ Head(s) \in T => /\ Keep(s, T) # <<>> /\ Head(Keep(s, T)) = Head(s)
                           /\ Keep(s', T) = Tail(Keep(s, T))
       /\ Head(s) \notin T => Keep(s', T) = Keep(s, T)
  BY ONLY <1>17, <1>19, <1>21, KeepOfTurned
<1> QED BY <1>16, <1>18, <1>20, <1>21, <1>22, <1>23

\* A step that the channel does not see.
Unseen == /\ RingFrames' = RingFrames
          /\ count'.sent = count.sent /\ delivered' = delivered

\* To cancel a transfer does not end it.
LEMMA CancelSame ==
    ASSUME TypeOK, UNCHANGED irp \/ (Active /\ CancelNextActive)
    PROVE  \A i \in Idx : irp'[i].Status = irp[i].Status /\ irp'[i].Frame = irp[i].Frame
<1>1. CASE UNCHANGED irp
  BY <1>1
<1>2. CASE Active /\ CancelNextActive
  <2>1. PICK h \in Idx : h = Head(L2PendingQueue)
    BY <1>2, HeadTailProperties DEF Active, TypeOK
  <2>2. irp' = [irp EXCEPT ![h].Cancel = TRUE]
    BY <1>2, <2>1 DEF CancelNextActive
  <2> QED BY <2>2 DEF TypeOK, ReadIrp
<1> QED BY <1>1, <1>2

\* A reset that overtakes no completion empties the ring.
LEMMA ResetLined ==
    ASSUME TypeOK, TypeOK', Lined, ResetL2Buffers, misuse' = "none", UNCHANGED queues,
           l2'.pc = "advance" => l2.pc = "advance"
    PROVE  Lined' /\ RingFrames' = <<>>
<1>1. /\ L2PendingQueue = <<>> /\ L2CompletionQueue = <<>>
      /\ L2PendingQueue' = <<>> /\ L2CompletionQueue' = <<>> /\ DOMAIN <<>> = {}
  <2>1. DOMAIN <<>> = {}
    OBVIOUS
  <2>2. L2PendingQueue = <<>> /\ L2CompletionQueue = <<>>
    BY DEF ResetL2Buffers, CompletionsOutstanding
  <2> QED BY <2>1, <2>2 DEF queues
<1>2. l2'.pc # "advance"
  BY <1>1 DEF Lined, Submitted, Queued
<1>3. (\A i \in Idx : buf'[i] = ReadyBuffer) /\ L2FillIdx' = 0 /\ L2IrpEndIdx' = 0
  BY DEF ResetL2Buffers
<1>4. RingFrames' = <<>>
  <2>1. (\A i \in Idx : buf[i] = ReadyBuffer)'
    BY <1>3 DEF ReadyBuffer
  <2>2. (TypeOK /\ (\A i \in Idx : buf[i] = ReadyBuffer) => RingFrames = <<>>)'
    BY NoFrames, PTL
  <2> QED BY <2>1, <2>2
<1>5. InUse(0)'
  <2>1. \A i \in Idx : Dist(i)' >= 0
    BY <1>3, BuffersAssumption DEF Dist, Idx
  <2>2. Place(0)' = 0
    BY <1>3, BuffersAssumption DEF Place
  <2> QED BY <1>2, <1>3, <2>1, <2>2 DEF InUse, ReadyBuffer
<1>6. 0 \in 0 .. NumberOfL2Buffers
  BY BuffersAssumption
<1>7. Submitted' /\ InRingOrder'
  BY <1>1, <1>2 DEF Submitted, InRingOrder
<1>8. \A i \in Idx : ~Unserved(i)'
  BY <1>3 DEF Unserved, ReadyBuffer
<1>9. FramesFirst' /\ UnservedIsPending'
  BY <1>8 DEF FramesFirst, UnservedIsPending
<1>10. EndedIsKnown'
  BY <1>3 DEF EndedIsKnown, ReadyBuffer
<1> QED BY <1>4, <1>5, <1>6, <1>7, <1>9, <1>10 DEF Lined

\* The steps of L1 that leave the ring alone.
LEMMA L1Unseen ==
    ASSUME TypeOK, Lined,
           \/ L1Wait \/ L1Completion \/ L1Kick \/ L1NothingToFill
           \/ L1CheckKick \/ L1Stop \/ L1StopSignal \/ L1StopDone
           \/ L1Resume \/ L1ResumeDone \/ L1Purge \/ L1PurgeDone
           \/ L1Cancel \/ L1CancelDone
    PROVE  Lined' /\ Unseen
<1>1. UNCHANGED <<buf, irp, L2FillIdx, L2IrpEndIdx, queues, count, delivered>>
  BY DEF L1Step, L1NoData, L1Wait, L1Completion, L1Kick, L1NothingToFill,
     L1CheckKick, L1Stop, L1StopSignal, L1StopDone, L1Resume, L1ResumeDone, L1Purge,
     L1PurgeDone, L1Cancel, L1CancelDone
<1>2. l2'.pc = "advance" <=> l2.pc = "advance"
  <2>1. CASE L1CancelDone
    BY <2>1 DEF L1CancelDone, Goto, TypeOK, L2Thread
  <2>2. CASE l2' = l2 \/ \E e \in L2Events : l2' = Signal(l2, e)
    BY <2>2, SignalL2 DEF TypeOK, L2Events
  <2> QED BY <2>1, <2>2 DEF L1Wait, L1Completion, L1Kick, L1NothingToFill,
     L1CheckKick, L1Stop, L1StopSignal, L1StopDone, L1Resume, L1ResumeDone, L1Purge,
     L1PurgeDone, L1Cancel, L2Events
<1> QED BY <1>1, <1>2, QuietStep DEF Unseen, queues

\* The steps of L2 that submit nothing and record nothing.
LEMMA L2Unseen ==
    ASSUME TypeOK, Lined,
           \/ L2SubmitDone \/ L2Wait \/ L2Kick \/ L2Cancel \/ L2Stop \/ L2Resume
           \/ L2Dequeue \/ L2ClearEvent \/ L2StopSelf \/ L2Notify
    PROVE  Lined' /\ Unseen
<1>1. UNCHANGED <<buf, L2FillIdx, L2IrpEndIdx, L2PendingQueue, count, delivered>>
  BY DEF L2Step, L2Frame, queues, L2SubmitDone, L2Wait, L2Kick, L2Cancel, L2Stop,
     L2Resume, L2Dequeue, L2ClearEvent, L2StopSelf, L2Notify
<1>2. UNCHANGED irp \/ (Active /\ CancelNextActive)
  BY DEF L2SubmitDone, L2Wait, L2Kick, L2Cancel, L2Stop, L2Resume, L2Dequeue,
     L2ClearEvent, L2StopSelf, L2Notify
<1>3. l2 \in L2Thread
  BY DEF TypeOK
<1>4. l2.pc # "advance"
  BY DEF L2SubmitDone, L2Wait, L2Kick, L2Cancel, L2Stop, L2Resume, L2Dequeue,
     L2ClearEvent, L2StopSelf, L2Notify
<1>5. l2'.pc # "advance"
  <2>1. CASE L2Wait
    <3>1. WaitAny(l2, L2Index).pc # "advance"
      BY <1>3, WaitL2 DEF L2Events
    <3> QED BY <2>1, <3>1 DEF L2Wait
  <2>2. CASE \/ L2SubmitDone \/ L2Kick \/ L2Cancel \/ L2Stop \/ L2Resume
             \/ L2Dequeue \/ L2ClearEvent \/ L2StopSelf \/ L2Notify
    BY <1>3, <2>2 DEF L2SubmitDone, L2Kick, L2Cancel, L2Stop, L2Resume, L2Dequeue,
       L2ClearEvent, L2StopSelf, L2Notify, Clear, Goto, L2Thread
  <2> QED BY <2>1, <2>2
<1> QED BY <1>1, <1>2, <1>4, <1>5, CancelSame, QuietStep DEF Unseen

\* The steps of the other threads that do not reset the ring.
LEMMA OthersUnseen ==
    ASSUME TypeOK, Lined,
           \/ \E r \in Requesters : \/ RequestStop(r) \/ RequestResume(r)
                                    \/ SignalRequest(r) \/ RequestTimeout(r)
                                    \/ RequestAcked(r)
           \/ RequestPurge \/ CancelReadThread \/ Enqueue
           \/ DispatchPurge \/ CancelReadThreadDone
    PROVE  Lined' /\ Unseen
<1>1. UNCHANGED <<buf, L2FillIdx, L2IrpEndIdx, L2PendingQueue, L2CompletionQueue, l2, delivered>>
  BY DEF OtherStep, RingAlone, ring, queues, RequestStop, RequestResume, Request,
     SignalRequest, RequestTimeout, RequestAcked, RequestPurge, CancelReadThread,
     Enqueue, DispatchPurge, CancelReadThreadDone
<1>2. \A i \in Idx : irp'[i].Status = irp[i].Status /\ irp'[i].Frame = irp[i].Frame
  <2>1. CASE RequestPurge
    BY <2>1 DEF RequestPurge, TypeOK, ReadIrp
  <2>2. CASE UNCHANGED irp
    BY <2>2
  <2> QED BY <2>1, <2>2 DEF RingAlone, ring, RequestStop, RequestResume, Request,
     SignalRequest, RequestTimeout, RequestAcked, CancelReadThread, Enqueue,
     DispatchPurge, CancelReadThreadDone
<1>3. count'.sent = count.sent
  BY DEF TypeOK, Counts, others, RequestStop, RequestResume, Request, SignalRequest,
     RequestTimeout, RequestAcked, RequestPurge, CancelReadThread, Enqueue,
     DispatchPurge, CancelReadThreadDone
<1> QED BY <1>1, <1>2, <1>3, QuietStep DEF Unseen

\* L1 gives the oldest frame to a read IRP, drops a transfer without one, or
\* leaves the ring alone.
LEMMA L1Turns ==
    ASSUME TypeOK, Settled, Lined, L1Drop \/ L1FillReadRequest
    PROVE  Lined' /\ (Unseen \/ ReadChannelOfRing!Deliver)
<1>1. /\ UNCHANGED <<irp, L2IrpEndIdx, queues, l2>> /\ count'.sent = count.sent
      /\ buf[L2FillIdx].State = "COMPLETED"
  BY DEF L1Drop, L1FillReadRequest, L1Step
<1>2. PICK g \in Idx : g = L2FillIdx
  BY DEF TypeOK
<1>3. FrameOf(g) = IF buf[g].Status = "SUCCESS" THEN buf[g].Frame ELSE 0
  BY <1>1, <1>2 DEF FrameOf
<1>4. CASE L1Drop
  <2>1. RecycleL2FillBuffer /\ delivered' = delivered /\ FrameOf(L2FillIdx) = 0
    BY <1>2, <1>3, <1>4 DEF L1Drop
  <2> QED BY <1>1, <2>1, TurnLined DEF Unseen
<1>5. CASE L1FillReadRequest /\ ReadDataQueue > 0 /\ ~Failed(buf[g].Status)
  <2>1. /\ RecycleL2FillBuffer /\ buf[g].Frame # 0
        /\ delivered' = Append(delivered, buf[g].Frame)
    BY <1>2, <1>5 DEF L1FillReadRequest
  <2>2. buf[g].Status = "SUCCESS"
    <3>1. buf[g].Status # "PENDING"
      BY <1>1, <1>2 DEF Lined, EndedIsKnown
    <3>2. buf[g].Status \in Status
      BY DEF TypeOK, Buffer
    <3> QED BY <1>5, <3>1, <3>2 DEF Failed, Status
  <2>3. FrameOf(L2FillIdx) = buf[g].Frame
    BY <1>2, <1>3, <2>2
  <2> QED BY <1>1, <2>1, <2>3, TurnLined DEF ReadChannelOfRing!Deliver
<1>6. CASE L1FillReadRequest /\ Failed(buf[g].Status)
  <2>1. RecycleL2FillBuffer /\ delivered' = delivered /\ FrameOf(L2FillIdx) = 0
    BY <1>2, <1>3, <1>6 DEF L1FillReadRequest, Failed
  <2> QED BY <1>1, <2>1, TurnLined DEF Unseen
<1>7. CASE L1FillReadRequest /\ ~(ReadDataQueue > 0) /\ ~Failed(buf[g].Status)
  <2>1. UNCHANGED <<buf, L2FillIdx, delivered>>
    BY <1>2, <1>7 DEF L1FillReadRequest
  <2> QED BY <1>1, <2>1, QuietStep DEF Unseen, queues
<1> QED BY <1>4, <1>5, <1>6, <1>7

\* The steps that reset the ring.
LEMMA ResetFlushes ==
    ASSUME TypeOK, TypeOK', Lined, Drained, misuse' = "none",
           L1Exit \/ CreateThreads \/ \E r \in Requesters : RequestReset(r)
    PROVE  Lined' /\ (Unseen \/ ReadChannelOfRing!Flush)
<1>1. /\ ResetL2Buffers /\ UNCHANGED <<queues, count, delivered>>
      /\ l2'.pc = "advance" => l2.pc = "advance"
  BY DEF L1Exit, CreateThreads, RequestReset, NewL2, OtherStep, others
<1>2. Lined' /\ RingFrames' = <<>>
  BY <1>1, ResetLined
<1>3. CASE L1Exit \/ \E r \in Requesters : RequestReset(r)
  <2>1. ~(l1.pc # "exit" /\ \A r \in Requesters : rpc[r] # "reset")
    BY <1>3 DEF L1Exit, RequestReset
  <2> QED BY <1>1, <1>2, <2>1 DEF ReadChannelOfRing!Flush
<1>4. CASE CreateThreads
  <2>1. RingFrames = <<>>
    BY <1>4, NoFrames DEF CreateThreads, L1Alive, Drained, Gone
  <2> QED BY <1>1, <1>2, <2>1 DEF Unseen
<1> QED BY <1>3, <1>4

\* Every step, until the environment breaks the channel's rules.
LEMMA StepOnChannel ==
    ASSUME TypeOK, TypeOK', Settled, Lined, Drained, [Next]_vars, misuse' = "none"
    PROVE  /\ Lined'
           /\ \/ Unseen \/ ReadChannelOfRing!Receive
              \/ ReadChannelOfRing!Deliver \/ ReadChannelOfRing!Flush
<1>1. CASE UNCHANGED vars
  BY <1>1, QuietStep DEF vars, ring, queues, others, Unseen
<1>2. CASE L1Next
  BY <1>2, L1Unseen, L1Turns, ResetFlushes DEF L1Next
<1>3. CASE L2Next
  <2>1. CASE L2Submit
    BY <2>1, SubmitLined DEF L2Submit, L2Step, L2Frame, Unseen
  <2>2. CASE L2Advance
    BY <2>2, AdvanceLined DEF L2Advance, L2Step, L2Frame, Unseen
  <2>3. CASE L2Complete
    BY <2>3, RecordLined DEF L2Complete, L2Step, L2Frame, Unseen
  <2>4. ~L2AdvanceInline
    BY DEF L2AdvanceInline
  <2> QED BY <1>3, <2>1, <2>2, <2>3, <2>4, L2Unseen DEF L2Next
<1>4. CASE BusNext
  <2>1. CASE BusData
    BY <2>1, DataLined DEF ReadChannelOfRing!Receive
  <2>2. CASE BusBadTransfer \/ BusCancelled
    <3>1. PICK i \in Idx, status \in Status \ {"PENDING"} : Held(i) /\ Finish(i, status, 0)
      BY <2>2 DEF BusBadTransfer, BusCancelled, Served, Status
    <3>2. /\ UNCHANGED <<buf, L2FillIdx, L2IrpEndIdx, queues, l2, delivered>>
          /\ count'.sent = count.sent
      BY <2>2 DEF BusBadTransfer, BusCancelled, BusStep, TypeOK, Counts
    <3> QED BY <3>1, <3>2, EmptyEndLined DEF Unseen
  <2>3. CASE MultiReadCompletionRoutine
    BY <2>3, CompletionLined DEF MultiReadCompletionRoutine, others, Unseen
  <2> QED BY <1>4, <2>1, <2>2, <2>3 DEF BusNext
<1>5. CASE ClientNext \/ (\E r \in Requesters : RequesterNext(r))
           \/ DispatchPurge \/ CancelReadThreadDone
  BY <1>5, OthersUnseen, ResetFlushes DEF ClientNext, RequesterNext
<1> QED BY <1>1, <1>2, <1>3, <1>4, <1>5 DEF Next

\* The pipeline delivers the device's frames in order, each once, and loses
\* none while its threads run: until a reset or an inline status overtakes a
\* completion, every step of the ring, the two threads and the lower driver is
\* a step of the channel.
THEOREM RingImplementsChannel == Spec => ImplementsChannel
<1>1. Init => CInv /\ Drained /\ IInv /\ ReadChannelOfRing!Init
  <2> SUFFICES ASSUME Init PROVE Lined /\ Drained /\ Settled /\ ReadChannelOfRing!Init
    BY DEF CInv, IInv
  <2>1. /\ L2PendingQueue = <<>> /\ L2CompletionQueue = <<>> /\ l2.pc = "submit"
        /\ l1.pc = "wait" /\ L2FillIdx = 0 /\ L2IrpEndIdx = 0 /\ DOMAIN <<>> = {}
        /\ \A i \in Idx : buf[i] = ReadyBuffer
        /\ count.sent = 0 /\ delivered = <<>> /\ misuse = "none"
    <3>1. DOMAIN <<>> = {}
      OBVIOUS
    <3> QED BY <3>1 DEF Init, InitWith, NewL1, NewL2, NothingSpent
  <2>2. Settled
    BY <2>1 DEF Settled, OnceAndPending, Apart, TakenIsPending, TakenOff
  <2>3. Drained
    BY <2>1 DEF Drained, Gone
  <2>4. InUse(0)
    <3>1. \A i \in Idx : Dist(i) >= 0
      BY <2>1, BuffersAssumption DEF Dist, Idx
    <3>2. Place(0) = 0
      BY <2>1, BuffersAssumption DEF Place
    <3> QED BY <2>1, <3>1, <3>2 DEF InUse, ReadyBuffer
  <2>5. 0 \in 0 .. NumberOfL2Buffers
    BY BuffersAssumption
  <2>6. \A i \in Idx : ~Unserved(i)
    BY <2>1 DEF Unserved, ReadyBuffer
  <2>7. Lined
    BY <2>1, <2>4, <2>5, <2>6 DEF Lined, Submitted, InRingOrder, FramesFirst,
       UnservedIsPending, EndedIsKnown, ReadyBuffer
  <2>8. ReadChannelOfRing!Init
    BY <2>1, InitType, NoFrames DEF ReadChannelOfRing!Init
  <2> QED BY <2>2, <2>3, <2>7, <2>8
<1>2. TypeOK /\ IInv /\ CInv /\ Drained /\ [Next]_vars =>
         /\ IInv' /\ CInv' /\ Drained'
         /\ [ReadChannelOfRing!Next]_(ReadChannelOfRing!vars)
  <2> SUFFICES ASSUME TypeOK, IInv, CInv, Drained, [Next]_vars
               PROVE  /\ IInv' /\ CInv' /\ Drained'
                      /\ [ReadChannelOfRing!Next]_(ReadChannelOfRing!vars)
    OBVIOUS
  <2>1. TypeOK' /\ Drained'
    BY StepType, StepDrained
  <2>2. IInv'
    <3>1. CASE UNCHANGED vars
      BY <3>1, StillSettled DEF vars, ring, TakenOff
    <3> QED BY <3>1, L1Settled, L2Settled, OthersSettled DEF Next
  <2>3. CASE misuse' # "none"
    <3>1. CInv' /\ ReadChannelOfRing!Next
      BY <2>3 DEF CInv, ReadChannelOfRing!Next
    <3> QED BY <2>1, <2>2, <3>1
  <2>4. CASE misuse' = "none"
    <3>1. misuse = "none" /\ Settled /\ Lined
      BY <2>4, MisuseStays DEF IInv, CInv
    <3>2. /\ Lined'
          /\ \/ Unseen \/ ReadChannelOfRing!Receive
             \/ ReadChannelOfRing!Deliver \/ ReadChannelOfRing!Flush
      BY <2>1, <2>4, <3>1, StepOnChannel
    <3>3. Unseen => UNCHANGED ReadChannelOfRing!data
      BY DEF Unseen, ReadChannelOfRing!data
    <3>4. ReadChannelOfRing!Next
      BY <2>4, <3>1, <3>2, <3>3 DEF ReadChannelOfRing!Next
    <3>5. CInv'
      BY <3>2 DEF CInv
    <3> QED BY <2>1, <2>2, <3>4, <3>5
  <2> QED BY <2>3, <2>4
<1> QED BY <1>1, <1>2, TypeCorrect, PTL DEF Spec, ImplementsChannel, ReadChannelOfRing!Spec
=============================================================================
