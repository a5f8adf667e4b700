---------------------------- MODULE ControlPath ----------------------------
(***************************************************************************)
(* The control path of the USB transport: the dispatch thread              *)
(* (transport/usb/USBDSP.c), the encapsulated commands (USBENC.c), the     *)
(* power requests that stop and resume the device (USBIF.c, USBPWR.c) and  *)
(* the miniport's removal of the device (ndis/MPMain.c), composed with the *)
(* interrupt thread (module InterruptPipe).                                *)
(*                                                                         *)
(* The dispatch thread serves the IRPs of DispatchQueue one at a time, and *)
(* events: a response to fetch, a stand-by, a wake-up.  Power requests     *)
(* reach it in two ways: NDIS sets events and does not wait                *)
(* (USBIF_SetPowerState); the selective suspend sends power IRPs through   *)
(* DispatchQueue.  The power manager has one of them in progress.          *)
(*                                                                         *)
(* Not modelled: the idle timer and the idle IRP that decide when to       *)
(* suspend (a suspend may come at any time), purges, the events of the     *)
(* extended WDM device, IRPs that do not use the control pipe.             *)
(***************************************************************************)
EXTENDS InterruptPipe

DspEvents == {"CANCEL", "START", "READ_CONTROL", "STANDBY", "WAKEUP",
              "PRE_WAKEUP"}
DspIndex == [CANCEL |-> 1, START |-> 2, READ_CONTROL |-> 3, STANDBY |-> 5,
             WAKEUP |-> 6, PRE_WAKEUP |-> 8]

\* The threads have just been created; nothing has been asked of them.
InitWith(bounds) ==
    /\ int = [pc |-> "top", set |-> {}, bStopped |-> FALSE,
              bCancelled |-> FALSE, bSignalStopState |-> FALSE,
              errCnt |-> 0, errCnt0 |-> 0]
    /\ transfer = "NONE"
    /\ dsp = [pc |-> "top", set |-> {}, bCancelled |-> FALSE, irp |-> "none",
              errCnt |-> 0, retries |-> 0]
    /\ dev = [PRESENT |-> TRUE, SURPRISE_REMOVED |-> FALSE,
              PowerSuspended |-> FALSE, bLowPowerMode |-> FALSE,
              bEncStopped |-> FALSE, PrepareToPowerDown |-> FALSE,
              DevicePower |-> "D0"]
    /\ StopRsp = FALSE /\ RspAvailableCount = 0
    /\ DispatchQueue = <<>>
    /\ EncapsulatedDataQueue = 0 /\ CtlCompletionQueue = 0
    /\ device = [attached |-> TRUE, outbox |-> 0, toAnnounce |-> 0]
    /\ power = "idle" /\ asked = "D0" /\ halt = "no"
    /\ left = bounds
    /\ forgotten = 0 /\ overtaken = FALSE

AnyBounds == [responses : Nat, errors : Nat, fetchErrors : Nat, sends : Nat,
              powers : Nat, prepares : Nat, removals : Nat, detaches : Nat]
Init == \E bounds \in AnyBounds : InitWith(bounds)

\* What a step of the dispatch thread leaves alone unless it says otherwise.
DspSame == UNCHANGED <<transfer, asked, left>>
DspAlone == /\ UNCHANGED <<int, dev, StopRsp, RspAvailableCount, ctlQueues,
                           CtlCompletionQueue, device, hostState, forgotten>>
            /\ UNCHANGED <<transfer, left>>

-----------------------------------------------------------------------------
(***************************************************************************)
(* The dispatch thread's loop.                                             *)
(***************************************************************************)
Fetching == RspAvailableCount > 0 /\ ~dev.bEncStopped

\* The remove lock: control reads, power IRPs, and the idle IRP as long as the
\* device is suspended, hold it; so do the IRPs of DispatchQueue.
RemoveLockHeld == \/ EncapsulatedDataQueue > 0 \/ CtlCompletionQueue > 0
                  \/ power # "idle" \/ asked = "suspended"
OtherIrps == RemoveLockHeld \/ Len(DispatchQueue) > 1

\* QCPWR_CheckToWakeup and QCDSP_ToProcessIrp: a command waits until the
\* device is awake, the removal until the driver holds no other IRP.
MustHold(irp) == \/ irp = "SEND" /\ dev.PowerSuspended
                 \/ irp = "REMOVE" /\ OtherIrps
Rotated(queue) == IF Head(queue) = "REMOVE"
                  THEN Append(Tail(queue), Head(queue)) ELSE queue

DspReadControlFirst ==
    /\ dsp.pc = "top" /\ ~dsp.bCancelled /\ Fetching
    /\ dsp' = Goto(dsp, "READ_CONTROL")
    /\ DspAlone

DspIdle ==
    /\ dsp.pc = "top" /\ ~dsp.bCancelled /\ ~Fetching
    /\ DispatchQueue = <<>>
    /\ dsp' = Goto(dsp, "wait")
    /\ DspAlone

DspHold ==
    /\ dsp.pc = "top" /\ ~dsp.bCancelled /\ ~Fetching
    /\ DispatchQueue # <<>> /\ MustHold(Head(DispatchQueue))
    /\ DispatchQueue' = Rotated(DispatchQueue)
    /\ dsp' = [dsp EXCEPT !.pc = "wait",
                          !.set = IF dev.PowerSuspended
                                  THEN @ \cup {"PRE_WAKEUP"} ELSE @]
    /\ UNCHANGED <<int, dev, StopRsp, RspAvailableCount,
                   EncapsulatedDataQueue, CtlCompletionQueue, device,
                   hostState, forgotten>>
    /\ DspSame

DspDequeue ==
    /\ dsp.pc = "top" /\ ~dsp.bCancelled /\ ~Fetching
    /\ DispatchQueue # <<>> /\ ~MustHold(Head(DispatchQueue))
    /\ dsp' = [dsp EXCEPT !.pc = "dispatch", !.irp = Head(DispatchQueue)]
    /\ DispatchQueue' = Tail(DispatchQueue)
    /\ UNCHANGED <<int, dev, StopRsp, RspAvailableCount,
                   EncapsulatedDataQueue, CtlCompletionQueue, device,
                   hostState, forgotten>>
    /\ DspSame

\* A cancelled thread serves no IRP any more: it ends when none is queued.
DspExit ==
    /\ dsp.pc = "top" /\ dsp.bCancelled /\ DispatchQueue = <<>>
    /\ dsp' = Goto(dsp, "terminated")
    /\ DspAlone

DspWait ==
    /\ dsp.pc = "wait"
    /\ dsp' = WaitAny(dsp, DspIndex)
    /\ DspAlone

\* The wait times out every second.
DspTimeout ==
    /\ dsp.pc = "blocked" /\ (Fetching \/ DispatchQueue # <<>>)
    /\ dsp' = Goto(dsp, "top")
    /\ DspAlone

\* The thread looks at its queue again.  A pre-wake-up cancels the idle IRP,
\* which ends a selective suspend: EndSuspend may come at any time.
DspStart ==
    /\ dsp.pc \in {"START", "PRE_WAKEUP"}
    /\ dsp' = Clear(dsp, dsp.pc, "top")
    /\ DspAlone

\* USBENC_PurgeQueue on the control reads.
PurgeReads ==
    /\ EncapsulatedDataQueue' = 0
    /\ CtlCompletionQueue' = CtlCompletionQueue + EncapsulatedDataQueue
    /\ int' = IF EncapsulatedDataQueue > 0 THEN Signal(int, "EMPTY_CTL")
              ELSE int

DspCancel ==
    /\ dsp.pc = "CANCEL"
    /\ dsp' = [Clear(dsp, "CANCEL", "top") EXCEPT !.bCancelled = TRUE]
    /\ PurgeReads
    /\ UNCHANGED <<dev, StopRsp, RspAvailableCount, DispatchQueue, device,
                   hostState, forgotten>>
    /\ DspSame

-----------------------------------------------------------------------------
(***************************************************************************)
(* A response is available.                                                *)
(***************************************************************************)
FetchSame == /\ UNCHANGED <<StopRsp, DispatchQueue, transfer, hostState>>

\* While the system prepares to sleep the announcements are left alone, and
\* dropped in the end.
DspReadControl ==
    /\ dsp.pc = "READ_CONTROL"
    /\ LET cleared == Clear(dsp, "READ_CONTROL", "top")
           enough  == dsp.retries + 1 >= PrepareRetries
       IN  IF dev.PrepareToPowerDown
           THEN /\ dsp' = [cleared EXCEPT
                              !.retries = IF enough THEN 0 ELSE @ + 1]
                /\ IF enough THEN ForgetResponses
                   ELSE UNCHANGED <<RspAvailableCount, forgotten>>
           ELSE /\ dsp' = Goto(cleared, "fetch")
                /\ UNCHANGED <<RspAvailableCount, forgotten>>
    /\ UNCHANGED <<int, dev, EncapsulatedDataQueue, CtlCompletionQueue,
                   device, left>>
    /\ FetchSame

MayFetch == Fetching /\ dev.PRESENT

\* USBENC_CDC_GetEncapsulatedResponse: the response goes to the first control
\* read, and is lost when none waits.
DspFetch ==
    /\ dsp.pc = "fetch" /\ MayFetch
    /\ device.attached /\ device.outbox > 0
    /\ device' = [device EXCEPT !.outbox = @ - 1]
    /\ IF EncapsulatedDataQueue > 0
       THEN /\ EncapsulatedDataQueue' = EncapsulatedDataQueue - 1
            /\ CtlCompletionQueue' = CtlCompletionQueue + 1
            /\ int' = Signal(int, "EMPTY_CTL")
       ELSE UNCHANGED <<EncapsulatedDataQueue, CtlCompletionQueue, int>>
    /\ dsp' = [dsp EXCEPT !.pc = "fetched", !.errCnt = 0]
    /\ UNCHANGED <<dev, RspAvailableCount, forgotten, left>>
    /\ FetchSame

\* The control transfer fails; after too many failures the pipe is reset: that
\* drops what was announced, or the device is given up.
DspFetchFailed ==
    /\ dsp.pc = "fetch" /\ MayFetch
    /\ IF device.attached
       THEN left.fetchErrors > 0
            /\ left' = [left EXCEPT !.fetchErrors = @ - 1]
       ELSE UNCHANGED left
    /\ LET tooMany == dsp.errCnt + 1 > NumOfRetriesOnError
       IN  IF tooMany /\ device.attached
           THEN /\ dsp' = [dsp EXCEPT !.errCnt = 0]
                /\ ForgetResponses
                /\ UNCHANGED dev
           ELSE /\ dsp' = IF tooMany THEN [dsp EXCEPT !.errCnt =
                                                         NumOfRetriesOnError]
                          ELSE [dsp EXCEPT !.errCnt = @ + 1]
                /\ dev' = [dev EXCEPT !.PRESENT = @ /\ ~tooMany]
                /\ UNCHANGED <<RspAvailableCount, forgotten>>
    /\ UNCHANGED <<int, EncapsulatedDataQueue, CtlCompletionQueue, device>>
    /\ FetchSame

DspFetchedBelowZero ==  \* fault
    /\ dsp.pc = "fetched"
    /\ dsp' = Goto(dsp, "fetch")
    /\ RspAvailableCount' = RspAvailableCount - 1
    /\ UNCHANGED <<int, dev, EncapsulatedDataQueue, CtlCompletionQueue,
                   device, left, forgotten>>
    /\ FetchSame
\* The count may have been reset during the transfer: the response was written
\* off then.
DspFetched ==
    /\ dsp.pc = "fetched"
    /\ dsp' = Goto(dsp, "fetch")
    /\ IF RspAvailableCount > 0
       THEN RspAvailableCount' = RspAvailableCount - 1 /\ UNCHANGED forgotten
       ELSE forgotten' = forgotten - 1 /\ UNCHANGED RspAvailableCount
    /\ UNCHANGED <<int, dev, EncapsulatedDataQueue, CtlCompletionQueue,
                   device, left>>
    /\ FetchSame

DspFetchDone ==
    /\ dsp.pc = "fetch" /\ ~MayFetch
    /\ dsp' = Goto(dsp, "top")
    /\ DspAlone

-----------------------------------------------------------------------------
(***************************************************************************)
(* Stand-by and wake-up, as NDIS asks for them.                            *)
(***************************************************************************)
PowerDown == [dev EXCEPT !.PowerSuspended = TRUE, !.bLowPowerMode = TRUE]
StandbySame == UNCHANGED <<StopRsp, RspAvailableCount, ctlQueues,
                           CtlCompletionQueue, device, power, asked, halt,
                           transfer, left, forgotten>>

DspStandby ==
    /\ dsp.pc = "STANDBY"
    /\ dsp' = Clear(dsp, "STANDBY",
                    IF dev.bLowPowerMode THEN "top" ELSE "stopClear")
    /\ dev' = IF dev.bLowPowerMode THEN dev ELSE PowerDown
    /\ UNCHANGED <<int, overtaken>> /\ StandbySame

DspWakeup ==
    /\ dsp.pc = "WAKEUP"
    /\ dsp' = Clear(dsp, "WAKEUP",
                    IF dev.SURPRISE_REMOVED THEN "top" ELSE "resume")
    /\ dev' = [dev EXCEPT !.PowerSuspended = FALSE, !.bLowPowerMode = FALSE]
    /\ UNCHANGED <<int, overtaken>> /\ StandbySame

\* USBINT_ResumeInterruptService, after it looked for a removal.
DspResume ==
    /\ dsp.pc = "resume"
    /\ dsp' = Goto(dsp, "top")
    /\ ResumeSet
    /\ UNCHANGED dev /\ StandbySame

-----------------------------------------------------------------------------
(***************************************************************************)
(* The dispatch thread stops the interrupt service: for a stand-by without *)
(* waiting (irp is "none"), for an IRP until the service has answered.     *)
(***************************************************************************)
StopSame == UNCHANGED <<dev, RspAvailableCount, ctlQueues, CtlCompletionQueue,
                        device, power, asked, halt, transfer, left, forgotten>>

DspStopClear ==
    /\ dsp.pc = "stopClear"
    /\ dsp' = Goto(dsp, "stopSet")
    /\ StopClear
    /\ UNCHANGED overtaken /\ StopSame

DspStopSet ==
    /\ dsp.pc = "stopSet"
    /\ dsp' = Goto(dsp, IF dsp.irp = "none" THEN "forget" ELSE "rspTest")
    /\ StopSet
    /\ UNCHANGED StopRsp /\ StopSame

DspStopWait ==
    /\ dsp.pc = "rspTest"
    /\ dsp' = Goto(dsp, IF StopRsp THEN "rspSet" ELSE "rspWait")
    /\ UNCHANGED <<int, StopRsp, overtaken>> /\ StopSame

DspStopped ==
    /\ dsp.pc = "rspSet"
    /\ dsp' = Goto(dsp, "forget")
    /\ StopRsp' = FALSE
    /\ UNCHANGED <<int, overtaken>> /\ StopSame

\* The announcements are dropped; what the stop was for is done.
DspForget ==
    /\ dsp.pc = "forget"
    /\ ForgetResponses
    /\ dsp' = [dsp EXCEPT !.pc = "top", !.irp = "none"]
    /\ dev' = IF dsp.irp = "DOWN" THEN [dev EXCEPT !.DevicePower = "D3"]
              ELSE dev
    /\ power' = IF dsp.irp = "DOWN" THEN "idle" ELSE power
    /\ halt' = IF dsp.irp = "SURPRISE" THEN "query" ELSE halt
    /\ UNCHANGED <<int, StopRsp, ctlQueues, CtlCompletionQueue, device,
                   overtaken>>
    /\ DspSame

-----------------------------------------------------------------------------
(***************************************************************************)
(* USBDSP_Dispatch, by the kind of IRP.                                    *)
(***************************************************************************)
Dispatching(irp) == dsp.pc = "dispatch" /\ dsp.irp = irp
IrpDone == [dsp EXCEPT !.pc = "top", !.irp = "none"]
DispatchSame == UNCHANGED <<StopRsp, DispatchQueue, device>>

\* USBENC_CDC_SendEncapsulatedCommand; the command ends whatever comes of it.
DspSend ==
    /\ Dispatching("SEND")
    /\ dsp' = IrpDone
    /\ DspAlone

\* QCPWR_DecreaseDevicePower and USBIF_SyncPowerDownDevice: nothing is stopped
\* when a stand-by already did, or when the device is gone.
DspPowerDown ==
    /\ Dispatching("DOWN")
    /\ LET stops == dev.DevicePower = "D0" /\ dev.PRESENT
       IN  /\ dev' = IF stops /\ ~dev.bLowPowerMode
                     THEN [PowerDown EXCEPT !.bEncStopped = TRUE]
                     ELSE [dev EXCEPT !.bEncStopped = @ \/ stops,
                                      !.PowerSuspended =
                                          @ \/ dev.DevicePower = "D0",
                                      !.DevicePower = "D3"]
           /\ dsp' = IF stops /\ ~dev.bLowPowerMode
                     THEN Goto(dsp, "stopClear") ELSE IrpDone
           /\ power' = IF stops /\ ~dev.bLowPowerMode THEN power ELSE "idle"
    /\ overtaken' = (overtaken \/ "WAKEUP" \in dsp.set)
    /\ UNCHANGED <<int, RspAvailableCount, EncapsulatedDataQueue,
                   CtlCompletionQueue, halt, forgotten>>
    /\ DispatchSame /\ DspSame

\* The bus powers the device up first; when it does, a work item goes on.
DspPowerUp ==
    /\ Dispatching("UP")
    /\ dsp' = IrpDone
    /\ power' \in IF device.attached THEN {"workItem"} ELSE {"workItem", "idle"}
    /\ UNCHANGED <<int, dev, RspAvailableCount, EncapsulatedDataQueue,
                   CtlCompletionQueue, halt, overtaken, forgotten>>
    /\ DispatchSame /\ DspSame

Removed == [dev EXCEPT !.PRESENT = FALSE, !.SURPRISE_REMOVED = TRUE]

DspSurpriseRemoval ==
    /\ Dispatching("SURPRISE")
    /\ dsp' = Goto(dsp, "stopClear")
    /\ dev' = Removed
    /\ PurgeReads
    /\ UNCHANGED <<RspAvailableCount, power, halt, overtaken, forgotten>>
    /\ DispatchSame /\ DspSame

DspQueryRemove ==
    /\ Dispatching("QUERY")
    /\ dsp' = IrpDone
    /\ dev' = Removed
    /\ halt' = "remove"
    /\ UNCHANGED <<int, RspAvailableCount, EncapsulatedDataQueue,
                   CtlCompletionQueue, power, overtaken, forgotten>>
    /\ DispatchSame /\ DspSame

DspRemove ==
    /\ Dispatching("REMOVE")
    /\ dsp' = Goto(dsp, "cancelWait")
    /\ dev' = [dev EXCEPT !.PRESENT = FALSE]
    /\ ForgetResponses
    /\ int' = Signal(int, "CANCEL")
    /\ UNCHANGED <<EncapsulatedDataQueue, CtlCompletionQueue, power, halt,
                   overtaken>>
    /\ DispatchSame /\ DspSame

DspRemoved ==
    /\ dsp.pc = "cancelWait" /\ int.pc = "terminated" /\ ~RemoveLockHeld
    /\ dsp' = IrpDone
    /\ ForgetResponses
    /\ halt' = "cancel"
    /\ UNCHANGED <<int, dev, EncapsulatedDataQueue, CtlCompletionQueue, power,
                   overtaken>>
    /\ DispatchSame /\ DspSame

DspNext ==
    \/ DspReadControlFirst \/ DspIdle \/ DspHold \/ DspDequeue \/ DspExit
    \/ DspWait \/ DspTimeout \/ DspStart \/ DspCancel
    \/ DspReadControl \/ DspFetch \/ DspFetchFailed \/ DspFetched
    \/ DspFetchDone \/ DspStandby \/ DspWakeup \/ DspResume
    \/ DspStopClear \/ DspStopSet \/ DspStopWait \/ DspStopped \/ DspForget
    \/ DspSend \/ DspPowerDown \/ DspPowerUp
    \/ DspSurpriseRemoval \/ DspQueryRemove \/ DspRemove \/ DspRemoved

-----------------------------------------------------------------------------
(***************************************************************************)
(* The miniport's commands and the power manager.                          *)
(***************************************************************************)
Enqueue(irp) ==
    /\ DispatchQueue' = Append(DispatchQueue, irp)
    /\ dsp' = Signal(dsp, "START")
\* QCPWR_Enqueue: before the IRPs that are not power IRPs; there is no other
\* power IRP.
EnqueuePower(irp) ==
    /\ DispatchQueue' = <<irp>> \o DispatchQueue
    /\ dsp' = Signal(dsp, "START")
HostSame == UNCHANGED <<transfer, CtlCompletionQueue, device>>
PowerSame == /\ HostSame
             /\ UNCHANGED <<int, StopRsp, RspAvailableCount,
                            EncapsulatedDataQueue, halt, forgotten>>

\* The miniport posts the control reads it owns, until it stops its thread
\* before the removal.
PostControlRead ==
    /\ halt = "no"
    /\ EncapsulatedDataQueue + CtlCompletionQueue < MaxControlReads
    /\ EncapsulatedDataQueue' = EncapsulatedDataQueue + 1
    /\ UNCHANGED <<int, dsp, dev, StopRsp, RspAvailableCount, DispatchQueue,
                   hostState, left, forgotten>>
    /\ HostSame

SendCommand ==
    /\ halt = "no" /\ left.sends > 0
    /\ left' = [left EXCEPT !.sends = @ - 1]
    /\ Enqueue("SEND")
    /\ UNCHANGED <<dev, power, asked, overtaken>>
    /\ PowerSame

\* USBIF_SetPowerState.  A stand-by is served before a wake-up that still
\* waits; a wake-up that is set while the thread is about to clear the one
\* before is lost, and a stand-by between the two comes last.
SetStandby ==
    /\ dsp' = Signal(dsp, "STANDBY")
    /\ dev' = [dev EXCEPT !.bEncStopped = TRUE, !.DevicePower = "D3"]
    /\ overtaken' = \/ overtaken
                    \/ "WAKEUP" \in dsp.set /\ dsp.pc # "WAKEUP"
SetWakeup ==
    /\ dsp' = Signal(dsp, "WAKEUP")
    /\ dev' = [dev EXCEPT !.bEncStopped = FALSE, !.DevicePower = "D0"]
    /\ overtaken' = \/ overtaken
                    \/ dsp.pc = "WAKEUP" /\ "STANDBY" \in dsp.set

NdisPowersDown ==
    /\ halt = "no" /\ power = "idle" /\ asked = "D0" /\ left.powers > 0
    /\ left' = [left EXCEPT !.powers = @ - 1]
    /\ asked' = "D3"
    /\ SetStandby
    /\ UNCHANGED <<DispatchQueue, power>>
    /\ PowerSame

NdisPowersUp ==
    /\ halt = "no" /\ power = "idle" /\ asked = "D3"
    /\ asked' = "D0"
    /\ SetWakeup
    /\ UNCHANGED <<DispatchQueue, power, left>>
    /\ PowerSame

\* QCPWR_IdleNotificationCallbackEpisode.
Suspend ==
    /\ halt = "no" /\ power = "idle" /\ asked = "D0" /\ left.powers > 0
    /\ dev.PRESENT /\ ~dev.PrepareToPowerDown
    /\ left' = [left EXCEPT !.powers = @ - 1]
    /\ asked' = "suspended" /\ power' = "queued"
    /\ EnqueuePower("DOWN")
    /\ UNCHANGED <<dev, overtaken>>
    /\ PowerSame

\* QCPWR_IdleNotificationIrpCompletionEpisode: the idle IRP ends, because the
\* device wakes, the driver has cancelled it, or the device is gone.  A device
\* that is about to sleep stays down.
EndSuspend ==
    /\ power = "idle" /\ asked = "suspended" /\ ~dev.PrepareToPowerDown
    /\ asked' = "D0" /\ power' = "queued"
    /\ EnqueuePower("UP")
    /\ UNCHANGED <<dev, left, overtaken>>
    /\ PowerSame

EndSuspendAsleep ==
    /\ power = "idle" /\ asked = "suspended" /\ dev.PrepareToPowerDown
    /\ asked' = "D3"
    /\ SetStandby
    /\ UNCHANGED <<DispatchQueue, power, left>>
    /\ PowerSame

\* QCPWR_PowerUpDevice.
PowerUpDevice ==
    /\ power = "workItem"
    /\ power' = "resuming"
    /\ dev' = [dev EXCEPT !.DevicePower = "D0", !.PowerSuspended = FALSE]
    /\ UNCHANGED <<dsp, DispatchQueue, asked, left, overtaken>>
    /\ PowerSame
PowerUpResume ==
    /\ power = "resuming"
    /\ power' = "idle"
    /\ SetWakeup
    /\ UNCHANGED <<DispatchQueue, asked, left>>
    /\ PowerSame

\* The system asks whether it may sleep, and comes back or changes its mind.
SystemPrepares ==
    /\ halt = "no" /\ ~dev.PrepareToPowerDown /\ left.prepares > 0
    /\ left' = [left EXCEPT !.prepares = @ - 1]
    /\ dev' = [dev EXCEPT !.PrepareToPowerDown = TRUE]
    /\ UNCHANGED <<dsp, DispatchQueue, power, asked, overtaken>>
    /\ PowerSame
SystemWorks ==
    /\ dev.PrepareToPowerDown
    /\ dev' = [dev EXCEPT !.PrepareToPowerDown = FALSE]
    /\ UNCHANGED <<dsp, DispatchQueue, power, asked, left, overtaken>>
    /\ PowerSame

-----------------------------------------------------------------------------
(***************************************************************************)
(* MPMAIN_MiniportHalt: a surprise removal, a query and a removal, each of *)
(* which waits for its IRP, then the end of the dispatch thread.           *)
(***************************************************************************)
HaltSame == /\ HostSame
            /\ UNCHANGED <<EncapsulatedDataQueue, power, asked>>

\* USBDSP_QueuedDispatch of the surprise removal, on the caller's thread.
HaltSurprise ==
    /\ halt = "no" /\ left.removals > 0
    /\ left' = [left EXCEPT !.removals = @ - 1]
    /\ halt' = "stopClear"
    /\ dev' = Removed
    /\ UNCHANGED <<int, dsp, StopRsp, RspAvailableCount, DispatchQueue,
                   forgotten, overtaken>>
    /\ HaltSame
HaltStopClear ==
    /\ halt = "stopClear"
    /\ halt' = "stopSet"
    /\ StopClear
    /\ UNCHANGED <<dsp, dev, RspAvailableCount, DispatchQueue, left,
                   forgotten, overtaken>>
    /\ HaltSame
HaltStopSet ==
    /\ halt = "stopSet"
    /\ halt' = "surprise"
    /\ StopSet
    /\ dev' = [dev EXCEPT !.bEncStopped = TRUE]
    /\ UNCHANGED <<dsp, StopRsp, RspAvailableCount, DispatchQueue, left,
                   forgotten>>
    /\ HaltSame

\* The IRP is queued; the caller waits for it without a timeout.
HaltSends(from, irp, to) ==
    /\ halt = from
    /\ halt' = to
    /\ Enqueue(irp)
    /\ UNCHANGED <<int, dev, StopRsp, left, overtaken>>
    /\ HaltSame
HaltQueueSurprise ==
    /\ HaltSends("surprise", "SURPRISE", "surpriseWait")
    /\ ForgetResponses
HaltQuery ==
    /\ HaltSends("query", "QUERY", "queryWait")
    /\ UNCHANGED <<RspAvailableCount, forgotten>>
HaltRemove ==
    /\ HaltSends("remove", "REMOVE", "removeWait")
    /\ UNCHANGED <<RspAvailableCount, forgotten>>

\* USBDSP_CancelDispatchThread.
HaltCancel ==
    /\ halt = "cancel"
    /\ halt' = "cancelWait"
    /\ dsp' = Signal(dsp, "CANCEL")
    /\ UNCHANGED <<int, dev, StopRsp, RspAvailableCount, DispatchQueue, left,
                   forgotten, overtaken>>
    /\ HaltSame
HaltDone ==
    /\ halt = "cancelWait" /\ dsp.pc = "terminated"
    /\ halt' = "done"
    /\ UNCHANGED <<int, dsp, dev, StopRsp, RspAvailableCount, DispatchQueue,
                   left, forgotten, overtaken>>
    /\ HaltSame

HaltNext == \/ HaltStopClear \/ HaltStopSet \/ HaltQueueSurprise
            \/ HaltQuery \/ HaltRemove \/ HaltCancel \/ HaltDone
PowerNext == PowerUpDevice \/ PowerUpResume
ClientNext == \/ PostControlRead \/ SendCommand \/ NdisPowersDown
              \/ NdisPowersUp \/ Suspend \/ EndSuspend \/ EndSuspendAsleep
              \/ SystemPrepares \/ SystemWorks \/ HaltSurprise

Next == \/ IntNext \/ BusNext \/ DeviceNext \/ DspNext \/ PowerNext
        \/ ClientNext \/ HaltNext

Spec == Init /\ [][Next]_vars

\* Threads and work items that can run do run, transfers that are cancelled or
\* whose device is gone end, and a removal ends a suspend: the stop of the
\* service cancels the idle IRP.
Fairness == /\ WF_vars(IntNext) /\ WF_vars(DspNext) /\ WF_vars(PowerNext)
            /\ WF_vars(HaltNext) /\ WF_vars(BusEnds)
            /\ WF_vars(halt # "no" /\ (EndSuspend \/ EndSuspendAsleep))

-----------------------------------------------------------------------------
(***************************************************************************)
(* Properties.                                                             *)
(***************************************************************************)
IntPcs == IntEvents \cup {"top", "submit", "wait", "blocked", "announce",
                          "announced", "exit", "terminated"}
DspPcs == DspEvents \cup {"top", "wait", "blocked", "dispatch", "fetch",
                          "fetched", "resume", "stopClear", "stopSet",
                          "rspTest", "rspWait", "rspSet", "forget",
                          "cancelWait", "terminated"}
Irps == {"SEND", "DOWN", "UP", "SURPRISE", "QUERY", "REMOVE"}
HaltPcs == {"no", "stopClear", "stopSet", "surprise", "surpriseWait", "query",
            "queryWait", "remove", "removeWait", "cancel", "cancelWait",
            "done"}

IntThread == [pc : IntPcs, set : SUBSET IntEvents, bStopped : BOOLEAN,
              bCancelled : BOOLEAN, bSignalStopState : BOOLEAN,
              errCnt : 0 .. MaxErrors, errCnt0 : 0 .. MaxErrors]
DspThread == [pc : DspPcs, set : SUBSET DspEvents, bCancelled : BOOLEAN,
              irp : Irps \cup {"none"}, errCnt : 0 .. NumOfRetriesOnError,
              retries : 0 .. PrepareRetries - 1]
Flags == [PRESENT : BOOLEAN, SURPRISE_REMOVED : BOOLEAN,
          PowerSuspended : BOOLEAN, bLowPowerMode : BOOLEAN,
          bEncStopped : BOOLEAN, PrepareToPowerDown : BOOLEAN,
          DevicePower : {"D0", "D3"}]

\* The type of the state.  No more responses are fetched than were announced or
\* written off, the error counts stay in bounds, and the miniport owns every
\* control read.
TypeOK ==
    /\ int \in IntThread /\ dsp \in DspThread /\ dev \in Flags
    /\ transfer \in {"NONE", "PENDING", "CANCELLING", "RESPONSE", "ERROR",
                     "GONE"}
    /\ StopRsp \in BOOLEAN
    /\ RspAvailableCount \in Nat /\ forgotten \in Nat
    /\ DispatchQueue \in Seq(Irps)
    /\ EncapsulatedDataQueue + CtlCompletionQueue \in 0 .. MaxControlReads
    /\ device \in [attached : BOOLEAN, outbox : Nat, toAnnounce : Nat]
    /\ power \in {"idle", "queued", "workItem", "resuming"}
    /\ asked \in {"D0", "D3", "suspended"} /\ halt \in HaltPcs
    /\ left \in AnyBounds
    /\ overtaken \in BOOLEAN

\* When the dispatch thread powers the device down for a selective suspend, no
\* transfer is in flight and none can be submitted, even if the answer it got
\* was to an earlier stop.
StopIsQuiet ==
    dsp.pc = "forget" /\ dsp.irp = "DOWN" =>
        transfer = "NONE" /\ int.pc # "submit"

\* The interrupt thread, which alone completes the control IRPs, ends only when
\* none is left to complete and its transfer has come back.
ExitIsQuiet ==
    /\ int.pc \in {"exit", "terminated"} => transfer = "NONE"
    /\ int.pc = "terminated" =>
          EncapsulatedDataQueue = 0 /\ CtlCompletionQueue = 0

\* What stops or ends the interrupt service finds it quiet.
ServiceIsQuiet == StopIsQuiet /\ ExitIsQuiet

\* Nothing is left to do, and no timer will change that.
AtRest == /\ int.pc = "blocked" /\ dsp.pc = "blocked"
          /\ power = "idle" /\ halt = "no"
          /\ DispatchQueue = <<>> /\ ~Fetching /\ ~MaySubmit
GivenUp == int.bStopped /\ MaxErrors \in {int.errCnt, int.errCnt0}

\* Whatever power requests and responses have crossed, the driver comes to rest
\* in the state that was asked for last: awake it listens to the pipe and has
\* fetched every response but those it has written off; asleep it does not
\* listen.  Excepted are a pipe that was given up, and requests that crossed so
\* that the later one was served first or lost.
Settled ==
    AtRest /\ device.attached /\ ~overtaken =>
        IF asked = "D0"
        THEN \/ GivenUp
             \/ /\ transfer # "NONE" /\ ~dev.PowerSuspended
                /\ RspAvailableCount = 0
                /\ device.outbox = device.toAnnounce + forgotten
        ELSE transfer # "PENDING" /\ dev.PowerSuspended

\* What keeps the dispatch thread from the removal for ever: a command at the
\* head of its queue while the device is suspended, or an announcement counted
\* after the removal that a late wake-up makes it try to fetch.
Blocked == \/ DispatchQueue # <<>> /\ Head(DispatchQueue) = "SEND"
                                  /\ dev.PowerSuspended
           \/ Fetching /\ ~dev.PRESENT

\* A removal comes to its end, with both threads gone.
RemovalEnds == (halt = "stopClear") ~> (halt = "done" \/ []Blocked)
=============================================================================
