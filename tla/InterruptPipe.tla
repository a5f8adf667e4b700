--------------------------- MODULE InterruptPipe ---------------------------
(***************************************************************************)
(* The interrupt pipe of the USB transport (transport/usb/USBINT.c) and    *)
(* the state it shares with the rest of the control path.                  *)
(*                                                                         *)
(* The interrupt thread keeps one transfer outstanding.  A transfer that   *)
(* ends well announces an encapsulated response: the thread adds one to    *)
(* RspAvailableCount and wakes the dispatch thread, which fetches the      *)
(* response (module ControlPath).  The dispatch thread, and the host's     *)
(* thread that hands a removal to the driver, stop the service and may     *)
(* wait for its answer; the dispatch thread resumes it and, at removal,    *)
(* ends the thread.  The interrupt thread also completes the control IRPs  *)
(* that others put on CtlCompletionQueue.                                  *)
(***************************************************************************)
EXTENDS Integers, Sequences, KernelEvents

CONSTANTS
    NumOfRetriesOnError,  \* registry value: failed fetches before a reset
    PrepareRetries,       \* wake-ups after which announcements are dropped
                          \* while the system prepares to sleep (10 in the
                          \* code)
    MaxControlReads       \* bound: control read IRPs the miniport owns

ASSUME RetriesAssumption == /\ NumOfRetriesOnError \in Nat
                            /\ PrepareRetries \in Nat \ {0}
ASSUME ReadsAssumption == MaxControlReads \in Nat

\* Failures in a row after which the thread gives the pipe up.
MaxErrors == 3

IntEvents == {"COMPLETION", "CANCEL", "STOP", "RESUME", "EMPTY_CTL"}
IntIndex == [COMPLETION |-> 0, CANCEL |-> 1, STOP |-> 2, RESUME |-> 3,
             EMPTY_CTL |-> 6]

VARIABLES
    int,        \* the interrupt thread: bStopped, bCancelled,
                \* bSignalStopState, errCnt, errCnt0
    transfer,   \* its transfer; bIntActive is transfer # "NONE"
    dsp,        \* the dispatch thread
    dev,        \* the device extension's flags
    StopRsp,    \* InterruptStopServiceRspEvent
    RspAvailableCount,      \* responses announced and not fetched
    DispatchQueue,          \* IRPs for the dispatch thread
    EncapsulatedDataQueue,  \* number of control reads that wait for data
    CtlCompletionQueue,     \* number of control IRPs to complete
    device,     \* the device: attached, responses ready, to be announced
    power,      \* where the power request in progress stands
    asked,      \* the power state asked for last
    halt,       \* where the host's removal of the device stands
    left,       \* what is left of the bounds
    forgotten,  \* history: responses whose announcement was dropped
    overtaken   \* history: of two requests that crossed, the later one was
                \* served first or lost

ctlQueues == <<DispatchQueue, EncapsulatedDataQueue>>
hostState == <<power, asked, halt, overtaken>>
vars == <<int, transfer, dsp, dev, StopRsp, RspAvailableCount, ctlQueues,
          CtlCompletionQueue, device, hostState, left, forgotten>>

\* What no step of the interrupt thread or of its transfer changes.
IntSame == UNCHANGED <<dev, ctlQueues, hostState>>
IntAlone == /\ UNCHANGED <<dsp, StopRsp, RspAvailableCount,
                           CtlCompletionQueue, device, left, forgotten>>
            /\ IntSame

-----------------------------------------------------------------------------
(***************************************************************************)
(* The lower driver and the device.                                        *)
(***************************************************************************)
\* InterruptPipeCompletion.
Complete(result) ==
    /\ transfer' = result
    /\ int' = Signal(int, "COMPLETION")

\* A transfer that is being cancelled may still bring what had arrived.
BusResponse ==
    /\ device.attached /\ device.toAnnounce > 0
    /\ transfer \in {"PENDING", "CANCELLING"}
    /\ Complete("RESPONSE")
    /\ device' = [device EXCEPT !.toAnnounce = @ - 1]
    /\ UNCHANGED <<dsp, StopRsp, RspAvailableCount, CtlCompletionQueue, left,
                   forgotten>>
    /\ IntSame

BusError ==
    /\ transfer = "PENDING" /\ left.errors > 0
    /\ Complete("ERROR")
    /\ left' = [left EXCEPT !.errors = @ - 1]
    /\ UNCHANGED <<dsp, StopRsp, RspAvailableCount, CtlCompletionQueue,
                   device, forgotten>>
    /\ IntSame

\* STATUS_DEVICE_NOT_CONNECTED, or the end of a cancelled transfer.
BusEnds ==
    /\ \/ transfer = "PENDING" /\ ~device.attached /\ Complete("GONE")
       \/ transfer = "CANCELLING" /\ Complete("ERROR")
    /\ IntAlone

DeviceResponds ==
    /\ device.attached /\ left.responses > 0
    /\ left' = [left EXCEPT !.responses = @ - 1]
    /\ device' = [device EXCEPT !.outbox = @ + 1, !.toAnnounce = @ + 1]
    /\ UNCHANGED <<int, transfer, dsp, StopRsp, RspAvailableCount,
                   CtlCompletionQueue, forgotten>>
    /\ IntSame

DeviceDetaches ==
    /\ device.attached /\ left.detaches > 0
    /\ left' = [left EXCEPT !.detaches = @ - 1]
    /\ device' = [device EXCEPT !.attached = FALSE]
    /\ UNCHANGED <<int, transfer, dsp, StopRsp, RspAvailableCount,
                   CtlCompletionQueue, forgotten>>
    /\ IntSame

-----------------------------------------------------------------------------
(***************************************************************************)
(* The interrupt thread.                                                   *)
(***************************************************************************)
\* KeSetEvent on the answer to a stop: it releases a dispatch thread that is
\* blocked on it, even if the event is cleared before the thread runs.
AnswerStop ==
    /\ StopRsp' = TRUE
    /\ dsp' = IF dsp.pc = "rspWait" THEN Goto(dsp, "rspSet") ELSE dsp

\* IoCancelIrp on the transfer.
CancelTransfer ==
    transfer' = IF transfer = "PENDING" THEN "CANCELLING" ELSE transfer

MaySubmit == transfer = "NONE" /\ ~int.bStopped /\ ~dev.PowerSuspended

IntTop ==
    /\ int.pc = "top"
    /\ int' = Goto(int, IF MaySubmit THEN "submit" ELSE "wait")
    /\ UNCHANGED transfer /\ IntAlone

IntSubmit ==
    /\ int.pc = "submit"
    /\ transfer' = "PENDING"
    /\ int' = [int EXCEPT !.pc = "wait", !.errCnt0 = 0]
    /\ IntAlone

\* IoCallDriver fails; the completion routine has run.
IntRefused ==
    /\ int.pc = "submit"
    /\ IF device.attached
       THEN /\ left.errors > 0 /\ transfer' = "ERROR"
            /\ left' = [left EXCEPT !.errors = @ - 1]
       ELSE transfer' = "GONE" /\ UNCHANGED left
    /\ LET giveUp == int.errCnt0 + 1 >= MaxErrors
       IN  int' = [Signal(int, "COMPLETION") EXCEPT
                      !.pc = "wait", !.bStopped = giveUp,
                      !.errCnt0 = IF giveUp THEN MaxErrors ELSE @ + 1]
    /\ UNCHANGED <<dsp, StopRsp, RspAvailableCount, CtlCompletionQueue,
                   device, forgotten>>
    /\ IntSame

IntWait ==
    /\ int.pc = "wait"
    /\ int' = WaitAny(int, IntIndex)
    /\ UNCHANGED transfer /\ IntAlone

\* The wait times out every five seconds; it matters when a transfer may be
\* submitted again.
IntTimeout ==
    /\ int.pc = "blocked" /\ MaySubmit
    /\ int' = Goto(int, "top")
    /\ UNCHANGED transfer /\ IntAlone

\* The thread has seen its transfer end and answers the stop that waited for
\* it.  A thread that is stopped or cancelled drops what the transfer brought.
Failed == transfer \in {"ERROR", "GONE"}
Dropped == int.bCancelled \/ int.bStopped
AfterTransfer(pc) ==
    [Clear(int, "COMPLETION", pc) EXCEPT !.bSignalStopState = FALSE]

IntCompletion ==
    /\ int.pc = "COMPLETION"
    /\ transfer' = "NONE"
    /\ IF int.bSignalStopState THEN AnswerStop ELSE UNCHANGED <<dsp, StopRsp>>
    /\ \/ /\ Dropped
          /\ int' = AfterTransfer(IF int.bCancelled THEN "exit" ELSE "top")
          /\ forgotten' = IF Failed THEN forgotten ELSE forgotten + 1
       \/ /\ ~Dropped /\ Failed
          /\ LET giveUp == int.errCnt + 1 >= MaxErrors \/ transfer = "GONE"
             IN  int' = [AfterTransfer("top") EXCEPT
                            !.errCnt = IF giveUp THEN MaxErrors ELSE @ + 1,
                            !.bStopped = giveUp]
          /\ UNCHANGED forgotten
       \/ /\ ~Dropped /\ ~Failed
          /\ int' = [AfterTransfer("announce") EXCEPT !.errCnt = 0]
          /\ UNCHANGED forgotten
    /\ UNCHANGED <<RspAvailableCount, CtlCompletionQueue, device, left>>
    /\ IntSame

\* USBINT_HandleResponseAvailableNotification: the count, then the event.
IntAnnounceOne ==  \* fault
    /\ int.pc = "announce"
    /\ RspAvailableCount' = 1
    /\ int' = Goto(int, "announced")
    /\ UNCHANGED <<transfer, dsp, StopRsp, CtlCompletionQueue, device, left,
                   forgotten>>
    /\ IntSame
IntAnnounce ==
    /\ int.pc = "announce"
    /\ RspAvailableCount' = RspAvailableCount + 1
    /\ int' = Goto(int, "announced")
    /\ UNCHANGED <<transfer, dsp, StopRsp, CtlCompletionQueue, device, left,
                   forgotten>>
    /\ IntSame

IntAnnounced ==
    /\ int.pc = "announced"
    /\ dsp' = Signal(dsp, "READ_CONTROL")
    /\ int' = Goto(int, "top")
    /\ UNCHANGED <<transfer, StopRsp, RspAvailableCount, CtlCompletionQueue,
                   device, left, forgotten>>
    /\ IntSame

Stopped == [Clear(int, "STOP", "wait") EXCEPT !.bStopped = TRUE]
StopKeeps == /\ UNCHANGED <<RspAvailableCount, CtlCompletionQueue, device, left,
                            forgotten>>
             /\ IntSame
IntStopAtOnce ==  \* fault
    /\ int.pc = "STOP"
    /\ CancelTransfer /\ AnswerStop
    /\ int' = Stopped
    /\ StopKeeps
IntStopSilent ==  \* fault
    /\ int.pc = "STOP"
    /\ CancelTransfer
    /\ int' = [Stopped EXCEPT !.bSignalStopState = TRUE,
                              !.pc = IF transfer = "NONE" THEN "top" ELSE @]
    /\ UNCHANGED <<dsp, StopRsp>>
    /\ StopKeeps
\* The answer to a stop waits for the end of the transfer in flight.
IntStop ==
    /\ int.pc = "STOP"
    /\ CancelTransfer
    /\ \/ /\ transfer # "NONE"
          /\ int' = [Stopped EXCEPT !.bSignalStopState = TRUE]
          /\ UNCHANGED <<dsp, StopRsp>>
       \/ /\ transfer = "NONE"
          /\ int' = Goto(Stopped, "top")
          /\ AnswerStop
    /\ StopKeeps

\* The error counts are left alone.
IntResume ==
    /\ int.pc = "RESUME"
    /\ int' = [Clear(int, "RESUME", "top") EXCEPT !.bStopped = FALSE]
    /\ UNCHANGED transfer /\ IntAlone

\* QcEmptyCompletionQueue: the IRPs go back to the miniport.
IntEmptyCtl ==
    /\ int.pc = "EMPTY_CTL"
    /\ CtlCompletionQueue' = 0
    /\ int' = Clear(int, "EMPTY_CTL", "wait")
    /\ UNCHANGED <<transfer, dsp, StopRsp, RspAvailableCount, device, left,
                   forgotten>>
    /\ IntSame

IntCancel ==
    /\ int.pc = "CANCEL"
    /\ CancelTransfer
    /\ int' = [Clear(int, "CANCEL", IF transfer = "NONE" THEN "exit"
                                    ELSE "wait") EXCEPT !.bCancelled = TRUE]
    /\ IntAlone

IntExit ==
    /\ int.pc = "exit"
    /\ int' = Goto(int, "terminated")
    /\ UNCHANGED transfer /\ IntAlone

IntNext == \/ IntTop \/ IntSubmit \/ IntRefused \/ IntWait \/ IntTimeout
           \/ IntCompletion \/ IntAnnounce \/ IntAnnounced \/ IntStop
           \/ IntResume \/ IntEmptyCtl \/ IntCancel \/ IntExit
BusNext == BusResponse \/ BusError \/ BusEnds
DeviceNext == DeviceResponds \/ DeviceDetaches

-----------------------------------------------------------------------------
(***************************************************************************)
(* What other threads do to the service.  They take the event that a stop  *)
(* sets back first, and the answer to the stop before.                     *)
(***************************************************************************)
StopClear ==
    /\ int' = [int EXCEPT !.set = @ \ {"STOP"}]
    /\ StopRsp' = FALSE
\* A stop is served before a resume that still waits; a resume that is set
\* while the thread is about to clear the one before is lost, and a stop
\* between the two comes last.
StopSet ==
    /\ int' = Signal(int, "STOP")
    /\ overtaken' = \/ overtaken
                    \/ "RESUME" \in int.set /\ int.pc # "RESUME"
ResumeSet ==
    /\ int' = Signal(int, "RESUME")
    /\ overtaken' = \/ overtaken
                    \/ int.pc = "RESUME" /\ "STOP" \in int.set

\* USBMAIN_ResetRspAvailableCount.
ForgetResponses ==
    /\ RspAvailableCount' = 0
    /\ forgotten' = forgotten + RspAvailableCount
=============================================================================
