# Verification of the Qualcomm USB drivers

TLA+ models of the Windows USB drivers in `src/QMI/win/qcwwan`, the TLC
configurations that check them on small instances, and theorems checked by
TLAPS. Paths below are relative to `src/QMI/win/qcwwan`.

Contents

1. The system and its components
2. What is hard about it
3. The modules
4. UsbMultiRead: the receive pipeline
5. UsbMultiWrite: the transmit pipeline
6. QmiTransactions and QmiClients: requests to the modem and client ids
7. NdisTransmit: the send path of the miniport
8. InterruptPipe and ControlPath: responses, power and removal
9. The runs, their bounds and the fairness they assume
10. What is proved
11. Where the code disagrees with itself
12. What is only model-checked, and what is not modelled
13. The plan

## 1. The system and its components

The repository holds the drivers of Qualcomm modems for Windows: an NDIS
miniport (`ndis`) and a serial function driver (`serial`), each on top of a USB
function driver (`transport/usb`, and its older sibling inside `serial`), a bus
filter (`filter`), a diagnostics driver (`QDSS`), a user-mode service
(`tools/wwansvc`), the installer and the build scripts. There are no tests; the
only statements of what the code should do are its comments.

| component | state it keeps | operations | correct when |
|---|---|---|---|
| Multi-read pipeline (`USBMRD.c`, `USBRD.c`) | a ring of receive buffers, two queues of them, the clients' read IRPs, two threads | submit, complete, fill, stop, resume, purge, cancel, restart | frames reach the clients in order and once; no IRP is reused while the lower driver holds it; stops and cancellations end |
| Multi-write pipeline (`USBMWT.c`, `USBWT.c`) | transmit buffers on four queues, records of sent writes, the write queue, one thread | enqueue, send, complete, flow off and on, stop, resume, purge, cancel | data leaves in order and once; every write is answered once; flow-offs, purges and cancellations end |
| Stop, resume and purge of the data threads (`USBDSP.c`, `USBINT.c`) | events, acknowledgements, `PurgeMask` | `USBRD_SetStopState`, `USBWT_SetStopState`, `USBDSP_CleanUp` | every request is acknowledged, none takes the place of another |
| Dispatch thread and queue (`USBDSP.c`) | `DispatchQueue`, the current IRP, events | ioctls, power and PnP requests one after the other; responses to fetch, stand-by, wake-up | the driver ends as it was asked last; a removal is not kept from its turn |
| IRP queues and cancellation (`USBUTL.c` and the enqueue and cancel routines) | lists under spin locks, cancel routines | enqueue, dequeue, cancel, purge, complete | each IRP is on one list or owned by one thread |
| Interrupt pipe (`USBINT.c`), encapsulated commands (`USBENC.c`), sharing between sibling devices (`USBSHR.c`) | notification transfers, RESPONSE_AVAILABLE counts | receive, count, stop, resume, read the response | no announced response is forgotten; a stopped service holds no transfer |
| USB power management (`USBPWR.c`) | system and device power state, idle and wait-wake IRPs | set and query power, idle notification, wake | one power IRP at a time; no transfer on a suspended device |
| Plug and play of the transport (`USBPNP.c`, `USBMAIN.c`, `USBIF.c`, `USBIOC.c`) | device state flags, remove lock | start, stop, remove, the miniport's interface | a removal ends, and nothing runs after it |
| NDIS miniport: start, halt, reset | adapter flags and threads | initialise, halt, reset, check for hang | nothing runs after halt |
| NDIS miniport: transmit (`MPTX.c`, `MPUsb.c`) | lists of net buffers, their contexts, `nBusyTx`, transfer buffers, a timer | send, cancel, flow control, aggregate, complete, pause, restart | each list returns to NDIS once, packets keep their order, a context is not used after it was freed |
| NDIS miniport: receive (`MPRX.c`, `MPUsb.c`) | receive IRPs and packets | receive, deaggregate, indicate, return | each packet is indicated once |
| NDIS OID requests | pending OIDs | query and set through QMI | each request is completed once |
| QMICTL transactions and client ids (`MPQCTL.c`, `MPUsb.c`) | items of requests that wait, transaction counters, client ids, events | version, sync, get and release a client id; the sync and revoke indications | an answer reaches its request; a client id has one owner, and none leaks |
| QMI initialisation (`MPMain.c`) | `QmiInInitialization`, `QmiSyncNeeded`, `MainAdapterQmiInitSuccessful` | `MPMAIN_InitializeQMI` from two threads, synchronisation after a restart of the modem, link down | it ends, and leaves ids that the modem knows |
| Client files (`MPIOC.c`) | client records with their counts, and their read, write and notification IRPs | get a service file, open, read, write, close, idle check | a file reaches the client it is for; a client has one file; none is used after it was freed |
| QoS flows (`MPQOS.c`, `MPQOSC.c`) | flows with transmit queues | create, suspend, delete, classify | the packets of a flow keep their order |
| QMI messages (`MPQMUX.c`), packet headers (`MPIP.c`) | none | encode, decode | data layout |
| Serial driver (14 files), its power management | as the transport, and modem signals | as the transport | as the transport |
| Bus filter, QDSS driver, service, installer and build | see `PROJECT.json` | | |

How they interact. The miniport sends and receives IRPs through the transport's
queues. A transport device has a dispatch thread (control requests in turn),
two read threads (L1 serves the clients, L2 the lower driver), a write thread
and an interrupt thread. They share nothing but the device extension, lists
under spin locks, flags that one thread writes and others read, and
notification events; a thread waits for any of its events with
`KeWaitForMultipleObjects`, which serves the lowest index. The lower driver
calls completion routines, at any moment and also from within the call that
submits or cancels; the I/O manager calls cancel routines, from any client.

## 2. What is hard about it

* Completion routines, cancel routines and threads interleave between any two
  steps that are not under one lock. The locks protect lists; the state that
  decides what to do with an entry (`mwtState`, `State`, `CallingIrp`,
  `IoStatus`) is often read or written outside them.
* An event is a level: it remembers that something happened, not how often, and
  its order against other events is the order of the indices.
* Stop, resume, purge, cancel and flow control are handshakes of several
  threads; each is simple alone, and they meet.
* The order of the data depends on the order of submissions, not of
  completions, across stops and retransmissions.

The hazards are listed with their lines in `PROJECT.json`; a property or a note
stands beside each.

## 3. The modules

| module | role |
|---|---|
| `KernelEvents` | how a thread waits for its events: index order, and that a blocked thread takes the event that is set first |
| `Subsequences` | `Keep`, the subsequence of a sequence with the elements of a set; without recursion, so that it can be proved about |
| `SubsequenceProofs` | facts about sequences without repetition and about `Keep`, which the proofs about queues share and the refinements rest on |
| `UsbMultiRead` | the receive pipeline |
| `ReadChannel` | what the receive pipeline promises a client |
| `UsbMultiReadProofs` | the theorems about `UsbMultiRead`, among them that it implements `ReadChannel` |
| `MCUsbMultiRead` | scenarios |
| `UsbMultiWrite` | the transmit pipeline |
| `UsbMultiWriteProofs` | the theorems about `UsbMultiWrite` but one |
| `UsbMultiWriteOrderProofs` | extends it: that the packets reach the device in the order of the writes |
| `MCUsbMultiWrite` | scenarios |
| `QmiTransactions` | QMICTL requests of the miniport, their answers and indications, the lower driver and the modem |
| `QmiClients` | extends it: initialisation, synchronisation, service files, opens, closes and idle checks |
| `QmiProofs` | the theorems about `QmiClients`: its types, and answers and their requests |
| `QmiClientProofs` | extends it: open counts, items and calls, freed clients |
| `MCQmiClients` | instances and scenarios |
| `NdisTransmit` | the send path of the miniport |
| `TransmitQueue` | what the send path promises NDIS |
| `NdisProofs` | the theorems about `NdisTransmit`: the places and the life of what it is sent, that it implements `TransmitQueue`, its count, and the statuses it reports |
| `MCNdisTransmit` | scenarios and the mapping to `TransmitQueue` |
| `InterruptPipe` | the interrupt thread, its transfer, and what others do to it; the variables of the control path |
| `ControlPath` | extends it: the dispatch thread, encapsulated responses, power requests, the removal |
| `ControlPathProofs` | the theorems about `ControlPath` |
| `MCControlPath` | scenarios |

Conventions. Variables and their fields have the names of the source. A thread
is a record whose `pc` says where it stands; the code between two places where
another actor can be observed (a lock, an event, a wait, a call to the lower
driver) is one action. Definitions marked `fault` are not part of a
specification: each is a plausible mistake in the operator that follows it and
serves to show that a property depends on that operator.

When the code uses an IRP that is not its own any more (a completed one, or one
the lower driver holds), what follows is undefined, and the model has no next
state: `Defined` is a conjunct of every action. The invariants and the
refinement hold up to that point, `OnlyStaleBreaks` and `OnlyKnownBreaks` say
what can lead to it, and the liveness properties excuse it.

## 4. UsbMultiRead: the receive pipeline

`NumberOfL2Buffers` bulk-IN transfers are kept outstanding. L2 submits READY
buffers in ring order (`L2IrpEndIdx`), the completion routine moves them from
`L2PendingQueue` to `L2CompletionQueue` under `L2Lock`, L2 marks them COMPLETED,
L1 fills read IRPs from them in ring order (`L2FillIdx`) and makes them READY
again, kicking L2 if it may be waiting. All of these are variables of the
module; a frame is a number, 0 stands for a transfer without data or with a
packet that is larger than the MTU allows, which L1 drops (`L1Drop`,
`USBMRD.c:1592-1668`).

| actions | code |
|---|---|
| `L2Submit` ... `L2AdvanceInline` | the submission loop of L2, `USBMRD.c:780-943`; an inline status is one other than `STATUS_PENDING` from `IoCallDriver` |
| `L2Wait`, `L2Kick`, `L2Cancel`, `L2Stop`, `L2Resume` | L2's wait and its requests, `964-1141` |
| `L2Dequeue`, `L2ClearEvent`, `L2Complete`, `L2StopSelf`, `L2Notify` | the completion of a transfer, `1143-1439` |
| `L1Wait` ... `L1CheckKick` | L1's wait and the filling of read IRPs, `209-340`, `1536-1829` |
| `L1Stop` ... `L1Exit` | L1's part of stop, resume, purge and cancellation, `342-626` |
| `RequestStop` ... `RequestReset` | `USBRD_SetStopState`, with its timeout and polling, `USBRD.c:2326-2459` |
| `RequestPurge`, `DispatchPurge` | a purge, `USBDSP.c:893-914`, `2450-2530` |
| `Enqueue`, `CreateThreads`, `CancelReadThread` | the clients, `USBRD.c:129-456`; the tests for the device and the threads are made without the lock under which `Enqueue` inserts, so that it may come at any time |
| `MultiReadCompletionRoutine`, `Bus...` | the completion routine; the lower driver |

Properties. `InFlightIsPending`, `NoIrpAfterExit`, `ResetIsQuiet` and
`OnlyStaleBreaks` (safety of the IRPs), `ImplementsChannel` (the pipeline
implements `ReadChannel`), and under fairness `RequestsEnd` (`StopAcknowledged`
and `CancelTerminates`), `NoKickIsLost` (`ReadyIsSubmitted` and
`CompletedIsFilled`), `PurgeEnds`.

Two threads call `USBRD_SetStopState`: the dispatch thread and, on a change of
the connection speed, the interrupt thread (`USBINT.c:1416-1425`). Both are in
both runs. They share the two acknowledgement events, and the history
`count.overlaps` records how their requests have met: two `"stops"`, two
`"resumes"`, or one of each (`"crossed"`). What TLC found of it:

* Two stops at a time reset the ring as quietly as one, whichever of them takes
  the acknowledgement (`ResetIsQuiet`, `OnlyStaleBreaks`). But one of them can
  clear it while the other is between two of its waits of 0.1 second, and the
  other then polls until some later stop: `StopAcknowledged` excuses this
  (`AckIsTaken`).
* A resume that meets a stop starts what the other thread is about to reset.
* Of two resumes the second can take the first one's acknowledgement. Its own
  RESUME event stays set, a later stop is served before it (its index is lower),
  and the threads start again before the caller of that stop resets the ring.
  `OnlyStopsMet` excuses the last two; with either let in, TLC finds
  `ResetIsQuiet` violated.

`RequestsEnd` has a second excuse, `GaveUp`. When the failure that reaches the
limit (`USBMRD.c:1301`) is processed in the middle of a cancellation, L2 stops
itself and returns to its wait without going on with the cancellation; if that
transfer was the last, nothing wakes it and `USBRD_CancelReadThread` waits for
ever. The live run reaches the limit (its retry limit is 0, so two failures are
enough; in the registry it is 6 to 1000), and without the excuse TLC finds the
hang. The history value `gaveUp` is set at that branch only, so `RequestsEnd`
says that there is no other way for a cancellation to hang.

`NoKickIsLost` is about the kicks. L2's completion event is not safe in the same
way: L2 clears it when it has found the completion queue empty, without the lock
(`USBMRD.c:1202-1206`, `L2ClearEvent`), and a completion in between waits there
until the next transfer ends, as TLC confirms. No property says otherwise; that
stops and cancellations do not depend on it is part of `RequestsEnd`.

The refinement. `ReadChannel` is a queue between the device and the clients:
frames are delivered in the order in which they were sent, once each, and none
is dropped except when the pipeline is reset; packets that are too large are not
frames of the channel. The mapping (`RingFrames`) reads
the abstract queue off the ring: the frames of its buffers from `L2FillIdx` on,
of a finished transfer whether or not L2 has seen it. So a
completion is a step of the channel when the device sends, whatever the order
in which completion routines run afterwards. Once `misuse` has left `"none"`
(a reset or an inline status has overtaken a completion) the channel is not
reliable and promises nothing; the run has scenarios in which this
does not happen although threads are stopped, resumed, cancelled and restarted.

Abstractions. One buffer fills one read IRP (the path without aggregation).
The cancel routine of each read IRP is left out. A purge IRP counts as
completed when L1 has done its part, although the code also waits for the
write and the control threads.

## 5. UsbMultiWrite: the transmit pipeline

Writes are numbered in the order in which they are queued, and a write is its
number of packets, so that partial transfers, retransmission and order are
visible in `device`, the history of the packets the device has received. The
buffers move from `MWriteIdleQueue` to `MWritePendingQueue` (thread, under
`WriteSpinLock`), `MWriteCompletionQueue` (completion routine) and back.
`MWTSentIrpQueue` records what was sent, for retransmission after a flow-off.

A write IRP is where it is (`new`, `active`, `answered` on `WtCompletionQueue`,
`done`), with the state of its cancel routine: `set`, `running` once the I/O
manager has taken it, `none`. `Answer` is `IoSetCancelRoutine(Irp, NULL)` with
the two outcomes of that call.

| actions | code |
|---|---|
| `TopPurge`, `Top`, `SendNothing`, `SendCancelled`, `SendTake`, `SendSubmit` | the sending loop, `USBMWT.c:166-487`. `SendTake` is under the lock; `SendSubmit` is what comes after it, when the buffer is given its `CallingIrp` |
| `Check` | leave when cancelled and idle, or wait, `489-541` |
| `CancelCurrent`, `CancelNext`, `CancelDone` | writes cancelled by clients, `570-634` |
| `CancelThread`, `Purge`, `Stop`, `Resume`, `FlowOn`, `FlowOff`, `FlowOffAbort` | requests, `650-991` |
| `CompleteNothing`, `CompleteFlowOff`, `CompleteWrite` | a finished transfer, `1033-1347`, `1511-1609`, `1753-1859` |
| `WriteCompletionRoutine`, `WriteCompletionSignal` | the completion routine: the queues under the lock, then the event, `29-76` |
| `EnterEnqueue`, `Enqueue`, `CreateThread` | `USBWT_Enqueue`, `USBWT.c:452-665`: the tests for the device and the thread, without the lock, and the insertion, under it |
| `CancelIrp`, `CancelWriteRoutine` | the I/O manager, `USBMWT.c:1611-1751` |
| `EmptyWtCompletionQueue`, `NotifyFlowOff`, `NotifyFlowOn`, `FlowOffAcked`, `FlowOffTimeout` | the interrupt thread, `USBUTL.c:908-1007`, `USBINT.c:1427-1473` |
| `RequestStop`, `RequestResume`, `PurgeAbort`, `PurgeSignal`, `CancelWriteThread...` | the dispatch thread and a closing client |
| `Bus...` | the lower driver: transfers in order, a failed one halts the pipe |

The pipeline is exposed to several faults of its own making (section 11 and the
hazards). So that the properties speak of everything else, the history variable
`faults` records by name which of them a behaviour has met, each where the code
meets it and not where a property would fail:

| fault | where it is recorded |
|---|---|
| `adopted` | the cancel routine completes a write that the thread still holds |
| `idleOff` | a flow-off with nothing pending leaves `mwtState` FLOW_OFF |
| `overwritten` | a request replaces the `mwtState` of another that is being carried out |
| `rewound` | `IoStatus.Information` is assigned a smaller value |
| `singled` | a transfer that had been cancelled alone is kept by a flow-off |
| `cleared` | the pipe is reset for one failed transfer while another one that failed waits to be handled (`USBMWT.c:1160`) |
| `late` | the interrupt thread has given up on a flow-off |
| `unpurged` | a purge finds transfers pending, or is asked for before a new thread clears the event |
| `aborted` | a purge aborts transfers before the thread knows of it |
| `forgotten` | a new thread starts with the flow on while it is off |
| `stale` | a buffer's event is set after its completion was processed |
| `broken` | a completed IRP is used, or a list entry inserted twice |

Properties.

* `OnlyKnownBreaks`: a completed IRP is used only after `adopted`,
  `overwritten` or `stale`.
* `FlowOffHolds`: after the acknowledgement of a flow-off the lower driver
  holds no transfer until the flow is on, though a resume may come in between
  (`FlowOffQuiet`), and no write fails because of it.
* `FlowKeepsOrder`: the packets reach the device in the order of the writes,
  none twice. It is claimed while none of `adopted`, `idleOff`, `rewound`,
  `singled`, `cleared`, `late`, `aborted` has happened. TLC finds
  a reordering or a repetition without `singled` or `late` within the bounds of
  the run, without `rewound` when the flow may change once more, and without
  `adopted`, `idleOff` or `aborted` when the scenarios with a client's
  cancellation, a failure and a purge may change the flow three times.
  `cleared` was met in the proof and is beyond the run's two buffers: of three
  transfers the first two fail, the reset for the first lets the third
  be served, and a flow-off then keeps the second and sends it again behind the
  third.
* `SuccessIsSent`: a write completed with success has reached the device whole.
* `NothingLeftBehind`: once a cancelled thread has gone and its canceller has
  purged the queue, each write that was queued before that purge has been
  answered or is about to be, by its cancel routine. A caller that found the
  thread alive may insert its write after the purge (`USBWT.c:491`, `648`), and
  nobody serves it then: such a write is on the queue with the kick set
  (`WaitsForThread`), so that the next thread takes it. The run reaches this.
* Under fairness: `QueuedIsSent` (no kick is lost), `CallersEnd` (who cancels
  the thread, or purges its writes with none pending, is answered),
  `FlowOffAnswered`.

Abstractions. The pool of records is unbounded (it has 52 entries for at most
50 buffers). `dev.present` becomes FALSE only by too many failures. A
high-speed device's flow-off, which only acknowledges, and idle detection are
left out. A caller that finds another one creating the thread (`USBWT.c:498-501`)
goes on to insert like one that finds the thread (`EnterEnqueue` allows
both); two callers that find no thread before either has raised
`WriteThreadInCreation`, of which the second creates another thread when the first
is done, are not modelled. A write that was cancelled before it is inserted
(624) is one that never is. The wait of the purge IRP is for the write thread's flag only. The
thread's steps between the peek at a completion and its removal are one action;
the cancel routine behaves in the same way anywhere in that interval. A transfer
that ends without success has moved a part of its data, less than all of it, and
only if it was the one the pipe was serving while the device took data
(`MovedBeforeItEnded`); all others have moved nothing. `rewound` (`Rewound`)
compares what the write had, with what this transfer has moved, to what the
assignment leaves. `Init` allows any counts to be spent; the scenarios choose
some.

## 6. QmiTransactions and QmiClients: requests to the modem and client ids

A thread of the miniport asks the modem with a QMICTL message and waits for an
event that the inbound thread sets when the answer has been handled. Answers
are matched with requests by an 8-bit transaction id: `MPQCTL_Request` queues an
item on its adapter's list, `MPQCTL_ProcessInboundQMICTL` takes it off, and so
do the failed send (by the pointer of its IRP) and the caller whose wait has
ended (by the id). Mux siblings, adapters over one physical interface, share
the counter and the control pipe.

State. `transactions` is the union of all lists; the order in which the code
searches them is `Precedes`. `irps` are the requests the lower driver holds,
`devices` the modem's memory of ids and its messages on the way, `inbound` the
answer that an inbound thread is handling. `ClientId` has an adapter's own ids,
`IoDev` the client records (`PMPIOC_DEV_INFO`), with their life: `none`,
`listed` on `MP_DeviceList`, `unlinked`, `freed`. `received` is the set of
events that are set. A thread is a record; its fields `pc`, `kind`, `adapter`,
`context`, `tid` are of the call it is in, `job` and `stage` say what calls it.
`serial` numbers the requests and exists only in the model: it tells apart
messages and items with the same transaction id.

| actions | code |
|---|---|
| `Request`, `RequestRefused`, `RequestFails` | `MPQCTL_Request` and the outcomes of its send, `MPQCTL.c:952-1274` |
| `Signalled`, `Timeout`, `ClearAfterTimeout`, `RemoveOldTransactionItem` | the wait and its end, `668-715`, `2324-2350` |
| `RequestSent`, `RequestLost` | the completion of the send, `1134-1195`; the modem's reaction |
| `DeviceRestarts`, `DeviceRevokes` | the modem on its own (external) |
| `HandleRevoke` | `MPQCTL_HandleRevokeClientIdInd`, `1916-1973`, with the search of `MPIOC_FindIoDevice`, `MPIOC.c:2662-2703` |
| `InboundTake`, `InboundHandle`, `InboundIndication` | `MPQCTL_ProcessInboundQMICTL` and its handlers, `53-180`, `1683-1973`, `2505-2555`, and `IncrementAllQmiSync`, `MPUsb.c:6196-6258` |
| `InitEnter` ... `OpenedService` | `MPMAIN_InitializeQMI`, `MPMain.c:2744-3042`, with `MPQCTL_GetQMICTLVersion`, `MPQCTL_SendQMICTLSync`, `MPMAIN_OpenQMIClients`; `InitMain` is the bounded wait for the main adapter's sync, `InitFormat` the data format and the sibling's wait for it without a timeout, `2845-2885` |
| `StartInit`, `SyncPass`, `SyncCount`, `LinkDown`, `InitWanted` | MPThread's initialisation event and timeout pass, `MPMain.c:3462-4050`; disconnection, `4718-4786` |
| `IdleCheck`, `IdleWalk`, `IdleReset` | `MPIOC_CheckForAquiredDeviceIdleTime`, `MPIOC.c:1743-1797` |
| `ServiceFile`, `ServiceGot` | `IOCTL_QCDEV_GET_SERVICE_FILE`, `MPIOC.c:478-695` |
| `CreateFind`, `CreateReference`, `CreateCount`, `CreateDecide`, `CreateUndo` | `IRP_MJ_CREATE`, `MPIOC.c:112-262`, `1487-1510`: each is what happens up to the next place without a lock |
| `CloseFind`, `CloseClear`, `CloseCount`, `CloseFree` | `IRP_MJ_CLOSE`, `351-445`, and `MPIOC_DeleteFilterDevice`, `1932-2050` |

As in the write pipeline, `faults` is a history of what a behaviour has met, by
name, each recorded where the code meets it. A property names the ones it
depends on, and no others:

| fault | where it is recorded |
|---|---|
| `wrapped` | a transaction id comes round while a message or item has it |
| `crossed` | an answer, or the end of a wait, takes an item of another device |
| `mistaken` | a failed IRP takes the item of an older request whose freed IRP had the same address |
| `overtaken` | a call ends without its answer when the answer is being handled, or has been |
| `unanswered` | a release ends without its answer |
| `dropped` | an answer with a client id finds no item |
| `shared` | two threads wait for the same event |
| `wiped`, `revoked`, `restarted` | the modem forgets ids on a sync request, takes one away, restarts |
| `zeroed` | the driver zeroes ids that the modem still knows |
| `unreleased` | the same for a client's id, whose release was refused or not answered |
| `wrongDevice` | an idle check releases a client's id through an adapter of another device |
| `twice` | the idle checks of two adapters release the same client |
| `raced` | an idle client is opened while its id is being released |
| `orphaned`, `aliased` | a close finds no client, or another file's |
| `unreferenced` | a client is freed between its look-up and the count of the IRP |
| `lateUndo` | a last close meets the undoing of a failed open |
| `locked` | a control device keeps a request for a service file that has ended |
| `overdrawn` | a sync is counted off twice |
| `unformatted` | a main adapter whose version request was refused goes on without setting the data format |
| `broken` | a freed client is used; the model has no next state after that |

Properties.

* `AnswersMatch`: an answer is handled with the item of its own request.
* `ItemsAreCurrent`: an item on a list belongs to a call that still waits, so
  that nothing is left which a later answer, or a later failure, could meet.
* `OneHolder`: no two contexts hold the same id of a service of one device.
  `Doubled` lists what may end that: the modem forgot the id, or a release was
  not answered, met the item of another request, went to another modem, was
  asked for by two idle checks or met the opening of the client.
* `NoIdLeaks`: an id that the modem has given out is held by somebody or on its
  way. What is excused are the leaks the code has: an answer after its
  timeout (`dropped`), zeroing after a failed initialisation or a link that
  went down (`zeroed`), a release that failed (`unreleased`) or went to another
  modem (`wrongDevice`).
* `FilesReachTheirClients`: a file finds the client that it opened, although the
  code looks it up by the id that the client had then; the exceptions are those
  of `OneHolder`, on which it rests.
* `OpensAreCounted`: two programs cannot have one client open, and the
  count of opens is that of the programs, through every interleaving of opens
  and closes that count first and decide after.
  A close that found another file's client, or none, is the exception.
* `FreedIsNotUsed`: a freed client record is used only after one of six named
  races, or when an answer met the item of another request.
* Under fairness: `InitEnds` (both parties leave `MPMAIN_InitializeQMI`, except
  a sibling whose main adapter never sets the data format, `unformatted`: it
  waits for ever, and without the excuse TLC shows it), `ServiceEnds`, `RestartIsNoticed` (after a restart of the modem the ids of
  the adapter and its sibling are known to it again, or zero).

Abstractions. A message is its kind, transaction id, service and client id. One
thread per program, with one file; the programs ask for one service.
Requests of other types (data format, driver ready, instance id) follow the
same pattern and are left out: `InitFormat` sets the data format in one step.

A revoked id. When the indication names an id that the receiving adapter does
not hold itself, the handler passes the whole message to `MPIOC_FindIoDevice`,
which compares the type and the id of its QMUX header, 0 and 0 for a QMICTL
message (`MPQCTL.c:1938`, `MPIOC.c:2685`, `2696`). It finds a record that has no type
yet: the control device's own, once, whose type becomes 1 (`ControlQMIType`),
then a client that waits for its id. The client whose id was revoked keeps
it. A control device of type 1 is found in place of the client for a file that was
opened without an id (`FileClients`); that its own file is not closed any more when
the device is deleted (`MPIOC.c:2009`) is left out. The control records are
taken to come before the clients' in the list, as they are added first. `numTimeouts` in MPThread is declared inside its
loop, so that the branch behind it is never taken and is not in the model.
`Uses` gives each program a control device; which one it opens is its choice.

## 7. NdisTransmit: the send path of the miniport

NDIS gives the miniport net buffer lists and may cancel them by an id, or pause
the adapter. `MPTX_MiniportSendNetBufferListsEx` allocates a context for each
list and puts its net buffers on `TxPendingList`, or on `QMAPFlowControlList`
while the modem holds the flow. MPThread, woken by an event, copies them one by
one into the transfer buffer at the head of `UplinkFreeBufferQueue` and
completes each as soon as it is copied. A buffer that is full, or that the
transmit timer finds, goes to USB and comes back to the tail of the queue. When
all net buffers of a list are marked `Completed`, the list is returned with the
status that was written last to its context, and the context is freed.

The model is of an adapter with QMAP aggregation, quick completion (`MPQuickTx`,
the value that `MPParam.c` leaves) and QoS off, under NDIS 6. A net buffer is
`<<list, index>>`; its size and the capacity of a transfer buffer are numbers of
4-byte words.

| actions | code |
|---|---|
| `SendAllocates`, `SendFails`, `SendQueues` | a list that is sent, `MPTX.c:231-429`; the lock is released between the look at `TxPendingList`, which decides on the wake-up, and the insertion |
| `CancelSend`, `CancelSetsStatus`, `CancelCompletes` | `MPTX_MiniportCancelSend`, `475-542` |
| `FlowControlCall` | the modem's flow control, `MPMain.c:5148-5192` |
| `Pause`, `PausePurgesFlow`, `PauseLooks`, `PauseCleansUp`, `PauseEnds`, `Restart` | `MPMain.c:4396-4471`, `1452-1530`, `5194-5252` |
| `TakeTxEvent`, `TakeTimerEvent`, `SelfCheck` | MPThread, `MPMain.c:3515-3581`, `4001-4051` |
| `Dequeue`, `SendFull`, `StopProcessing` | `MPUSB_TLPProcessPendingTxQueue` with `MPUSB_AggregationAvailable`, `MPUsb.c:4773-4902`, `3639-3760` |
| `CopyPacket`, `SetStatus`, `Complete`, `Flush` | `MPUSB_TLPTxPacketEx`, `5149-5842`, and `MP_TxIRPCompleteEx`, `3160-3295` |
| `TimerExpires`, `UsbCompletes` | the timer's DPC, `3960-3982`; the completion of a transfer, `5855-5980` |

`Canceld` of a new context is any value, because the code does not set it. When
MPThread completes a net buffer whose context has been freed, the model has
both outcomes: the list is returned again, or nothing is. USB's status is not
told apart, for the packets were completed before.

Properties.

* `EachInOnePlace`: a net buffer that NDIS waits for is in one place, be it a
  list, MPThread's hand or the cancelling thread's queue, and not on the list
  that the state of the flow leaves alone. Those that `CancelSend` has dropped
  are excused.
* `FreedIsNotUsed`: a list returns once, and nobody holds one of its net buffers
  then. Lists with a net buffer that is marked `Completed` without the lock
  (`MPUsb.c:5197`, `5215`, `5372`) are excused: there it fails.
* `SuccessIsCopied`: success means that the data is in a transfer, and the
  reverse. It speaks of lists of one net buffer, because the status of a longer
  list is that of whichever was written last.
* `CountFollows`: every step but those of a pause changes `nBusyTx` by the
  change of the number of net buffers that are on their way.
* `ImplementsQueue`: `TransmitQueue` is a queue from which buffers are given up
  or copied in order and then handed to USB in order. Across flow control the
  two lists and MPThread's hand together are that queue.
* Under fairness, `NothingStalls`: a list that was sent returns, unless it was
  dropped or the flow is held, and what was copied is handed to USB. This rests
  on the self-check of MPThread, for the wake-up of a send can be lost.

Left out: NDIS 5, the path with `MPQuickTx` 0 and its `TxBusyList`, MBIM and TLP
framing, QoS flows, the adapter's other flags (a halt or reset makes
`Dequeue` refuse a packet in the same way as a pause), the purge of the
transfer buffers at halt, and a transfer without a stack below, which completes
at once.

## 8. InterruptPipe and ControlPath: responses, power and removal

The modem announces an encapsulated response on the interrupt pipe. The
interrupt thread counts it in `RspAvailableCount` and wakes the dispatch thread,
which fetches it over the control pipe and gives it to the first control read
in `EncapsulatedDataQueue`. Both threads are stopped and resumed by power
requests, which come in two ways. NDIS sets the dispatch thread's STANDBY or
WAKEUP event and returns (`USBIF_SetPowerState`). A selective suspend sends
power IRPs through `DispatchQueue`, and the dispatch thread stops the interrupt
service and waits for its answer. The miniport's halt sends a surprise removal,
a query and a removal, waits for each, and then ends the dispatch thread.

State. `int` and `dsp` are the two threads, with the events that are set, the
place, and the code's local flags (`bStopped`, `bSignalStopState`, `errCnt`).
`dev` holds the flags of the device extension; `transfer` is the interrupt
thread's IRP (`bIntActive` is that there is one). `power` says where the power
IRP in progress stands, `halt` where the removal stands. Of `DispatchQueue` the
kinds of IRPs matter, of the control reads only how many wait and how many are to
be completed. `device` is the modem: attached or not, responses ready, and those
it has yet to announce. `asked` is the power state that was asked for last.

Two histories. `forgotten` counts the responses whose announcement was dropped
by somebody who said so (a stop, a reset, a removal). `overtaken` records, where
the requests cross and not where a property would fail, that of two opposite
requests the later one was served first or lost.

| actions | code |
|---|---|
| `IntTop`, `IntSubmit`, `IntRefused`, `IntWait`, `IntTimeout` | the interrupt thread's loop, `USBINT.c:335-456`, `831-985` |
| `IntCompletion`, `IntAnnounce`, `IntAnnounced` | a finished transfer, `460-592`, `1312-1389`; the count and the event are two steps |
| `IntStop`, `IntResume`, `IntEmptyCtl`, `IntCancel`, `IntExit` | its other events, `594-738`, `994-1024` |
| `StopClear`, `StopSet`, `ResumeSet` | `USBINT_StopInterruptService` and its counterpart, `1128-1212`, in the hands of the dispatch thread (`DspStop...`, `DspResume`) and of the halt (`HaltStop...`) |
| `DspReadControlFirst`, `DspIdle`, `DspHold`, `DspDequeue`, `DspExit`, `DspWait`, `DspStart`, `DspCancel` | the dispatch thread's loop, `USBDSP.c:520-745`; what is held, `QCDSP_ToProcessIrp` and `QCPWR_CheckToWakeup` |
| `DspReadControl`, `DspFetch`, `DspFetchFailed`, `DspFetched`, `DspFetchDone` | fetching responses, `747-891`, `USBENC.c:145-320` |
| `DspStandby`, `DspWakeup`, `DspForget` | `915-1058`, `USBMAIN.c:918-992` |
| `DspSend`, `DspPowerDown`, `DspPowerUp`, `DspSurpriseRemoval`, `DspQueryRemove`, `DspRemove`, `DspRemoved` | the IRPs by kind, `1771-1799`, `2130-2247`, `USBPWR.c:942-1056` |
| `NdisPowersDown`, `NdisPowersUp` | the OID, `MPOID.c:2164`, and `USBIF.c:1094-1205` |
| `Suspend`, `EndSuspend`, `EndSuspendAsleep`, `PowerUpDevice`, `PowerUpResume` | the selective suspend, `USBPWR.c:1131-1184`, `1746-1957`, `2103-2299` |
| `SystemPrepares`, `SystemWorks` | the system's query and return, `USBIF.c:1433-1466` |
| `Halt...` | the halt, `MPMain.c:661-668`, `2111-2281`, `USBDSP.c:216-243`, `1300-1402` |
| `Bus...`, `Device...` | the lower driver and the modem |

Properties.

* `ServiceIsQuiet`: when the dispatch thread goes on to power the device down for
  a suspend, no transfer is in flight or about to be submitted, although the
  event that told it so is shared by all who stop the service and is cleared by
  each of them; and when the interrupt thread ends, nothing is left that only it
  completes.
* `Settled`: however power requests, responses, failures and the system's
  preparations have crossed, the driver comes to rest as it was asked last.
  Awake it listens to the pipe and no announced response is left that is neither
  fetched nor written off; asleep it does not listen. Excused are a pipe that was
  given up after three failures and the crossings in `overtaken`.
* `RemovalEnds`, under fairness: the halt, which waits three times without a
  timeout, ends with both threads gone. `Blocked` names the two situations in
  which the dispatch thread never comes to the removal; TLC reaches both.
* `TypeOK` holds the arithmetic: the count of responses is not negative although
  it is reset and counted down by different threads, and no response is fetched
  that was neither counted nor written off.

Abstractions. WAKEUP and WAKEUP_RESET, which differ in the reset of the pipes,
are one event. The stop and resume of the data threads at the same places is
in the pipelines' models. The idle timer, and with it what makes the driver
suspend, is left out: a suspend may come at any time the code's conditions allow
it. Left out are purges (`PurgeIrp`), cancelled control IRPs, the extended WDM
device, and counts shared by sibling devices. A command is an IRP that waits
while the device sleeps; what its control transfer does is not told apart.

## 9. The runs, their bounds and the fairness they assume

Every counter that could grow is bounded by a constant named `Max...`; the
guards carry the bounds. A scenario (`Left`) is an initial state in which some
of the bounds are spent, so that a run covers the union of the interesting
combinations and not their product. `CHECK_DEADLOCK FALSE` is in every
configuration: with the environment's bounds spent, all threads blocked and no
work left, the system really stops.

| run | bounds | question |
|---|---|---|
| `read_safety` | ring of 2; scenarios: three frames with a bad transfer, two reads and a resume, cancel and restart, three stop and resume requests of the two requesters with a frame, two with a bad transfer besides, an inline status with two requests or two bad transfers, three failures | all safety properties; refinement with completions in any order and under control |
| `read_live` | ring of 2, retry limit 0, two requesters; scenarios: filling, cancelled, cancelled with two failures, stopped with a frame or a bad transfer, purged | liveness |
| `write` | 2 buffers, writes of 2 packets and of 1 packet with a zero-length packet; scenarios: three flow changes, a timeout, failures beyond the limit, failures with flow changes, one or two client cancellations, stop or cancellation or purge with flow changes or with each other | all safety properties |
| `write_live` | 2 buffers, one or two short writes | liveness |
| `write_v_irp` | as `write` | disagreement, section 11 |
| `qmi_clients` | one adapter, two programs with a client record each, transaction ids 1 to 4, client ids 1 to 3, two IRPs; nine scenarios: late answers, idle checks, two revocations, failed or lost requests, refused and lost requests, a restart of the modem, a link that drops and comes back, initialisation with a late answer, initialisation with a party that gives up | all safety properties |
| `qmi_live` | an adapter and its sibling, one program; initialisation alone, after a restart, with a lost answer, with a failed request, with a program's call that meets it | liveness |
| `qmi_v_device` | two adapters of different devices, initialisation only | disagreement, section 11 |
| `tx` | two transfer buffers of at most two packets; four lists, two of them of two net buffers, one of them with a net buffer without data, one large; two cancel ids; scenarios: three lists, cancellation with a pause, a pause with two calls of the modem, cancellation with them, a buffer without data with a cancellation and a pause | all safety properties; refinement |
| `tx_live` | as `tx`, one or two lists, media not connected | liveness |
| `tx_v_cancel` | as `tx` | disagreement, section 11 |
| `control` | one control read, one failed fetch before a reset, two wake-ups before announcements are dropped; eight scenarios: two power requests that cross a response; a removal with a power request and a command, or a response; three failures of the pipe; failures of the fetch with two responses; a device that goes while it is removed, or asleep; a system that prepares to sleep | safety; where the driver comes to rest; a removal ends |

Why the bounds are enough. A ring of two has every relation of the two indices
(equal, next, wrapped), and three frames go round it; that a buffer in flight
is left alone and that the frames keep their order is proved for every size
(section 10). Two transfer buffers give
a head and a tail of each queue, which is what the code tells apart (it cancels
the head and leaves the rest to the completions). Two packets give a partial transfer. Two writes give an order. Three flow changes
give off, on and off again, so that the thread meets a second flow-off while it
holds what the first one kept. One request of a kind meets each other kind in
one of the scenarios; a third stop request finds the ring after a resume. A
retry limit of 1 is passed by two failures. Transaction ids that wrap after 4 are
reached by every scenario with two programs, which send up to 8 requests, and a
request can be pending across a wrap when an answer is late; the theorem
`AnswersMeetRequests` covers the 255 of the code. Two client records are the fewest with
which a file can be taken for another's, two IRPs the fewest with which a freed
one is used again while another is pending. In the send path a list of two net
buffers is the least for which returning it is a decision, a large one the
least that makes a transfer full before its count is reached, and after which
another does not fit by one word; two calls of the modem hold and release the
flow; a restart follows a pause within the bounds, so that a list can be sent
after it. In the control path two power downs, with the power ups between and
after them, meet each other and a response; one meets a removal, a device that
goes, a system that prepares to sleep. Three failures reach the limit of the code, one failed fetch the bound of the run.

Fairness. Weak fairness of each thread as a whole (a thread that can run does
run), of the completion routines, of a cancel routine that has been called, of
the events that follow a lock, and of the caller who waits. Of the lower
driver: it ends a cancelled transfer, and in the write model the device takes
data from a pipe that is not halted, which the code relies on when it waits
for writes without a timeout. Nothing obliges the device to send, a client to
read, write, cancel or close, the interrupt thread to time out, or anybody to
resume what was stopped. In the QMI model: weak fairness of each call (`Owed`:
send, take the event, time out, clean up), of initialisation (`InitStep`), of
MPThread, of the control device's thread (`ServiceGot`), of the lower driver
(`LowerStep`: a request it holds is completed, with one of the outcomes) and of
the inbound threads. A call may end by its timeout, so liveness does not rest on
the modem's answering. Nothing obliges a program to open or close, the modem to
restart or revoke, or an idle check to come. In the send path: weak fairness of
MPThread (its wait ends after half a second at most, which is the self-check), of
the timer, of USB, which completes each transfer, of each call of NDIS that is
under way; nothing obliges NDIS to send, cancel, pause or restart, or the modem
to release the flow. In the control path: weak fairness of the two threads
(`IntNext`, `DspNext`, whose waits end after five seconds and one), of the
work item that powers up, of the halting thread, and of the bus, which ends a
transfer that was cancelled or whose device is gone. Once a removal has begun
the suspend ends too, because stopping the service cancels the idle IRP.
Nothing obliges the device to answer, NDIS or the power manager to ask for
anything, or the system to come back from its preparation.

Each property of a passing run has a mutant in `PROJECT.json`: an operator of
the model replaced by the `fault` definition beside it, for which TLC finds the
property violated under the same configuration.

## 10. What is proved

`UsbMultiReadProofs` proves, for every ring size of at least two, every retry
limit, every set of requesters and all bounds:

* `TypeCorrect`: `Spec => []TypeOK`.
* `ExitIsQuiet`: `Spec => []NoIrpAfterExit`. The L2 thread ends only with both
  queues empty. L2 leaves through two doors, `L2Cancel` and the end of a
  cancellation in `L2Notify`; at both it looks at the pending queue. With `TypeOK` the property is inductive: after its
  end nobody but L2 submits, the completion routine needs a pending transfer,
  and new threads start with a reset.
* `FlightsAreApart`: `Spec => []InFlightIsPending`. This is not inductive:
  between taking a buffer off the completion queue and marking it COMPLETED, L2
  holds a buffer that is on no queue and must still be PENDING, and distinct
  from the others. The invariant `IInv == misuse = "none" => Settled` adds
  that (`TakenIsPending`, `Apart`). It is preserved by a submission because the
  buffer is READY, hence not in flight; by a completion because the buffer only
  changes queues (`RemoveAtSeq`); by L1 because it touches COMPLETED buffers
  only; a reset either finds nothing in flight or sets `misuse`.
* `RingImplementsChannel`: `Spec => ImplementsChannel`. `Lined` says how the
  ring lies between the two indices: from `L2FillIdx` on the buffers in use, up
  to L2's index, then the READY ones (`InUse`, which counts the buffer that L2
  has submitted and not yet passed); the pending queue in ring order
  (`InRingOrder`); and every transfer that the lower driver still has behind
  every frame (`FramesFirst`). The last is why the device's next frame goes to
  the tail of the channel's queue: the lower driver serves the pending queue
  from its head, which is the first unserved buffer of the ring, whatever the
  order in which completion routines, L2 and the queues treat those before it.
  A submission goes behind all that are in use; L1 takes the first buffer,
  with or without a frame (`TurnLined`); recording a completion changes
  nothing that a client could see. `Drained` adds that a ring without threads
  is empty, so that creating them loses nothing. `Keep` of a sequence that grows
  at the tail, or turns by one place, is treated once, in `SubsequenceProofs`.

One lemma per thread says what its steps preserve, one step per action inside
it.

`QmiProofs` proves, for any number of adapters, devices, programs, clients,
services, IRPs, any width of transaction and client ids and any bounds:

* `TypeCorrect`: `Spec => []TypeOK`. `QmiInInitialization[a] \in 0 .. 2` is the
  part that is not about types: `MPMAIN_InitializeQMI` increments, tests and
  decrements, from two threads. `TypeInv` adds that the counter is the number
  of threads between the two (`CountOK`), and that only the program that
  `GetServiceFileIrp` names can be in there besides MPThread (`OneRequest`), so
  that the third caller of the code's comment cannot be counted.
* `AnswersMeetRequests`: `Spec => []AnswersMatch`. `MatchInv` adds where the
  counters stand: since a request was numbered, its device's counter has
  advanced at most once per later request (`RecentOK`), so an item or message
  that has the next id is at least `MaxTid` requests old, which is `wrapped`.
  Hence, short of that, an item and a message of one device with the same id
  are of one request (`SameOK`), and an inbound answer takes its own item or
  one of another device, which is `crossed`. `Quiet`, which lets the model
  count from 1 again, is sound because no item or message is left then.

`QmiClientProofs` proves, for the same constants:

* `CountsFollowOpens`: `Spec => []OpensAreCounted`. `ClientInv` ties each client
  record to the threads that are at it: its count is that of the programs
  that have it open, open it or close it (`OpensOK`), its IRPs are those of
  the programs that have referenced it (`RefsOK`), a fresh record is at no
  program but the one that asked for it (`FreshOK`, `ServiceOK`), an unlinked one is at
  the program that unlinked it (`UnlinkedOK`), a freed one at none of those that
  count (`FreedOK`).
* `ItemsFollowCalls`: `Spec => []ItemsAreCurrent`. `ItemsInv`: serial numbers
  tell requests apart, and as long as no event came after its call or was
  awaited twice, each item, queued or in hand, is that of the call that awaits
  it, an event that is set is that of a call whose item is gone, and no two
  calls await the same event. That a call ends without its item is shown way by
  way: answer, timeout, refused send, failed IRP.
* `FreedClientsStayUnused`: `Spec => []FreedIsNotUsed`, from both. For each
  action that touches a client record, either the record is not freed, because
  its thread counts or awaits, or the step records the race.

`UsbMultiWriteProofs` proves, for any number of transfer buffers, any sequence of
writes, any retry limit and any bounds:

* `CoreIsInvariant`: `Spec => []CoreInv`, on which all the others rest. A write
  can be queued, in the thread's hand between `SendTake` and `SendSubmit`, in a
  record, or answered; a buffer is idle, pending or completed; and the two go
  their ways together. `OrderInv`: the records, the hand and the queue hold the
  writes in the order in which they came, so that a write is in one of these
  places. `BufferInv`: a buffer is on one queue once, and its status says which;
  the one in hand is the last pending. `RecordInv`: each transfer that is out
  has the last record of its buffer, which is not marked as returned, and the
  other way round; a returned record is kept only by a flow-off that still has a
  transfer out, unless a request took its place (`overwritten`). This is what
  makes it sound to put the kept writes back on the queue. `TransferInv`
  and `SizeInv`: a transfer runs to the end of its write, and the device has
  what lies before it, what it has moved, and what `Information` counts.
  `IrpInv`: a write that the thread has is active, unless its cancel routine
  adopted it, and one whose cancel routine is set is the thread's.
  `GoneInv`: a thread that has ended has no buffer pending or completed.
* `WriteTypeIsInvariant`: `TypeOK`, and `SuccessReachesTheDevice`:
  `SuccessIsSent`, from the same invariant.
* `CancelIsInvariant`: `CoreInv /\ CancelInv`. A transfer on
  `MWriteCancellingQueue` is out and its cancel routine has returned
  (`ListInv`); the event of a buffer stands for a completion that is still to be
  handled, and the thread looks at the cancelled transfers first (`WaitInv`).
  It holds until a completion event comes too late (`stale`), and that is where
  the code's protocol of one event per buffer ends.
* `BreaksAreKnown`: `OnlyKnownBreaks`. Each place where the code can use a
  completed IRP or insert an entry twice is shown to be out of reach without
  one of the three causes.
* `NoWriteIsLeftBehind`: `NothingLeftBehind`. `EndInv` adds that when a thread is
  gone, with its canceller, the queue holds only writes that were inserted after
  the canceller's purge, and the kick is set for them.
* `FlowOffIsQuietAndLosesNothing`: `FlowOffHolds`, both its halves. `FlowInv`
  follows a flow-off from the event to its acknowledgement: who asks waits, the
  state FLOW_OFF is that of the request that is being waited for, and once it is
  acknowledged nothing turns the flow on and nothing is with the lower driver
  (`FlowIsQuiet`). `BlockedInv` says that the thread does not wait while an
  event is set, without which a flow-on could be taken late. For the second half
  `AbortInv`: a transfer that ended CANCELLED, though nobody cancelled it
  alone, was aborted by the flow-off whose state is still there, by a purge, or
  by the loss of the device.
* `FlowKeepsTheOrder` (in `UsbMultiWriteOrderProofs`): `FlowKeepsOrder`. A write that waits is sent again from
  `Information` on, so what has to be known is that the device has nothing
  from there on and nothing of a later write (`BeforeInv`): for a write in a
  record or on the queue, and for a transfer from what it has moved on. That the
  transfers are pending in the order of their writes is `PendRises`. The one way
  in which a later transfer could be served before an earlier one's rest is that
  the earlier one has ended short and is still out or kept (`Overtakes`).
  `StuckInv` says that then the flow is being turned off, nothing on the pending
  queue can be served and the thread submits nothing: the pipe is halted for a
  transfer that failed, and those behind an aborted one were aborted with it.
  `SeenInv` and `ZeroInv` are about the zero-length packet, which has no place
  in the order. Every fault that is excused is used in some step; `CoreInv`,
  `FlowInv`, `BlockedInv` and `AbortInv` carry the rest.

`NdisProofs` proves, for any number of lists, net buffers
and transfer buffers, any sizes and any bounds:

* `TypeCorrect`: `TypeOK`. `HandOK` and `CancellerOK` tie what MPThread and the
  canceller hold to where they stand.
* `OnePlaceEach`: `EachInOnePlace`, and `ContextsAreNotReused`: `FreedIsNotUsed`. The
  invariant is `PlaceInv`: what is held is held once (`Apart`), belongs to
  a list that was queued, and is neither completed nor copied but by the thread
  that is about to say so (`HeldInv`); the phase of a list says how often it was
  returned and whether anything of it can still be held (`ListInv`); what
  is held by nobody is of a cancelled list (`LostInv`); only the first
  free transfer buffer has data in it (`HeadOnly`).
* `AdapterImplementsQueue`: the refinement of `TransmitQueue`. The initial state
  maps to the initial state; every action is shown to be a step of the queue or
  a stutter, one lemma per action. The hard ones are a stop of the flow (two
  lists are joined, MPThread's packet first) and a cancellation, which takes
  from the middle: `Keep` and its lemmas say that the rest keeps its order.
* `BusyCountFollows`: `CountFollows`, from `PlaceInv`: each action that moves a
  net buffer adds or removes one element of a finite set.
* `SuccessFollowsTheCopy`: `~QMAPEnabledV4` implies `Spec => []SuccessIsCopied`.
  With QMAP version 4 it is false: a packet that does not fit together with its trailer is dropped
  and reported as sent, a hazard of section 11. `FateInv` says for each place
  what the status of a single packet may be, and that a packet that is about to be
  copied fits (`RoomInv`).

`ControlPathProofs` proves, for any retry limit, number of control reads and
bounds:

* `TypeCorrect`: `TypeOK`. What is not about types: `CountsOK`, that a response
  in the course of being fetched is paid for by an announcement or by somebody
  who reset the count and said so.
* `ServiceEndsQuiet`: `ServiceIsQuiet`. `QueueInv`: of power IRPs there is one,
  at the head of the queue or in progress. `StopInv`: while the dispatch thread
  stops the service for a suspend the device is marked as suspended, so that the
  interrupt thread submits nothing new; an answer that is seen after the
  request was made says that what it was about to submit has come back, though
  the event may have been set for another stop. `EndInv`: the interrupt
  thread is told to end only in a halt that has found no control IRP left, and
  it leaves only with its transfer back.

All proofs assume the named assumptions on the constants and nothing else; the
one theorem with a hypothesis of its own is `SuccessFollowsTheCopy`. In every
module the step lemma of an invariant has a step per action, and the actions
that leave it alone are treated together by the variables they leave unchanged.

## 11. Where the code disagrees with itself

Each is a run that TLC ends with a counterexample, and an entry of "findings"
that quotes the comment it contradicts.

* `write_v_irp`: a write cancelled in the window in which no queue and no
  buffer names it is completed by the cancel routine and then sent
  (`USBMWT.c:1654`).
* `qmi_v_device`: the search for an answer's item means to skip adapters of
  other devices and compares the adapter with itself; the answer of one modem
  completes the request of another (`MPQCTL.c:867`).

* `tx_v_cancel`: a cancelled list of several net buffers loses all but the
  first (`MPTX.c:510`).

More faults that the models show are recorded as hazards, with the properties
that speak of them, and have no run of their own:

* a stop is acknowledged while completions are queued, and the ring is reset
  under them (`USBMRD.c:1100`);
* L1 in a purge and the dispatch thread in `USBRD_SetStopState` wait for each
  other (`USBMRD.c:440`);
* an error limit reached during a cancellation ends the cancelling of transfers
  (`USBMRD.c:1301`);
* a transfer that ends inside `IoCallDriver` is processed at once and again from
  the queue (`USBMRD.c:884`);
* a stop, purge or flow-off that is taken while the write thread cancels
  replaces the cancellation, and the thread never ends (`USBMWT.c:816`);
* an adapter is paused with sends outstanding, because the pause zeroes the
  count (`MPMain.c:1526`; `PausedIsIdle` of `NdisTransmit`, against the comment
  at `MPMain.c:4393`);
* a list stays on `TxPendingList` when the wake-up of its send is lost and the
  media is connected (`MPTX.c:363`);
* with QMAP version 4 a packet that does not fit is dropped and reported as sent
  (`MPUsb.c:3704`);
* a context is used after it was freed when a net buffer is marked `Completed`
  without the lock (`MPUsb.c:5215`);
* net buffer lists are returned to NDIS with `TxLock` held (`MPUsb.c:3139`): a
  protocol that sends from its send-complete handler would wait for itself (no
  model: it depends on the protocol);
* opposite power requests are two events, served in the order of their indices:
  an adapter powered up at the wrong moment stays stopped (`USBDSP.c:915`,
  `USBINT.c:594`);
* a command at the head of the dispatch queue keeps a removal from its turn while
  NDIS holds the device in D3 (`USBDSP.c:581`);
* an announcement counted after the removal, with a late wake-up, makes the
  dispatch thread fetch for ever from a device that is not there
  (`USBDSP.c:527`).

## 12. What is only model-checked, and what is not modelled

Only TLC has checked:

* liveness, which is beyond TLAPS here;
* `ResetIsQuiet` and `OnlyStaleBreaks` of `UsbMultiRead`. They hold within the
  bounds of their run, with two requesters and one cancellation of the threads,
  short of the meetings that section 4 names. Even with one, a stop whose event
  is left set when the threads are cancelled could be acknowledged by the
  threads that are created next, and a later cancellation find the requester
  already answered; the runs do not reach that, and a theorem would have to
  exclude it by a fault of its own;
* `Settled` of `ControlPath`, which speaks of states in which nothing is left to
  do and would need an invariant about every kind of step still to come;
* of the QMI models `OneHolder`, `NoIdLeaks` and `FilesReachTheirClients`.

Not modelled: the components whose status says so in `PROJECT.json`, with the
reason. Of those that are modelled in part:

* the pipelines: the aggregated receive path and `USBRD_InPipeOk`, the
  single-transfer read and write threads, the admission of writes, surprise
  removal, power management beyond the flag `PowerSuspended`, `L2Suspend` and
  `L2Resume` (nothing calls them), the check of `pIrp->Cancel` on enqueue, and
  two creations of a thread that overlap;
* QMI: the temporary WDS_ADMIN id for the data format (`MPMain.c:2518`), the
  internal clients of `MPIP.c` and `MPQOSC.c`, the zeroing of ids at power-down
  (`MPMain.c:2722`), the flags of a halt or removal, and the requests for the
  data format, driver-ready and instance id;
* the send path: see section 7;
* the control path: see section 8. Of the transport's plug and play only the
  removal, of its power management only what reaches the two threads, of the
  miniport's halt only its part in the removal.

Much of the repository has no control to model. `MPQMUX.c` and `MPQMUX.h` build
and read the fields of some hundred messages, `MPIP.c` rewrites headers,
`QDSS_DAT.c` and the `.inf` and installer sources are data and file handling;
the serial driver repeats the transport's threads with the same text in places.
The models cover a small share of all lines, and most of the places where
threads, completions, cancellations and the modem meet.

## 13. The plan

Done: the two pipelines, QMICTL with initialisation and the client files, the
miniport's send path, the control path of the transport. Next, in this order:

1. `IrpQueue`: the life cycle of an IRP on a driver queue (enqueue, dequeue,
   cancel, purge, completion queue), with the abstract specification that each
   IRP is completed exactly once; the control reads' cancel routine
   (`USBENC.c:257`) is its most delicate case.
2. The control path with what it leaves out: the purge that needs the flags of
   the read, write and control threads, the stop of the data threads
   (composition with both pipelines' handshakes), counts shared by sibling
   devices, wait-wake and the idle timer.
3. The miniport's receive path, reset and halt; OID requests; QoS flows, whose
   threads take the place of `Dequeue` in the send path.
4. The serial driver where it differs; filter and service.

Proofs. Of the invariants the runs check, those that no theorem states yet.
For QMI, `NoIdLeaks` and `OneHolder` rest on `AnswersMatch` and on `ClientInv`:
an id that the modem has given is in one record, or in an answer that is on its
way to the call that asked for it; `FilesReachTheirClients` needs the look-up by
id, hence `aliased`, in its invariant besides. For the receive pipeline
`ResetIsQuiet` and `OnlyStaleBreaks`: they need the invariant of the stop handshake
(while the requester is in a stop state polling is off, so that nothing is
submitted, and an L2 that has acknowledged holds nothing), and a fault for the
stop that outlives its threads. For the control path `Settled`, from an
invariant that says of each kind of work who is about to do it.
