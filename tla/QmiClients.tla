------------------------------ MODULE QmiClients ------------------------------
(***************************************************************************)
(* Who asks for client ids and what becomes of them.                       *)
(*                                                                         *)
(* An adapter's MPThread (ndis/MPMain.c) initialises QMI when its event is *)
(* set, restarts it after the modem did, and looks for idle clients.  A    *)
(* program (ndis/MPIOC.c) asks a control device for a service file, which  *)
(* adds a client record, opens it by its name and closes it.               *)
(*                                                                         *)
(* A thread is a record: what it is doing (job), where in it (stage), its  *)
(* call (module QmiTransactions), and                                      *)
(*   tries    requests of this kind that had no answer                     *)
(*   io       the client it works on                                       *)
(*   walk     the place up to which an idle check has looked               *)
(*   file     of a program's open file: FsContext, and the client opened   *)
(***************************************************************************)
EXTENDS QmiTransactions

CONSTANTS
    ClientService, \* the service the programs ask for
    Scenarios      \* beginnings: the adapters that have been initialised, and
                   \* what is left of each bound

VARIABLES
    QmiInInitialization, \* of each adapter
    InitQmiEvent,        \* MPThreadInitQmiEvent of each adapter
    MainAdapterReady,    \* which of its main adapter's events are set for each
                         \* device: "sync" is MainAdapterQmiInitSuccessful,
                         \* "format" is MainAdapterSetDataFormatSuccessful
    ServiceFileOf        \* GetServiceFileIrp of each control device: the
                         \* program whose request it is

cvars == <<QmiInInitialization, InitQmiEvent, MainAdapterReady, ServiceFileOf>>
vars  == <<tvars, cvars>>

(***************************************************************************)
(* More of what may go wrong by the nature of the code:                    *)
(*   zeroed     ids were zeroed that the device still knows                *)
(*   unreleased a client's id was zeroed when its release had not been     *)
(*              answered, or had been refused                              *)
(*   wrongDevice a client's id was released through an adapter of another  *)
(*              device                                                     *)
(*   twice      two idle checks release the id of one client               *)
(*   raced      an idle client was opened when its id was being released   *)
(*   orphaned   a file was closed whose client is not found                *)
(*   aliased    a file was found to be another client's                    *)
(*   unreferenced a client was freed between its lookup and the count      *)
(*   lateUndo   a client's last close met the count of a failing open      *)
(*   locked     a control device keeps a request that has ended            *)
(*   overdrawn  a sync was counted off that an answer had counted off      *)
(*   unformatted a main adapter went on without the data format, because   *)
(*              its version request was refused                            *)
(***************************************************************************)
NoFile == [context |-> 0, client |-> None]
IdleThread(job) ==
    [job |-> job, stage |-> None, pc |-> None, kind |-> None, adapter |-> None,
     context |-> None, service |-> 0, id |-> 0, tid |-> 0, serial |-> 0,
     result |-> None, tries |-> 0, io |-> None, walk |-> 0, file |-> NoFile]
NewIoDev ==
    [life |-> "none", place |-> 0, adapter |-> None, ClientId |-> 0,
     QMIType |-> 0, Acquired |-> FALSE, IdleTime |-> 0, DeviceOpenCount |-> 0,
     IrpCount |-> 0, FsContext |-> 0, MPStopped |-> FALSE]

AdapterOf(t) == IF t \in App THEN Uses[t] ELSE t  \* the adapter a thread works for
At(t, job, stage) ==
    Defined /\ thread[t].job = job /\ thread[t].stage = stage
\* The thread's call has ended.
Back(t, stage) ==
    Defined /\ thread[t].stage = stage /\ thread[t].pc = "returned"
Becomes(t, record) == thread' = [thread EXCEPT ![t] = record]
\* The thread with its call behind it.
Rest(t) == [IdleThread(thread[t].job) EXCEPT
               !.io = thread[t].io, !.walk = thread[t].walk, !.file = thread[t].file]
\* The call itself, with the event of its answer cleared first.
Asks(t, record, stage, kind, a, x, service) ==
    /\ Becomes(t, Call([record EXCEPT !.stage = stage], kind, a, x, service))
    /\ received' = received \ {<<x, kind>>}
-----------------------------------------------------------------------------
(* MPMAIN_InitializeQMI *)

Initializes(t) ==
    (t \in Adapter /\ thread[t].job = "init") \/ (t \in App /\ thread[t].job = "service")
WDS == 1

\* What a thread does when the function returns: a program asks for its id, and
\* one whose initialisation failed leaves the control device with its request.
GoesOn(t, record, success) ==
    IF t \in Adapter THEN Becomes(t, IdleThread("idle")) /\ UNCHANGED received
    ELSE IF success
    THEN Asks(t, record, "got", "GET", Uses[t], record.io, ClientService)
    ELSE Becomes(t, IdleThread("idle")) /\ UNCHANGED received
Lets(t, success) == FaultIf(t \in App /\ ~success, "locked")
InitReturnsUncounted(t, success) ==  \* fault: the count is not taken back
    UNCHANGED QmiInInitialization /\ GoesOn(t, Rest(t), success)
InitReturns(t, success) ==
    /\ QmiInInitialization' = [QmiInInitialization EXCEPT ![AdapterOf(t)] = @ - 1]
    /\ GoesOn(t, Rest(t), success)

\* Initialisation proper, unless there is an id.
Begins(t, record) ==
    LET a == AdapterOf(t)
    IN  Asks(t, record, "version", "VERSION", a, a, 0)

\* The call.  A third one returns at once, a second one waits for the first.
InitEnter(t, record) ==
    LET a == AdapterOf(t)  n == QmiInInitialization[a] + 1
    IN  \/ /\ n > 2 \/ (n = 1 /\ ClientId[a][WDS] # 0)
           /\ GoesOn(t, record, TRUE)
           /\ UNCHANGED QmiInInitialization
        \/ /\ n = 2
           /\ Becomes(t, [record EXCEPT !.stage = "poll"])
           /\ QmiInInitialization' = [QmiInInitialization EXCEPT ![a] = n]
           /\ UNCHANGED received
        \/ /\ n = 1 /\ ClientId[a][WDS] = 0
           /\ Begins(t, record)
           /\ QmiInInitialization' = [QmiInInitialization EXCEPT ![a] = n]

\* The second call returns when there is an id, goes on when it finds itself
\* alone, and gives up after 400 looks.
OtherPartyFinished(a) == QmiInInitialization[a] = 1
InitPolled(t) ==
    LET a == AdapterOf(t)
    IN  /\ Defined /\ Initializes(t) /\ thread[t].stage = "poll"
        /\ \/ /\ ClientId[a][WDS] # 0
              /\ InitReturns(t, TRUE)
              /\ UNCHANGED <<left, faults>>
           \/ /\ ClientId[a][WDS] = 0 /\ OtherPartyFinished(a)
              /\ Begins(t, Rest(t))
              /\ UNCHANGED <<left, faults, QmiInInitialization>>
           \/ /\ ClientId[a][WDS] = 0 /\ ~OtherPartyFinished(a)
              /\ Spend("polls")
              /\ InitReturns(t, FALSE)
              /\ faults' = faults \cup Lets(t, FALSE)
        /\ UNCHANGED <<book, wire, ids, flags, InitQmiEvent, MainAdapterReady,
                       ServiceFileOf>>

\* A version or sync request without answer is sent again; the event is not
\* cleared in between.
Again(t) ==
    /\ thread[t].result = "timeout" /\ thread[t].tries + 1 < QmiInitRetries
    /\ thread' = [thread EXCEPT ![t].pc = "request", ![t].tries = @ + 1]
    /\ UNCHANGED <<received, QmiInInitialization, faults>>
\* Or that was the last one, or it was not sent: initialisation ends.
GivesUp(t) ==
    /\ \/ thread[t].result \in {"failed", "removed"}
       \/ thread[t].result = "timeout" /\ thread[t].tries + 1 >= QmiInitRetries
    /\ InitReturns(t, thread[t].result # "removed")
    /\ faults' = faults \cup Lets(t, thread[t].result # "removed")

\* MPMAIN_OpenQMIClients asks for the id of one service after the other.
OpensService(t, s) ==
    LET a == AdapterOf(t)
    IN  IF ClientId[a][s] = 0 THEN Asks(t, Rest(t), "opened", "GET", a, a, s)
        ELSE /\ Becomes(t, [Rest(t) EXCEPT !.stage = "opened", !.service = s,
                                           !.pc = "returned", !.result = "failed"])
             /\ UNCHANGED received

\* MPQCTL_GetQMICTLVersion has succeeded.
Formats(t) == Becomes(t, [Rest(t) EXCEPT !.stage = "format"]) /\ UNCHANGED received

\* MPQCTL_GetQMICTLVersion: the adapter of the physical interface goes on with
\* a sync request, its siblings wait until one has succeeded.
InitVersion(t) ==
    LET a == AdapterOf(t)
    IN  /\ Back(t, "version")
        /\ \/ Again(t)
           \/ GivesUp(t)
           \/ /\ thread[t].result = "answered"
              /\ IF Physical[a] = a
                 THEN Asks(t, Rest(t), "sync", "SYNC", a, a, 0)
                 ELSE /\ Becomes(t, [Rest(t) EXCEPT !.stage = "main"])
                      /\ UNCHANGED received
              /\ UNCHANGED <<faults, QmiInInitialization>>
        /\ UNCHANGED <<book, wire, ids, flags, left, InitQmiEvent,
                       MainAdapterReady, ServiceFileOf>>

InitSync(t) ==
    /\ Back(t, "sync")
    /\ \/ Again(t) /\ UNCHANGED MainAdapterReady
       \/ GivesUp(t) /\ UNCHANGED MainAdapterReady
       \/ /\ thread[t].result = "answered"
          /\ MainAdapterReady' = [MainAdapterReady EXCEPT ![AdapterOf(t)] = @ \cup {"sync"}]
          /\ Formats(t)
          /\ UNCHANGED <<faults, QmiInInitialization>>
    /\ UNCHANGED <<book, wire, ids, flags, left, InitQmiEvent, ServiceFileOf>>

\* The sibling's first wait, for the sync, has a timeout.
InitMain(t) ==
    LET ready == "sync" \in MainAdapterReady[Physical[AdapterOf(t)]]
    IN  /\ Defined /\ Initializes(t) /\ thread[t].stage = "main"
        /\ \/ ready /\ Formats(t) /\ UNCHANGED QmiInInitialization
           \/ ~ready /\ InitReturns(t, TRUE)
        /\ UNCHANGED <<book, wire, ids, flags, left, faults, InitQmiEvent,
                       MainAdapterReady, ServiceFileOf>>

\* The data format, if the version answer named WDS_ADMIN: the main adapter sets
\* it, in exchanges that all end, and says so; a sibling waits for that, without
\* a timeout.
InitFormat(t) ==
    LET a == AdapterOf(t)  d == Physical[a]  present == a \in IsWdsAdminPresent
    IN  /\ Defined /\ Initializes(t) /\ thread[t].stage = "format"
        /\ present /\ a # d => "format" \in MainAdapterReady[d]
        /\ MainAdapterReady' = [MainAdapterReady EXCEPT
              ![d] = IF present /\ a = d THEN @ \cup {"format"} ELSE @]
        /\ faults' = faults \cup
              FaultIf(a = d /\ ~present /\ d \in WdsAdmin, "unformatted")
        /\ OpensService(t, 1)
        /\ UNCHANGED <<book, wire, ids, flags, left, QmiInInitialization,
                       InitQmiEvent, ServiceFileOf>>

Knows(d, service, id) == id # 0 /\ <<service, id>> \in devices[d].ids
AllZero == [s \in DOMAIN Services |-> 0]

\* Any answer counts as success.  After a failure DTR is toggled, upon which
\* the device may forget all its ids, and all the adapter's ids are zeroed.
OpenedService(t) ==
    LET a == AdapterOf(t)  d == Physical[a]  s == thread[t].service
    IN  /\ Back(t, "opened")
        /\ \/ /\ thread[t].result = "answered" /\ s < Len(Services)
              /\ OpensService(t, s + 1)
              /\ UNCHANGED <<QmiInInitialization, devices, ClientId, faults>>
           \/ /\ thread[t].result = "answered" /\ s = Len(Services)
              /\ InitReturns(t, TRUE)
              /\ UNCHANGED <<devices, ClientId, faults>>
           \/ /\ thread[t].result # "answered"
              /\ \E forgets \in BOOLEAN :
                    /\ devices' = IF forgets THEN [devices EXCEPT ![d].ids = {}]
                                  ELSE devices
                    /\ faults' = faults \cup
                          (IF forgets THEN FaultIf(devices[d].ids # {}, "wiped")
                           ELSE {"zeroed"})
              /\ ClientId' = [ClientId EXCEPT ![a] = AllZero]
              /\ InitReturns(t, TRUE)
        /\ UNCHANGED <<book, irps, inbound, IoDev, flags, left, InitQmiEvent,
                       MainAdapterReady, ServiceFileOf>>

InitStep(t) ==
    \/ InitPolled(t) \/ InitVersion(t) \/ InitSync(t) \/ InitMain(t)
    \/ InitFormat(t) \/ OpenedService(t)
-----------------------------------------------------------------------------
(* MPThread *)

\* MPThreadInitQmiEvent
StartInit(a) ==
    /\ At(a, "idle", None) /\ InitQmiEvent[a]
    /\ InitQmiEvent' = [InitQmiEvent EXCEPT ![a] = FALSE]
    /\ InitEnter(a, IdleThread("init"))
    /\ UNCHANGED <<book, wire, ids, flags, left, faults, MainAdapterReady,
                   ServiceFileOf>>

\* MPMAIN_DisconnectNotification: the adapter's ids are zeroed and its clients
\* are told to stop (MPIOC_InvalidateClients).
Disconnect(a) ==
    /\ ClientId' = [ClientId EXCEPT ![a] = AllZero]
    /\ IoDev' = [c \in Client |->
          IF IoDev[c].life = "listed" /\ IoDev[c].adapter = a
          THEN [IoDev[c] EXCEPT !.MPStopped = TRUE] ELSE IoDev[c]]
    /\ faults' = faults \cup
          FaultIf(\E s \in DOMAIN Services :
                      Knows(Physical[a], s, ClientId[a][s]), "zeroed")

\* The wait times out.  numTimeouts is declared within the loop and never
\* exceeds 1, so an adapter without an id is not initialised again here; one
\* that needs a sync is disconnected.
SyncPass(a) ==
    /\ At(a, "idle", None) /\ ~InitQmiEvent[a] /\ QmiSyncNeeded[a] > 0
    /\ Disconnect(a)
    /\ Becomes(a, [IdleThread("sync") EXCEPT !.stage = "counted"])
    /\ UNCHANGED <<book, wire, flags, received, left, cvars>>
\* An answer to a sync request may have counted it off meanwhile.
SyncCount(a) ==
    /\ At(a, "sync", "counted")
    /\ InitQmiEvent' = [InitQmiEvent EXCEPT ![a] = TRUE]
    /\ QmiSyncNeeded' = [QmiSyncNeeded EXCEPT ![a] = @ - 1]
    /\ faults' = faults \cup FaultIf(QmiSyncNeeded[a] < 1, "overdrawn")
    /\ Becomes(a, IdleThread("idle"))
    /\ UNCHANGED <<book, wire, ids, IsQMIOutOfService, IsWdsAdminPresent,
                   ControlQMIType, received, left, QmiInInitialization,
                   MainAdapterReady, ServiceFileOf>>

\* USBIF_NotifyLinkDown, in the interrupt thread of the device.
LinkDown(d) ==
    /\ Defined /\ Spend("drops")
    /\ IsQMIOutOfService' = [IsQMIOutOfService EXCEPT ![d] = TRUE]
    /\ Disconnect(d)
    /\ UNCHANGED <<book, wire, QmiSyncNeeded, IsWdsAdminPresent, ControlQMIType,
                   thread, received, cvars>>

\* A packet service indication, or a return to D0, asks for initialisation.
InitWanted(a) ==
    /\ Defined /\ Spend("wanted")
    /\ InitQmiEvent' = [InitQmiEvent EXCEPT ![a] = TRUE]
    /\ UNCHANGED <<book, wire, ids, flags, thread, received, faults,
                   QmiInInitialization, MainAdapterReady, ServiceFileOf>>
-----------------------------------------------------------------------------
(* MPIOC_CheckForAquiredDeviceIdleTime: clients of all adapters that have   *)
(* not been opened for two checks lose their ids.                           *)

UnopenedAssumed(c) == IoDev[c].Acquired  \* fault: without the count
Unopened(c) == IoDev[c].DeviceOpenCount = 0 /\ IoDev[c].Acquired
Expired(c)  == Unopened(c) /\ IoDev[c].IdleTime # 0

IdleCheck(a) ==
    /\ At(a, "idle", None) /\ Spend("checks")
    /\ Becomes(a, [IdleThread("check") EXCEPT !.stage = "walk"])
    /\ UNCHANGED <<book, wire, ids, flags, received, faults, cvars>>

BeingReleased(c) == \E a \in Adapter :
    thread[a].job = "check" /\ thread[a].stage = "release" /\ thread[a].io = c

\* The walk through MP_DeviceList, up to the next client to be released.
IdleWalk(a) ==
    LET ahead == {c \in Client : /\ IoDev[c].life = "listed"
                                 /\ IoDev[c].place > thread[a].walk}
        expired == {c \in ahead : Expired(c)}
        next == FirstClient(expired)
        passed == IF expired = {} THEN ahead
                  ELSE {c \in ahead : IoDev[c].place < IoDev[next].place}
        record == [IdleThread("check") EXCEPT
                      !.stage = "release", !.io = next, !.walk = IoDev[next].place]
    IN  /\ At(a, "check", "walk")
        /\ IoDev' = [c \in Client |->
              IF c \in passed /\ Unopened(c) THEN [IoDev[c] EXCEPT !.IdleTime = 1]
              ELSE IoDev[c]]
        /\ IF expired = {}
           THEN Becomes(a, IdleThread("idle")) /\ UNCHANGED <<received, faults>>
           ELSE IF IoDev[next].ClientId = 0
           THEN /\ Becomes(a, [record EXCEPT !.pc = "returned", !.result = "failed"])
                /\ UNCHANGED <<received, faults>>
           ELSE /\ Becomes(a, Call(record, "RELEASE", a, next, IoDev[next].QMIType))
                /\ received' = received \ {<<next, "RELEASE">>}
                /\ faults' = faults \cup FaultIf(
                      Physical[a] # Physical[IoDev[next].adapter], "wrongDevice")
                    \cup FaultIf(BeingReleased(next), "twice")
        /\ UNCHANGED <<book, wire, ClientId, flags, left, cvars>>

\* The device still knows the id that a client record is about to lose.
StillKnown(c) ==
    Knows(Physical[IoDev[c].adapter], IoDev[c].QMIType, IoDev[c].ClientId)
IdleReset(a) ==
    LET c == thread[a].io
    IN  /\ thread[a].job = "check" /\ Back(a, "release")
        /\ faults' = faults \cup FaultIf(StillKnown(c), "unreleased")
              \cup FaultIf(IoDev[c].life = "freed", "broken")
        /\ IoDev' = [IoDev EXCEPT ![c].IdleTime = 0, ![c].Acquired = FALSE,
                                  ![c].QMIType = 0, ![c].ClientId = 0]
        /\ Becomes(a, [Rest(a) EXCEPT !.stage = "walk"])
        /\ UNCHANGED <<book, wire, ClientId, flags, received, left, cvars>>

MPThreadStep(a) ==
    \/ StartInit(a) \/ SyncPass(a) \/ SyncCount(a) \/ IdleCheck(a) \/ IdleWalk(a)
    \/ IdleReset(a)
-----------------------------------------------------------------------------
(* IOCTL_QCDEV_GET_SERVICE_FILE *)

Places == Cardinality({c \in Client : IoDev[c].life # "none"})

\* One such request at a time: others are turned away after some retries.  The
\* new record is listed before it has an id.
ServiceFile(p) ==
    LET a == Uses[p]
    IN  /\ At(p, "idle", None) /\ ServiceFileOf[a] = None
        /\ Spend("services")
        /\ ServiceFileOf' = [ServiceFileOf EXCEPT ![a] = p]
        /\ \E c \in Client :
            /\ IoDev[c].life = "none"
            /\ IoDev' = [IoDev EXCEPT ![c] = [NewIoDev EXCEPT
                            !.life = "listed", !.place = Places + 1, !.adapter = a]]
            /\ InitEnter(p, [IdleThread("service") EXCEPT !.io = c])
        /\ UNCHANGED <<book, wire, ClientId, flags, faults, InitQmiEvent,
                       MainAdapterReady>>

ServiceGotKept(p) ==  \* fault: a request without an id is kept
    LET c == thread[p].io  id == IoDev[thread[p].io].ClientId
    IN  /\ Back(p, "got")
        /\ ServiceFileOf' = [ServiceFileOf EXCEPT ![Uses[p]] = IF id = 0 THEN p ELSE None]
        /\ IoDev' = [IoDev EXCEPT ![c].Acquired = id # 0]
        /\ Becomes(p, IdleThread(IF id # 0 THEN "named" ELSE "idle"))
        /\ UNCHANGED <<book, wire, ClientId, flags, received, left, faults,
                       QmiInInitialization, InitQmiEvent, MainAdapterReady>>

\* Whatever the call returned: with an id the file has a name.
ServiceGot(p) ==
    LET c == thread[p].io
    IN  /\ Back(p, "got")
        /\ ServiceFileOf' = [ServiceFileOf EXCEPT ![Uses[p]] = None]
        /\ IoDev' = [IoDev EXCEPT ![c].Acquired = IoDev[c].ClientId # 0]
        /\ Becomes(p, IdleThread(IF IoDev[c].ClientId # 0 THEN "named" ELSE "idle"))
        /\ UNCHANGED <<book, wire, ClientId, flags, received, left, faults,
                       QmiInInitialization, InitQmiEvent, MainAdapterReady>>
-----------------------------------------------------------------------------
(* IRP_MJ_CREATE *)

\* MPIOC_FindIoDevice: the first client of the control device that has an id
\* and no file yet.
OpenTo(a) == {c \in Client : /\ IoDev[c].life = "listed" /\ IoDev[c].adapter = a
                             /\ IoDev[c].QMIType = ClientService
                             /\ IoDev[c].FsContext = 0 /\ IoDev[c].ClientId # 0}
CreateFind(p) ==
    /\ At(p, "named", None)
    /\ Becomes(p, IF OpenTo(Uses[p]) = {} THEN IdleThread("idle")
                  ELSE [IdleThread("create") EXCEPT
                           !.stage = "found", !.io = FirstClient(OpenTo(Uses[p]))])
    /\ UNCHANGED <<book, wire, ids, flags, received, left, faults, cvars>>

FreedIf(c, fault) == IF IoDev[c].life = "freed" THEN {fault, "broken"} ELSE {}
Touched(c) == FaultIf(IoDev[c].life = "freed", "broken")

\* The lookup holds no reference: the record may have been freed.
CreateReference(p) ==
    LET c == thread[p].io
    IN  /\ At(p, "create", "found")
        /\ IF IoDev[c].MPStopped
           THEN Becomes(p, IdleThread("idle")) /\ UNCHANGED IoDev
           ELSE /\ Becomes(p, [thread[p] EXCEPT !.stage = "referenced"])
                /\ IoDev' = [IoDev EXCEPT ![c].IrpCount = @ + 1]
        /\ faults' = faults \cup FreedIf(c, "unreferenced")
        /\ UNCHANGED <<book, wire, ClientId, flags, received, left, cvars>>

CreateCount(p) ==
    /\ At(p, "create", "referenced")
    /\ IoDev' = [IoDev EXCEPT ![thread[p].io].DeviceOpenCount = @ + 1]
    /\ Becomes(p, [thread[p] EXCEPT !.stage = "counted"])
    /\ faults' = faults \cup Touched(thread[p].io)
    /\ UNCHANGED <<book, wire, ClientId, flags, received, left, cvars>>

MayOpenAlways(c) == IoDev[c].Acquired  \* fault: without the test of the count
MayOpen(c) == IoDev[c].Acquired /\ IoDev[c].DeviceOpenCount = 1

\* A client that is open, or being opened, is busy.
CreateDecide(p) ==
    LET c == thread[p].io  id == IoDev[c].ClientId
    IN  /\ At(p, "create", "counted")
        /\ IF MayOpen(c)
           THEN /\ IoDev' = [IoDev EXCEPT
                      ![c].IdleTime = 0, ![c].IrpCount = @ - 1,
                      ![c].FsContext = IF id # 0 THEN id ELSE @]
                /\ Becomes(p, [IdleThread("open") EXCEPT
                                  !.file = [context |-> id, client |-> c]])
                /\ faults' = faults \cup Touched(c) \cup FaultIf(\E a \in Adapter :
                      thread[a].job = "check" /\ thread[a].io = c, "raced")
           ELSE /\ IoDev' = [IoDev EXCEPT ![c].IrpCount = @ - 1]
                /\ Becomes(p, [thread[p] EXCEPT !.stage = "refused"])
                /\ faults' = faults \cup Touched(c)
        /\ UNCHANGED <<book, wire, ClientId, flags, received, left, cvars>>

\* The count of a failed open is taken back when its IRP no longer counts.
CreateUndo(p) ==
    LET c == thread[p].io
    IN  /\ At(p, "create", "refused")
        /\ IoDev' = [IoDev EXCEPT ![c].DeviceOpenCount = @ - 1]
        /\ faults' = faults \cup FreedIf(c, "lateUndo")
        /\ Becomes(p, IdleThread("idle"))
        /\ UNCHANGED <<book, wire, ClientId, flags, received, left, cvars>>
-----------------------------------------------------------------------------
(* IRP_MJ_CLOSE *)

\* MPIOC_FindIoDevice for a file: by the id that its client had at the open.  The
\* record of the control device, which has no id, is found first for a client
\* that had none.
FileClients(p) ==
    {c \in Client :
        /\ IoDev[c].life = "listed" /\ IoDev[c].adapter = Uses[p]
        /\ IoDev[c].QMIType = ClientService
        /\ IoDev[c].ClientId = thread[p].file.context
        /\ thread[p].file.context = 0 => ControlQMIType[Uses[p]] # ClientService}

\* A file that finds no client is gone and its client stays.
CloseFind(p) ==
    LET found == FileClients(p)
        c == FirstClient(found)
        record == [IdleThread("close") EXCEPT !.stage = "released", !.io = c]
    IN  /\ At(p, "open", None)
        /\ IF found = {}
           THEN /\ Becomes(p, IdleThread("idle"))
                /\ faults' = faults \cup {"orphaned"}
                /\ UNCHANGED <<received, IoDev>>
           ELSE /\ IoDev' = [IoDev EXCEPT ![c].IrpCount = @ + 1]
                /\ faults' = faults \cup
                      FaultIf(c # thread[p].file.client, "aliased")
                /\ IF IoDev[c].ClientId = 0
                   THEN /\ Becomes(p, [record EXCEPT !.pc = "returned",
                                                     !.result = "failed"])
                        /\ UNCHANGED received
                   ELSE /\ Becomes(p, Call(record, "RELEASE", IoDev[c].adapter, c,
                                           IoDev[c].QMIType))
                        /\ received' = received \ {<<c, "RELEASE">>}
        /\ UNCHANGED <<book, wire, ClientId, flags, left, cvars>>

\* The outcome of the release does not matter.
CloseClear(p) ==
    LET c == thread[p].io
    IN  /\ Back(p, "released")
        /\ IoDev' = [IoDev EXCEPT ![c].Acquired = FALSE, ![c].ClientId = 0]
        /\ faults' = faults \cup FaultIf(IoDev[c].life = "freed", "broken")
                            \cup FaultIf(StillKnown(c), "unreleased")
        /\ Becomes(p, [Rest(p) EXCEPT !.stage = "cleared"])
        /\ UNCHANGED <<book, wire, ClientId, flags, received, left, cvars>>

Lower(n) == IF n > 0 THEN n - 1 ELSE n
\* The last close takes the record off the list (MPIOC_DeleteFilterDevice).
CloseCount(p) ==
    LET c == thread[p].io
        last == Lower(IoDev[c].DeviceOpenCount) = 0 /\ ~IoDev[c].MPStopped
    IN  /\ At(p, "close", "cleared")
        /\ IoDev' = [IoDev EXCEPT
              ![c].DeviceOpenCount = Lower(@), ![c].IrpCount = @ - 1,
              ![c].life = IF last /\ @ = "listed" THEN "unlinked" ELSE @]
        /\ Becomes(p, IF last THEN [Rest(p) EXCEPT !.stage = "unlinked"]
                      ELSE IdleThread("idle"))
        /\ UNCHANGED <<book, wire, ClientId, flags, received, left, faults, cvars>>

NotInUseAssumed(c) == TRUE  \* fault: without the wait for the others
\* And frees it when no other IRP counts.
NotInUse(c) == IoDev[c].IrpCount = 0
CloseFree(p) ==
    LET c == thread[p].io
    IN  /\ At(p, "close", "unlinked") /\ NotInUse(c)
        /\ IoDev' = [IoDev EXCEPT ![c].life = "freed"]
        /\ Becomes(p, IdleThread("idle"))
        /\ UNCHANGED <<book, wire, ClientId, flags, received, left, faults, cvars>>

ProgramStep(p) ==
    \/ ServiceFile(p) \/ ServiceGot(p)
    \/ CreateFind(p) \/ CreateReference(p) \/ CreateCount(p) \/ CreateDecide(p)
    \/ CreateUndo(p)
    \/ CloseFind(p) \/ CloseClear(p) \/ CloseCount(p) \/ CloseFree(p)
-----------------------------------------------------------------------------
BoundNames == {"failures", "timeouts", "errors", "losses", "restarts", "revokes",
               "polls", "drops", "wanted", "checks", "services"}
ASSUME ScenariosAssumption ==
    /\ Scenarios \subseteq [initialised : SUBSET Adapter, bounds : [BoundNames -> Int]]
    /\ \A s \in Scenarios : \A a \in s.initialised : Physical[a] \in s.initialised
    /\ ClientService \in DOMAIN Services
    /\ \A a \in Adapter : IsFiniteSet(Group(a)) /\ Cardinality(Group(a)) <= MaxId

\* An adapter that has been initialised has the next free id of each service.
FirstIds(initialised) ==
    [a \in Adapter |-> [s \in DOMAIN Services |->
        IF a \in initialised
        THEN Cardinality({b \in initialised \cap Group(a) : Position(b) <= Position(a)})
        ELSE 0]]

Begin(initialised, bounds) ==
    /\ QMICTLTransactionId = [a \in Adapter |-> 0]
    /\ transactions = {} /\ irps = {} /\ received = {} /\ faults = {}
    /\ left = bounds
    /\ ClientId = FirstIds(initialised)
    /\ devices = [d \in Device |->
          [ids |-> {<<s, FirstIds(initialised)[a][s]>> :
                       s \in DOMAIN Services, a \in initialised \cap Group(d)},
           outbox |-> <<>>]]
    /\ inbound = [d \in Device |-> {}]
    /\ IoDev = [c \in Client |-> NewIoDev]
    /\ thread = [t \in Thread |-> IdleThread("idle")]
    /\ QmiSyncNeeded = [a \in Adapter |-> 0]
    /\ IsQMIOutOfService = [a \in Adapter |-> FALSE]
    /\ IsWdsAdminPresent = {a \in initialised : Physical[a] \in WdsAdmin}
    /\ ControlQMIType = [a \in Adapter |-> 0]
    /\ serial = 0
    /\ QmiInInitialization = [a \in Adapter |-> 0]
    /\ InitQmiEvent = [a \in Adapter |-> a \notin initialised]
    /\ MainAdapterReady = [d \in Device |->
          IF d \notin initialised THEN {}
          ELSE {"sync"} \cup (IF d \in WdsAdmin THEN {"format"} ELSE {})]
    /\ ServiceFileOf = [a \in Adapter |-> None]
Init == \E s \in Scenarios : Begin(s.initialised, s.bounds)

Next ==
    \/ TransactionStep /\ UNCHANGED cvars
    \/ \E t \in Thread : InitStep(t)
    \/ \E a \in Adapter : MPThreadStep(a) \/ InitWanted(a)
    \/ \E d \in Device : LinkDown(d)
    \/ \E p \in App : ProgramStep(p)

Spec == Init /\ [][Next]_vars
-----------------------------------------------------------------------------
(* Types *)

MessageType ==
    [kind : Kinds \cup {"RESTART", "REVOKE"}, tid : 0 .. MaxTid,
     service : 0 .. Len(Services), id : 0 .. MaxId, serial : Nat, ok : BOOLEAN]
ItemType ==
    [tid : 1 .. MaxTid, adapter : Adapter, context : Context, irp : Irp, serial : Nat]
Jobs == {"idle", "init", "sync", "check", "service", "named", "create", "open",
         "close"}
Stages == {None, "poll", "version", "sync", "main", "format", "opened", "counted", "walk",
           "release", "got", "found", "referenced", "refused", "released",
           "cleared", "unlinked"}
CallStates == {None, "request", "waiting", "timedOut", "expired", "returned"}
Results == {None, "answered", "failed", "removed", "timeout"}
ThreadType ==
    [job : Jobs, stage : Stages, pc : CallStates, result : Results,
     kind : Kinds \cup {None}, adapter : Adapter \cup {None},
     context : Context \cup {None}, service : 0 .. Len(Services),
     id : 0 .. MaxId, tid : 0 .. MaxTid, serial : Nat,
     tries : 0 .. QmiInitRetries, io : Client \cup {None}, walk : Nat,
     file : [context : 0 .. MaxId, client : Client \cup {None}]]
IoDevType ==
    [life : {"none", "listed", "unlinked", "freed"}, place : Nat,
     adapter : Adapter \cup {None}, ClientId : 0 .. MaxId,
     QMIType : 0 .. Len(Services), Acquired : BOOLEAN, IdleTime : 0 .. 1,
     DeviceOpenCount : Int, IrpCount : Int, FsContext : 0 .. MaxId,
     MPStopped : BOOLEAN]

BookTypeOK ==
    /\ QMICTLTransactionId \in [Adapter -> 0 .. MaxTid]
    /\ transactions \subseteq ItemType
    /\ serial \in Nat
WireTypeOK ==
    /\ irps \subseteq [irp : Irp, device : Device, message : MessageType]
    /\ devices \in [Device -> [ids : SUBSET ((DOMAIN Services) \X (1 .. MaxId)),
                               outbox : Seq(MessageType)]]
    /\ inbound \in [Device -> SUBSET [message : MessageType, item : ItemType]]
IdsTypeOK ==
    /\ ClientId \in [Adapter -> [DOMAIN Services -> 0 .. MaxId]]
    /\ IoDev \in [Client -> IoDevType]
FlagsTypeOK ==
    /\ QmiSyncNeeded \in [Adapter -> Int]
    /\ IsQMIOutOfService \in [Adapter -> BOOLEAN]
    /\ IsWdsAdminPresent \subseteq Adapter
    /\ ControlQMIType \in [Adapter -> {0, MP_DEV_TYPE_CLIENT}]
ThreadTypeOK == thread \in [Thread -> ThreadType]
ControlTypeOK ==
    /\ QmiInInitialization \in [Adapter -> 0 .. 2]
    /\ InitQmiEvent \in [Adapter -> BOOLEAN]
    /\ MainAdapterReady \in [Device -> SUBSET {"sync", "format"}]
    /\ ServiceFileOf \in [Adapter -> App \cup {None}]
\* Every variable has its type; no more than two initialisations of an adapter
\* are under way (MPMAIN_InitializeQMI).
TypeOK ==
    /\ BookTypeOK /\ WireTypeOK /\ IdsTypeOK /\ FlagsTypeOK /\ ThreadTypeOK
    /\ ControlTypeOK
    /\ received \subseteq Context \X Kinds
    /\ left \in [BoundNames -> Int]
-----------------------------------------------------------------------------
(* Safety *)

Excused(some) == faults \cap some # {}
\* Something was matched with the item of another request.
MixedUp == {"wrapped", "crossed"}
\* The device has forgotten ids that the driver still uses.
Forgotten == {"restarted", "wiped", "revoked"}
\* The device may give an id to another context when one still has it: it forgot
\* it, its answer to a release was lost, or the release was not the holder's.
Doubled == MixedUp \cup Forgotten
    \cup {"unanswered", "mistaken", "twice", "wrongDevice", "raced"}

\* An answer is handled with the item of the request it answers, unless its
\* transaction id came round again, or it met an item of another device
\* (MPQCTL_ProcessInboundQMICTL).
AnswersMatch ==
    \A d \in Device : \A h \in inbound[d] :
        h.item.serial = h.message.serial \/ Excused(MixedUp)

\* An item on a list belongs to a call that still waits: whatever ends a call,
\* nothing of it is left that a later answer could meet.  Stale events are the
\* exception: one that is set after its call ended, or that two threads await.
ItemsAreCurrent ==
    \A i \in transactions :
        \/ \E t \in Thread : InCall(t) /\ thread[t].serial = i.serial
        \/ Excused(MixedUp \cup {"mistaken", "overtaken", "shared"})

Holders(d, service, id) ==
    {a \in Adapter : Physical[a] = d /\ ClientId[a][service] = id}
    \cup {c \in Client : /\ IoDev[c].life = "listed"
                         /\ Physical[IoDev[c].adapter] = d
                         /\ IoDev[c].QMIType = service /\ IoDev[c].ClientId = id}
Pairs == (DOMAIN Services) \X (1 .. MaxId)

\* Two contexts never hold the same id of a service of one device, unless the
\* device has forgotten it, its release was not answered or went to another
\* device, or an idle client was released twice, or when it was opened.
OneHolder ==
    \A d \in Device, p \in Pairs :
        \/ Cardinality(Holders(d, p[1], p[2])) <= 1
        \/ Excused(Doubled)

\* An id on its way: given out and not yet stored, or being released.
Carries(m, p) == m.kind \in {"GET", "RELEASE"} /\ m.service = p[1] /\ m.id = p[2]
OnTheWay(d, p) ==
    \/ \E r \in irps : r.device = d /\ Carries(r.message, p)
    \/ \E i \in 1 .. Len(devices[d].outbox) : Carries(devices[d].outbox[i], p)
    \/ \E h \in inbound[d] : Carries(h.message, p)

\* No id leaks: one that the device has given out is held or on its way, unless
\* its answer came when the call had ended, the driver zeroed it, forgot it when
\* its release had failed, or released it to another device.
NoIdLeaks ==
    \A d \in Device : \A p \in devices[d].ids :
        \/ Holders(d, p[1], p[2]) # {} \/ OnTheWay(d, p)
        \/ Excused(MixedUp \cup {"dropped", "zeroed", "unreleased", "wrongDevice"})

\* An operation on an open file reaches the client that the file opened, unless
\* the device may have given its id to another one, or an idle check released it
\* (MPIOC_FindIoDevice).
FilesReachTheirClients ==
    \A p \in App : thread[p].job = "open" =>
        \/ FileClients(p) # {} /\ FirstClient(FileClients(p)) = thread[p].file.client
        \/ Excused(Doubled)

\* A client has one file at a time, unless a close found another file's client.
OneFile ==
    \A p, q \in App :
        (/\ thread[p].job = "open" /\ thread[q].job = "open"
         /\ thread[p].file.client = thread[q].file.client)
        => p = q \/ Excused({"aliased"})

\* A client that was freed is used only by an answer whose call timed out while
\* it was handled or took the event of another one, by a look-up or a failing open
\* that a close overtook, by an idle check that an open overtook, or after a close
\* that found another file's client.
FreedIsNotUsed ==
    ~Defined => Excused(MixedUp \cup
        {"overtaken", "shared", "unreferenced", "lateUndo", "raced", "aliased"})

Opens(c) == {p \in App :
    \/ thread[p].job = "open" /\ thread[p].file.client = c
    \/ /\ thread[p].io = c
       /\ thread[p].stage \in {"counted", "refused", "released", "cleared"}}

\* A client counts the programs that have it open, open it or close it, unless a
\* close found another file's client or none.
OpenCounts ==
    \A c \in Client : IoDev[c].life = "listed" =>
        \/ IoDev[c].DeviceOpenCount = Cardinality(Opens(c))
        \/ Excused({"aliased", "orphaned"})

\* However opens that count first and decide after meet closes, one of two
\* programs at most gets a client, and none leaves its count behind.
OpensAreCounted == OneFile /\ OpenCounts
-----------------------------------------------------------------------------
(* Liveness *)

\* What the scheduler and the modem owe.  Faults, failures and what programs and
\* other components ask for may never come.
Owed(t) ==
    \/ Request(t) \/ Signalled(t) \/ Timeout(t) \/ ClearAfterTimeout(t)
    \/ RemoveOldTransactionItem(t)
Fairness ==
    /\ \A t \in Thread : WF_vars(Owed(t) /\ UNCHANGED cvars) /\ WF_vars(InitStep(t))
    /\ WF_vars(LowerStep /\ UNCHANGED cvars)
    /\ \A d \in Device : WF_vars(InboundStep(d) /\ UNCHANGED cvars)
    /\ \A a \in Adapter : WF_vars(MPThreadStep(a))
    /\ \A p \in App : WF_vars(ServiceGot(p))
FairSpec == Spec /\ Fairness

\* A call of MPMAIN_InitializeQMI ends, also for the party that waits for the
\* other one and for the sibling that waits, without a timeout, for the data
\* format, unless its main adapter went on without setting it.
InitEnds ==
    \A a \in Adapter : (QmiInInitialization[a] > 0) ~>
        (QmiInInitialization[a] = 0 \/ Excused({"unformatted"}))

\* A request for a service file ends, unless initialisation failed in it
\* (MPIOC.c, IOCTL_QCDEV_GET_SERVICE_FILE).
ServiceEnds ==
    \A a \in Adapter : (ServiceFileOf[a] # None) ~>
        (ServiceFileOf[a] = None \/ Excused({"locked"}))

\* After a restart of the modem every adapter ends with ids that the device
\* knows, or with none, unless the sync request of its main adapter came after
\* its own requests.
IdsKnown ==
    \A a \in Adapter, s \in DOMAIN Services :
        ClientId[a][s] = 0 \/ Knows(Physical[a], s, ClientId[a][s])
RestartIsNoticed == Excused({"restarted"}) ~> [](IdsKnown \/ Excused({"wiped"}))

\* An answer is handled with an item of the device it came from.
AnswersStayOnTheirDevice ==
    \A d \in Device : \A h \in inbound[d] : Physical[h.item.adapter] = d
=============================================================================
