--------------------------- MODULE QmiTransactions ---------------------------
(***************************************************************************)
(* QMICTL transactions of the miniport (ndis/MPQCTL.c): requests that a    *)
(* thread sends to the modem and waits for, matched with their answers by  *)
(* an 8-bit transaction id.                                                *)
(*                                                                         *)
(* A thread that calls MPQCTL_GetClientId, MPQCTL_ReleaseClientId,         *)
(* MPQCTL_GetQMICTLVersion or MPQCTL_SendQMICTLSync is a record:           *)
(*   kind     the request: GET, RELEASE, VERSION or SYNC                   *)
(*   adapter  the adapter it is sent for                                   *)
(*   context  for whom: the adapter itself, or a client of the control     *)
(*            device (PMPIOC_DEV_INFO)                                     *)
(*   pc       request, waiting, then timedOut and expired when the wait    *)
(*            ends without an answer, and returned, with the outcome in    *)
(*            result                                                       *)
(*   id       the client id that a release names                           *)
(* What it does before and after is in module QmiClients.                  *)
(*                                                                         *)
(* Adapters that share one physical device (mux siblings) share its        *)
(* counter of transaction ids and its control pipe.                        *)
(***************************************************************************)
EXTENDS Integers, Sequences, FiniteSets

CONSTANTS
    AdapterList,   \* GlobalData.AdapterList: the adapters, in their order
    Physical,      \* the adapter of the physical interface of each adapter
    Client,        \* client records of the control devices, each used once
    App,           \* programs that use a control device
    Uses,          \* the adapter whose control device a program uses
    Services,      \* the services an adapter opens, in this order
    MaxTid,        \* the largest transaction id (255)
    MaxId,         \* the largest client id a device gives out
    Irp,           \* IRPs, as pointers: one that is freed is allocated again
    WdsAdmin,      \* devices whose version answer names the service WDS_ADMIN
    QmiInitRetries \* attempts of a version or sync request

Adapter == {AdapterList[i] : i \in 1 .. Len(AdapterList)}
Device  == {Physical[a] : a \in Adapter}
Thread  == Adapter \cup App     \* an adapter's MPThread; a program's thread
Context == Adapter \cup Client
None    == "none"

ASSUME AdaptersAssumption ==
    /\ AdapterList \in Seq(Adapter) /\ AdapterList # <<>>
    /\ \A i, j \in 1 .. Len(AdapterList) :
            AdapterList[i] = AdapterList[j] => i = j
    /\ Physical \in [Adapter -> Adapter]
    /\ \A a \in Adapter : Physical[Physical[a]] = Physical[a]
    /\ \A p \in App : Uses[p] \in Adapter
    /\ Adapter \cap Client = {} /\ Adapter \cap App = {}
    /\ None \notin Context \cup App
ASSUME SizesAssumption ==
    /\ Services # <<>> /\ Services \in Seq({Services[i] : i \in 1 .. Len(Services)})
    /\ MaxTid \in Nat \ {0} /\ MaxId \in Nat \ {0} /\ QmiInitRetries \in Nat \ {0}
    /\ IsFiniteSet(Client) /\ WdsAdmin \subseteq Device

VARIABLES
    QMICTLTransactionId, \* the counter of each adapter
    transactions,        \* the items of all QMICTLTransactionLists
    irps,                \* requests the lower driver holds
    devices,             \* each device: <<service, id>>s it has given out and
                         \* not been given back, and its outbox
    inbound,             \* the answer, if any, that each device's inbound
                         \* thread handles, with its item
    ClientId,            \* client ids of each adapter, one for each service
    IoDev,               \* the client records (module QmiClients)
    thread,              \* the threads
    received,            \* events that are set: <<context, kind>>
    QmiSyncNeeded,       \* of each adapter
    IsQMIOutOfService,   \* of each adapter
    IsWdsAdminPresent,   \* the adapters for which it is set
    ControlQMIType,      \* QMIType of each control device's own record
    serial,              \* number of the last request, for which items and
                         \* messages are told apart
    left,                \* what is left of each bound
    faults               \* history, see below

book  == <<QMICTLTransactionId, transactions, serial>>
wire  == <<irps, devices, inbound>>
ids   == <<ClientId, IoDev>>
flags == <<QmiSyncNeeded, IsQMIOutOfService, IsWdsAdminPresent, ControlQMIType>>
tvars == <<book, wire, ids, flags, thread, received, left, faults>>

(***************************************************************************)
(* The history of what may go wrong by the nature of the code:             *)
(*   wrapped    a transaction id came round again while a message or an    *)
(*              item still had it                                          *)
(*   crossed    an answer was matched with an item of another device       *)
(*   mistaken   a failed IRP was matched with an item whose own IRP had    *)
(*              been completed and freed                                   *)
(*   overtaken  a call ended without its answer when the answer was being  *)
(*              handled, or had been                                       *)
(*   unanswered a release ended without its answer                         *)
(*   dropped    an answer that carried a client id was ignored             *)
(*   shared     two threads wait for the same event                        *)
(*   wiped      the device forgot, on a sync request, ids that are in use  *)
(*   revoked    the device took an id away                                 *)
(*   restarted  the device forgot all its ids                              *)
(*   broken     a freed client was used; nothing is defined after that     *)
(* and those of module QmiClients.                                         *)
(***************************************************************************)
FaultIf(condition, fault) == IF condition THEN {fault} ELSE {}
Defined == "broken" \notin faults
\* A negative bound stands for any number.
Spend(bound) ==
    /\ left[bound] # 0
    /\ left' = IF left[bound] < 0 THEN left ELSE [left EXCEPT ![bound] = @ - 1]

Kinds == {"GET", "RELEASE", "VERSION", "SYNC"}
Group(a) == {b \in Adapter : Physical[b] = Physical[a]}
-----------------------------------------------------------------------------
(* Transaction ids *)

\* GetPhysicalAdapterQCTLTransactionId: whose counter an adapter uses.
TidCounter(a) == Physical[a]

NextTidUnwrapped(counter) == counter + 1  \* fault: without the cast
\* GetQCTLTransactionId: the counter is cast to 8 bits, 0 is skipped.
NextTid(counter) == IF counter = MaxTid THEN 1 ELSE counter + 1

-----------------------------------------------------------------------------
(* The lists of items *)

Position(a) == CHOOSE i \in 1 .. Len(AdapterList) : AdapterList[i] = a

\* The lists are searched in the order of the adapters, and a list holds its
\* items in the order of the requests.
Precedes(i, j) ==
    \/ Position(i.adapter) < Position(j.adapter)
    \/ i.adapter = j.adapter /\ i.serial <= j.serial

\* MPQCTL_FindQMICTLTransactionItem: the first item that matches, if any.  Its
\* test for the adapters of the same device compares the caller's adapter with
\* itself: every adapter is searched.
FirstItem(found) == {i \in found : \A j \in found : Precedes(i, j)}
FindTidHead(items, tid) == FirstItem(items)  \* fault: whatever its id
FindTid(items, tid) == FirstItem({i \in items : i.tid = tid})
FindIrp(items, irp) == FirstItem({i \in items : i.irp = irp})
\* The first of some clients in MP_DeviceList, which grows at its tail.
FirstClient(clients) ==
    CHOOSE c \in clients : \A e \in clients : IoDev[c].place <= IoDev[e].place
-----------------------------------------------------------------------------
(* The caller *)

\* The client id that a context holds for a service.
HeldId(x, service) ==
    IF x \in Adapter THEN ClientId[x][service] ELSE IoDev[x].ClientId

\* The record of a thread that begins a call.
Call(record, kind, a, x, service) ==
    [record EXCEPT !.pc = "request", !.kind = kind, !.adapter = a, !.context = x,
                   !.service = service,
                   !.id = IF kind = "RELEASE" THEN HeldId(x, service) ELSE 0]

Returned(t, result) ==
    [thread EXCEPT ![t].pc = "returned", ![t].result = result]

InCall(t) == thread[t].pc \in {"waiting", "timedOut", "expired"}
Event(t) == <<thread[t].context, thread[t].kind>>
DeviceOf(t) == Physical[thread[t].adapter]

\* Nothing of another request is about: counting may begin again.
Quiet(t) ==
    /\ transactions = {} /\ irps = {}
    /\ \A d \in Device : devices[d].outbox = <<>> /\ inbound[d] = {}
    /\ \A u \in Thread \ {t} : ~InCall(u)
NextSerial(t) == IF Quiet(t) THEN 1 ELSE serial + 1

\* Another thread waits for the event too.
EventShared(t) == \E u \in Thread \ {t} : InCall(u) /\ Event(u) = Event(t)

\* The transaction id and an IRP for the next request of t.
Tid(t) == NextTid(QMICTLTransactionId[TidCounter(thread[t].adapter)])
Allocate(t, irp) ==
    /\ QMICTLTransactionId' =
          [QMICTLTransactionId EXCEPT ![TidCounter(thread[t].adapter)] = Tid(t)]
    /\ irp \in Irp \ {r.irp : r \in irps}
    /\ serial' = NextSerial(t)

NewMessage(t) ==
    [kind |-> thread[t].kind, tid |-> Tid(t), service |-> thread[t].service,
     id |-> thread[t].id, serial |-> NextSerial(t), ok |-> TRUE]
NewItem(t, irp) ==
    [tid |-> Tid(t), adapter |-> thread[t].adapter,
     context |-> thread[t].context, irp |-> irp, serial |-> NextSerial(t)]

\* Messages and items of requests from before the counter last had this value.
About(d) ==
    {i \in transactions : Physical[i.adapter] = d}
    \cup {r.message : r \in {r \in irps : r.device = d}}
    \cup {devices[d].outbox[i] : i \in 1 .. Len(devices[d].outbox)}
Wrapped(t) ==
    \E x \in About(DeviceOf(t)) : x.tid = Tid(t) /\ x.serial <= NextSerial(t) - MaxTid

\* MPQCTL_Request, and a send that returns STATUS_PENDING or success.  The item
\* is queued before the call.  When the adapter is out of service a release
\* does not wait.
Request(t) ==
    /\ Defined /\ thread[t].pc = "request"
    /\ \E irp \in Irp :
        /\ Allocate(t, irp)
        /\ transactions' = transactions \cup {NewItem(t, irp)}
        /\ irps' = irps \cup {[irp |-> irp, device |-> DeviceOf(t),
                               message |-> NewMessage(t)]}
    /\ thread' = [thread EXCEPT
          ![t].tid = Tid(t), ![t].serial = NextSerial(t),
          ![t].pc = IF /\ thread[t].kind = "RELEASE"
                       /\ IsQMIOutOfService[thread[t].adapter]
                    THEN "expired" ELSE "waiting"]
    /\ faults' = faults \cup FaultIf(Wrapped(t), "wrapped")
                        \cup FaultIf(EventShared(t), "shared")
    /\ UNCHANGED <<devices, inbound, ids, flags, received, left>>

\* The completion routine of a failed IRP takes the first item that names the
\* IRP off its list.
WithoutFailed(items, irp) == items \ FindIrp(items, irp)
Mistaken(items, irp, own) == \E i \in FindIrp(items, irp) : i.serial # own

\* The send fails within the call (the stack is gone): the completion routine
\* has run when it returns.
RequestRefused(t) ==
    /\ Defined /\ thread[t].pc = "request"
    /\ Spend("failures")
    /\ \E irp \in Irp :
        LET queued == transactions \cup {NewItem(t, irp)}
        IN  /\ Allocate(t, irp)
            /\ transactions' = WithoutFailed(queued, irp)
            /\ faults' = faults \cup FaultIf(Wrapped(t), "wrapped")
                  \cup FaultIf(Mistaken(queued, irp, NextSerial(t)), "mistaken")
    /\ thread' = Returned(t, "failed")
    /\ UNCHANGED <<wire, ids, flags, received>>

\* MPQCTL_Request without a message: no memory, or the device is gone.
RequestFails(t) ==
    /\ Defined /\ thread[t].pc = "request"
    /\ Spend("failures")
    /\ \E result \in {"failed", "removed"} : thread' = Returned(t, result)
    /\ UNCHANGED <<book, wire, ids, flags, received, faults>>

\* The event ends the wait, and is cleared.
Signalled(t) ==
    /\ Defined /\ thread[t].pc = "waiting" /\ Event(t) \in received
    /\ received' = received \ {Event(t)}
    /\ thread' = Returned(t, "answered")
    /\ UNCHANGED <<book, wire, ids, flags, left, faults>>

\* An answer to the thread's request may still come.
Serials(messages) == {messages[i].serial : i \in 1 .. Len(messages)}
InHand(d, n) == \E h \in inbound[d] : h.item.serial = n
MayBeAnswered(t) ==
    LET d == DeviceOf(t)  n == thread[t].serial
    IN  \/ \E r \in irps : r.message.serial = n
        \/ n \in Serials(devices[d].outbox)
        \/ InHand(d, n)

\* QMICTL_TIMEOUT_RX.  The bound counts the timeouts that race with an answer.
Timeout(t) ==
    /\ Defined /\ thread[t].pc = "waiting" /\ Event(t) \notin received
    /\ IF MayBeAnswered(t) THEN Spend("timeouts") ELSE UNCHANGED left
    /\ thread' = [thread EXCEPT ![t].pc = "timedOut"]
    /\ UNCHANGED <<book, wire, ids, flags, received, faults>>

\* KeClearEvent after the wait, whatever ended it.
ClearAfterTimeout(t) ==
    /\ Defined /\ thread[t].pc = "timedOut"
    /\ received' = received \ {Event(t)}
    /\ thread' = [thread EXCEPT ![t].pc = "expired"]
    /\ UNCHANGED <<book, wire, ids, flags, left, faults>>

KeepsOld(items, tid) == items  \* fault: the item stays queued
WithoutOld(items, tid) == items \ FindTid(items, tid)

\* MPQCTL_RemoveOldTransactionItem, with which a request without answer ends.
RemoveOldTransactionItem(t) ==
    /\ Defined /\ thread[t].pc = "expired"
    /\ transactions' = WithoutOld(transactions, thread[t].tid)
    /\ thread' = Returned(t, "timeout")
    /\ faults' = faults
          \cup FaultIf(\E i \in FindTid(transactions, thread[t].tid) :
                          Physical[i.adapter] # DeviceOf(t), "crossed")
          \cup FaultIf(thread[t].kind = "RELEASE", "unanswered")
          \cup FaultIf(\/ \E d \in Device : InHand(d, thread[t].serial)
                       \/ Event(t) \in received, "overtaken")
    /\ UNCHANGED <<QMICTLTransactionId, serial, wire, ids, flags, received, left>>
-----------------------------------------------------------------------------
(* The lower driver and the device: external *)

\* A request fails after the call: MPQCTL_SendIRPCompletion.
RequestLost(r) ==
    /\ Defined /\ r \in irps
    /\ Spend("failures")
    /\ irps' = irps \ {r}
    /\ transactions' = WithoutFailed(transactions, r.irp)
    /\ faults' = faults \cup
          FaultIf(Mistaken(transactions, r.irp, r.message.serial), "mistaken")
    /\ UNCHANGED <<QMICTLTransactionId, serial, devices, inbound, ids, flags,
                   thread, received>>

\* A request has been sent: its IRP is freed, its item keeps the pointer.  The
\* device answers or loses it.  It gives out the least free id, takes back those
\* it knows, and forgets them all on a sync request.
DeviceAnswers(d, m, ok, id, known) ==
    devices' = [devices EXCEPT
        ![d].ids = known, ![d].outbox = Append(@, [m EXCEPT !.ok = ok, !.id = id])]
FreeIds(d, service) == {id \in 1 .. MaxId : <<service, id>> \notin devices[d].ids}
DeviceGives(d, m) ==
    /\ m.kind = "GET"
    /\ \E id \in FreeIds(d, m.service) :
        /\ \A other \in FreeIds(d, m.service) : id <= other
        /\ DeviceAnswers(d, m, TRUE, id, devices[d].ids \cup {<<m.service, id>>})
    /\ UNCHANGED <<left, faults>>
DeviceTakesBack(d, m) ==
    LET id == <<m.service, m.id>>
    IN  /\ m.kind = "RELEASE"
        /\ DeviceAnswers(d, m, id \in devices[d].ids, m.id, devices[d].ids \ {id})
        /\ UNCHANGED <<left, faults>>
DeviceAgrees(d, m) ==
    /\ m.kind \in {"VERSION", "SYNC"}
    /\ DeviceAnswers(d, m, TRUE, 0,
                     IF m.kind = "SYNC" THEN {} ELSE devices[d].ids)
    /\ faults' = faults \cup
          FaultIf(m.kind = "SYNC" /\ devices[d].ids # {}, "wiped")
    /\ UNCHANGED left
DeviceRefuses(d, m) ==
    /\ Spend("errors")
    /\ DeviceAnswers(d, m, FALSE, m.id, devices[d].ids)
    /\ UNCHANGED faults
DeviceSilent == Spend("losses") /\ UNCHANGED <<devices, faults>>
RequestSent(r) ==
    /\ Defined /\ r \in irps
    /\ irps' = irps \ {r}
    /\ LET d == r.device  m == r.message
       IN  DeviceGives(d, m) \/ DeviceTakesBack(d, m) \/ DeviceAgrees(d, m)
           \/ DeviceRefuses(d, m) \/ DeviceSilent
    /\ UNCHANGED <<book, inbound, ids, flags, thread, received>>

Indication(kind, service, id) ==
    [kind |-> kind, tid |-> 0, service |-> service, id |-> id, serial |-> 0,
     ok |-> TRUE]

\* The modem's QMI service starts again: it has forgotten everything.
DeviceRestarts(d) ==
    /\ Defined /\ Spend("restarts")
    /\ devices' = [devices EXCEPT ![d] = [ids |-> {},
                        outbox |-> <<Indication("RESTART", 1, 0)>>]]
    /\ faults' = faults \cup {"restarted"}
    /\ UNCHANGED <<book, irps, inbound, ids, flags, thread, received>>

\* The device takes a client id away.
DeviceRevokes(d) ==
    /\ Defined /\ Spend("revokes")
    /\ \E given \in devices[d].ids :
        devices' = [devices EXCEPT
            ![d].ids = @ \ {given},
            ![d].outbox = Append(@, Indication("REVOKE", given[1], given[2]))]
    /\ faults' = faults \cup {"revoked"}
    /\ UNCHANGED <<book, irps, inbound, ids, flags, thread, received>>
-----------------------------------------------------------------------------
(* Inbound messages *)

IsIndication(m) == m.kind \in {"RESTART", "REVOKE"}

\* MPQCTL_ProcessInboundQMICTL takes the item of an answer off its list; an
\* answer without an item is ignored.
InboundTake(d) ==
    LET m == Head(devices[d].outbox)
        found == FindTid(transactions, m.tid)
    IN  /\ Defined /\ inbound[d] = {} /\ devices[d].outbox # <<>>
        /\ ~IsIndication(m)
        /\ devices' = [devices EXCEPT ![d].outbox = Tail(@)]
        /\ transactions' = transactions \ found
        /\ inbound' = [inbound EXCEPT ![d] = {[message |-> m, item |-> i] : i \in found}]
        /\ faults' = faults
              \cup FaultIf(\E i \in found : Physical[i.adapter] # d, "crossed")
              \cup FaultIf(found = {} /\ m.kind = "GET" /\ m.ok, "dropped")
        /\ UNCHANGED <<QMICTLTransactionId, serial, irps, ids, flags, thread,
                       received, left>>

\* MPQCTL_HandleGetClientIdRsp
GivesId(m, item) ==
    IF ~(m.kind = "GET" /\ m.ok) THEN UNCHANGED ids
    ELSE IF item.context \in Client
    THEN /\ IoDev' = [IoDev EXCEPT ![item.context].ClientId = m.id,
                                   ![item.context].QMIType = m.service]
         /\ UNCHANGED ClientId
    ELSE /\ ClientId' = [ClientId EXCEPT ![item.context][m.service] = m.id]
         /\ UNCHANGED IoDev

TakesAnyId(m, item) == TRUE    \* fault: without the test for a match
TakesNoId(m, item) == FALSE    \* fault: the id is left to the caller
\* MPQCTL_HandleReleaseClientIdRsp: an error answer matches no id.
TakesId(m, item) ==
    /\ m.ok
    /\ IoDev[item.context].ClientId = m.id
    /\ IoDev[item.context].QMIType = m.service

\* Only clients release their ids.
HandleRelease(m, item) ==
    /\ IoDev' = IF item.context \in Client /\ TakesId(m, item)
                THEN [IoDev EXCEPT ![item.context].ClientId = 0,
                                   ![item.context].QMIType = 0]
                ELSE IoDev
    /\ UNCHANGED ClientId

\* An answer to a sync request that reports an error wakes nobody.
Wakes(m) == m.kind # "SYNC" \/ m.ok

\* The handler of the answer, by the kind of the answer and the context of the
\* item.
InboundHandle(d) == \E h \in inbound[d] :
    LET m == h.message  item == h.item
        freed == item.context \in Client /\ IoDev[item.context].life = "freed"
        waiter == IF m.kind \in {"SYNC", "VERSION"} THEN item.adapter ELSE item.context
    IN  /\ Defined
        /\ inbound' = [inbound EXCEPT ![d] = {}]
        /\ faults' = faults \cup FaultIf(freed, "broken")
        /\ received' = received \cup (IF Wakes(m) THEN {<<waiter, m.kind>>} ELSE {})
        /\ IF m.kind = "RELEASE" THEN HandleRelease(m, item) ELSE GivesId(m, item)
        /\ IF m.kind = "SYNC" /\ m.ok
           THEN /\ IsQMIOutOfService' = [IsQMIOutOfService EXCEPT ![item.adapter] = FALSE]
                /\ QmiSyncNeeded' = [QmiSyncNeeded EXCEPT ![item.adapter] = 0]
           ELSE UNCHANGED <<QmiSyncNeeded, IsQMIOutOfService>>
        /\ IsWdsAdminPresent' =
              IF m.kind = "VERSION" /\ m.ok /\ d \in WdsAdmin
              THEN IsWdsAdminPresent \cup {item.adapter} ELSE IsWdsAdminPresent
        /\ UNCHANGED <<book, irps, devices, ControlQMIType, thread, left>>

MP_DEV_TYPE_CLIENT == 1  \* also the type of the first service

\* MPQCTL_HandleRevokeClientIdInd: the receiving adapter's own id comes first.
\* Then MPIOC_FindIoDevice searches the records of the device, not for the id
\* that the indication names, but for the type and the id of its QMUX header,
\* which are 0: it finds one that has no type yet, and the client whose id was
\* taken away keeps it.  Control devices come first.
UntypedControls(d) == {a \in Group(d) : ControlQMIType[a] = 0}
FirstAdapter(some) == CHOOSE a \in some : \A b \in some : Position(a) <= Position(b)
UntypedClients(d) ==
    {c \in Client : /\ IoDev[c].life = "listed"
                    /\ Physical[IoDev[c].adapter] = d /\ IoDev[c].QMIType = 0}
HandleRevoke(d, m) ==
    \/ /\ ClientId[d][m.service] = m.id
       /\ ClientId' = [ClientId EXCEPT ![d][m.service] = 0]
       /\ UNCHANGED <<IoDev, ControlQMIType>>
    \/ /\ ClientId[d][m.service] # m.id /\ UntypedControls(d) # {}
       /\ ControlQMIType' = [ControlQMIType EXCEPT
             ![FirstAdapter(UntypedControls(d))] = MP_DEV_TYPE_CLIENT]
       /\ UNCHANGED ids
    \/ /\ ClientId[d][m.service] # m.id /\ UntypedControls(d) = {}
       /\ IoDev' = [c \in Client |->
             IF UntypedClients(d) # {} /\ c = FirstClient(UntypedClients(d))
             THEN [IoDev[c] EXCEPT !.ClientId = 0, !.QMIType = MP_DEV_TYPE_CLIENT]
             ELSE IoDev[c]]
       /\ UNCHANGED <<ClientId, ControlQMIType>>

NeedSyncOwn(d) ==  \* fault: siblings are not told
    [QmiSyncNeeded EXCEPT ![d] = IF @ = 0 THEN 1 ELSE @]
\* MPQCTL_HandleSyncInd and IncrementAllQmiSync: all adapters of the device
\* are to synchronise.
NeedSync(d) ==
    [a \in Adapter |-> IF Physical[a] = d /\ QmiSyncNeeded[a] = 0
                       THEN 1 ELSE QmiSyncNeeded[a]]

\* An indication.  Its transaction id is 0, which no request has.
InboundIndication(d) ==
    LET m == Head(devices[d].outbox)
    IN  /\ Defined /\ inbound[d] = {} /\ devices[d].outbox # <<>>
        /\ IsIndication(m)
        /\ devices' = [devices EXCEPT ![d].outbox = Tail(@)]
        /\ \/ /\ m.kind = "REVOKE"
              /\ HandleRevoke(d, m)
              /\ UNCHANGED <<QmiSyncNeeded, IsQMIOutOfService>>
           \/ /\ m.kind = "RESTART"
              /\ IsQMIOutOfService' = [IsQMIOutOfService EXCEPT ![d] = FALSE]
              /\ QmiSyncNeeded' = NeedSync(d)
              /\ UNCHANGED <<ids, ControlQMIType>>
        /\ UNCHANGED <<book, irps, inbound, IsWdsAdminPresent, thread, received, left,
                       faults>>

-----------------------------------------------------------------------------
CallStep(t) ==
    \/ Request(t) \/ RequestRefused(t) \/ RequestFails(t) \/ Signalled(t)
    \/ Timeout(t) \/ ClearAfterTimeout(t) \/ RemoveOldTransactionItem(t)
LowerStep == \E r \in irps : RequestSent(r) \/ RequestLost(r)
ModemStep(d) == DeviceRestarts(d) \/ DeviceRevokes(d)
InboundStep(d) == InboundTake(d) \/ InboundHandle(d) \/ InboundIndication(d)
TransactionStep ==
    \/ \E t \in Thread : CallStep(t)
    \/ LowerStep
    \/ \E d \in Device : ModemStep(d) \/ InboundStep(d)
=============================================================================
