------------------------------- MODULE QmiProofs -------------------------------
(***************************************************************************)
(* Proofs about QMICTL transactions and their users.                       *)
(***************************************************************************)
EXTENDS QmiClients, FiniteSetTheorems, WellFoundedInduction, TLAPS

-----------------------------------------------------------------------------
(* The inductive invariant *)

Calls == {"request", "waiting", "timedOut", "expired"}
InitStages == {"poll", "version", "sync", "main", "format", "opened"}

\* A call that has begun, or may be repeated, names its request.
CallOK(r) ==
    r.pc \in Calls \/ r.result = "timeout" =>
        /\ r.kind \in Kinds /\ r.adapter \in Adapter /\ r.context \in Context
        /\ r.kind = "GET" => r.service \in DOMAIN Services

\* What a thread does fits the thread.
WorkOK(t, r) ==
    /\ r.job \in {"service", "create"} => r.io \in Client
    /\ r.job = "service" => t \in App
    /\ r.stage \in InitStages =>
          (t \in Adapter /\ r.job = "init") \/ (t \in App /\ r.job = "service")
    /\ r.stage = "got" => t \in App /\ r.job = "service"

RecordOK(t, r) == r \in ThreadType /\ CallOK(r) /\ WorkOK(t, r)
ThreadsOK == ThreadTypeOK /\ \A t \in Thread : RecordOK(t, thread[t])

RequestsOK == \A r \in irps : r.message.kind = "GET" => r.message.service \in DOMAIN Services

\* The count of initialisations is that of the threads that are at it: an adapter's
\* own and the program whose request the control device has.
Inside(r) == r.job \in {"init", "service"} /\ r.stage \in InitStages
OneIf(condition) == IF condition THEN 1 ELSE 0
Count(a) ==
    OneIf(Inside(thread[a]))
    + OneIf(ServiceFileOf[a] # None /\ Inside(thread[ServiceFileOf[a]]))
CountOK == \A a \in Adapter : QmiInInitialization[a] = Count(a)
OneRequest ==
    /\ \A p \in App : thread[p].job = "service" => ServiceFileOf[Uses[p]] = p
    /\ \A a \in Adapter : ServiceFileOf[a] # None => Uses[ServiceFileOf[a]] = a

AnswersOK == \A d \in Device : \A h \in inbound[d] : h.message.kind \in Kinds
WireOK == WireTypeOK /\ RequestsOK /\ AnswersOK
ControlOK == ControlTypeOK /\ CountOK /\ OneRequest
EventsOK == received \subseteq Context \X Kinds
BoundsOK == left \in [BoundNames -> Int]
TypeInv ==
    BookTypeOK /\ WireOK /\ IdsTypeOK /\ FlagsTypeOK /\ ThreadsOK /\ ControlOK
    /\ EventsOK /\ BoundsOK
-----------------------------------------------------------------------------
(* Sizes and small facts *)

\* A count below its bound stays within it when it goes up by one.
LEMMA OneMore ==
    ASSUME NEW n \in Nat, NEW k \in 0 .. n, k + 1 < n
    PROVE  k + 1 \in 0 .. n
  OBVIOUS

LEMMA Sizes ==
    /\ MaxTid \in Nat /\ MaxTid > 0 /\ MaxId \in Nat /\ MaxId > 0
    /\ QmiInitRetries \in Nat /\ QmiInitRetries > 0
    /\ Len(Services) \in Nat /\ Len(Services) > 0
    /\ DOMAIN Services = 1 .. Len(Services)
    /\ ClientService \in 1 .. Len(Services)
<1>1. Services \in Seq({Services[i] : i \in 1 .. Len(Services)}) /\ Services # <<>>
  BY SizesAssumption
<1>2. Len(Services) \in Nat /\ Len(Services) > 0 /\ DOMAIN Services = 1 .. Len(Services)
  BY <1>1
<1> QED BY <1>2, SizesAssumption, ScenariosAssumption

LEMMA Devices ==
    /\ \A a \in Adapter : Physical[a] \in Device /\ Physical[a] \in Adapter
    /\ Device \subseteq Adapter
    /\ \A d \in Device : Physical[d] = d
    /\ \A t \in Thread : AdapterOf(t) \in Adapter
    /\ \A p \in App : AdapterOf(p) = Uses[p] /\ p \notin Adapter
    /\ \A a \in Adapter : AdapterOf(a) = a /\ a \in Thread
BY AdaptersAssumption DEF Device, Thread, AdapterOf

LEMMA NextTidType ==
    ASSUME NEW c \in 0 .. MaxTid
    PROVE  NextTid(c) \in 1 .. MaxTid
BY Sizes DEF NextTid

LEMMA LeastNatural ==
    ASSUME NEW S, S \subseteq Nat, S # {}
    PROVE  \E m \in S : \A n \in S : m <= n
<1>1. PICK m \in S : \A n \in S : ~(<<n, m>> \in OpToRel(<, Nat))
  BY WFMin, NatLessThanWellFounded, Zenon
<1>2. ASSUME NEW n \in S PROVE m <= n
  <2>1. ~(n < m)
    BY <1>1, Zenon DEF OpToRel
  <2> QED BY <2>1
<1> QED BY <1>2

\* The head of a list of clients is one of them.
LEMMA FirstClientIsOne ==
    ASSUME NEW S, S \subseteq Client, S # {}, \A c \in S : IoDev[c].place \in Nat
    PROVE  FirstClient(S) \in S
<1> DEFINE P == {IoDev[c].place : c \in S}
<1>1. P \subseteq Nat /\ P # {}
  OBVIOUS
<1>2. PICK m \in P : \A n \in P : m <= n
  BY <1>1, LeastNatural, Zenon
<1>3. PICK c \in S : m = IoDev[c].place
  OBVIOUS
<1>4. \A e \in S : IoDev[c].place <= IoDev[e].place
  BY <1>2, <1>3
<1> QED BY <1>4 DEF FirstClient

LEMMA FoundIsQueued ==
    ASSUME NEW items, NEW x
    PROVE  /\ FindTid(items, x) \subseteq {i \in items : i.tid = x}
           /\ FindIrp(items, x) \subseteq {i \in items : i.irp = x}
BY DEF FindTid, FindIrp, FirstItem
-----------------------------------------------------------------------------
(* Thread records *)

LEMMA IdleRecord ==
    ASSUME NEW job \in Jobs
    PROVE  IdleThread(job) \in ThreadType /\ CallOK(IdleThread(job))
<1>1. IdleThread(job) \in ThreadType
  BY Sizes DEF IdleThread, ThreadType, NoFile, Stages, CallStates, Results
<1>2. CallOK(IdleThread(job))
  BY DEF IdleThread, CallOK, Calls, None
<1> QED BY <1>1, <1>2

LEMMA BecomesOK ==
    ASSUME ThreadsOK, NEW t \in Thread, NEW r, RecordOK(t, r), Becomes(t, r)
    PROVE  ThreadsOK'
BY DEF ThreadsOK, ThreadTypeOK, RecordOK, Becomes, CallOK, WorkOK

LEMMA RestRecord ==
    ASSUME ThreadsOK, NEW t \in Thread
    PROVE  /\ RecordOK(t, Rest(t))
           /\ Rest(t).job = thread[t].job /\ Rest(t).io = thread[t].io
           /\ Rest(t).stage = None
<1>1. thread[t] \in ThreadType /\ WorkOK(t, thread[t])
  BY DEF ThreadsOK, RecordOK
<1>2. thread[t].job \in Jobs
  BY <1>1 DEF ThreadType
<1>3. IdleThread(thread[t].job) \in ThreadType /\ CallOK(IdleThread(thread[t].job))
  BY <1>2, IdleRecord
<1>4. Rest(t) \in ThreadType
  BY <1>1, <1>3 DEF ThreadType, Rest
<1>5. CallOK(Rest(t))
  BY <1>3 DEF CallOK, Rest, IdleThread, Calls, None
<1>6. /\ Rest(t).job = thread[t].job /\ Rest(t).io = thread[t].io
      /\ Rest(t).stage = None
  BY DEF Rest, IdleThread
<1>7. WorkOK(t, Rest(t))
  BY <1>1, <1>6 DEF WorkOK, InitStages, None
<1> QED BY <1>4, <1>5, <1>6, <1>7 DEF RecordOK

\* A record with a call that begins.
LEMMA CallRecord ==
    ASSUME IdsTypeOK, NEW t, NEW r \in ThreadType, WorkOK(t, r),
           NEW kind \in Kinds, NEW a \in Adapter, NEW x \in Context,
           NEW service \in 0 .. Len(Services),
           kind = "GET" => service \in DOMAIN Services,
           kind = "RELEASE" => x \in Client
    PROVE  /\ RecordOK(t, Call(r, kind, a, x, service))
           /\ Call(r, kind, a, x, service).job = r.job
           /\ Call(r, kind, a, x, service).stage = r.stage
<1> DEFINE c == Call(r, kind, a, x, service)
<1>1. kind = "RELEASE" => HeldId(x, service) \in 0 .. MaxId
  BY AdaptersAssumption DEF HeldId, IdsTypeOK, IoDevType
<1>2. c \in ThreadType
  <2> DEFINE id == IF kind = "RELEASE" THEN HeldId(x, service) ELSE 0
  <2>1. id \in 0 .. MaxId /\ "request" \in CallStates
    BY <1>1, Sizes DEF CallStates
  <2>2. c = [r EXCEPT !.pc = "request", !.kind = kind, !.adapter = a,
                      !.context = x, !.service = service, !.id = id]
    BY DEF Call
  <2> HIDE DEF id, c
  <2> QED BY <2>1, <2>2 DEF ThreadType
<1>3. CallOK(c)
  BY DEF Call, CallOK, ThreadType
<1>4. c.job = r.job /\ c.stage = r.stage /\ c.io = r.io
  BY DEF Call, ThreadType
<1>5. WorkOK(t, c)
  BY <1>4 DEF WorkOK
<1> QED BY <1>2, <1>3, <1>4, <1>5 DEF RecordOK
-----------------------------------------------------------------------------
(* What a step leaves alone keeps its part of the invariant *)

LEMMA Kept ==
    ASSUME TypeInv
    PROVE  /\ UNCHANGED book => BookTypeOK'
           /\ UNCHANGED wire => WireOK'
           /\ UNCHANGED ids => IdsTypeOK'
           /\ UNCHANGED flags => FlagsTypeOK'
           /\ UNCHANGED thread => ThreadsOK'
           /\ UNCHANGED received => EventsOK'
           /\ UNCHANGED left => BoundsOK'
           /\ UNCHANGED <<thread, cvars>> => ControlOK'
<1>1. UNCHANGED book => BookTypeOK'
  BY DEF TypeInv, BookTypeOK, book
<1>2. UNCHANGED wire => WireOK'
  BY DEF TypeInv, WireOK, WireTypeOK, RequestsOK, AnswersOK, wire
<1>3. UNCHANGED ids => IdsTypeOK'
  BY DEF TypeInv, IdsTypeOK, ids
<1>4. UNCHANGED flags => FlagsTypeOK'
  BY DEF TypeInv, FlagsTypeOK, flags
<1>5. UNCHANGED thread => ThreadsOK'
  BY DEF TypeInv, ThreadsOK, ThreadTypeOK
<1>6. UNCHANGED received => EventsOK'
  BY DEF TypeInv, EventsOK
<1>7. UNCHANGED left => BoundsOK'
  BY DEF TypeInv, BoundsOK
<1>8. UNCHANGED <<thread, cvars>> => ControlOK'
  BY DEF TypeInv, ControlOK, ControlTypeOK, CountOK, Count, OneRequest, cvars
<1> QED BY <1>1, <1>2, <1>3, <1>4, <1>5, <1>6, <1>7, <1>8

\* A thread's step changes the count of its own adapter only.
LEMMA OtherCounts ==
    ASSUME ThreadsOK, ControlOK, NEW t \in Thread, NEW r, Becomes(t, r),
           NEW b \in Adapter, b # AdapterOf(t), ServiceFileOf'[b] = ServiceFileOf[b]
    PROVE  Count(b)' = Count(b)
<1>1. b # t /\ b \in Thread
  BY Devices DEF Thread
<1>2. thread'[b] = thread[b]
  BY <1>1 DEF ThreadsOK, ThreadTypeOK, Becomes
<1>3. CASE ServiceFileOf[b] = None
  BY <1>2, <1>3 DEF Count
<1>4. CASE ServiceFileOf[b] # None
  <2>1. ServiceFileOf[b] \in App /\ Uses[ServiceFileOf[b]] = b
    BY <1>4 DEF ControlOK, ControlTypeOK, OneRequest
  <2>2. ServiceFileOf[b] # t /\ ServiceFileOf[b] \in Thread
    BY <2>1, Devices DEF Thread
  <2>3. thread'[ServiceFileOf[b]] = thread[ServiceFileOf[b]]
    BY <2>2 DEF ThreadsOK, ThreadTypeOK, Becomes
  <2> QED BY <1>2, <2>3 DEF Count
<1> QED BY <1>3, <1>4

\* By how much it changes when the thread is one of those that count.
LEMMA OwnCount ==
    ASSUME ThreadsOK, ControlOK, NEW t \in Thread, NEW r, Becomes(t, r),
           UNCHANGED ServiceFileOf, t \in Adapter \/ thread[t].job = "service"
    PROVE  Count(AdapterOf(t))' =
              Count(AdapterOf(t)) - OneIf(Inside(thread[t])) + OneIf(Inside(r))
<1>1. thread'[t] = r /\ \A u \in Thread \ {t} : thread'[u] = thread[u]
  BY DEF ThreadsOK, ThreadTypeOK, Becomes
<1>2. \A c : OneIf(c) \in Int
  BY DEF OneIf
<1>3. CASE t \in Adapter
  <2>1. AdapterOf(t) = t
    BY <1>3, Devices
  <2> DEFINE p == ServiceFileOf[t]
  <2>2. p # None => p \in Thread \ {t}
    BY <1>3, Devices DEF ControlOK, ControlTypeOK, Thread
  <2>3. (p # None /\ Inside(thread'[p])) <=> (p # None /\ Inside(thread[p]))
    BY <1>1, <2>2
  <2> DEFINE n == OneIf(p # None /\ Inside(thread[p]))
  <2>4. OneIf(p # None /\ Inside(thread'[p])) = n
    BY <2>3 DEF OneIf
  <2>5. Count(t)' = OneIf(Inside(r)) + n /\ Count(t) = OneIf(Inside(thread[t])) + n
    BY <1>1, <2>4 DEF Count
  <2>6. n \in Int
    BY <1>2
  <2> HIDE DEF n
  <2> QED BY <1>2, <2>1, <2>5, <2>6
<1>4. CASE t \in App
  <2> DEFINE a == Uses[t]
  <2>1. AdapterOf(t) = a /\ a \in Adapter /\ a \in Thread \ {t} /\ t \notin Adapter
    BY <1>4, Devices
  <2>2. ServiceFileOf[a] = t /\ t # None
    BY <1>4, <2>1, AdaptersAssumption DEF ControlOK, OneRequest
  <2>3. thread'[a] = thread[a]
    BY <1>1, <2>1
  <2>4. /\ Count(a)' = OneIf(Inside(thread[a])) + OneIf(Inside(r))
        /\ Count(a) = OneIf(Inside(thread[a])) + OneIf(Inside(thread[t]))
    BY <1>1, <2>2, <2>3 DEF Count, OneIf
  <2> QED BY <1>2, <2>1, <2>4
<1> QED BY <1>3, <1>4 DEF Thread

\* A step of a thread that neither begins nor ends an initialisation.
LEMMA BecomesControl ==
    ASSUME ThreadsOK, ControlOK, NEW t \in Thread, NEW r, Becomes(t, r),
           UNCHANGED <<QmiInInitialization, ServiceFileOf>>,
           InitQmiEvent' \in [Adapter -> BOOLEAN],
           MainAdapterReady' \in [Device -> SUBSET {"sync", "format"}],
           Inside(r) <=> Inside(thread[t]),
           r.job = "service" => thread[t].job = "service"
    PROVE  ControlOK'
<1>1. /\ thread' \in [Thread -> {thread'[u] : u \in Thread}]
      /\ \A u \in Thread : Inside(thread'[u]) <=> Inside(thread[u])
      /\ \A u \in Thread : thread'[u].job = "service" => thread[u].job = "service"
  BY DEF ThreadsOK, ThreadTypeOK, Becomes
<1>2. ControlTypeOK'
  BY DEF ControlOK, ControlTypeOK
<1>3. CountOK'
  <2> SUFFICES ASSUME NEW a \in Adapter
               PROVE  Count(a)' = Count(a)
    BY DEF CountOK, ControlOK
  <2>1. Inside(thread'[a]) <=> Inside(thread[a])
    BY <1>1, Devices
  <2>2. ServiceFileOf[a] # None =>
          (Inside(thread'[ServiceFileOf[a]]) <=> Inside(thread[ServiceFileOf[a]]))
    BY <1>1 DEF ControlOK, ControlTypeOK, Thread
  <2> QED BY <2>1, <2>2, Zenon DEF OneIf, Count
<1>4. OneRequest'
  BY <1>1 DEF ControlOK, OneRequest, Thread
<1> QED BY <1>2, <1>3, <1>4 DEF ControlOK

\* A step that begins or ends one, or goes on with it.
LEMMA InitMoves ==
    ASSUME TypeInv, NEW t \in Thread, NEW r, RecordOK(t, r), Becomes(t, r),
           UNCHANGED ServiceFileOf, t \in Adapter \/ thread[t].job = "service",
           InitQmiEvent' \in [Adapter -> BOOLEAN],
           MainAdapterReady' \in [Device -> SUBSET {"sync", "format"}],
           QmiInInitialization' = [QmiInInitialization EXCEPT
              ![AdapterOf(t)] = @ - OneIf(Inside(thread[t])) + OneIf(Inside(r))]
    PROVE  ThreadsOK' /\ ControlOK'
<1>1. ThreadsOK /\ ControlOK
  BY DEF TypeInv
<1>2. ThreadsOK'
  BY <1>1, BecomesOK
<1>3. AdapterOf(t) \in Adapter
  BY Devices
<1>4. QmiInInitialization \in [Adapter -> 0 .. 2]
  BY <1>1 DEF ControlOK, ControlTypeOK
<1>5. ASSUME NEW b \in Adapter
      PROVE  QmiInInitialization'[b] = Count(b)'
  <2>1. QmiInInitialization[b] = Count(b)
    BY <1>1 DEF ControlOK, CountOK
  <2>2. CASE b = AdapterOf(t)
    BY <1>1, <1>3, <1>4, <2>1, <2>2, OwnCount
  <2>3. CASE b # AdapterOf(t)
    BY <1>1, <1>4, <2>1, <2>3, OtherCounts
  <2> QED BY <2>2, <2>3
<1>6. \A b \in Adapter : Count(b)' \in 0 .. 2
  BY DEF Count, OneIf
<1>7. QmiInInitialization' \in [Adapter -> 0 .. 2]
  <2>1. QmiInInitialization' \in [Adapter -> {QmiInInitialization'[b] : b \in Adapter}]
    BY <1>4
  <2> QED BY <2>1, <1>5, <1>6
<1>8. OneRequest'
  <2>1. r.job = "service" => t \in App
    BY DEF RecordOK, WorkOK
  <2>2. r.job = "service" => ServiceFileOf[Uses[t]] = t
    BY <1>1, <2>1, Devices DEF ControlOK, OneRequest
  <2>3. thread'[t] = r /\ \A u \in Thread \ {t} : thread'[u] = thread[u]
    BY <1>1 DEF ThreadsOK, ThreadTypeOK, Becomes
  <2> QED BY <1>1, <2>2, <2>3 DEF ControlOK, OneRequest, Thread
<1> QED BY <1>1, <1>2, <1>5, <1>7, <1>8 DEF ControlOK, ControlTypeOK, CountOK

\* A step within a call.
LEMMA CallKeepsControl ==
    ASSUME ThreadsOK, ControlOK, UNCHANGED cvars, NEW t \in Thread, NEW r,
           Becomes(t, r), r.job = thread[t].job, r.stage = thread[t].stage
    PROVE  ControlOK'
BY BecomesControl DEF Inside, ControlOK, ControlTypeOK, cvars

LEMMA SpendKeeps == ASSUME BoundsOK, NEW bound \in BoundNames, Spend(bound) PROVE BoundsOK'
BY DEF BoundsOK, Spend
-----------------------------------------------------------------------------
(* Steps of a call (module QmiTransactions) *)

\* A request numbers itself with an id of its device's counter.
LEMMA RequestRecords ==
    ASSUME TypeInv, NEW t \in Thread, thread[t].pc = "request", NEW irp \in Irp
    PROVE  /\ DeviceOf(t) \in Device
           /\ TidCounter(thread[t].adapter) = DeviceOf(t)
           /\ Tid(t) \in 1 .. MaxTid
           /\ NextSerial(t) \in Nat
           /\ NewItem(t, irp) \in ItemType
           /\ NewMessage(t) \in MessageType
           /\ thread[t].kind = "GET" => thread[t].service \in DOMAIN Services
<1>1. thread[t] \in ThreadType /\ CallOK(thread[t])
  BY DEF TypeInv, ThreadsOK, RecordOK
<1>2. thread[t].kind \in Kinds /\ thread[t].adapter \in Adapter /\ thread[t].context \in Context
  BY <1>1 DEF CallOK, Calls
<1>3. DeviceOf(t) \in Device /\ DeviceOf(t) \in Adapter
      /\ TidCounter(thread[t].adapter) = DeviceOf(t)
  BY <1>2, Devices DEF DeviceOf, TidCounter
<1>4. Tid(t) \in 1 .. MaxTid
  BY <1>3, NextTidType DEF Tid, TypeInv, BookTypeOK
<1>5. NextSerial(t) \in Nat
  BY DEF NextSerial, TypeInv, BookTypeOK
<1>6. NewItem(t, irp) \in ItemType
  BY <1>2, <1>4, <1>5 DEF NewItem, ItemType
<1>7. NewMessage(t) \in MessageType
  BY <1>1, <1>2, <1>4, <1>5 DEF NewMessage, MessageType, ThreadType
<1>8. thread[t].kind = "GET" => thread[t].service \in DOMAIN Services
  BY <1>1 DEF CallOK, Calls
<1> QED BY <1>3, <1>4, <1>5, <1>6, <1>7, <1>8

LEMMA AllocateKeeps ==
    ASSUME TypeInv, NEW t \in Thread, thread[t].pc = "request", NEW irp \in Irp,
           Allocate(t, irp), transactions' \subseteq transactions \cup {NewItem(t, irp)}
    PROVE  BookTypeOK'
<1>1. QMICTLTransactionId' \in [Adapter -> 0 .. MaxTid]
  <2>1. Tid(t) \in 0 .. MaxTid
    BY RequestRecords, Sizes
  <2> QED BY <2>1 DEF Allocate, TypeInv, BookTypeOK
<1>2. transactions' \subseteq ItemType
  BY RequestRecords DEF TypeInv, BookTypeOK
<1>3. serial' \in Nat
  BY RequestRecords DEF Allocate
<1> QED BY <1>1, <1>2, <1>3 DEF BookTypeOK

LEMMA RequestKeeps ==
    ASSUME TypeInv, NEW t \in Thread, Request(t), UNCHANGED cvars
    PROVE  TypeInv'
<1>1. PICK irp \in Irp :
        /\ Allocate(t, irp)
        /\ transactions' = transactions \cup {NewItem(t, irp)}
        /\ irps' = irps \cup {[irp |-> irp, device |-> DeviceOf(t), message |-> NewMessage(t)]}
  BY DEF Request
<1>2. thread[t].pc = "request"
  BY DEF Request
<1>3. BookTypeOK'
  BY <1>1, <1>2, AllocateKeeps
<1>4. WireOK'
  <2>1. UNCHANGED <<devices, inbound>>
    BY DEF Request
  <2>2. WireTypeOK' /\ AnswersOK'
    BY <1>1, <1>2, <2>1, RequestRecords DEF TypeInv, WireOK, WireTypeOK, AnswersOK
  <2>3. RequestsOK'
    BY <1>1, <1>2, RequestRecords DEF TypeInv, WireOK, RequestsOK, NewMessage
  <2> QED BY <2>2, <2>3 DEF WireOK
<1>5. PICK pc \in {"waiting", "expired"} :
        thread' = [thread EXCEPT ![t].tid = Tid(t), ![t].serial = NextSerial(t), ![t].pc = pc]
  BY DEF Request
<1> DEFINE r == [thread[t] EXCEPT !.tid = Tid(t), !.serial = NextSerial(t), !.pc = pc]
<1>6. thread[t] \in ThreadType /\ CallOK(thread[t]) /\ WorkOK(t, thread[t])
  BY DEF TypeInv, ThreadsOK, RecordOK
<1>7. Becomes(t, r)
  BY <1>5 DEF Becomes, TypeInv, ThreadsOK, ThreadTypeOK
<1>8. RecordOK(t, r)
  <2>1. r \in ThreadType
    <3>1. Tid(t) \in 0 .. MaxTid /\ NextSerial(t) \in Nat /\ pc \in CallStates
      BY <1>2, RequestRecords, Sizes DEF CallStates
    <3> QED BY <1>6, <3>1 DEF ThreadType
  <2>2. CallOK(r)
    BY <1>2, <1>6 DEF CallOK, Calls, ThreadType
  <2>3. WorkOK(t, r)
    BY <1>6 DEF WorkOK, ThreadType
  <2> QED BY <2>1, <2>2, <2>3 DEF RecordOK
<1>9. r.job = thread[t].job /\ r.stage = thread[t].stage
  BY <1>6 DEF ThreadType
<1>10. ThreadsOK' /\ ControlOK'
  BY <1>7, <1>8, <1>9, BecomesOK, CallKeepsControl DEF TypeInv
<1>11. UNCHANGED <<ids, flags, received, left>>
  BY DEF Request
<1> QED BY <1>3, <1>4, <1>10, <1>11, Kept DEF TypeInv

\* A step that changes where a call is, or its result.
LEMMA CallStepKeeps ==
    ASSUME TypeInv, NEW t \in Thread, thread[t].pc \in Calls, UNCHANGED cvars,
           NEW pc \in Calls \cup {"returned"},
           NEW result \in Results,
           Becomes(t, [thread[t] EXCEPT !.pc = pc, !.result = result])
    PROVE  ThreadsOK' /\ ControlOK'
<1> DEFINE r == [thread[t] EXCEPT !.pc = pc, !.result = result]
<1>1. thread[t] \in ThreadType /\ CallOK(thread[t]) /\ WorkOK(t, thread[t])
  BY DEF TypeInv, ThreadsOK, RecordOK
<1>2. Becomes(t, r)
  OBVIOUS
<1>3. r \in ThreadType
  <2>1. pc \in CallStates
    BY DEF Calls, CallStates
  <2> QED BY <1>1, <2>1 DEF ThreadType
<1>4. CallOK(r)
  BY <1>1 DEF CallOK, ThreadType
<1>5. WorkOK(t, r)
  BY <1>1 DEF WorkOK, ThreadType
<1>6. r.job = thread[t].job /\ r.stage = thread[t].stage
  BY SMTT(30), <1>1 DEF ThreadType
<1> QED BY <1>2, <1>3, <1>4, <1>5, <1>6, BecomesOK, CallKeepsControl DEF TypeInv, RecordOK

LEMMA ReturnedKeeps ==
    ASSUME TypeInv, NEW t \in Thread, thread[t].pc \in Calls, UNCHANGED cvars,
           NEW result \in {"answered", "failed", "removed", "timeout"},
           thread' = Returned(t, result)
    PROVE  ThreadsOK' /\ ControlOK'
<1>1. Becomes(t, [thread[t] EXCEPT !.pc = "returned", !.result = result])
  BY DEF Returned, Becomes, TypeInv, ThreadsOK, ThreadTypeOK
<1> QED BY ZenonT(30), <1>1, CallStepKeeps DEF Results

LEMMA PcKeeps ==
    ASSUME TypeInv, NEW t \in Thread, thread[t].pc \in Calls, UNCHANGED cvars,
           NEW pc \in Calls, thread' = [thread EXCEPT ![t].pc = pc]
    PROVE  ThreadsOK' /\ ControlOK'
<1>1. thread[t] \in ThreadType
  BY DEF TypeInv, ThreadsOK, RecordOK
<1>2. thread[t].result \in Results
  BY <1>1 DEF ThreadType
<1>3. [thread[t] EXCEPT !.pc = pc]
        = [thread[t] EXCEPT !.pc = pc, !.result = thread[t].result]
  BY <1>1 DEF ThreadType
<1>4. Becomes(t, [thread[t] EXCEPT !.pc = pc])
  BY DEF Becomes
<1>5. Becomes(t, [thread[t] EXCEPT !.pc = pc, !.result = thread[t].result])
  BY <1>3, <1>4, Zenon
<1> QED BY <1>2, <1>5, CallStepKeeps

LEMMA EndingCallKeeps ==
    ASSUME TypeInv, NEW t \in Thread, UNCHANGED cvars,
           \/ RequestRefused(t) \/ RequestFails(t) \/ Signalled(t)
           \/ Timeout(t) \/ ClearAfterTimeout(t) \/ RemoveOldTransactionItem(t)
    PROVE  TypeInv'
<1>1. CASE RequestRefused(t)
  <2>1. PICK irp \in Irp :
          /\ Allocate(t, irp)
          /\ transactions' = WithoutFailed(transactions \cup {NewItem(t, irp)}, irp)
    BY <1>1 DEF RequestRefused
  <2>2. transactions' \subseteq transactions \cup {NewItem(t, irp)}
    BY <2>1 DEF WithoutFailed
  <2>3. thread[t].pc = "request" /\ thread' = Returned(t, "failed")
        /\ Spend("failures") /\ UNCHANGED <<wire, ids, flags, received>>
    BY <1>1 DEF RequestRefused
  <2>4. BookTypeOK'
    BY <2>1, <2>2, <2>3, AllocateKeeps
  <2>5. BoundsOK'
    BY <2>3, SpendKeeps DEF TypeInv, BoundNames
  <2>6. ThreadsOK' /\ ControlOK'
    BY <2>3, ReturnedKeeps DEF Calls
  <2> QED BY <2>3, <2>4, <2>5, <2>6, Kept DEF TypeInv
<1>2. CASE RequestFails(t)
  <2>1. PICK result \in {"failed", "removed"} : thread' = Returned(t, result)
    BY <1>2 DEF RequestFails
  <2>2. thread[t].pc = "request" /\ Spend("failures")
        /\ UNCHANGED <<book, wire, ids, flags, received>>
    BY <1>2 DEF RequestFails
  <2>3. BoundsOK'
    BY <2>2, SpendKeeps DEF TypeInv, BoundNames
  <2>4. ThreadsOK' /\ ControlOK'
    BY <2>1, <2>2, ReturnedKeeps DEF Calls
  <2> QED BY <2>2, <2>3, <2>4, Kept DEF TypeInv
<1>3. CASE Signalled(t)
  <2>1. thread[t].pc = "waiting" /\ thread' = Returned(t, "answered")
        /\ received' \subseteq received /\ UNCHANGED <<book, wire, ids, flags, left>>
    BY <1>3 DEF Signalled
  <2>2. ThreadsOK' /\ ControlOK'
    BY <2>1, ReturnedKeeps DEF Calls
  <2>3. EventsOK'
    BY <2>1 DEF TypeInv, EventsOK
  <2> QED BY <2>1, <2>2, <2>3, Kept DEF TypeInv
<1>4. CASE Timeout(t)
  <2>1. thread[t].pc = "waiting" /\ thread' = [thread EXCEPT ![t].pc = "timedOut"]
        /\ (Spend("timeouts") \/ UNCHANGED left)
        /\ UNCHANGED <<book, wire, ids, flags, received>>
    BY <1>4 DEF Timeout
  <2>2. ThreadsOK' /\ ControlOK'
    BY <2>1, PcKeeps DEF Calls
  <2>3. BoundsOK'
    BY <2>1, SpendKeeps, Kept DEF TypeInv, BoundNames
  <2> QED BY <2>1, <2>2, <2>3, Kept DEF TypeInv
<1>5. CASE ClearAfterTimeout(t)
  <2>1. thread[t].pc = "timedOut" /\ thread' = [thread EXCEPT ![t].pc = "expired"]
        /\ received' \subseteq received /\ UNCHANGED <<book, wire, ids, flags, left>>
    BY <1>5 DEF ClearAfterTimeout
  <2>2. ThreadsOK' /\ ControlOK'
    BY <2>1, PcKeeps DEF Calls
  <2>3. EventsOK'
    BY <2>1 DEF TypeInv, EventsOK
  <2> QED BY <2>1, <2>2, <2>3, Kept DEF TypeInv
<1>6. CASE RemoveOldTransactionItem(t)
  <2>1. thread[t].pc = "expired" /\ thread' = Returned(t, "timeout")
        /\ transactions' \subseteq transactions
        /\ UNCHANGED <<QMICTLTransactionId, serial, wire, ids, flags, received, left>>
    BY <1>6 DEF RemoveOldTransactionItem, WithoutOld
  <2>2. ThreadsOK' /\ ControlOK'
    BY <2>1, ReturnedKeeps DEF Calls
  <2>3. BookTypeOK'
    BY <2>1 DEF TypeInv, BookTypeOK
  <2> QED BY <2>1, <2>2, <2>3, Kept DEF TypeInv
<1> QED BY <1>1, <1>2, <1>3, <1>4, <1>5, <1>6
-----------------------------------------------------------------------------
(* The lower driver and the device *)

LEMMA RequestLostKeeps ==
    ASSUME TypeInv, NEW r \in irps, RequestLost(r), UNCHANGED cvars
    PROVE  TypeInv'
<1>1. /\ Spend("failures") /\ irps' = irps \ {r}
      /\ transactions' \subseteq transactions
      /\ UNCHANGED <<QMICTLTransactionId, serial, devices, inbound, ids, flags,
                     thread, received>>
  BY DEF RequestLost, WithoutFailed
<1>2. BookTypeOK'
  BY <1>1 DEF TypeInv, BookTypeOK
<1>3. WireOK'
  BY <1>1 DEF TypeInv, WireOK, WireTypeOK, RequestsOK, AnswersOK
<1>4. BoundsOK'
  BY <1>1, SpendKeeps DEF TypeInv, BoundNames
<1> QED BY <1>1, <1>2, <1>3, <1>4, Kept DEF TypeInv

DeviceType == [ids : SUBSET ((DOMAIN Services) \X (1 .. MaxId)), outbox : Seq(MessageType)]

\* An answer of the device has the fields of its request.
LEMMA AnswerType ==
    ASSUME TypeInv, NEW d \in Device, NEW m \in MessageType, NEW ok \in BOOLEAN,
           NEW id \in 0 .. MaxId,
           NEW known \in SUBSET ((DOMAIN Services) \X (1 .. MaxId)),
           DeviceAnswers(d, m, ok, id, known)
    PROVE  devices' \in [Device -> DeviceType]
<1>1. devices \in [Device -> DeviceType]
  BY DEF TypeInv, WireOK, WireTypeOK, DeviceType
<1>2. [m EXCEPT !.ok = ok, !.id = id] \in MessageType
  BY DEF MessageType
<1>3. Append(devices[d].outbox, [m EXCEPT !.ok = ok, !.id = id]) \in Seq(MessageType)
  BY <1>1, <1>2 DEF DeviceType
<1> QED BY <1>1, <1>3 DEF DeviceAnswers, DeviceType

LEMMA RequestSentKeeps ==
    ASSUME TypeInv, NEW r \in irps, RequestSent(r), UNCHANGED cvars
    PROVE  TypeInv'
<1> DEFINE d == r.device
           m == r.message
<1>1. /\ irps' = irps \ {r}
      /\ UNCHANGED <<book, inbound, ids, flags, thread, received>>
      /\ \/ DeviceGives(d, m) \/ DeviceTakesBack(d, m) \/ DeviceAgrees(d, m)
         \/ DeviceRefuses(d, m) \/ DeviceSilent
  BY DEF RequestSent
<1>2. devices \in [Device -> DeviceType]
  BY DEF TypeInv, WireOK, WireTypeOK, DeviceType
<1>3. d \in Device /\ m \in MessageType
      /\ (m.kind = "GET" => m.service \in DOMAIN Services)
  BY DEF TypeInv, WireOK, WireTypeOK, RequestsOK, AnswersOK
<1>4. devices[d].ids \in SUBSET ((DOMAIN Services) \X (1 .. MaxId))
  BY <1>2, <1>3 DEF DeviceType
<1>5. devices' \in [Device -> DeviceType] /\ BoundsOK'
  <2>1. CASE DeviceGives(d, m)
    <3>1. PICK id \in FreeIds(d, m.service) :
            DeviceAnswers(d, m, TRUE, id, devices[d].ids \cup {<<m.service, id>>})
      BY <2>1 DEF DeviceGives
    <3>2. id \in 1 .. MaxId /\ id \in 0 .. MaxId /\ m.service \in DOMAIN Services
      BY <2>1, <1>3, <3>1, Sizes DEF FreeIds, DeviceGives
    <3>3. devices[d].ids \cup {<<m.service, id>>} \in SUBSET ((DOMAIN Services) \X (1 .. MaxId))
      BY <1>4, <3>2
    <3>4. UNCHANGED left
      BY <2>1 DEF DeviceGives
    <3> QED BY <1>3, <3>1, <3>2, <3>3, <3>4, AnswerType, Kept
  <2>2. CASE DeviceTakesBack(d, m)
    <3> DEFINE id == <<m.service, m.id>>
    <3>1. /\ DeviceAnswers(d, m, id \in devices[d].ids, m.id, devices[d].ids \ {id})
          /\ UNCHANGED left
      BY <2>2 DEF DeviceTakesBack
    <3>2. (id \in devices[d].ids) \in BOOLEAN
      OBVIOUS
    <3>3. PICK ok \in BOOLEAN :
            DeviceAnswers(d, m, ok, m.id, devices[d].ids \ {id}) /\ UNCHANGED left
      BY <3>1, <3>2, Zenon
    <3>4. m.id \in 0 .. MaxId
      BY <1>3 DEF MessageType
    <3>5. devices[d].ids \ {id} \in SUBSET ((DOMAIN Services) \X (1 .. MaxId))
      BY <1>4
    <3> QED BY <1>3, <3>3, <3>4, <3>5, AnswerType, Kept
  <2>3. CASE DeviceAgrees(d, m)
    <3>1. PICK known \in {{}, devices[d].ids} :
            DeviceAnswers(d, m, TRUE, 0, known) /\ UNCHANGED left
      BY <2>3 DEF DeviceAgrees
    <3>2. 0 \in 0 .. MaxId /\ known \in SUBSET ((DOMAIN Services) \X (1 .. MaxId))
      BY <1>4, <3>1, Sizes
    <3> QED BY <1>3, <3>1, <3>2, AnswerType, Kept
  <2>4. CASE DeviceRefuses(d, m)
    <3>1. DeviceAnswers(d, m, FALSE, m.id, devices[d].ids) /\ Spend("errors")
      BY <2>4 DEF DeviceRefuses
    <3>2. m.id \in 0 .. MaxId
      BY <1>3 DEF MessageType
    <3> QED BY <1>3, <1>4, <3>1, <3>2, AnswerType, SpendKeeps DEF TypeInv, BoundNames
  <2>5. CASE DeviceSilent
    BY <1>2, <2>5, SpendKeeps DEF DeviceSilent, TypeInv, BoundNames
  <2> QED BY <1>1, <2>1, <2>2, <2>3, <2>4, <2>5
<1>6. WireOK'
  <2>1. irps' \subseteq irps /\ UNCHANGED inbound
    BY <1>1
  <2> QED BY <2>1, <1>5 DEF TypeInv, WireOK, WireTypeOK, RequestsOK, AnswersOK, DeviceType
<1>7. UNCHANGED book /\ UNCHANGED ids /\ UNCHANGED flags /\ UNCHANGED thread
      /\ UNCHANGED received /\ UNCHANGED <<thread, cvars>>
  BY <1>1
<1> QED BY <1>5, <1>6, <1>7, Kept DEF TypeInv

LEMMA IndicationType ==
    ASSUME NEW kind \in {"RESTART", "REVOKE"}, NEW service \in 1 .. Len(Services),
           NEW id \in 0 .. MaxId
    PROVE  Indication(kind, service, id) \in MessageType
BY Sizes DEF Indication, MessageType

LEMMA ModemKeeps ==
    ASSUME TypeInv, NEW d \in Device, ModemStep(d), UNCHANGED cvars
    PROVE  TypeInv'
<1>1. devices \in [Device -> DeviceType]
  BY DEF TypeInv, WireOK, WireTypeOK, DeviceType
<1>2. CASE DeviceRestarts(d)
  <2>1. /\ Spend("restarts") /\ UNCHANGED <<book, irps, inbound, ids, flags, thread, received>>
        /\ devices' = [devices EXCEPT ![d] = [ids |-> {},
                          outbox |-> <<Indication("RESTART", 1, 0)>>]]
    BY <1>2 DEF DeviceRestarts
  <2>2. <<Indication("RESTART", 1, 0)>> \in Seq(MessageType)
    BY IndicationType, Sizes
  <2>3. devices' \in [Device -> DeviceType]
    BY <1>1, <2>1, <2>2 DEF DeviceType
  <2>4. WireOK'
    BY <2>1, <2>3 DEF TypeInv, WireOK, WireTypeOK, RequestsOK, AnswersOK, DeviceType
  <2>5. BoundsOK'
    BY <2>1, SpendKeeps DEF TypeInv, BoundNames
  <2> QED BY <2>1, <2>4, <2>5, Kept DEF TypeInv
<1>3. CASE DeviceRevokes(d)
  <2>1. PICK given \in devices[d].ids :
          devices' = [devices EXCEPT
              ![d].ids = @ \ {given},
              ![d].outbox = Append(@, Indication("REVOKE", given[1], given[2]))]
    BY <1>3 DEF DeviceRevokes
  <2>2. given[1] \in 1 .. Len(Services) /\ given[2] \in 0 .. MaxId
    BY <1>1, Sizes DEF DeviceType
  <2>3. Append(devices[d].outbox, Indication("REVOKE", given[1], given[2])) \in Seq(MessageType)
    <3>1. Indication("REVOKE", given[1], given[2]) \in MessageType
      BY <2>2, IndicationType
    <3>2. devices[d].outbox \in Seq(MessageType)
      BY <1>1 DEF DeviceType
    <3> QED BY <3>1, <3>2
  <2>4. devices' \in [Device -> DeviceType]
    BY <1>1, <2>1, <2>3 DEF DeviceType
  <2>5. Spend("revokes") /\ UNCHANGED <<book, irps, inbound, ids, flags, thread, received>>
    BY <1>3 DEF DeviceRevokes
  <2>6. WireOK'
    BY <2>5, <2>4 DEF TypeInv, WireOK, WireTypeOK, RequestsOK, AnswersOK, DeviceType
  <2>7. BoundsOK'
    BY <2>5, SpendKeeps DEF TypeInv, BoundNames
  <2> QED BY <2>5, <2>6, <2>7, Kept DEF TypeInv
<1> QED BY <1>2, <1>3 DEF ModemStep
-----------------------------------------------------------------------------
(* Inbound messages *)

\* The device's first message, and what is left when it is taken.
LEMMA HeadType ==
    ASSUME TypeInv, NEW d \in Device, devices[d].outbox # <<>>
    PROVE  /\ Head(devices[d].outbox) \in MessageType
           /\ [devices EXCEPT ![d].outbox = Tail(@)] \in [Device -> DeviceType]
<1>1. devices \in [Device -> DeviceType]
  BY DEF TypeInv, WireOK, WireTypeOK, DeviceType
<1>2. devices[d].outbox \in Seq(MessageType)
  BY <1>1 DEF DeviceType
<1>3. Head(devices[d].outbox) \in MessageType /\ Tail(devices[d].outbox) \in Seq(MessageType)
  BY <1>2
<1>4. [devices EXCEPT ![d].outbox = Tail(@)] \in [Device -> DeviceType]
  BY <1>1, <1>3 DEF DeviceType
<1> QED BY <1>3, <1>4

LEMMA InboundTakeKeeps ==
    ASSUME TypeInv, NEW d \in Device, InboundTake(d), UNCHANGED cvars
    PROVE  TypeInv'
<1> DEFINE m == Head(devices[d].outbox)
           found == FindTid(transactions, m.tid)
<1>1. /\ devices[d].outbox # <<>>
      /\ devices' = [devices EXCEPT ![d].outbox = Tail(@)]
      /\ transactions' = transactions \ found
      /\ inbound' = [inbound EXCEPT ![d] = {[message |-> m, item |-> i] : i \in found}]
      /\ UNCHANGED <<QMICTLTransactionId, serial, irps, ids, flags, thread, received, left>>
  BY DEF InboundTake
<1>2. m \in MessageType /\ devices' \in [Device -> DeviceType]
  BY <1>1, HeadType
<1>3. found \subseteq ItemType
  BY FoundIsQueued DEF TypeInv, BookTypeOK
<1>4. {[message |-> m, item |-> i] : i \in found}
         \in SUBSET [message : MessageType, item : ItemType]
  BY <1>2, <1>3
<1>5. WireOK'
  <2>1. WireTypeOK' /\ RequestsOK'
    BY <1>1, <1>2, <1>4 DEF TypeInv, WireOK, WireTypeOK, RequestsOK, DeviceType
  <2>2. m.kind \in Kinds
    BY <1>2 DEF InboundTake, IsIndication, MessageType
  <2>3. AnswersOK'
    BY <1>1, <2>2 DEF TypeInv, WireOK, WireTypeOK, AnswersOK
  <2> QED BY <2>1, <2>3 DEF WireOK
<1>6. BookTypeOK'
  BY <1>1 DEF TypeInv, BookTypeOK
<1> QED BY <1>1, <1>5, <1>6, Kept DEF TypeInv

LEMMA IoDevWithId ==
    ASSUME IoDev \in [Client -> IoDevType], NEW x, NEW id \in 0 .. MaxId,
           NEW service \in 0 .. Len(Services)
    PROVE  [IoDev EXCEPT ![x].ClientId = id, ![x].QMIType = service]
              \in [Client -> IoDevType]
<1> DEFINE with == [IoDev EXCEPT ![x].ClientId = id, ![x].QMIType = service]
<1>1. CASE x \in Client
  <2>1. [IoDev[x] EXCEPT !.ClientId = id, !.QMIType = service] \in IoDevType
    BY ZenonT(30), <1>1 DEF IoDevType
  <2>2. with = [IoDev EXCEPT ![x] = [IoDev[x] EXCEPT !.ClientId = id, !.QMIType = service]]
    BY <1>1
  <2> QED BY <2>1, <2>2
<1>2. CASE x \notin Client
  <2>1. with = IoDev
    BY <1>2
  <2> QED BY <2>1
<1> QED BY <1>1, <1>2

LEMMA GivenIdType ==
    ASSUME TypeInv, NEW m \in MessageType, NEW item \in ItemType,
           GivesId(m, item) \/ HandleRelease(m, item)
    PROVE  IdsTypeOK'
<1>1. /\ m.id \in 0 .. MaxId /\ m.service \in 0 .. Len(Services)
      /\ item.context \in Context
  BY DEF MessageType, ItemType
<1>2. ClientId \in [Adapter -> [DOMAIN Services -> 0 .. MaxId]] /\ IoDev \in [Client -> IoDevType]
  BY DEF TypeInv, IdsTypeOK
<1>3. CASE GivesId(m, item)
  <2>1. CASE UNCHANGED ids
    BY <2>1, Kept
  <2>2. CASE /\ IoDev' = [IoDev EXCEPT ![item.context].ClientId = m.id,
                                       ![item.context].QMIType = m.service]
             /\ UNCHANGED ClientId
    BY <1>1, <1>2, <2>2, IoDevWithId DEF IdsTypeOK
  <2>3. CASE /\ ClientId' = [ClientId EXCEPT ![item.context][m.service] = m.id]
             /\ UNCHANGED IoDev
    BY <1>1, <1>2, <2>3 DEF IdsTypeOK
  <2> QED BY <1>3, <2>1, <2>2, <2>3 DEF GivesId
<1>4. CASE HandleRelease(m, item)
  <2>1. UNCHANGED ClientId
    BY <1>4 DEF HandleRelease
  <2>2. IoDev' = IoDev
        \/ IoDev' = [IoDev EXCEPT ![item.context].ClientId = 0, ![item.context].QMIType = 0]
    BY <1>4 DEF HandleRelease
  <2>3. 0 \in 0 .. MaxId /\ 0 \in 0 .. Len(Services)
    BY Sizes
  <2>4. [IoDev EXCEPT ![item.context].ClientId = 0, ![item.context].QMIType = 0]
           \in [Client -> IoDevType]
    BY <1>2, <2>3, IoDevWithId
  <2> QED BY <1>2, <2>1, <2>2, <2>4 DEF IdsTypeOK
<1> QED BY <1>3, <1>4

LEMMA InboundHandleKeeps ==
    ASSUME TypeInv, NEW d \in Device, InboundHandle(d), UNCHANGED cvars
    PROVE  TypeInv'
<1>1. PICK h \in inbound[d] :
        /\ inbound' = [inbound EXCEPT ![d] = {}]
        /\ \E x \in {h.item.adapter, h.item.context} :
              received' \subseteq received \cup {<<x, h.message.kind>>}
        /\ GivesId(h.message, h.item) \/ HandleRelease(h.message, h.item)
        /\ \/ /\ IsQMIOutOfService' = [IsQMIOutOfService EXCEPT ![h.item.adapter] = FALSE]
              /\ QmiSyncNeeded' = [QmiSyncNeeded EXCEPT ![h.item.adapter] = 0]
           \/ UNCHANGED <<QmiSyncNeeded, IsQMIOutOfService>>
        /\ IsWdsAdminPresent' \in {IsWdsAdminPresent, IsWdsAdminPresent \cup {h.item.adapter}}
        /\ UNCHANGED <<book, irps, devices, ControlQMIType, thread, left>>
  BY DEF InboundHandle
<1>2. h.message \in MessageType /\ h.message.kind \in Kinds /\ h.item \in ItemType
  BY DEF TypeInv, WireOK, WireTypeOK, AnswersOK
<1>3. WireOK'
  BY <1>1 DEF TypeInv, WireOK, WireTypeOK, RequestsOK, AnswersOK
<1>4. EventsOK'
  BY <1>1, <1>2 DEF TypeInv, EventsOK, ItemType, Context
<1>5. IdsTypeOK'
  BY <1>1, <1>2, GivenIdType
<1>6. FlagsTypeOK'
  <2>3. FlagsTypeOK /\ h.item.adapter \in Adapter
    BY <1>2 DEF TypeInv, ItemType
  <2>4. IsWdsAdminPresent' \subseteq Adapter /\ UNCHANGED ControlQMIType
    BY <1>1, <2>3 DEF FlagsTypeOK
  <2>1. CASE UNCHANGED <<QmiSyncNeeded, IsQMIOutOfService>>
    BY <2>1, <2>3, <2>4 DEF FlagsTypeOK
  <2>2. CASE /\ IsQMIOutOfService' = [IsQMIOutOfService EXCEPT ![h.item.adapter] = FALSE]
             /\ QmiSyncNeeded' = [QmiSyncNeeded EXCEPT ![h.item.adapter] = 0]
    <3>1. h.item.adapter \in Adapter /\ 0 \in Int /\ FALSE \in BOOLEAN
      BY <1>2 DEF ItemType
    <3>2. FlagsTypeOK
      BY DEF TypeInv
    <3>3. QmiSyncNeeded' \in [Adapter -> Int]
      BY <2>2, <3>1, <3>2 DEF FlagsTypeOK
    <3>4. IsQMIOutOfService' \in [Adapter -> BOOLEAN]
      BY <2>2, <3>1, <3>2 DEF FlagsTypeOK
    <3> QED BY <2>3, <2>4, <3>3, <3>4 DEF FlagsTypeOK
  <2> QED BY <1>1, <2>1, <2>2
<1> QED BY <1>1, <1>3, <1>4, <1>5, <1>6, Kept DEF TypeInv

LEMMA RevokedType ==
    ASSUME TypeInv, NEW d \in Device, NEW m \in MessageType, HandleRevoke(d, m)
    PROVE  IdsTypeOK' /\ ControlQMIType' \in [Adapter -> {0, MP_DEV_TYPE_CLIENT}]
<1>1. /\ ClientId \in [Adapter -> [DOMAIN Services -> 0 .. MaxId]]
      /\ IoDev \in [Client -> IoDevType]
      /\ ControlQMIType \in [Adapter -> {0, MP_DEV_TYPE_CLIENT}]
  BY DEF TypeInv, IdsTypeOK, FlagsTypeOK
<1>2. 0 \in 0 .. MaxId /\ MP_DEV_TYPE_CLIENT \in 0 .. Len(Services)
  BY Sizes DEF MP_DEV_TYPE_CLIENT
<1>3. CASE ClientId' = [ClientId EXCEPT ![d][m.service] = 0]
           /\ UNCHANGED <<IoDev, ControlQMIType>>
  BY <1>1, <1>2, <1>3 DEF IdsTypeOK
<1>4. CASE /\ UNCHANGED ids
           /\ \E a : ControlQMIType' = [ControlQMIType EXCEPT ![a] = MP_DEV_TYPE_CLIENT]
  BY <1>1, <1>4 DEF IdsTypeOK, ids
<1>5. CASE /\ UNCHANGED <<ClientId, ControlQMIType>>
           /\ \E some \in SUBSET Client : IoDev' = [c \in Client |->
                IF c \in some
                THEN [IoDev[c] EXCEPT !.ClientId = 0, !.QMIType = MP_DEV_TYPE_CLIENT]
                ELSE IoDev[c]]
  <2>1. ASSUME NEW c \in Client
        PROVE  /\ IoDev[c] \in IoDevType
               /\ [IoDev[c] EXCEPT !.ClientId = 0, !.QMIType = MP_DEV_TYPE_CLIENT]
                     \in IoDevType
    BY <1>1, <1>2 DEF IoDevType
  <2>2. IoDev' \in [Client -> IoDevType]
    BY <1>5, <2>1
  <2> QED BY <1>1, <1>5, <2>2 DEF IdsTypeOK
<1>6. HandleRevoke(d, m) =>
        \/ ClientId' = [ClientId EXCEPT ![d][m.service] = 0]
           /\ UNCHANGED <<IoDev, ControlQMIType>>
        \/ /\ UNCHANGED ids
           /\ \E a : ControlQMIType' = [ControlQMIType EXCEPT ![a] = MP_DEV_TYPE_CLIENT]
        \/ /\ UNCHANGED <<ClientId, ControlQMIType>>
           /\ IoDev' = [c \in Client |->
                IF c \in {e \in Client : UntypedClients(d) # {} /\ e = FirstClient(UntypedClients(d))}
                THEN [IoDev[c] EXCEPT !.ClientId = 0, !.QMIType = MP_DEV_TYPE_CLIENT]
                ELSE IoDev[c]]
  BY DEF HandleRevoke
<1> QED BY <1>3, <1>4, <1>5, <1>6

LEMMA InboundIndicationKeeps ==
    ASSUME TypeInv, NEW d \in Device, InboundIndication(d), UNCHANGED cvars
    PROVE  TypeInv'
<1> DEFINE m == Head(devices[d].outbox)
<1>1. /\ devices[d].outbox # <<>>
      /\ devices' = [devices EXCEPT ![d].outbox = Tail(@)]
      /\ \/ HandleRevoke(d, m) /\ UNCHANGED <<QmiSyncNeeded, IsQMIOutOfService>>
         \/ /\ IsQMIOutOfService' = [IsQMIOutOfService EXCEPT ![d] = FALSE]
            /\ QmiSyncNeeded' = NeedSync(d)
            /\ UNCHANGED <<ids, ControlQMIType>>
      /\ UNCHANGED <<book, irps, inbound, IsWdsAdminPresent, thread, received, left>>
  BY DEF InboundIndication
<1>2. m \in MessageType /\ devices' \in [Device -> DeviceType]
  BY <1>1, HeadType
<1>3. WireOK'
  BY <1>1, <1>2 DEF TypeInv, WireOK, WireTypeOK, RequestsOK, AnswersOK, DeviceType
<1>4. IdsTypeOK'
  BY <1>1, <1>2, RevokedType, Kept
<1>5. FlagsTypeOK'
  <2>3. FlagsTypeOK
    BY DEF TypeInv
  <2>1. CASE HandleRevoke(d, m) /\ UNCHANGED <<QmiSyncNeeded, IsQMIOutOfService>>
    BY <1>1, <1>2, <2>1, <2>3, RevokedType DEF FlagsTypeOK
  <2>2. CASE /\ IsQMIOutOfService' = [IsQMIOutOfService EXCEPT ![d] = FALSE]
             /\ QmiSyncNeeded' = NeedSync(d) /\ UNCHANGED <<ids, ControlQMIType>>
    <3>1. FlagsTypeOK
      BY DEF TypeInv
    <3>2. NeedSync(d) \in [Adapter -> Int]
      BY <3>1 DEF FlagsTypeOK, NeedSync
    <3>3. IsQMIOutOfService' \in [Adapter -> BOOLEAN]
      BY <2>2, <3>1 DEF FlagsTypeOK
    <3> QED BY <1>1, <2>2, <2>3, <3>2, <3>3 DEF FlagsTypeOK
  <2> QED BY <1>1, <2>1, <2>2
<1> QED BY <1>1, <1>3, <1>4, <1>5, Kept DEF TypeInv

LEMMA TransactionKeeps ==
    ASSUME TypeInv, TransactionStep, UNCHANGED cvars
    PROVE  TypeInv'
<1>1. CASE \E t \in Thread : CallStep(t)
  BY <1>1, RequestKeeps, EndingCallKeeps DEF CallStep
<1>2. CASE LowerStep
  BY <1>2, RequestSentKeeps, RequestLostKeeps DEF LowerStep
<1>3. CASE \E d \in Device : ModemStep(d)
  BY <1>3, ModemKeeps
<1>4. CASE \E d \in Device : InboundStep(d)
  BY <1>4, InboundTakeKeeps, InboundHandleKeeps, InboundIndicationKeeps DEF InboundStep
<1> QED BY <1>1, <1>2, <1>3, <1>4 DEF TransactionStep
-----------------------------------------------------------------------------
(* Initialisation (module QmiClients) *)

\* A thread asks: its call begins and an event is cleared.
LEMMA AsksRecord ==
    ASSUME TypeInv, NEW t \in Thread, NEW record \in ThreadType, NEW stage \in Stages,
           WorkOK(t, [record EXCEPT !.stage = stage]),
           NEW kind \in {"GET", "VERSION", "SYNC"}, NEW a \in Adapter, NEW x \in Context,
           NEW service \in 0 .. Len(Services),
           kind = "GET" => service \in DOMAIN Services,
           Asks(t, record, stage, kind, a, x, service)
    PROVE  /\ EventsOK'
           /\ \E r : /\ RecordOK(t, r) /\ Becomes(t, r)
                     /\ r.job = record.job /\ r.stage = stage
<1> DEFINE s == [record EXCEPT !.stage = stage]
           r == Call(s, kind, a, x, service)
<1>1. Becomes(t, r) /\ received' \subseteq received
  BY DEF Asks
<1>2. s \in ThreadType /\ s.job = record.job /\ s.stage = stage
  BY DEF ThreadType
<1>3. IdsTypeOK /\ kind \in Kinds /\ kind # "RELEASE" /\ WorkOK(t, s)
  BY DEF TypeInv, Kinds
<1> HIDE DEF s
<1>4. RecordOK(t, r) /\ r.job = s.job /\ r.stage = s.stage
  BY <1>2, <1>3, CallRecord
<1>5. EventsOK'
  BY <1>1 DEF TypeInv, EventsOK
<1> QED BY <1>1, <1>2, <1>4, <1>5

\* What a thread does after initialisation.
LEMMA GoesOnRecord ==
    ASSUME TypeInv, NEW t \in Thread, NEW record, RecordOK(t, record),
           t \in App => record.job = "service",
           NEW success, GoesOn(t, record, success)
    PROVE  /\ EventsOK'
           /\ \E r : /\ RecordOK(t, r) /\ Becomes(t, r) /\ ~Inside(r)
                     /\ r.job = "service" => record.job = "service"
<1>1. CASE Becomes(t, IdleThread("idle")) /\ UNCHANGED received
  <2>1. IdleThread("idle") \in ThreadType /\ CallOK(IdleThread("idle"))
    BY IdleRecord DEF Jobs
  <2>2. WorkOK(t, IdleThread("idle")) /\ ~Inside(IdleThread("idle"))
        /\ IdleThread("idle").job = "idle"
    BY DEF WorkOK, Inside, IdleThread, InitStages, None
  <2>3. EventsOK'
    BY <1>1, Kept
  <2> QED BY <1>1, <2>1, <2>2, <2>3 DEF RecordOK
<1>2. CASE t \in App /\ Asks(t, record, "got", "GET", Uses[t], record.io, ClientService)
  <2>1. record \in ThreadType /\ WorkOK(t, record) /\ record.job = "service"
    BY <1>2 DEF RecordOK
  <2>2. record.io \in Client /\ record.io \in Context /\ Uses[t] \in Adapter
    BY <1>2, <2>1, AdaptersAssumption DEF WorkOK, Context
  <2>3. WorkOK(t, [record EXCEPT !.stage = "got"])
    BY <1>2, <2>1 DEF WorkOK, ThreadType, InitStages
  <2>4. ClientService \in 0 .. Len(Services) /\ ClientService \in DOMAIN Services
    BY Sizes
  <2>5. /\ EventsOK'
        /\ \E r : RecordOK(t, r) /\ Becomes(t, r) /\ r.job = record.job /\ r.stage = "got"
    <3>1. "got" \in Stages /\ "GET" \in {"GET", "VERSION", "SYNC"}
      BY DEF Stages
    <3> QED BY <1>2, <2>1, <2>2, <2>3, <2>4, <3>1, AsksRecord
  <2>6. \A r : r.stage = "got" => ~Inside(r)
    BY DEF Inside, InitStages
  <2> QED BY <2>1, <2>5, <2>6
<1> QED BY <1>1, <1>2 DEF GoesOn, Thread

\* The other variables of the control state that an initialisation may set.
MarksOK ==
    /\ UNCHANGED ServiceFileOf
    /\ InitQmiEvent' \in [Adapter -> BOOLEAN]
    /\ MainAdapterReady' \in [Device -> SUBSET {"sync", "format"}]

\* A thread within initialisation.
LEMMA InitialisingThread ==
    ASSUME TypeInv, NEW t \in Thread, thread[t].stage \in InitStages
    PROVE  /\ Inside(thread[t]) /\ AdapterOf(t) \in Adapter /\ AdapterOf(t) \in Context
           /\ Initializes(t) /\ (t \in App => thread[t].job = "service")
           /\ t \in Adapter \/ thread[t].job = "service"
           /\ QmiInInitialization[AdapterOf(t)] \in Int
<1>1. WorkOK(t, thread[t])
  BY DEF TypeInv, ThreadsOK, RecordOK
<1>2. AdapterOf(t) \in Adapter
  BY Devices
<1>3. QmiInInitialization[AdapterOf(t)] \in Int
  BY <1>2 DEF TypeInv, ControlOK, ControlTypeOK
<1> QED BY <1>1, <1>2, <1>3, Devices DEF WorkOK, Inside, Initializes, Context, Thread

LEMMA InitReturnsKeeps ==
    ASSUME TypeInv, NEW t \in Thread, thread[t].stage \in InitStages,
           NEW success, InitReturns(t, success), MarksOK
    PROVE  ThreadsOK' /\ ControlOK' /\ EventsOK'
<1>1. ThreadsOK /\ RecordOK(t, Rest(t)) /\ Rest(t).job = thread[t].job
  BY RestRecord DEF TypeInv
<1>2. GoesOn(t, Rest(t), success)
      /\ QmiInInitialization' = [QmiInInitialization EXCEPT ![AdapterOf(t)] = @ - 1]
  BY DEF InitReturns
<1>3. /\ EventsOK'
      /\ \E r : /\ RecordOK(t, r) /\ Becomes(t, r) /\ ~Inside(r)
                /\ r.job = "service" => Rest(t).job = "service"
  BY <1>1, <1>2, InitialisingThread, GoesOnRecord
<1>4. PICK r : RecordOK(t, r) /\ Becomes(t, r) /\ ~Inside(r)
  BY <1>3
<1>5. QmiInInitialization' = [QmiInInitialization EXCEPT
         ![AdapterOf(t)] = @ - OneIf(Inside(thread[t])) + OneIf(Inside(r))]
  <2>1. OneIf(Inside(thread[t])) = 1 /\ OneIf(Inside(r)) = 0
    BY <1>4, InitialisingThread DEF OneIf
  <2>2. QmiInInitialization[AdapterOf(t)] - 1 = QmiInInitialization[AdapterOf(t)] - 1 + 0
    BY InitialisingThread
  <2> QED BY <1>2, <2>1, <2>2
<1> QED BY <1>3, <1>4, <1>5, InitMoves, InitialisingThread DEF MarksOK

\* A step from one stage of initialisation to another.
LEMMA InitGoesOn ==
    ASSUME TypeInv, NEW t \in Thread, thread[t].stage \in InitStages,
           NEW r, RecordOK(t, r), Becomes(t, r), r.job = thread[t].job,
           r.stage \in InitStages, UNCHANGED QmiInInitialization, MarksOK
    PROVE  ThreadsOK' /\ ControlOK'
<1>1. ThreadsOK'
  BY BecomesOK DEF TypeInv
<1>2. Inside(thread[t]) /\ Inside(r)
  BY InitialisingThread DEF Inside
<1> QED BY <1>1, <1>2, BecomesControl DEF TypeInv, MarksOK

LEMMA InitRest ==
    ASSUME TypeInv, NEW t \in Thread, thread[t].stage \in InitStages
    PROVE  /\ Rest(t) \in ThreadType /\ Rest(t).job = thread[t].job
           /\ \A stage \in InitStages : WorkOK(t, [Rest(t) EXCEPT !.stage = stage])
<1>1. RecordOK(t, Rest(t)) /\ Rest(t).job = thread[t].job
  BY RestRecord DEF TypeInv
<1>2. WorkOK(t, Rest(t)) /\ Rest(t) \in ThreadType
  BY <1>1 DEF RecordOK
<1>3. Initializes(t)
  BY InitialisingThread
<1>4. ASSUME NEW stage \in InitStages
      PROVE  WorkOK(t, [Rest(t) EXCEPT !.stage = stage])
  <2> DEFINE r == [Rest(t) EXCEPT !.stage = stage]
  <2>1. r.job = Rest(t).job /\ r.io = Rest(t).io /\ r.stage = stage
    BY <1>2 DEF ThreadType
  <2>2. (t \in Adapter /\ r.job = "init") \/ (t \in App /\ r.job = "service")
    BY <1>1, <1>3, <2>1 DEF Initializes
  <2> HIDE DEF r
  <2> QED BY <1>2, <2>1, <2>2 DEF WorkOK, InitStages
<1> QED BY <1>1, <1>2, <1>4

\* A request within initialisation.
LEMMA InitAsks ==
    ASSUME TypeInv, NEW t \in Thread, thread[t].stage \in InitStages,
           NEW stage \in InitStages, NEW kind \in {"GET", "VERSION", "SYNC"},
           NEW service \in 0 .. Len(Services),
           kind = "GET" => service \in DOMAIN Services,
           Asks(t, Rest(t), stage, kind, AdapterOf(t), AdapterOf(t), service),
           UNCHANGED QmiInInitialization, MarksOK
    PROVE  ThreadsOK' /\ ControlOK' /\ EventsOK'
<1>1. /\ Rest(t) \in ThreadType /\ Rest(t).job = thread[t].job
      /\ WorkOK(t, [Rest(t) EXCEPT !.stage = stage])
  BY InitRest
<1>2. AdapterOf(t) \in Adapter /\ AdapterOf(t) \in Context /\ stage \in Stages
  BY InitialisingThread DEF InitStages, Stages
<1>3. /\ EventsOK'
      /\ \E r : /\ RecordOK(t, r) /\ Becomes(t, r)
                /\ r.job = Rest(t).job /\ r.stage = stage
  BY <1>1, <1>2, AsksRecord
<1> QED BY <1>1, <1>3, InitGoesOn

\* A step to a stage without a call.
LEMMA InitPauses ==
    ASSUME TypeInv, NEW t \in Thread, thread[t].stage \in InitStages,
           NEW stage \in InitStages, Becomes(t, [Rest(t) EXCEPT !.stage = stage]),
           UNCHANGED <<received, QmiInInitialization>>, MarksOK
    PROVE  ThreadsOK' /\ ControlOK' /\ EventsOK'
<1> DEFINE r == [Rest(t) EXCEPT !.stage = stage]
<1>1. Rest(t) \in ThreadType /\ Rest(t).job = thread[t].job /\ WorkOK(t, r)
  BY InitRest
<1>2. stage \in Stages
  BY DEF InitStages, Stages
<1>3. r \in ThreadType /\ r.job = thread[t].job /\ r.stage = stage
  BY <1>1, <1>2 DEF ThreadType
<1>4. CallOK(r)
  BY DEF CallOK, Rest, IdleThread, Calls, None
<1>5. EventsOK'
  BY Kept
<1>6. Becomes(t, r)
  OBVIOUS
<1> HIDE DEF r
<1>7. RecordOK(t, r)
  BY <1>1, <1>3, <1>4 DEF RecordOK
<1> QED BY <1>3, <1>5, <1>6, <1>7, InitGoesOn

LEMMA OpensServiceKeeps ==
    ASSUME TypeInv, NEW t \in Thread, thread[t].stage \in InitStages,
           NEW s \in 1 .. Len(Services), OpensService(t, s),
           UNCHANGED QmiInInitialization, MarksOK
    PROVE  ThreadsOK' /\ ControlOK' /\ EventsOK'
<1>1. "opened" \in InitStages /\ "opened" \in Stages /\ "returned" \in CallStates
      /\ "failed" \in Results
  BY DEF InitStages, Stages, CallStates, Results
<1>2. s \in DOMAIN Services /\ s \in 0 .. Len(Services)
  BY Sizes
<1>3. CASE Asks(t, Rest(t), "opened", "GET", AdapterOf(t), AdapterOf(t), s)
  BY <1>1, <1>2, <1>3, InitAsks
<1> DEFINE r == [Rest(t) EXCEPT !.stage = "opened", !.service = s,
                                !.pc = "returned", !.result = "failed"]
<1>4. CASE Becomes(t, r) /\ UNCHANGED received
  <2>1. /\ Rest(t) \in ThreadType /\ Rest(t).job = thread[t].job
        /\ WorkOK(t, [Rest(t) EXCEPT !.stage = "opened"])
    BY <1>1, InitRest
  <2>2. r \in ThreadType
    BY <1>1, <1>2, <2>1 DEF ThreadType
  <2>3. r.job = thread[t].job /\ r.stage = "opened" /\ CallOK(r)
    BY <2>1 DEF ThreadType, CallOK, Calls
  <2>4. WorkOK(t, r)
    BY <2>1 DEF WorkOK, ThreadType
  <2>5. EventsOK'
    BY <1>4, Kept
  <2>6. Becomes(t, r)
    BY <1>4
  <2> HIDE DEF r
  <2>7. RecordOK(t, r)
    BY <2>2, <2>3, <2>4 DEF RecordOK
  <2> QED BY <1>1, <2>3, <2>5, <2>6, <2>7, InitGoesOn
<1> QED BY <1>3, <1>4 DEF OpensService

\* A version or sync request is sent again, or initialisation ends without it.
LEMMA AgainKeeps ==
    ASSUME TypeInv, NEW t \in Thread, thread[t].stage \in InitStages,
           Again(t) \/ GivesUp(t), MarksOK
    PROVE  ThreadsOK' /\ ControlOK' /\ EventsOK'
<1>1. CASE Again(t)
  <2> DEFINE r == [thread[t] EXCEPT !.pc = "request", !.tries = @ + 1]
  <2>1. /\ thread[t].result = "timeout" /\ thread[t].tries + 1 < QmiInitRetries
        /\ thread' = [thread EXCEPT ![t].pc = "request", ![t].tries = @ + 1]
        /\ UNCHANGED <<received, QmiInInitialization>>
    BY <1>1 DEF Again
  <2>2. thread[t] \in ThreadType /\ CallOK(thread[t]) /\ WorkOK(t, thread[t])
    BY DEF TypeInv, ThreadsOK, RecordOK
  <2>3. thread[t].tries + 1 \in 0 .. QmiInitRetries /\ "request" \in CallStates
    <3>1. thread[t].tries \in 0 .. QmiInitRetries
      BY <2>2 DEF ThreadType
    <3>2. QmiInitRetries \in Nat
      BY Sizes
    <3>3. "request" \in CallStates
      BY DEF CallStates
    <3>4. thread[t].tries + 1 < QmiInitRetries
      BY <2>1
    <3> QED BY <3>1, <3>2, <3>3, <3>4, OneMore
  <2>4. r \in ThreadType
    BY <2>2, <2>3 DEF ThreadType
  <2>5. r.job = thread[t].job /\ r.stage = thread[t].stage
    BY <2>2 DEF ThreadType
  <2>6. CallOK(r) /\ WorkOK(t, r)
    BY <2>1, <2>2 DEF CallOK, WorkOK, ThreadType
  <2>7. Becomes(t, r)
    BY <2>1 DEF Becomes, TypeInv, ThreadsOK, ThreadTypeOK
  <2>8. EventsOK'
    BY <2>1, Kept
  <2> HIDE DEF r
  <2>9. RecordOK(t, r)
    BY <2>4, <2>6 DEF RecordOK
  <2> QED BY <2>1, <2>5, <2>7, <2>8, <2>9, InitGoesOn
<1>2. CASE GivesUp(t)
  BY <1>2, InitReturnsKeeps DEF GivesUp
<1> QED BY <1>1, <1>2

LEMMA MarksKept ==
    ASSUME TypeInv
    PROVE  UNCHANGED <<InitQmiEvent, MainAdapterReady, ServiceFileOf>> => MarksOK
BY DEF TypeInv, ControlOK, ControlTypeOK, MarksOK

LEMMA InitPolledKeeps ==
    ASSUME TypeInv, NEW t \in Thread, InitPolled(t)
    PROVE  TypeInv'
<1>1. /\ thread[t].stage \in InitStages
      /\ UNCHANGED <<book, wire, ids, flags, InitQmiEvent, MainAdapterReady, ServiceFileOf>>
  BY DEF InitPolled, InitStages
<1>2. MarksOK
  BY <1>1, MarksKept
<1>3. ThreadsOK' /\ ControlOK' /\ EventsOK' /\ BoundsOK'
  <2>1. CASE (\E success : InitReturns(t, success)) /\ (UNCHANGED left \/ Spend("polls"))
    BY <1>1, <1>2, <2>1, InitReturnsKeeps, Kept, SpendKeeps DEF TypeInv, BoundNames
  <2>2. CASE Begins(t, Rest(t)) /\ UNCHANGED <<left, QmiInInitialization>>
    <3>1. Asks(t, Rest(t), "version", "VERSION", AdapterOf(t), AdapterOf(t), 0)
      BY <2>2 DEF Begins
    <3>2. "version" \in InitStages /\ 0 \in 0 .. Len(Services)
      BY Sizes DEF InitStages
    <3> QED BY <1>1, <1>2, <2>2, <3>1, <3>2, InitAsks, Kept
  <2> QED BY <2>1, <2>2 DEF InitPolled
<1> QED BY <1>1, <1>3, Kept DEF TypeInv

LEMMA InitVersionKeeps ==
    ASSUME TypeInv, NEW t \in Thread, InitVersion(t)
    PROVE  TypeInv'
<1>1. /\ thread[t].stage \in InitStages
      /\ UNCHANGED <<book, wire, ids, flags, left, InitQmiEvent, MainAdapterReady,
                     ServiceFileOf>>
  BY DEF InitVersion, InitStages, Back
<1>2. MarksOK
  BY <1>1, MarksKept
<1>3. ThreadsOK' /\ ControlOK' /\ EventsOK'
  <2>1. CASE Again(t) \/ GivesUp(t)
    BY <1>1, <1>2, <2>1, AgainKeeps
  <2>2. CASE /\ Asks(t, Rest(t), "sync", "SYNC", AdapterOf(t), AdapterOf(t), 0)
             /\ UNCHANGED QmiInInitialization
    <3>1. "sync" \in InitStages /\ 0 \in 0 .. Len(Services)
      BY Sizes DEF InitStages
    <3> QED BY <1>1, <1>2, <2>2, <3>1, InitAsks
  <2>3. CASE /\ Becomes(t, [Rest(t) EXCEPT !.stage = "main"])
             /\ UNCHANGED <<received, QmiInInitialization>>
    <3>1. "main" \in InitStages
      BY DEF InitStages
    <3> QED BY <1>1, <1>2, <2>3, <3>1, InitPauses
  <2> QED BY <2>1, <2>2, <2>3 DEF InitVersion
<1> QED BY <1>1, <1>3, Kept DEF TypeInv

LEMMA FormatsKeeps ==
    ASSUME TypeInv, NEW t \in Thread, thread[t].stage \in InitStages, Formats(t),
           UNCHANGED QmiInInitialization, MarksOK
    PROVE  ThreadsOK' /\ ControlOK' /\ EventsOK'
<1>1. "format" \in InitStages
  BY DEF InitStages
<1> QED BY <1>1, InitPauses DEF Formats

LEMMA InitSyncKeeps ==
    ASSUME TypeInv, NEW t \in Thread, InitSync(t)
    PROVE  TypeInv'
<1>1. /\ thread[t].stage \in InitStages
      /\ UNCHANGED <<book, wire, ids, flags, left, InitQmiEvent, ServiceFileOf>>
  BY DEF InitSync, InitStages, Back
<1>2. ThreadsOK' /\ ControlOK' /\ EventsOK'
  <2>1. CASE (Again(t) \/ GivesUp(t)) /\ UNCHANGED MainAdapterReady
    BY <1>1, <2>1, AgainKeeps, MarksKept
  <2>2. CASE /\ MainAdapterReady' = [MainAdapterReady EXCEPT ![AdapterOf(t)] = @ \cup {"sync"}]
             /\ Formats(t) /\ UNCHANGED QmiInInitialization
    <3>1. MarksOK
      <4>1. MainAdapterReady \in [Device -> SUBSET {"sync", "format"}]
            /\ InitQmiEvent \in [Adapter -> BOOLEAN]
        BY DEF TypeInv, ControlOK, ControlTypeOK
      <4>2. \A ready \in SUBSET {"sync", "format"} : ready \cup {"sync"} \in SUBSET {"sync", "format"}
        OBVIOUS
      <4> QED BY <1>1, <2>2, <4>1, <4>2 DEF MarksOK
    <3> QED BY <1>1, <2>2, <3>1, FormatsKeeps
  <2> QED BY <2>1, <2>2 DEF InitSync
<1> QED BY <1>1, <1>2, Kept DEF TypeInv

LEMMA InitMainKeeps ==
    ASSUME TypeInv, NEW t \in Thread, InitMain(t)
    PROVE  TypeInv'
<1>1. /\ thread[t].stage \in InitStages
      /\ UNCHANGED <<book, wire, ids, flags, left, InitQmiEvent, MainAdapterReady,
                     ServiceFileOf>>
      /\ \/ Formats(t) /\ UNCHANGED QmiInInitialization
         \/ InitReturns(t, TRUE)
  BY DEF InitMain, InitStages
<1>2. MarksOK
  BY <1>1, MarksKept
<1>3. ThreadsOK' /\ ControlOK' /\ EventsOK'
  BY <1>1, <1>2, FormatsKeeps, InitReturnsKeeps
<1> QED BY <1>1, <1>3, Kept DEF TypeInv

LEMMA InitFormatKeeps ==
    ASSUME TypeInv, NEW t \in Thread, InitFormat(t)
    PROVE  TypeInv'
<1>1. /\ thread[t].stage \in InitStages /\ OpensService(t, 1)
      /\ \/ UNCHANGED MainAdapterReady
         \/ MainAdapterReady' = [MainAdapterReady EXCEPT
                ![Physical[AdapterOf(t)]] = @ \cup {"format"}]
      /\ UNCHANGED <<book, wire, ids, flags, left, QmiInInitialization, InitQmiEvent,
                     ServiceFileOf>>
  <2>1. MainAdapterReady \in [Device -> SUBSET {"sync", "format"}]
    BY DEF TypeInv, ControlOK, ControlTypeOK
  <2> QED BY <2>1 DEF InitFormat, InitStages
<1>2. MarksOK
  <2>1. MainAdapterReady \in [Device -> SUBSET {"sync", "format"}]
        /\ InitQmiEvent \in [Adapter -> BOOLEAN]
    BY DEF TypeInv, ControlOK, ControlTypeOK
  <2>2. \A ready \in SUBSET {"sync", "format"} : ready \cup {"format"} \in SUBSET {"sync", "format"}
    OBVIOUS
  <2> QED BY <1>1, <2>1, <2>2 DEF MarksOK
<1>3. ThreadsOK' /\ ControlOK' /\ EventsOK'
  <2>1. 1 \in 1 .. Len(Services)
    BY Sizes
  <2> QED BY <1>1, <1>2, <2>1, OpensServiceKeeps
<1> QED BY <1>1, <1>3, Kept DEF TypeInv

LEMMA OpenedServiceKeeps ==
    ASSUME TypeInv, NEW t \in Thread, OpenedService(t)
    PROVE  TypeInv'
<1> DEFINE a == AdapterOf(t)
           s == thread[t].service
<1>1. /\ thread[t].stage \in InitStages
      /\ UNCHANGED <<book, irps, inbound, IoDev, flags, left, InitQmiEvent,
                     MainAdapterReady, ServiceFileOf>>
      /\ \/ devices' = devices
         \/ devices' = [devices EXCEPT ![Physical[a]].ids = {}]
      /\ \/ ClientId' = ClientId
         \/ ClientId' = [ClientId EXCEPT ![a] = AllZero]
  BY DEF OpenedService, InitStages, Back
<1>2. MarksOK
  BY <1>1, MarksKept
<1>3. thread[t] \in ThreadType /\ thread[t].stage = "opened"
  BY DEF TypeInv, ThreadsOK, RecordOK, OpenedService, Back
<1>4. ThreadsOK' /\ ControlOK' /\ EventsOK'
  <2>1. CASE /\ s < Len(Services) /\ OpensService(t, s + 1)
             /\ UNCHANGED QmiInInitialization
    <3>1. s + 1 \in 1 .. Len(Services)
      BY SMTT(30), <1>3, <2>1, Sizes DEF ThreadType
    <3> QED BY <1>1, <1>2, <2>1, <3>1, OpensServiceKeeps
  <2>2. CASE InitReturns(t, TRUE)
    BY <1>1, <1>2, <2>2, InitReturnsKeeps
  <2> QED BY <2>1, <2>2 DEF OpenedService
<1>5. WireOK'
  <2>1. devices \in [Device -> DeviceType]
    BY DEF TypeInv, WireOK, WireTypeOK, DeviceType
  <2>2. devices' \in [Device -> DeviceType]
    BY SMTT(30), <1>1, <2>1 DEF DeviceType
  <2> QED BY <1>1, <2>2 DEF TypeInv, WireOK, WireTypeOK, RequestsOK, AnswersOK, DeviceType
<1>6. IdsTypeOK'
  <2>1. AllZero \in [DOMAIN Services -> 0 .. MaxId]
    BY Sizes DEF AllZero
  <2> QED BY <1>1, <2>1 DEF TypeInv, IdsTypeOK
<1> QED BY <1>1, <1>4, <1>5, <1>6, Kept DEF TypeInv

LEMMA InitStepKeeps ==
    ASSUME TypeInv, NEW t \in Thread, InitStep(t)
    PROVE  TypeInv'
BY InitPolledKeeps, InitVersionKeeps, InitSyncKeeps, InitMainKeeps, InitFormatKeeps,
   OpenedServiceKeeps
   DEF InitStep

\* A thread calls the function.
LEMMA InitEnterRecord ==
    ASSUME TypeInv, NEW t \in Thread, NEW record, RecordOK(t, record),
           record.stage = None,
           (t \in Adapter /\ record.job = "init") \/ (t \in App /\ record.job = "service"),
           InitEnter(t, record)
    PROVE  /\ EventsOK'
           /\ \E r : /\ RecordOK(t, r) /\ Becomes(t, r)
                     /\ r.job = "service" => record.job = "service"
                     /\ QmiInInitialization' = [QmiInInitialization EXCEPT
                           ![AdapterOf(t)] = @ + OneIf(Inside(r))]
<1> DEFINE a == AdapterOf(t)
<1>1. a \in Adapter /\ a \in Context /\ QmiInInitialization[a] \in Int
      /\ QmiInInitialization \in [Adapter -> 0 .. 2]
  BY Devices DEF TypeInv, ControlOK, ControlTypeOK, Context
<1>2. record \in ThreadType /\ CallOK(record) /\ WorkOK(t, record)
  BY DEF RecordOK
<1>3. CASE GoesOn(t, record, TRUE) /\ UNCHANGED QmiInInitialization
  <2>1. /\ EventsOK'
        /\ \E r : /\ RecordOK(t, r) /\ Becomes(t, r) /\ ~Inside(r)
                  /\ r.job = "service" => record.job = "service"
    BY <1>3, GoesOnRecord, Devices
  <2>2. ASSUME NEW r, ~Inside(r)
        PROVE  QmiInInitialization' = [QmiInInitialization EXCEPT
                  ![AdapterOf(t)] = @ + OneIf(Inside(r))]
    BY <1>1, <1>3, <2>2 DEF OneIf
  <2> QED BY <2>1, <2>2
<1>4. ASSUME NEW r, r.job = record.job, r.stage \in InitStages,
             QmiInInitialization' =
                [QmiInInitialization EXCEPT ![a] = QmiInInitialization[a] + 1]
      PROVE  QmiInInitialization' = [QmiInInitialization EXCEPT
                ![AdapterOf(t)] = @ + OneIf(Inside(r))]
  BY <1>1, <1>4 DEF Inside, OneIf
<1>5. ASSUME NEW stage \in InitStages
      PROVE  WorkOK(t, [record EXCEPT !.stage = stage])
  BY <1>2 DEF WorkOK, InitStages, ThreadType
<1>6. CASE /\ Becomes(t, [record EXCEPT !.stage = "poll"]) /\ UNCHANGED received
           /\ QmiInInitialization' =
                [QmiInInitialization EXCEPT ![a] = QmiInInitialization[a] + 1]
  <2> DEFINE r == [record EXCEPT !.stage = "poll"]
  <2>1. "poll" \in InitStages /\ "poll" \in Stages
    BY DEF InitStages, Stages
  <2>2. r \in ThreadType /\ r.job = record.job /\ r.stage = "poll"
    BY <1>2, <2>1 DEF ThreadType
  <2>3. CallOK(r) /\ WorkOK(t, r)
    BY <1>2, <1>5, <2>1 DEF CallOK, ThreadType
  <2>4. Becomes(t, r) /\ EventsOK'
    BY <1>6, Kept
  <2> HIDE DEF r
  <2> QED BY <1>4, <1>6, <2>1, <2>2, <2>3, <2>4 DEF RecordOK
<1>7. CASE /\ Begins(t, record)
           /\ QmiInInitialization' =
                [QmiInInitialization EXCEPT ![a] = QmiInInitialization[a] + 1]
  <2>1. Asks(t, record, "version", "VERSION", a, a, 0)
    BY <1>7 DEF Begins
  <2>2. "version" \in InitStages /\ "version" \in Stages /\ 0 \in 0 .. Len(Services)
        /\ "VERSION" \in {"GET", "VERSION", "SYNC"}
    BY Sizes DEF InitStages, Stages
  <2>3. /\ EventsOK'
        /\ \E r : /\ RecordOK(t, r) /\ Becomes(t, r)
                  /\ r.job = record.job /\ r.stage = "version"
    BY <1>1, <1>2, <1>5, <2>1, <2>2, AsksRecord
  <2> QED BY <1>4, <1>7, <2>2, <2>3
<1> QED BY <1>3, <1>6, <1>7 DEF InitEnter

LEMMA IdleRecordOK ==
    ASSUME NEW t \in Thread, NEW job \in Jobs \ {"service", "create"}
    PROVE  /\ RecordOK(t, IdleThread(job)) /\ ~Inside(IdleThread(job))
           /\ IdleThread(job).job = job
<1>1. WorkOK(t, IdleThread(job)) /\ ~Inside(IdleThread(job)) /\ IdleThread(job).job = job
  BY DEF WorkOK, Inside, IdleThread, InitStages, None
<1> QED BY <1>1, IdleRecord DEF RecordOK
-----------------------------------------------------------------------------
(* The steps of MPThread *)

LEMMA StartInitKeeps ==
    ASSUME TypeInv, NEW a \in Adapter, StartInit(a)
    PROVE  TypeInv'
<1>1. /\ thread[a].stage = None /\ InitQmiEvent' = [InitQmiEvent EXCEPT ![a] = FALSE]
      /\ InitEnter(a, IdleThread("init"))
      /\ UNCHANGED <<book, wire, ids, flags, left, MainAdapterReady, ServiceFileOf>>
  BY DEF StartInit, At
<1>2. MarksOK
  BY <1>1 DEF TypeInv, ControlOK, ControlTypeOK, MarksOK
<1>3. RecordOK(a, IdleThread("init")) /\ IdleThread("init").job = "init"
      /\ IdleThread("init").stage = None /\ a \in Thread /\ AdapterOf(a) = a
  BY IdleRecordOK, Devices DEF Jobs, IdleThread
<1>4. /\ EventsOK'
      /\ \E r : /\ RecordOK(a, r) /\ Becomes(a, r)
                /\ QmiInInitialization' = [QmiInInitialization EXCEPT
                      ![AdapterOf(a)] = @ + OneIf(Inside(r))]
  BY <1>1, <1>3, InitEnterRecord
<1>5. PICK r : /\ RecordOK(a, r) /\ Becomes(a, r)
               /\ QmiInInitialization' = [QmiInInitialization EXCEPT
                      ![AdapterOf(a)] = @ + OneIf(Inside(r))]
  BY <1>4
<1>6. ~Inside(thread[a]) /\ QmiInInitialization[a] \in Int
  BY <1>1 DEF Inside, InitStages, None, TypeInv, ControlOK, ControlTypeOK
<1>7. QmiInInitialization' = [QmiInInitialization EXCEPT
         ![AdapterOf(a)] = @ - OneIf(Inside(thread[a])) + OneIf(Inside(r))]
  <2>1. OneIf(Inside(thread[a])) = 0 /\ QmiInInitialization[a] - 0 = QmiInInitialization[a]
    BY <1>6 DEF OneIf
  <2> QED BY <1>3, <1>5, <2>1
<1>8. ThreadsOK' /\ ControlOK'
  BY <1>2, <1>3, <1>5, <1>7, InitMoves DEF MarksOK
<1> QED BY <1>1, <1>4, <1>8, Kept DEF TypeInv

\* A step that has nothing to do with initialisation.
LEMMA AsideKeeps ==
    ASSUME TypeInv, NEW t \in Thread, NEW r, RecordOK(t, r), Becomes(t, r),
           r.job # "service", ~Inside(r), thread[t].stage \notin InitStages,
           UNCHANGED <<QmiInInitialization, MainAdapterReady, ServiceFileOf>>,
           InitQmiEvent' \in [Adapter -> BOOLEAN]
    PROVE  ThreadsOK' /\ ControlOK'
<1>1. ThreadsOK'
  BY BecomesOK DEF TypeInv
<1>2. ~Inside(thread[t])
  BY DEF Inside
<1>3. MainAdapterReady' \in [Device -> SUBSET {"sync", "format"}]
  BY DEF TypeInv, ControlOK, ControlTypeOK
<1> QED BY <1>1, <1>2, <1>3, BecomesControl DEF TypeInv

LEMMA CvarsKept ==
    ASSUME TypeInv, UNCHANGED cvars
    PROVE  /\ UNCHANGED <<QmiInInitialization, MainAdapterReady, ServiceFileOf>>
           /\ InitQmiEvent' \in [Adapter -> BOOLEAN]
BY DEF TypeInv, ControlOK, ControlTypeOK, cvars

\* The thread is idle again.
LEMMA IdlesKeeps ==
    ASSUME TypeInv, NEW t \in Thread, NEW job \in Jobs \ {"service", "create"},
           Becomes(t, IdleThread(job)), thread[t].stage \notin InitStages,
           UNCHANGED <<QmiInInitialization, MainAdapterReady, ServiceFileOf>>,
           InitQmiEvent' \in [Adapter -> BOOLEAN]
    PROVE  ThreadsOK' /\ ControlOK'
BY IdleRecordOK, AsideKeeps

\* It is at some stage of a job, without a call.
LEMMA StageRecord ==
    ASSUME NEW t \in Thread, NEW record, RecordOK(t, record),
           NEW stage \in Stages \ (InitStages \cup {"got"})
    PROVE  LET r == [record EXCEPT !.stage = stage]
           IN  RecordOK(t, r) /\ ~Inside(r) /\ r.job = record.job /\ r.stage = stage
<1> DEFINE r == [record EXCEPT !.stage = stage]
<1>1. record \in ThreadType /\ CallOK(record) /\ WorkOK(t, record)
  BY DEF RecordOK
<1>2. r \in ThreadType /\ r.job = record.job /\ r.stage = stage
  BY <1>1 DEF ThreadType
<1>3. CallOK(r) /\ WorkOK(t, r) /\ ~Inside(r)
  BY <1>1 DEF CallOK, WorkOK, Inside, ThreadType
<1> QED BY <1>2, <1>3 DEF RecordOK

\* Ids of an adapter are zeroed and its clients are told.
LEMMA DisconnectType ==
    ASSUME TypeInv, NEW a \in Adapter, Disconnect(a)
    PROVE  IdsTypeOK'
<1>1. ClientId \in [Adapter -> [DOMAIN Services -> 0 .. MaxId]] /\ IoDev \in [Client -> IoDevType]
  BY DEF TypeInv, IdsTypeOK
<1>2. AllZero \in [DOMAIN Services -> 0 .. MaxId]
  BY Sizes DEF AllZero
<1>3. ClientId' \in [Adapter -> [DOMAIN Services -> 0 .. MaxId]]
  BY <1>1, <1>2 DEF Disconnect
<1>4. ASSUME NEW c \in Client
      PROVE  IoDev[c] \in IoDevType /\ [IoDev[c] EXCEPT !.MPStopped = TRUE] \in IoDevType
  BY ZenonT(30), <1>1 DEF IoDevType
<1>5. IoDev' \in [Client -> IoDevType]
  BY <1>4 DEF Disconnect
<1> QED BY <1>3, <1>5 DEF IdsTypeOK

LEMMA SyncKeeps ==
    ASSUME TypeInv, NEW a \in Adapter, SyncPass(a) \/ SyncCount(a)
    PROVE  TypeInv'
<1>1. CASE SyncPass(a)
  <2> DEFINE r == [IdleThread("sync") EXCEPT !.stage = "counted"]
  <2>1. /\ Disconnect(a) /\ Becomes(a, r) /\ thread[a].stage = None
        /\ UNCHANGED <<book, wire, flags, received, left, cvars>>
    BY <1>1 DEF SyncPass, At
  <2>2. a \in Thread /\ "sync" \in Jobs \ {"service", "create"}
        /\ "counted" \in Stages \ (InitStages \cup {"got"}) /\ None \notin InitStages
    BY Devices DEF Jobs, Stages, InitStages, None
  <2>3. RecordOK(a, IdleThread("sync")) /\ IdleThread("sync").job = "sync"
    BY <2>2, IdleRecordOK
  <2>4. RecordOK(a, r) /\ ~Inside(r) /\ r.job = "sync"
    BY <2>2, <2>3, StageRecord
  <2>5. ThreadsOK' /\ ControlOK'
    <3> HIDE DEF r
    <3> QED BY <2>1, <2>2, <2>4, AsideKeeps, CvarsKept
  <2>6. IdsTypeOK'
    BY <2>1, DisconnectType
  <2> QED BY <2>1, <2>5, <2>6, Kept DEF TypeInv
<1>2. CASE SyncCount(a)
  <2>1. /\ InitQmiEvent' = [InitQmiEvent EXCEPT ![a] = TRUE]
        /\ QmiSyncNeeded' = [QmiSyncNeeded EXCEPT ![a] = @ - 1]
        /\ Becomes(a, IdleThread("idle")) /\ thread[a].stage = "counted"
        /\ UNCHANGED <<book, wire, ids, IsQMIOutOfService, IsWdsAdminPresent,
                       ControlQMIType, received, left, QmiInInitialization,
                       MainAdapterReady, ServiceFileOf>>
    BY <1>2 DEF SyncCount, At
  <2>2. a \in Thread /\ "idle" \in Jobs \ {"service", "create"} /\ "counted" \notin InitStages
    BY Devices DEF Jobs, InitStages
  <2>3. InitQmiEvent' \in [Adapter -> BOOLEAN]
    BY <2>1 DEF TypeInv, ControlOK, ControlTypeOK
  <2>4. ThreadsOK' /\ ControlOK'
    BY <2>1, <2>2, <2>3, IdlesKeeps
  <2>5. FlagsTypeOK'
    BY <2>1 DEF TypeInv, FlagsTypeOK
  <2> QED BY <2>1, <2>4, <2>5, Kept DEF TypeInv
<1> QED BY <1>1, <1>2

LEMMA LinkDownKeeps ==
    ASSUME TypeInv, NEW d \in Device, LinkDown(d)
    PROVE  TypeInv'
<1>1. /\ Spend("drops") /\ Disconnect(d)
      /\ IsQMIOutOfService' = [IsQMIOutOfService EXCEPT ![d] = TRUE]
      /\ UNCHANGED <<book, wire, QmiSyncNeeded, IsWdsAdminPresent, ControlQMIType,
                     thread, received, cvars>>
  BY DEF LinkDown
<1>2. IdsTypeOK' /\ BoundsOK'
  BY <1>1, Devices, DisconnectType, SpendKeeps DEF TypeInv, BoundNames
<1>3. FlagsTypeOK'
  BY <1>1 DEF TypeInv, FlagsTypeOK
<1> QED BY <1>1, <1>2, <1>3, Kept DEF TypeInv

LEMMA InitWantedKeeps ==
    ASSUME TypeInv, NEW a \in Adapter, InitWanted(a)
    PROVE  TypeInv'
<1>1. /\ Spend("wanted") /\ InitQmiEvent' = [InitQmiEvent EXCEPT ![a] = TRUE]
      /\ UNCHANGED <<book, wire, ids, flags, thread, received,
                     QmiInInitialization, MainAdapterReady, ServiceFileOf>>
  BY DEF InitWanted
<1>2. BoundsOK'
  BY <1>1, SpendKeeps DEF TypeInv, BoundNames
<1>3. ControlOK'
  BY <1>1 DEF TypeInv, ControlOK, ControlTypeOK, CountOK, Count, OneRequest
<1> QED BY <1>1, <1>2, <1>3, Kept DEF TypeInv

LEMMA IdleCheckKeeps ==
    ASSUME TypeInv, NEW a \in Adapter, IdleCheck(a)
    PROVE  TypeInv'
<1> DEFINE r == [IdleThread("check") EXCEPT !.stage = "walk"]
<1>1. /\ Spend("checks") /\ Becomes(a, r) /\ thread[a].stage = None
      /\ UNCHANGED <<book, wire, ids, flags, received, cvars>>
  BY DEF IdleCheck, At
<1>2. a \in Thread /\ "check" \in Jobs \ {"service", "create"}
      /\ "walk" \in Stages \ (InitStages \cup {"got"}) /\ None \notin InitStages
  BY Devices DEF Jobs, Stages, InitStages, None
<1>3. RecordOK(a, IdleThread("check")) /\ IdleThread("check").job = "check"
  BY <1>2, IdleRecordOK
<1>4. RecordOK(a, r) /\ ~Inside(r) /\ r.job = "check"
  BY <1>2, <1>3, StageRecord
<1>5. ThreadsOK' /\ ControlOK'
  <2> HIDE DEF r
  <2> QED BY <1>1, <1>2, <1>4, AsideKeeps, CvarsKept
<1>6. BoundsOK'
  BY <1>1, SpendKeeps DEF TypeInv, BoundNames
<1> QED BY <1>1, <1>5, <1>6, Kept DEF TypeInv

\* A client's id is released, or the client has none.
LEMMA ReleaseRecord ==
    ASSUME TypeInv, NEW t \in Thread, NEW record \in ThreadType, WorkOK(t, record),
           record.job # "service", ~Inside(record), NEW a \in Adapter, NEW c \in Client,
           NEW r, \/ r = [record EXCEPT !.pc = "returned", !.result = "failed"]
                  \/ r = Call(record, "RELEASE", a, c, IoDev[c].QMIType)
    PROVE  RecordOK(t, r) /\ ~Inside(r) /\ r.job # "service"
<1>1. CASE r = [record EXCEPT !.pc = "returned", !.result = "failed"]
  <2>1. "returned" \in CallStates /\ "failed" \in Results
    BY DEF CallStates, Results
  <2>2. r \in ThreadType /\ r.job = record.job /\ r.stage = record.stage
        /\ r.io = record.io /\ r.pc = "returned" /\ r.result = "failed"
    BY <1>1, <2>1 DEF ThreadType
  <2> QED BY <2>2 DEF RecordOK, CallOK, WorkOK, Inside, Calls
<1>2. CASE r = Call(record, "RELEASE", a, c, IoDev[c].QMIType)
  <2>1. IdsTypeOK /\ "RELEASE" \in Kinds /\ c \in Context
    BY DEF TypeInv, Kinds, Context
  <2>2. IoDev[c].QMIType \in 0 .. Len(Services)
    BY <2>1 DEF IdsTypeOK, IoDevType
  <2>3. RecordOK(t, r) /\ r.job = record.job /\ r.stage = record.stage
    BY <1>2, <2>1, <2>2, CallRecord
  <2> QED BY <2>3 DEF Inside
<1> QED BY <1>1, <1>2

LEMMA IdleWalkKeeps ==
    ASSUME TypeInv, NEW a \in Adapter, IdleWalk(a)
    PROVE  TypeInv'
<1> DEFINE ahead == {c \in Client : IoDev[c].life = "listed" /\ IoDev[c].place > thread[a].walk}
           expired == {c \in ahead : Expired(c)}
           next == FirstClient(expired)
           passed == IF expired = {} THEN ahead
                     ELSE {c \in ahead : IoDev[c].place < IoDev[next].place}
           record == [IdleThread("check") EXCEPT
                         !.stage = "release", !.io = next, !.walk = IoDev[next].place]
<1>1. /\ thread[a].stage = "walk" /\ a \in Thread
      /\ IoDev' = [c \in Client |->
            IF c \in passed /\ Unopened(c) THEN [IoDev[c] EXCEPT !.IdleTime = 1]
            ELSE IoDev[c]]
      /\ UNCHANGED <<book, wire, ClientId, flags, left, cvars>>
  BY SMTT(30), Devices DEF IdleWalk, At
<1>2. \/ Becomes(a, IdleThread("idle")) /\ UNCHANGED received
      \/ /\ expired # {} /\ received' \subseteq received
         /\ \/ Becomes(a, [record EXCEPT !.pc = "returned", !.result = "failed"])
            \/ Becomes(a, Call(record, "RELEASE", a, next, IoDev[next].QMIType))
  BY DEF IdleWalk
<1>3. IoDev \in [Client -> IoDevType] /\ ClientId \in [Adapter -> [DOMAIN Services -> 0 .. MaxId]]
  BY DEF TypeInv, IdsTypeOK
<1>4. IdsTypeOK'
  <2>1. ASSUME NEW c \in Client
        PROVE  IoDev[c] \in IoDevType /\ [IoDev[c] EXCEPT !.IdleTime = 1] \in IoDevType
    <3>1. 1 \in 0 .. 1
      OBVIOUS
    <3> QED BY ZenonT(30), <1>3, <3>1 DEF IoDevType
  <2> HIDE DEF passed
  <2>2. IoDev' \in [Client -> IoDevType]
    BY <1>1, <2>1
  <2> QED BY <1>1, <1>3, <2>2 DEF IdsTypeOK
<1>5. EventsOK'
  BY <1>2 DEF TypeInv, EventsOK
<1>6. "walk" \notin InitStages /\ "release" \in Stages /\ "release" \notin InitStages \cup {"got"}
      /\ "check" \in Jobs /\ "idle" \in Jobs \ {"service", "create"}
  BY DEF InitStages, Stages, Jobs
<1>7. ThreadsOK' /\ ControlOK'
  <2>1. CASE Becomes(a, IdleThread("idle"))
    BY <1>1, <1>6, <2>1, IdlesKeeps, CvarsKept
  <2>2. CASE expired # {}
    <3>1. \A c \in expired : c \in Client /\ IoDev[c].place \in Nat
      BY <1>3 DEF IoDevType
    <3>2. next \in expired /\ expired \subseteq Client
      BY <2>2, <3>1, FirstClientIsOne
    <3>3. next \in Client /\ IoDev[next].place \in Nat
      BY <3>1, <3>2
    <3> HIDE DEF next
    <3>4. IdleThread("check") \in ThreadType /\ IdleThread("check").job = "check"
      BY <1>6, IdleRecord DEF IdleThread
    <3>5. record \in ThreadType /\ record.job = "check" /\ record.stage = "release"
      BY <1>6, <3>3, <3>4 DEF ThreadType
    <3> HIDE DEF record
    <3>6. WorkOK(a, record) /\ ~Inside(record)
      BY <1>6, <3>5 DEF WorkOK, Inside
    <3>7. CASE Becomes(a, IdleThread("idle"))
      BY <3>7, <2>1
    <3>8. ASSUME NEW r, Becomes(a, r),
                 \/ r = [record EXCEPT !.pc = "returned", !.result = "failed"]
                 \/ r = Call(record, "RELEASE", a, next, IoDev[next].QMIType)
          PROVE  ThreadsOK' /\ ControlOK'
      <4>1. RecordOK(a, r) /\ ~Inside(r) /\ r.job # "service"
        BY <1>1, <3>3, <3>5, <3>6, <3>8, ReleaseRecord
      <4> QED BY <1>1, <1>6, <3>8, <4>1, AsideKeeps, CvarsKept
    <3> QED BY <1>2, <3>7, <3>8
  <2> QED BY <1>2, <2>1, <2>2
<1> QED BY SMTT(30), <1>1, <1>4, <1>5, <1>7, Kept DEF TypeInv

\* One client record is written.
LEMMA IoDevUpdate ==
    ASSUME IoDev \in [Client -> IoDevType], NEW x, NEW device,
           x \in Client => device \in IoDevType
    PROVE  [IoDev EXCEPT ![x] = device] \in [Client -> IoDevType]
OBVIOUS

LEMMA IdleResetKeeps ==
    ASSUME TypeInv, NEW a \in Adapter, IdleReset(a)
    PROVE  TypeInv'
<1> DEFINE c == thread[a].io
           device == [IoDev[c] EXCEPT !.IdleTime = 0, !.Acquired = FALSE, !.QMIType = 0,
                                      !.ClientId = 0]
           r == [Rest(a) EXCEPT !.stage = "walk"]
<1>1. /\ thread[a].stage = "release" /\ thread[a].job = "check" /\ a \in Thread
      /\ IoDev' = [IoDev EXCEPT ![c].IdleTime = 0, ![c].Acquired = FALSE,
                                ![c].QMIType = 0, ![c].ClientId = 0]
      /\ Becomes(a, r)
      /\ UNCHANGED <<book, wire, ClientId, flags, received, left, cvars>>
  BY SMTT(30), Devices DEF IdleReset, Back
<1>2. IoDev \in [Client -> IoDevType] /\ ClientId \in [Adapter -> [DOMAIN Services -> 0 .. MaxId]]
  BY DEF TypeInv, IdsTypeOK
<1>3. IoDev' = [IoDev EXCEPT ![c] = device]
  BY <1>1, <1>2
<1>4. c \in Client => device \in IoDevType
  <2>1. 0 \in 0 .. 1 /\ 0 \in 0 .. MaxId /\ 0 \in 0 .. Len(Services)
    BY Sizes
  <2>2. FALSE \in BOOLEAN
    OBVIOUS
  <2>3. ASSUME NEW old \in IoDevType
        PROVE  [old EXCEPT !.IdleTime = 0, !.Acquired = FALSE, !.QMIType = 0,
                           !.ClientId = 0] \in IoDevType
    BY <2>1, <2>2 DEF IoDevType
  <2> QED BY <1>2, <2>3
<1>5. IdsTypeOK'
  BY <1>1, <1>2, <1>3, <1>4, IoDevUpdate DEF IdsTypeOK
<1>6. "walk" \in Stages \ (InitStages \cup {"got"}) /\ "release" \notin InitStages
  BY DEF Stages, InitStages
<1>7. RecordOK(a, Rest(a)) /\ Rest(a).job = "check"
  BY <1>1, RestRecord DEF TypeInv
<1>8. RecordOK(a, r) /\ ~Inside(r) /\ r.job = "check"
  BY <1>1, <1>6, <1>7, StageRecord
<1>9. ThreadsOK' /\ ControlOK'
  <2> HIDE DEF r
  <2> QED BY <1>1, <1>6, <1>8, AsideKeeps, CvarsKept
<1> QED BY <1>1, <1>5, <1>9, Kept DEF TypeInv

LEMMA MPThreadKeeps ==
    ASSUME TypeInv, NEW a \in Adapter, MPThreadStep(a)
    PROVE  TypeInv'
BY StartInitKeeps, SyncKeeps, IdleCheckKeeps, IdleWalkKeeps, IdleResetKeeps
   DEF MPThreadStep
-----------------------------------------------------------------------------
(* The steps of a program *)

\* A program that gets or returns the request of the control device.
LEMMA FileCount ==
    ASSUME ThreadsOK, ControlOK, NEW p \in App, NEW r, Becomes(p, r),
           ServiceFileOf[Uses[p]] \in {p, None}, ~Inside(thread[p]),
           \/ ServiceFileOf'[Uses[p]] = p
           \/ ServiceFileOf'[Uses[p]] = None /\ ~Inside(r)
    PROVE  Count(Uses[p])' = Count(Uses[p]) + OneIf(Inside(r))
<1> DEFINE a == Uses[p]
<1>1. a \in Adapter /\ a \in Thread \ {p} /\ p \in Thread /\ p # None
  BY Devices, AdaptersAssumption DEF Thread
<1>3. thread'[a] = thread[a] /\ thread'[p] = r
  BY <1>1 DEF ThreadsOK, ThreadTypeOK, Becomes
<1>4. \A c : OneIf(c) \in Int
  BY DEF OneIf
<1>5. Count(a) = OneIf(Inside(thread[a]))
  BY <1>4 DEF Count, OneIf
<1>6. Count(a)' = OneIf(Inside(thread[a])) + OneIf(Inside(r))
  BY <1>1, <1>3, <1>4 DEF Count, OneIf
<1> QED BY <1>5, <1>6

LEMMA FileMoves ==
    ASSUME TypeInv, NEW p \in App, NEW r, RecordOK(p, r), Becomes(p, r),
           ServiceFileOf[Uses[p]] \in {p, None}, ~Inside(thread[p]),
           ServiceFileOf' \in [Adapter -> App \cup {None}],
           \A b \in Adapter \ {Uses[p]} : ServiceFileOf'[b] = ServiceFileOf[b],
           \/ ServiceFileOf'[Uses[p]] = p
           \/ ServiceFileOf'[Uses[p]] = None /\ ~Inside(r) /\ r.job # "service",
           UNCHANGED <<InitQmiEvent, MainAdapterReady>>,
           QmiInInitialization' =
              [QmiInInitialization EXCEPT ![Uses[p]] = @ + OneIf(Inside(r))]
    PROVE  ThreadsOK' /\ ControlOK'
<1> DEFINE a == Uses[p]
<1>1. ThreadsOK /\ ControlOK /\ p \in Thread
  BY DEF TypeInv, Thread
<1>2. ThreadsOK'
  BY <1>1, BecomesOK
<1>3. a \in Adapter /\ AdapterOf(p) = a /\ p # None
  BY Devices, AdaptersAssumption
<1>4. /\ QmiInInitialization \in [Adapter -> 0 .. 2]
      /\ ServiceFileOf \in [Adapter -> App \cup {None}]
  BY <1>1 DEF ControlOK, ControlTypeOK
<1>5. ASSUME NEW b \in Adapter
      PROVE  QmiInInitialization'[b] = Count(b)'
  <2>1. QmiInInitialization[b] = Count(b)
    BY <1>1 DEF ControlOK, CountOK
  <2>2. CASE b = a
    BY <1>1, <1>3, <1>4, <2>1, <2>2, FileCount
  <2>3. CASE b # a
    BY <1>1, <1>3, <1>4, <2>1, <2>3, OtherCounts
  <2> QED BY <2>2, <2>3
<1>6. \A b \in Adapter : Count(b)' \in 0 .. 2
  BY DEF Count, OneIf
<1>7. QmiInInitialization' \in [Adapter -> 0 .. 2]
  <2>1. QmiInInitialization' \in [Adapter -> {QmiInInitialization'[b] : b \in Adapter}]
    BY <1>4
  <2> QED BY <2>1, <1>5, <1>6
<1>9. OneRequest'
  <2>1. thread'[p] = r /\ \A u \in Thread \ {p} : thread'[u] = thread[u]
    BY <1>1 DEF ThreadsOK, ThreadTypeOK, Becomes
  <2>2. OneRequest
    BY <1>1 DEF ControlOK
  <2>3. ASSUME NEW q \in App, thread'[q].job = "service"
        PROVE  ServiceFileOf'[Uses[q]] = q
    <3>1. CASE q = p
      BY <1>3, <1>4, <2>1, <2>3, <3>1
    <3>2. CASE q # p
      <4>1. ServiceFileOf[Uses[q]] = q /\ Uses[q] \in Adapter
        BY <2>1, <2>2, <2>3, <3>2, Devices DEF OneRequest, Thread
      <4>2. Uses[q] # a
        BY <4>1, <3>2, AdaptersAssumption
      <4> QED BY <1>4, <4>1, <4>2
    <3> QED BY <3>1, <3>2
  <2>4. ASSUME NEW b \in Adapter, ServiceFileOf'[b] # None
        PROVE  Uses[ServiceFileOf'[b]] = b
    BY <1>3, <1>4, <2>2, <2>4 DEF OneRequest
  <2> QED BY <2>3, <2>4 DEF OneRequest
<1> QED BY <1>1, <1>2, <1>5, <1>7, <1>9 DEF ControlOK, ControlTypeOK, CountOK

LEMMA ServiceFileKeeps ==
    ASSUME TypeInv, NEW p \in App, ServiceFile(p)
    PROVE  TypeInv'
<1> DEFINE a == Uses[p]
<1>1. /\ thread[p].stage = None /\ ServiceFileOf[a] = None /\ Spend("services")
      /\ ServiceFileOf' = [ServiceFileOf EXCEPT ![a] = p]
      /\ UNCHANGED <<book, wire, ClientId, flags, InitQmiEvent, MainAdapterReady>>
  BY DEF ServiceFile, At
<1>2. PICK c \in Client :
        /\ IoDev' = [IoDev EXCEPT ![c] = [NewIoDev EXCEPT
                        !.life = "listed", !.place = Places + 1, !.adapter = a]]
        /\ InitEnter(p, [IdleThread("service") EXCEPT !.io = c])
  BY DEF ServiceFile
<1> DEFINE record == [IdleThread("service") EXCEPT !.io = c]
<1>3. p \in Thread /\ a \in Adapter /\ AdapterOf(p) = a
  BY Devices DEF Thread
<1>4. IdsTypeOK'
  <2>1. Places \in Nat
    <3>1. IsFiniteSet({e \in Client : IoDev[e].life # "none"})
      BY SizesAssumption, FS_Subset
    <3> QED BY <3>1, FS_CardinalityType DEF Places
  <2>2. /\ 0 \in 0 .. MaxId /\ 0 \in 0 .. Len(Services) /\ 0 \in 0 .. 1 /\ FALSE \in BOOLEAN
        /\ Places + 1 \in Nat
    BY <2>1, Sizes
  <2>3. [NewIoDev EXCEPT !.life = "listed", !.place = Places + 1, !.adapter = a] \in IoDevType
    <3>1. NewIoDev \in IoDevType
      BY <2>2 DEF NewIoDev, IoDevType
    <3>2. "listed" \in {"none", "listed", "unlinked", "freed"} /\ a \in Adapter \cup {None}
      BY <1>3
    <3>3. ASSUME NEW old \in IoDevType, NEW place \in Nat, NEW own \in Adapter \cup {None}
          PROVE  [old EXCEPT !.life = "listed", !.place = place, !.adapter = own] \in IoDevType
      BY <3>2 DEF IoDevType
    <3> QED BY <2>2, <3>1, <3>2, <3>3
  <2> QED BY <1>1, <1>2, <2>3 DEF TypeInv, IdsTypeOK
<1>5. RecordOK(p, record) /\ record.job = "service" /\ record.stage = None
  <2>1. IdleThread("service") \in ThreadType /\ CallOK(IdleThread("service"))
    BY IdleRecord DEF Jobs
  <2>2. record \in ThreadType /\ record.job = "service" /\ record.stage = None
        /\ record.io = c /\ record.pc = None /\ record.result = None
    BY <2>1 DEF ThreadType, IdleThread
  <2> QED BY <2>2 DEF RecordOK, CallOK, WorkOK, InitStages, Calls, None
<1>6. InitEnter(p, record)
  BY <1>2
<1> HIDE DEF record
<1>7. /\ EventsOK'
      /\ \E r : /\ RecordOK(p, r) /\ Becomes(p, r)
                /\ QmiInInitialization' = [QmiInInitialization EXCEPT
                      ![AdapterOf(p)] = @ + OneIf(Inside(r))]
  BY <1>3, <1>5, <1>6, InitEnterRecord
<1>8. ThreadsOK' /\ ControlOK'
  <2>1. PICK r : /\ RecordOK(p, r) /\ Becomes(p, r)
                 /\ QmiInInitialization' = [QmiInInitialization EXCEPT
                       ![a] = @ + OneIf(Inside(r))]
    BY <1>3, <1>7
  <2>2. /\ UNCHANGED <<InitQmiEvent, MainAdapterReady>> /\ ServiceFileOf[a] = None
        /\ ~Inside(thread[p])
        /\ ServiceFileOf' \in [Adapter -> App \cup {None}] /\ ServiceFileOf'[a] = p
        /\ \A b \in Adapter \ {a} : ServiceFileOf'[b] = ServiceFileOf[b]
    BY <1>1, <1>3 DEF TypeInv, ControlOK, ControlTypeOK, Inside, InitStages, None
  <2> QED BY <2>1, <2>2, FileMoves
<1>9. BoundsOK'
  BY <1>1, SpendKeeps DEF TypeInv, BoundNames
<1> QED BY <1>1, <1>4, <1>7, <1>8, <1>9, Kept DEF TypeInv

LEMMA ServiceGotKeeps ==
    ASSUME TypeInv, NEW p \in App, ServiceGot(p)
    PROVE  TypeInv'
<1> DEFINE c == thread[p].io
<1>1. /\ thread[p].stage = "got" /\ p \in Thread
      /\ ServiceFileOf' = [ServiceFileOf EXCEPT ![Uses[p]] = None]
      /\ IoDev' = [IoDev EXCEPT ![c].Acquired = IoDev[c].ClientId # 0]
      /\ \E job \in {"named", "idle"} : Becomes(p, IdleThread(job))
      /\ UNCHANGED <<book, wire, ClientId, flags, received, left,
                     QmiInInitialization, InitQmiEvent, MainAdapterReady>>
  BY DEF ServiceGot, Back, Thread
<1>2. PICK job \in {"named", "idle"} : Becomes(p, IdleThread(job))
  BY <1>1
<1>3. RecordOK(p, IdleThread(job)) /\ ~Inside(IdleThread(job)) /\ IdleThread(job).job # "service"
  <2>1. job \in Jobs \ {"service", "create"}
    BY DEF Jobs
  <2> QED BY <1>1, <2>1, IdleRecordOK
<1>4. ServiceFileOf[Uses[p]] = p /\ ~Inside(thread[p])
  <2>1. WorkOK(p, thread[p])
    BY <1>1 DEF TypeInv, ThreadsOK, RecordOK
  <2> QED BY <1>1, <2>1 DEF WorkOK, TypeInv, ControlOK, OneRequest, Inside, InitStages
<1>5. Uses[p] \in Adapter /\ QmiInInitialization \in [Adapter -> 0 .. 2]
  <2>1. Uses[p] \in Adapter
    BY AdaptersAssumption
  <2> QED BY <2>1 DEF TypeInv, ControlOK, ControlTypeOK
<1>6. QmiInInitialization' = [QmiInInitialization EXCEPT
         ![Uses[p]] = @ + OneIf(Inside(IdleThread(job)))]
  <2>1. QmiInInitialization[Uses[p]] + OneIf(Inside(IdleThread(job)))
           = QmiInInitialization[Uses[p]]
    BY <1>3, <1>5 DEF OneIf
  <2> QED BY <1>1, <1>5, <2>1
<1>7. ThreadsOK' /\ ControlOK'
  <2>1. /\ ServiceFileOf' \in [Adapter -> App \cup {None}] /\ ServiceFileOf'[Uses[p]] = None
        /\ \A b \in Adapter \ {Uses[p]} : ServiceFileOf'[b] = ServiceFileOf[b]
    BY <1>1, <1>5 DEF TypeInv, ControlOK, ControlTypeOK
  <2> QED BY <1>1, <1>2, <1>3, <1>4, <1>6, <2>1, FileMoves
<1>8. IdsTypeOK'
  <2>1. PICK acquired \in BOOLEAN : IoDev' = [IoDev EXCEPT ![c].Acquired = acquired]
    <3>1. (IoDev[c].ClientId # 0) \in BOOLEAN
      OBVIOUS
    <3> QED BY <1>1, <3>1, Zenon
  <2>2. ASSUME NEW old \in IoDevType PROVE [old EXCEPT !.Acquired = acquired] \in IoDevType
    BY DEF IoDevType
  <2>3. IoDev' = [IoDev EXCEPT ![c] = [IoDev[c] EXCEPT !.Acquired = acquired]]
    BY <2>1
  <2> QED BY <1>1, <2>2, <2>3, IoDevUpdate DEF TypeInv, IdsTypeOK
<1> QED BY <1>1, <1>7, <1>8, Kept DEF TypeInv

\* The client that a thread works on is written.
LEMMA ClientWritten ==
    ASSUME TypeInv, NEW x, NEW device, x \in Client => device \in IoDevType,
           IoDev' = [IoDev EXCEPT ![x] = device], UNCHANGED ClientId
    PROVE  IdsTypeOK'
BY IoDevUpdate DEF TypeInv, IdsTypeOK

LEMMA ClientType ==
    ASSUME TypeInv, NEW c \in Client
    PROVE  /\ IoDev[c] \in IoDevType
           /\ IoDev[c].ClientId \in 0 .. MaxId /\ IoDev[c].QMIType \in 0 .. Len(Services)
           /\ IoDev[c].FsContext \in 0 .. MaxId /\ IoDev[c].IrpCount \in Int
           /\ IoDev[c].DeviceOpenCount \in Int /\ IoDev[c].place \in Nat
BY DEF TypeInv, IdsTypeOK, IoDevType

LEMMA CountedType ==
    ASSUME NEW old \in IoDevType
    PROVE  /\ [old EXCEPT !.IrpCount = @ + 1] \in IoDevType
           /\ [old EXCEPT !.IrpCount = @ - 1] \in IoDevType
           /\ [old EXCEPT !.DeviceOpenCount = @ + 1] \in IoDevType
           /\ [old EXCEPT !.DeviceOpenCount = @ - 1] \in IoDevType
<1>1. old.IrpCount + 1 \in Int /\ old.IrpCount - 1 \in Int
  BY DEF IoDevType
<1>2. old.DeviceOpenCount + 1 \in Int /\ old.DeviceOpenCount - 1 \in Int
  BY DEF IoDevType
<1>3. ASSUME NEW n \in Int
      PROVE  [old EXCEPT !.IrpCount = n] \in IoDevType
             /\ [old EXCEPT !.DeviceOpenCount = n] \in IoDevType
  BY DEF IoDevType
<1> QED BY <1>1, <1>2, <1>3

\* A step to another stage.
LEMMA StageKeeps ==
    ASSUME TypeInv, NEW p \in App, thread[p].stage \notin InitStages,
           NEW record, RecordOK(p, record), record.job # "service",
           NEW stage \in Stages \ (InitStages \cup {"got"}),
           Becomes(p, [record EXCEPT !.stage = stage]), UNCHANGED cvars
    PROVE  ThreadsOK' /\ ControlOK'
<1> DEFINE r == [record EXCEPT !.stage = stage]
<1>1. p \in Thread
  BY DEF Thread
<1>2. RecordOK(p, r) /\ ~Inside(r) /\ r.job = record.job
  BY <1>1, StageRecord
<1>3. Becomes(p, r)
  OBVIOUS
<1> HIDE DEF r
<1> QED BY <1>1, <1>2, <1>3, AsideKeeps, CvarsKept

LEMMA ProgramIdles ==
    ASSUME TypeInv, NEW p \in App, thread[p].stage \notin InitStages,
           Becomes(p, IdleThread("idle")), UNCHANGED cvars
    PROVE  ThreadsOK' /\ ControlOK'
<1>1. p \in Thread /\ "idle" \in Jobs \ {"service", "create"}
  BY DEF Thread, Jobs
<1> QED BY <1>1, IdlesKeeps, CvarsKept

LEMMA CreatingThread ==
    ASSUME TypeInv, NEW p \in App, thread[p].job = "create"
    PROVE  RecordOK(p, thread[p]) /\ thread[p].io \in Client
<1>1. RecordOK(p, thread[p])
  BY DEF TypeInv, ThreadsOK, Thread
<1> QED BY <1>1 DEF RecordOK, WorkOK

LEMMA CreateFindKeeps ==
    ASSUME TypeInv, NEW p \in App, CreateFind(p)
    PROVE  TypeInv'
<1> DEFINE c == FirstClient(OpenTo(Uses[p]))
           r == [IdleThread("create") EXCEPT !.stage = "found", !.io = c]
<1>1. /\ thread[p].stage = None
      /\ \/ Becomes(p, IdleThread("idle"))
         \/ OpenTo(Uses[p]) # {} /\ Becomes(p, r)
      /\ UNCHANGED <<book, wire, ids, flags, received, left, cvars>>
  BY DEF CreateFind, At
<1>2. None \notin InitStages /\ p \in Thread
  BY DEF InitStages, None, Thread
<1>3. ASSUME OpenTo(Uses[p]) # {}, Becomes(p, r)
      PROVE  ThreadsOK' /\ ControlOK'
  <2>1. OpenTo(Uses[p]) \subseteq Client
    BY DEF OpenTo
  <2>2. \A e \in OpenTo(Uses[p]) : IoDev[e].place \in Nat
    BY <2>1, ClientType
  <2>3. c \in Client
    BY <1>3, <2>1, <2>2, FirstClientIsOne
  <2> HIDE DEF c
  <2>4. IdleThread("create") \in ThreadType /\ CallOK(IdleThread("create"))
    BY IdleRecord DEF Jobs
  <2>5. r \in ThreadType /\ r.job = "create" /\ r.stage = "found" /\ r.io = c
        /\ r.pc = None /\ r.result = None
    <3>1. "found" \in Stages
      BY DEF Stages
    <3> QED BY <2>3, <2>4, <3>1 DEF ThreadType, IdleThread
  <2>6. Becomes(p, r)
    BY <1>3
  <2> HIDE DEF r
  <2>7. RecordOK(p, r) /\ ~Inside(r)
    BY <2>3, <2>5 DEF RecordOK, CallOK, WorkOK, Inside, InitStages, Calls, None
  <2>8. r.job # "service"
    BY <2>5
  <2> QED BY <1>1, <1>2, <2>6, <2>7, <2>8, AsideKeeps, CvarsKept
<1>4. ThreadsOK' /\ ControlOK'
  BY <1>1, <1>2, <1>3, ProgramIdles
<1> QED BY <1>1, <1>4, Kept DEF TypeInv

LEMMA CreateReferenceKeeps ==
    ASSUME TypeInv, NEW p \in App, CreateReference(p)
    PROVE  TypeInv'
<1> DEFINE c == thread[p].io
<1>1. /\ thread[p].job = "create" /\ thread[p].stage = "found"
      /\ \/ Becomes(p, IdleThread("idle")) /\ UNCHANGED IoDev
         \/ /\ Becomes(p, [thread[p] EXCEPT !.stage = "referenced"])
            /\ IoDev' = [IoDev EXCEPT ![c].IrpCount = @ + 1]
      /\ UNCHANGED <<book, wire, ClientId, flags, received, left, cvars>>
  BY DEF CreateReference, At
<1>2. RecordOK(p, thread[p]) /\ c \in Client
  BY <1>1, CreatingThread
<1>3. "found" \notin InitStages /\ "referenced" \in Stages \ (InitStages \cup {"got"})
  BY DEF InitStages, Stages
<1>4. CASE Becomes(p, IdleThread("idle")) /\ UNCHANGED IoDev
  <2>1. IdsTypeOK'
    BY <1>1, <1>4, Kept DEF ids
  <2> QED BY <1>1, <1>3, <1>4, <2>1, ProgramIdles, Kept DEF TypeInv
<1>5. CASE /\ Becomes(p, [thread[p] EXCEPT !.stage = "referenced"])
           /\ IoDev' = [IoDev EXCEPT ![c].IrpCount = @ + 1]
  <2> DEFINE device == [IoDev[c] EXCEPT !.IrpCount = @ + 1]
  <2>1. device \in IoDevType
    BY <1>2, ClientType, CountedType
  <2>2. IdsTypeOK'
    BY <1>1, <1>5, <2>1, ClientWritten
  <2>3. ThreadsOK' /\ ControlOK'
    BY <1>1, <1>2, <1>3, <1>5, StageKeeps
  <2> QED BY <1>1, <2>2, <2>3, Kept DEF TypeInv
<1> QED BY <1>1, <1>4, <1>5

LEMMA CreateCountKeeps ==
    ASSUME TypeInv, NEW p \in App, CreateCount(p)
    PROVE  TypeInv'
<1> DEFINE c == thread[p].io
           device == [IoDev[c] EXCEPT !.DeviceOpenCount = @ + 1]
<1>1. /\ thread[p].job = "create" /\ thread[p].stage = "referenced"
      /\ Becomes(p, [thread[p] EXCEPT !.stage = "counted"])
      /\ IoDev' = [IoDev EXCEPT ![c].DeviceOpenCount = @ + 1]
      /\ UNCHANGED <<book, wire, ClientId, flags, received, left, cvars>>
  BY DEF CreateCount, At
<1>2. RecordOK(p, thread[p]) /\ c \in Client
  BY <1>1, CreatingThread
<1>3. "referenced" \notin InitStages /\ "counted" \in Stages \ (InitStages \cup {"got"})
  BY DEF InitStages, Stages
<1>4. device \in IoDevType
  BY <1>2, ClientType, CountedType
<1>5. IdsTypeOK'
  BY <1>1, <1>4, ClientWritten
<1>6. ThreadsOK' /\ ControlOK'
  BY <1>1, <1>2, <1>3, StageKeeps
<1> QED BY <1>1, <1>5, <1>6, Kept DEF TypeInv

LEMMA CreateDecideKeeps ==
    ASSUME TypeInv, NEW p \in App, CreateDecide(p)
    PROVE  TypeInv'
<1> DEFINE c == thread[p].io
           id == IoDev[c].ClientId
           r == [IdleThread("open") EXCEPT !.file = [context |-> id, client |-> c]]
<1>1. /\ thread[p].job = "create" /\ thread[p].stage = "counted"
      /\ \/ /\ Becomes(p, r)
            /\ IoDev' = [IoDev EXCEPT
                  ![c].IdleTime = 0, ![c].IrpCount = @ - 1,
                  ![c].FsContext = IF id # 0 THEN id ELSE @]
         \/ /\ Becomes(p, [thread[p] EXCEPT !.stage = "refused"])
            /\ IoDev' = [IoDev EXCEPT ![c].IrpCount = @ - 1]
      /\ UNCHANGED <<book, wire, ClientId, flags, received, left, cvars>>
  BY DEF CreateDecide, At
<1>2. RecordOK(p, thread[p]) /\ c \in Client /\ thread[p].job # "service"
  BY <1>1, CreatingThread
<1>3. "counted" \notin InitStages /\ "refused" \in Stages \ (InitStages \cup {"got"})
      /\ "open" \in Jobs \ {"service", "create"} /\ p \in Thread
  BY DEF InitStages, Stages, Jobs, Thread
<1>4. IoDev[c] \in IoDevType /\ IoDev[c].IrpCount - 1 \in Int /\ id \in 0 .. MaxId
      /\ IoDev[c].FsContext \in 0 .. MaxId /\ 0 \in 0 .. 1
  BY <1>2, ClientType
<1>5. ASSUME Becomes(p, r),
             IoDev' = [IoDev EXCEPT
                ![c].IdleTime = 0, ![c].IrpCount = @ - 1,
                ![c].FsContext = IF id # 0 THEN id ELSE @]
      PROVE  IdsTypeOK' /\ ThreadsOK' /\ ControlOK'
  <2> DEFINE context == IF id # 0 THEN id ELSE IoDev[c].FsContext
             device == [IoDev[c] EXCEPT !.IdleTime = 0, !.IrpCount = IoDev[c].IrpCount - 1,
                                        !.FsContext = context]
  <2>1. context \in 0 .. MaxId
    BY SMTT(30), <1>4
  <2>2. IoDev' = [IoDev EXCEPT ![c] = device]
    BY <1>2, <1>5
  <2>3. device \in IoDevType
    <3> HIDE DEF context
    <3>1. ASSUME NEW old \in IoDevType, NEW n \in Int, NEW x \in 0 .. MaxId
          PROVE  [old EXCEPT !.IdleTime = 0, !.IrpCount = n, !.FsContext = x] \in IoDevType
      BY <1>4 DEF IoDevType
    <3> QED BY <1>4, <2>1, <3>1
  <2>4. IdsTypeOK'
    BY <1>1, <2>2, <2>3, ClientWritten
  <2>5. RecordOK(p, IdleThread("open")) /\ ~Inside(IdleThread("open"))
        /\ IdleThread("open").job = "open"
    BY <1>3, IdleRecordOK
  <2>6. r \in ThreadType /\ r.job = "open" /\ r.stage = None /\ r.pc = None /\ r.result = None
    <3>1. IdleThread("open") \in ThreadType
      BY <2>5 DEF RecordOK
    <3>2. [context |-> id, client |-> c]
             \in [context : 0 .. MaxId, client : Client \cup {None}]
      BY <1>2, <1>4
    <3> QED BY <3>1, <3>2 DEF ThreadType, IdleThread
  <2> HIDE DEF r
  <2>7. RecordOK(p, r) /\ ~Inside(r) /\ r.job # "service"
    BY <2>6 DEF RecordOK, CallOK, WorkOK, Inside, InitStages, Calls, None
  <2>8. ThreadsOK' /\ ControlOK'
    BY <1>1, <1>3, <1>5, <2>7, AsideKeeps, CvarsKept
  <2> QED BY <2>4, <2>8
<1>6. ASSUME Becomes(p, [thread[p] EXCEPT !.stage = "refused"]),
             IoDev' = [IoDev EXCEPT ![c].IrpCount = @ - 1]
      PROVE  IdsTypeOK' /\ ThreadsOK' /\ ControlOK'
  <2> DEFINE device == [IoDev[c] EXCEPT !.IrpCount = @ - 1]
  <2>1. device \in IoDevType
    BY <1>4, CountedType
  <2>2. IdsTypeOK'
    BY <1>1, <1>6, <2>1, ClientWritten
  <2>3. ThreadsOK' /\ ControlOK'
    BY <1>1, <1>2, <1>3, <1>6, StageKeeps
  <2> QED BY <2>2, <2>3
<1> QED BY SMTT(30), <1>1, <1>5, <1>6, Kept DEF TypeInv

LEMMA CreateUndoKeeps ==
    ASSUME TypeInv, NEW p \in App, CreateUndo(p)
    PROVE  TypeInv'
<1> DEFINE c == thread[p].io
           device == [IoDev[c] EXCEPT !.DeviceOpenCount = @ - 1]
<1>1. /\ thread[p].stage = "refused" /\ Becomes(p, IdleThread("idle"))
      /\ IoDev' = [IoDev EXCEPT ![c].DeviceOpenCount = @ - 1]
      /\ UNCHANGED <<book, wire, ClientId, flags, received, left, cvars>>
  BY DEF CreateUndo, At
<1>2. "refused" \notin InitStages
  BY DEF InitStages
<1>3. c \in Client => device \in IoDevType
  BY ClientType, CountedType
<1>4. IdsTypeOK'
  BY <1>1, <1>3, ClientWritten
<1> QED BY <1>1, <1>2, <1>4, ProgramIdles, Kept DEF TypeInv

LEMMA CloseFindKeeps ==
    ASSUME TypeInv, NEW p \in App, CloseFind(p)
    PROVE  TypeInv'
<1> DEFINE found == FileClients(p)
           c == FirstClient(found)
           record == [IdleThread("close") EXCEPT !.stage = "released", !.io = c]
<1>1. /\ thread[p].stage = None
      /\ \/ /\ Becomes(p, IdleThread("idle")) /\ UNCHANGED <<received, IoDev>>
         \/ /\ found # {} /\ IoDev' = [IoDev EXCEPT ![c].IrpCount = @ + 1]
            /\ received' \subseteq received
            /\ \/ Becomes(p, [record EXCEPT !.pc = "returned", !.result = "failed"])
               \/ Becomes(p, Call(record, "RELEASE", IoDev[c].adapter, c, IoDev[c].QMIType))
      /\ UNCHANGED <<book, wire, ClientId, flags, left, cvars>>
  BY DEF CloseFind, At
<1>2. None \notin InitStages /\ "released" \in Stages \ (InitStages \cup {"got"})
      /\ "close" \in Jobs /\ p \in Thread
  BY DEF InitStages, Stages, Jobs, None, Thread
<1>3. CASE Becomes(p, IdleThread("idle")) /\ UNCHANGED <<received, IoDev>>
  <2>1. UNCHANGED ids /\ UNCHANGED received
    BY <1>1, <1>3 DEF ids
  <2> QED BY <1>1, <1>2, <1>3, <2>1, ProgramIdles, Kept DEF TypeInv
<1>4. CASE /\ found # {} /\ IoDev' = [IoDev EXCEPT ![c].IrpCount = @ + 1]
           /\ received' \subseteq received
           /\ \/ Becomes(p, [record EXCEPT !.pc = "returned", !.result = "failed"])
              \/ Becomes(p, Call(record, "RELEASE", IoDev[c].adapter, c, IoDev[c].QMIType))
  <2>1. found \subseteq Client /\ \A e \in found : IoDev[e].adapter = Uses[p]
    BY DEF FileClients
  <2>2. \A e \in found : IoDev[e].place \in Nat
    BY <2>1, ClientType
  <2>3. c \in found
    BY <1>4, <2>1, <2>2, FirstClientIsOne
  <2>4. c \in Client /\ IoDev[c].adapter \in Adapter
    BY <2>1, <2>3, AdaptersAssumption
  <2> HIDE DEF c
  <2>5. IdsTypeOK'
    <3> DEFINE device == [IoDev[c] EXCEPT !.IrpCount = @ + 1]
    <3>1. device \in IoDevType
      BY <2>4, ClientType, CountedType
    <3> QED BY <1>1, <1>4, <3>1, ClientWritten
  <2>6. IdleThread("close") \in ThreadType /\ IdleThread("close").job = "close"
    BY <1>2, IdleRecord DEF IdleThread
  <2>7. record \in ThreadType /\ record.job = "close" /\ record.stage = "released"
    BY <1>2, <2>4, <2>6 DEF ThreadType
  <2> HIDE DEF record
  <2>8. WorkOK(p, record) /\ ~Inside(record) /\ record.job # "service"
    BY <2>7 DEF WorkOK, Inside, InitStages
  <2>9. ASSUME NEW r, Becomes(p, r),
               \/ r = [record EXCEPT !.pc = "returned", !.result = "failed"]
               \/ r = Call(record, "RELEASE", IoDev[c].adapter, c, IoDev[c].QMIType)
        PROVE  ThreadsOK' /\ ControlOK'
    <3>1. RecordOK(p, r) /\ ~Inside(r) /\ r.job # "service"
      BY <1>2, <2>4, <2>7, <2>8, <2>9, ReleaseRecord
    <3> QED BY <1>1, <1>2, <2>9, <3>1, AsideKeeps, CvarsKept
  <2>10. ThreadsOK' /\ ControlOK'
    BY <1>4, <2>9
  <2>11. EventsOK'
    BY <1>4 DEF TypeInv, EventsOK
  <2> QED BY <1>1, <2>5, <2>10, <2>11, Kept DEF TypeInv
<1> QED BY <1>1, <1>3, <1>4

LEMMA CloseClearKeeps ==
    ASSUME TypeInv, NEW p \in App, CloseClear(p)
    PROVE  TypeInv'
<1> DEFINE c == thread[p].io
           device == [IoDev[c] EXCEPT !.Acquired = FALSE, !.ClientId = 0]
<1>1. /\ thread[p].stage = "released" /\ p \in Thread
      /\ IoDev' = [IoDev EXCEPT ![c].Acquired = FALSE, ![c].ClientId = 0]
      /\ Becomes(p, [Rest(p) EXCEPT !.stage = "cleared"])
      /\ UNCHANGED <<book, wire, ClientId, flags, received, left, cvars>>
  BY DEF CloseClear, Back, Thread
<1>2. IdsTypeOK'
  <2>1. 0 \in 0 .. MaxId /\ FALSE \in BOOLEAN
    BY Sizes
  <2>2. ASSUME NEW old \in IoDevType
        PROVE  [old EXCEPT !.Acquired = FALSE, !.ClientId = 0] \in IoDevType
    BY <2>1 DEF IoDevType
  <2>3. c \in Client => device \in IoDevType
    BY <2>2, ClientType
  <2>4. IoDev' = [IoDev EXCEPT ![c] = device]
    BY <1>1 DEF TypeInv, IdsTypeOK
  <2> QED BY <1>1, <2>3, <2>4, ClientWritten
<1>3. ThreadsOK' /\ ControlOK'
  <2>1. "released" \notin InitStages /\ "cleared" \in Stages \ (InitStages \cup {"got"})
    BY DEF InitStages, Stages
  <2>2. RecordOK(p, Rest(p)) /\ Rest(p).job = thread[p].job
    BY <1>1, RestRecord DEF TypeInv
  <2>3. CASE thread[p].job # "service"
    BY <1>1, <2>1, <2>2, <2>3, StageKeeps
  <2>4. CASE thread[p].job = "service"
    <3> DEFINE r == [Rest(p) EXCEPT !.stage = "cleared"]
    <3>1. RecordOK(p, r) /\ ~Inside(r) /\ r.job = Rest(p).job
      BY <1>1, <2>1, <2>2, StageRecord
    <3>2. ~Inside(thread[p]) /\ thread[p].job = "service"
      BY <1>1, <2>1, <2>4 DEF Inside
    <3>3. Becomes(p, r)
      BY <1>1
    <3> HIDE DEF r
    <3>4. ThreadsOK /\ ControlOK /\ MainAdapterReady' \in [Device -> SUBSET {"sync", "format"}]
      BY <1>1 DEF TypeInv, ControlOK, ControlTypeOK, cvars
    <3>5. ThreadsOK'
      BY <1>1, <3>1, <3>3, <3>4, BecomesOK
    <3>6. ControlOK'
      BY <1>1, <3>1, <3>2, <3>3, <3>4, BecomesControl, CvarsKept
    <3> QED BY <3>5, <3>6
  <2> QED BY <2>3, <2>4
<1> QED BY <1>1, <1>2, <1>3, Kept DEF TypeInv

LEMMA CloseCountKeeps ==
    ASSUME TypeInv, NEW p \in App, CloseCount(p)
    PROVE  TypeInv'
<1> DEFINE c == thread[p].io
           last == Lower(IoDev[c].DeviceOpenCount) = 0 /\ ~IoDev[c].MPStopped
           life == IF last /\ IoDev[c].life = "listed" THEN "unlinked" ELSE IoDev[c].life
           device == [IoDev[c] EXCEPT !.DeviceOpenCount = Lower(IoDev[c].DeviceOpenCount),
                                      !.IrpCount = IoDev[c].IrpCount - 1, !.life = life]
<1>1. /\ thread[p].job = "close" /\ thread[p].stage = "cleared" /\ p \in Thread
      /\ IoDev' = [IoDev EXCEPT
            ![c].DeviceOpenCount = Lower(@), ![c].IrpCount = @ - 1,
            ![c].life = IF last /\ @ = "listed" THEN "unlinked" ELSE @]
      /\ \/ Becomes(p, [Rest(p) EXCEPT !.stage = "unlinked"])
         \/ Becomes(p, IdleThread("idle"))
      /\ UNCHANGED <<book, wire, ClientId, flags, received, left, cvars>>
  BY SMTT(30) DEF CloseCount, At, Thread
<1>2. IdsTypeOK'
  <2>1. ASSUME c \in Client PROVE device \in IoDevType
    <3>1. IoDev[c] \in IoDevType
      BY <2>1, ClientType
    <3>2. /\ Lower(IoDev[c].DeviceOpenCount) \in Int /\ IoDev[c].IrpCount - 1 \in Int
          /\ life \in {"none", "listed", "unlinked", "freed"}
      BY <3>1 DEF IoDevType, Lower
    <3>3. ASSUME NEW old \in IoDevType, NEW m \in Int, NEW n \in Int,
                 NEW x \in {"none", "listed", "unlinked", "freed"}
          PROVE  [old EXCEPT !.DeviceOpenCount = m, !.IrpCount = n, !.life = x] \in IoDevType
      BY DEF IoDevType
    <3> HIDE DEF life
    <3> QED BY ZenonT(30), <3>1, <3>2, <3>3
  <2>2. IoDev' = [IoDev EXCEPT ![c] = device]
    BY <1>1 DEF TypeInv, IdsTypeOK
  <2> HIDE DEF device
  <2> QED BY ZenonT(30), <1>1, <2>1, <2>2, ClientWritten
<1>3. ThreadsOK' /\ ControlOK'
  <2>1. "cleared" \notin InitStages /\ "unlinked" \in Stages \ (InitStages \cup {"got"})
    BY DEF InitStages, Stages
  <2>2. RecordOK(p, Rest(p)) /\ Rest(p).job = "close"
    BY <1>1, RestRecord DEF TypeInv
  <2> QED BY <1>1, <2>1, <2>2, StageKeeps, ProgramIdles
<1> QED BY SMTT(30), <1>1, <1>2, <1>3, Kept DEF TypeInv

LEMMA CloseFreeKeeps ==
    ASSUME TypeInv, NEW p \in App, CloseFree(p)
    PROVE  TypeInv'
<1> DEFINE c == thread[p].io
           device == [IoDev[c] EXCEPT !.life = "freed"]
<1>1. /\ thread[p].stage = "unlinked"
      /\ IoDev' = [IoDev EXCEPT ![c].life = "freed"]
      /\ Becomes(p, IdleThread("idle"))
      /\ UNCHANGED <<book, wire, ClientId, flags, received, left, cvars>>
  BY DEF CloseFree, At
<1>2. "unlinked" \notin InitStages
  BY DEF InitStages
<1>3. ASSUME NEW old \in IoDevType PROVE [old EXCEPT !.life = "freed"] \in IoDevType
  BY DEF IoDevType
<1>4. c \in Client => device \in IoDevType
  BY <1>3, ClientType
<1>5. IdsTypeOK'
  BY <1>1, <1>4, ClientWritten
<1> QED BY <1>1, <1>2, <1>5, ProgramIdles, Kept DEF TypeInv

LEMMA ProgramKeeps ==
    ASSUME TypeInv, NEW p \in App, ProgramStep(p)
    PROVE  TypeInv'
BY ServiceFileKeeps, ServiceGotKeeps, CreateFindKeeps, CreateReferenceKeeps,
   CreateCountKeeps, CreateDecideKeeps, CreateUndoKeeps, CloseFindKeeps,
   CloseClearKeeps, CloseCountKeeps, CloseFreeKeeps DEF ProgramStep
-----------------------------------------------------------------------------
(* The theorem *)

\* The ids that initialised adapters begin with.
LEMMA FirstIdsType ==
    ASSUME NEW initialised \in SUBSET Adapter
    PROVE  /\ FirstIds(initialised) \in [Adapter -> [DOMAIN Services -> 0 .. MaxId]]
           /\ \A a \in initialised, s \in DOMAIN Services :
                FirstIds(initialised)[a][s] \in 1 .. MaxId
<1> DEFINE upTo(a) == {b \in initialised \cap Group(a) : Position(b) <= Position(a)}
<1>1. ASSUME NEW a \in Adapter
      PROVE  Cardinality(upTo(a)) \in 0 .. MaxId
  <2>1. IsFiniteSet(Group(a)) /\ Cardinality(Group(a)) <= MaxId
    BY ScenariosAssumption
  <2>2. upTo(a) \in SUBSET Group(a)
    OBVIOUS
  <2> HIDE DEF upTo
  <2>3. IsFiniteSet(upTo(a)) /\ Cardinality(upTo(a)) <= Cardinality(Group(a))
    BY <2>1, <2>2, FS_Subset
  <2>4. Cardinality(upTo(a)) \in Nat /\ Cardinality(Group(a)) \in Nat
    BY <2>1, <2>3, FS_CardinalityType
  <2> QED BY <2>1, <2>3, <2>4, Sizes
<1>2. ASSUME NEW a \in initialised
      PROVE  Cardinality(upTo(a)) \in 1 .. MaxId
  <2>1. a \in Adapter
    OBVIOUS
  <2>2. \E i \in 1 .. Len(AdapterList) : AdapterList[i] = a
    BY <2>1 DEF Adapter
  <2>3. Position(a) \in 1 .. Len(AdapterList)
    BY <2>2 DEF Position
  <2>4. Len(AdapterList) \in Nat
    BY AdaptersAssumption
  <2>5. Position(a) <= Position(a)
    BY <2>3, <2>4
  <2>6. a \in Group(a)
    BY <2>1 DEF Group
  <2>7. upTo(a) # {}
    BY <2>5, <2>6
  <2>8. IsFiniteSet(upTo(a))
    BY <2>1, ScenariosAssumption, FS_Subset
  <2> HIDE DEF upTo
  <2>9. Cardinality(upTo(a)) # 0
    BY <2>7, <2>8, FS_EmptySet
  <2> QED BY <2>9, <1>1, <2>1, Sizes
<1>3. FirstIds(initialised) = [a \in Adapter |-> [s \in DOMAIN Services |->
                                 IF a \in initialised THEN Cardinality(upTo(a)) ELSE 0]]
  BY DEF FirstIds
<1>4. 0 \in 0 .. MaxId
  BY Sizes
<1> HIDE DEF upTo
<1> QED BY <1>1, <1>2, <1>3, <1>4

LEMMA InitType == Init => TypeInv
<1> SUFFICES ASSUME NEW s \in Scenarios, Begin(s.initialised, s.bounds)
             PROVE  TypeInv
  BY DEF Init
<1>1. s.initialised \in SUBSET Adapter /\ s.bounds \in [BoundNames -> Int]
  BY ScenariosAssumption
<1> DEFINE initialised == s.initialised
<1>2. /\ FirstIds(initialised) \in [Adapter -> [DOMAIN Services -> 0 .. MaxId]]
      /\ \A a \in initialised, v \in DOMAIN Services :
            FirstIds(initialised)[a][v] \in 1 .. MaxId
  BY <1>1, FirstIdsType
<1>3. BookTypeOK
  BY Sizes DEF Begin, BookTypeOK
<1>4. WireOK
  <2>1. devices \in [Device -> DeviceType]
    <3>1. ASSUME NEW d \in Device
          PROVE  {<<v, FirstIds(initialised)[a][v]>> :
                       v \in DOMAIN Services, a \in initialised \cap Group(d)}
                    \in SUBSET ((DOMAIN Services) \X (1 .. MaxId))
      BY <1>2
    <3>2. <<>> \in Seq(MessageType)
      OBVIOUS
    <3> QED BY <3>1, <3>2 DEF Begin, DeviceType
  <2>2. inbound = [d \in Device |-> {}] /\ irps = {}
    BY DEF Begin
  <2> QED BY <2>1, <2>2 DEF WireOK, WireTypeOK, RequestsOK, AnswersOK, DeviceType
<1>5. IdsTypeOK
  <2>1. 0 \in 0 .. MaxId /\ 0 \in 0 .. Len(Services) /\ 0 \in 0 .. 1 /\ FALSE \in BOOLEAN
    BY Sizes
  <2>2. NewIoDev \in IoDevType
    BY <2>1 DEF NewIoDev, IoDevType
  <2>3. IoDev = [c \in Client |-> NewIoDev] /\ ClientId = FirstIds(initialised)
    BY DEF Begin
  <2> QED BY <1>2, <2>2, <2>3 DEF IdsTypeOK
<1>6. FlagsTypeOK
  BY <1>1 DEF Begin, FlagsTypeOK
<1>7. thread = [t \in Thread |-> IdleThread("idle")]
      /\ \A t \in Thread : RecordOK(t, IdleThread("idle")) /\ ~Inside(IdleThread("idle"))
      /\ IdleThread("idle").job = "idle"
  <2>1. "idle" \in Jobs \ {"service", "create"}
    BY DEF Jobs
  <2> QED BY <2>1, IdleRecordOK DEF Begin, IdleThread
<1>8. ThreadsOK
  BY <1>7 DEF ThreadsOK, ThreadTypeOK, RecordOK
<1>9. ControlOK
  <2>1. ServiceFileOf = [a \in Adapter |-> None] /\ QmiInInitialization = [a \in Adapter |-> 0]
    BY DEF Begin
  <2>2. OneRequest
    BY <1>7, <2>1 DEF OneRequest, Thread
  <2>3. ControlTypeOK
    BY <2>1 DEF Begin, ControlTypeOK
  <2>4. CountOK
    <3>1. ASSUME NEW a \in Adapter PROVE Count(a) = 0
      BY <1>7, <2>1 DEF Count, OneIf, Thread
    <3> QED BY <2>1, <3>1 DEF CountOK
  <2> QED BY <2>2, <2>3, <2>4 DEF ControlOK
<1>10. EventsOK /\ BoundsOK
  BY <1>1 DEF Begin, EventsOK, BoundsOK
<1> QED BY <1>3, <1>4, <1>5, <1>6, <1>8, <1>9, <1>10 DEF TypeInv

LEMMA StutterKeeps == TypeInv /\ UNCHANGED vars => TypeInv'
<1> SUFFICES ASSUME TypeInv, UNCHANGED vars PROVE TypeInv'
  OBVIOUS
<1>1. /\ UNCHANGED book /\ UNCHANGED wire /\ UNCHANGED ids /\ UNCHANGED flags
      /\ UNCHANGED thread /\ UNCHANGED received /\ UNCHANGED left
      /\ UNCHANGED <<thread, cvars>>
  BY DEF vars, tvars
<1> QED BY <1>1, Kept DEF TypeInv

LEMMA NextKeeps == TypeInv /\ [Next]_vars => TypeInv'
<1> SUFFICES ASSUME TypeInv, [Next]_vars PROVE TypeInv'
  OBVIOUS
<1>1. CASE TransactionStep /\ UNCHANGED cvars
  BY <1>1, TransactionKeeps
<1>2. CASE \E t \in Thread : InitStep(t)
  BY <1>2, InitStepKeeps
<1>3. CASE \E a \in Adapter : MPThreadStep(a) \/ InitWanted(a)
  BY <1>3, MPThreadKeeps, InitWantedKeeps
<1>4. CASE \E d \in Device : LinkDown(d)
  BY <1>4, LinkDownKeeps
<1>5. CASE \E p \in App : ProgramStep(p)
  BY <1>5, ProgramKeeps
<1>6. CASE UNCHANGED vars
  BY <1>6, StutterKeeps
<1> QED BY <1>1, <1>2, <1>3, <1>4, <1>5, <1>6 DEF Next

\* The inductive invariant holds in every state.
THEOREM Invariant == Spec => []TypeInv
<1>1. Init => TypeInv
  BY InitType
<1>2. TypeInv /\ [Next]_vars => TypeInv'
  BY NextKeeps
<1> QED BY <1>1, <1>2, PTL DEF Spec

\* Every variable has its type, whatever the adapters, devices, programs and
\* clients; no more than two initialisations of an adapter are ever under way
\* (MPMAIN_InitializeQMI), and every message's service and client id are ones
\* that exist.
THEOREM TypeCorrect == Spec => []TypeOK
<1>1. TypeInv => TypeOK
  BY DEF TypeInv, TypeOK, WireOK, ThreadsOK, ControlOK, EventsOK, BoundsOK
<1> QED BY <1>1, Invariant, PTL
-----------------------------------------------------------------------------
(* Answers meet their requests *)

\* How often a counter of transaction ids goes on from one id to another.
Steps(from, to) == IF to >= from THEN to - from ELSE to - from + MaxTid

\* The ids and numbers that messages and items of a device have.
Numbers(d) == {<<x.tid, x.serial>> : x \in About(d)}

\* Since a request was numbered its device's counter has gone on at most once for
\* each later request.
RecentOK ==
    \A d \in Device : \A n \in Numbers(d) :
        n[1] # 0 => /\ n[2] <= serial
                    /\ Steps(n[1], QMICTLTransactionId[d]) <= serial - n[2]

\* Messages and items of a device with the same id are of the same request.
SameOK ==
    \A d \in Device : \A n, k \in Numbers(d) :
        n[1] = k[1] /\ n[1] # 0 => n[2] = k[2] \/ "wrapped" \in faults

MatchInv == TypeInv /\ RecentOK /\ SameOK /\ AnswersMatch

\* What a history contains stays in it.
Remembers == faults \subseteq faults'

LEMMA StepsOn ==
    ASSUME NEW from \in 1 .. MaxTid, NEW to \in 0 .. MaxTid
    PROVE  /\ Steps(from, to) \in 0 .. MaxTid
           /\ Steps(from, NextTid(to)) <= Steps(from, to) + 1
           /\ from = NextTid(to) => Steps(from, to) = MaxTid - 1 /\ Steps(from, from) = 0
BY Sizes DEF Steps, NextTid

LEMMA NumbersType ==
    ASSUME TypeInv, NEW d \in Device, NEW n \in Numbers(d)
    PROVE  n[1] \in 0 .. MaxTid /\ n[2] \in Nat
<1>1. PICK x \in About(d) : n = <<x.tid, x.serial>>
  BY DEF Numbers
<1>2. devices[d].outbox \in Seq(MessageType)
  BY DEF TypeInv, WireOK, WireTypeOK
<1>3. \/ x \in ItemType \/ x \in MessageType
  BY <1>2 DEF About, TypeInv, BookTypeOK, WireOK, WireTypeOK
<1>4. x.tid \in 0 .. MaxTid /\ x.serial \in Nat
  BY <1>3 DEF ItemType, MessageType
<1> QED BY <1>1, <1>4

\* A step after which a device has no numbers of its own that it had not before.
LEMMA NumbersKept ==
    ASSUME RecentOK, SameOK, UNCHANGED <<QMICTLTransactionId, serial>>, Remembers,
           \A d \in Device : \A n \in Numbers(d)' : n \in Numbers(d) \/ n[1] = 0
    PROVE  RecentOK' /\ SameOK'
BY DEF RecentOK, SameOK, Remembers

\* A step that leaves messages and items alone.
LEMMA MatchesKept ==
    ASSUME RecentOK, SameOK, AnswersMatch, UNCHANGED <<book, irps, inbound>>, Remembers,
           \A d \in Device : devices'[d].outbox = devices[d].outbox
    PROVE  RecentOK' /\ SameOK' /\ AnswersMatch'
<1>1. \A d \in Device : Numbers(d)' = Numbers(d)
  BY DEF Numbers, About, book
<1>2. RecentOK' /\ SameOK'
  BY <1>1, NumbersKept DEF book
<1>3. AnswersMatch'
  BY DEF AnswersMatch, Excused, Remembers
<1> QED BY <1>2, <1>3

\* One that only handles or ignores answers keeps those that are left.
LEMMA InboundKept ==
    ASSUME AnswersMatch, Remembers, \A d \in Device : inbound'[d] \subseteq inbound[d]
    PROVE  AnswersMatch'
BY DEF AnswersMatch, Excused, Remembers

\* A request takes the next id: an older message or item that has it is as old as
\* the ids are many.
LEMMA RequestNumbers ==
    ASSUME TypeInv, RecentOK, SameOK, NEW t \in Thread, thread[t].pc = "request",
           NEW irp \in Irp, Allocate(t, irp), Remembers,
           Wrapped(t) => "wrapped" \in faults',
           \A d \in Device : \A n \in Numbers(d)' :
              n \in Numbers(d) \/ (d = DeviceOf(t) /\ n = <<Tid(t), NextSerial(t)>>)
    PROVE  RecentOK' /\ SameOK'
<1> DEFINE own == DeviceOf(t)
           counter == QMICTLTransactionId[own]
<1>1. own \in Device /\ own \in Adapter /\ TidCounter(thread[t].adapter) = own
  BY RequestRecords, Devices
<1>2. QMICTLTransactionId \in [Adapter -> 0 .. MaxTid] /\ serial \in Nat
  BY DEF TypeInv, BookTypeOK
<1>3. Tid(t) = NextTid(counter) /\ Tid(t) \in 1 .. MaxTid /\ counter \in 0 .. MaxTid
  BY <1>1, <1>2, NextTidType DEF Tid
<1>4. /\ QMICTLTransactionId' = [QMICTLTransactionId EXCEPT ![own] = Tid(t)]
      /\ serial' = NextSerial(t)
  BY <1>1 DEF Allocate
<1>5. Steps(Tid(t), Tid(t)) = 0
  BY <1>3, StepsOn
<1>6. CASE Quiet(t)
  <2>1. ASSUME NEW d \in Device
        PROVE  Numbers(d) = {}
    <3>1. transactions = {} /\ irps = {} /\ devices[d].outbox = <<>>
      BY <1>6 DEF Quiet
    <3> QED BY <3>1 DEF Numbers, About
  <2>2. \A d \in Device : \A n \in Numbers(d)' : d = own /\ n = <<Tid(t), serial'>>
    BY <1>4, <2>1
  <2>3. serial' = 1
    BY <1>4, <1>6 DEF NextSerial
  <2>4. RecentOK'
    <3> SUFFICES ASSUME NEW d \in Device, NEW n \in Numbers(d)'
                 PROVE  n[2] <= serial' /\ Steps(n[1], QMICTLTransactionId'[d]) <= serial' - n[2]
      BY DEF RecentOK
    <3>1. d = own /\ n = <<Tid(t), serial'>>
      BY <2>2
    <3>2. n[1] = Tid(t) /\ n[2] = 1 /\ QMICTLTransactionId'[d] = Tid(t)
      BY <1>1, <1>2, <1>4, <2>3, <3>1
    <3> QED BY <1>5, <2>3, <3>2
  <2>5. SameOK'
    BY <2>2 DEF SameOK
  <2> QED BY <2>4, <2>5
<1>7. CASE ~Quiet(t)
  <2>1. serial' = serial + 1 /\ NextSerial(t) = serial + 1
    BY <1>4, <1>7 DEF NextSerial
  <2>2. RecentOK'
    <3> SUFFICES ASSUME NEW d \in Device, NEW n \in Numbers(d)', n[1] # 0
                 PROVE  n[2] <= serial' /\ Steps(n[1], QMICTLTransactionId'[d]) <= serial' - n[2]
      BY DEF RecentOK
    <3>1. CASE d = own /\ n = <<Tid(t), NextSerial(t)>>
      <4>1. n[1] = Tid(t) /\ n[2] = serial' /\ QMICTLTransactionId'[d] = Tid(t)
        BY <1>1, <1>2, <1>4, <3>1
      <4> QED BY <1>2, <1>5, <2>1, <4>1
    <3>2. CASE n \in Numbers(d)
      <4>1. n[1] \in 1 .. MaxTid /\ n[2] \in Nat
        BY <3>2, NumbersType
      <4>2. n[2] <= serial /\ Steps(n[1], QMICTLTransactionId[d]) <= serial - n[2]
        BY <3>2 DEF RecentOK
      <4>3. d \in Adapter /\ QMICTLTransactionId[d] \in 0 .. MaxTid
        BY <1>2, Devices
      <4>4. /\ Steps(n[1], QMICTLTransactionId[d]) \in 0 .. MaxTid
            /\ Steps(n[1], NextTid(QMICTLTransactionId[d]))
                  <= Steps(n[1], QMICTLTransactionId[d]) + 1
        BY <4>1, <4>3, StepsOn
      <4>5. NextTid(QMICTLTransactionId[d]) \in 0 .. MaxTid
        BY <4>3, NextTidType, Sizes
      <4>6. Steps(n[1], NextTid(QMICTLTransactionId[d])) \in Int
        BY <4>1, <4>5, StepsOn
      <4>7. QMICTLTransactionId'[d] \in {QMICTLTransactionId[d], NextTid(QMICTLTransactionId[d])}
        BY <1>2, <1>3, <1>4, <4>3
      <4> DEFINE a == Steps(n[1], QMICTLTransactionId[d])
                 b == Steps(n[1], NextTid(QMICTLTransactionId[d]))
                 c == Steps(n[1], QMICTLTransactionId'[d])
      <4>8. c \in {a, b} /\ a \in Int /\ b \in Int /\ b <= a + 1 /\ a <= serial - n[2]
        BY <4>2, <4>4, <4>6, <4>7, Sizes
      <4> HIDE DEF a, b, c
      <4>9. n[2] <= serial' /\ c <= serial' - n[2]
        BY <1>2, <2>1, <4>1, <4>2, <4>8
      <4> QED BY <4>9 DEF c
    <3> QED BY <3>1, <3>2
  <2>3. ASSUME NEW n \in Numbers(own), n[1] = Tid(t)
        PROVE  "wrapped" \in faults'
    <3>1. n[1] \in 1 .. MaxTid /\ n[2] \in Nat
      BY <1>1, <1>3, <2>3, NumbersType
    <3>2. n[2] <= serial /\ Steps(n[1], counter) <= serial - n[2]
      BY <1>1, <3>1 DEF RecentOK
    <3>3. Steps(n[1], counter) = MaxTid - 1
      BY <1>3, <2>3, <3>1, StepsOn
    <3>4. n[2] <= NextSerial(t) - MaxTid
      BY <1>2, <2>1, <3>1, <3>2, <3>3, Sizes
    <3>5. PICK x \in About(own) : n = <<x.tid, x.serial>>
      BY DEF Numbers
    <3>6. Wrapped(t)
      BY <2>3, <3>4, <3>5 DEF Wrapped
    <3> QED BY <3>6
  <2>4. SameOK'
    <3> SUFFICES ASSUME NEW d \in Device, NEW n \in Numbers(d)', NEW k \in Numbers(d)',
                        n[1] = k[1], n[1] # 0
                 PROVE  n[2] = k[2] \/ "wrapped" \in faults'
      BY DEF SameOK
    <3> DEFINE New(m) == d = own /\ m = <<Tid(t), NextSerial(t)>>
    <3>1. CASE n \in Numbers(d) /\ k \in Numbers(d)
      BY <3>1 DEF SameOK, Remembers
    <3>2. CASE n \in Numbers(d) /\ New(k)
      BY <2>3, <3>2
    <3>3. CASE New(n) /\ k \in Numbers(d)
      BY <2>3, <3>3
    <3>4. CASE New(n) /\ New(k)
      BY <3>4
    <3> QED BY <3>1, <3>2, <3>3, <3>4
  <2> QED BY <2>2, <2>4
<1> QED BY <1>6, <1>7

LEMMA RequestMatches ==
    ASSUME MatchInv, NEW t \in Thread, Request(t) \/ RequestRefused(t)
    PROVE  RecentOK' /\ SameOK' /\ AnswersMatch'
<1>1. /\ thread[t].pc = "request" /\ UNCHANGED <<devices, inbound>>
      /\ Remembers
      /\ Wrapped(t) => "wrapped" \in faults'
  BY DEF Request, RequestRefused, Remembers, FaultIf, wire
<1>2. PICK irp \in Irp :
        /\ Allocate(t, irp)
        /\ transactions' \subseteq transactions \cup {NewItem(t, irp)}
        /\ irps' \subseteq irps \cup {[irp |-> irp, device |-> DeviceOf(t),
                                       message |-> NewMessage(t)]}
  BY DEF Request, RequestRefused, WithoutFailed, wire
<1>3. /\ NewItem(t, irp).tid = Tid(t) /\ NewItem(t, irp).serial = NextSerial(t)
      /\ Physical[NewItem(t, irp).adapter] = DeviceOf(t)
      /\ NewMessage(t).tid = Tid(t) /\ NewMessage(t).serial = NextSerial(t)
  BY DEF NewItem, NewMessage, DeviceOf
<1>4. ASSUME NEW d \in Device, NEW n \in Numbers(d)'
      PROVE  n \in Numbers(d) \/ (d = DeviceOf(t) /\ n = <<Tid(t), NextSerial(t)>>)
  <2>1. PICK x \in About(d)' : n = <<x.tid, x.serial>>
    BY DEF Numbers
  <2>2. \/ x \in About(d)
        \/ x = NewItem(t, irp) /\ d = DeviceOf(t)
        \/ x = NewMessage(t) /\ d = DeviceOf(t)
    BY <1>1, <1>2, <1>3 DEF About
  <2> QED BY <1>3, <2>1, <2>2 DEF Numbers
<1>5. RecentOK' /\ SameOK'
  BY <1>1, <1>2, <1>4, RequestNumbers DEF MatchInv
<1>6. AnswersMatch'
  BY <1>1, InboundKept DEF MatchInv
<1> QED BY <1>5, <1>6

\* The other steps of a call.
LEMMA CallMatches ==
    ASSUME MatchInv, NEW t \in Thread, CallStep(t)
    PROVE  RecentOK' /\ SameOK' /\ AnswersMatch'
<1>1. CASE Request(t) \/ RequestRefused(t)
  BY <1>1, RequestMatches
<1>2. CASE RequestFails(t) \/ Signalled(t) \/ Timeout(t) \/ ClearAfterTimeout(t)
  <2>1. UNCHANGED <<book, irps, inbound>> /\ UNCHANGED devices /\ Remembers
    BY <1>2 DEF RequestFails, Signalled, Timeout, ClearAfterTimeout, wire, Remembers
  <2> QED BY <2>1, MatchesKept DEF MatchInv
<1>3. CASE RemoveOldTransactionItem(t)
  <2>1. /\ transactions' \subseteq transactions /\ Remembers
        /\ UNCHANGED <<QMICTLTransactionId, serial, irps, devices, inbound>>
    BY <1>3 DEF RemoveOldTransactionItem, WithoutOld, wire, Remembers
  <2>2. \A d \in Device : \A n \in Numbers(d)' : n \in Numbers(d)
    BY <2>1 DEF Numbers, About
  <2>3. RecentOK' /\ SameOK'
    BY <2>1, <2>2, NumbersKept DEF MatchInv
  <2>4. AnswersMatch'
    BY <2>1, InboundKept DEF MatchInv
  <2> QED BY <2>3, <2>4
<1> QED BY <1>1, <1>2, <1>3 DEF CallStep

\* The device answers with the id and the number of the request.
LEMMA LowerMatches ==
    ASSUME MatchInv, NEW r \in irps, RequestSent(r) \/ RequestLost(r)
    PROVE  RecentOK' /\ SameOK' /\ AnswersMatch'
<1>1. /\ UNCHANGED <<QMICTLTransactionId, serial, inbound>> /\ Remembers
      /\ irps' \subseteq irps /\ transactions' \subseteq transactions
  BY DEF RequestSent, RequestLost, WithoutFailed, book, Remembers, DeviceGives,
         DeviceTakesBack, DeviceAgrees, DeviceRefuses, DeviceSilent
<1>2. \/ devices' = devices
      \/ \E ok, id, known : DeviceAnswers(r.device, r.message, ok, id, known)
  BY DEF RequestSent, RequestLost, DeviceGives, DeviceTakesBack, DeviceAgrees,
         DeviceRefuses, DeviceSilent
<1>3. ASSUME NEW d \in Device, NEW n \in Numbers(d)'
      PROVE  n \in Numbers(d)
  <2>1. PICK x \in About(d)' : n = <<x.tid, x.serial>>
    BY DEF Numbers
  <2>2. CASE devices' = devices
    BY <1>1, <2>1, <2>2 DEF Numbers, About
  <2>3. ASSUME NEW ok, NEW id, NEW known,
               DeviceAnswers(r.device, r.message, ok, id, known)
        PROVE  n \in Numbers(d)
    <3> DEFINE m == [r.message EXCEPT !.ok = ok, !.id = id]
               box == devices[d].outbox
    <3>1. devices \in [Device -> DeviceType] /\ r.message \in MessageType
      BY DEF MatchInv, TypeInv, WireOK, WireTypeOK, DeviceType
    <3>2. box \in Seq(MessageType)
      BY <3>1 DEF DeviceType
    <3>3. devices'[d].outbox = box \/ (d = r.device /\ devices'[d].outbox = Append(box, m))
      BY <2>3, <3>1 DEF DeviceAnswers, DeviceType
    <3>4. m.tid = r.message.tid /\ m.serial = r.message.serial
      BY <3>1 DEF MessageType
    <3> HIDE DEF m
    <3>5. \A i \in 1 .. Len(Append(box, m)) : Append(box, m)[i] = m
                \/ (i \in 1 .. Len(box) /\ Append(box, m)[i] = box[i])
      BY <3>2
    <3>6. x \in About(d) \/ (d = r.device /\ x = m)
      <4>1. CASE x \in {i \in transactions' : Physical[i.adapter] = d}
                   \cup {q.message : q \in {q \in irps' : q.device = d}}
        BY <1>1, <4>1 DEF About
      <4>2. CASE x \in {devices'[d].outbox[i] : i \in 1 .. Len(devices'[d].outbox)}
        <5>1. PICK i \in 1 .. Len(devices'[d].outbox) : x = devices'[d].outbox[i]
          BY <4>2
        <5>2. x \in {box[j] : j \in 1 .. Len(box)} \/ (d = r.device /\ x = m)
          BY <3>3, <3>5, <5>1
        <5> QED BY <5>2 DEF About
      <4> QED BY <2>1, <4>1, <4>2 DEF About
    <3>7. CASE d = r.device /\ x = m
      <4>1. r.message \in About(d)
        BY <3>7 DEF About
      <4> QED BY <2>1, <3>4, <3>7, <4>1 DEF Numbers
    <3> QED BY <2>1, <3>6, <3>7 DEF Numbers
  <2> QED BY <1>2, <2>2, <2>3
<1>4. RecentOK' /\ SameOK'
  BY <1>1, <1>3, NumbersKept DEF MatchInv
<1>5. AnswersMatch'
  BY <1>1, InboundKept DEF MatchInv
<1> QED BY <1>4, <1>5

\* What an indication carries is no transaction.
LEMMA ModemMatches ==
    ASSUME MatchInv, NEW d \in Device, ModemStep(d)
    PROVE  RecentOK' /\ SameOK' /\ AnswersMatch'
<1>1. UNCHANGED <<QMICTLTransactionId, serial, transactions, irps, inbound>> /\ Remembers
  BY DEF ModemStep, DeviceRestarts, DeviceRevokes, book, Remembers
<1>2. devices \in [Device -> DeviceType]
  BY DEF MatchInv, TypeInv, WireOK, WireTypeOK, DeviceType
<1> DEFINE box(e) == devices[e].outbox
           box1(e) == devices'[e].outbox
<1>3. ASSUME NEW e \in Device
      PROVE  \A i \in 1 .. Len(box1(e)) :
                box1(e)[i].tid = 0 \/ (i \in 1 .. Len(box(e)) /\ box1(e)[i] = box(e)[i])
  <2>1. CASE devices'[e] = devices[e]
    BY <2>1
  <2>2. CASE e = d /\ DeviceRestarts(d)
    <3>1. box1(d) = <<Indication("RESTART", 1, 0)>>
      BY <1>2, <2>2 DEF DeviceRestarts
    <3>2. Indication("RESTART", 1, 0).tid = 0
      BY DEF Indication
    <3> QED BY <2>2, <3>1, <3>2
  <2>3. CASE e = d /\ DeviceRevokes(d)
    <3>1. PICK given \in devices[d].ids :
            box1(d) = Append(box(d), Indication("REVOKE", given[1], given[2]))
      BY <1>2, <2>3 DEF DeviceRevokes, DeviceType
    <3>2. Indication("REVOKE", given[1], given[2]).tid = 0
      BY DEF Indication
    <3>3. box(d) \in Seq(MessageType)
      BY <1>2 DEF DeviceType
    <3> DEFINE m == Indication("REVOKE", given[1], given[2])
    <3> HIDE DEF m
    <3>4. \A i \in 1 .. Len(Append(box(d), m)) :
             Append(box(d), m)[i] = m
             \/ (i \in 1 .. Len(box(d)) /\ Append(box(d), m)[i] = box(d)[i])
      BY <3>3
    <3> QED BY <2>3, <3>1, <3>2, <3>4 DEF m
  <2>4. devices'[e] = devices[e] \/ (e = d /\ (DeviceRestarts(d) \/ DeviceRevokes(d)))
    BY <1>2 DEF ModemStep, DeviceRestarts, DeviceRevokes
  <2> QED BY <2>1, <2>2, <2>3, <2>4
<1>4. ASSUME NEW e \in Device, NEW n \in Numbers(e)'
      PROVE  n \in Numbers(e) \/ n[1] = 0
  <2>1. PICK x \in About(e)' : n = <<x.tid, x.serial>>
    BY DEF Numbers
  <2>2. x \in About(e) \/ x.tid = 0
    <3>1. CASE x \in {i \in transactions' : Physical[i.adapter] = e}
                 \cup {q.message : q \in {q \in irps' : q.device = e}}
      BY <1>1, <3>1 DEF About
    <3>2. CASE x \in {box1(e)[i] : i \in 1 .. Len(box1(e))}
      BY <1>3, <3>2 DEF About
    <3> QED BY <2>1, <3>1, <3>2 DEF About
  <2> QED BY <2>1, <2>2 DEF Numbers
<1>5. RecentOK' /\ SameOK'
  BY <1>1, <1>4, NumbersKept DEF MatchInv
<1>6. AnswersMatch'
  BY <1>1, InboundKept DEF MatchInv
<1> QED BY <1>5, <1>6

\* An answer takes the item of its request, or one of another device.
LEMMA InboundMatches ==
    ASSUME MatchInv, NEW d \in Device, InboundStep(d)
    PROVE  RecentOK' /\ SameOK' /\ AnswersMatch'
<1>1. devices \in [Device -> DeviceType] /\ inbound \in [Device -> SUBSET [message : MessageType, item : ItemType]]
  BY DEF MatchInv, TypeInv, WireOK, WireTypeOK, DeviceType
<1>2. CASE InboundHandle(d)
  <2>1. /\ UNCHANGED <<book, irps, devices>> /\ Remembers
        /\ inbound' = [inbound EXCEPT ![d] = {}]
    BY <1>2 DEF InboundHandle, Remembers
  <2>2. \A e \in Device : Numbers(e)' = Numbers(e)
    BY <2>1 DEF Numbers, About, book
  <2>3. RecentOK' /\ SameOK'
    BY <2>1, <2>2, NumbersKept DEF MatchInv, book
  <2>4. AnswersMatch'
    BY <1>1, <2>1, InboundKept DEF MatchInv
  <2> QED BY <2>3, <2>4
<1> DEFINE box == devices[d].outbox
           m == Head(box)
<1>3. CASE InboundTake(d) \/ InboundIndication(d)
  <2>1. /\ box # <<>> /\ devices' = [devices EXCEPT ![d].outbox = Tail(@)] /\ Remembers
        /\ UNCHANGED <<QMICTLTransactionId, serial, irps>>
        /\ transactions' \subseteq transactions
    BY <1>3 DEF InboundTake, InboundIndication, book, Remembers
  <2>2. box \in Seq(MessageType)
    BY <1>1 DEF DeviceType
  <2>3. \A i \in 1 .. Len(Tail(box)) : i + 1 \in 1 .. Len(box) /\ Tail(box)[i] = box[i + 1]
    BY <2>1, <2>2
  <2>4. m = box[1] /\ 1 \in 1 .. Len(box)
    BY <2>1, <2>2
  <2>5. ASSUME NEW e \in Device, NEW n \in Numbers(e)'
        PROVE  n \in Numbers(e)
    <3>1. PICK x \in About(e)' : n = <<x.tid, x.serial>>
      BY DEF Numbers
    <3>2. devices'[e].outbox = devices[e].outbox \/ (e = d /\ devices'[e].outbox = Tail(box))
      BY <1>1, <2>1 DEF DeviceType
    <3>3. x \in About(e)
      <4>1. CASE x \in {i \in transactions' : Physical[i.adapter] = e}
                   \cup {q.message : q \in {q \in irps' : q.device = e}}
        BY <2>1, <4>1 DEF About
      <4>2. CASE x \in {devices'[e].outbox[i] : i \in 1 .. Len(devices'[e].outbox)}
        <5>1. CASE devices'[e].outbox = devices[e].outbox
          BY <4>2, <5>1 DEF About
        <5>2. CASE e = d /\ devices'[e].outbox = Tail(box)
          <6>1. PICK i \in 1 .. Len(Tail(box)) : x = Tail(box)[i]
            BY <4>2, <5>2
          <6>2. i + 1 \in 1 .. Len(box) /\ x = box[i + 1]
            BY <2>3, <6>1
          <6> QED BY <5>2, <6>2 DEF About
        <5> QED BY <3>2, <5>1, <5>2
      <4> QED BY <3>1, <4>1, <4>2 DEF About
    <3> QED BY <3>1, <3>3 DEF Numbers
  <2>6. RecentOK' /\ SameOK'
    BY <2>1, <2>5, NumbersKept DEF MatchInv
  <2>7. CASE InboundIndication(d)
    <3>1. UNCHANGED inbound
      BY <2>7 DEF InboundIndication
    <3>2. AnswersMatch'
      BY <2>1, <3>1, InboundKept DEF MatchInv
    <3> QED BY <2>6, <3>2
  <2>8. CASE InboundTake(d)
    <3> DEFINE found == FindTid(transactions, m.tid)
    <3>1. /\ inbound' = [inbound EXCEPT ![d] = {[message |-> m, item |-> i] : i \in found}]
          /\ (\E i \in found : Physical[i.adapter] # d) => "crossed" \in faults'
      BY <2>8 DEF InboundTake, FaultIf
    <3>2. ASSUME NEW i \in found
          PROVE  i.serial = m.serial \/ faults' \cap MixedUp # {}
      <4>1. i \in transactions /\ i.tid = m.tid /\ i.tid # 0
        BY FoundIsQueued DEF MatchInv, TypeInv, BookTypeOK, ItemType
      <4>2. CASE Physical[i.adapter] # d
        BY <3>1, <4>2 DEF MixedUp
      <4>3. CASE Physical[i.adapter] = d
        <5>1. i \in About(d) /\ m \in About(d)
          BY <2>4, <4>1, <4>3 DEF About
        <5>2. <<i.tid, i.serial>> \in Numbers(d) /\ <<m.tid, m.serial>> \in Numbers(d)
          BY <5>1 DEF Numbers
        <5>3. i.serial = m.serial \/ "wrapped" \in faults
          BY <4>1, <5>2 DEF MatchInv, SameOK
        <5> QED BY <2>1, <5>3 DEF Remembers, MixedUp
      <4> QED BY <4>2, <4>3
    <3>3. ASSUME NEW e \in Device, NEW h \in inbound'[e]
          PROVE  h.item.serial = h.message.serial \/ faults' \cap MixedUp # {}
      <4>1. CASE h \in inbound[e]
        BY <2>1, <4>1 DEF MatchInv, AnswersMatch, Excused, Remembers
      <4>2. CASE h \notin inbound[e]
        <5>1. PICK i \in found : h = [message |-> m, item |-> i]
          BY <1>1, <3>1, <4>2
        <5>2. h.item = i /\ h.message = m
          BY <5>1
        <5> QED BY <3>2, <5>2
      <4> QED BY <4>1, <4>2
    <3>4. AnswersMatch'
      BY <3>3 DEF AnswersMatch, Excused
    <3> QED BY <2>6, <3>4
  <2> QED BY <1>3, <2>7, <2>8
<1> QED BY <1>2, <1>3 DEF InboundStep

\* The steps of module QmiClients neither send nor handle messages themselves.
Aside ==
    /\ UNCHANGED <<book, irps, inbound>> /\ Remembers
    /\ \A d \in Device : devices'[d].outbox = devices[d].outbox

LEMMA AsideMatches ==
    ASSUME MatchInv, Aside
    PROVE  RecentOK' /\ SameOK' /\ AnswersMatch'
BY MatchesKept DEF MatchInv, Aside

LEMMA InitStepAside ==
    ASSUME TypeInv, NEW t \in Thread, InitStep(t)
    PROVE  Aside
<1>1. CASE InitPolled(t)
  BY <1>1 DEF InitPolled, Aside, Remembers, wire
<1>2. CASE InitVersion(t)
  BY <1>2 DEF InitVersion, Again, GivesUp, Aside, Remembers, wire
<1>3. CASE InitSync(t)
  BY <1>3 DEF InitSync, Again, GivesUp, Aside, Remembers, wire
<1>4. CASE InitMain(t)
  BY <1>4 DEF InitMain, Aside, Remembers, wire
<1>6. CASE InitFormat(t)
  BY <1>6 DEF InitFormat, Aside, Remembers, wire
<1>5. CASE OpenedService(t)
  <2>1. /\ UNCHANGED <<book, irps, inbound>> /\ Remembers
        /\ \/ devices' = devices
           \/ devices' = [devices EXCEPT ![Physical[AdapterOf(t)]].ids = {}]
    BY <1>5 DEF OpenedService, Remembers
  <2>2. devices \in [Device -> DeviceType]
    BY DEF TypeInv, WireOK, WireTypeOK, DeviceType
  <2>3. \A d \in Device : devices'[d].outbox = devices[d].outbox
    BY <2>1, <2>2 DEF DeviceType
  <2> QED BY <2>1, <2>3 DEF Aside
<1> QED BY <1>1, <1>2, <1>3, <1>4, <1>5, <1>6 DEF InitStep

LEMMA MPThreadAside ==
    ASSUME NEW a \in Adapter,
           MPThreadStep(a) \/ InitWanted(a) \/ \E d \in Device : LinkDown(d)
    PROVE  Aside
<1>1. CASE StartInit(a) \/ InitWanted(a) \/ IdleCheck(a)
  BY <1>1 DEF StartInit, InitWanted, IdleCheck, Aside, Remembers, wire
<1>2. CASE SyncPass(a) \/ SyncCount(a)
  BY ZenonT(30), <1>2 DEF SyncPass, SyncCount, Disconnect, Aside, Remembers, wire
<1>3. CASE IdleWalk(a) \/ IdleReset(a)
  BY ZenonT(30), <1>3 DEF IdleWalk, IdleReset, Aside, Remembers, wire
<1>4. CASE \E d \in Device : LinkDown(d)
  BY <1>4 DEF LinkDown, Disconnect, Aside, Remembers, wire
<1> QED BY <1>1, <1>2, <1>3, <1>4 DEF MPThreadStep

LEMMA ProgramAside ==
    ASSUME NEW p \in App, ProgramStep(p)
    PROVE  Aside
<1>1. CASE ServiceFile(p) \/ ServiceGot(p) \/ CreateFind(p)
  BY <1>1 DEF ServiceFile, ServiceGot, CreateFind, Aside, Remembers, wire
<1>2. CASE CreateReference(p) \/ CreateCount(p) \/ CreateDecide(p) \/ CreateUndo(p)
  BY ZenonT(30), <1>2 DEF CreateReference, CreateCount, CreateDecide, CreateUndo, Aside, Remembers, wire
<1>3. CASE CloseFind(p) \/ CloseClear(p) \/ CloseCount(p) \/ CloseFree(p)
  BY ZenonT(30), <1>3 DEF CloseFind, CloseClear, CloseCount, CloseFree, Aside, Remembers, wire
<1> QED BY <1>1, <1>2, <1>3 DEF ProgramStep

LEMMA NextMatches == MatchInv /\ [Next]_vars => MatchInv'
<1> SUFFICES ASSUME MatchInv, [Next]_vars PROVE RecentOK' /\ SameOK' /\ AnswersMatch'
  BY NextKeeps DEF MatchInv
<1>1. CASE TransactionStep
  BY <1>1, CallMatches, LowerMatches, ModemMatches, InboundMatches
     DEF TransactionStep, LowerStep
<1>2. ASSUME Aside PROVE RecentOK' /\ SameOK' /\ AnswersMatch'
  BY <1>2, AsideMatches
<1>3. CASE \E t \in Thread : InitStep(t)
  BY <1>2, <1>3, InitStepAside DEF MatchInv
<1>4. CASE \E a \in Adapter : MPThreadStep(a) \/ InitWanted(a)
  BY <1>2, <1>4, MPThreadAside
<1>5. CASE \E d \in Device : LinkDown(d)
  <2>1. \E a : a \in Adapter
    BY <1>5, Devices
  <2> QED BY <1>2, <1>5, <2>1, MPThreadAside
<1>6. CASE \E p \in App : ProgramStep(p)
  BY <1>2, <1>6, ProgramAside
<1>7. CASE UNCHANGED vars
  BY <1>2, <1>7 DEF vars, tvars, wire, Aside, Remembers
<1> QED BY <1>1, <1>3, <1>4, <1>5, <1>6, <1>7 DEF Next

LEMMA InitMatches == Init => MatchInv
<1> SUFFICES ASSUME Init PROVE MatchInv
  OBVIOUS
<1>1. /\ transactions = {} /\ irps = {}
      /\ \A d \in Device : devices[d].outbox = <<>> /\ inbound[d] = {}
  BY DEF Init, Begin
<1>2. \A d \in Device : Numbers(d) = {}
  BY <1>1 DEF Numbers, About
<1>3. RecentOK /\ SameOK /\ AnswersMatch
  BY <1>1, <1>2 DEF RecentOK, SameOK, AnswersMatch
<1> QED BY <1>3, InitType DEF MatchInv

\* An answer is only ever handled with the item of the request that it answers,
\* for every number of adapters, devices, threads, transaction ids and services,
\* unless its id came round again while a message or an item still had it, or it
\* met an item of another device (MPQCTL_ProcessInboundQMICTL).
THEOREM AnswersMeetRequests == Spec => []AnswersMatch
<1>1. Init => MatchInv
  BY InitMatches
<1>2. MatchInv /\ [Next]_vars => MatchInv'
  BY NextMatches
<1>3. MatchInv => AnswersMatch
  BY DEF MatchInv
<1> QED BY <1>1, <1>2, <1>3, PTL DEF Spec
=============================================================================
