--------------------------- MODULE QmiClientProofs ---------------------------
(***************************************************************************)
(* Proofs about the client records of the control devices and about the    *)
(* items of the QMICTL transactions.                                       *)
(***************************************************************************)
EXTENDS QmiProofs

-----------------------------------------------------------------------------
(* What a thread does *)

Creating == {"found", "referenced", "counted", "refused"}
Closing  == {"released", "cleared", "unlinked"}

\* The stages of each job, whose job it is, and which client it is about.
JobOK(t, r) ==
    /\ r.job \in {"init", "sync", "check"} => t \in Adapter
    /\ r.job \in {"service", "named", "create", "open", "close"} => t \in App
    /\ r.job \in {"idle", "named", "open"} => r.stage = None
    /\ r.job = "init" => r.stage \in InitStages
    /\ r.job = "sync" => r.stage = "counted"
    /\ r.job = "check" => r.stage \in {"walk", "release"}
    /\ r.job = "service" => r.stage \in InitStages \cup {"got"}
    /\ r.job = "create" => r.stage \in Creating
    /\ r.job = "close" => r.stage \in Closing
    /\ r.job \in {"idle", "init", "sync", "named", "open"} => r.io = None
    /\ r.job \in {"service", "create", "close"} \/ r.stage = "release" => r.io \in Client
    /\ IF r.job = "open" THEN r.file.client \in Client ELSE r.file = NoFile

\* A call is for the adapter, or for the client that the thread works on.
OwnCall(r) ==
    r.pc \in Calls \/ r.result = "timeout" =>
        \/ r.stage \in {"version", "sync", "opened"} /\ r.context = r.adapter
        \/ /\ r.stage \in {"got", "release", "released"} /\ r.context = r.io
           /\ r.kind \in {"GET", "RELEASE"}

JobsOK == \A t \in Thread : JobOK(t, thread[t]) /\ OwnCall(thread[t])

\* A record with no answer to wait for.
NoCall(r) == r.pc \notin {"waiting", "timedOut", "expired"}

\* What initialisation makes of a record r.
Initialised(t, r, s) ==
    /\ NoCall(s) /\ OwnCall(s)
    /\ \/ s = IdleThread("idle")
       \/ /\ s.job = r.job /\ s.io = r.io /\ s.file = r.file
          /\ s.stage \in InitStages \/ (s.stage = "got" /\ t \in App)

LEMMA IdleFields ==
    ASSUME NEW job
    PROVE  LET i == IdleThread(job) IN
           /\ i.job = job /\ i.stage = None /\ i.pc = None /\ i.result = None
           /\ i.io = None /\ i.file = NoFile /\ NoCall(i) /\ OwnCall(i)
BY DEF IdleThread, NoCall, OwnCall, Calls, None

\* A thread asks for itself.
LEMMA AsksMoves ==
    ASSUME NEW t \in Thread, NEW r \in ThreadType, NEW stage, NEW kind, NEW a, NEW x,
           NEW service, Asks(t, r, stage, kind, a, x, service), kind # "RELEASE",
           \/ stage \in {"version", "sync", "opened"} /\ x = a
           \/ stage = "got" /\ t \in App /\ x = r.io /\ kind = "GET"
    PROVE  /\ received' \subseteq received
           /\ \E s : Becomes(t, s) /\ Initialised(t, r, s)
<1> DEFINE s == Call([r EXCEPT !.stage = stage], kind, a, x, service)
<1>1. Becomes(t, s) /\ received' \subseteq received
  BY DEF Asks
<1>2. /\ s.job = r.job /\ s.io = r.io /\ s.file = r.file /\ s.stage = stage
      /\ s.pc = "request" /\ s.context = x /\ s.adapter = a /\ s.kind = kind
  BY DEF Call, ThreadType
<1> HIDE DEF s
<1>3. Initialised(t, r, s)
  BY <1>2 DEF Initialised, NoCall, OwnCall, InitStages
<1> QED BY <1>1, <1>3

LEMMA GoesOnMoves ==
    ASSUME NEW t \in Thread, NEW r \in ThreadType, NEW success, GoesOn(t, r, success)
    PROVE  /\ received' \subseteq received
           /\ \E s : Becomes(t, s) /\ Initialised(t, r, s)
<1>1. CASE Becomes(t, IdleThread("idle")) /\ UNCHANGED received
  BY <1>1, IdleFields DEF Initialised
<1>2. CASE t \in App /\ Asks(t, r, "got", "GET", Uses[t], r.io, ClientService)
  BY <1>2, AsksMoves
<1> QED BY <1>1, <1>2 DEF GoesOn, Thread

LEMMA RestFields ==
    ASSUME TypeInv, NEW t \in Thread
    PROVE  /\ Rest(t) \in ThreadType
           /\ Rest(t).job = thread[t].job /\ Rest(t).io = thread[t].io
           /\ Rest(t).file = thread[t].file /\ Rest(t).pc = None /\ Rest(t).result = None
<1>1. Rest(t) \in ThreadType
  BY RestRecord DEF TypeInv, RecordOK
<1>2. /\ Rest(t).job = thread[t].job /\ Rest(t).io = thread[t].io
      /\ Rest(t).file = thread[t].file /\ Rest(t).pc = None /\ Rest(t).result = None
  BY DEF Rest, IdleThread
<1> QED BY <1>1, <1>2

LEMMA OpensServiceMoves ==
    ASSUME TypeInv, NEW t \in Thread, NEW s, OpensService(t, s)
    PROVE  /\ received' \subseteq received
           /\ \E r : Becomes(t, r) /\ Initialised(t, Rest(t), r)
<1> DEFINE r == [Rest(t) EXCEPT !.stage = "opened", !.service = s,
                                !.pc = "returned", !.result = "failed"]
<1>1. CASE Asks(t, Rest(t), "opened", "GET", AdapterOf(t), AdapterOf(t), s)
  BY <1>1, RestFields, AsksMoves
<1>2. CASE Becomes(t, r) /\ UNCHANGED received
  <2>1. /\ r.job = Rest(t).job /\ r.io = Rest(t).io /\ r.file = Rest(t).file
        /\ r.stage = "opened" /\ r.pc = "returned" /\ r.result = "failed"
    BY RestFields DEF ThreadType
  <2>2. Initialised(t, Rest(t), r)
    BY <2>1 DEF Initialised, NoCall, OwnCall, InitStages, Calls
  <2> QED BY <1>2, <2>2
<1> QED BY <1>1, <1>2 DEF OpensService

LEMMA AgainMoves ==
    ASSUME TypeInv, JobsOK, NEW t \in Thread, thread[t].stage \in InitStages,
           Again(t) \/ GivesUp(t)
    PROVE  /\ received' \subseteq received
           /\ \E r : Becomes(t, r) /\ Initialised(t, thread[t], r)
<1>1. CASE Again(t)
  <2> DEFINE r == [thread[t] EXCEPT !.pc = "request", !.tries = @ + 1]
  <2>1. Becomes(t, r) /\ UNCHANGED received /\ thread[t].result = "timeout"
    BY <1>1 DEF Again, Becomes, TypeInv, ThreadsOK, ThreadTypeOK
  <2>2. thread[t] \in ThreadType /\ OwnCall(thread[t])
    BY DEF TypeInv, ThreadsOK, RecordOK, JobsOK
  <2>3. /\ r.job = thread[t].job /\ r.io = thread[t].io /\ r.file = thread[t].file
        /\ r.stage = thread[t].stage /\ r.pc = "request" /\ r.context = thread[t].context
        /\ r.adapter = thread[t].adapter /\ r.kind = thread[t].kind
    BY <2>2 DEF ThreadType
  <2> HIDE DEF r
  <2>4. Initialised(t, thread[t], r)
    BY <2>1, <2>2, <2>3 DEF Initialised, NoCall, OwnCall
  <2> QED BY <2>1, <2>4
<1>2. CASE GivesUp(t)
  <2>1. \E success : GoesOn(t, Rest(t), success)
    BY <1>2 DEF GivesUp, InitReturns
  <2>2. \A r : Initialised(t, Rest(t), r) => Initialised(t, thread[t], r)
    BY RestFields DEF Initialised
  <2> QED BY <2>1, <2>2, RestFields, GoesOnMoves
<1> QED BY <1>1, <1>2

LEMMA InitStepMoves ==
    ASSUME TypeInv, JobsOK, NEW t \in Thread, InitStep(t)
    PROVE  /\ thread[t].stage \in InitStages /\ NoCall(thread[t])
           /\ received' \subseteq received
           /\ \E r : Becomes(t, r) /\ Initialised(t, thread[t], r)
<1>1. thread[t].stage \in InitStages /\ NoCall(thread[t])
  <2>1. thread[t].stage \in {"poll", "main", "format"} \/ thread[t].pc = "returned"
    BY DEF InitStep, InitPolled, InitVersion, InitSync, InitMain, InitFormat, OpenedService,
           Back
  <2>2. thread[t].stage \in {"poll", "main", "format"} => thread[t].pc \notin Calls
    BY DEF JobsOK, OwnCall
  <2>3. thread[t].stage \in InitStages
    BY DEF InitStep, InitPolled, InitVersion, InitSync, InitMain, InitFormat, OpenedService,
           Back, InitStages
  <2> QED BY <2>1, <2>2, <2>3 DEF NoCall, Calls
<1>2. \A r : Initialised(t, Rest(t), r) => Initialised(t, thread[t], r)
  BY RestFields DEF Initialised
<1>3. CASE \E success : InitReturns(t, success)
  BY <1>1, <1>2, <1>3, RestFields, GoesOnMoves DEF InitReturns
<1>4. CASE \E s : OpensService(t, s)
  BY <1>1, <1>2, <1>4, OpensServiceMoves
<1>5. CASE Again(t) \/ GivesUp(t)
  BY <1>1, <1>5, AgainMoves
<1>6. CASE Begins(t, Rest(t))
  BY <1>1, <1>2, <1>6, RestFields, AsksMoves DEF Begins
<1>7. CASE Asks(t, Rest(t), "sync", "SYNC", AdapterOf(t), AdapterOf(t), 0)
  BY <1>1, <1>2, <1>7, RestFields, AsksMoves
<1>8. ASSUME NEW stage \in {"main", "format"},
             Becomes(t, [Rest(t) EXCEPT !.stage = stage]) /\ UNCHANGED received
      PROVE  /\ thread[t].stage \in InitStages /\ NoCall(thread[t])
             /\ received' \subseteq received
             /\ \E r : Becomes(t, r) /\ Initialised(t, thread[t], r)
  <2> DEFINE r == [Rest(t) EXCEPT !.stage = stage]
  <2>1. /\ r.job = Rest(t).job /\ r.io = Rest(t).io /\ r.file = Rest(t).file
        /\ r.stage = stage /\ r.pc = None /\ r.result = None
    BY RestFields DEF ThreadType
  <2>2. Initialised(t, Rest(t), r)
    BY <2>1 DEF Initialised, NoCall, OwnCall, InitStages, Calls, None
  <2> QED BY <1>1, <1>2, <1>8, <2>2
<1>9. CASE InitPolled(t)
  BY <1>9, <1>3, <1>6 DEF InitPolled
<1>10. CASE InitVersion(t)
  BY <1>10, <1>5, <1>7, <1>8 DEF InitVersion
<1>11. CASE InitSync(t)
  BY <1>11, <1>5, <1>8 DEF InitSync, Formats
<1>12. CASE InitMain(t)
  BY <1>12, <1>3, <1>8 DEF InitMain, Formats
<1>14. CASE InitFormat(t)
  BY <1>14, <1>4 DEF InitFormat
<1>13. CASE OpenedService(t)
  BY <1>13, <1>3, <1>4 DEF OpenedService
<1> QED BY <1>9, <1>10, <1>11, <1>12, <1>13, <1>14 DEF InitStep

LEMMA InitEnterMoves ==
    ASSUME NEW t \in Thread, NEW r \in ThreadType, r.pc = None, r.result = None,
           InitEnter(t, r)
    PROVE  /\ received' \subseteq received
           /\ \E s : Becomes(t, s) /\ Initialised(t, r, s)
<1>1. CASE GoesOn(t, r, TRUE)
  BY <1>1, GoesOnMoves
<1>2. CASE Becomes(t, [r EXCEPT !.stage = "poll"]) /\ UNCHANGED received
  <2> DEFINE s == [r EXCEPT !.stage = "poll"]
  <2>1. /\ s.job = r.job /\ s.io = r.io /\ s.file = r.file /\ s.stage = "poll"
        /\ s.pc = None /\ s.result = None
    BY DEF ThreadType
  <2>2. Initialised(t, r, s)
    BY <2>1 DEF Initialised, NoCall, OwnCall, InitStages, Calls, None
  <2> QED BY <1>2, <2>2
<1>3. CASE Begins(t, r)
  BY <1>3, AsksMoves DEF Begins
<1> QED BY <1>1, <1>2, <1>3 DEF InitEnter

-----------------------------------------------------------------------------
(* Each step moves one thread at most *)

\* The same work, however its call goes on.
SameWork(r, s) ==
    /\ s.job = r.job /\ s.stage = r.stage /\ s.io = r.io /\ s.file = r.file
    /\ s.kind = r.kind /\ s.adapter = r.adapter /\ s.context = r.context

LEMMA CallMoves ==
    ASSUME TypeInv, NEW t \in Thread, CallStep(t)
    PROVE  /\ thread[t].pc \in Calls
           /\ \E r : Becomes(t, r) /\ SameWork(thread[t], r)
<1>1. thread \in [Thread -> ThreadType]
  BY DEF TypeInv, ThreadsOK, ThreadTypeOK
<1>2. thread[t].pc \in Calls
  BY DEF CallStep, Request, RequestRefused, RequestFails, Signalled, Timeout,
         ClearAfterTimeout, RemoveOldTransactionItem, Calls
<1> DEFINE ended(result) == [thread[t] EXCEPT !.pc = "returned", !.result = result]
           at(pc) == [thread[t] EXCEPT !.pc = pc]
           sent(pc) == [thread[t] EXCEPT !.tid = Tid(t), !.serial = NextSerial(t), !.pc = pc]
<1>3. \/ \E result : Becomes(t, ended(result))
      \/ \E pc : Becomes(t, at(pc))
      \/ \E pc : Becomes(t, sent(pc))
  <2>1. CASE Request(t)
    BY <1>1, <2>1 DEF Request, Becomes
  <2>2. CASE RequestRefused(t) \/ RequestFails(t) \/ Signalled(t)
             \/ RemoveOldTransactionItem(t)
    BY <1>1, <2>2 DEF RequestRefused, RequestFails, Signalled, RemoveOldTransactionItem,
                      Returned, Becomes
  <2>3. CASE Timeout(t) \/ ClearAfterTimeout(t)
    BY <1>1, <2>3 DEF Timeout, ClearAfterTimeout, Becomes
  <2> QED BY <2>1, <2>2, <2>3 DEF CallStep
<1>4. \A result : SameWork(thread[t], ended(result))
  BY <1>1 DEF SameWork, ThreadType
<1>5. \A pc : SameWork(thread[t], at(pc)) /\ SameWork(thread[t], sent(pc))
  BY <1>1 DEF SameWork, ThreadType
<1> QED BY <1>2, <1>3, <1>4, <1>5

LEMMA BecomesJobs ==
    ASSUME TypeInv, JobsOK, NEW t \in Thread, NEW r, Becomes(t, r), JobOK(t, r), OwnCall(r)
    PROVE  JobsOK'
BY DEF JobsOK, Becomes, TypeInv, ThreadsOK, ThreadTypeOK, JobOK, OwnCall

LEMMA IdleJob ==
    ASSUME NEW t \in Thread, NEW job \in {"idle", "named"}, job = "named" => t \in App
    PROVE  JobOK(t, IdleThread(job)) /\ OwnCall(IdleThread(job))
BY IdleFields DEF JobOK, None

LEMMA InitialisedJob ==
    ASSUME NEW t \in Thread, NEW r, NEW s, Initialised(t, r, s),
           \/ r.job = "init" /\ t \in Adapter /\ r.io = None
           \/ r.job = "service" /\ t \in App /\ r.io \in Client,
           r.file = NoFile
    PROVE  JobOK(t, s) /\ OwnCall(s)
<1>1. CASE s = IdleThread("idle")
  BY <1>1, IdleJob
<1>2. CASE /\ s.job = r.job /\ s.io = r.io /\ s.file = r.file
           /\ s.stage \in InitStages \/ (s.stage = "got" /\ t \in App)
  BY <1>2, AdaptersAssumption DEF Initialised, JobOK, InitStages
<1> QED BY <1>1, <1>2 DEF Initialised

LEMMA CallJobs ==
    ASSUME TypeInv, JobsOK, NEW t \in Thread, CallStep(t)
    PROVE  JobsOK'
<1>1. PICK r : Becomes(t, r) /\ SameWork(thread[t], r)
  BY CallMoves
<1>2. thread[t].pc \in Calls /\ JobOK(t, thread[t]) /\ OwnCall(thread[t])
  BY CallMoves DEF JobsOK
<1>3. JobOK(t, r) /\ OwnCall(r)
  BY <1>1, <1>2 DEF JobOK, OwnCall, SameWork
<1> QED BY <1>1, <1>3, BecomesJobs

LEMMA InitStepJobs ==
    ASSUME TypeInv, JobsOK, NEW t \in Thread, InitStep(t)
    PROVE  JobsOK'
<1>1. thread[t].stage \in InitStages
      /\ \E r : Becomes(t, r) /\ Initialised(t, thread[t], r)
  BY InitStepMoves
<1>2. PICK r : Becomes(t, r) /\ Initialised(t, thread[t], r)
  BY <1>1
<1>3. JobOK(t, thread[t])
  BY DEF JobsOK
<1>4. /\ \/ thread[t].job = "init" /\ t \in Adapter /\ thread[t].io = None
         \/ thread[t].job = "service" /\ t \in App /\ thread[t].io \in Client
      /\ thread[t].file = NoFile
  <2>1. thread[t].job \in {"init", "service"}
    BY <1>1, InitialisingThread DEF Inside
  <2> QED BY <1>3, <2>1 DEF JobOK
<1>5. JobOK(t, r) /\ OwnCall(r)
  BY <1>2, <1>4, InitialisedJob
<1> QED BY <1>2, <1>5, BecomesJobs

-----------------------------------------------------------------------------
(* What the steps of MPThread and of a program do to threads and clients *)

\* A thread that waits for nothing turns to something else; the others go on.
Turns(t, job, stage, io, file) ==
    /\ \A u \in Thread \ {t} : thread'[u] = thread[u]
    /\ NoCall(thread[t])
    /\ LET r == thread'[t] IN
       /\ r.job = job /\ r.stage = stage /\ r.io = io /\ r.file = file
       /\ NoCall(r) /\ OwnCall(r)

\* One client is written, as far as it is counted.
Writes(c, life, irpCount, openCount, acquired) ==
    /\ \A e \in Client \ {c} : IoDev'[e] = IoDev[e]
    /\ IoDev'[c].life = life /\ IoDev'[c].IrpCount = irpCount
    /\ IoDev'[c].DeviceOpenCount = openCount /\ IoDev'[c].Acquired = acquired

\* No client is counted or listed otherwise than before.
Uncounted ==
    \A e \in Client :
        /\ IoDev'[e].life = IoDev[e].life /\ IoDev'[e].IrpCount = IoDev[e].IrpCount
        /\ IoDev'[e].DeviceOpenCount = IoDev[e].DeviceOpenCount
        /\ IoDev'[e].Acquired => IoDev[e].Acquired

LEMMA IoDevIsTyped ==
    ASSUME TypeInv
    PROVE  IoDev \in [Client -> IoDevType]
BY DEF TypeInv, IdsTypeOK

LEMMA TurnsTo ==
    ASSUME TypeInv, NEW t \in Thread, NEW r, Becomes(t, r), NoCall(thread[t]),
           NoCall(r), OwnCall(r)
    PROVE  Turns(t, r.job, r.stage, r.io, r.file)
BY DEF TypeInv, ThreadsOK, ThreadTypeOK, Becomes, Turns

LEMMA Unwaiting ==
    ASSUME JobsOK, NEW t \in Thread,
           thread[t].pc = "returned" \/ thread[t].stage \notin
              {"version", "sync", "opened", "got", "release", "released"}
    PROVE  NoCall(thread[t])
BY DEF JobsOK, OwnCall, NoCall, Calls

LEMMA TurnsIdle ==
    ASSUME TypeInv, NEW t \in Thread, NEW job, Becomes(t, IdleThread(job)),
           NoCall(thread[t])
    PROVE  Turns(t, job, None, None, NoFile)
<1> DEFINE r == IdleThread(job)
<1>1. /\ r.job = job /\ r.stage = None /\ r.io = None /\ r.file = NoFile
      /\ NoCall(r) /\ OwnCall(r)
  BY IdleFields
<1> HIDE DEF r
<1>2. Becomes(t, r)
  BY DEF r
<1> QED BY <1>1, <1>2, TurnsTo

LEMMA TurnsStage ==
    ASSUME TypeInv, NEW t \in Thread, NEW r \in ThreadType, NEW stage,
           Becomes(t, [r EXCEPT !.stage = stage]), NoCall(thread[t]),
           r.pc \notin Calls, r.result # "timeout"
    PROVE  Turns(t, r.job, stage, r.io, r.file)
<1> DEFINE s == [r EXCEPT !.stage = stage]
<1>1. /\ s.job = r.job /\ s.stage = stage /\ s.io = r.io /\ s.file = r.file
      /\ s.pc = r.pc /\ s.result = r.result
  BY DEF ThreadType
<1> HIDE DEF s
<1>2. Becomes(t, s)
  BY DEF s
<1>3. NoCall(s) /\ OwnCall(s)
  BY <1>1 DEF NoCall, OwnCall, Calls
<1> QED BY <1>1, <1>2, <1>3, TurnsTo

LEMMA TurnsRest ==
    ASSUME TypeInv, NEW t \in Thread, NEW stage,
           Becomes(t, [Rest(t) EXCEPT !.stage = stage]), NoCall(thread[t])
    PROVE  Turns(t, thread[t].job, stage, thread[t].io, thread[t].file)
<1>1. Rest(t).pc \notin Calls /\ Rest(t).result # "timeout"
  BY RestFields DEF Calls, None
<1> QED BY <1>1, RestFields, TurnsStage

\* A thread releases a client's id, or has nothing to release.
LEMMA TurnsToRelease ==
    ASSUME TypeInv, NEW t \in Thread, NEW record \in ThreadType, NEW a, NEW c, NEW r,
           Becomes(t, r), NoCall(thread[t]), record.io = c,
           record.stage \in {"release", "released"}, record.result = None,
           \/ r = [record EXCEPT !.pc = "returned", !.result = "failed"]
           \/ r = Call(record, "RELEASE", a, c, IoDev[c].QMIType)
    PROVE  Turns(t, record.job, record.stage, c, record.file)
<1>1. /\ r.job = record.job /\ r.stage = record.stage /\ r.io = c /\ r.file = record.file
      /\ \/ r.pc = "returned" /\ r.result = "failed"
         \/ r.pc = "request" /\ r.context = c /\ r.kind = "RELEASE"
  BY ZenonT(60) DEF ThreadType, Call
<1>2. NoCall(r) /\ OwnCall(r)
  BY <1>1 DEF NoCall, OwnCall, Calls
<1> QED BY <1>1, <1>2, TurnsTo

LEMMA ThreadIsTyped ==
    ASSUME TypeInv, NEW t \in Thread
    PROVE  thread[t] \in ThreadType
BY DEF TypeInv, ThreadsOK, ThreadTypeOK

LEMMA StagedRecord ==
    ASSUME NEW job \in Jobs, NEW stage \in Stages
    PROVE  LET r == [IdleThread(job) EXCEPT !.stage = stage] IN
           /\ IdleThread(job) \in ThreadType /\ r \in ThreadType
           /\ r.job = job /\ r.stage = stage /\ r.io = None /\ r.file = NoFile
           /\ r.pc = None /\ r.result = None
<1>1. IdleThread(job) \in ThreadType
  BY IdleRecord
<1> QED BY <1>1, IdleFields DEF ThreadType

LEMMA ProgramIsThread ==
    ASSUME NEW p \in App
    PROVE  p \in Thread /\ p \notin Adapter
BY Devices DEF Thread

\* The steps of MPThread but for the initialisation and the walk.
LEMMA SyncPassSays ==
    ASSUME TypeInv, JobsOK, NEW a \in Adapter, SyncPass(a)
    PROVE  Turns(a, "sync", "counted", None, NoFile) /\ Uncounted
           /\ received' \subseteq received
<1>1. /\ thread[a].stage = None /\ a \in Thread
      /\ Becomes(a, [IdleThread("sync") EXCEPT !.stage = "counted"])
      /\ Disconnect(a) /\ UNCHANGED received
  BY Devices DEF SyncPass, At
<1>2. NoCall(thread[a])
  BY <1>1, Unwaiting DEF None
<1>3. "sync" \in Jobs /\ "counted" \in Stages
  BY DEF Jobs, Stages
<1>4. Turns(a, "sync", "counted", None, NoFile)
  BY <1>1, <1>2, <1>3, StagedRecord, IdleFields, TurnsStage DEF Calls, None
<1>5. Uncounted
  BY <1>1, IoDevIsTyped DEF Disconnect, Uncounted, IoDevType
<1> QED BY <1>1, <1>4, <1>5

LEMMA SyncCountSays ==
    ASSUME TypeInv, JobsOK, NEW a \in Adapter, SyncCount(a)
    PROVE  Turns(a, "idle", None, None, NoFile) /\ Uncounted
           /\ received' \subseteq received
<1>1. /\ thread[a].stage = "counted" /\ a \in Thread
      /\ Becomes(a, IdleThread("idle")) /\ UNCHANGED IoDev /\ UNCHANGED received
  BY Devices DEF SyncCount, At, ids
<1>2. NoCall(thread[a])
  BY <1>1, Unwaiting
<1> QED BY <1>1, <1>2, TurnsIdle DEF Uncounted

LEMMA IdleCheckSays ==
    ASSUME TypeInv, JobsOK, NEW a \in Adapter, IdleCheck(a)
    PROVE  Turns(a, "check", "walk", None, NoFile) /\ Uncounted
           /\ received' \subseteq received
<1>1. /\ thread[a].stage = None /\ a \in Thread
      /\ Becomes(a, [IdleThread("check") EXCEPT !.stage = "walk"])
      /\ UNCHANGED IoDev /\ UNCHANGED received
  BY Devices DEF IdleCheck, At, ids
<1>2. NoCall(thread[a])
  BY <1>1, Unwaiting DEF None
<1>3. "check" \in Jobs /\ "walk" \in Stages
  BY DEF Jobs, Stages
<1>4. Turns(a, "check", "walk", None, NoFile)
  BY <1>1, <1>2, <1>3, StagedRecord, IdleFields, TurnsStage DEF Calls, None
<1> QED BY <1>1, <1>4 DEF Uncounted

LEMMA IdleResetSays ==
    ASSUME TypeInv, JobsOK, NEW a \in Adapter, IdleReset(a)
    PROVE  /\ thread[a].job = "check" /\ thread[a].stage = "release"
           /\ Turns(a, "check", "walk", thread[a].io, thread[a].file)
           /\ Uncounted /\ received' \subseteq received
<1> DEFINE c == thread[a].io
<1>1. /\ thread[a].job = "check" /\ thread[a].stage = "release" /\ a \in Thread
      /\ thread[a].pc = "returned"
      /\ IoDev' = [IoDev EXCEPT ![c].IdleTime = 0, ![c].Acquired = FALSE,
                                ![c].QMIType = 0, ![c].ClientId = 0]
      /\ Becomes(a, [Rest(a) EXCEPT !.stage = "walk"])
      /\ UNCHANGED received
  BY SMTT(30), Devices DEF IdleReset, Back
<1>2. NoCall(thread[a])
  BY <1>1, Unwaiting
<1>3. Turns(a, "check", "walk", c, thread[a].file)
  BY <1>1, <1>2, TurnsRest
<1>4. Uncounted
  BY <1>1, IoDevIsTyped, SMTT(30) DEF Uncounted, IoDevType
<1> QED BY <1>1, <1>3, <1>4

\* The walk goes on to an idle client, or ends.
LEMMA IdleWalkSays ==
    ASSUME TypeInv, JobsOK, NEW a \in Adapter, IdleWalk(a)
    PROVE  /\ Uncounted /\ received' \subseteq received
           /\ \/ Turns(a, "idle", None, None, NoFile)
              \/ \E c \in Client :
                    /\ IoDev[c].life = "listed" /\ Expired(c)
                    /\ Turns(a, "check", "release", c, NoFile)
<1> DEFINE ahead == {c \in Client : IoDev[c].life = "listed" /\ IoDev[c].place > thread[a].walk}
           expired == {c \in ahead : Expired(c)}
           next == FirstClient(expired)
           passed == IF expired = {} THEN ahead
                     ELSE {c \in ahead : IoDev[c].place < IoDev[next].place}
           record == [IdleThread("check") EXCEPT
                         !.stage = "release", !.io = next, !.walk = IoDev[next].place]
<1>1. /\ thread[a].stage = "walk" /\ a \in Thread
      /\ IoDev' = [c \in Client |->
            IF c \in passed /\ Unopened(c) THEN [IoDev[c] EXCEPT !.IdleTime = 1]
            ELSE IoDev[c]]
      /\ \/ received' = received \/ received' = received \ {<<next, "RELEASE">>}
  BY SMTT(30), Devices DEF IdleWalk, At
<1>2. \/ Becomes(a, IdleThread("idle"))
      \/ /\ expired # {}
         /\ \/ Becomes(a, [record EXCEPT !.pc = "returned", !.result = "failed"])
            \/ Becomes(a, Call(record, "RELEASE", a, next, IoDev[next].QMIType))
  BY DEF IdleWalk
<1>3. NoCall(thread[a])
  BY <1>1, Unwaiting
<1>4. Uncounted
  <2> HIDE DEF passed
  <2> QED BY <1>1, IoDevIsTyped DEF Uncounted, IoDevType
<1>5. CASE Becomes(a, IdleThread("idle"))
  BY <1>1, <1>3, <1>4, <1>5, TurnsIdle
<1>6. CASE expired # {} /\ ~Becomes(a, IdleThread("idle"))
  <2>1. expired \subseteq Client /\ \A c \in expired : IoDev[c].place \in Nat
    BY ClientType
  <2>2. next \in expired
    BY <1>6, <2>1, FirstClientIsOne
  <2>3. next \in Client /\ IoDev[next].life = "listed" /\ Expired(next)
    BY <2>2
  <2> HIDE DEF next
  <2>4. IdleThread("check") \in ThreadType
    BY IdleRecord DEF Jobs
  <2>5. /\ record \in ThreadType /\ record.job = "check" /\ record.stage = "release"
        /\ record.io = next /\ record.file = NoFile /\ record.result = None
    <3>1. "release" \in Stages /\ IoDev[next].place \in Nat
      BY <2>3, ClientType DEF Stages
    <3> QED BY <2>3, <2>4, <3>1, IdleFields DEF ThreadType
  <2> HIDE DEF record
  <2>6. Turns(a, "check", "release", next, NoFile)
    BY <1>1, <1>2, <1>3, <1>6, <2>5, TurnsToRelease
  <2> QED BY <1>1, <1>4, <2>3, <2>6
<1> QED BY <1>2, <1>5, <1>6

\* Initialisation.
LEMMA InitStepSays ==
    ASSUME TypeInv, JobsOK, NEW t \in Thread, InitStep(t)
    PROVE  /\ thread[t].stage \in InitStages /\ thread[t].job \in {"init", "service"}
           /\ Uncounted /\ received' \subseteq received
           /\ \/ Turns(t, "idle", None, None, NoFile)
              \/ \E stage \in InitStages \cup {"got"} :
                    Turns(t, thread[t].job, stage, thread[t].io, thread[t].file)
<1>1. /\ thread[t].stage \in InitStages /\ NoCall(thread[t])
      /\ received' \subseteq received
      /\ \E r : Becomes(t, r) /\ Initialised(t, thread[t], r)
  BY InitStepMoves
<1>2. thread[t].job \in {"init", "service"}
  BY <1>1, InitialisingThread DEF Inside
<1>3. UNCHANGED IoDev
  BY DEF InitStep, InitPolled, InitVersion, InitSync, InitMain, InitFormat, OpenedService, ids
<1>4. PICK r : Becomes(t, r) /\ Initialised(t, thread[t], r)
  BY <1>1
<1>5. Turns(t, r.job, r.stage, r.io, r.file)
  BY <1>1, <1>4, TurnsTo DEF Initialised
<1>6. CASE r = IdleThread("idle")
  <2>1. r.job = "idle" /\ r.stage = None /\ r.io = None /\ r.file = NoFile
    BY <1>6, IdleFields
  <2> QED BY <1>1, <1>2, <1>3, <1>5, <2>1 DEF Uncounted
<1>7. CASE r # IdleThread("idle")
  BY <1>1, <1>2, <1>3, <1>4, <1>5, <1>7 DEF Uncounted, Initialised
<1> QED BY <1>6, <1>7

LEMMA StartInitSays ==
    ASSUME TypeInv, JobsOK, NEW a \in Adapter, StartInit(a)
    PROVE  /\ Uncounted /\ received' \subseteq received
           /\ \/ Turns(a, "idle", None, None, NoFile)
              \/ \E stage \in InitStages : Turns(a, "init", stage, None, NoFile)
<1> DEFINE r == IdleThread("init")
<1>1. thread[a].stage = None /\ a \in Thread /\ UNCHANGED IoDev /\ InitEnter(a, r)
  BY Devices DEF StartInit, At, ids
<1>2. NoCall(thread[a])
  BY <1>1, Unwaiting DEF None
<1>3. /\ r \in ThreadType /\ r.pc = None /\ r.result = None /\ r.job = "init"
      /\ r.io = None /\ r.file = NoFile
  BY IdleRecord, IdleFields DEF Jobs
<1> HIDE DEF r
<1>4. /\ received' \subseteq received
      /\ \E s : Becomes(a, s) /\ Initialised(a, r, s)
  BY <1>1, <1>3, InitEnterMoves
<1>5. PICK s : Becomes(a, s) /\ Initialised(a, r, s)
  BY <1>4
<1>6. Turns(a, s.job, s.stage, s.io, s.file)
  BY <1>1, <1>2, <1>5, TurnsTo DEF Initialised
<1>7. CASE s = IdleThread("idle")
  BY <1>1, <1>4, <1>6, <1>7, IdleFields DEF Uncounted
<1>8. CASE s # IdleThread("idle")
  BY <1>1, <1>3, <1>4, <1>5, <1>6, <1>8, Devices DEF Uncounted, Initialised
<1> QED BY <1>7, <1>8

\* The steps of a program.
LEMMA ServiceFileSays ==
    ASSUME TypeInv, JobsOK, NEW p \in App, ServiceFile(p)
    PROVE  /\ received' \subseteq received
           /\ \E c \in Client :
                /\ IoDev[c].life = "none" /\ Writes(c, "listed", 0, 0, FALSE)
                /\ IoDev'[c].adapter = Uses[p]
                /\ IoDev'[c].ClientId = 0 /\ IoDev'[c].QMIType = 0
                /\ \/ Turns(p, "idle", None, None, NoFile)
                   \/ \E stage \in InitStages \cup {"got"} :
                         Turns(p, "service", stage, c, NoFile)
<1>1. thread[p].stage = None /\ p \in Thread
  BY ProgramIsThread DEF ServiceFile, At
<1>2. NoCall(thread[p])
  BY <1>1, Unwaiting DEF None
<1>3. PICK c \in Client :
        /\ IoDev[c].life = "none"
        /\ IoDev' = [IoDev EXCEPT ![c] = [NewIoDev EXCEPT
                        !.life = "listed", !.place = Places + 1, !.adapter = Uses[p]]]
        /\ InitEnter(p, [IdleThread("service") EXCEPT !.io = c])
  BY DEF ServiceFile
<1>4. /\ Writes(c, "listed", 0, 0, FALSE)
      /\ IoDev'[c].adapter = Uses[p] /\ IoDev'[c].ClientId = 0 /\ IoDev'[c].QMIType = 0
  BY <1>3, IoDevIsTyped DEF Writes, NewIoDev
<1> DEFINE r == [IdleThread("service") EXCEPT !.io = c]
<1>5. /\ r \in ThreadType /\ r.pc = None /\ r.result = None /\ r.job = "service"
      /\ r.io = c /\ r.file = NoFile
  <2>1. IdleThread("service") \in ThreadType
    BY IdleRecord DEF Jobs
  <2> QED BY <2>1, IdleFields DEF ThreadType
<1>6. InitEnter(p, r)
  BY <1>3
<1> HIDE DEF r
<1>7. /\ received' \subseteq received
      /\ \E s : Becomes(p, s) /\ Initialised(p, r, s)
  BY <1>1, <1>5, <1>6, InitEnterMoves
<1>8. PICK s : Becomes(p, s) /\ Initialised(p, r, s)
  BY <1>7
<1>9. Turns(p, s.job, s.stage, s.io, s.file)
  BY <1>1, <1>2, <1>8, TurnsTo DEF Initialised
<1>10. CASE s = IdleThread("idle")
  BY <1>3, <1>4, <1>7, <1>9, <1>10, IdleFields
<1>11. CASE s # IdleThread("idle")
  BY <1>3, <1>4, <1>5, <1>7, <1>8, <1>9, <1>11 DEF Initialised
<1> QED BY <1>10, <1>11

LEMMA ServiceGotSays ==
    ASSUME TypeInv, JobsOK, NEW p \in App, ServiceGot(p)
    PROVE  LET c == thread[p].io  dev == IoDev[c] IN
           /\ thread[p].job = "service" /\ c \in Client /\ received' \subseteq received
           /\ \E acquired : Writes(c, dev.life, dev.IrpCount, dev.DeviceOpenCount, acquired)
           /\ \E job \in {"named", "idle"} : Turns(p, job, None, None, NoFile)
<1> DEFINE c == thread[p].io
<1>1. /\ thread[p].stage = "got" /\ thread[p].pc = "returned" /\ p \in Thread
      /\ IoDev' = [IoDev EXCEPT ![c].Acquired = IoDev[c].ClientId # 0]
      /\ Becomes(p, IdleThread(IF IoDev[c].ClientId # 0 THEN "named" ELSE "idle"))
      /\ UNCHANGED received
  BY ProgramIsThread DEF ServiceGot, Back
<1>2. NoCall(thread[p])
  BY <1>1, Unwaiting
<1>3. thread[p].job = "service" /\ c \in Client
  <2>1. JobOK(p, thread[p]) /\ WorkOK(p, thread[p])
    BY <1>1 DEF JobsOK, TypeInv, ThreadsOK, RecordOK
  <2> QED BY <1>1, <2>1 DEF JobOK, WorkOK
<1>4. Writes(c, IoDev[c].life, IoDev[c].IrpCount, IoDev[c].DeviceOpenCount,
             IoDev[c].ClientId # 0)
  BY <1>1, <1>3, IoDevIsTyped DEF Writes, IoDevType
<1>5. \E job \in {"named", "idle"} : Turns(p, job, None, None, NoFile)
  BY <1>1, <1>2, TurnsIdle
<1> QED BY <1>1, <1>3, <1>4, <1>5

LEMMA CreateFindSays ==
    ASSUME TypeInv, JobsOK, NEW p \in App, CreateFind(p)
    PROVE  /\ Uncounted /\ received' \subseteq received /\ thread[p].job = "named"
           /\ \/ Turns(p, "idle", None, None, NoFile)
              \/ \E c \in Client : /\ IoDev[c].life = "listed" /\ IoDev[c].ClientId # 0
                                   /\ Turns(p, "create", "found", c, NoFile)
<1> DEFINE c == FirstClient(OpenTo(Uses[p]))
           r == [IdleThread("create") EXCEPT !.stage = "found", !.io = c]
<1>1. /\ thread[p].stage = None /\ thread[p].job = "named" /\ p \in Thread
      /\ \/ Becomes(p, IdleThread("idle"))
         \/ OpenTo(Uses[p]) # {} /\ Becomes(p, r)
      /\ UNCHANGED IoDev /\ UNCHANGED received
  BY ProgramIsThread DEF CreateFind, At, ids
<1>2. NoCall(thread[p]) /\ Uncounted
  BY <1>1, Unwaiting DEF None, Uncounted
<1>3. CASE Becomes(p, IdleThread("idle"))
  BY <1>1, <1>2, <1>3, TurnsIdle
<1>4. CASE OpenTo(Uses[p]) # {} /\ Becomes(p, r)
  <2>1. OpenTo(Uses[p]) \subseteq Client /\ \A e \in OpenTo(Uses[p]) : IoDev[e].place \in Nat
    BY ClientType DEF OpenTo
  <2>2. c \in OpenTo(Uses[p])
    BY <1>4, <2>1, FirstClientIsOne
  <2>3. c \in Client /\ IoDev[c].life = "listed" /\ IoDev[c].ClientId # 0
    BY <2>2 DEF OpenTo
  <2> HIDE DEF c
  <2>4. /\ r.job = "create" /\ r.stage = "found" /\ r.io = c /\ r.file = NoFile
        /\ r.pc = None /\ r.result = None
    <3>1. IdleThread("create") \in ThreadType
      BY IdleRecord DEF Jobs
    <3> QED BY <3>1, IdleFields DEF ThreadType
  <2>5. Becomes(p, r)
    BY <1>4
  <2> HIDE DEF r
  <2>6. NoCall(r) /\ OwnCall(r)
    BY <2>4 DEF NoCall, OwnCall, Calls, None
  <2>7. Turns(p, "create", "found", c, NoFile)
    BY <1>1, <1>2, <2>4, <2>5, <2>6, TurnsTo
  <2> QED BY <1>1, <1>2, <2>3, <2>7
<1> QED BY <1>1, <1>3, <1>4

LEMMA CreatingSays ==
    ASSUME TypeInv, JobsOK, NEW p \in App, thread[p].job = "create"
    PROVE  /\ p \in Thread /\ thread[p].io \in Client /\ thread[p].file = NoFile
           /\ thread[p] \in ThreadType /\ NoCall(thread[p])
           /\ thread[p].pc \notin Calls /\ thread[p].result # "timeout"
<1>1. p \in Thread /\ JobOK(p, thread[p]) /\ OwnCall(thread[p]) /\ thread[p] \in ThreadType
  BY ProgramIsThread, ThreadIsTyped DEF JobsOK
<1> QED BY <1>1 DEF JobOK, OwnCall, Creating, NoCall, Calls

LEMMA CreateReferenceSays ==
    ASSUME TypeInv, JobsOK, NEW p \in App, CreateReference(p)
    PROVE  LET c == thread[p].io  dev == IoDev[c] IN
           /\ thread[p].job = "create" /\ thread[p].stage = "found" /\ c \in Client
           /\ UNCHANGED received
           /\ \/ Turns(p, "idle", None, None, NoFile) /\ Uncounted
              \/ /\ Turns(p, "create", "referenced", c, NoFile)
                 /\ Writes(c, dev.life, dev.IrpCount + 1, dev.DeviceOpenCount, dev.Acquired)
                 /\ dev.life = "freed" => "unreferenced" \in faults'
<1> DEFINE c == thread[p].io
<1>1. /\ thread[p].job = "create" /\ thread[p].stage = "found"
      /\ \/ Becomes(p, IdleThread("idle")) /\ UNCHANGED IoDev
         \/ /\ Becomes(p, [thread[p] EXCEPT !.stage = "referenced"])
            /\ IoDev' = [IoDev EXCEPT ![c].IrpCount = @ + 1]
      /\ IoDev[c].life = "freed" => "unreferenced" \in faults'
      /\ UNCHANGED received
  BY DEF CreateReference, At, FreedIf
<1>2. /\ p \in Thread /\ c \in Client /\ thread[p].file = NoFile /\ thread[p] \in ThreadType
      /\ NoCall(thread[p]) /\ thread[p].pc \notin Calls /\ thread[p].result # "timeout"
  BY <1>1, CreatingSays
<1>3. CASE Becomes(p, IdleThread("idle")) /\ UNCHANGED IoDev
  BY <1>1, <1>2, <1>3, TurnsIdle DEF Uncounted
<1>4. CASE /\ Becomes(p, [thread[p] EXCEPT !.stage = "referenced"])
           /\ IoDev' = [IoDev EXCEPT ![c].IrpCount = @ + 1]
  <2>1. Turns(p, "create", "referenced", c, NoFile)
    BY <1>1, <1>2, <1>4, TurnsStage
  <2>2. Writes(c, IoDev[c].life, IoDev[c].IrpCount + 1, IoDev[c].DeviceOpenCount,
               IoDev[c].Acquired)
    BY <1>2, <1>4, IoDevIsTyped DEF Writes, IoDevType
  <2> QED BY <1>1, <1>2, <2>1, <2>2
<1> QED BY <1>1, <1>3, <1>4

LEMMA CreateCountSays ==
    ASSUME TypeInv, JobsOK, NEW p \in App, CreateCount(p)
    PROVE  LET c == thread[p].io  dev == IoDev[c] IN
           /\ thread[p].job = "create" /\ thread[p].stage = "referenced" /\ c \in Client
           /\ UNCHANGED received /\ Turns(p, "create", "counted", c, NoFile)
           /\ Writes(c, dev.life, dev.IrpCount, dev.DeviceOpenCount + 1, dev.Acquired)
<1> DEFINE c == thread[p].io
<1>1. /\ thread[p].job = "create" /\ thread[p].stage = "referenced"
      /\ Becomes(p, [thread[p] EXCEPT !.stage = "counted"])
      /\ IoDev' = [IoDev EXCEPT ![c].DeviceOpenCount = @ + 1]
      /\ UNCHANGED received
  BY DEF CreateCount, At
<1>2. /\ p \in Thread /\ c \in Client /\ thread[p].file = NoFile /\ thread[p] \in ThreadType
      /\ NoCall(thread[p]) /\ thread[p].pc \notin Calls /\ thread[p].result # "timeout"
  BY <1>1, CreatingSays
<1>3. Turns(p, "create", "counted", c, NoFile)
  BY <1>1, <1>2, TurnsStage
<1>4. Writes(c, IoDev[c].life, IoDev[c].IrpCount, IoDev[c].DeviceOpenCount + 1,
             IoDev[c].Acquired)
  BY <1>1, <1>2, IoDevIsTyped DEF Writes, IoDevType
<1> QED BY <1>1, <1>2, <1>3, <1>4

LEMMA CreateDecideSays ==
    ASSUME TypeInv, JobsOK, NEW p \in App, CreateDecide(p)
    PROVE  LET c == thread[p].io  dev == IoDev[c] IN
           /\ thread[p].job = "create" /\ thread[p].stage = "counted" /\ c \in Client
           /\ UNCHANGED received
           /\ Writes(c, dev.life, dev.IrpCount - 1, dev.DeviceOpenCount, dev.Acquired)
           /\ \/ Turns(p, "create", "refused", c, NoFile)
              \/ /\ MayOpen(c)
                 /\ \E id : Turns(p, "open", None, None, [context |-> id, client |-> c])
                 /\ \A a \in Adapter : thread[a].job = "check" /\ thread[a].io = c
                                       => "raced" \in faults'
<1> DEFINE c == thread[p].io
           id == IoDev[c].ClientId
           r == [IdleThread("open") EXCEPT !.file = [context |-> id, client |-> c]]
<1>1. /\ thread[p].job = "create" /\ thread[p].stage = "counted" /\ UNCHANGED received
      /\ \/ /\ MayOpen(c) /\ Becomes(p, r)
            /\ IoDev' = [IoDev EXCEPT
                  ![c].IdleTime = 0, ![c].IrpCount = @ - 1,
                  ![c].FsContext = IF id # 0 THEN id ELSE @]
            /\ (\E a \in Adapter : thread[a].job = "check" /\ thread[a].io = c)
               => "raced" \in faults'
         \/ /\ Becomes(p, [thread[p] EXCEPT !.stage = "refused"])
            /\ IoDev' = [IoDev EXCEPT ![c].IrpCount = @ - 1]
  BY DEF CreateDecide, At, FaultIf
<1>2. /\ p \in Thread /\ c \in Client /\ thread[p].file = NoFile /\ thread[p] \in ThreadType
      /\ NoCall(thread[p]) /\ thread[p].pc \notin Calls /\ thread[p].result # "timeout"
  BY <1>1, CreatingSays
<1>3. Writes(c, IoDev[c].life, IoDev[c].IrpCount - 1, IoDev[c].DeviceOpenCount,
             IoDev[c].Acquired)
  <2>1. CASE IoDev' = [IoDev EXCEPT ![c].IrpCount = @ - 1]
    BY <1>2, <2>1, IoDevIsTyped DEF Writes, IoDevType
  <2>2. CASE IoDev' = [IoDev EXCEPT ![c].IdleTime = 0, ![c].IrpCount = @ - 1,
                                    ![c].FsContext = IF id # 0 THEN id ELSE @]
    <3> DEFINE context == IF id # 0 THEN id ELSE IoDev[c].FsContext
               device == [IoDev[c] EXCEPT !.IdleTime = 0, !.IrpCount = IoDev[c].IrpCount - 1,
                                          !.FsContext = context]
    <3>1. IoDev' = [IoDev EXCEPT ![c] = device]
      BY <1>2, <2>2, IoDevIsTyped
    <3> HIDE DEF context
    <3>2. /\ device.life = IoDev[c].life /\ device.IrpCount = IoDev[c].IrpCount - 1
          /\ device.DeviceOpenCount = IoDev[c].DeviceOpenCount
          /\ device.Acquired = IoDev[c].Acquired
      BY <1>2, IoDevIsTyped DEF IoDevType
    <3> HIDE DEF device
    <3> QED BY <1>2, <3>1, <3>2, IoDevIsTyped DEF Writes
  <2> QED BY <1>1, <2>1, <2>2
<1>4. CASE Becomes(p, [thread[p] EXCEPT !.stage = "refused"])
  <2>1. Turns(p, "create", "refused", c, NoFile)
    BY <1>1, <1>2, <1>4, TurnsStage
  <2> QED BY <1>1, <1>2, <1>3, <2>1
<1>5. CASE /\ MayOpen(c) /\ Becomes(p, r)
           /\ (\E a \in Adapter : thread[a].job = "check" /\ thread[a].io = c)
              => "raced" \in faults'
  <2>1. /\ r.job = "open" /\ r.stage = None /\ r.io = None /\ r.pc = None /\ r.result = None
        /\ r.file = [context |-> id, client |-> c]
    <3>1. IdleThread("open") \in ThreadType
      BY IdleRecord DEF Jobs
    <3> QED BY <3>1, IdleFields DEF ThreadType
  <2>2. Becomes(p, r)
    BY <1>5
  <2> HIDE DEF r
  <2>3. NoCall(r) /\ OwnCall(r)
    BY <2>1 DEF NoCall, OwnCall, Calls, None
  <2>4. Turns(p, "open", None, None, [context |-> id, client |-> c])
    BY <1>2, <2>1, <2>2, <2>3, TurnsTo
  <2> QED BY <1>1, <1>2, <1>3, <1>5, <2>4
<1> QED BY <1>1, <1>4, <1>5

LEMMA CreateUndoSays ==
    ASSUME TypeInv, JobsOK, NEW p \in App, CreateUndo(p)
    PROVE  LET c == thread[p].io  dev == IoDev[c] IN
           /\ thread[p].job = "create" /\ thread[p].stage = "refused" /\ c \in Client
           /\ UNCHANGED received /\ Turns(p, "idle", None, None, NoFile)
           /\ Writes(c, dev.life, dev.IrpCount, dev.DeviceOpenCount - 1, dev.Acquired)
<1> DEFINE c == thread[p].io
<1>1. /\ thread[p].job = "create" /\ thread[p].stage = "refused"
      /\ Becomes(p, IdleThread("idle"))
      /\ IoDev' = [IoDev EXCEPT ![c].DeviceOpenCount = @ - 1]
      /\ UNCHANGED received
  BY DEF CreateUndo, At
<1>2. p \in Thread /\ c \in Client /\ NoCall(thread[p])
  BY <1>1, CreatingSays
<1>3. Turns(p, "idle", None, None, NoFile)
  BY <1>1, <1>2, TurnsIdle
<1>4. Writes(c, IoDev[c].life, IoDev[c].IrpCount, IoDev[c].DeviceOpenCount - 1,
             IoDev[c].Acquired)
  BY <1>1, <1>2, IoDevIsTyped DEF Writes, IoDevType
<1> QED BY <1>1, <1>2, <1>3, <1>4

LEMMA CloseFindSays ==
    ASSUME TypeInv, JobsOK, NEW p \in App, CloseFind(p)
    PROVE  /\ thread[p].job = "open" /\ received' \subseteq received
           /\ \/ /\ Turns(p, "idle", None, None, NoFile) /\ Uncounted
                 /\ "orphaned" \in faults'
              \/ \E c \in Client :
                    LET dev == IoDev[c] IN
                    /\ dev.life = "listed" /\ dev.QMIType # 0
                    /\ Turns(p, "close", "released", c, NoFile)
                    /\ Writes(c, dev.life, dev.IrpCount + 1, dev.DeviceOpenCount, dev.Acquired)
                    /\ c # thread[p].file.client => "aliased" \in faults'
<1> DEFINE found == FileClients(p)
           c == FirstClient(found)
           record == [IdleThread("close") EXCEPT !.stage = "released", !.io = c]
<1>1. /\ thread[p].stage = None /\ thread[p].job = "open" /\ p \in Thread
      /\ received' \subseteq received
      /\ \/ /\ Becomes(p, IdleThread("idle")) /\ UNCHANGED IoDev
            /\ "orphaned" \in faults'
         \/ /\ found # {} /\ IoDev' = [IoDev EXCEPT ![c].IrpCount = @ + 1]
            /\ c # thread[p].file.client => "aliased" \in faults'
            /\ \/ Becomes(p, [record EXCEPT !.pc = "returned", !.result = "failed"])
               \/ Becomes(p, Call(record, "RELEASE", IoDev[c].adapter, c, IoDev[c].QMIType))
  BY ProgramIsThread DEF CloseFind, At, FaultIf
<1>2. NoCall(thread[p])
  BY <1>1, Unwaiting DEF None
<1>3. CASE Becomes(p, IdleThread("idle")) /\ UNCHANGED IoDev /\ "orphaned" \in faults'
  BY <1>1, <1>2, <1>3, TurnsIdle DEF Uncounted
<1>4. CASE /\ found # {} /\ IoDev' = [IoDev EXCEPT ![c].IrpCount = @ + 1]
           /\ c # thread[p].file.client => "aliased" \in faults'
           /\ \/ Becomes(p, [record EXCEPT !.pc = "returned", !.result = "failed"])
              \/ Becomes(p, Call(record, "RELEASE", IoDev[c].adapter, c, IoDev[c].QMIType))
  <2>1. found \subseteq Client /\ \A e \in found : IoDev[e].place \in Nat
    BY ClientType DEF FileClients
  <2>2. c \in found
    BY <1>4, <2>1, FirstClientIsOne
  <2>3. c \in Client /\ IoDev[c].life = "listed" /\ IoDev[c].QMIType # 0
    <3>1. PICK e \in found : e = c
      BY <2>2
    <3>2. e \in Client /\ IoDev[e].life = "listed" /\ IoDev[e].QMIType = ClientService
      BY <3>1 DEF FileClients
    <3> QED BY <3>1, <3>2, Sizes
  <2> HIDE DEF c
  <2>4. Writes(c, IoDev[c].life, IoDev[c].IrpCount + 1, IoDev[c].DeviceOpenCount,
               IoDev[c].Acquired)
    BY <1>4, <2>3, IoDevIsTyped DEF Writes, IoDevType
  <2>5. IdleThread("close") \in ThreadType
    BY IdleRecord DEF Jobs
  <2>6. /\ record \in ThreadType /\ record.job = "close" /\ record.stage = "released"
        /\ record.io = c /\ record.file = NoFile /\ record.result = None
    <3>1. "released" \in Stages
      BY DEF Stages
    <3> QED BY <2>3, <2>5, <3>1, IdleFields DEF ThreadType
  <2> HIDE DEF record
  <2>7. Turns(p, "close", "released", c, NoFile)
    BY <1>1, <1>2, <1>4, <2>6, TurnsToRelease
  <2> QED BY <1>1, <1>4, <2>3, <2>4, <2>7
<1> QED BY <1>1, <1>3, <1>4

LEMMA ClosingSays ==
    ASSUME TypeInv, JobsOK, NEW p \in App, thread[p].stage \in Closing
    PROVE  /\ p \in Thread /\ thread[p].io \in Client /\ thread[p].file = NoFile
           /\ thread[p].job = "close"
<1>1. p \in Thread /\ JobOK(p, thread[p]) /\ thread[p].job \in Jobs
  BY ProgramIsThread, ThreadIsTyped DEF JobsOK, ThreadType
<1> QED BY <1>1 DEF JobOK, Closing, Creating, InitStages, None, Jobs

LEMMA CloseClearSays ==
    ASSUME TypeInv, JobsOK, NEW p \in App, CloseClear(p)
    PROVE  LET c == thread[p].io  dev == IoDev[c] IN
           /\ thread[p].job = "close" /\ thread[p].stage = "released" /\ c \in Client
           /\ UNCHANGED received /\ Turns(p, "close", "cleared", c, NoFile)
           /\ Writes(c, dev.life, dev.IrpCount, dev.DeviceOpenCount, FALSE)
<1> DEFINE c == thread[p].io
<1>1. /\ thread[p].stage = "released" /\ thread[p].pc = "returned"
      /\ IoDev' = [IoDev EXCEPT ![c].Acquired = FALSE, ![c].ClientId = 0]
      /\ Becomes(p, [Rest(p) EXCEPT !.stage = "cleared"])
      /\ UNCHANGED received
  BY DEF CloseClear, Back
<1>2. /\ p \in Thread /\ c \in Client /\ thread[p].file = NoFile /\ thread[p].job = "close"
  BY <1>1, ClosingSays DEF Closing
<1>3. NoCall(thread[p])
  BY <1>1, <1>2, Unwaiting
<1>4. Turns(p, "close", "cleared", c, NoFile)
  BY <1>1, <1>2, <1>3, TurnsRest
<1>5. Writes(c, IoDev[c].life, IoDev[c].IrpCount, IoDev[c].DeviceOpenCount, FALSE)
  BY <1>1, <1>2, IoDevIsTyped DEF Writes, IoDevType
<1> QED BY <1>1, <1>2, <1>4, <1>5

LEMMA CloseCountSays ==
    ASSUME TypeInv, JobsOK, NEW p \in App, CloseCount(p)
    PROVE  LET c == thread[p].io  dev == IoDev[c] IN
           /\ thread[p].job = "close" /\ thread[p].stage = "cleared" /\ c \in Client
           /\ UNCHANGED received
           /\ \/ /\ Turns(p, "idle", None, None, NoFile)
                 /\ Writes(c, dev.life, dev.IrpCount - 1, Lower(dev.DeviceOpenCount),
                           dev.Acquired)
              \/ /\ Turns(p, "close", "unlinked", c, NoFile)
                 /\ Writes(c, IF dev.life = "listed" THEN "unlinked" ELSE dev.life,
                           dev.IrpCount - 1, Lower(dev.DeviceOpenCount), dev.Acquired)
<1> DEFINE c == thread[p].io
           last == Lower(IoDev[c].DeviceOpenCount) = 0 /\ ~IoDev[c].MPStopped
<1>1. /\ thread[p].stage = "cleared" /\ UNCHANGED received
      /\ IoDev' = [IoDev EXCEPT
            ![c].DeviceOpenCount = Lower(@), ![c].IrpCount = @ - 1,
            ![c].life = IF last /\ @ = "listed" THEN "unlinked" ELSE @]
      /\ Becomes(p, IF last THEN [Rest(p) EXCEPT !.stage = "unlinked"]
                    ELSE IdleThread("idle"))
  BY SMTT(30) DEF CloseCount, At
<1>2. /\ p \in Thread /\ c \in Client /\ thread[p].file = NoFile /\ thread[p].job = "close"
  BY <1>1, ClosingSays DEF Closing
<1>3. NoCall(thread[p])
  BY <1>1, <1>2, Unwaiting
<1> HIDE DEF last
<1> DEFINE life == IF last /\ IoDev[c].life = "listed" THEN "unlinked" ELSE IoDev[c].life
           device == [IoDev[c] EXCEPT !.DeviceOpenCount = Lower(IoDev[c].DeviceOpenCount),
                                      !.IrpCount = IoDev[c].IrpCount - 1, !.life = life]
<1>4. Writes(c, life, IoDev[c].IrpCount - 1, Lower(IoDev[c].DeviceOpenCount),
             IoDev[c].Acquired)
  <2>1. IoDev' = [IoDev EXCEPT ![c] = device]
    BY <1>1, <1>2, IoDevIsTyped
  <2> HIDE DEF life
  <2>2. /\ device.life = life /\ device.IrpCount = IoDev[c].IrpCount - 1
        /\ device.DeviceOpenCount = Lower(IoDev[c].DeviceOpenCount)
        /\ device.Acquired = IoDev[c].Acquired
    BY <1>2, IoDevIsTyped DEF IoDevType
  <2> HIDE DEF device
  <2> QED BY <1>2, <2>1, <2>2, IoDevIsTyped DEF Writes
<1>5. CASE last
  <2>1. Turns(p, "close", "unlinked", c, NoFile)
    BY <1>1, <1>2, <1>3, <1>5, TurnsRest
  <2>2. life = IF IoDev[c].life = "listed" THEN "unlinked" ELSE IoDev[c].life
    BY <1>5
  <2> HIDE DEF life
  <2> QED BY <1>1, <1>2, <1>4, <2>1, <2>2
<1>6. CASE ~last
  <2>1. Turns(p, "idle", None, None, NoFile)
    BY <1>1, <1>2, <1>3, <1>6, TurnsIdle
  <2> QED BY <1>1, <1>2, <1>4, <1>6, <2>1
<1> QED BY <1>5, <1>6

LEMMA CloseFreeSays ==
    ASSUME TypeInv, JobsOK, NEW p \in App, CloseFree(p)
    PROVE  LET c == thread[p].io  dev == IoDev[c] IN
           /\ thread[p].job = "close" /\ thread[p].stage = "unlinked" /\ c \in Client
           /\ UNCHANGED received /\ Turns(p, "idle", None, None, NoFile)
           /\ NotInUse(c)
           /\ Writes(c, "freed", dev.IrpCount, dev.DeviceOpenCount, dev.Acquired)
<1> DEFINE c == thread[p].io
<1>1. /\ thread[p].stage = "unlinked" /\ NotInUse(c)
      /\ IoDev' = [IoDev EXCEPT ![c].life = "freed"]
      /\ Becomes(p, IdleThread("idle"))
      /\ UNCHANGED received
  BY DEF CloseFree, At
<1>2. p \in Thread /\ c \in Client /\ thread[p].job = "close"
  BY <1>1, ClosingSays DEF Closing
<1>3. NoCall(thread[p])
  BY <1>1, <1>2, Unwaiting
<1>4. Turns(p, "idle", None, None, NoFile)
  BY <1>1, <1>2, <1>3, TurnsIdle
<1>5. Writes(c, "freed", IoDev[c].IrpCount, IoDev[c].DeviceOpenCount, IoDev[c].Acquired)
  BY <1>1, <1>2, IoDevIsTyped DEF Writes, IoDevType
<1> QED BY <1>1, <1>2, <1>4, <1>5

\* The id of a client is not what it is counted by.
LEMMA WithIdCounts ==
    ASSUME TypeInv, NEW x, NEW id, NEW service,
           IoDev' = [IoDev EXCEPT ![x].ClientId = id, ![x].QMIType = service]
    PROVE  Uncounted
<1>1. CASE x \in Client
  <2> DEFINE device == [IoDev[x] EXCEPT !.ClientId = id, !.QMIType = service]
  <2>1. IoDev' = [IoDev EXCEPT ![x] = device]
    BY <1>1, IoDevIsTyped
  <2>2. /\ device.life = IoDev[x].life /\ device.IrpCount = IoDev[x].IrpCount
        /\ device.DeviceOpenCount = IoDev[x].DeviceOpenCount
        /\ device.Acquired = IoDev[x].Acquired
    BY <1>1, IoDevIsTyped DEF IoDevType
  <2> HIDE DEF device
  <2> QED BY <1>1, <2>1, <2>2, IoDevIsTyped DEF Uncounted
<1>2. CASE x \notin Client
  <2>1. \A e \in Client : IoDev'[e] = IoDev[e]
    BY <1>2, IoDevIsTyped
  <2> QED BY <2>1 DEF Uncounted
<1> QED BY <1>1, <1>2

\* The steps of the transactions leave the work of the threads alone.
LEMMA TransactionSays ==
    ASSUME TypeInv, TransactionStep
    PROVE  Uncounted /\ \A t \in Thread : SameWork(thread[t], thread'[t])
<1>1. ASSUME NEW t \in Thread, CallStep(t)
      PROVE  UNCHANGED IoDev /\ \A u \in Thread : SameWork(thread[u], thread'[u])
  <2>1. PICK r : Becomes(t, r) /\ SameWork(thread[t], r)
    BY <1>1, CallMoves
  <2>2. UNCHANGED IoDev
    BY <1>1 DEF CallStep, Request, RequestRefused, RequestFails, Signalled, Timeout,
                ClearAfterTimeout, RemoveOldTransactionItem, ids
  <2>3. thread \in [Thread -> ThreadType]
    BY DEF TypeInv, ThreadsOK, ThreadTypeOK
  <2>4. \A u \in Thread : thread'[u] = thread[u] \/ (u = t /\ thread'[u] = r)
    BY <2>1, <2>3 DEF Becomes
  <2>5. \A u \in Thread : SameWork(thread[u], thread[u])
    BY DEF SameWork
  <2> QED BY <2>1, <2>2, <2>4, <2>5
<1>2. ASSUME UNCHANGED thread PROVE \A t \in Thread : SameWork(thread[t], thread'[t])
  BY <1>2 DEF SameWork
<1>3. CASE LowerStep
  BY <1>2, <1>3 DEF LowerStep, RequestSent, RequestLost, ids, Uncounted
<1>4. ASSUME NEW d \in Device, ModemStep(d) \/ InboundTake(d)
      PROVE  Uncounted /\ UNCHANGED thread
  BY <1>4 DEF ModemStep, DeviceRestarts, DeviceRevokes, InboundTake, ids, Uncounted
<1>5. ASSUME NEW d \in Device, InboundHandle(d)
      PROVE  Uncounted /\ UNCHANGED thread
  <2>1. PICK h \in inbound[d] :
          /\ \/ HandleRelease(h.message, h.item) \/ GivesId(h.message, h.item)
          /\ UNCHANGED thread
    BY <1>5 DEF InboundHandle
  <2> DEFINE x == h.item.context
  <2>2. CASE UNCHANGED IoDev
    BY <2>1, <2>2 DEF Uncounted
  <2>3. CASE \E id, service : IoDev' = [IoDev EXCEPT ![x].ClientId = id, ![x].QMIType = service]
    BY <2>1, <2>3, WithIdCounts
  <2>4. UNCHANGED IoDev
        \/ \E id, service : IoDev' = [IoDev EXCEPT ![x].ClientId = id, ![x].QMIType = service]
    BY <2>1 DEF HandleRelease, GivesId, ids
  <2> QED BY <2>2, <2>3, <2>4
<1>6. ASSUME NEW d \in Device, InboundIndication(d)
      PROVE  Uncounted /\ UNCHANGED thread
  <2>1. UNCHANGED thread /\ ((\E m : HandleRevoke(d, m)) \/ UNCHANGED ids)
    BY <1>6 DEF InboundIndication
  <2>2. CASE UNCHANGED IoDev
    BY <2>1, <2>2 DEF Uncounted
  <2>3. CASE IoDev' = [c \in Client |->
                IF UntypedClients(d) # {} /\ c = FirstClient(UntypedClients(d))
                THEN [IoDev[c] EXCEPT !.ClientId = 0, !.QMIType = MP_DEV_TYPE_CLIENT]
                ELSE IoDev[c]]
    <3>1. ASSUME NEW c \in Client
          PROVE  /\ IoDev'[c].life = IoDev[c].life /\ IoDev'[c].IrpCount = IoDev[c].IrpCount
                 /\ IoDev'[c].DeviceOpenCount = IoDev[c].DeviceOpenCount
                 /\ IoDev'[c].Acquired => IoDev[c].Acquired
      <4>1. IoDev[c] \in IoDevType
        BY IoDevIsTyped
      <4>2. \/ IoDev'[c] = IoDev[c]
            \/ IoDev'[c] = [IoDev[c] EXCEPT !.ClientId = 0, !.QMIType = MP_DEV_TYPE_CLIENT]
        BY <2>3
      <4> QED BY <4>1, <4>2 DEF IoDevType
    <3> QED BY <2>1, <3>1 DEF Uncounted
  <2>4. UNCHANGED IoDev
        \/ IoDev' = [c \in Client |->
                IF UntypedClients(d) # {} /\ c = FirstClient(UntypedClients(d))
                THEN [IoDev[c] EXCEPT !.ClientId = 0, !.QMIType = MP_DEV_TYPE_CLIENT]
                ELSE IoDev[c]]
    BY <2>1 DEF HandleRevoke, ids
  <2> QED BY <2>1, <2>2, <2>3, <2>4
<1> QED BY <1>1, <1>2, <1>3, <1>4, <1>5, <1>6
        DEF TransactionStep, InboundStep, Uncounted
-----------------------------------------------------------------------------
(* The threads fit their jobs *)

LEMMA TurnsJobs ==
    ASSUME JobsOK, NEW t \in Thread, NEW job, NEW stage, NEW io, NEW file,
           Turns(t, job, stage, io, file),
           JobOK(t, [job |-> job, stage |-> stage, io |-> io, file |-> file])
    PROVE  JobsOK'
BY DEF JobsOK, Turns, JobOK, OwnCall

LEMMA IdleJobs ==
    ASSUME JobsOK, NEW t \in Thread, Turns(t, "idle", None, None, NoFile)
    PROVE  JobsOK'
<1>1. JobOK(t, [job |-> "idle", stage |-> None, io |-> None, file |-> NoFile])
  BY DEF JobOK, None
<1> QED BY <1>1, TurnsJobs

LEMMA InitJobs ==
    ASSUME TypeInv, JobsOK, NEW t \in Thread,
           \/ InitStep(t)
           \/ t \in Adapter /\ StartInit(t)
           \/ t \in App /\ ServiceFile(t)
    PROVE  JobsOK'
<1>1. CASE InitStep(t)
  BY <1>1, InitStepJobs
<1>2. CASE t \in Adapter /\ StartInit(t)
  <2>1. \A stage \in InitStages :
           JobOK(t, [job |-> "init", stage |-> stage, io |-> None, file |-> NoFile])
    BY <1>2 DEF JobOK, InitStages
  <2> QED BY <1>2, <2>1, StartInitSays, IdleJobs, TurnsJobs
<1>3. CASE t \in App /\ ServiceFile(t)
  <2>1. ASSUME NEW c \in Client, NEW stage \in InitStages \cup {"got"}
        PROVE  JobOK(t, [job |-> "service", stage |-> stage, io |-> c, file |-> NoFile])
    BY <1>3 DEF JobOK, InitStages
  <2> QED BY <1>3, <2>1, ServiceFileSays, IdleJobs, TurnsJobs
<1> QED BY <1>1, <1>2, <1>3

LEMMA AdapterJobs ==
    ASSUME TypeInv, JobsOK, NEW a \in Adapter, MPThreadStep(a)
    PROVE  JobsOK'
<1>1. a \in Thread
  BY Devices
<1>2. CASE StartInit(a)
  BY <1>1, <1>2, InitJobs
<1>3. CASE SyncPass(a)
  <2>1. JobOK(a, [job |-> "sync", stage |-> "counted", io |-> None, file |-> NoFile])
    BY DEF JobOK
  <2> QED BY <1>1, <1>3, <2>1, SyncPassSays, TurnsJobs
<1>4. CASE SyncCount(a)
  BY <1>1, <1>4, SyncCountSays, IdleJobs
<1>5. CASE IdleCheck(a)
  <2>1. JobOK(a, [job |-> "check", stage |-> "walk", io |-> None, file |-> NoFile])
    BY DEF JobOK
  <2> QED BY <1>1, <1>5, <2>1, IdleCheckSays, TurnsJobs
<1>6. CASE IdleWalk(a)
  <2>1. \A c \in Client :
           JobOK(a, [job |-> "check", stage |-> "release", io |-> c, file |-> NoFile])
    BY DEF JobOK
  <2> QED BY <1>1, <1>6, <2>1, IdleWalkSays, IdleJobs, TurnsJobs
<1>7. CASE IdleReset(a)
  <2>1. JobOK(a, thread[a])
    BY <1>1 DEF JobsOK
  <2>2. thread[a].job = "check" /\ thread[a].stage = "release"
    BY <1>7, IdleResetSays
  <2>3. JobOK(a, [job |-> "check", stage |-> "walk", io |-> thread[a].io,
                  file |-> thread[a].file])
    BY <2>1, <2>2 DEF JobOK
  <2> QED BY <1>1, <1>7, <2>3, IdleResetSays, TurnsJobs
<1> QED BY <1>2, <1>3, <1>4, <1>5, <1>6, <1>7 DEF MPThreadStep

LEMMA ProgramJobs ==
    ASSUME TypeInv, JobsOK, NEW p \in App, ProgramStep(p)
    PROVE  JobsOK'
<1>1. p \in Thread
  BY ProgramIsThread
<1>2. \A c \in Client :
         /\ \A stage \in Creating :
               JobOK(p, [job |-> "create", stage |-> stage, io |-> c, file |-> NoFile])
         /\ \A stage \in Closing :
               JobOK(p, [job |-> "close", stage |-> stage, io |-> c, file |-> NoFile])
         /\ \A id : JobOK(p, [job |-> "open", stage |-> None, io |-> None,
                              file |-> [context |-> id, client |-> c]])
  BY DEF JobOK, Creating, Closing, None
<1>3. JobOK(p, [job |-> "named", stage |-> None, io |-> None, file |-> NoFile])
  BY DEF JobOK, None
<1>4. CASE ServiceFile(p)
  BY <1>1, <1>4, InitJobs
<1>5. CASE ServiceGot(p)
  BY <1>1, <1>3, <1>5, ServiceGotSays, IdleJobs, TurnsJobs
<1>6. CASE CreateFind(p)
  BY <1>1, <1>2, <1>6, CreateFindSays, IdleJobs, TurnsJobs DEF Creating
<1>7. CASE CreateReference(p)
  BY <1>1, <1>2, <1>7, CreateReferenceSays, IdleJobs, TurnsJobs DEF Creating
<1>8. CASE CreateCount(p)
  BY <1>1, <1>2, <1>8, CreateCountSays, TurnsJobs DEF Creating
<1>9. CASE CreateDecide(p)
  BY <1>1, <1>2, <1>9, CreateDecideSays, TurnsJobs DEF Creating
<1>10. CASE CreateUndo(p)
  BY <1>1, <1>10, CreateUndoSays, IdleJobs
<1>11. CASE CloseFind(p)
  BY <1>1, <1>2, <1>11, CloseFindSays, IdleJobs, TurnsJobs DEF Closing
<1>12. CASE CloseClear(p)
  BY <1>1, <1>2, <1>12, CloseClearSays, TurnsJobs DEF Closing
<1>13. CASE CloseCount(p)
  BY <1>1, <1>2, <1>13, CloseCountSays, IdleJobs, TurnsJobs DEF Closing
<1>14. CASE CloseFree(p)
  BY <1>1, <1>14, CloseFreeSays, IdleJobs
<1> QED BY <1>4, <1>5, <1>6, <1>7, <1>8, <1>9, <1>10, <1>11, <1>12, <1>13, <1>14
        DEF ProgramStep

LEMMA NextJobs ==
    ASSUME TypeInv, JobsOK, [Next]_vars
    PROVE  JobsOK'
<1>1. CASE TransactionStep
  <2>1. CASE \E t \in Thread : CallStep(t)
    BY <2>1, CallJobs
  <2>2. CASE LowerStep \/ \E d \in Device : ModemStep(d) \/ InboundStep(d)
    <3>1. UNCHANGED thread
      BY <2>2 DEF LowerStep, RequestSent, RequestLost, ModemStep, DeviceRestarts,
             DeviceRevokes, InboundStep, InboundTake, InboundHandle, InboundIndication
    <3> QED BY <3>1 DEF JobsOK
  <2> QED BY <1>1, <2>1, <2>2 DEF TransactionStep
<1>2. CASE UNCHANGED thread
  BY <1>2 DEF JobsOK
<1>3. CASE \E a \in Adapter : InitWanted(a)
  BY <1>2, <1>3 DEF InitWanted
<1>4. CASE \E d \in Device : LinkDown(d)
  BY <1>2, <1>4 DEF LinkDown
<1> QED BY <1>1, <1>2, <1>3, <1>4, InitJobs, AdapterJobs, ProgramJobs
        DEF Next, vars, tvars

-----------------------------------------------------------------------------
(* What is counted of a client *)

\* The programs whose IRP counts; whether a program keeps a client from others.
Refs(c) ==
    {p \in App : /\ thread[p].io = c
                 /\ thread[p].stage \in {"referenced", "counted", "released", "cleared"}}
Holds(q, c) ==
    \/ thread[q].job = "open" /\ thread[q].file.client = c
    \/ thread[q].job = "close" /\ thread[q].io = c
Unheld(c) == IoDev[c].life = "listed" /\ \A q \in App : ~Holds(q, c)

\* The IRP count is that of the programs whose IRP counts.
RefsOK ==
    \A c \in Client : IsFiniteSet(Refs(c)) /\ IoDev[c].IrpCount = Cardinality(Refs(c))
\* So is the open count, but for closes that missed their client.
CountOpens(c) ==
    \/ Excused({"aliased"})
    \/ IoDev[c].DeviceOpenCount = Cardinality(Opens(c))
    \/ IoDev[c].DeviceOpenCount > Cardinality(Opens(c)) /\ Excused({"orphaned"})
OpensOK == \A c \in Client : IsFiniteSet(Opens(c)) /\ CountOpens(c)
\* Nobody works on a record that does not exist yet.
FreshOK ==
    \A c \in Client : IoDev[c].life = "none" =>
        \A t \in Thread : thread[t].io # c /\ thread[t].file.client # c
\* A record is freed when no IRP counts, but a lookup may still find it.
FreedOK ==
    \A c \in Client : IoDev[c].life = "freed" =>
        Refs(c) = {} \/ Excused({"unreferenced"})
\* A client whose id is asked for has one asker and no file.
ServiceOK ==
    \A p \in App : thread[p].job = "service" =>
        /\ ~IoDev[thread[p].io].Acquired
        /\ \A q \in App : thread[q].job = "service" /\ thread[q].io = thread[p].io => q = p
        /\ Unheld(thread[p].io) \/ Excused({"aliased"})
\* A client whose id an idle check releases has no file, unless one was opened since.
CheckOK ==
    \A a \in Adapter : thread[a].stage = "release" =>
        Unheld(thread[a].io) \/ Excused({"aliased", "raced"})
\* A record that waits to be freed is off the list.
UnlinkedOK ==
    \A p \in App : thread[p].stage = "unlinked" =>
        IoDev[thread[p].io].life \in {"unlinked", "freed"}

ClientInv ==
    RefsOK /\ OpensOK /\ FreshOK /\ FreedOK /\ ServiceOK /\ CheckOK /\ UnlinkedOK
    /\ OneFile

LEMMA ExcusesStay ==
    ASSUME Remembers, NEW some, Excused(some)
    PROVE  Excused(some)'
BY DEF Remembers, Excused

\* A set that gains or loses one element at most.
LEMMA OneMoves ==
    ASSUME NEW S, NEW T, NEW p, IsFiniteSet(S), \A q : q # p => (q \in S <=> q \in T)
    PROVE  /\ IsFiniteSet(T)
           /\ Cardinality(T) = Cardinality(S) + OneIf(p \in T) - OneIf(p \in S)
<1>1. CASE p \in T <=> p \in S
  <2>1. T = S
    BY <1>1
  <2>2. Cardinality(S) \in Nat
    BY FS_CardinalityType
  <2> QED BY <1>1, <2>1, <2>2 DEF OneIf
<1>2. CASE p \in T /\ p \notin S
  <2>1. T = S \cup {p}
    BY <1>2
  <2>2. IsFiniteSet(T) /\ Cardinality(T) = Cardinality(S) + 1 /\ Cardinality(S) \in Nat
    BY <1>2, <2>1, FS_AddElement, FS_CardinalityType
  <2> QED BY <1>2, <2>2 DEF OneIf
<1>3. CASE p \notin T /\ p \in S
  <2>1. T = S \ {p}
    BY <1>3
  <2>2. IsFiniteSet(T) /\ Cardinality(T) = Cardinality(S) - 1 /\ Cardinality(S) \in Nat
    BY <1>3, <2>1, FS_RemoveElement, FS_CardinalityType
  <2> QED BY <1>3, <2>2 DEF OneIf
<1> QED BY <1>1, <1>2, <1>3

\* What a step keeps in which one thread moves.
Others(t) == \A u \in Thread \ {t} : thread'[u] = thread[u]

LEMMA RefsMove ==
    ASSUME RefsOK, NEW t \in Thread, Others(t),
           \A c \in Client : IoDev'[c].IrpCount =
               IoDev[c].IrpCount + OneIf(t \in Refs(c)') - OneIf(t \in Refs(c))
    PROVE  RefsOK'
<1>1. ASSUME NEW c \in Client
      PROVE  IsFiniteSet(Refs(c))' /\ (IoDev[c].IrpCount = Cardinality(Refs(c)))'
  <2>1. \A q : q # t => (q \in Refs(c) <=> q \in Refs(c)')
    BY DEF Others, Refs, Thread
  <2>2. IsFiniteSet(Refs(c)) /\ IoDev[c].IrpCount = Cardinality(Refs(c))
    BY DEF RefsOK
  <2>3. /\ IsFiniteSet(Refs(c)')
        /\ Cardinality(Refs(c)') =
              Cardinality(Refs(c)) + OneIf(t \in Refs(c)') - OneIf(t \in Refs(c))
    BY <2>1, <2>2, OneMoves
  <2> QED BY <2>2, <2>3
<1> QED BY <1>1 DEF RefsOK

LEMMA OpensMove ==
    ASSUME TypeInv, OpensOK, Remembers, NEW t \in Thread, Others(t),
           \A c \in Client :
               \/ IoDev'[c].DeviceOpenCount =
                     IoDev[c].DeviceOpenCount + OneIf(t \in Opens(c)') - OneIf(t \in Opens(c))
               \/ Excused({"aliased"})'
               \/ /\ IoDev'[c].DeviceOpenCount = IoDev[c].DeviceOpenCount
                  /\ t \notin Opens(c)' /\ Excused({"orphaned"})'
    PROVE  OpensOK'
<1>1. ASSUME NEW c \in Client
      PROVE  IsFiniteSet(Opens(c))' /\ CountOpens(c)'
  <2>1. \A q : q # t => (q \in Opens(c) <=> q \in Opens(c)')
    BY DEF Others, Opens, Thread
  <2>2. IsFiniteSet(Opens(c)) /\ CountOpens(c)
    BY DEF OpensOK
  <2>3. /\ IsFiniteSet(Opens(c)')
        /\ Cardinality(Opens(c)') =
              Cardinality(Opens(c)) + OneIf(t \in Opens(c)') - OneIf(t \in Opens(c))
    BY <2>1, <2>2, OneMoves
  <2>4. Cardinality(Opens(c)) \in Nat /\ IoDev[c].DeviceOpenCount \in Int
    BY <2>2, FS_CardinalityType, IoDevIsTyped DEF IoDevType
  <2>5. /\ Excused({"aliased"}) => Excused({"aliased"})'
        /\ Excused({"orphaned"}) => Excused({"orphaned"})'
    BY ExcusesStay
  <2>6. CASE Excused({"aliased"})'
    BY <2>3, <2>6 DEF CountOpens
  <2>7. CASE IoDev'[c].DeviceOpenCount =
                IoDev[c].DeviceOpenCount + OneIf(t \in Opens(c)') - OneIf(t \in Opens(c))
    BY <2>2, <2>3, <2>4, <2>5, <2>7 DEF CountOpens, OneIf
  <2>8. CASE /\ IoDev'[c].DeviceOpenCount = IoDev[c].DeviceOpenCount
             /\ t \notin Opens(c)' /\ Excused({"orphaned"})'
    <3>1. Cardinality(Opens(c)') <= Cardinality(Opens(c))
      BY <2>3, <2>4, <2>8 DEF OneIf
    <3>2. Cardinality(Opens(c)') \in Nat
      BY <2>3, FS_CardinalityType
    <3> QED BY <2>2, <2>3, <2>4, <2>5, <2>8, <3>1, <3>2 DEF CountOpens
  <2> QED BY <2>6, <2>7, <2>8
<1> QED BY <1>1 DEF OpensOK

LEMMA FreshMove ==
    ASSUME FreshOK, NEW t \in Thread, Others(t),
           \A c \in Client : IoDev'[c].life = "none" =>
               /\ IoDev[c].life = "none"
               /\ thread'[t].io # c /\ thread'[t].file.client # c
    PROVE  FreshOK'
BY DEF FreshOK, Others

LEMMA FreedMove ==
    ASSUME FreedOK, Remembers, NEW t \in Thread, Others(t),
           \A c \in Client : IoDev'[c].life = "freed" =>
               \/ Excused({"unreferenced"})'
               \/ Refs(c)' = {}
               \/ IoDev[c].life = "freed" /\ (t \in Refs(c)' => t \in Refs(c))
    PROVE  FreedOK'
<1> SUFFICES ASSUME NEW c \in Client, (IoDev[c].life = "freed")'
             PROVE  (Refs(c) = {} \/ Excused({"unreferenced"}))'
  BY DEF FreedOK
<1>1. CASE IoDev[c].life = "freed" /\ (t \in Refs(c)' => t \in Refs(c))
  <2>1. Refs(c) = {} \/ Excused({"unreferenced"})
    BY <1>1 DEF FreedOK
  <2>2. Refs(c)' \subseteq Refs(c)
    BY <1>1 DEF Refs, Others, Thread
  <2> QED BY <2>1, <2>2, ExcusesStay
<1> QED BY <1>1

\* A client that nobody holds stays so when the thread does not come to hold it.
LEMMA UnheldStays ==
    ASSUME NEW t \in Thread, Others(t), NEW c \in Client, Unheld(c),
           IoDev'[c].life = "listed", t \in App => ~Holds(t, c)'
    PROVE  Unheld(c)'
BY DEF Unheld, Others, Holds, Thread

LEMMA CheckMove ==
    ASSUME CheckOK, JobsOK, Remembers, NEW t \in Thread, Others(t),
           \A c \in Client : Unheld(c) =>
               \/ IoDev'[c].life = "listed" /\ (t \in App => ~Holds(t, c)')
               \/ Excused({"aliased", "raced"})'
               \/ \A a \in Adapter : thread[a].stage = "release" => thread[a].io # c,
           t \in Adapter => (thread[t].stage = "release" =>
                                 Unheld(thread[t].io) \/ Excused({"aliased", "raced"}))'
    PROVE  CheckOK'
<1> SUFFICES ASSUME NEW a \in Adapter, (thread[a].stage = "release")'
             PROVE  (Unheld(thread[a].io) \/ Excused({"aliased", "raced"}))'
  BY DEF CheckOK
<1>1. CASE a # t
  <2>1. a \in Thread /\ thread'[a] = thread[a]
    BY <1>1, Devices DEF Others
  <2>2. thread[a].io \in Client /\ thread[a].stage = "release"
    BY <2>1 DEF JobsOK, JobOK
  <2>3. PICK c \in Client : c = thread[a].io
    BY <2>2
  <2>4. Unheld(c) \/ Excused({"aliased", "raced"})
    BY <2>2, <2>3 DEF CheckOK
  <2>5. Excused({"aliased", "raced"}) => Excused({"aliased", "raced"})'
    BY ExcusesStay
  <2>6. Unheld(c) => \/ IoDev'[c].life = "listed" /\ (t \in App => ~Holds(t, c)')
                     \/ Excused({"aliased", "raced"})'
    BY <2>2, <2>3
  <2>7. Unheld(c)' \/ Excused({"aliased", "raced"})'
    BY <2>4, <2>5, <2>6, UnheldStays
  <2>8. thread'[a].io = c
    BY <2>1, <2>3
  <2> QED BY <2>7, <2>8
<1> QED BY <1>1

LEMMA ServiceMove ==
    ASSUME ServiceOK, JobsOK, Remembers, NEW t \in Thread, Others(t),
           \A c \in Client :
               (\E q \in App : q # t /\ thread[q].job = "service" /\ thread[q].io = c) =>
               /\ ~IoDev[c].Acquired => ~IoDev'[c].Acquired
               /\ t \in App /\ thread'[t].job = "service" => thread'[t].io # c
               /\ Unheld(c) => \/ IoDev'[c].life = "listed" /\ (t \in App => ~Holds(t, c)')
                               \/ Excused({"aliased"})',
           t \in App => (thread[t].job = "service" =>
               /\ ~IoDev[thread[t].io].Acquired
               /\ Unheld(thread[t].io) \/ Excused({"aliased"}))'
    PROVE  ServiceOK'
<1> SUFFICES ASSUME NEW p \in App, (thread[p].job = "service")'
             PROVE  (/\ ~IoDev[thread[p].io].Acquired
                     /\ \A q \in App : thread[q].job = "service"
                                       /\ thread[q].io = thread[p].io => q = p
                     /\ Unheld(thread[p].io) \/ Excused({"aliased"}))'
  BY DEF ServiceOK
<1>1. \A q \in App : q # t => q \in Thread /\ thread'[q] = thread[q]
  BY ProgramIsThread DEF Others
<1>2. \A q \in App : thread[q].job = "service" => thread[q].io \in Client
  BY ProgramIsThread DEF JobsOK, JobOK
<1>3. \A q \in App : thread'[q].job = "service" /\ thread'[q].io = thread'[p].io => q = p
  BY <1>1, <1>2 DEF ServiceOK
<1>4. CASE p # t
  <2> DEFINE c == thread[p].io
  <2>1. /\ thread'[p] = thread[p] /\ thread[p].job = "service" /\ c \in Client
        /\ ~IoDev[c].Acquired /\ (Unheld(c) \/ Excused({"aliased"}))
    BY <1>1, <1>2, <1>4 DEF ServiceOK
  <2>2. /\ ~IoDev'[c].Acquired
        /\ Unheld(c) => \/ IoDev'[c].life = "listed" /\ (t \in App => ~Holds(t, c)')
                        \/ Excused({"aliased"})'
    BY <1>4, <2>1
  <2>3. Excused({"aliased"}) => Excused({"aliased"})'
    BY ExcusesStay
  <2>4. ASSUME NEW e, e \in Client, Unheld(e), IoDev'[e].life = "listed",
               t \in App => ~Holds(t, e)'
        PROVE  Unheld(e)'
    BY <2>4, UnheldStays
  <2>5. (Unheld(thread[p].io) \/ Excused({"aliased"}))'
    BY <2>1, <2>2, <2>3, <2>4 DEF Unheld, Holds
  <2> QED BY <1>3, <2>1, <2>2, <2>5
<1> QED BY <1>3, <1>4

LEMMA UnlinkedMove ==
    ASSUME TypeInv, UnlinkedOK, JobsOK, NEW t \in Thread, Others(t),
           \A c \in Client : IoDev[c].life \in {"unlinked", "freed"} =>
                             IoDev'[c].life \in {"unlinked", "freed"},
           t \in App /\ thread'[t].stage = "unlinked" =>
               IoDev'[thread'[t].io].life \in {"unlinked", "freed"}
    PROVE  UnlinkedOK'
<1> SUFFICES ASSUME NEW p \in App, (thread[p].stage = "unlinked")'
             PROVE  (IoDev[thread[p].io].life \in {"unlinked", "freed"})'
  BY DEF UnlinkedOK
<1>1. CASE p # t
  <2>1. p \in Thread /\ thread'[p] = thread[p]
    BY <1>1, ProgramIsThread DEF Others
  <2>2. thread[p].io \in Client
    BY <2>1, ClosingSays DEF Closing
  <2> QED BY <2>1, <2>2 DEF UnlinkedOK
<1> QED BY <1>1

LEMMA OneFileMove ==
    ASSUME OneFile, Remembers, NEW t \in Thread, Others(t),
           t \in App /\ thread'[t].job = "open" =>
               \/ Excused({"aliased"})'
               \/ \A q \in App : q # t /\ thread[q].job = "open" =>
                                 thread[q].file.client # thread'[t].file.client
    PROVE  OneFile'
<1>1. \A q \in App : q # t => thread'[q] = thread[q]
  BY ProgramIsThread DEF Others
<1>2. Excused({"aliased"}) => Excused({"aliased"})'
  BY ExcusesStay
<1> QED BY <1>1, <1>2 DEF OneFile

-----------------------------------------------------------------------------
(* Steps that count nothing *)

\* A thread that neither counts nor holds a client.
Aloof(t, r) ==
    t \in App =>
        /\ r.job \notin {"open", "close"}
        /\ r.stage \notin {"referenced", "counted", "refused", "released", "cleared",
                           "unlinked"}

LEMMA AloofCounts ==
    ASSUME NEW t \in Thread, NEW c \in Client
    PROVE  /\ Aloof(t, thread[t]) => t \notin Refs(c) /\ t \notin Opens(c)
           /\ Aloof(t, thread'[t]) => t \notin Refs(c)' /\ t \notin Opens(c)'
           /\ Aloof(t, thread'[t]) => (t \in App => ~Holds(t, c)')
BY DEF Aloof, Refs, Opens, Holds

LEMMA QuietKeeps ==
    ASSUME TypeInv, JobsOK, ClientInv, Remembers, Uncounted,
           NEW t \in Thread, Others(t), Aloof(t, thread[t]), Aloof(t, thread'[t]),
           \A c \in Client : IoDev[c].life = "none" =>
               thread'[t].io # c /\ thread'[t].file.client # c,
           t \in App /\ thread'[t].job = "service" =>
               thread[t].job = "service" /\ thread'[t].io = thread[t].io,
           t \in Adapter /\ thread'[t].stage = "release" =>
               \E c \in Client : /\ c = thread'[t].io
                                 /\ Unheld(c) \/ Excused({"aliased", "raced"})
    PROVE  ClientInv'
<1>1. \A c \in Client :
         /\ IoDev'[c].life = IoDev[c].life /\ IoDev'[c].IrpCount = IoDev[c].IrpCount
         /\ IoDev'[c].DeviceOpenCount = IoDev[c].DeviceOpenCount
         /\ IoDev'[c].Acquired => IoDev[c].Acquired
         /\ IoDev[c].IrpCount \in Int /\ IoDev[c].DeviceOpenCount \in Int
  BY IoDevIsTyped DEF Uncounted, IoDevType
<1>2. \A c \in Client : /\ t \notin Refs(c) /\ t \notin Opens(c)
                        /\ t \notin Refs(c)' /\ t \notin Opens(c)'
                        /\ t \in App => ~Holds(t, c)'
  BY AloofCounts
<1>3. RefsOK'
  <2>1. \A c \in Client : IoDev'[c].IrpCount =
            IoDev[c].IrpCount + OneIf(t \in Refs(c)') - OneIf(t \in Refs(c))
    BY <1>1, <1>2 DEF OneIf
  <2> QED BY <2>1, RefsMove DEF ClientInv
<1>4. OpensOK'
  <2>1. \A c \in Client : IoDev'[c].DeviceOpenCount =
            IoDev[c].DeviceOpenCount + OneIf(t \in Opens(c)') - OneIf(t \in Opens(c))
    BY <1>1, <1>2 DEF OneIf
  <2> QED BY <2>1, OpensMove DEF ClientInv
<1>5. FreshOK'
  BY <1>1, FreshMove DEF ClientInv
<1>6. FreedOK'
  BY <1>1, <1>2, FreedMove DEF ClientInv
<1>7. \A c \in Client : Unheld(c) => Unheld(c)'
  <2>1. \A c \in Client : Unheld(c) => IoDev'[c].life = "listed"
    BY <1>1 DEF Unheld
  <2> QED BY <1>2, <2>1, UnheldStays
<1>8. \A c \in Client : Unheld(c) => IoDev'[c].life = "listed"
  BY <1>1 DEF Unheld
<1>9. CheckOK'
  <2>1. t \in Adapter => (thread[t].stage = "release" =>
            Unheld(thread[t].io) \/ Excused({"aliased", "raced"}))'
    <3>1. Excused({"aliased", "raced"}) => Excused({"aliased", "raced"})'
      BY ExcusesStay
    <3>2. ASSUME t \in Adapter, thread'[t].stage = "release"
          PROVE  (Unheld(thread[t].io) \/ Excused({"aliased", "raced"}))'
      <4>1. PICK c \in Client : /\ c = thread'[t].io
                                /\ Unheld(c) \/ Excused({"aliased", "raced"})
        BY <3>2
      <4>2. Unheld(c)' \/ Excused({"aliased", "raced"})'
        BY <1>7, <3>1, <4>1
      <4> QED BY <4>1, <4>2
    <3> QED BY <3>2
  <2> QED BY <1>2, <1>8, <2>1, CheckMove DEF ClientInv
<1>10. ServiceOK'
  <2>1. ASSUME t \in App, thread'[t].job = "service"
        PROVE  (/\ ~IoDev[thread[t].io].Acquired
                /\ Unheld(thread[t].io) \/ Excused({"aliased"}))'
    <3>1. PICK c \in Client : c = thread[t].io /\ c = thread'[t].io
      BY <2>1 DEF JobsOK, JobOK
    <3>2. thread[t].job = "service"
      BY <2>1
    <3>3. ~IoDev[c].Acquired /\ (Unheld(c) \/ Excused({"aliased"}))
      BY <2>1, <3>1, <3>2 DEF ClientInv, ServiceOK
    <3>4. Excused({"aliased"}) => Excused({"aliased"})'
      BY ExcusesStay
    <3>5. ~IoDev'[c].Acquired /\ (Unheld(c)' \/ Excused({"aliased"})')
      BY <1>1, <1>7, <3>3, <3>4
    <3> QED BY <3>1, <3>5
  <2>2. \A c \in Client :
          (\E q \in App : q # t /\ thread[q].job = "service" /\ thread[q].io = c) =>
          (t \in App /\ thread'[t].job = "service" => thread'[t].io # c)
    BY DEF ClientInv, ServiceOK
  <2> QED BY <1>1, <1>2, <1>8, <2>1, <2>2, ServiceMove DEF ClientInv
<1>11. UnlinkedOK'
  <2>1. t \in App => thread'[t].stage # "unlinked"
    BY DEF Aloof
  <2> QED BY <1>1, <2>1, UnlinkedMove DEF ClientInv
<1>12. OneFile'
  <2>1. t \in App => thread'[t].job # "open"
    BY DEF Aloof
  <2> QED BY <2>1, OneFileMove DEF ClientInv
<1> QED BY <1>3, <1>4, <1>5, <1>6, <1>9, <1>10, <1>11, <1>12 DEF ClientInv

LEMMA SameWorkKeeps ==
    ASSUME TypeInv, JobsOK, ClientInv, Remembers, Uncounted,
           \A t \in Thread : SameWork(thread[t], thread'[t])
    PROVE  ClientInv'
<1>1. \A t \in Thread : /\ thread'[t].job = thread[t].job /\ thread'[t].stage = thread[t].stage
                        /\ thread'[t].io = thread[t].io /\ thread'[t].file = thread[t].file
  BY DEF SameWork
<1>2. \A p \in App : p \in Thread
  BY ProgramIsThread
<1>3. \A a \in Adapter : a \in Thread
  BY Devices
<1>4. \A c \in Client :
         /\ IoDev'[c].life = IoDev[c].life /\ IoDev'[c].IrpCount = IoDev[c].IrpCount
         /\ IoDev'[c].DeviceOpenCount = IoDev[c].DeviceOpenCount
         /\ IoDev'[c].Acquired => IoDev[c].Acquired
  BY DEF Uncounted
<1>5. \A c \in Client : Refs(c)' = Refs(c) /\ Opens(c)' = Opens(c)
  BY <1>1, <1>2 DEF Refs, Opens
<1>6. \A c \in Client : Unheld(c) => Unheld(c)'
  BY <1>1, <1>2, <1>4 DEF Unheld, Holds
<1>7. /\ Excused({"aliased"}) => Excused({"aliased"})'
      /\ Excused({"orphaned"}) => Excused({"orphaned"})'
      /\ Excused({"unreferenced"}) => Excused({"unreferenced"})'
      /\ Excused({"aliased", "raced"}) => Excused({"aliased", "raced"})'
  BY ExcusesStay
<1>8. RefsOK'
  BY <1>4, <1>5 DEF ClientInv, RefsOK
<1>9. OpensOK'
  <2>1. ASSUME NEW c \in Client
        PROVE  IsFiniteSet(Opens(c)') /\ CountOpens(c)'
    <3>1. IsFiniteSet(Opens(c)) /\ CountOpens(c) /\ Opens(c)' = Opens(c)
          /\ IoDev'[c].DeviceOpenCount = IoDev[c].DeviceOpenCount
      BY <1>4, <1>5 DEF ClientInv, OpensOK
    <3> QED BY <1>7, <3>1 DEF CountOpens
  <2> QED BY <2>1 DEF OpensOK
<1>10. FreshOK'
  BY <1>1, <1>4 DEF ClientInv, FreshOK
<1>11. FreedOK'
  BY <1>4, <1>5, <1>7 DEF ClientInv, FreedOK
<1>12. ServiceOK'
  <2>1. ASSUME NEW p \in App, thread'[p].job = "service"
        PROVE  (/\ ~IoDev[thread[p].io].Acquired
                /\ \A q \in App : thread[q].job = "service"
                                  /\ thread[q].io = thread[p].io => q = p
                /\ Unheld(thread[p].io) \/ Excused({"aliased"}))'
    <3>1. PICK c \in Client : c = thread[p].io /\ c = thread'[p].io
      BY <1>1, <1>2, <2>1 DEF JobsOK, JobOK
    <3>2. /\ ~IoDev[c].Acquired /\ (Unheld(c) \/ Excused({"aliased"}))
          /\ \A q \in App : thread[q].job = "service" /\ thread[q].io = c => q = p
      BY <1>1, <1>2, <2>1, <3>1 DEF ClientInv, ServiceOK
    <3>3. ~IoDev'[c].Acquired /\ (Unheld(c)' \/ Excused({"aliased"})')
      BY <1>4, <1>6, <1>7, <3>2
    <3>4. \A q \in App : thread'[q].job = "service" /\ thread'[q].io = c => q = p
      BY <1>1, <1>2, <3>2
    <3> QED BY <3>1, <3>3, <3>4
  <2> QED BY <2>1 DEF ServiceOK
<1>13. CheckOK'
  <2>1. ASSUME NEW a \in Adapter, thread'[a].stage = "release"
        PROVE  (Unheld(thread[a].io) \/ Excused({"aliased", "raced"}))'
    <3>1. PICK c \in Client : c = thread[a].io /\ c = thread'[a].io
      BY <1>1, <1>3, <2>1 DEF JobsOK, JobOK
    <3>2. Unheld(c) \/ Excused({"aliased", "raced"})
      BY <1>1, <1>3, <2>1, <3>1 DEF ClientInv, CheckOK
    <3>3. Unheld(c)' \/ Excused({"aliased", "raced"})'
      BY <1>6, <1>7, <3>2
    <3> QED BY <3>1, <3>3
  <2> QED BY <2>1 DEF CheckOK
<1>14. UnlinkedOK'
  <2>1. ASSUME NEW p \in App, thread'[p].stage = "unlinked"
        PROVE  (IoDev[thread[p].io].life \in {"unlinked", "freed"})'
    <3>1. thread[p].stage = "unlinked" /\ thread'[p].io = thread[p].io
      BY <1>1, <1>2, <2>1
    <3>2. thread[p].io \in Client /\ IoDev[thread[p].io].life \in {"unlinked", "freed"}
      BY <3>1, ClosingSays DEF Closing, ClientInv, UnlinkedOK
    <3> QED BY <1>4, <3>1, <3>2
  <2> QED BY <2>1 DEF UnlinkedOK
<1>15. OneFile'
  BY <1>1, <1>2, <1>7 DEF ClientInv, OneFile
<1> QED BY <1>8, <1>9, <1>10, <1>11, <1>12, <1>13, <1>14, <1>15 DEF ClientInv

\* The history is kept by every step.
LEMMA NextRemembers ==
    ASSUME TypeInv, [Next]_vars
    PROVE  Remembers
<1>1. ASSUME NEW t \in Thread, CallStep(t) PROVE Remembers
  BY <1>1 DEF CallStep, Request, RequestRefused, RequestFails, Signalled, Timeout,
              ClearAfterTimeout, RemoveOldTransactionItem, Remembers
<1>2. ASSUME LowerStep PROVE Remembers
  BY <1>2 DEF LowerStep, RequestSent, RequestLost, DeviceGives, DeviceTakesBack,
              DeviceAgrees, DeviceRefuses, DeviceSilent, Remembers
<1>3. ASSUME NEW d \in Device, ModemStep(d) \/ InboundStep(d) PROVE Remembers
  BY <1>3 DEF ModemStep, DeviceRestarts, DeviceRevokes, InboundStep, InboundTake,
              InboundHandle, InboundIndication, Remembers
<1>4. ASSUME Aside PROVE Remembers
  BY <1>4 DEF Aside
<1>5. ASSUME NEW d \in Device, LinkDown(d) PROVE Remembers
  BY <1>5 DEF LinkDown, Disconnect, Remembers
<1>6. ASSUME UNCHANGED vars PROVE Remembers
  BY <1>6 DEF vars, tvars, Remembers
<1> QED BY <1>1, <1>2, <1>3, <1>4, <1>5, <1>6, InitStepAside, MPThreadAside, ProgramAside
        DEF Next, TransactionStep

\* The steps of MPThread and of initialisation.
LEMMA InitStepKeepsClients ==
    ASSUME TypeInv, JobsOK, ClientInv, Remembers, NEW t \in Thread, InitStep(t)
    PROVE  ClientInv'
<1>1. /\ thread[t].stage \in InitStages /\ thread[t].job \in {"init", "service"} /\ Uncounted
      /\ \/ Turns(t, "idle", None, None, NoFile)
         \/ \E stage \in InitStages \cup {"got"} :
               Turns(t, thread[t].job, stage, thread[t].io, thread[t].file)
  BY InitStepSays
<1>2. /\ Aloof(t, thread[t]) /\ Aloof(t, thread'[t]) /\ Others(t)
      /\ thread'[t].stage # "release"
      /\ \/ thread'[t].job = "idle" /\ thread'[t].io = None /\ thread'[t].file = NoFile
         \/ /\ thread'[t].job = thread[t].job /\ thread'[t].io = thread[t].io
            /\ thread'[t].file = thread[t].file
  BY <1>1 DEF Turns, Others, Aloof, InitStages, None
<1>3. \A c \in Client : IoDev[c].life = "none" =>
         thread'[t].io # c /\ thread'[t].file.client # c
  BY <1>2, AdaptersAssumption DEF ClientInv, FreshOK, NoFile, Context
<1> QED BY <1>1, <1>2, <1>3, QuietKeeps

LEMMA MPThreadKeepsClients ==
    ASSUME TypeInv, JobsOK, ClientInv, Remembers, NEW a \in Adapter, MPThreadStep(a)
    PROVE  ClientInv'
<1>1. a \in Thread /\ a \notin App
  BY Devices
<1>2. ASSUME NEW job, NEW stage, NEW io, NEW file, Turns(a, job, stage, io, file), Uncounted,
             io \in {None, thread[a].io}, file \in {NoFile, thread[a].file},
             stage # "release"
      PROVE  ClientInv'
  <2>1. /\ Aloof(a, thread[a]) /\ Aloof(a, thread'[a]) /\ Others(a)
        /\ thread'[a].stage # "release" /\ thread'[a].io = io /\ thread'[a].file = file
    BY <1>1, <1>2 DEF Turns, Others, Aloof
  <2>2. \A c \in Client : IoDev[c].life = "none" =>
           thread'[a].io # c /\ thread'[a].file.client # c
    BY <1>1, <1>2, <2>1, AdaptersAssumption DEF ClientInv, FreshOK, NoFile, Context
  <2> QED BY <1>1, <1>2, <2>1, <2>2, QuietKeeps
<1>3. None # "release" /\ "release" \notin InitStages
  BY DEF None, InitStages
<1>4. CASE StartInit(a)
  BY <1>2, <1>3, <1>4, StartInitSays
<1>5. CASE SyncPass(a) \/ SyncCount(a) \/ IdleCheck(a)
  BY <1>2, <1>3, <1>5, SyncPassSays, SyncCountSays, IdleCheckSays
<1>6. CASE IdleReset(a)
  BY <1>2, <1>6, IdleResetSays
<1>7. CASE IdleWalk(a)
  <2>1. CASE Turns(a, "idle", None, None, NoFile)
    BY <1>2, <1>3, <1>7, <2>1, IdleWalkSays
  <2>2. ASSUME NEW c \in Client, IoDev[c].life = "listed", Expired(c),
               Turns(a, "check", "release", c, NoFile)
        PROVE  ClientInv'
    <3>1. Unheld(c) \/ Excused({"aliased", "raced"})
      <4>1. CASE Excused({"aliased"})
        BY <4>1 DEF Excused
      <4>2. CASE ~Excused({"aliased"})
        <5>1. IoDev[c].DeviceOpenCount = 0 /\ IsFiniteSet(Opens(c)) /\ CountOpens(c)
          BY <2>2 DEF Expired, Unopened, ClientInv, OpensOK
        <5>2. Cardinality(Opens(c)) \in Nat
          BY <5>1, FS_CardinalityType
        <5>3. Cardinality(Opens(c)) = 0
          BY <4>2, <5>1, <5>2 DEF CountOpens
        <5>4. Opens(c) = {}
          BY <5>1, <5>3, FS_EmptySet
        <5>5. \A q \in App : thread[q].job = "close" /\ thread[q].io = c =>
                             thread[q].stage = "unlinked"
          BY <5>4, ProgramIsThread DEF Opens, JobsOK, JobOK, Closing
        <5>6. \A q \in App : thread[q].stage = "unlinked" /\ thread[q].io = c => FALSE
          BY <2>2 DEF ClientInv, UnlinkedOK
        <5>7. \A q \in App : ~(thread[q].job = "open" /\ thread[q].file.client = c)
          BY <5>4 DEF Opens
        <5> QED BY <2>2, <5>5, <5>6, <5>7 DEF Unheld, Holds
      <4> QED BY <4>1, <4>2
    <3>2. /\ Aloof(a, thread[a]) /\ Aloof(a, thread'[a]) /\ Others(a)
          /\ thread'[a].io = c /\ thread'[a].file = NoFile
      BY <1>1, <2>2 DEF Turns, Others, Aloof
    <3>3. \A e \in Client : IoDev[e].life = "none" =>
             thread'[a].io # e /\ thread'[a].file.client # e
      BY <2>2, <3>2, AdaptersAssumption DEF NoFile, Context
    <3> QED BY <1>1, <1>7, <3>1, <3>2, <3>3, IdleWalkSays, QuietKeeps
  <2> QED BY <1>7, <2>1, <2>2, IdleWalkSays
<1> QED BY <1>4, <1>5, <1>6, <1>7 DEF MPThreadStep

-----------------------------------------------------------------------------
(* Steps of a program *)

\* A program p turns from one thing to another with one client c, and writes what
\* fits where it stands with it.
Fits(p, c, job, stage, io, file, life, irpCount, openCount, acquired) ==
    /\ job # "service" /\ io \in {None, c} /\ thread[p].io \in {None, c}
    /\ file.client \in {None, c}
    /\ thread[p].job = "open" => thread[p].file.client = c \/ Excused({"aliased"})'
    /\ irpCount = IoDev[c].IrpCount + OneIf(p \in Refs(c)') - OneIf(p \in Refs(c))
    /\ \/ openCount =
             IoDev[c].DeviceOpenCount + OneIf(p \in Opens(c)') - OneIf(p \in Opens(c))
       \/ Excused({"aliased"})'
    /\ life # "none"
    /\ life = "freed" =>
          \/ Excused({"unreferenced"})'
          \/ Refs(c)' = {}
          \/ IoDev[c].life = "freed" /\ (p \in Refs(c)' => p \in Refs(c))
    /\ IoDev[c].life = "listed" => life = "listed" \/ Holds(p, c)
    /\ IoDev[c].life \in {"unlinked", "freed"} => life \in {"unlinked", "freed"}
    /\ stage = "unlinked" => io = c /\ life \in {"unlinked", "freed"}
    /\ \/ Holds(p, c)' => Holds(p, c)
       \/ Excused({"aliased"})'
       \/ /\ \A q \in App : thread[q].job = "service" => thread[q].io # c
          /\ \/ Excused({"aliased", "raced"})'
             \/ \A a \in Adapter : thread[a].stage = "release" => thread[a].io # c
    /\ acquired /\ ~IoDev[c].Acquired =>
          \A q \in App : q # p /\ thread[q].job = "service" => thread[q].io # c
    /\ job = "open" =>
          \/ Excused({"aliased"})'
          \/ /\ file.client = c
             /\ \A q \in App : q # p /\ thread[q].job = "open" => thread[q].file.client # c

LEMMA WriteKeeps ==
    ASSUME TypeInv, JobsOK, ClientInv, Remembers, NEW p \in App, NEW c \in Client,
           NEW job, NEW stage, NEW io, NEW file, Turns(p, job, stage, io, file),
           NEW life, NEW irpCount, NEW openCount, NEW acquired,
           Writes(c, life, irpCount, openCount, acquired),
           Fits(p, c, job, stage, io, file, life, irpCount, openCount, acquired)
    PROVE  ClientInv'
<1>1. p \in Thread /\ p \notin Adapter /\ None \notin Client
  BY ProgramIsThread, AdaptersAssumption DEF Context
<1>2. /\ Others(p) /\ thread'[p].job = job /\ thread'[p].stage = stage
      /\ thread'[p].io = io /\ thread'[p].file = file
  BY DEF Turns, Others
<1>3. /\ \A e \in Client : e # c => IoDev'[e] = IoDev[e]
      /\ IoDev'[c].life = life /\ IoDev'[c].IrpCount = irpCount
      /\ IoDev'[c].DeviceOpenCount = openCount /\ IoDev'[c].Acquired = acquired
  BY DEF Writes
<1>4. \A e \in Client : IoDev[e].IrpCount \in Int /\ IoDev[e].DeviceOpenCount \in Int
  BY IoDevIsTyped DEF IoDevType
<1>5. \A e \in Client : e # c => p \notin Refs(e) /\ p \notin Refs(e)'
  BY <1>1, <1>2 DEF Refs, Fits
<1>6. RefsOK'
  <2>1. \A e \in Client : IoDev'[e].IrpCount =
            IoDev[e].IrpCount + OneIf(p \in Refs(e)') - OneIf(p \in Refs(e))
    BY <1>3, <1>4, <1>5 DEF OneIf, Fits
  <2> QED BY <1>1, <1>2, <2>1, RefsMove DEF ClientInv
<1>7. OpensOK'
  <2>1. ASSUME NEW e \in Client
        PROVE  \/ IoDev'[e].DeviceOpenCount =
                     IoDev[e].DeviceOpenCount + OneIf(p \in Opens(e)') - OneIf(p \in Opens(e))
               \/ Excused({"aliased"})'
    <3>1. CASE e = c
      BY <1>3, <3>1 DEF Fits
    <3>2. CASE e # c /\ ~Excused({"aliased"})'
      <4>1. p \notin Opens(e) /\ p \notin Opens(e)'
        BY <1>1, <1>2, <3>2 DEF Opens, Fits
      <4> QED BY <1>3, <1>4, <3>2, <4>1 DEF OneIf
    <3> QED BY <3>1, <3>2
  <2> QED BY <1>1, <1>2, <2>1, OpensMove DEF ClientInv
<1>8. FreshOK'
  BY <1>1, <1>2, <1>3, FreshMove DEF ClientInv, Fits
<1>9. FreedOK'
  <2>1. ASSUME NEW e \in Client, IoDev'[e].life = "freed"
        PROVE  \/ Excused({"unreferenced"})'
               \/ Refs(e)' = {}
               \/ IoDev[e].life = "freed" /\ (p \in Refs(e)' => p \in Refs(e))
    BY <1>3, <1>5, <2>1 DEF Fits
  <2> QED BY <1>1, <1>2, <2>1, FreedMove DEF ClientInv
<1>10. \A e \in Client : Unheld(e) =>
          /\ IoDev'[e].life = "listed" /\ ~Holds(p, e)
          /\ e # c => ~Holds(p, e)' \/ Excused({"aliased"})'
  BY <1>1, <1>2, <1>3 DEF Unheld, Holds, Fits
<1>11. CheckOK'
  <2>1. Excused({"aliased"})' => Excused({"aliased", "raced"})'
    BY DEF Excused
  <2>2. \A e \in Client : Unheld(e) =>
           \/ IoDev'[e].life = "listed" /\ (p \in App => ~Holds(p, e)')
           \/ Excused({"aliased", "raced"})'
           \/ \A a \in Adapter : thread[a].stage = "release" => thread[a].io # e
    BY <1>10, <2>1 DEF Fits
  <2> QED BY <1>1, <1>2, <2>2, CheckMove DEF ClientInv
<1>12. ServiceOK'
  <2>1. \A e \in Client :
           (\E q \in App : q # p /\ thread[q].job = "service" /\ thread[q].io = e) =>
           /\ ~IoDev[e].Acquired => ~IoDev'[e].Acquired
           /\ p \in App /\ thread'[p].job = "service" => thread'[p].io # e
           /\ Unheld(e) => \/ IoDev'[e].life = "listed" /\ (p \in App => ~Holds(p, e)')
                           \/ Excused({"aliased"})'
    BY <1>2, <1>3, <1>10 DEF Fits
  <2> QED BY <1>1, <1>2, <2>1, ServiceMove DEF ClientInv, Fits
<1>13. UnlinkedOK'
  <2>1. \A e \in Client : IoDev[e].life \in {"unlinked", "freed"} =>
                          IoDev'[e].life \in {"unlinked", "freed"}
    BY <1>3 DEF Fits
  <2> QED BY <1>1, <1>2, <1>3, <2>1, UnlinkedMove DEF ClientInv, Fits
<1>14. OneFile'
  <2>1. thread'[p].job = "open" =>
           \/ Excused({"aliased"})'
           \/ \A q \in App : q # p /\ thread[q].job = "open" =>
                             thread[q].file.client # thread'[p].file.client
    BY <1>2 DEF Fits
  <2> QED BY <1>1, <1>2, <2>1, OneFileMove DEF ClientInv
<1> QED BY <1>6, <1>7, <1>8, <1>9, <1>11, <1>12, <1>13, <1>14 DEF ClientInv

\* A client that a thread works on exists.
LEMMA WorkedOnExists ==
    ASSUME ClientInv, NEW p \in App, thread[p].io \in Client
    PROVE  IoDev[thread[p].io].life # "none"
BY ProgramIsThread DEF ClientInv, FreshOK

LEMMA TurnsFields ==
    ASSUME NEW t \in Thread, NEW job, NEW stage, NEW io, NEW file,
           Turns(t, job, stage, io, file)
    PROVE  /\ thread'[t].job = job /\ thread'[t].stage = stage
           /\ thread'[t].io = io /\ thread'[t].file = file
BY DEF Turns

\* Where a program stands with the client it works on.
LEMMA Standing ==
    ASSUME TypeInv, JobsOK, NEW p \in App, NEW c \in Client
    PROVE  /\ p \in Refs(c) <=> /\ thread[p].io = c
                                /\ thread[p].stage \in {"referenced", "counted", "released", "cleared"}
           /\ p \in Refs(c)' <=> /\ thread'[p].io = c
                                 /\ thread'[p].stage \in {"referenced", "counted", "released", "cleared"}
           /\ p \in Opens(c) <=>
                 \/ thread[p].job = "open" /\ thread[p].file.client = c
                 \/ /\ thread[p].io = c
                    /\ thread[p].stage \in {"counted", "refused", "released", "cleared"}
           /\ p \in Opens(c)' <=>
                 \/ thread'[p].job = "open" /\ thread'[p].file.client = c
                 \/ /\ thread'[p].io = c
                    /\ thread'[p].stage \in {"counted", "refused", "released", "cleared"}
           /\ Holds(p, c) <=> \/ thread[p].job = "open" /\ thread[p].file.client = c
                              \/ thread[p].job = "close" /\ thread[p].io = c
           /\ Holds(p, c)' <=> \/ thread'[p].job = "open" /\ thread'[p].file.client = c
                               \/ thread'[p].job = "close" /\ thread'[p].io = c
BY DEF Refs, Opens, Holds

LEMMA ServiceGotKeepsClients ==
    ASSUME TypeInv, JobsOK, ClientInv, Remembers, NEW p \in App, ServiceGot(p)
    PROVE  ClientInv'
<1>1. PICK c \in Client : c = thread[p].io
  BY ServiceGotSays
<1>2. PICK acquired : Writes(c, IoDev[c].life, IoDev[c].IrpCount, IoDev[c].DeviceOpenCount,
                             acquired)
  BY <1>1, ServiceGotSays
<1>3. PICK job \in {"named", "idle"} : Turns(p, job, None, None, NoFile)
  BY ServiceGotSays
<1>4. /\ thread[p].job = "service" /\ thread[p].stage \in InitStages \cup {"got"}
      /\ IoDev[c].life # "none" /\ p \in Thread
      /\ IoDev[c].IrpCount \in Int /\ IoDev[c].DeviceOpenCount \in Int
  BY <1>1, ServiceGotSays, WorkedOnExists, ProgramIsThread, IoDevIsTyped
     DEF JobsOK, JobOK, IoDevType
<1>5. /\ thread'[p].job = job /\ thread'[p].stage = None /\ thread'[p].io = None
  BY <1>3, <1>4, TurnsFields
<1>6. /\ p \notin Refs(c) /\ p \notin Refs(c)' /\ p \notin Opens(c) /\ p \notin Opens(c)'
      /\ ~Holds(p, c)'
  BY <1>3, <1>4, <1>5, Standing DEF None, InitStages
<1>7. \A q \in App : q # p /\ thread[q].job = "service" => thread[q].io # c
  BY <1>1, <1>4 DEF ClientInv, ServiceOK
<1>8. Fits(p, c, job, None, None, NoFile, IoDev[c].life, IoDev[c].IrpCount,
           IoDev[c].DeviceOpenCount, acquired)
  BY <1>1, <1>4, <1>6, <1>7 DEF Fits, OneIf, NoFile, None
<1> QED BY <1>2, <1>3, <1>8, WriteKeeps

LEMMA CreateReferenceKeepsClients ==
    ASSUME TypeInv, JobsOK, ClientInv, Remembers, NEW p \in App, CreateReference(p)
    PROVE  ClientInv'
<1>1. PICK c \in Client : c = thread[p].io
  BY CreateReferenceSays
<1>2. /\ thread[p].job = "create" /\ thread[p].stage = "found" /\ p \in Thread
      /\ IoDev[c].life # "none"
      /\ IoDev[c].IrpCount \in Int /\ IoDev[c].DeviceOpenCount \in Int
  BY <1>1, CreateReferenceSays, WorkedOnExists, ProgramIsThread, IoDevIsTyped DEF IoDevType
<1>3. CASE Turns(p, "idle", None, None, NoFile) /\ Uncounted
  <2>1. /\ thread'[p].job = "idle" /\ thread'[p].stage = None /\ thread'[p].io = None
        /\ thread'[p].file = NoFile /\ Others(p) /\ p \notin Adapter
    BY <1>2, <1>3, TurnsFields, ProgramIsThread DEF Turns, Others
  <2>2. Aloof(p, thread[p]) /\ Aloof(p, thread'[p])
    BY <1>2, <2>1 DEF Aloof, None
  <2>3. \A e \in Client : thread'[p].io # e /\ thread'[p].file.client # e
    BY <2>1, AdaptersAssumption DEF NoFile, Context
  <2> QED BY <1>2, <1>3, <2>1, <2>2, <2>3, QuietKeeps
<1>4. CASE /\ Turns(p, "create", "referenced", c, NoFile)
           /\ Writes(c, IoDev[c].life, IoDev[c].IrpCount + 1, IoDev[c].DeviceOpenCount,
                     IoDev[c].Acquired)
           /\ IoDev[c].life = "freed" => "unreferenced" \in faults'
  <2>1. /\ thread'[p].job = "create" /\ thread'[p].stage = "referenced" /\ thread'[p].io = c
    BY <1>2, <1>4, TurnsFields
  <2>2. /\ p \notin Refs(c) /\ p \in Refs(c)' /\ p \notin Opens(c) /\ p \notin Opens(c)'
        /\ ~Holds(p, c)'
    BY <1>1, <1>2, <2>1, Standing
  <2>3. IoDev[c].life = "freed" => Excused({"unreferenced"})'
    BY <1>4 DEF Excused
  <2>4. Fits(p, c, "create", "referenced", c, NoFile, IoDev[c].life, IoDev[c].IrpCount + 1,
             IoDev[c].DeviceOpenCount, IoDev[c].Acquired)
    BY <1>1, <1>2, <2>2, <2>3 DEF Fits, OneIf, NoFile
  <2> QED BY <1>4, <2>4, WriteKeeps
<1> QED BY <1>1, <1>3, <1>4, CreateReferenceSays

LEMMA CreateCountKeepsClients ==
    ASSUME TypeInv, JobsOK, ClientInv, Remembers, NEW p \in App, CreateCount(p)
    PROVE  ClientInv'
<1>1. PICK c \in Client : c = thread[p].io
  BY CreateCountSays
<1>2. /\ thread[p].job = "create" /\ thread[p].stage = "referenced" /\ p \in Thread
      /\ Turns(p, "create", "counted", c, NoFile)
      /\ Writes(c, IoDev[c].life, IoDev[c].IrpCount, IoDev[c].DeviceOpenCount + 1,
                IoDev[c].Acquired)
      /\ IoDev[c].life # "none"
      /\ IoDev[c].IrpCount \in Int /\ IoDev[c].DeviceOpenCount \in Int
  BY <1>1, CreateCountSays, WorkedOnExists, ProgramIsThread, IoDevIsTyped DEF IoDevType
<1>3. thread'[p].job = "create" /\ thread'[p].stage = "counted" /\ thread'[p].io = c
  BY <1>2, TurnsFields
<1>4. /\ p \in Refs(c) /\ p \in Refs(c)' /\ p \notin Opens(c) /\ p \in Opens(c)'
      /\ ~Holds(p, c)'
  BY <1>1, <1>2, <1>3, Standing
<1>5. Fits(p, c, "create", "counted", c, NoFile, IoDev[c].life, IoDev[c].IrpCount,
           IoDev[c].DeviceOpenCount + 1, IoDev[c].Acquired)
  BY <1>1, <1>2, <1>4 DEF Fits, OneIf, NoFile
<1> QED BY <1>2, <1>5, WriteKeeps

LEMMA CreateUndoKeepsClients ==
    ASSUME TypeInv, JobsOK, ClientInv, Remembers, NEW p \in App, CreateUndo(p)
    PROVE  ClientInv'
<1>1. PICK c \in Client : c = thread[p].io
  BY CreateUndoSays
<1>2. /\ thread[p].job = "create" /\ thread[p].stage = "refused" /\ p \in Thread
      /\ Turns(p, "idle", None, None, NoFile)
      /\ Writes(c, IoDev[c].life, IoDev[c].IrpCount, IoDev[c].DeviceOpenCount - 1,
                IoDev[c].Acquired)
      /\ IoDev[c].life # "none"
      /\ IoDev[c].IrpCount \in Int /\ IoDev[c].DeviceOpenCount \in Int
  BY <1>1, CreateUndoSays, WorkedOnExists, ProgramIsThread, IoDevIsTyped DEF IoDevType
<1>3. thread'[p].job = "idle" /\ thread'[p].stage = None /\ thread'[p].io = None
  BY <1>2, TurnsFields
<1>4. /\ p \notin Refs(c) /\ p \notin Refs(c)' /\ p \in Opens(c) /\ p \notin Opens(c)'
      /\ ~Holds(p, c)'
  BY <1>1, <1>2, <1>3, Standing DEF None
<1>5. Fits(p, c, "idle", None, None, NoFile, IoDev[c].life, IoDev[c].IrpCount,
           IoDev[c].DeviceOpenCount - 1, IoDev[c].Acquired)
  BY <1>1, <1>2, <1>4 DEF Fits, OneIf, NoFile, None
<1> QED BY <1>2, <1>5, WriteKeeps

LEMMA CloseClearKeepsClients ==
    ASSUME TypeInv, JobsOK, ClientInv, Remembers, NEW p \in App, CloseClear(p)
    PROVE  ClientInv'
<1>1. PICK c \in Client : c = thread[p].io
  BY CloseClearSays
<1>2. /\ thread[p].job = "close" /\ thread[p].stage = "released" /\ p \in Thread
      /\ Turns(p, "close", "cleared", c, NoFile)
      /\ Writes(c, IoDev[c].life, IoDev[c].IrpCount, IoDev[c].DeviceOpenCount, FALSE)
      /\ IoDev[c].life # "none"
      /\ IoDev[c].IrpCount \in Int /\ IoDev[c].DeviceOpenCount \in Int
  BY <1>1, CloseClearSays, WorkedOnExists, ProgramIsThread, IoDevIsTyped DEF IoDevType
<1>3. thread'[p].job = "close" /\ thread'[p].stage = "cleared" /\ thread'[p].io = c
  BY <1>2, TurnsFields
<1>4. /\ p \in Refs(c) /\ p \in Refs(c)' /\ p \in Opens(c) /\ p \in Opens(c)'
      /\ Holds(p, c)
  BY <1>1, <1>2, <1>3, Standing
<1>5. Fits(p, c, "close", "cleared", c, NoFile, IoDev[c].life, IoDev[c].IrpCount,
           IoDev[c].DeviceOpenCount, FALSE)
  BY <1>1, <1>2, <1>4 DEF Fits, OneIf, NoFile
<1> QED BY <1>2, <1>5, WriteKeeps

LEMMA CloseFreeKeepsClients ==
    ASSUME TypeInv, JobsOK, ClientInv, Remembers, NEW p \in App, CloseFree(p)
    PROVE  ClientInv'
<1>1. PICK c \in Client : c = thread[p].io
  BY CloseFreeSays
<1>2. /\ thread[p].job = "close" /\ thread[p].stage = "unlinked" /\ p \in Thread
      /\ Turns(p, "idle", None, None, NoFile) /\ NotInUse(c)
      /\ Writes(c, "freed", IoDev[c].IrpCount, IoDev[c].DeviceOpenCount, IoDev[c].Acquired)
      /\ IoDev[c].life # "none"
      /\ IoDev[c].IrpCount \in Int /\ IoDev[c].DeviceOpenCount \in Int
  BY <1>1, CloseFreeSays, WorkedOnExists, ProgramIsThread, IoDevIsTyped DEF IoDevType
<1>3. thread'[p].job = "idle" /\ thread'[p].stage = None /\ thread'[p].io = None
  BY <1>2, TurnsFields
<1>4. /\ p \notin Refs(c) /\ p \notin Refs(c)' /\ p \notin Opens(c) /\ p \notin Opens(c)'
      /\ Holds(p, c) /\ ~Holds(p, c)'
  BY <1>1, <1>2, <1>3, Standing DEF None
<1>5. Refs(c)' = {}
  <2>1. Cardinality(Refs(c)) = 0 /\ IsFiniteSet(Refs(c))
    BY <1>2 DEF NotInUse, ClientInv, RefsOK
  <2>2. Refs(c) = {}
    BY <2>1, FS_EmptySet
  <2>3. Refs(c)' \subseteq Refs(c)
    BY <1>2, <1>4, ProgramIsThread DEF Refs, Turns
  <2> QED BY <2>2, <2>3
<1>6. Fits(p, c, "idle", None, None, NoFile, "freed", IoDev[c].IrpCount,
           IoDev[c].DeviceOpenCount, IoDev[c].Acquired)
  BY <1>1, <1>2, <1>4, <1>5 DEF Fits, OneIf, NoFile, None
<1> QED BY <1>2, <1>6, WriteKeeps

\* A program that counts as the only one has the client to itself.
LEMMA OnlyOne ==
    ASSUME TypeInv, ClientInv, NEW c \in Client, NEW p \in Opens(c),
           IoDev[c].DeviceOpenCount = 1, ~Excused({"aliased"})
    PROVE  \A q \in Opens(c) : q = p
<1>1. IsFiniteSet(Opens(c)) /\ CountOpens(c)
  BY DEF ClientInv, OpensOK
<1>2. IsFiniteSet(Opens(c) \ {p}) /\ Cardinality(Opens(c) \ {p}) = Cardinality(Opens(c)) - 1
  BY <1>1, FS_RemoveElement
<1>3. Cardinality(Opens(c)) \in Nat /\ Cardinality(Opens(c) \ {p}) \in Nat
  BY <1>1, <1>2, FS_CardinalityType
<1>4. Cardinality(Opens(c) \ {p}) = 0
  BY <1>1, <1>2, <1>3 DEF CountOpens
<1>5. Opens(c) \ {p} = {}
  BY <1>2, <1>4, FS_EmptySet
<1> QED BY <1>5

LEMMA CreateDecideKeepsClients ==
    ASSUME TypeInv, JobsOK, ClientInv, Remembers, NEW p \in App, CreateDecide(p)
    PROVE  ClientInv'
<1>1. PICK c \in Client : c = thread[p].io
  BY CreateDecideSays
<1>2. /\ thread[p].job = "create" /\ thread[p].stage = "counted" /\ p \in Thread
      /\ Writes(c, IoDev[c].life, IoDev[c].IrpCount - 1, IoDev[c].DeviceOpenCount,
                IoDev[c].Acquired)
      /\ IoDev[c].life # "none"
      /\ IoDev[c].IrpCount \in Int /\ IoDev[c].DeviceOpenCount \in Int
  BY <1>1, CreateDecideSays, WorkedOnExists, ProgramIsThread, IoDevIsTyped DEF IoDevType
<1>3. CASE Turns(p, "create", "refused", c, NoFile)
  <2>1. thread'[p].job = "create" /\ thread'[p].stage = "refused" /\ thread'[p].io = c
    BY <1>2, <1>3, TurnsFields
  <2>2. /\ p \in Refs(c) /\ p \notin Refs(c)' /\ p \in Opens(c) /\ p \in Opens(c)'
        /\ ~Holds(p, c)'
    BY <1>1, <1>2, <2>1, Standing
  <2>3. Fits(p, c, "create", "refused", c, NoFile, IoDev[c].life, IoDev[c].IrpCount - 1,
             IoDev[c].DeviceOpenCount, IoDev[c].Acquired)
    BY <1>1, <1>2, <2>2 DEF Fits, OneIf, NoFile
  <2> QED BY <1>2, <1>3, <2>3, WriteKeeps
<1>4. ASSUME NEW id, Turns(p, "open", None, None, [context |-> id, client |-> c]), MayOpen(c),
             \A a \in Adapter : thread[a].job = "check" /\ thread[a].io = c
                                => "raced" \in faults'
      PROVE  ClientInv'
  <2> DEFINE file == [context |-> id, client |-> c]
  <2>1. /\ thread'[p].job = "open" /\ thread'[p].stage = None /\ thread'[p].io = None
        /\ thread'[p].file = file /\ file.client = c
    BY <1>2, <1>4, TurnsFields
  <2>2. /\ p \in Refs(c) /\ p \notin Refs(c)' /\ p \in Opens(c) /\ p \in Opens(c)'
    BY <1>1, <1>2, <2>1, Standing DEF None
  <2>3. \A q \in App : thread[q].job = "service" => thread[q].io # c
    BY <1>4 DEF MayOpen, ClientInv, ServiceOK
  <2>4. Excused({"aliased", "raced"})'
        \/ \A a \in Adapter : thread[a].stage = "release" => thread[a].io # c
    <3>1. ASSUME NEW a \in Adapter, thread[a].stage = "release" PROVE thread[a].job = "check"
      <4>1. a \in Thread /\ a \notin App /\ JobOK(a, thread[a]) /\ thread[a] \in ThreadType
        BY Devices, ThreadIsTyped DEF JobsOK
      <4> QED BY <3>1, <4>1 DEF JobOK, ThreadType, Jobs, InitStages, None
    <3>2. CASE "raced" \in faults'
      BY <3>2 DEF Excused
    <3> QED BY <1>4, <3>1, <3>2
  <2>5. Excused({"aliased"})'
        \/ \A q \in App : q # p /\ thread[q].job = "open" => thread[q].file.client # c
    <3>1. CASE Excused({"aliased"})
      BY <3>1, ExcusesStay
    <3>2. CASE ~Excused({"aliased"})
      <4>1. \A q \in Opens(c) : q = p
        BY <1>4, <2>2, <3>2, OnlyOne DEF MayOpen
      <4> QED BY <4>1 DEF Opens
    <3> QED BY <3>1, <3>2
  <2> HIDE DEF file
  <2>6. Fits(p, c, "open", None, None, file, IoDev[c].life, IoDev[c].IrpCount - 1,
             IoDev[c].DeviceOpenCount, IoDev[c].Acquired)
    BY <1>1, <1>2, <2>1, <2>2, <2>3, <2>4, <2>5 DEF Fits, OneIf, None
  <2>7. Turns(p, "open", None, None, file)
    BY <1>4 DEF file
  <2> QED BY <1>2, <2>6, <2>7, WriteKeeps
<1> QED BY <1>1, <1>3, <1>4, CreateDecideSays

LEMMA CloseFindKeepsClients ==
    ASSUME TypeInv, JobsOK, ClientInv, Remembers, NEW p \in App, CloseFind(p)
    PROVE  ClientInv'
<1>1. /\ thread[p].job = "open" /\ thread[p].stage = None /\ thread[p].io = None
      /\ p \in Thread /\ p \notin Adapter
  BY CloseFindSays, ProgramIsThread DEF JobsOK, JobOK
<1>2. CASE Turns(p, "idle", None, None, NoFile) /\ Uncounted /\ "orphaned" \in faults'
  <2>1. /\ thread'[p].job = "idle" /\ thread'[p].stage = None /\ thread'[p].io = None
        /\ thread'[p].file = NoFile /\ Others(p)
    BY <1>1, <1>2, TurnsFields DEF Turns, Others
  <2>2. \A c \in Client : /\ p \notin Refs(c) /\ p \notin Refs(c)' /\ p \notin Opens(c)'
                          /\ ~Holds(p, c)'
    BY <1>1, <2>1, Standing DEF None
  <2>3. \A c \in Client :
           /\ IoDev'[c].life = IoDev[c].life /\ IoDev'[c].IrpCount = IoDev[c].IrpCount
           /\ IoDev'[c].DeviceOpenCount = IoDev[c].DeviceOpenCount
           /\ IoDev'[c].Acquired => IoDev[c].Acquired
           /\ IoDev[c].IrpCount \in Int /\ IoDev[c].DeviceOpenCount \in Int
    BY <1>2, IoDevIsTyped DEF Uncounted, IoDevType
  <2>4. Excused({"orphaned"})'
    BY <1>2 DEF Excused
  <2>5. RefsOK'
    <3>1. \A c \in Client : IoDev'[c].IrpCount =
              IoDev[c].IrpCount + OneIf(p \in Refs(c)') - OneIf(p \in Refs(c))
      BY <2>2, <2>3 DEF OneIf
    <3> QED BY <1>1, <2>1, <3>1, RefsMove DEF ClientInv
  <2>6. OpensOK'
    BY <1>1, <2>1, <2>2, <2>3, <2>4, OpensMove DEF ClientInv
  <2>7. FreshOK'
    BY <1>1, <2>1, <2>3, FreshMove, AdaptersAssumption DEF ClientInv, NoFile, Context
  <2>8. FreedOK'
    BY <1>1, <2>1, <2>2, <2>3, FreedMove DEF ClientInv
  <2>9. \A c \in Client : Unheld(c) => IoDev'[c].life = "listed"
    BY <2>3 DEF Unheld
  <2>10. CheckOK'
    BY <1>1, <2>1, <2>2, <2>9, CheckMove DEF ClientInv
  <2>11. ServiceOK'
    BY <1>1, <2>1, <2>2, <2>3, <2>9, ServiceMove DEF ClientInv
  <2>12. UnlinkedOK'
    BY <1>1, <2>1, <2>3, UnlinkedMove DEF ClientInv, None
  <2>13. OneFile'
    BY <1>1, <2>1, OneFileMove DEF ClientInv
  <2> QED BY <2>5, <2>6, <2>7, <2>8, <2>10, <2>11, <2>12, <2>13 DEF ClientInv
<1>3. ASSUME NEW c \in Client, IoDev[c].life = "listed",
             Turns(p, "close", "released", c, NoFile),
             Writes(c, IoDev[c].life, IoDev[c].IrpCount + 1, IoDev[c].DeviceOpenCount,
                    IoDev[c].Acquired),
             c # thread[p].file.client => "aliased" \in faults'
      PROVE  ClientInv'
  <2>1. thread'[p].job = "close" /\ thread'[p].stage = "released" /\ thread'[p].io = c
    BY <1>1, <1>3, TurnsFields
  <2>2. IoDev[c].IrpCount \in Int /\ IoDev[c].DeviceOpenCount \in Int
    BY IoDevIsTyped DEF IoDevType
  <2>3. /\ p \notin Refs(c) /\ p \in Refs(c)' /\ p \in Opens(c)' /\ Holds(p, c)'
        /\ (p \in Opens(c) /\ Holds(p, c)) \/ Excused({"aliased"})'
    <3>1. "aliased" \in faults' => Excused({"aliased"})'
      BY DEF Excused
    <3> QED BY <1>1, <1>3, <2>1, <3>1, Standing DEF None
  <2>4. thread[p].file.client = c \/ Excused({"aliased"})'
    BY <1>3 DEF Excused
  <2>5. Fits(p, c, "close", "released", c, NoFile, IoDev[c].life, IoDev[c].IrpCount + 1,
             IoDev[c].DeviceOpenCount, IoDev[c].Acquired)
    BY <1>1, <1>3, <2>2, <2>3, <2>4 DEF Fits, OneIf, NoFile
  <2> QED BY <1>3, <2>5, WriteKeeps
<1> QED BY <1>2, <1>3, CloseFindSays

LEMMA CloseCountKeepsClients ==
    ASSUME TypeInv, JobsOK, ClientInv, Remembers, NEW p \in App, CloseCount(p)
    PROVE  ClientInv'
<1>1. PICK c \in Client : c = thread[p].io
  BY CloseCountSays
<1> DEFINE open == Lower(IoDev[c].DeviceOpenCount)
<1>2. /\ thread[p].job = "close" /\ thread[p].stage = "cleared" /\ p \in Thread
      /\ IoDev[c].life \in {"listed", "unlinked", "freed"}
      /\ IoDev[c].IrpCount \in Int /\ IoDev[c].DeviceOpenCount \in Int
  BY <1>1, CloseCountSays, WorkedOnExists, ProgramIsThread, IoDevIsTyped DEF IoDevType
<1>3. p \in Refs(c) /\ p \in Opens(c) /\ Holds(p, c)
  BY <1>1, <1>2, Standing
<1>4. open = IoDev[c].DeviceOpenCount - 1 \/ Excused({"aliased"})'
  <2>1. CASE Excused({"aliased"})
    BY <2>1, ExcusesStay
  <2>2. CASE ~Excused({"aliased"})
    <3>1. IsFiniteSet(Opens(c)) /\ CountOpens(c)
      BY DEF ClientInv, OpensOK
    <3>2. Cardinality(Opens(c)) \in Nat /\ Cardinality(Opens(c)) # 0
      BY <1>3, <3>1, FS_CardinalityType, FS_EmptySet
    <3>3. IoDev[c].DeviceOpenCount > 0
      BY <1>2, <2>2, <3>1, <3>2 DEF CountOpens
    <3> QED BY <3>3 DEF Lower
  <2> QED BY <2>1, <2>2
<1> HIDE DEF open
<1>5. CASE /\ Turns(p, "idle", None, None, NoFile)
           /\ Writes(c, IoDev[c].life, IoDev[c].IrpCount - 1, open, IoDev[c].Acquired)
  <2>1. thread'[p].job = "idle" /\ thread'[p].stage = None /\ thread'[p].io = None
    BY <1>2, <1>5, TurnsFields
  <2>2. p \notin Refs(c)' /\ p \notin Opens(c)' /\ ~Holds(p, c)'
    BY <2>1, Standing DEF None
  <2>3. Fits(p, c, "idle", None, None, NoFile, IoDev[c].life, IoDev[c].IrpCount - 1, open,
             IoDev[c].Acquired)
    BY <1>1, <1>2, <1>3, <1>4, <2>2 DEF Fits, OneIf, NoFile, None
  <2> QED BY <1>5, <2>3, WriteKeeps
<1>6. CASE /\ Turns(p, "close", "unlinked", c, NoFile)
           /\ Writes(c, IF IoDev[c].life = "listed" THEN "unlinked" ELSE IoDev[c].life,
                     IoDev[c].IrpCount - 1, open, IoDev[c].Acquired)
  <2> DEFINE life == IF IoDev[c].life = "listed" THEN "unlinked" ELSE IoDev[c].life
  <2>1. thread'[p].job = "close" /\ thread'[p].stage = "unlinked" /\ thread'[p].io = c
    BY <1>2, <1>6, TurnsFields
  <2>2. p \notin Refs(c)' /\ p \notin Opens(c)'
    BY <2>1, Standing
  <2>3. life \in {"unlinked", "freed"} /\ (life = "freed" => IoDev[c].life = "freed")
    BY <1>2
  <2> HIDE DEF life
  <2>4. Fits(p, c, "close", "unlinked", c, NoFile, life, IoDev[c].IrpCount - 1, open,
             IoDev[c].Acquired)
    BY <1>1, <1>2, <1>3, <1>4, <2>2, <2>3 DEF Fits, OneIf, NoFile
  <2>5. Writes(c, life, IoDev[c].IrpCount - 1, open, IoDev[c].Acquired)
    BY <1>6 DEF life
  <2> QED BY <1>6, <2>4, <2>5, WriteKeeps
<1> QED BY <1>1, <1>5, <1>6, CloseCountSays DEF open

LEMMA CreateFindKeepsClients ==
    ASSUME TypeInv, JobsOK, ClientInv, Remembers, NEW p \in App, CreateFind(p)
    PROVE  ClientInv'
<1>1. /\ thread[p].job = "named" /\ thread[p].stage = None /\ p \in Thread /\ p \notin Adapter
      /\ Uncounted
  BY CreateFindSays, ProgramIsThread DEF JobsOK, JobOK
<1>2. ASSUME NEW job \in {"idle", "create"}, NEW stage \in {None, "found"}, NEW io,
             Turns(p, job, stage, io, NoFile),
             io = None \/ (io \in Client /\ IoDev[io].life = "listed")
      PROVE  ClientInv'
  <2>1. /\ thread'[p].job = job /\ thread'[p].stage = stage /\ thread'[p].io = io
        /\ thread'[p].file = NoFile /\ Others(p)
    BY <1>1, <1>2, TurnsFields DEF Turns, Others
  <2>2. Aloof(p, thread[p]) /\ Aloof(p, thread'[p])
    BY <1>1, <1>2, <2>1 DEF Aloof, None
  <2>3. \A e \in Client : IoDev[e].life = "none" =>
           thread'[p].io # e /\ thread'[p].file.client # e
    BY <1>2, <2>1, AdaptersAssumption DEF NoFile, Context
  <2> QED BY <1>1, <1>2, <2>1, <2>2, <2>3, QuietKeeps
<1>3. CASE Turns(p, "idle", None, None, NoFile)
  BY <1>2, <1>3
<1>4. CASE \E c \in Client : IoDev[c].life = "listed" /\ Turns(p, "create", "found", c, NoFile)
  BY <1>2, <1>4
<1> QED BY <1>3, <1>4, CreateFindSays

\* A new record is nobody's yet.
LEMMA ServiceFileKeepsClients ==
    ASSUME TypeInv, JobsOK, ClientInv, Remembers, NEW p \in App, ServiceFile(p)
    PROVE  ClientInv'
<1>1. /\ thread[p].job = "idle" /\ p \in Thread /\ p \notin Adapter
  BY ProgramIsThread DEF ServiceFile, At
<1>2. PICK c \in Client :
        /\ IoDev[c].life = "none" /\ Writes(c, "listed", 0, 0, FALSE)
        /\ \/ Turns(p, "idle", None, None, NoFile)
           \/ \E stage \in InitStages \cup {"got"} : Turns(p, "service", stage, c, NoFile)
  BY ServiceFileSays
<1>3. /\ Others(p) /\ thread'[p].file = NoFile /\ thread'[p].stage \notin Closing
      /\ \/ thread'[p].job = "idle" /\ thread'[p].stage = None /\ thread'[p].io = None
         \/ /\ thread'[p].job = "service" /\ thread'[p].io = c
            /\ thread'[p].stage \in InitStages \cup {"got"}
  BY <1>1, <1>2, TurnsFields DEF Turns, Others, InitStages, Closing, None
<1>4. \A e \in Client : /\ p \notin Refs(e)' /\ p \notin Opens(e)' /\ ~Holds(p, e)'
                        /\ p \notin Refs(e) /\ p \notin Opens(e)
  <2>1. thread[p].stage = None
    BY <1>1 DEF JobsOK, JobOK
  <2> QED BY <1>1, <1>3, <2>1, Standing DEF InitStages, None
<1>5. \A t \in Thread : thread[t].io # c /\ thread[t].file.client # c
  BY <1>2 DEF ClientInv, FreshOK
<1>6. /\ \A e \in Client : e # c => IoDev'[e] = IoDev[e]
      /\ IoDev'[c].life = "listed" /\ IoDev'[c].IrpCount = 0
      /\ IoDev'[c].DeviceOpenCount = 0 /\ IoDev'[c].Acquired = FALSE
      /\ \A e \in Client : IoDev[e].IrpCount \in Int /\ IoDev[e].DeviceOpenCount \in Int
  BY <1>2, IoDevIsTyped DEF Writes, IoDevType
<1>7. Refs(c) = {} /\ Opens(c) = {} /\ Refs(c)' = {} /\ Opens(c)' = {}
  <2>1. Refs(c) = {} /\ Opens(c) = {}
    BY <1>5, ProgramIsThread DEF Refs, Opens
  <2>2. Refs(c)' \subseteq Refs(c) /\ Opens(c)' \subseteq Opens(c)
    BY <1>3, <1>4 DEF Refs, Opens, Others, Thread
  <2> QED BY <2>1, <2>2
<1>8. RefsOK'
  <2>1. IoDev[c].IrpCount = 0
    BY <1>7, FS_EmptySet DEF ClientInv, RefsOK
  <2>2. \A e \in Client : IoDev'[e].IrpCount =
            IoDev[e].IrpCount + OneIf(p \in Refs(e)') - OneIf(p \in Refs(e))
    BY <1>4, <1>6, <2>1 DEF OneIf
  <2> QED BY <1>1, <1>3, <2>2, RefsMove DEF ClientInv
<1>9. OpensOK'
  <2>1. Cardinality({}) = 0 /\ IsFiniteSet({})
    BY FS_EmptySet
  <2>2. ASSUME NEW e \in Client PROVE (IsFiniteSet(Opens(e)) /\ CountOpens(e))'
    <3>1. CASE e = c
      BY <1>6, <1>7, <2>1, <3>1 DEF CountOpens
    <3>2. CASE e # c
      <4>1. Opens(e)' = Opens(e)
        BY <1>3, <1>4 DEF Opens, Others, Thread
      <4>2. IsFiniteSet(Opens(e)) /\ CountOpens(e) /\ IoDev'[e] = IoDev[e]
        BY <1>6, <3>2 DEF ClientInv, OpensOK
      <4>3. /\ Excused({"aliased"}) => Excused({"aliased"})'
            /\ Excused({"orphaned"}) => Excused({"orphaned"})'
        BY ExcusesStay
      <4> QED BY <4>1, <4>2, <4>3 DEF CountOpens
    <3> QED BY <3>1, <3>2
  <2> QED BY <2>2 DEF OpensOK
<1>10. FreshOK'
  BY <1>1, <1>3, <1>6, FreshMove, AdaptersAssumption DEF ClientInv, NoFile, Context
<1>11. FreedOK'
  BY <1>1, <1>3, <1>4, <1>6, FreedMove DEF ClientInv
<1>12. \A e \in Client : Unheld(e) => IoDev'[e].life = "listed"
  BY <1>6 DEF Unheld
<1>13. CheckOK'
  BY <1>1, <1>3, <1>4, <1>12, CheckMove DEF ClientInv
<1>14. Unheld(c)'
  <2>1. \A q \in App : q # p => ~Holds(q, c)'
    BY <1>3, <1>5, ProgramIsThread DEF Holds, Others
  <2> QED BY <1>4, <1>6, <2>1 DEF Unheld
<1>15. ServiceOK'
  <2>1. (thread[p].job = "service" =>
             /\ ~IoDev[thread[p].io].Acquired
             /\ Unheld(thread[p].io) \/ Excused({"aliased"}))'
    <3>1. ASSUME thread'[p].job = "service"
          PROVE  (/\ ~IoDev[thread[p].io].Acquired
                  /\ Unheld(thread[p].io) \/ Excused({"aliased"}))'
      <4>1. c = thread'[p].io /\ ~IoDev'[c].Acquired
        BY <1>3, <1>6, <3>1
      <4> QED BY <1>14, <4>1
    <3> QED BY <3>1
  <2>2. \A e \in Client :
           (\E q \in App : q # p /\ thread[q].job = "service" /\ thread[q].io = e) =>
           /\ ~IoDev[e].Acquired => ~IoDev'[e].Acquired
           /\ p \in App /\ thread'[p].job = "service" => thread'[p].io # e
           /\ Unheld(e) => \/ IoDev'[e].life = "listed" /\ (p \in App => ~Holds(p, e)')
                           \/ Excused({"aliased"})'
    BY <1>3, <1>4, <1>5, <1>6, <1>12, ProgramIsThread
  <2> QED BY <1>1, <1>3, <2>1, <2>2, ServiceMove DEF ClientInv
<1>16. UnlinkedOK'
  <2>1. \A e \in Client : IoDev[e].life \in {"unlinked", "freed"} =>
                          IoDev'[e].life \in {"unlinked", "freed"}
    BY <1>2, <1>6
  <2> QED BY <1>1, <1>3, <2>1, UnlinkedMove DEF ClientInv, Closing
<1>17. OneFile'
  BY <1>1, <1>3, OneFileMove DEF ClientInv
<1> QED BY <1>8, <1>9, <1>10, <1>11, <1>13, <1>15, <1>16, <1>17 DEF ClientInv

LEMMA ProgramKeepsClients ==
    ASSUME TypeInv, JobsOK, ClientInv, Remembers, NEW p \in App, ProgramStep(p)
    PROVE  ClientInv'
BY ServiceFileKeepsClients, ServiceGotKeepsClients, CreateFindKeepsClients,
   CreateReferenceKeepsClients, CreateCountKeepsClients, CreateDecideKeepsClients,
   CreateUndoKeepsClients, CloseFindKeepsClients, CloseClearKeepsClients,
   CloseCountKeepsClients, CloseFreeKeepsClients DEF ProgramStep

LEMMA NextClients ==
    ASSUME TypeInv, JobsOK, ClientInv, [Next]_vars
    PROVE  ClientInv'
<1>1. Remembers
  BY NextRemembers
<1>2. ASSUME UNCHANGED thread, Uncounted PROVE ClientInv'
  <2>1. \A t \in Thread : SameWork(thread[t], thread'[t])
    BY <1>2 DEF SameWork
  <2> QED BY <1>1, <1>2, <2>1, SameWorkKeeps
<1>3. CASE TransactionStep
  BY <1>1, <1>3, TransactionSays, SameWorkKeeps
<1>4. CASE \E t \in Thread : InitStep(t)
  BY <1>1, <1>4, InitStepKeepsClients
<1>5. CASE \E a \in Adapter : MPThreadStep(a)
  BY <1>1, <1>5, MPThreadKeepsClients
<1>6. CASE \E a \in Adapter : InitWanted(a)
  BY <1>2, <1>6 DEF InitWanted, ids, Uncounted
<1>7. CASE \E d \in Device : LinkDown(d)
  <2>1. Uncounted
    BY <1>7, IoDevIsTyped DEF LinkDown, Disconnect, Uncounted, IoDevType
  <2> QED BY <1>2, <1>7, <2>1 DEF LinkDown
<1>8. CASE \E p \in App : ProgramStep(p)
  BY <1>1, <1>8, ProgramKeepsClients
<1>9. CASE UNCHANGED vars
  BY <1>2, <1>9 DEF vars, tvars, ids, Uncounted
<1> QED BY <1>3, <1>4, <1>5, <1>6, <1>7, <1>8, <1>9 DEF Next

LEMMA InitClients ==
    ASSUME Init
    PROVE  JobsOK /\ ClientInv
<1>1. /\ \A t \in Thread : thread[t] = IdleThread("idle")
      /\ \A c \in Client : IoDev[c] = NewIoDev
  BY DEF Init, Begin
<1>2. \A t \in Thread : /\ thread[t].job = "idle" /\ thread[t].stage = None
                        /\ thread[t].io = None /\ thread[t].file = NoFile
  BY <1>1, IdleFields
<1>3. \A p \in App : p \in Thread
  BY ProgramIsThread
<1>4. \A a \in Adapter : a \in Thread
  BY Devices
<1>5. JobsOK
  BY <1>1, IdleJob DEF JobsOK
<1>6. \A c \in Client : /\ IoDev[c].life = "none" /\ IoDev[c].IrpCount = 0
                        /\ IoDev[c].DeviceOpenCount = 0
                        /\ Refs(c) = {} /\ Opens(c) = {}
  BY <1>1, <1>2, <1>3 DEF NewIoDev, Refs, Opens, None
<1>7. RefsOK /\ OpensOK
  BY <1>6, FS_EmptySet DEF RefsOK, OpensOK, CountOpens
<1>8. FreshOK
  BY <1>2, AdaptersAssumption DEF FreshOK, NoFile, Context
<1>9. FreedOK
  BY <1>6 DEF FreedOK
<1>10. ServiceOK /\ CheckOK /\ UnlinkedOK /\ OneFile
  BY <1>2, <1>3, <1>4 DEF ServiceOK, CheckOK, UnlinkedOK, OneFile, None
<1> QED BY <1>5, <1>7, <1>8, <1>9, <1>10 DEF ClientInv

LEMMA ClientsInvariant == Spec => [](TypeInv /\ JobsOK /\ ClientInv)
<1>1. Init => TypeInv /\ JobsOK /\ ClientInv
  BY InitType, InitClients
<1>2. TypeInv /\ JobsOK /\ ClientInv /\ [Next]_vars => (TypeInv /\ JobsOK /\ ClientInv)'
  BY NextKeeps, NextJobs, NextClients
<1> QED BY <1>1, <1>2, PTL DEF Spec

\* However many programs open and close the clients of a control device, however
\* their counts, decisions and releases interleave with each other, with the idle
\* checks of all adapters and with answers, a client has one file at most and its
\* open count is that of the programs at it, until a close finds another file's
\* client or none (MPIOC_FindIoDevice, IRP_MJ_CREATE and IRP_MJ_CLOSE).
THEOREM CountsFollowOpens == Spec => []OpensAreCounted
<1>1. TypeInv /\ JobsOK /\ ClientInv => OpensAreCounted
  <2> SUFFICES ASSUME ClientInv PROVE OneFile /\ OpenCounts
    BY DEF OpensAreCounted
  <2>1. \A c \in Client : /\ CountOpens(c)
                          /\ Excused({"aliased"}) => Excused({"aliased", "orphaned"})
                          /\ Excused({"orphaned"}) => Excused({"aliased", "orphaned"})
    BY DEF ClientInv, OpensOK, Excused
  <2> QED BY <2>1 DEF ClientInv, CountOpens, OpenCounts
<1> QED BY <1>1, ClientsInvariant, PTL

-----------------------------------------------------------------------------
(* Items and the calls they belong to *)

\* The items whose answers are being handled; requests and answers on their way.
Held == UNION {{h.item : h \in inbound[d]} : d \in Device}
Sent(n, kind) ==
    \/ \E r \in irps : r.message.serial = n /\ r.message.kind = kind
    \/ \E d \in Device : \E i \in 1 .. Len(devices[d].outbox) :
          devices[d].outbox[i].serial = n /\ devices[d].outbox[i].kind = kind
    \/ \E d \in Device : \E h \in inbound[d] :
          h.message.serial = n /\ h.message.kind = kind
Awaits(i, t) ==
    /\ InCall(t) /\ thread[t].serial = i.serial /\ thread[t].tid = i.tid
    /\ thread[t].adapter = i.adapter /\ thread[t].context = i.context

\* Requests are told apart by their numbers.
SerialsOK ==
    /\ \A i \in transactions \cup Held : i.serial <= serial
    /\ \A n \in Nat, kind \in Kinds : Sent(n, kind) => n <= serial
    /\ \A t \in Thread : InCall(t) => thread[t].serial \in 1 .. serial
    /\ \A t, u \in Thread :
          InCall(t) /\ InCall(u) /\ thread[t].serial = thread[u].serial => t = u
ItemsDiffer ==
    /\ \A i, j \in transactions : i.serial = j.serial => i = j
    /\ \A i \in transactions, j \in Held : i.serial # j.serial
    /\ \A d, e \in Device : \A h \in inbound[d], k \in inbound[e] :
          h.item.serial = k.item.serial => d = e /\ h = k
OwnItemOK ==
    \A i \in transactions \cup Held, t \in Thread :
        InCall(t) /\ thread[t].serial = i.serial => Awaits(i, t)
KindsOK ==
    \A t \in Thread, kind \in Kinds :
        InCall(t) /\ Sent(thread[t].serial, kind) => kind = thread[t].kind

\* As long as calls and answers keep to their order,
Orderly == ~Excused(MixedUp \cup {"overtaken", "shared"})
\* an item belongs to a call that waits, or nothing that could meet it is left,
ItemsOK ==
    Orderly => \A i \in transactions :
        \/ \E t \in Thread : Awaits(i, t)
        \/ "mistaken" \in faults /\ \A kind \in Kinds : ~Sent(i.serial, kind)
\* so does an item whose answer is being handled,
HeldOK == Orderly => \A i \in Held : \E t \in Thread : Awaits(i, t)
\* an event that is set is that of a call whose item is gone,
SignalsOK ==
    Orderly => \A e \in received : \E t \in Thread :
        /\ InCall(t) /\ Event(t) = e
        /\ \A i \in transactions \cup Held : i.serial # thread[t].serial
\* and no two calls wait for the same event.
UnsharedOK ==
    Orderly => \A t, u \in Thread : InCall(t) /\ InCall(u) /\ Event(t) = Event(u) => t = u

ItemsInv ==
    /\ SerialsOK /\ ItemsDiffer /\ OwnItemOK /\ KindsOK
    /\ ItemsOK /\ HeldOK /\ SignalsOK /\ UnsharedOK

LEMMA OrderlyBefore ==
    ASSUME Remembers, Orderly'
    PROVE  Orderly
BY DEF Remembers, Orderly, Excused

\* The call of a thread goes on as it was.
SameCall(t) ==
    /\ InCall(t)' <=> InCall(t)
    /\ InCall(t) =>
          /\ thread'[t].serial = thread[t].serial /\ thread'[t].tid = thread[t].tid
          /\ thread'[t].adapter = thread[t].adapter
          /\ thread'[t].context = thread[t].context /\ thread'[t].kind = thread[t].kind

\* A step that sends and queues nothing, sets no event, and begins or ends no call.
LEMMA ItemsShrink ==
    ASSUME ItemsInv, Remembers, UNCHANGED serial, transactions' \subseteq transactions,
           \A d \in Device : inbound'[d] \subseteq inbound[d],
           \A n \in Nat, kind \in Kinds : Sent(n, kind)' => Sent(n, kind),
           received' \subseteq received, \A t \in Thread : SameCall(t), TypeInv
    PROVE  ItemsInv'
<1>1. Held' \subseteq Held
  BY DEF Held
<1>2. /\ \A i, t : t \in Thread /\ Awaits(i, t) => Awaits(i, t)'
      /\ \A t \in Thread : InCall(t) => Event(t)' = Event(t)
  BY DEF SameCall, Awaits, Event
<1>3. \A t \in Thread : InCall(t)' <=> InCall(t)
  BY DEF SameCall
<1>4. \A t \in Thread : thread[t].serial \in Nat
  BY ThreadIsTyped DEF ThreadType
<1>5. SerialsOK'
  BY <1>1, <1>3 DEF ItemsInv, SerialsOK, SameCall
<1>6. ItemsDiffer'
  BY <1>1 DEF ItemsInv, ItemsDiffer
<1>7. KindsOK'
  BY <1>3, <1>4 DEF ItemsInv, KindsOK, SameCall
<1>8. ItemsOK'
  <2> SUFFICES ASSUME Orderly', NEW i \in transactions'
               PROVE  (\/ \E t \in Thread : Awaits(i, t)
                       \/ "mistaken" \in faults /\ \A kind \in Kinds : ~Sent(i.serial, kind))'
    BY DEF ItemsOK
  <2>1. \/ \E t \in Thread : Awaits(i, t)
        \/ "mistaken" \in faults /\ \A kind \in Kinds : ~Sent(i.serial, kind)
    BY OrderlyBefore DEF ItemsInv, ItemsOK
  <2>2. i.serial \in Nat
    BY DEF TypeInv, BookTypeOK, ItemType
  <2> QED BY <1>2, <2>1, <2>2 DEF Remembers
<1>9. HeldOK'
  BY <1>1, <1>2, OrderlyBefore DEF ItemsInv, HeldOK
<1>10. SignalsOK'
  <2> SUFFICES ASSUME Orderly', NEW e \in received'
               PROVE  \E t \in Thread :
                         /\ InCall(t)' /\ Event(t)' = e
                         /\ \A i \in transactions' \cup Held' : i.serial # thread'[t].serial
    BY DEF SignalsOK
  <2>1. PICK t \in Thread : /\ InCall(t) /\ Event(t) = e
                            /\ \A i \in transactions \cup Held : i.serial # thread[t].serial
    BY OrderlyBefore DEF ItemsInv, SignalsOK
  <2> QED BY <1>1, <1>2, <1>3, <2>1 DEF SameCall
<1>11. UnsharedOK'
  BY <1>2, <1>3, OrderlyBefore DEF ItemsInv, UnsharedOK
<1>12. OwnItemOK'
  BY <1>1, <1>2, <1>3 DEF ItemsInv, OwnItemOK, SameCall
<1> QED BY <1>5, <1>6, <1>7, <1>8, <1>9, <1>10, <1>11, <1>12 DEF ItemsInv

\* Messages of a device's outbox.
LEMMA OutboxType ==
    ASSUME TypeInv, NEW d \in Device
    PROVE  /\ devices[d].outbox \in Seq(MessageType)
           /\ \A i \in 1 .. Len(devices[d].outbox) : devices[d].outbox[i] \in MessageType
BY DEF TypeInv, WireOK, WireTypeOK

\* Outboxes and handled answers with less in them hold nothing that was not sent.
LEMMA SentBefore ==
    ASSUME irps' \subseteq irps, \A d \in Device : inbound'[d] \subseteq inbound[d],
           \A d \in Device : \A i \in 1 .. Len(devices'[d].outbox) :
               \/ devices'[d].outbox[i].kind \notin Kinds
               \/ Sent(devices'[d].outbox[i].serial, devices'[d].outbox[i].kind)
    PROVE  \A n \in Nat, kind \in Kinds : Sent(n, kind)' => Sent(n, kind)
<1> SUFFICES ASSUME NEW n \in Nat, NEW kind \in Kinds, Sent(n, kind)' PROVE Sent(n, kind)
  OBVIOUS
<1>1. CASE \E r \in irps' : r.message.serial = n /\ r.message.kind = kind
  BY <1>1 DEF Sent
<1>2. CASE \E d \in Device : \E i \in 1 .. Len(devices'[d].outbox) :
              devices'[d].outbox[i].serial = n /\ devices'[d].outbox[i].kind = kind
  BY <1>2
<1>3. CASE \E d \in Device : \E h \in inbound'[d] :
              h.message.serial = n /\ h.message.kind = kind
  BY <1>3 DEF Sent
<1> QED BY <1>1, <1>2, <1>3 DEF Sent

\* The number of a new request is above all that are about.
LEMMA FreshNumber ==
    ASSUME TypeInv, ItemsInv, NEW t \in Thread, thread[t].pc = "request"
    PROVE  /\ NextSerial(t) \in Nat /\ NextSerial(t) >= 1
           /\ \A i \in transactions \cup Held : i.serial < NextSerial(t)
           /\ \A n \in Nat, kind \in Kinds : Sent(n, kind) => n < NextSerial(t)
           /\ \A u \in Thread : InCall(u) => thread[u].serial < NextSerial(t)
<1>1. serial \in Nat
  BY DEF TypeInv, BookTypeOK
<1>2. CASE Quiet(t)
  <2>1. NextSerial(t) = 1 /\ transactions = {}
    BY <1>2 DEF NextSerial, Quiet
  <2>2. \A u \in Thread : ~InCall(u)
    BY <1>2 DEF Quiet, InCall
  <2>3. Held = {}
    BY <1>2 DEF Quiet, Held
  <2>4. \A n \in Nat, kind \in Kinds : ~Sent(n, kind)
    BY <1>2 DEF Quiet, Sent
  <2> QED BY <2>1, <2>2, <2>3, <2>4
<1>3. CASE ~Quiet(t)
  <2>1. NextSerial(t) = serial + 1
    BY <1>3 DEF NextSerial
  <2>2. \A i \in transactions \cup Held : i.serial \in Nat
    BY DEF TypeInv, BookTypeOK, WireOK, WireTypeOK, ItemType, Held
  <2>3. \A i \in transactions \cup Held : i.serial < NextSerial(t)
    BY <1>1, <2>1, <2>2 DEF ItemsInv, SerialsOK
  <2>4. \A n \in Nat, kind \in Kinds : Sent(n, kind) => n < NextSerial(t)
    BY <1>1, <2>1 DEF ItemsInv, SerialsOK
  <2>5. \A u \in Thread : InCall(u) => thread[u].serial < NextSerial(t)
    BY <1>1, <2>1 DEF ItemsInv, SerialsOK
  <2> QED BY <1>1, <2>1, <2>3, <2>4, <2>5
<1> QED BY <1>2, <1>3

LEMMA RequestItems ==
    ASSUME TypeInv, ItemsInv, Remembers, NEW t \in Thread, Request(t)
    PROVE  ItemsInv'
<1> DEFINE n == NextSerial(t)
<1>1. PICK irp \in Irp :
        /\ serial' = n
        /\ transactions' = transactions \cup {NewItem(t, irp)}
        /\ irps' = irps \cup {[irp |-> irp, device |-> DeviceOf(t), message |-> NewMessage(t)]}
  BY DEF Request, Allocate
<1>2. /\ thread[t].pc = "request" /\ UNCHANGED <<devices, inbound, received>>
      /\ thread' = [thread EXCEPT
            ![t].tid = Tid(t), ![t].serial = n,
            ![t].pc = IF /\ thread[t].kind = "RELEASE"
                         /\ IsQMIOutOfService[thread[t].adapter]
                      THEN "expired" ELSE "waiting"]
      /\ EventShared(t) => "shared" \in faults'
  BY DEF Request, FaultIf
<1> DEFINE new == NewItem(t, irp)  m == NewMessage(t)
<1>3. /\ new.serial = n /\ new.tid = Tid(t) /\ new.adapter = thread[t].adapter
      /\ new.context = thread[t].context /\ m.serial = n /\ m.kind = thread[t].kind
  BY DEF NewItem, NewMessage
<1>4. /\ n \in Nat /\ n >= 1
      /\ \A i \in transactions \cup Held : i.serial < n
      /\ \A k \in Nat, kind \in Kinds : Sent(k, kind) => k < n
      /\ \A u \in Thread : InCall(u) => thread[u].serial < n
  BY <1>2, FreshNumber
<1>5. \A i \in transactions \cup Held : i.serial \in Nat
  BY DEF TypeInv, BookTypeOK, WireOK, WireTypeOK, ItemType, Held
<1>6. /\ InCall(t)' /\ ~InCall(t) /\ thread'[t].serial = n /\ thread'[t].tid = Tid(t)
      /\ thread'[t].adapter = thread[t].adapter /\ thread'[t].context = thread[t].context
      /\ thread'[t].kind = thread[t].kind
      /\ \A u \in Thread : u # t => thread'[u] = thread[u]
  <2>1. thread \in [Thread -> ThreadType]
    BY DEF TypeInv, ThreadsOK, ThreadTypeOK
  <2> DEFINE pc == IF /\ thread[t].kind = "RELEASE"
                      /\ IsQMIOutOfService[thread[t].adapter]
                   THEN "expired" ELSE "waiting"
             r == [thread[t] EXCEPT !.tid = Tid(t), !.serial = n, !.pc = pc]
  <2>2. thread' = [thread EXCEPT ![t] = r] /\ pc \in {"expired", "waiting"}
    BY <1>2, <2>1
  <2> HIDE DEF pc, n
  <2>3. /\ r.serial = n /\ r.tid = Tid(t) /\ r.adapter = thread[t].adapter
        /\ r.context = thread[t].context /\ r.kind = thread[t].kind /\ r.pc = pc
    BY <2>1 DEF ThreadType
  <2> HIDE DEF r
  <2> QED BY <1>2, <2>1, <2>2, <2>3 DEF InCall
<1>7. /\ Held' = Held
      /\ \A i : \A u \in Thread : Awaits(i, u) => Awaits(i, u)' /\ u # t
      /\ \A u \in Thread : InCall(u) => InCall(u)' /\ Event(u)' = Event(u) /\ u # t
      /\ \A u \in Thread : InCall(u)' => u = t \/ InCall(u)
  <2>1. Held' = Held
    BY <1>2 DEF Held
  <2>2. \A u \in Thread \ {t} : /\ InCall(u)' <=> InCall(u)
                               /\ Event(u)' = Event(u)
                               /\ \A i : Awaits(i, u)' <=> Awaits(i, u)
    BY <1>6 DEF InCall, Event, Awaits
  <2>3. \A i : \A u \in Thread : Awaits(i, u) => u # t
    BY <1>6 DEF Awaits
  <2> QED BY <1>6, <2>1, <2>2, <2>3
<1>8. \A k, kind : Sent(k, kind)' <=> Sent(k, kind) \/ (k = n /\ kind = thread[t].kind)
  <2> TAKE k, kind
  <2> DEFINE r == [irp |-> irp, device |-> DeviceOf(t), message |-> m]
  <2>1. r.message = m /\ irps' = irps \cup {r}
    BY <1>1
  <2> HIDE DEF r, m, n
  <2>2. (\E q \in irps' : q.message.serial = k /\ q.message.kind = kind)
        <=> \/ \E q \in irps : q.message.serial = k /\ q.message.kind = kind
            \/ k = n /\ kind = thread[t].kind
    BY <1>3, <2>1
  <2> QED BY <1>2, <2>2 DEF Sent
<1> HIDE DEF n, new, m
<1>17. PICK item : item = new
  OBVIOUS
<1>18. Awaits(item, t)'
  BY <1>3, <1>6, <1>17 DEF Awaits
<1>9. SerialsOK'
  <2>1. (\A i \in transactions \cup Held : i.serial <= serial)'
    BY <1>1, <1>3, <1>4, <1>5, <1>7 DEF new
  <2>2. (\A k \in Nat, kind \in Kinds : Sent(k, kind) => k <= serial)'
    BY <1>1, <1>4, <1>8
  <2>3. (\A u \in Thread : InCall(u) => thread[u].serial \in 1 .. serial)'
    BY <1>1, <1>4, <1>6, <1>7 DEF ItemsInv, SerialsOK
  <2>4. (\A u, v \in Thread :
            InCall(u) /\ InCall(v) /\ thread[u].serial = thread[v].serial => u = v)'
    BY <1>4, <1>6, <1>7 DEF ItemsInv, SerialsOK
  <2> QED BY <2>1, <2>2, <2>3, <2>4 DEF SerialsOK
<1>10. transactions' = transactions \cup {new}
  BY <1>1 DEF new
<1>11. ItemsDiffer'
  <2>1. (\A i, j \in transactions : i.serial = j.serial => i = j)'
    BY <1>3, <1>4, <1>10 DEF ItemsInv, ItemsDiffer
  <2>2. (\A i \in transactions, j \in Held : i.serial # j.serial)'
    BY <1>3, <1>4, <1>7, <1>10 DEF ItemsInv, ItemsDiffer
  <2> QED BY <1>2, <2>1, <2>2 DEF ItemsInv, ItemsDiffer
<1>12. KindsOK'
  <2>1. \A u \in Thread : thread[u].serial \in Nat
    BY ThreadIsTyped DEF ThreadType
  <2> QED BY <1>4, <1>6, <1>7, <1>8, <2>1 DEF ItemsInv, KindsOK
<1>13. ItemsOK'
  <2> SUFFICES ASSUME Orderly', NEW i \in transactions'
               PROVE  (\/ \E u \in Thread : Awaits(i, u)
                       \/ "mistaken" \in faults /\ \A kind \in Kinds : ~Sent(i.serial, kind))'
    BY DEF ItemsOK
  <2>1. CASE i = item
    BY <1>18, <2>1
  <2>2. CASE i \in transactions
    <3>1. \/ \E u \in Thread : Awaits(i, u)
          \/ "mistaken" \in faults /\ \A kind \in Kinds : ~Sent(i.serial, kind)
      BY <2>2, OrderlyBefore DEF ItemsInv, ItemsOK
    <3>2. i.serial # n /\ i.serial \in Nat
      BY <1>4, <1>5, <2>2
    <3> QED BY <1>7, <1>8, <3>1, <3>2 DEF Remembers
  <2> QED BY <1>10, <1>17, <2>1, <2>2
<1>14. HeldOK'
  BY <1>7, OrderlyBefore DEF ItemsInv, HeldOK
<1>15. SignalsOK'
  <2> SUFFICES ASSUME Orderly', NEW e \in received'
               PROVE  \E u \in Thread :
                         /\ InCall(u)' /\ Event(u)' = e
                         /\ \A i \in transactions' \cup Held' : i.serial # thread'[u].serial
    BY DEF SignalsOK
  <2>1. PICK u \in Thread : /\ InCall(u) /\ Event(u) = e
                            /\ \A i \in transactions \cup Held : i.serial # thread[u].serial
    BY <1>2, OrderlyBefore DEF ItemsInv, SignalsOK
  <2>2. thread'[u] = thread[u] /\ thread[u].serial # n
    BY <1>4, <1>6, <1>7, <2>1
  <2> QED BY <1>3, <1>7, <1>10, <2>1, <2>2
<1>16. UnsharedOK'
  <2>1. Orderly' => ~EventShared(t)
    BY <1>2 DEF Orderly, Excused
  <2>2. Event(t)' = Event(t)
    BY <1>6 DEF Event
  <2> QED BY <1>7, <2>1, <2>2, OrderlyBefore DEF ItemsInv, UnsharedOK, EventShared
<1>19. OwnItemOK'
  <2> SUFFICES ASSUME NEW i \in transactions' \cup Held', NEW u \in Thread, InCall(u)',
                      thread'[u].serial = i.serial
               PROVE  Awaits(i, u)'
    BY DEF OwnItemOK
  <2>1. CASE u = t
    <3>1. i = item
      BY <1>4, <1>6, <1>7, <1>10, <1>17, <2>1
    <3> QED BY <1>18, <2>1, <3>1
  <2>2. CASE u # t
    <3>1. InCall(u) /\ thread[u].serial < n /\ thread[u].serial = i.serial
      BY <1>4, <1>6, <1>7, <2>2
    <3>2. i \in transactions \cup Held
      BY <1>3, <1>4, <1>7, <1>10, <3>1
    <3> QED BY <1>7, <3>1, <3>2 DEF ItemsInv, OwnItemOK
  <2> QED BY <2>1, <2>2
<1> QED BY <1>9, <1>11, <1>12, <1>13, <1>14, <1>15, <1>16, <1>19 DEF ItemsInv

\* A search finds something where there is something to find.
LEMMA PositionType ==
    ASSUME NEW a \in Adapter
    PROVE  /\ Position(a) \in 1 .. Len(AdapterList)
           /\ AdapterList[Position(a)] = a
<1>1. \E i \in 1 .. Len(AdapterList) : AdapterList[i] = a
  BY DEF Adapter
<1> QED BY <1>1 DEF Position

LEMMA FirstItemExists ==
    ASSUME NEW S, S \subseteq ItemType, S # {}
    PROVE  \E i \in S : i \in FirstItem(S)
<1>1. \A i \in S : /\ i.adapter \in Adapter /\ i.serial \in Nat
                   /\ Position(i.adapter) \in Nat
  BY PositionType DEF ItemType
<1> DEFINE P == {Position(i.adapter) : i \in S}
<1>2. PICK p \in P : \A q \in P : p <= q
  BY <1>1, LeastNatural
<1> DEFINE F == {i \in S : Position(i.adapter) = p}  N == {i.serial : i \in F}
<1>3. PICK n \in N : \A k \in N : n <= k
  BY <1>1, LeastNatural
<1>4. PICK i \in F : i.serial = n
  BY <1>3
<1>5. ASSUME NEW j \in S PROVE Precedes(i, j)
  <2>1. Position(i.adapter) <= Position(j.adapter)
    BY <1>2, <1>4
  <2>2. CASE Position(i.adapter) < Position(j.adapter)
    BY <2>2 DEF Precedes
  <2>3. CASE Position(i.adapter) = Position(j.adapter)
    <3>1. j \in F /\ i.adapter = j.adapter
      BY <1>1, <1>4, <2>3, PositionType
    <3> QED BY <1>3, <1>4, <3>1 DEF Precedes
  <2> QED BY <1>1, <1>4, <2>1, <2>2, <2>3
<1> QED BY <1>4, <1>5 DEF FirstItem

LEMMA TransactionsType ==
    ASSUME TypeInv
    PROVE  /\ transactions \subseteq ItemType /\ Held \subseteq ItemType
           /\ \A i \in transactions \cup Held : i.serial \in Nat /\ i.tid \in 1 .. MaxTid
BY DEF TypeInv, BookTypeOK, WireOK, WireTypeOK, ItemType, Held

\* A call that ends without a trace.
LEMMA CallEnds ==
    ASSUME TypeInv, ItemsInv, Remembers, NEW t \in Thread, InCall(t), ~InCall(t)',
           Others(t), UNCHANGED <<serial, irps, devices, inbound>>,
           transactions' \subseteq transactions, received' \subseteq received,
           Orderly' => /\ Event(t) \notin received'
                       /\ \A i \in transactions' \cup Held : i.serial # thread[t].serial
    PROVE  ItemsInv'
<1>1. Held' = Held /\ \A k, kind : Sent(k, kind)' <=> Sent(k, kind)
  BY DEF Held, Sent
<1>2. \A u \in Thread : InCall(u)' => u # t /\ InCall(u)
  BY DEF Others, InCall
<1>3. /\ \A u \in Thread : u # t => /\ thread'[u] = thread[u] /\ Event(u)' = Event(u)
                                     /\ InCall(u)' <=> InCall(u)
      /\ \A i : \A u \in Thread : Awaits(i, u) /\ i.serial # thread[t].serial
                                  => Awaits(i, u)'
      /\ \A i : \A u \in Thread : Awaits(i, u) /\ u # t => Awaits(i, u)'
  <2>1. \A u \in Thread : u # t => thread'[u] = thread[u]
    BY DEF Others
  <2>2. \A u \in Thread : u # t => /\ Event(u)' = Event(u)
                                   /\ InCall(u)' <=> InCall(u)
    BY <2>1 DEF Event, InCall
  <2>3. \A i : \A u \in Thread : Awaits(i, u) /\ i.serial # thread[t].serial
                                => Awaits(i, u)'
    BY <2>1, <2>2 DEF Awaits
  <2>4. \A i : \A u \in Thread : Awaits(i, u) /\ u # t => Awaits(i, u)'
    BY <2>1, <2>2 DEF Awaits
  <2> QED BY <2>1, <2>2, <2>3, <2>4
<1>4. SerialsOK'
  BY <1>1, <1>2, <1>3 DEF ItemsInv, SerialsOK
<1>5. ItemsDiffer'
  BY <1>1 DEF ItemsInv, ItemsDiffer
<1>6. OwnItemOK'
  BY <1>1, <1>2, <1>3 DEF ItemsInv, OwnItemOK
<1>7. KindsOK'
  BY <1>1, <1>2, <1>3 DEF ItemsInv, KindsOK
<1>8. ItemsOK'
  <2> SUFFICES ASSUME Orderly', NEW i \in transactions'
               PROVE  (\/ \E u \in Thread : Awaits(i, u)
                       \/ "mistaken" \in faults /\ \A kind \in Kinds : ~Sent(i.serial, kind))'
    BY DEF ItemsOK
  <2>1. \/ \E u \in Thread : Awaits(i, u)
        \/ "mistaken" \in faults /\ \A kind \in Kinds : ~Sent(i.serial, kind)
    BY OrderlyBefore DEF ItemsInv, ItemsOK
  <2>2. i.serial # thread[t].serial
    OBVIOUS
  <2> QED BY <1>1, <1>3, <2>1, <2>2 DEF Remembers
<1>9. HeldOK'
  <2> SUFFICES ASSUME Orderly', NEW i \in Held PROVE \E u \in Thread : Awaits(i, u)'
    BY <1>1 DEF HeldOK
  <2>1. i.serial # thread[t].serial
    OBVIOUS
  <2> QED BY <1>3, <2>1, OrderlyBefore DEF ItemsInv, HeldOK
<1>10. SignalsOK'
  <2> SUFFICES ASSUME Orderly', NEW e \in received'
               PROVE  \E u \in Thread :
                         /\ InCall(u)' /\ Event(u)' = e
                         /\ \A i \in transactions' \cup Held' : i.serial # thread'[u].serial
    BY DEF SignalsOK
  <2>1. PICK u \in Thread : /\ InCall(u) /\ Event(u) = e
                            /\ \A i \in transactions \cup Held : i.serial # thread[u].serial
    BY OrderlyBefore DEF ItemsInv, SignalsOK
  <2>2. u # t
    BY <2>1
  <2> QED BY <1>1, <1>3, <2>1, <2>2
<1>11. UnsharedOK'
  BY <1>2, <1>3, OrderlyBefore DEF ItemsInv, UnsharedOK
<1> QED BY <1>4, <1>5, <1>6, <1>7, <1>8, <1>9, <1>10, <1>11 DEF ItemsInv

LEMMA ReturnedEnds ==
    ASSUME TypeInv, NEW t \in Thread, NEW result, thread' = Returned(t, result)
    PROVE  ~InCall(t)' /\ Others(t)
<1>1. thread \in [Thread -> ThreadType]
  BY DEF TypeInv, ThreadsOK, ThreadTypeOK
<1> DEFINE r == [thread[t] EXCEPT !.pc = "returned", !.result = result]
<1>2. thread' = [thread EXCEPT ![t] = r]
  BY <1>1 DEF Returned
<1>3. r.pc = "returned"
  BY <1>1 DEF ThreadType
<1> HIDE DEF r
<1>4. thread'[t] = r /\ \A u \in Thread \ {t} : thread'[u] = thread[u]
  BY <1>1, <1>2
<1> QED BY <1>3, <1>4 DEF InCall, Others

LEMMA SignalledItems ==
    ASSUME TypeInv, ItemsInv, Remembers, NEW t \in Thread, Signalled(t)
    PROVE  ItemsInv'
<1>1. /\ thread[t].pc = "waiting" /\ Event(t) \in received
      /\ received' = received \ {Event(t)} /\ thread' = Returned(t, "answered")
      /\ UNCHANGED <<transactions, serial, irps, devices, inbound>>
  BY DEF Signalled, book, wire
<1>2. InCall(t)
  BY <1>1 DEF InCall
<1>3. Orderly' => \A i \in transactions \cup Held : i.serial # thread[t].serial
  <2> SUFFICES ASSUME Orderly
               PROVE  \A i \in transactions \cup Held : i.serial # thread[t].serial
    BY OrderlyBefore
  <2>1. PICK u \in Thread : /\ InCall(u) /\ Event(u) = Event(t)
                            /\ \A i \in transactions \cup Held : i.serial # thread[u].serial
    BY <1>1 DEF ItemsInv, SignalsOK
  <2>2. u = t
    BY <1>2, <2>1 DEF ItemsInv, UnsharedOK
  <2> QED BY <2>1, <2>2
<1>4. ~InCall(t)' /\ Others(t)
  BY <1>1, ReturnedEnds
<1> QED BY <1>1, <1>2, <1>3, <1>4, CallEnds

\* The item that a search by transaction id finds is that of the id's request.
LEMMA SameItem ==
    ASSUME TypeInv, SameOK, ItemsInv, "wrapped" \notin faults, NEW d \in Device,
           NEW i \in transactions, NEW j \in transactions, i.tid = j.tid,
           Physical[i.adapter] = d, Physical[j.adapter] = d
    PROVE  i = j
<1>1. <<i.tid, i.serial>> \in Numbers(d) /\ <<j.tid, j.serial>> \in Numbers(d)
  BY DEF Numbers, About
<1>2. i.tid # 0
  BY TransactionsType
<1>3. i.serial = j.serial
  BY <1>1, <1>2 DEF SameOK
<1> QED BY <1>3 DEF ItemsInv, ItemsDiffer

LEMMA RemovedItems ==
    ASSUME MatchInv, ItemsInv, Remembers, NEW t \in Thread, RemoveOldTransactionItem(t)
    PROVE  ItemsInv'
<1> DEFINE found == FindTid(transactions, thread[t].tid)
<1>1. /\ thread[t].pc = "expired" /\ transactions' = transactions \ found
      /\ thread' = Returned(t, "timeout")
      /\ UNCHANGED <<serial, irps, devices, inbound, received>>
      /\ (\E i \in found : Physical[i.adapter] # DeviceOf(t)) => "crossed" \in faults'
      /\ (\/ \E d \in Device : InHand(d, thread[t].serial)
          \/ Event(t) \in received) => "overtaken" \in faults'
  <2> DEFINE wrong == \E i \in found : Physical[i.adapter] # DeviceOf(t)
             late == \/ \E d \in Device : InHand(d, thread[t].serial)
                     \/ Event(t) \in received
  <2>1. /\ faults' = faults \cup FaultIf(wrong, "crossed")
              \cup FaultIf(thread[t].kind = "RELEASE", "unanswered")
              \cup FaultIf(late, "overtaken")
    BY Zenon DEF RemoveOldTransactionItem
  <2>3. /\ thread[t].pc = "expired" /\ transactions' = transactions \ found
        /\ thread' = Returned(t, "timeout")
    BY DEF RemoveOldTransactionItem, WithoutOld
  <2>4. UNCHANGED <<serial, irps, devices, inbound, received>>
    BY DEF RemoveOldTransactionItem, wire
  <2> HIDE DEF wrong, late
  <2>2. /\ wrong => "crossed" \in faults'
        /\ late => "overtaken" \in faults'
    BY <2>1 DEF FaultIf
  <2> QED BY <2>2, <2>3, <2>4 DEF wrong, late
<1>2. InCall(t) /\ TypeInv
  BY <1>1 DEF InCall, MatchInv
<1>3. ASSUME Orderly'
      PROVE  /\ Event(t) \notin received'
             /\ \A i \in transactions' \cup Held : i.serial # thread[t].serial
  <2>1. /\ "crossed" \notin faults' /\ "overtaken" \notin faults' /\ "wrapped" \notin faults
    BY <1>3, OrderlyBefore DEF Orderly, Excused, MixedUp
  <2>2. Event(t) \notin received' /\ \A i \in Held : i.serial # thread[t].serial
    BY <1>1, <2>1 DEF InHand, Held
  <2>3. ASSUME NEW i \in transactions', i.serial = thread[t].serial PROVE FALSE
    <3>1. i \in transactions /\ Awaits(i, t)
      BY <1>1, <1>2, <2>3 DEF ItemsInv, OwnItemOK
    <3>2. i.tid = thread[t].tid /\ Physical[i.adapter] = DeviceOf(t)
      BY <3>1 DEF Awaits, DeviceOf
    <3>3. PICK f \in transactions : f \in found
      <4>1. {k \in transactions : k.tid = thread[t].tid} # {}
        BY <3>1, <3>2
      <4> QED BY <1>2, <4>1, TransactionsType, FirstItemExists DEF FindTid
    <3>4. f.tid = thread[t].tid /\ Physical[f.adapter] = DeviceOf(t)
      BY <1>1, <2>1, <3>3, FoundIsQueued
    <3>5. DeviceOf(t) \in Device
      <4>1. i.adapter \in Adapter
        BY <1>2, <3>1, TransactionsType DEF ItemType
      <4> QED BY <3>2, <4>1 DEF Device
    <3>6. f = i
      BY <1>2, <2>1, <3>1, <3>2, <3>3, <3>4, <3>5, SameItem DEF MatchInv
    <3> QED BY <1>1, <3>3, <3>6
  <2> QED BY <2>2, <2>3
<1>4. ~InCall(t)' /\ Others(t)
  BY <1>1, <1>2, ReturnedEnds
<1> QED BY <1>1, <1>2, <1>3, <1>4, CallEnds

\* The item of a request whose send fails is taken off again, unless another one
\* names the IRP, too.
LEMMA RefusedItems ==
    ASSUME TypeInv, ItemsInv, Remembers, NEW t \in Thread, RequestRefused(t)
    PROVE  ItemsInv'
<1> DEFINE m == NextSerial(t)
<1>1. PICK irp \in Irp :
        /\ serial' = m
        /\ transactions' = WithoutFailed(transactions \cup {NewItem(t, irp)}, irp)
        /\ Mistaken(transactions \cup {NewItem(t, irp)}, irp, m) => "mistaken" \in faults'
  <2>1. PICK irp \in Irp :
          /\ Allocate(t, irp)
          /\ transactions' = WithoutFailed(transactions \cup {NewItem(t, irp)}, irp)
          /\ faults' = faults \cup FaultIf(Wrapped(t), "wrapped")
                \cup FaultIf(Mistaken(transactions \cup {NewItem(t, irp)}, irp, NextSerial(t)),
                             "mistaken")
    BY DEF RequestRefused
  <2> QED BY <2>1 DEF Allocate, FaultIf
<1>2. /\ thread[t].pc = "request" /\ UNCHANGED <<irps, devices, inbound, received>>
      /\ thread' = Returned(t, "failed")
  BY DEF RequestRefused, wire
<1>3. PICK n : n = m
  OBVIOUS
<1>4. PICK new : new = NewItem(t, irp)
  OBVIOUS
<1>5. /\ n \in Nat /\ n >= 1
      /\ \A i \in transactions \cup Held : i.serial < n
      /\ \A k \in Nat, kind \in Kinds : Sent(k, kind) => k < n
      /\ \A u \in Thread : InCall(u) => thread[u].serial < n
  BY <1>2, <1>3, FreshNumber
<1>6. /\ new.serial = n /\ new.irp = irp
      /\ transactions' = WithoutFailed(transactions \cup {new}, irp)
      /\ Mistaken(transactions \cup {new}, irp, n) => "mistaken" \in faults'
      /\ serial' = n
  BY <1>1, <1>3, <1>4 DEF NewItem
<1>7. new \in ItemType
  BY <1>2, <1>4, RequestRecords
<1> HIDE DEF m
<1>8. \A i \in transactions' : i \in transactions \/ i = new
  BY <1>6 DEF WithoutFailed
<1>9. new \in transactions' => "mistaken" \in faults'
  <2> SUFFICES ASSUME new \in transactions' PROVE Mistaken(transactions \cup {new}, irp, n)
    BY <1>6
  <2> DEFINE S == {i \in transactions \cup {new} : i.irp = irp}
  <2>1. S \subseteq ItemType /\ new \in S
    BY <1>6, <1>7, TransactionsType
  <2>2. PICK f \in S : f \in FindIrp(transactions \cup {new}, irp)
    BY <2>1, FirstItemExists DEF FindIrp
  <2>3. f # new
    BY <1>6, <2>2 DEF WithoutFailed
  <2>4. f.serial # n
    BY <1>5, <2>3, TransactionsType
  <2> QED BY <2>2, <2>4 DEF Mistaken
<1>10. Held' = Held /\ \A k, kind : Sent(k, kind)' <=> Sent(k, kind)
  BY <1>2 DEF Held, Sent
<1>11. ~InCall(t)' /\ Others(t) /\ ~InCall(t)
  BY <1>2, ReturnedEnds DEF InCall
<1>12. /\ \A u \in Thread : InCall(u)' <=> InCall(u)
       /\ \A u \in Thread : InCall(u) => thread'[u] = thread[u] /\ Event(u)' = Event(u)
       /\ \A i : \A u \in Thread : Awaits(i, u) => Awaits(i, u)'
  <2>1. \A u \in Thread : u # t => thread'[u] = thread[u]
    BY <1>11 DEF Others
  <2>2. \A u \in Thread : u # t => InCall(u)' = InCall(u) /\ Event(u)' = Event(u)
    BY <2>1 DEF InCall, Event
  <2>3. \A i : \A u \in Thread : Awaits(i, u) => InCall(u)
    BY DEF Awaits
  <2>4. \A i : \A u \in Thread : Awaits(i, u) /\ u # t => Awaits(i, u)'
    BY <2>1, <2>2 DEF Awaits
  <2> QED BY <1>11, <2>1, <2>2, <2>3, <2>4
<1>13. \A i \in transactions \cup Held : i.serial \in Nat
  BY TransactionsType
<1>14. SerialsOK'
  <2>1. (\A i \in transactions \cup Held : i.serial <= serial)'
    BY <1>5, <1>6, <1>8, <1>10, <1>13
  <2>2. (\A k \in Nat, kind \in Kinds : Sent(k, kind) => k <= serial)'
    BY <1>5, <1>6, <1>10
  <2>3. (\A u \in Thread : InCall(u) => thread[u].serial \in 1 .. serial)'
    BY <1>5, <1>6, <1>12 DEF ItemsInv, SerialsOK
  <2>4. (\A u, v \in Thread :
            InCall(u) /\ InCall(v) /\ thread[u].serial = thread[v].serial => u = v)'
    BY <1>12 DEF ItemsInv, SerialsOK
  <2> QED BY <2>1, <2>2, <2>3, <2>4 DEF SerialsOK
<1>15. ItemsDiffer'
  <2>1. (\A i, j \in transactions : i.serial = j.serial => i = j)'
    BY <1>5, <1>6, <1>8 DEF ItemsInv, ItemsDiffer
  <2>2. (\A i \in transactions, j \in Held : i.serial # j.serial)'
    <3> SUFFICES ASSUME NEW i \in transactions', NEW j \in Held PROVE i.serial # j.serial
      BY <1>10
    <3>1. j.serial < n /\ j.serial \in Nat
      BY <1>5, <1>13
    <3>2. CASE i = new
      BY <1>5, <1>6, <3>1, <3>2
    <3>3. CASE i \in transactions
      BY <3>3 DEF ItemsInv, ItemsDiffer
    <3> QED BY <1>8, <3>2, <3>3
  <2> QED BY <1>2, <2>1, <2>2 DEF ItemsInv, ItemsDiffer
<1>16. OwnItemOK'
  <2> SUFFICES ASSUME NEW i \in transactions' \cup Held, NEW u \in Thread, InCall(u),
                      thread[u].serial = i.serial
               PROVE  Awaits(i, u)
    BY <1>10, <1>12 DEF OwnItemOK
  <2>1. thread[u].serial < n /\ thread[u].serial \in Nat
    BY <1>5, ThreadIsTyped DEF ThreadType
  <2>2. i \in transactions \cup Held
    BY <1>5, <1>6, <1>8, <2>1
  <2> QED BY <2>2 DEF ItemsInv, OwnItemOK
<1>17. KindsOK'
  <2>1. \A u \in Thread : thread[u].serial \in Nat
    BY ThreadIsTyped DEF ThreadType
  <2> QED BY <1>10, <1>12, <2>1 DEF ItemsInv, KindsOK
<1>18. ItemsOK'
  <2> SUFFICES ASSUME Orderly', NEW i \in transactions'
               PROVE  (\/ \E u \in Thread : Awaits(i, u)
                       \/ "mistaken" \in faults /\ \A kind \in Kinds : ~Sent(i.serial, kind))'
    BY DEF ItemsOK
  <2>1. CASE i = new
    <3>1. \A kind \in Kinds : ~Sent(n, kind)
      BY <1>5
    <3> QED BY <1>6, <1>9, <1>10, <2>1, <3>1
  <2>2. CASE i \in transactions
    <3>1. \/ \E u \in Thread : Awaits(i, u)
          \/ "mistaken" \in faults /\ \A kind \in Kinds : ~Sent(i.serial, kind)
      BY <2>2, OrderlyBefore DEF ItemsInv, ItemsOK
    <3> QED BY <1>10, <1>12, <3>1 DEF Remembers
  <2> QED BY <1>8, <2>1, <2>2
<1>19. HeldOK'
  BY <1>10, <1>12, OrderlyBefore DEF ItemsInv, HeldOK
<1>20. SignalsOK'
  <2> SUFFICES ASSUME Orderly', NEW e \in received'
               PROVE  \E u \in Thread :
                         /\ InCall(u)' /\ Event(u)' = e
                         /\ \A i \in transactions' \cup Held' : i.serial # thread'[u].serial
    BY DEF SignalsOK
  <2>1. PICK u \in Thread : /\ InCall(u) /\ Event(u) = e
                            /\ \A i \in transactions \cup Held : i.serial # thread[u].serial
    BY <1>2, OrderlyBefore DEF ItemsInv, SignalsOK
  <2>2. thread[u].serial # n
    BY <1>5, <2>1
  <2> QED BY <1>6, <1>8, <1>10, <1>12, <2>1, <2>2
<1>21. UnsharedOK'
  BY <1>12, OrderlyBefore DEF ItemsInv, UnsharedOK
<1> QED BY <1>14, <1>15, <1>16, <1>17, <1>18, <1>19, <1>20, <1>21 DEF ItemsInv

\* The other steps of a call.
LEMMA OtherCallItems ==
    ASSUME TypeInv, ItemsInv, Remembers, NEW t \in Thread,
           RequestFails(t) \/ Timeout(t) \/ ClearAfterTimeout(t)
    PROVE  ItemsInv'
<1>1. /\ UNCHANGED <<transactions, serial, irps, devices, inbound>>
      /\ received' \subseteq received
      /\ thread[t].pc \in {"request", "waiting", "timedOut"}
  BY DEF RequestFails, Timeout, ClearAfterTimeout, book, wire
<1>2. thread \in [Thread -> ThreadType]
  BY DEF TypeInv, ThreadsOK, ThreadTypeOK
<1>3. \A k, kind : Sent(k, kind)' <=> Sent(k, kind)
  BY <1>1 DEF Sent
<1>4. \A u \in Thread : SameCall(u)
  <2>1. CASE RequestFails(t)
    <3>1. PICK result : thread' = Returned(t, result)
      BY <2>1 DEF RequestFails
    <3>2. ~InCall(t)' /\ Others(t) /\ ~InCall(t)
      BY <2>1, <3>1, ReturnedEnds DEF RequestFails, InCall
    <3>3. \A u \in Thread : u # t => thread'[u] = thread[u]
      BY <3>2 DEF Others
    <3>4. \A u \in Thread : InCall(u)' <=> InCall(u)
      BY <3>2, <3>3 DEF InCall
    <3> QED BY <3>2, <3>3, <3>4 DEF SameCall
  <2>2. CASE Timeout(t) \/ ClearAfterTimeout(t)
    <3>1. PICK pc \in {"timedOut", "expired"} : thread' = [thread EXCEPT ![t].pc = pc]
      BY <2>2 DEF Timeout, ClearAfterTimeout
    <3>2. /\ thread'[t].pc = pc /\ thread'[t].serial = thread[t].serial
          /\ thread'[t].tid = thread[t].tid /\ thread'[t].adapter = thread[t].adapter
          /\ thread'[t].context = thread[t].context /\ thread'[t].kind = thread[t].kind
          /\ \A u \in Thread : u # t => thread'[u] = thread[u]
      BY <1>2, <3>1 DEF ThreadType
    <3>3. thread[t].pc \in {"waiting", "timedOut"}
      BY <2>2 DEF Timeout, ClearAfterTimeout
    <3>4. \A u \in Thread : InCall(u)' <=> InCall(u)
      BY <3>1, <3>2, <3>3 DEF InCall
    <3> QED BY <3>2, <3>4 DEF SameCall
  <2> QED BY <2>1, <2>2
<1> QED BY <1>1, <1>3, <1>4, ItemsShrink

LEMMA CallItems ==
    ASSUME MatchInv, ItemsInv, Remembers, NEW t \in Thread, CallStep(t)
    PROVE  ItemsInv'
BY RequestItems, RefusedItems, SignalledItems, RemovedItems, OtherCallItems
   DEF CallStep, MatchInv

LEMMA TailElements ==
    ASSUME NEW S, NEW s \in Seq(S), s # <<>>
    PROVE  \A i \in 1 .. Len(Tail(s)) : i + 1 \in 1 .. Len(s) /\ Tail(s)[i] = s[i + 1]
<1>1. Len(s) \in Nat /\ Len(s) > 0 /\ Len(Tail(s)) = Len(s) - 1
  OBVIOUS
<1>2. \A i \in 1 .. Len(s) - 1 : Tail(s)[i] = s[i + 1]
  BY <1>1
<1> QED BY <1>1, <1>2

\* The lower driver and the modem.
LEMMA LowerItems ==
    ASSUME TypeInv, ItemsInv, Remembers, LowerStep
    PROVE  ItemsInv'
<1>1. \A t \in Thread : thread' = thread => SameCall(t)
  BY DEF SameCall, InCall
<1>2. ASSUME NEW r \in irps, RequestLost(r) PROVE ItemsInv'
  <2>1. /\ irps' \subseteq irps /\ transactions' \subseteq transactions
        /\ UNCHANGED <<serial, devices, inbound, thread, received>>
    BY <1>2 DEF RequestLost, WithoutFailed
  <2>2. \A k \in Nat, kind \in Kinds : Sent(k, kind)' => Sent(k, kind)
    BY <2>1 DEF Sent
  <2> QED BY <1>1, <2>1, <2>2, ItemsShrink
<1>3. ASSUME NEW r \in irps, RequestSent(r) PROVE ItemsInv'
  <2> DEFINE m == r.message  d == r.device
  <2>1. /\ irps' \subseteq irps /\ UNCHANGED <<transactions, serial, inbound, thread, received>>
        /\ \/ UNCHANGED devices
           \/ \E ok, id, known : DeviceAnswers(d, m, ok, id, known)
    BY <1>3 DEF RequestSent, DeviceGives, DeviceTakesBack, DeviceAgrees, DeviceRefuses,
                DeviceSilent, book
  <2>2. m \in MessageType /\ d \in Device
    BY <1>3 DEF TypeInv, WireOK, WireTypeOK
  <2>3. devices \in [Device -> DeviceType]
    BY DEF TypeInv, WireOK, WireTypeOK, DeviceType
  <2>4. m.kind \in Kinds => Sent(m.serial, m.kind)
    BY <1>3 DEF Sent
  <2>5. \A e \in Device : \A i \in 1 .. Len(devices'[e].outbox) :
            \/ devices'[e].outbox[i].kind \notin Kinds
            \/ Sent(devices'[e].outbox[i].serial, devices'[e].outbox[i].kind)
    <3>1. \A e \in Device : \A i \in 1 .. Len(devices[e].outbox) :
              Sent(devices[e].outbox[i].serial, devices[e].outbox[i].kind)
      BY DEF Sent
    <3>2. ASSUME NEW ok, NEW id, NEW known, DeviceAnswers(d, m, ok, id, known)
          PROVE  \A e \in Device : \A i \in 1 .. Len(devices'[e].outbox) :
                     \/ devices'[e].outbox[i].kind \notin Kinds
                     \/ Sent(devices'[e].outbox[i].serial, devices'[e].outbox[i].kind)
      <4> DEFINE answer == [m EXCEPT !.ok = ok, !.id = id]
                 device == [devices[d] EXCEPT !.ids = known,
                                              !.outbox = Append(devices[d].outbox, answer)]
      <4>1. answer.serial = m.serial /\ answer.kind = m.kind
        BY <2>2 DEF MessageType
      <4>2. devices' = [devices EXCEPT ![d] = device]
        BY <2>2, <2>3, <3>2 DEF DeviceAnswers, DeviceType
      <4>3. device.outbox = Append(devices[d].outbox, answer)
        BY <2>2, <2>3 DEF DeviceType
      <4> HIDE DEF device, answer, m
      <4>4. /\ devices'[d].outbox = Append(devices[d].outbox, answer)
            /\ \A e \in Device : e # d => devices'[e] = devices[e]
        BY <2>2, <2>3, <4>2, <4>3
      <4>5. devices[d].outbox \in Seq(MessageType)
        BY <2>2, OutboxType
      <4>6. \A i \in 1 .. Len(devices'[d].outbox) :
                \/ i \in 1 .. Len(devices[d].outbox) /\ devices'[d].outbox[i] = devices[d].outbox[i]
                \/ devices'[d].outbox[i] = answer
        BY <4>4, <4>5
      <4>7. \A i \in 1 .. Len(devices'[d].outbox) :
                \/ devices'[d].outbox[i].kind \notin Kinds
                \/ Sent(devices'[d].outbox[i].serial, devices'[d].outbox[i].kind)
        BY <2>2, <2>4, <3>1, <4>1, <4>6
      <4> QED BY <3>1, <4>4, <4>7
    <3> QED BY <2>1, <3>1, <3>2
  <2>6. \A k \in Nat, kind \in Kinds : Sent(k, kind)' => Sent(k, kind)
    BY <2>1, <2>5, SentBefore
  <2> QED BY <1>1, <2>1, <2>6, ItemsShrink
<1> QED BY <1>2, <1>3 DEF LowerStep

LEMMA ModemItems ==
    ASSUME TypeInv, ItemsInv, Remembers, NEW d \in Device, ModemStep(d) \/ InboundIndication(d)
    PROVE  ItemsInv'
<1>1. /\ UNCHANGED <<transactions, serial, irps, inbound, thread, received>>
  BY DEF ModemStep, DeviceRestarts, DeviceRevokes, InboundIndication, book
<1>2. \A t \in Thread : SameCall(t)
  BY <1>1 DEF SameCall, InCall
<1>3. devices \in [Device -> DeviceType]
  BY DEF TypeInv, WireOK, WireTypeOK, DeviceType
<1>4. \A e \in Device : \A i \in 1 .. Len(devices[e].outbox) :
          Sent(devices[e].outbox[i].serial, devices[e].outbox[i].kind)
  BY DEF Sent
<1>5. \A kind, service, id : /\ Indication(kind, service, id).kind = kind
  BY DEF Indication
<1>6. devices[d].outbox \in Seq(MessageType)
  BY OutboxType
<1>7. \A e \in Device : \A i \in 1 .. Len(devices'[e].outbox) :
          \/ devices'[e].outbox[i].kind \notin Kinds
          \/ Sent(devices'[e].outbox[i].serial, devices'[e].outbox[i].kind)
  <2>1. CASE DeviceRestarts(d)
    <3> DEFINE device == [ids |-> {}, outbox |-> <<Indication("RESTART", 1, 0)>>]
    <3>1. devices' = [devices EXCEPT ![d] = device]
      BY <2>1 DEF DeviceRestarts
    <3>2. device.outbox = <<Indication("RESTART", 1, 0)>>
      OBVIOUS
    <3> HIDE DEF device
    <3>3. /\ devices'[d].outbox = <<Indication("RESTART", 1, 0)>>
          /\ \A e \in Device : e # d => devices'[e] = devices[e]
      BY <1>3, <3>1, <3>2
    <3>4. \A i \in 1 .. Len(devices'[d].outbox) : devices'[d].outbox[i].kind = "RESTART"
      BY <1>5, <3>3
    <3> QED BY <1>4, <3>3, <3>4 DEF Kinds
  <2>2. CASE DeviceRevokes(d)
    <3>1. PICK given \in devices[d].ids :
            devices' = [devices EXCEPT
              ![d].ids = @ \ {given},
              ![d].outbox = Append(@, Indication("REVOKE", given[1], given[2]))]
      BY <2>2 DEF DeviceRevokes
    <3>2. PICK new : new = Indication("REVOKE", given[1], given[2])
      OBVIOUS
    <3> DEFINE device == [devices[d] EXCEPT !.ids = @ \ {given},
                                            !.outbox = Append(devices[d].outbox, new)]
    <3>3. devices' = [devices EXCEPT ![d] = device]
      BY <1>3, <3>1, <3>2 DEF DeviceType
    <3>4. device.outbox = Append(devices[d].outbox, new)
      BY <1>3 DEF DeviceType
    <3> HIDE DEF device
    <3>5. /\ devices'[d].outbox = Append(devices[d].outbox, new)
          /\ \A e \in Device : e # d => devices'[e] = devices[e]
      BY <1>3, <3>3, <3>4
    <3>6. new.kind = "REVOKE"
      BY <1>5, <3>2
    <3>7. \A i \in 1 .. Len(devices'[d].outbox) :
              \/ i \in 1 .. Len(devices[d].outbox) /\ devices'[d].outbox[i] = devices[d].outbox[i]
              \/ devices'[d].outbox[i] = new
      BY <1>6, <3>5
    <3> QED BY <1>4, <3>5, <3>6, <3>7 DEF Kinds
  <2>3. CASE InboundIndication(d)
    <3>1. /\ devices' = [devices EXCEPT ![d].outbox = Tail(@)] /\ devices[d].outbox # <<>>
      BY <2>3 DEF InboundIndication
    <3>2. /\ devices'[d].outbox = Tail(devices[d].outbox)
          /\ \A e \in Device : e # d => devices'[e] = devices[e]
      BY <1>3, <3>1 DEF DeviceType
    <3>3. \A i \in 1 .. Len(devices'[d].outbox) :
              /\ i + 1 \in 1 .. Len(devices[d].outbox)
              /\ devices'[d].outbox[i] = devices[d].outbox[i + 1]
      <4>1. PICK s \in Seq(MessageType) : s = devices[d].outbox
        BY <1>6
      <4>2. \A i \in 1 .. Len(Tail(s)) : i + 1 \in 1 .. Len(s) /\ Tail(s)[i] = s[i + 1]
        BY <3>1, <4>1, TailElements
      <4>3. devices'[d].outbox = Tail(s)
        BY <3>2, <4>1
      <4> QED BY <4>1, <4>2, <4>3
    <3> QED BY <1>4, <3>2, <3>3
  <2> QED BY <2>1, <2>2, <2>3 DEF ModemStep
<1>8. \A k \in Nat, kind \in Kinds : Sent(k, kind)' => Sent(k, kind)
  BY <1>1, <1>7, SentBefore
<1> QED BY <1>1, <1>2, <1>8, ItemsShrink

\* An answer and its item are taken off their lists together.
LEMMA FirstItemAlone ==
    ASSUME NEW S, S \subseteq ItemType, \A i, j \in S : i.serial = j.serial => i = j,
           NEW i \in FirstItem(S), NEW j \in FirstItem(S)
    PROVE  i = j
<1>1. i \in S /\ j \in S /\ Precedes(i, j) /\ Precedes(j, i)
  BY DEF FirstItem
<1>2. /\ Position(i.adapter) \in Nat /\ Position(j.adapter) \in Nat
      /\ i.serial \in Nat /\ j.serial \in Nat
  BY <1>1, PositionType DEF ItemType
<1>3. i.serial = j.serial
  BY <1>1, <1>2 DEF Precedes
<1> QED BY <1>1, <1>3

LEMMA TakenItems ==
    ASSUME MatchInv, ItemsInv, Remembers, NEW d \in Device, InboundTake(d)
    PROVE  ItemsInv'
<1>1. PICK m : m = Head(devices[d].outbox)
  OBVIOUS
<1>2. PICK found : found = FindTid(transactions, m.tid)
  OBVIOUS
<1>3. /\ inbound[d] = {} /\ devices[d].outbox # <<>> /\ ~IsIndication(m)
      /\ devices' = [devices EXCEPT ![d].outbox = Tail(@)]
      /\ transactions' = transactions \ found
      /\ inbound' = [inbound EXCEPT ![d] = {[message |-> m, item |-> i] : i \in found}]
      /\ UNCHANGED <<serial, irps, thread, received>>
      /\ (\E i \in found : Physical[i.adapter] # d) => "crossed" \in faults'
  BY <1>1, <1>2 DEF InboundTake, FaultIf
<1>4. TypeInv /\ devices \in [Device -> DeviceType] /\ devices[d].outbox \in Seq(MessageType)
  BY OutboxType DEF MatchInv, TypeInv, WireOK, WireTypeOK, DeviceType
<1>5. m \in MessageType /\ m.kind \in Kinds
  <2>1. m \in MessageType
    BY <1>1, <1>3, <1>4
  <2> QED BY <1>3, <2>1 DEF IsIndication, MessageType
<1>6. Sent(m.serial, m.kind)
  <2>1. 1 \in 1 .. Len(devices[d].outbox) /\ devices[d].outbox[1] = m
    BY <1>1, <1>3, <1>4
  <2> QED BY <2>1 DEF Sent
<1>7. /\ found \subseteq transactions
      /\ \A i \in found : i.tid = m.tid
      /\ \A i, j \in found : i = j
  <2> DEFINE S == {i \in transactions : i.tid = m.tid}
  <2>1. S \subseteq ItemType /\ found = FirstItem(S)
    BY <1>2, <1>4, TransactionsType DEF FindTid
  <2>2. \A i, j \in S : i.serial = j.serial => i = j
    BY DEF ItemsInv, ItemsDiffer
  <2>3. found \subseteq S
    BY <2>1 DEF FirstItem
  <2> HIDE DEF S
  <2>4. \A i, j \in found : i = j
    BY <2>1, <2>2, FirstItemAlone
  <2> QED BY <2>3, <2>4 DEF S
<1>8. /\ inbound'[d] = {[message |-> m, item |-> i] : i \in found}
      /\ \A e \in Device : e # d => inbound'[e] = inbound[e]
  BY <1>3, <1>4 DEF TypeInv, WireOK, WireTypeOK
<1>9. /\ \A i \in Held' : i \in Held \/ i \in found
      /\ \A h \in inbound'[d] : h.item \in found /\ h.message = m
  BY <1>8 DEF Held
<1>10. \A k \in Nat, kind \in Kinds : Sent(k, kind)' => Sent(k, kind)
  <2> SUFFICES ASSUME NEW k \in Nat, NEW kind \in Kinds, Sent(k, kind)' PROVE Sent(k, kind)
    OBVIOUS
  <2>1. CASE \E r \in irps' : r.message.serial = k /\ r.message.kind = kind
    BY <1>3, <2>1 DEF Sent
  <2>2. ASSUME NEW e \in Device, NEW i \in 1 .. Len(devices'[e].outbox),
               devices'[e].outbox[i].serial = k /\ devices'[e].outbox[i].kind = kind
        PROVE  Sent(k, kind)
    <3>1. /\ devices'[d].outbox = Tail(devices[d].outbox)
          /\ \A c \in Device : c # d => devices'[c] = devices[c]
      BY <1>3, <1>4 DEF DeviceType
    <3>2. CASE e # d
      BY <2>2, <3>1, <3>2 DEF Sent
    <3>3. CASE e = d
      <4>1. PICK s \in Seq(MessageType) : s = devices[d].outbox
        BY <1>4
      <4>2. \A j \in 1 .. Len(Tail(s)) : j + 1 \in 1 .. Len(s) /\ Tail(s)[j] = s[j + 1]
        BY <1>3, <4>1, TailElements
      <4>3. i + 1 \in 1 .. Len(devices[d].outbox)
            /\ devices'[e].outbox[i] = devices[d].outbox[i + 1]
        BY <3>1, <3>3, <4>1, <4>2
      <4> QED BY <2>2, <4>3 DEF Sent
    <3> QED BY <3>2, <3>3
  <2>3. ASSUME NEW e \in Device, NEW h \in inbound'[e],
               h.message.serial = k /\ h.message.kind = kind
        PROVE  Sent(k, kind)
    <3>1. CASE e # d
      BY <1>8, <2>3, <3>1 DEF Sent
    <3>2. CASE e = d
      BY <1>6, <1>9, <2>3, <3>2
    <3> QED BY <3>1, <3>2
  <2> QED BY <2>1, <2>2, <2>3 DEF Sent
<1>11. /\ \A u \in Thread : /\ thread'[u] = thread[u]
                            /\ InCall(u)' <=> InCall(u)
                            /\ Event(u)' = Event(u)
       /\ \A i : \A u \in Thread : Awaits(i, u) => Awaits(i, u)'
  BY <1>3 DEF InCall, Event, Awaits
<1>12. \A i \in transactions' \cup Held' : i \in transactions \cup Held
  BY <1>3, <1>7, <1>9
<1>13. SerialsOK'
  BY <1>3, <1>10, <1>11, <1>12 DEF ItemsInv, SerialsOK
<1>14. ItemsDiffer'
  <2>1. (\A i, j \in transactions : i.serial = j.serial => i = j)'
    BY <1>3 DEF ItemsInv, ItemsDiffer
  <2>2. (\A i \in transactions, j \in Held : i.serial # j.serial)'
    BY <1>3, <1>7, <1>9 DEF ItemsInv, ItemsDiffer
  <2>3. ASSUME NEW c \in Device, NEW e \in Device, NEW h \in inbound'[c], NEW k \in inbound'[e],
               h.item.serial = k.item.serial
        PROVE  c = e /\ h = k
    <3>1. \A b \in Device : \A x \in inbound[b] : x.item \in Held
      BY DEF Held
    <3>2. CASE c # d /\ e # d
      BY <1>8, <2>3, <3>2 DEF ItemsInv, ItemsDiffer
    <3>3. CASE c = d /\ e # d
      BY <1>7, <1>8, <1>9, <2>3, <3>1, <3>3 DEF ItemsInv, ItemsDiffer
    <3>4. CASE c # d /\ e = d
      BY <1>7, <1>8, <1>9, <2>3, <3>1, <3>4 DEF ItemsInv, ItemsDiffer
    <3>5. CASE c = d /\ e = d
      BY <1>7, <1>8, <3>5
    <3> QED BY <3>2, <3>3, <3>4, <3>5
  <2> QED BY <2>1, <2>2, <2>3 DEF ItemsDiffer
<1>15. OwnItemOK'
  BY <1>11, <1>12 DEF ItemsInv, OwnItemOK
<1>16. KindsOK'
  <2>1. \A u \in Thread : thread[u].serial \in Nat
    BY <1>4, ThreadIsTyped DEF ThreadType
  <2> QED BY <1>10, <1>11, <2>1 DEF ItemsInv, KindsOK
<1>17. ItemsOK'
  <2> SUFFICES ASSUME Orderly', NEW i \in transactions'
               PROVE  (\/ \E u \in Thread : Awaits(i, u)
                       \/ "mistaken" \in faults /\ \A kind \in Kinds : ~Sent(i.serial, kind))'
    BY DEF ItemsOK
  <2>1. \/ \E u \in Thread : Awaits(i, u)
        \/ "mistaken" \in faults /\ \A kind \in Kinds : ~Sent(i.serial, kind)
    BY <1>3, OrderlyBefore DEF ItemsInv, ItemsOK
  <2>2. i.serial \in Nat
    BY <1>3, <1>4, TransactionsType
  <2> QED BY <1>10, <1>11, <2>1, <2>2 DEF Remembers
<1>18. HeldOK'
  <2> SUFFICES ASSUME Orderly', NEW i \in Held' PROVE \E u \in Thread : Awaits(i, u)
    BY <1>11 DEF HeldOK
  <2>1. Orderly /\ "crossed" \notin faults' /\ "wrapped" \notin faults
    BY OrderlyBefore DEF Orderly, Excused, MixedUp
  <2>2. CASE i \in Held
    BY <2>1, <2>2 DEF ItemsInv, HeldOK
  <2>3. CASE i \in found
    <3>1. i \in transactions /\ i.tid = m.tid /\ Physical[i.adapter] = d
      BY <1>3, <1>7, <2>1, <2>3
    <3>2. <<i.tid, i.serial>> \in Numbers(d)
      BY <3>1 DEF Numbers, About
    <3>3. <<m.tid, m.serial>> \in Numbers(d)
      <4>1. m \in About(d)
        <5>1. 1 \in 1 .. Len(devices[d].outbox) /\ devices[d].outbox[1] = m
          BY <1>1, <1>3, <1>4
        <5> QED BY <5>1 DEF About
      <4> QED BY <4>1 DEF Numbers
    <3>4. i.tid # 0
      BY <1>4, <3>1, TransactionsType
    <3>5. i.serial = m.serial
      BY <2>1, <3>1, <3>2, <3>3, <3>4 DEF MatchInv, SameOK
    <3>6. Sent(i.serial, m.kind)
      BY <1>6, <3>5
    <3> QED BY <1>5, <2>1, <3>1, <3>6 DEF ItemsInv, ItemsOK
  <2> QED BY <1>9, <2>2, <2>3
<1>19. SignalsOK'
  <2> SUFFICES ASSUME Orderly', NEW e \in received'
               PROVE  \E u \in Thread :
                         /\ InCall(u)' /\ Event(u)' = e
                         /\ \A i \in transactions' \cup Held' : i.serial # thread'[u].serial
    BY DEF SignalsOK
  <2>1. PICK u \in Thread : /\ InCall(u) /\ Event(u) = e
                            /\ \A i \in transactions \cup Held : i.serial # thread[u].serial
    BY <1>3, OrderlyBefore DEF ItemsInv, SignalsOK
  <2> QED BY <1>11, <1>12, <2>1
<1>20. UnsharedOK'
  BY <1>11, OrderlyBefore DEF ItemsInv, UnsharedOK
<1> QED BY <1>13, <1>14, <1>15, <1>16, <1>17, <1>18, <1>19, <1>20 DEF ItemsInv

\* An answer that is handled wakes the call whose request it answers.
LEMMA HandledItems ==
    ASSUME MatchInv, JobsOK, ItemsInv, Remembers, NEW d \in Device, InboundHandle(d)
    PROVE  ItemsInv'
<1>1. PICK h \in inbound[d] :
        /\ inbound' = [inbound EXCEPT ![d] = {}]
        /\ received' = received \cup
              (IF Wakes(h.message)
               THEN {<<IF h.message.kind \in {"SYNC", "VERSION"} THEN h.item.adapter
                       ELSE h.item.context, h.message.kind>>}
               ELSE {})
        /\ UNCHANGED <<transactions, serial, irps, devices, thread>>
  BY DEF InboundHandle, book
<1> DEFINE waiter == IF h.message.kind \in {"SYNC", "VERSION"} THEN h.item.adapter
                     ELSE h.item.context
<1>2. \A e \in received' : e \in received \/ e = <<waiter, h.message.kind>>
  BY <1>1
<1>3. TypeInv /\ h.message.kind \in Kinds
  BY DEF MatchInv, TypeInv, WireOK, AnswersOK
<1>4. /\ inbound'[d] = {} /\ \A e \in Device : inbound'[e] \subseteq inbound[e]
  BY <1>1, <1>3 DEF TypeInv, WireOK, WireTypeOK
<1>5. Held' \subseteq Held
  BY <1>4 DEF Held
<1>6. \A k, kind : Sent(k, kind)' => Sent(k, kind)
  BY <1>1, <1>4 DEF Sent
<1>7. /\ \A u \in Thread : /\ thread'[u] = thread[u]
                           /\ InCall(u)' <=> InCall(u)
                           /\ Event(u)' = Event(u)
      /\ \A i : \A u \in Thread : Awaits(i, u) => Awaits(i, u)'
  BY <1>1 DEF InCall, Event, Awaits
<1>8. SerialsOK'
  BY <1>1, <1>5, <1>6, <1>7 DEF ItemsInv, SerialsOK
<1>9. ItemsDiffer'
  BY <1>1, <1>4, <1>5 DEF ItemsInv, ItemsDiffer
<1>10. OwnItemOK'
  BY <1>1, <1>5, <1>7 DEF ItemsInv, OwnItemOK
<1>11. KindsOK'
  BY <1>6, <1>7 DEF ItemsInv, KindsOK
<1>12. ItemsOK'
  <2> SUFFICES ASSUME Orderly', NEW i \in transactions'
               PROVE  (\/ \E u \in Thread : Awaits(i, u)
                       \/ "mistaken" \in faults /\ \A kind \in Kinds : ~Sent(i.serial, kind))'
    BY DEF ItemsOK
  <2>1. \/ \E u \in Thread : Awaits(i, u)
        \/ "mistaken" \in faults /\ \A kind \in Kinds : ~Sent(i.serial, kind)
    BY <1>1, OrderlyBefore DEF ItemsInv, ItemsOK
  <2> QED BY <1>6, <1>7, <2>1 DEF Remembers
<1>13. HeldOK'
  BY <1>5, <1>7, OrderlyBefore DEF ItemsInv, HeldOK
<1>14. SignalsOK'
  <2> SUFFICES ASSUME Orderly', NEW e \in received'
               PROVE  \E u \in Thread :
                         /\ InCall(u)' /\ Event(u)' = e
                         /\ \A i \in transactions' \cup Held' : i.serial # thread'[u].serial
    BY DEF SignalsOK
  <2>1. Orderly
    BY OrderlyBefore
  <2>2. CASE e \in received
    <3>1. PICK u \in Thread : /\ InCall(u) /\ Event(u) = e
                              /\ \A i \in transactions \cup Held : i.serial # thread[u].serial
      BY <2>1, <2>2 DEF ItemsInv, SignalsOK
    <3> QED BY <1>1, <1>5, <1>7, <3>1
  <2>3. CASE e = <<waiter, h.message.kind>>
    <3>1. h.item \in Held
      BY DEF Held
    <3>2. PICK t \in Thread : Awaits(h.item, t)
      BY <2>1, <3>1 DEF ItemsInv, HeldOK
    <3>3. h.item.serial = h.message.serial
      BY <2>1 DEF MatchInv, AnswersMatch, Orderly, Excused
    <3>4. Sent(thread[t].serial, h.message.kind)
      BY <3>2, <3>3 DEF Sent, Awaits
    <3>5. h.message.kind = thread[t].kind
      BY <1>3, <3>2, <3>4 DEF ItemsInv, KindsOK, Awaits
    <3>6. thread[t].context = h.item.context /\ thread[t].adapter = h.item.adapter
          /\ thread[t].serial = h.item.serial /\ InCall(t)
      BY <3>2 DEF Awaits
    <3>7. waiter = thread[t].context
      <4>1. thread[t].pc \in Calls
        BY <3>6 DEF InCall, Calls
      <4>2. \/ thread[t].context = thread[t].adapter
            \/ thread[t].kind \in {"GET", "RELEASE"}
        BY <4>1 DEF JobsOK, OwnCall
      <4> QED BY <3>5, <3>6, <4>2
    <3>8. \A i \in transactions' : i.serial # thread[t].serial
      BY <1>1, <3>1, <3>6 DEF ItemsInv, ItemsDiffer
    <3>9. ASSUME NEW c \in Device, NEW k \in inbound'[c] PROVE k.item.serial # thread[t].serial
      <4>1. SUFFICES ASSUME k.item.serial = h.item.serial PROVE FALSE
        BY <3>6
      <4>2. c = d
        BY <1>4, <4>1 DEF ItemsInv, ItemsDiffer
      <4> QED BY <1>4, <4>2
    <3>10. \A i \in Held' : i.serial # thread[t].serial
      BY <3>9 DEF Held
    <3>11. Event(t) = e
      BY <2>3, <3>5, <3>7 DEF Event
    <3> QED BY <1>7, <3>6, <3>8, <3>10, <3>11
  <2> QED BY <1>2, <2>2, <2>3
<1>15. UnsharedOK'
  BY <1>7, OrderlyBefore DEF ItemsInv, UnsharedOK
<1> QED BY <1>8, <1>9, <1>10, <1>11, <1>12, <1>13, <1>14, <1>15 DEF ItemsInv

LEMMA TransactionItems ==
    ASSUME MatchInv, JobsOK, ItemsInv, Remembers, TransactionStep
    PROVE  ItemsInv'
BY CallItems, LowerItems, ModemItems, TakenItems, HandledItems
   DEF TransactionStep, InboundStep, MatchInv

\* The steps of MPThread and of programs begin and end no wait for an answer.
LEMMA TurnedItems ==
    ASSUME TypeInv, ItemsInv, Aside, received' \subseteq received, NEW t \in Thread,
           NEW job, NEW stage, NEW io, NEW file, Turns(t, job, stage, io, file)
    PROVE  ItemsInv'
<1>1. /\ \A u \in Thread : u # t => thread'[u] = thread[u]
      /\ NoCall(thread[t]) /\ NoCall(thread'[t])
  BY DEF Turns
<1>2. \A u \in Thread : InCall(u)' <=> InCall(u)
  BY <1>1 DEF InCall, NoCall
<1>3. ~InCall(t)
  BY <1>1 DEF InCall, NoCall
<1>4. \A u \in Thread : SameCall(u)
  BY <1>1, <1>2, <1>3 DEF SameCall
<1>5. \A k, kind : Sent(k, kind)' <=> Sent(k, kind)
  BY DEF Aside, Sent
<1> QED BY <1>4, <1>5, ItemsShrink DEF Aside, book

LEMMA StillItems ==
    ASSUME TypeInv, ItemsInv, Remembers, UNCHANGED <<book, wire, thread, received>>
    PROVE  ItemsInv'
<1>1. \A u \in Thread : SameCall(u)
  BY DEF SameCall, InCall
<1>2. \A k, kind : Sent(k, kind)' <=> Sent(k, kind)
  BY DEF Sent, wire
<1> QED BY <1>1, <1>2, ItemsShrink DEF book, wire

LEMMA MPThreadItems ==
    ASSUME TypeInv, JobsOK, ItemsInv, NEW a \in Adapter, MPThreadStep(a)
    PROVE  ItemsInv'
<1>1. a \in Thread /\ Aside
  BY Devices, MPThreadAside
<1>2. /\ received' \subseteq received
      /\ \E job, stage, io, file : Turns(a, job, stage, io, file)
  BY StartInitSays, SyncPassSays, SyncCountSays, IdleCheckSays, IdleWalkSays, IdleResetSays
     DEF MPThreadStep
<1> QED BY <1>1, <1>2, TurnedItems

LEMMA ProgramItems ==
    ASSUME TypeInv, JobsOK, ItemsInv, NEW p \in App, ProgramStep(p)
    PROVE  ItemsInv'
<1>1. p \in Thread /\ Aside
  BY ProgramIsThread, ProgramAside
<1>2. /\ received' \subseteq received
      /\ \E job, stage, io, file : Turns(p, job, stage, io, file)
  BY ServiceFileSays, ServiceGotSays, CreateFindSays, CreateReferenceSays, CreateCountSays,
     CreateDecideSays, CreateUndoSays, CloseFindSays, CloseClearSays, CloseCountSays,
     CloseFreeSays
     DEF ProgramStep
<1> QED BY <1>1, <1>2, TurnedItems

LEMMA NextItems ==
    ASSUME MatchInv, JobsOK, ItemsInv, [Next]_vars
    PROVE  ItemsInv'
<1>1. TypeInv /\ Remembers
  BY NextRemembers DEF MatchInv
<1>2. ASSUME NEW t \in Thread, InitStep(t) PROVE ItemsInv'
  <2>1. Aside /\ received' \subseteq received
        /\ \E job, stage, io, file : Turns(t, job, stage, io, file)
    BY <1>1, <1>2, InitStepAside, InitStepSays
  <2> QED BY <1>1, <2>1, TurnedItems
<1>3. ASSUME \/ \E a \in Adapter : InitWanted(a)
             \/ \E d \in Device : LinkDown(d)
             \/ UNCHANGED vars
      PROVE  ItemsInv'
  BY <1>1, <1>3, StillItems DEF InitWanted, LinkDown, vars, tvars
<1> QED BY <1>1, <1>2, <1>3, TransactionItems, MPThreadItems, ProgramItems DEF Next

LEMMA InitItems ==
    ASSUME Init
    PROVE  ItemsInv
<1>1. /\ transactions = {} /\ irps = {} /\ received = {} /\ serial = 0
      /\ inbound = [d \in Device |-> {}]
      /\ \A d \in Device : devices[d].outbox = <<>>
      /\ \A t \in Thread : thread[t] = IdleThread("idle")
  BY DEF Init, Begin
<1>2. \A t \in Thread : ~InCall(t)
  BY <1>1, IdleFields DEF InCall, NoCall
<1>3. Held = {} /\ \A k, kind : ~Sent(k, kind)
  BY <1>1 DEF Held, Sent
<1>4. SerialsOK /\ ItemsDiffer /\ OwnItemOK /\ KindsOK
  BY <1>1, <1>2, <1>3 DEF SerialsOK, ItemsDiffer, OwnItemOK, KindsOK
<1>5. ItemsOK /\ HeldOK /\ SignalsOK /\ UnsharedOK
  BY <1>1, <1>2, <1>3 DEF ItemsOK, HeldOK, SignalsOK, UnsharedOK
<1> QED BY <1>4, <1>5 DEF ItemsInv

LEMMA ItemsInvariant == Spec => [](MatchInv /\ JobsOK /\ ClientInv /\ ItemsInv)
<1>1. Init => MatchInv /\ JobsOK /\ ClientInv /\ ItemsInv
  BY InitMatches, InitClients, InitItems
<1>2. MatchInv /\ JobsOK /\ ClientInv /\ ItemsInv /\ [Next]_vars
      => (MatchInv /\ JobsOK /\ ClientInv /\ ItemsInv)'
  <2>1. MatchInv => TypeInv
    BY DEF MatchInv
  <2> QED BY <2>1, NextMatches, NextJobs, NextClients, NextItems
<1> QED BY <1>1, <1>2, PTL DEF Spec

\* Whatever ends a call, by an answer, by a timeout that an answer races with or by a
\* failure of its IRP, and however calls of several threads interleave, nothing is left
\* of it that a later answer could meet, unless an event was set after its call or two
\* threads await the same one (MPQCTL_FindQMICTLTransactionItem,
\* MPQCTL_RemoveOldTransactionItem, MPQCTL_SendIRPCompletion).
THEOREM ItemsFollowCalls == Spec => []ItemsAreCurrent
<1>1. ItemsInv => ItemsAreCurrent
  <2> SUFFICES ASSUME ItemsInv, NEW i \in transactions
               PROVE  \/ \E t \in Thread : InCall(t) /\ thread[t].serial = i.serial
                      \/ Excused(MixedUp \cup {"mistaken", "overtaken", "shared"})
    BY DEF ItemsAreCurrent
  <2>1. CASE ~Orderly
    BY <2>1 DEF Orderly, Excused
  <2>2. CASE "mistaken" \in faults
    BY <2>2 DEF Excused
  <2>3. CASE \E t \in Thread : Awaits(i, t)
    BY <2>3 DEF Awaits
  <2> QED BY <2>1, <2>2, <2>3 DEF ItemsInv, ItemsOK
<1> QED BY <1>1, ItemsInvariant, PTL

-----------------------------------------------------------------------------
(* Freed clients *)

\* Why a client that was freed may be used.
Warned == Excused(MixedUp \cup
    {"overtaken", "shared", "unreferenced", "lateUndo", "raced", "aliased"})
StaysDefined == Defined => Defined'

LEMMA WarnedBy ==
    ASSUME NEW fault \in {"unreferenced", "lateUndo", "raced", "aliased"},
           fault \in faults'
    PROVE  Warned'
BY DEF Warned, Excused

\* An open or a close that counts the record's IRP finds it there.
LEMMA CountedIsThere ==
    ASSUME ClientInv, JobsOK, Remembers, NEW p \in App, NEW c \in Client, thread[p].io = c,
           thread[p].stage \in {"referenced", "counted", "released", "cleared"},
           IoDev[c].life = "freed"
    PROVE  Warned'
<1>1. p \in Refs(c)
  BY DEF Refs
<1>2. "unreferenced" \in faults
  BY <1>1 DEF ClientInv, FreedOK, Excused
<1> QED BY <1>2, WarnedBy DEF Remembers

\* What a thread's job is follows from its stage.
LEMMA StageTellsJob ==
    ASSUME TypeInv, JobsOK, NEW t \in Thread
    PROVE  /\ thread[t].stage = "got" => thread[t].job = "service" /\ t \in App
           /\ thread[t].stage = "release" => thread[t].job = "check" /\ t \in Adapter
           /\ thread[t].stage = "released" => thread[t].job = "close" /\ t \in App
<1>1. thread[t].job \in Jobs
  BY ThreadIsTyped DEF ThreadType
<1>2. JobOK(t, thread[t])
  BY DEF JobsOK
<1> QED BY <1>1, <1>2 DEF Jobs, JobOK, InitStages, Creating, Closing, None

\* The client of a call is there until the call has ended.
LEMMA CalledIsThere ==
    ASSUME TypeInv, JobsOK, ClientInv, Remembers, NEW t \in Thread, InCall(t),
           thread[t].context \in Client, IoDev[thread[t].context].life = "freed"
    PROVE  Warned'
<1>1. PICK c \in Client : c = thread[t].context
  OBVIOUS
<1>2. thread[t].pc \in Calls /\ thread[t].adapter \notin Client
  BY ThreadIsTyped, AdaptersAssumption DEF InCall, Calls, ThreadType, Context
<1>3. /\ thread[t].stage \in {"got", "release", "released"} /\ thread[t].io = c
  BY <1>1, <1>2 DEF JobsOK, OwnCall
<1>4. ~Unheld(c)
  BY <1>1 DEF Unheld
<1>5. CASE thread[t].stage = "got"
  <2>1. "aliased" \in faults
    BY <1>3, <1>4, <1>5, StageTellsJob DEF ClientInv, ServiceOK, Excused
  <2> QED BY <2>1, WarnedBy DEF Remembers
<1>6. CASE thread[t].stage = "release"
  <2>1. "aliased" \in faults \/ "raced" \in faults
    BY <1>3, <1>4, <1>6, StageTellsJob DEF ClientInv, CheckOK, Excused
  <2> QED BY <2>1, WarnedBy DEF Remembers
<1>7. CASE thread[t].stage = "released"
  BY <1>1, <1>3, <1>7, StageTellsJob, CountedIsThere
<1> QED BY <1>3, <1>5, <1>6, <1>7

LEMMA HandleBreaks ==
    ASSUME TypeInv, JobsOK, ClientInv, ItemsInv, Remembers, NEW d \in Device,
           InboundHandle(d)
    PROVE  StaysDefined \/ Warned'
<1>1. PICK h \in inbound[d] :
        faults' = faults \cup
            FaultIf(h.item.context \in Client /\ IoDev[h.item.context].life = "freed", "broken")
  BY DEF InboundHandle
<1>2. CASE ~(h.item.context \in Client /\ IoDev[h.item.context].life = "freed")
  BY <1>1, <1>2 DEF FaultIf, StaysDefined, Defined
<1>3. CASE h.item.context \in Client /\ IoDev[h.item.context].life = "freed"
  <2>1. CASE ~Orderly'
    BY <2>1 DEF Orderly, Excused, Warned
  <2>2. CASE Orderly'
    <3>1. h.item \in Held
      BY DEF Held
    <3>2. PICK t \in Thread : Awaits(h.item, t)
      BY <2>2, <3>1, OrderlyBefore DEF ItemsInv, HeldOK
    <3> QED BY <1>3, <3>2, CalledIsThere DEF Awaits
  <2> QED BY <2>1, <2>2
<1> QED BY <1>2, <1>3

LEMMA ResetBreaks ==
    ASSUME TypeInv, JobsOK, ClientInv, Remembers, NEW a \in Adapter, IdleReset(a)
    PROVE  StaysDefined \/ Warned'
<1>1. PICK c : c = thread[a].io
  OBVIOUS
<1>2. /\ thread[a].stage = "release"
      /\ faults' = faults \cup FaultIf(StillKnown(c), "unreleased")
                          \cup FaultIf(IoDev[c].life = "freed", "broken")
  BY <1>1, IdleResetSays DEF IdleReset
<1>3. CASE IoDev[c].life # "freed"
  BY <1>2, <1>3 DEF FaultIf, StaysDefined, Defined
<1>4. CASE IoDev[c].life = "freed"
  <2>1. "aliased" \in faults \/ "raced" \in faults
    BY <1>1, <1>2, <1>4 DEF ClientInv, CheckOK, Excused, Unheld
  <2> QED BY <2>1, WarnedBy DEF Remembers
<1> QED BY <1>3, <1>4

LEMMA ProgramBreaks ==
    ASSUME TypeInv, JobsOK, ClientInv, Remembers, NEW p \in App, ProgramStep(p)
    PROVE  StaysDefined \/ Warned'
<1>1. PICK c : c = thread[p].io
  OBVIOUS
<1>2. CASE CreateReference(p)
  <2>1. faults' = faults \cup FreedIf(c, "unreferenced")
    BY <1>1, <1>2 DEF CreateReference
  <2> QED BY <2>1, WarnedBy DEF FreedIf, StaysDefined, Defined
<1>3. CASE CreateUndo(p)
  <2>1. faults' = faults \cup FreedIf(c, "lateUndo")
    BY <1>1, <1>3 DEF CreateUndo
  <2> QED BY <2>1, WarnedBy DEF FreedIf, StaysDefined, Defined
<1>4. CASE CreateCount(p)
  <2>1. faults' = faults \cup Touched(c) /\ thread[p].stage = "referenced" /\ c \in Client
    BY <1>1, <1>4, CreateCountSays DEF CreateCount
  <2> QED BY <1>1, <2>1, CountedIsThere DEF Touched, FaultIf, StaysDefined, Defined
<1>5. CASE CreateDecide(p)
  <2>1. /\ "broken" \in faults' => "broken" \in faults \/ IoDev[c].life = "freed"
        /\ thread[p].stage = "counted" /\ c \in Client
    <3>1. thread[p].stage = "counted" /\ c \in Client
      BY <1>1, <1>5, CreateDecideSays
    <3>2. \/ faults' = faults \cup Touched(thread[p].io) \cup FaultIf(\E a \in Adapter :
                          thread[a].job = "check" /\ thread[a].io = thread[p].io, "raced")
          \/ faults' = faults \cup Touched(thread[p].io)
      BY ZenonT(30), <1>5 DEF CreateDecide
    <3> QED BY <1>1, <3>1, <3>2 DEF Touched, FaultIf
  <2> QED BY <1>1, <2>1, CountedIsThere DEF StaysDefined, Defined
<1>6. CASE CloseClear(p)
  <2>1. /\ "broken" \in faults' => "broken" \in faults \/ IoDev[c].life = "freed"
        /\ thread[p].stage = "released" /\ c \in Client
    BY <1>1, <1>6, CloseClearSays DEF CloseClear, FaultIf
  <2> QED BY <1>1, <2>1, CountedIsThere DEF StaysDefined, Defined
<1>7. CASE \/ ServiceFile(p) \/ ServiceGot(p) \/ CreateFind(p) \/ CloseFind(p)
           \/ CloseCount(p) \/ CloseFree(p)
  <2>1. "broken" \in faults' => "broken" \in faults
    <3>1. CASE ServiceFile(p) \/ ServiceGot(p) \/ CreateFind(p)
      BY <3>1 DEF ServiceFile, ServiceGot, CreateFind
    <3>2. CASE CloseFind(p)
      BY SMTT(30), <3>2 DEF CloseFind, FaultIf
    <3>3. CASE CloseCount(p) \/ CloseFree(p)
      BY <3>3 DEF CloseCount, CloseFree
    <3> QED BY <1>7, <3>1, <3>2, <3>3
  <2> QED BY <2>1 DEF StaysDefined, Defined
<1> QED BY <1>2, <1>3, <1>4, <1>5, <1>6, <1>7 DEF ProgramStep

\* The other steps use no client that may have been freed.
LEMMA OthersBreakNothing ==
    ASSUME \/ \E t \in Thread : InitStep(t) \/ CallStep(t)
           \/ \E a \in Adapter : (MPThreadStep(a) /\ ~IdleReset(a)) \/ InitWanted(a)
           \/ LowerStep
           \/ \E d \in Device : \/ ModemStep(d) \/ InboundTake(d) \/ InboundIndication(d)
                                \/ LinkDown(d)
           \/ UNCHANGED vars
    PROVE  StaysDefined
<1> SUFFICES "broken" \in faults' => "broken" \in faults
  BY DEF StaysDefined, Defined
<1>1. ASSUME NEW t \in Thread, InitStep(t) PROVE "broken" \in faults' => "broken" \in faults
  <2>1. CASE InitPolled(t)
    <3>1. faults' = faults \/ faults' = faults \cup Lets(t, FALSE)
      BY Zenon, <2>1 DEF InitPolled
    <3> QED BY <3>1 DEF Lets, FaultIf
  <2>2. CASE InitVersion(t)
    BY <2>2 DEF InitVersion, Again, GivesUp, Lets, FaultIf
  <2>3. CASE InitSync(t)
    BY <2>3 DEF InitSync, Again, GivesUp, Lets, FaultIf
  <2>4. CASE InitMain(t)
    BY <2>4 DEF InitMain
  <2>6. CASE InitFormat(t)
    BY <2>6 DEF InitFormat, FaultIf
  <2>5. CASE OpenedService(t)
    <3>1. \/ faults' = faults
          \/ faults' = faults \cup {"zeroed"}
          \/ faults' = faults \cup
                FaultIf(devices[Physical[AdapterOf(t)]].ids # {}, "wiped")
      BY <2>5 DEF OpenedService
    <3> QED BY <3>1 DEF FaultIf
  <2> QED BY <1>1, <2>1, <2>2, <2>3, <2>4, <2>5, <2>6 DEF InitStep
<1>2. ASSUME NEW t \in Thread, CallStep(t) PROVE "broken" \in faults' => "broken" \in faults
  <2>1. CASE Request(t)
    BY <2>1 DEF Request, FaultIf
  <2>2. CASE RequestRefused(t)
    BY <2>2 DEF RequestRefused, FaultIf
  <2>3. CASE RemoveOldTransactionItem(t)
    BY <2>3 DEF RemoveOldTransactionItem, FaultIf
  <2>4. CASE RequestFails(t) \/ Signalled(t)
    BY <2>4 DEF RequestFails, Signalled
  <2>5. CASE Timeout(t) \/ ClearAfterTimeout(t)
    BY <2>5 DEF Timeout, ClearAfterTimeout
  <2> QED BY <1>2, <2>1, <2>2, <2>3, <2>4, <2>5 DEF CallStep
<1>3. ASSUME NEW a \in Adapter, MPThreadStep(a), ~IdleReset(a)
      PROVE  "broken" \in faults' => "broken" \in faults
  <2>1. CASE StartInit(a) \/ IdleCheck(a)
    BY <2>1 DEF StartInit, IdleCheck
  <2>2. CASE SyncPass(a)
    BY <2>2 DEF SyncPass, Disconnect, FaultIf
  <2>3. CASE SyncCount(a)
    BY <2>3 DEF SyncCount, FaultIf
  <2>4. CASE IdleWalk(a)
    BY <2>4, SMTT(30) DEF IdleWalk, FaultIf
  <2> QED BY <1>3, <2>1, <2>2, <2>3, <2>4 DEF MPThreadStep
<1>4. ASSUME NEW r \in irps, RequestSent(r) \/ RequestLost(r)
      PROVE  "broken" \in faults' => "broken" \in faults
  <2>1. CASE RequestLost(r)
    BY <2>1 DEF RequestLost, FaultIf
  <2>2. CASE RequestSent(r)
    <3>1. \/ faults' = faults
          \/ faults' = faults \cup FaultIf(
                r.message.kind = "SYNC" /\ devices[r.device].ids # {}, "wiped")
      BY Zenon, <2>2
         DEF RequestSent, DeviceGives, DeviceTakesBack, DeviceAgrees, DeviceRefuses,
             DeviceSilent
    <3> QED BY <3>1 DEF FaultIf
  <2> QED BY <1>4, <2>1, <2>2 DEF LowerStep
<1>5. ASSUME NEW d \in Device, \/ ModemStep(d) \/ InboundTake(d) \/ InboundIndication(d)
                               \/ LinkDown(d)
      PROVE  "broken" \in faults' => "broken" \in faults
  <2>1. CASE ModemStep(d)
    BY <2>1 DEF ModemStep, DeviceRestarts, DeviceRevokes
  <2>2. CASE InboundTake(d)
    BY <2>2 DEF InboundTake, FaultIf
  <2>3. CASE InboundIndication(d)
    BY <2>3 DEF InboundIndication
  <2>4. CASE LinkDown(d)
    BY <2>4 DEF LinkDown, Disconnect, FaultIf
  <2> QED BY <1>5, <2>1, <2>2, <2>3, <2>4 DEF ModemStep
<1>6. ASSUME NEW a \in Adapter, InitWanted(a) PROVE "broken" \in faults' => "broken" \in faults
  BY <1>6 DEF InitWanted
<1>7. ASSUME UNCHANGED vars PROVE "broken" \in faults' => "broken" \in faults
  BY <1>7 DEF vars, tvars
<1> QED BY <1>1, <1>2, <1>3, <1>4, <1>5, <1>6, <1>7 DEF LowerStep

LEMMA NextBreaks ==
    ASSUME TypeInv, JobsOK, ClientInv, ItemsInv, [Next]_vars
    PROVE  StaysDefined \/ Warned'
<1>1. Remembers
  BY NextRemembers
<1> QED BY <1>1, HandleBreaks, ResetBreaks, ProgramBreaks, OthersBreakNothing
        DEF Next, TransactionStep, InboundStep

\* A client record of a control device is freed when its last file is closed and no
\* IRP counts (MPIOC_DeleteFilterDevice).  No answer, no idle check, no open and no close
\* uses it after that, however they interleave, but for the ways that the history names.
THEOREM FreedClientsStayUnused == Spec => []FreedIsNotUsed
<1> DEFINE Inv == MatchInv /\ JobsOK /\ ClientInv /\ ItemsInv
<1>1. Init => FreedIsNotUsed
  BY DEF Init, Begin, FreedIsNotUsed, Defined
<1>2. Inv /\ FreedIsNotUsed /\ [Next]_vars => FreedIsNotUsed'
  <2> SUFFICES ASSUME Inv, FreedIsNotUsed, [Next]_vars PROVE FreedIsNotUsed'
    OBVIOUS
  <2>1. TypeInv /\ Remembers
    BY NextRemembers DEF MatchInv
  <2>2. StaysDefined \/ Warned'
    BY <2>1, NextBreaks
  <2>3. Warned => Warned'
    BY <2>1, ExcusesStay DEF Warned
  <2> QED BY <2>2, <2>3 DEF StaysDefined, FreedIsNotUsed, Warned
<1> QED BY <1>1, <1>2, ItemsInvariant, PTL DEF Spec
=============================================================================
