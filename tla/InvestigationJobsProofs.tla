---------------------- MODULE InvestigationJobsProofs ----------------------
(***************************************************************************)
(* Theorems about InvestigationJobs, for any employees, tickets, keys and  *)
(* jobs, any number of racing requests and workers, and any allowance and  *)
(* number of deliveries: markers, keys, claims and results stay consistent *)
(* and the whole implements JobLedger.                                     *)
(***************************************************************************)
EXTENDS InvestigationJobs, ItemsProofs, FiniteSetTheorems

-----------------------------------------------------------------------------
(* The inductive invariant.                                                *)

(* A delivery is counted before it can be the last one.                    *)
VisibleCanBeReceived ==
    \A m \in DOMAIN queue : queue[m].state = "visible" => queue[m].receives < MaxReceives

(* The first half of KeysLeadToTheirJob.                                   *)
PointersLeadToJobs ==
    \A k \in DOMAIN pointer :
        LET id == pointer[k].id
        IN  /\ id \in DOMAIN job
            /\ job[id].requester = k[1]
            /\ job[id].ticket_id = pointer[k].ticket_id

KeyOf(q) == <<q.employee, q.key>>

BoundPcs == {"read_bound_job", "authorize", "send", "mark_sent", "answer"}

(* What an invocation has read about a job remains true: whose job it is,  *)
(* that there is only one, which key is bound to it, and that what it is   *)
(* about to send was pending.                                              *)
KnowsItsJob(q) ==
    q # Idle =>
        /\ \A id \in q.id :
               /\ id \in DOMAIN job
               /\ job[id].requester = q.employee
               /\ job[id].ticket_id = q.ticket_id
        /\ q.pc \notin {"resend", "mark_resent", "fail_dead"} => q.key \in Keys
        /\ q.pc \in {"read_job", "bind"} => \E id \in JobIds : q.id = {id}
        /\ q.pc \in BoundPcs =>
               KeyOf(q) \in DOMAIN pointer /\ q.id = {pointer[KeyOf(q)].id}
        /\ q.pc \in {"send", "mark_sent", "resend", "mark_resent"} => NeedsDispatch(q.body)

(* A worker holds a version of its job; what it is about to claim was not  *)
(* leased, and what it has claimed is running.                             *)
KnowsItsClaim(q) ==
    q # Idle =>
        LET id == q.message[1]
        IN  /\ id \in DOMAIN job
            /\ q.body.attempt <= job[id].attempt
            /\ q.pc = "claim" =>
                   /\ q.body.status \notin Terminal
                   /\ q.body.attempt = job[id].attempt => <<id, q.body.attempt>> \notin lease
            /\ q.pc \in {"authorize", "prepare", "commit", "fail"} => q.body.status = "running"

(* Every job has been charged for.                                         *)
JobsAreCharged ==
    /\ IsFiniteSet(DOMAIN job)
    /\ Cardinality(DOMAIN job) <= used
    /\ used <= Limit

Inv ==
    /\ TypeOK
    /\ VisibleCanBeReceived
    /\ MarkersAreUnfinishedJobs
    /\ ResultsAreCompletedJobs
    /\ PointersLeadToJobs
    /\ OneLivePerJob
    /\ \A r \in Requests : KnowsItsJob(request[r])
    /\ \A w \in Workers : KnowsItsClaim(worker[w])
    /\ JobsAreCharged

-----------------------------------------------------------------------------
(* Initially.                                                              *)
LEMMA InitInv == Init => Inv
<1> SUFFICES ASSUME Init PROVE Inv
  OBVIOUS
<1>1. /\ DOMAIN job = {} /\ DOMAIN pointer = {} /\ DOMAIN active = {}
      /\ DOMAIN saved = {} /\ DOMAIN run = {} /\ DOMAIN queue = {}
      /\ DOMAIN execution = {}
  BY NoItemsType DEF Init
<1>2. IsTable(NoItems, JobIds, Job) /\ IsTable(NoItems, Employees \X Keys, Pointer)
      /\ IsTable(NoItems, Employees \X Tickets, DOMAIN job)
      /\ IsTable(NoItems, JobIds \X Stages, Nat) /\ IsTable(NoItems, JobIds, Nat)
      /\ IsTable(NoItems, Messages, Message)
      /\ IsTable(NoItems, DOMAIN job, {"started", "sent", "failed"})
  BY NoItemsType
<1>3. used \in Nat /\ used <= Limit
  BY JobsAssumption DEF Init
<1>4. TypeOK
  BY <1>1, <1>2, <1>3, JobsAssumption DEF Init, TypeOK
<1>5. JobsAreCharged
  BY <1>1, <1>3, FS_EmptySet DEF JobsAreCharged
<1>6. \A r \in Requests : KnowsItsJob(request[r])
  BY DEF Init, KnowsItsJob
<1>7. \A w \in Workers : KnowsItsClaim(worker[w])
  BY DEF Init, KnowsItsClaim
<1>8. MarkersAreUnfinishedJobs /\ ResultsAreCompletedJobs /\ PointersLeadToJobs
  BY <1>1 DEF MarkersAreUnfinishedJobs, ResultsAreCompletedJobs, PointersLeadToJobs
<1>9. VisibleCanBeReceived /\ OneLivePerJob
  BY <1>1 DEF Init, VisibleCanBeReceived, OneLivePerJob
<1> QED
  BY <1>4, <1>5, <1>6, <1>7, <1>8, <1>9 DEF Inv

-----------------------------------------------------------------------------
(* What invocations know stays true.                                       *)

(* Jobs are never removed, handed over or rewound, bindings of keys stay,  *)
(* and only a new claim is leased.                                         *)
Grows ==
    /\ \A id \in DOMAIN job :
           /\ id \in DOMAIN job'
           /\ job'[id].requester = job[id].requester
           /\ job'[id].ticket_id = job[id].ticket_id
           /\ job[id].attempt <= job'[id].attempt
    /\ \A k \in DOMAIN pointer : k \in DOMAIN pointer' /\ pointer'[k] = pointer[k]
    /\ \A claim \in lease' \ lease : claim[1] \in DOMAIN job /\ job[claim[1]].attempt < claim[2]

(* No stored job is without a type.                                        *)
LEMMA JobShape ==
    ASSUME TypeOK, NEW id \in DOMAIN job
    PROVE  /\ id \in JobIds /\ job[id] \in Job
           /\ job[id].requester \in Employees /\ job[id].ticket_id \in Tickets
           /\ job[id].status \in Statuses /\ job[id].dispatch \in {"pending", "sent"}
           /\ job[id].attempt \in Nat
  BY DEF TypeOK, IsTable, Job

(* Nothing is left to say of an invocation that has ended.                 *)
LEMMA Idles == Idle \notin Local /\ Idle \notin WorkerLocal
  BY DEF Idle, Local, WorkerLocal, RequestPcs, WorkerPcs

(* What a request knows of its job it still knows after any growth.        *)
LEMMA JobKnown ==
    ASSUME NEW q, KnowsItsJob(q), Grows
    PROVE  KnowsItsJob(q)'
  BY DEF KnowsItsJob, Grows, KeyOf, NeedsDispatch

(* A claim that was not leased is not leased by anybody else's.            *)
LEMMA ClaimKnown ==
    ASSUME TypeOK, IsTable(job', JobIds, Job), NEW q \in {Idle} \cup WorkerLocal, KnowsItsClaim(q), Grows
    PROVE  KnowsItsClaim(q)'
<1> SUFFICES ASSUME q # Idle
             PROVE  LET id == q.message[1]
                    IN  /\ id \in DOMAIN job'
                        /\ q.body.attempt <= job'[id].attempt
                        /\ q.pc = "claim" =>
                               /\ q.body.status \notin Terminal
                               /\ q.body.attempt = job'[id].attempt =>
                                      <<id, q.body.attempt>> \notin lease'
                        /\ q.pc \in {"authorize", "prepare", "commit", "fail"} =>
                               q.body.status = "running"
  BY DEF KnowsItsClaim
<1> DEFINE id == q.message[1]
<1>1. /\ id \in DOMAIN job /\ id \in DOMAIN job'
      /\ q.body.attempt \in Nat /\ job[id].attempt \in Nat /\ job'[id].attempt \in Nat
      /\ q.body.attempt <= job[id].attempt /\ job[id].attempt <= job'[id].attempt
  BY JobShape DEF KnowsItsClaim, Grows, WorkerLocal, Job, TypeOK, IsTable
<1>2. ASSUME q.pc = "claim", q.body.attempt = job'[id].attempt
      PROVE  <<id, q.body.attempt>> \notin lease'
  <2>1. q.body.attempt = job[id].attempt
    BY <1>1, <1>2
  <2>2. <<id, q.body.attempt>> \notin lease
    BY <1>2, <2>1 DEF KnowsItsClaim
  <2>3. ~(job[id].attempt < q.body.attempt)
    BY <1>1, <2>1
  <2> QED
    BY <2>2, <2>3 DEF Grows
<1> QED
  BY <1>1, <1>2 DEF KnowsItsClaim

(* At most one request, and at most one worker, takes a step.              *)
RequestMoves ==
    \/ UNCHANGED request
    \/ \E r \in Requests, q \in {Idle} \cup Local :
           KnowsItsJob(q)' /\ request' = [request EXCEPT ![r] = q]

WorkerMoves ==
    \/ UNCHANGED worker
    \/ \E w \in Workers, q \in {Idle} \cup WorkerLocal :
           KnowsItsClaim(q)' /\ worker' = [worker EXCEPT ![w] = q]

(* The others know what they knew.                                         *)
LEMMA LocalsKnow ==
    ASSUME Inv, Grows, IsTable(job', JobIds, Job), RequestMoves, WorkerMoves
    PROVE  /\ request' \in [Requests -> {Idle} \cup Local]
           /\ \A s \in Requests : KnowsItsJob(request[s])'
           /\ worker' \in [Workers -> {Idle} \cup WorkerLocal]
           /\ \A v \in Workers : KnowsItsClaim(worker[v])'
           /\ \A v \in Workers : worker'[v] # Idle => worker'[v].message[1] \in DOMAIN job'
<1>1. /\ request' \in [Requests -> {Idle} \cup Local]
      /\ \A s \in Requests : KnowsItsJob(request[s])'
  <2>1. CASE UNCHANGED request
    BY <2>1, JobKnown DEF Inv, TypeOK
  <2>2. ASSUME NEW r \in Requests, NEW q \in {Idle} \cup Local, KnowsItsJob(q)',
               request' = [request EXCEPT ![r] = q]
        PROVE  /\ request' \in [Requests -> {Idle} \cup Local]
               /\ \A s \in Requests : KnowsItsJob(request[s])'
    <3>1. request' \in [Requests -> {Idle} \cup Local]
          /\ \A s \in Requests : request'[s] = IF s = r THEN q ELSE request[s]
      BY <2>2 DEF Inv, TypeOK
    <3> QED
      BY <2>2, <3>1, JobKnown DEF Inv
  <2> QED
    BY <2>1, <2>2 DEF RequestMoves
<1>2. /\ worker' \in [Workers -> {Idle} \cup WorkerLocal]
      /\ \A v \in Workers : KnowsItsClaim(worker[v])'
  <2>1. CASE UNCHANGED worker
    BY <2>1, ClaimKnown DEF Inv, TypeOK
  <2>2. ASSUME NEW w \in Workers, NEW q \in {Idle} \cup WorkerLocal, KnowsItsClaim(q)',
               worker' = [worker EXCEPT ![w] = q]
        PROVE  /\ worker' \in [Workers -> {Idle} \cup WorkerLocal]
               /\ \A v \in Workers : KnowsItsClaim(worker[v])'
    <3>1. worker' \in [Workers -> {Idle} \cup WorkerLocal]
          /\ \A v \in Workers : /\ worker'[v] = IF v = w THEN q ELSE worker[v]
                                /\ worker[v] \in {Idle} \cup WorkerLocal
      BY <2>2 DEF Inv, TypeOK
    <3> QED
      BY <2>2, <3>1, ClaimKnown DEF Inv
  <2> QED
    BY <2>1, <2>2 DEF WorkerMoves
<1> QED
  BY <1>1, <1>2 DEF KnowsItsClaim

-----------------------------------------------------------------------------
(* Steps that change no record.                                            *)

(* Without writes nothing grows.                                           *)
LEMMA NothingGrows ==
    ASSUME TypeOK, UNCHANGED <<job, pointer, lease>>
    PROVE  Grows
<1>1. \A id \in DOMAIN job : job[id].attempt <= job[id].attempt
  BY JobShape
<1> QED
  BY <1>1 DEF Grows

(* What the queue holds refers to jobs and may be received.                *)
QueueOK ==
    /\ IsTable(queue, Messages, Message)
    /\ \A m \in DOMAIN queue : m[1] \in DOMAIN job
    /\ VisibleCanBeReceived

(* Only jobs have executions.                                              *)
ExecutionsOK == IsTable(execution, DOMAIN job, {"started", "sent", "failed"})

(* A step that only moves executions, messages and invocations.            *)
LEMMA DeliveryStep ==
    ASSUME Inv, RequestMoves, WorkerMoves, QueueOK', ExecutionsOK',
           UNCHANGED <<holder, tables, lease>>
    PROVE  Inv'
<1>1. Grows
  BY NothingGrows DEF Inv, tables
<1>2. IsTable(job', JobIds, Job)
  BY DEF Inv, TypeOK, tables
<1>3. /\ request' \in [Requests -> {Idle} \cup Local]
      /\ \A s \in Requests : KnowsItsJob(request[s])'
      /\ worker' \in [Workers -> {Idle} \cup WorkerLocal]
      /\ \A v \in Workers : KnowsItsClaim(worker[v])'
      /\ \A v \in Workers : worker'[v] # Idle => worker'[v].message[1] \in DOMAIN job'
  BY <1>1, <1>2, LocalsKnow
<1>4. TypeOK'
  BY <1>3 DEF Inv, TypeOK, tables, IsTable, QueueOK, ExecutionsOK
<1>5. /\ MarkersAreUnfinishedJobs' /\ ResultsAreCompletedJobs' /\ PointersLeadToJobs'
      /\ OneLivePerJob' /\ JobsAreCharged'
  BY DEF Inv, tables, MarkersAreUnfinishedJobs, HasMarker, ResultsAreCompletedJobs,
         OneLivePerJob, JobsAreCharged, PointersLeadToJobs
<1> QED
  BY <1>3, <1>4, <1>5 DEF Inv, QueueOK

(* A step that only moves messages and invocations.                        *)
LEMMA QuietStep ==
    ASSUME Inv, RequestMoves, WorkerMoves, QueueOK',
           UNCHANGED <<holder, tables, lease, execution>>
    PROVE  Inv'
<1>1. ExecutionsOK'
  BY DEF Inv, TypeOK, ExecutionsOK, tables
<1> QED
  BY <1>1, DeliveryStep

(* A step that only changes the local state of a request.                  *)
LEMMA RequestStep ==
    ASSUME Inv, NEW r \in Requests, NEW q \in {Idle} \cup Local, KnowsItsJob(q),
           request' = [request EXCEPT ![r] = q],
           UNCHANGED <<holder, tables, lease, queue, execution, worker>>
    PROVE  Inv'
<1>1. KnowsItsJob(q)'
  BY NothingGrows, JobKnown DEF Inv, tables
<1>2. RequestMoves /\ WorkerMoves
  BY <1>1 DEF RequestMoves, WorkerMoves
<1>3. QueueOK'
  BY DEF Inv, TypeOK, tables, IsTable, QueueOK, VisibleCanBeReceived
<1> QED
  BY <1>2, <1>3, QuietStep

(* A step that only changes the local state of a worker.                   *)
LEMMA WorkerStep ==
    ASSUME Inv, NEW w \in Workers, NEW q \in {Idle} \cup WorkerLocal, KnowsItsClaim(q),
           worker' = [worker EXCEPT ![w] = q],
           UNCHANGED <<holder, tables, lease, queue, execution, request>>
    PROVE  Inv'
<1>1. KnowsItsClaim(q)'
  BY DEF KnowsItsClaim, tables
<1>2. RequestMoves /\ WorkerMoves
  BY <1>1 DEF RequestMoves, WorkerMoves
<1>3. QueueOK'
  BY DEF Inv, TypeOK, tables, IsTable, QueueOK, VisibleCanBeReceived
<1> QED
  BY <1>2, <1>3, QuietStep

(* A new job is a job.                                                     *)
LEMMA NewJobType ==
    ASSUME NEW e \in Employees, NEW t \in Tickets
    PROVE  NewJob(e, t) \in Job /\ NeedsDispatch(NewJob(e, t))
  BY DEF NewJob, Job, Statuses, NeedsDispatch

(* A running invocation has a local state, and knows its job.              *)
LEMMA RequestShape ==
    ASSUME Inv, NEW r \in Requests, request[r].pc \in RequestPcs
    PROVE  /\ request[r] \in Local /\ request[r] # Idle /\ KnowsItsJob(request[r])
           /\ request[r].employee \in Employees /\ request[r].ticket_id \in Tickets
           /\ request[r].key \in Keys \cup {"none"} /\ request[r].id \in SUBSET JobIds
           /\ request[r].body \in Job
           /\ \A id \in request[r].id :
                  /\ id \in DOMAIN job
                  /\ job[id].requester = request[r].employee
                  /\ job[id].ticket_id = request[r].ticket_id
<1>1. request[r] # Idle
  BY DEF Idle, RequestPcs
<1>2. request[r] \in Local
  BY <1>1 DEF Inv, TypeOK
<1>3. KnowsItsJob(request[r])
  BY DEF Inv
<1> QED
  BY <1>1, <1>2, <1>3 DEF Local, KnowsItsJob

(* Going on to another place, an invocation keeps what it holds.           *)
LEMMA GotoType ==
    ASSUME Inv, NEW r \in Requests, request[r].pc \in RequestPcs, NEW pc \in RequestPcs
    PROVE  LET q == At(pc, request[r].employee, request[r].ticket_id, request[r].key,
                       request[r].id, request[r].body)
           IN  /\ q \in Local /\ q # Idle /\ q.pc = pc
               /\ q.employee = request[r].employee /\ q.ticket_id = request[r].ticket_id
               /\ q.key = request[r].key /\ q.id = request[r].id
               /\ q.body = request[r].body
<1> DEFINE q == At(pc, request[r].employee, request[r].ticket_id, request[r].key,
                   request[r].id, request[r].body)
<1>1. q \in Local
  BY RequestShape DEF At, Local
<1> QED
  BY <1>1, Idles DEF At

(* Nothing is known of an invocation that is idle.                         *)
LEMMA IdleKnows == KnowsItsJob(Idle) /\ KnowsItsClaim(Idle)
  BY DEF KnowsItsJob, KnowsItsClaim

(* An invocation may end or die at any point.                              *)
LEMMA EndInv ==
    ASSUME Inv, NEW r \in Requests, End(r)
    PROVE  Inv'
  BY IdleKnows, RequestStep DEF End

(* A submission starts without knowing anything.                           *)
LEMMA SubmitInv ==
    ASSUME Inv, NEW r \in Requests, NEW e \in Employees, NEW t \in Tickets, NEW k \in Keys,
           Submit(r, e, t, k)
    PROVE  Inv'
<1> DEFINE q == At("read_pointer", e, t, k, {}, NewJob(e, t))
<1>1. q \in Local /\ q.pc = "read_pointer" /\ q.id = {} /\ q.key = k
  <2>1. q \in Local
    BY NewJobType DEF At, Local, RequestPcs
  <2> QED
    BY <2>1 DEF At
<1>2. KnowsItsJob(q)
  BY <1>1 DEF KnowsItsJob, BoundPcs
<1> QED
  BY <1>1, <1>2, RequestStep DEF Submit

(* A bound key leads to a job of the employee and the ticket.              *)
LEMMA ReadPointerInv ==
    ASSUME Inv, NEW r \in Requests, ReadPointer(r)
    PROVE  Inv'
<1> DEFINE me == request[r]
           k == RequestKey(r)
<1>1. me.pc \in {"read_pointer", "reread_pointer"}
  BY DEF ReadPointer
<1>2. /\ me.pc \in RequestPcs /\ me.pc \notin {"resend", "mark_resent", "fail_dead"}
      /\ KeyOf(me) = k
  BY <1>1 DEF RequestPcs, KeyOf, RequestKey
<1>3. me.key \in Keys
  BY <1>2, RequestShape DEF KnowsItsJob
<1>4. CASE /\ k \in DOMAIN pointer
           /\ pointer[k].ticket_id = me.ticket_id
           /\ Holding(r, "read_bound_job", {pointer[k].id}, me.body)
  <2> DEFINE pc == "read_bound_job"
             ids == {pointer[k].id}
             q == At(pc, me.employee, me.ticket_id, me.key, ids, me.body)
  <2>1. pointer[k].id \in JobIds
    BY <1>4 DEF Inv, TypeOK, IsTable, Pointer
  <2>2. /\ q \in Local /\ q.pc = pc /\ q.employee = me.employee
        /\ q.ticket_id = me.ticket_id /\ q.key = me.key /\ q.id = ids
    <3>1. pc \in RequestPcs /\ ids \in SUBSET JobIds
      BY <2>1 DEF RequestPcs
    <3>2. q \in Local
      BY <1>2, <3>1, RequestShape DEF At, Local
    <3> QED
      BY <3>2 DEF At
  <2>3. pointer[k].id \in DOMAIN job /\ job[pointer[k].id].requester = me.employee
        /\ job[pointer[k].id].ticket_id = me.ticket_id
    BY <1>4 DEF Inv, PointersLeadToJobs, RequestKey
  <2>4. KnowsItsJob(q)
    BY <1>2, <1>3, <1>4, <2>2, <2>3 DEF KnowsItsJob, BoundPcs, KeyOf
  <2> QED
    BY <1>4, <2>2, <2>4, RequestStep DEF Holding, ReadPointer
<1>5. ASSUME NEW pc \in {"read_active", "reread_active"}, Goto(r, pc)
      PROVE  Inv'
  <2> DEFINE q == At(pc, me.employee, me.ticket_id, me.key, me.id, me.body)
  <2>1. pc \in RequestPcs
    BY DEF RequestPcs
  <2>2. /\ q \in Local /\ q.pc = pc /\ q.employee = me.employee
        /\ q.ticket_id = me.ticket_id /\ q.key = me.key /\ q.id = me.id
    BY <1>2, <2>1, GotoType
  <2>3. KnowsItsJob(q)
    BY <1>2, <1>3, <2>2, RequestShape DEF KnowsItsJob, BoundPcs
  <2> QED
    BY <1>5, <2>2, <2>3, RequestStep DEF Goto, ReadPointer
<1> QED
  BY <1>4, <1>5 DEF ReadPointer

(* A marker leads to the job of the employee and the ticket.               *)
LEMMA MarkerLeadsToJob ==
    ASSUME Inv, NEW k \in DOMAIN active
    PROVE  /\ active[k] \in DOMAIN job /\ job[active[k]].status \notin Terminal
           /\ k = <<job[active[k]].requester, job[active[k]].ticket_id>>
  BY DEF Inv, TypeOK, IsTable, MarkersAreUnfinishedJobs

(* The job found under the marker is the requester's.                      *)
LEMMA ReadActiveInv ==
    ASSUME Inv, NEW r \in Requests, ReadActive(r)
    PROVE  Inv'
<1> DEFINE me == request[r]
           k == ActiveKey(r)
<1>1. me.pc \in {"read_active", "reread_active"}
  BY DEF ReadActive
<1>2. me.pc \in RequestPcs /\ me.pc \notin {"resend", "mark_resent", "fail_dead"}
  BY <1>1 DEF RequestPcs
<1>3. me.key \in Keys
  BY <1>2, RequestShape DEF KnowsItsJob
<1>4. CASE k \in DOMAIN active /\ Holding(r, "read_job", {active[k]}, me.body)
  <2> DEFINE pc == "read_job"
             ids == {active[k]}
             q == At(pc, me.employee, me.ticket_id, me.key, ids, me.body)
  <2>1. /\ active[k] \in DOMAIN job /\ active[k] \in JobIds
        /\ job[active[k]].requester = me.employee /\ job[active[k]].ticket_id = me.ticket_id
    BY <1>4, MarkerLeadsToJob DEF ActiveKey, Inv, TypeOK, IsTable
  <2>2. /\ q \in Local /\ q.pc = pc /\ q.employee = me.employee
        /\ q.ticket_id = me.ticket_id /\ q.key = me.key /\ q.id = ids
    <3>1. pc \in RequestPcs /\ ids \in SUBSET JobIds
      BY <2>1 DEF RequestPcs
    <3>2. q \in Local
      BY <1>2, <3>1, RequestShape DEF At, Local
    <3> QED
      BY <3>2 DEF At
  <2>3. KnowsItsJob(q)
    BY <1>3, <2>1, <2>2 DEF KnowsItsJob, BoundPcs
  <2> QED
    BY <1>4, <2>2, <2>3, RequestStep DEF Holding, ReadActive
<1>5. CASE Goto(r, "create")
  <2> DEFINE q == At("create", me.employee, me.ticket_id, me.key, me.id, me.body)
  <2>0. "create" \in RequestPcs
    BY DEF RequestPcs
  <2>1. /\ q \in Local /\ q.pc = "create" /\ q.employee = me.employee
        /\ q.ticket_id = me.ticket_id /\ q.key = me.key /\ q.id = me.id
    BY <1>2, <2>0, GotoType
  <2>2. KnowsItsJob(q)
    BY <1>2, <1>3, <2>1, RequestShape DEF KnowsItsJob, BoundPcs
  <2> QED
    BY <1>5, <2>1, <2>2, RequestStep DEF Goto, ReadActive
<1> QED
  BY <1>4, <1>5 DEF ReadActive

(* Reading the job does not change which one it is.                        *)
LEMMA ReadJobInv ==
    ASSUME Inv, NEW r \in Requests, ReadJob(r)
    PROVE  Inv'
<1> DEFINE me == request[r]
           pc == IF me.pc = "read_job" THEN "bind" ELSE "authorize"
<1>1. me.pc \in {"read_job", "read_bound_job"}
  BY DEF ReadJob
<1>2. me.pc \in RequestPcs /\ me.pc \notin {"resend", "mark_resent", "fail_dead"}
  BY <1>1 DEF RequestPcs
<1>3. PICK id \in me.id : id \in DOMAIN job /\ Holding(r, pc, {id}, job[id])
  BY DEF ReadJob
<1> DEFINE q == At(pc, me.employee, me.ticket_id, me.key, {id}, job[id])
<1>4. me.key \in Keys /\ me.id = {id}
  BY <1>1, <1>2, <1>3, RequestShape DEF KnowsItsJob, BoundPcs
<1>5. job[id].requester = me.employee /\ job[id].ticket_id = me.ticket_id
      /\ id \in JobIds /\ job[id] \in Job
  BY <1>2, <1>3, RequestShape, JobShape DEF Inv
<1>6. pc \in RequestPcs
  BY DEF RequestPcs
<1>7. /\ q \in Local /\ q.pc = pc /\ q.employee = me.employee
      /\ q.ticket_id = me.ticket_id /\ q.key = me.key /\ q.id = {id}
  <2> HIDE DEF pc
  <2>1. q \in Local
    BY <1>2, <1>5, <1>6, RequestShape DEF At, Local
  <2> QED
    BY <2>1 DEF At
<1>8. pc = "authorize" => KeyOf(me) \in DOMAIN pointer /\ {id} = {pointer[KeyOf(me)].id}
  BY <1>1, <1>2, <1>4, RequestShape DEF KnowsItsJob, BoundPcs
<1>9. KnowsItsJob(q)
  BY <1>3, <1>4, <1>5, <1>7, <1>8 DEF KnowsItsJob, BoundPcs, KeyOf
<1> QED
  BY <1>3, <1>7, <1>9, RequestStep DEF Holding, ReadJob

(* A request goes on with a job to whose key it is bound.                  *)
LEMMA AuthorizeInv ==
    ASSUME Inv, NEW r \in Requests, Authorize(r)
    PROVE  Inv'
<1> DEFINE me == request[r]
<1>1. me.pc = "authorize"
  BY DEF Authorize
<1>2. me.pc \in RequestPcs /\ me.pc \in BoundPcs
      /\ me.pc \notin {"resend", "mark_resent", "fail_dead"}
  BY <1>1 DEF RequestPcs, BoundPcs
<1>3. me.key \in Keys /\ KeyOf(me) \in DOMAIN pointer /\ me.id = {pointer[KeyOf(me)].id}
  BY <1>2, RequestShape DEF KnowsItsJob
<1>4. ASSUME NEW pc \in {"send", "answer"}, NEW body \in Job,
             pc = "send" => NeedsDispatch(body),
             request' = [request EXCEPT ![r] =
                 At(pc, me.employee, me.ticket_id, me.key, me.id, body)]
      PROVE  Inv'
  <2> DEFINE q == At(pc, me.employee, me.ticket_id, me.key, me.id, body)
  <2>1. pc \in RequestPcs /\ pc \notin {"read_job", "bind"}
    BY DEF RequestPcs
  <2>2. /\ q \in Local /\ q.pc = pc /\ q.employee = me.employee /\ q.body = body
        /\ q.ticket_id = me.ticket_id /\ q.key = me.key /\ q.id = me.id
    <3>1. q \in Local
      BY <1>2, <2>1, RequestShape DEF At, Local
    <3> QED
      BY <3>1 DEF At
  <2>3. KeyOf(q) = KeyOf(me)
    BY <2>2 DEF KeyOf
  <2>4. KnowsItsJob(q)
    BY <1>2, <1>3, <1>4, <2>1, <2>2, <2>3, RequestShape DEF KnowsItsJob
  <2> QED
    BY <1>4, <2>2, <2>4, RequestStep DEF Authorize
<1>5. CASE NeedsDispatch(me.body)
  BY <1>2, <1>4, <1>5, RequestShape DEF Authorize, Goto
<1>6. CASE ~NeedsDispatch(me.body)
  BY <1>2, <1>4, <1>6, RequestShape, NewJobType DEF Authorize, Answer, Holding
<1> QED
  BY <1>5, <1>6

(* Maintenance starts from a job that is stored.                           *)
LEMMA MaintenanceInv ==
    ASSUME Inv, NEW r \in Requests, NEW id \in DOMAIN job, NEW pc \in {"resend", "fail_dead"},
           pc = "resend" => NeedsDispatch(job[id]),
           request' = [request EXCEPT ![r] =
               At(pc, job[id].requester, job[id].ticket_id, "none", {id}, job[id])],
           UNCHANGED <<holder, tables, lease, queue, execution, worker>>
    PROVE  Inv'
<1> DEFINE q == At(pc, job[id].requester, job[id].ticket_id, "none", {id}, job[id])
<1>1. pc \in RequestPcs
  BY DEF RequestPcs
<1>2. /\ q \in Local /\ q.pc = pc /\ q.employee = job[id].requester /\ q.body = job[id]
      /\ q.ticket_id = job[id].ticket_id /\ q.id = {id}
  <2>1. q \in Local
    BY <1>1, JobShape DEF At, Local, Inv
  <2> QED
    BY <2>1 DEF At
<1>3. KnowsItsJob(q)
  BY <1>2 DEF KnowsItsJob, BoundPcs
<1> QED
  BY <1>2, <1>3, RequestStep

(* A job is sent again only when it was never sent.                        *)
LEMMA RescanInv ==
    ASSUME Inv, NEW r \in Requests, NEW id \in JobIds, Rescan(r, id)
    PROVE  Inv'
  BY MaintenanceInv DEF Rescan

-----------------------------------------------------------------------------
(* Steps that move messages.                                               *)

(* An invocation may move to what it knows already.                        *)
LEMMA MovesTo ==
    ASSUME Inv, Grows, IsTable(job', JobIds, Job)
    PROVE  /\ \A r \in Requests, q \in {Idle} \cup Local :
                  KnowsItsJob(q) /\ request' = [request EXCEPT ![r] = q] => RequestMoves
           /\ \A w \in Workers, q \in {Idle} \cup WorkerLocal :
                  KnowsItsClaim(q) /\ worker' = [worker EXCEPT ![w] = q] => WorkerMoves
           /\ UNCHANGED request => RequestMoves
           /\ UNCHANGED worker => WorkerMoves
  BY JobKnown, ClaimKnown DEF RequestMoves, WorkerMoves, Inv

(* In particular when nothing is written.                                  *)
LEMMA QuietMovesTo ==
    ASSUME Inv, UNCHANGED tables, UNCHANGED lease
    PROVE  /\ \A r \in Requests, q \in {Idle} \cup Local :
                  KnowsItsJob(q) /\ request' = [request EXCEPT ![r] = q] => RequestMoves
           /\ \A w \in Workers, q \in {Idle} \cup WorkerLocal :
                  KnowsItsClaim(q) /\ worker' = [worker EXCEPT ![w] = q] => WorkerMoves
           /\ UNCHANGED request => RequestMoves
           /\ UNCHANGED worker => WorkerMoves
<1>1. Grows /\ IsTable(job', JobIds, Job)
  BY NothingGrows DEF Inv, TypeOK, tables
<1> QED
  BY <1>1, MovesTo

(* A message that is put where another was, or is new, keeps the queue.    *)
LEMMA PutMessage ==
    ASSUME Inv, UNCHANGED job, NEW m \in Messages, NEW message \in Message,
           m[1] \in DOMAIN job, message.state = "visible" => message.receives < MaxReceives,
           queue' = Put(queue, m, message)
    PROVE  QueueOK'
<1>1. IsTable(queue', Messages, Message)
  BY PutType DEF Inv, TypeOK
<1>2. /\ DOMAIN queue' = DOMAIN queue \cup {m}
      /\ queue'[m] = message
      /\ \A other \in DOMAIN queue \ {m} : queue'[other] = queue[other]
  BY DEF Put
<1> QED
  BY <1>1, <1>2 DEF Inv, TypeOK, QueueOK, VisibleCanBeReceived

(* So does one that is removed.                                            *)
LEMMA DeleteMessage ==
    ASSUME Inv, UNCHANGED job, NEW m, queue' = Delete(queue, {m})
    PROVE  QueueOK'
<1>1. IsTable(queue', Messages, Message)
  BY DeleteType DEF Inv, TypeOK
<1>2. /\ DOMAIN queue' = DOMAIN queue \ {m}
      /\ \A other \in DOMAIN queue \ {m} : queue'[other] = queue[other]
  BY DEF Delete
<1> QED
  BY <1>1, <1>2 DEF Inv, TypeOK, QueueOK, VisibleCanBeReceived

(* A stored message is a message, and its job is stored.                   *)
LEMMA MessageShape ==
    ASSUME Inv, NEW m \in DOMAIN queue
    PROVE  /\ m \in Messages /\ queue[m] \in Message /\ m[1] \in DOMAIN job
           /\ queue[m].receives \in Nat /\ queue[m].receives <= MaxReceives
           /\ queue[m].state = "visible" => queue[m].receives < MaxReceives
<1>1. m \in Messages /\ queue[m] \in Message /\ m[1] \in DOMAIN job
  BY DEF Inv, TypeOK, IsTable
<1>2. queue[m].receives \in 0 .. MaxReceives
  BY <1>1 DEF Message
<1> QED
  BY <1>1, <1>2, JobsAssumption DEF Inv, VisibleCanBeReceived

(* The count of a delivery stays within its bound.                         *)
LEMMA DeliveredQueue ==
    ASSUME Inv, UNCHANGED job, NEW m \in DOMAIN queue, queue[m].state = "visible",
           queue' = Delivered(m)
    PROVE  QueueOK'
<1> DEFINE message == [state |-> "in_flight", receives |-> queue[m].receives + 1]
<1>1. queue[m].receives + 1 \in 0 .. MaxReceives
  <2>1. /\ queue[m].receives \in Nat /\ MaxReceives \in Nat
        /\ queue[m].receives < MaxReceives
    BY MessageShape, JobsAssumption
  <2> QED
    BY <2>1
<1>2. message \in Message /\ message.state = "in_flight"
  BY <1>1 DEF Message
<1> QED
  BY <1>2, MessageShape, PutMessage DEF Delivered

(* What has been delivered for a job was pending, and the job still is the *)
(* one the invocation knows.                                               *)
LEMMA AfterDeliveryKnows ==
    ASSUME Inv, NEW r \in Requests, request[r].pc \in {"send", "resend"},
           AfterDelivery(r), UNCHANGED <<tables, lease>>
    PROVE  /\ RequestMoves
           /\ \A id \in request[r].id : id \in DOMAIN job
<1> DEFINE me == request[r]
           pc == IF me.pc = "send" THEN "mark_sent" ELSE "mark_resent"
           q == At(pc, me.employee, me.ticket_id, me.key, me.id, me.body)
<1>1. me.pc \in {"send", "resend"}
  OBVIOUS
<1>2. Goto(r, pc)
  BY DEF AfterDelivery
<1>3. me.pc \in RequestPcs /\ pc \in RequestPcs
  BY <1>1 DEF RequestPcs
<1>4. /\ q \in Local /\ q.pc = pc /\ q.employee = me.employee /\ q.body = me.body
      /\ q.ticket_id = me.ticket_id /\ q.key = me.key /\ q.id = me.id
  <2> HIDE DEF pc
  <2> QED
    BY <1>3, GotoType
<1>5. me # Idle /\ KnowsItsJob(me)
  BY <1>3, RequestShape
<1>6. /\ \A j \in q.id : /\ j \in DOMAIN job
                         /\ job[j].requester = q.employee
                         /\ job[j].ticket_id = q.ticket_id
      /\ q.pc # "mark_resent" => q.key \in Keys /\ KeyOf(q) = KeyOf(me)
      /\ q.pc # "mark_resent" => KeyOf(q) \in DOMAIN pointer /\ q.id = {pointer[KeyOf(q)].id}
      /\ NeedsDispatch(q.body) /\ q.pc \in {"mark_sent", "mark_resent"}
  BY <1>1, <1>4, <1>5 DEF KnowsItsJob, BoundPcs, KeyOf
<1>7. KnowsItsJob(q)
  <2> HIDE DEF q
  <2> QED
    BY <1>6 DEF KnowsItsJob, BoundPcs
<1>8. request' = [request EXCEPT ![r] = q]
  BY <1>2 DEF Goto
<1> QED
  BY <1>4, <1>5, <1>7, <1>8, QuietMovesTo DEF KnowsItsJob

(* A fresh message of a job may be received.                               *)
LEMMA FreshMessage ==
    ASSUME Inv, UNCHANGED job, NEW id \in DOMAIN job, NEW n \in 1 .. MaxCopies,
           queue' = Put(queue, <<id, n>>, Fresh)
    PROVE  QueueOK'
<1>1. <<id, n>> \in Messages /\ <<id, n>>[1] = id
  BY JobShape DEF Messages, Inv
<1>2. Fresh \in Message /\ Fresh.receives < MaxReceives
  BY JobsAssumption DEF Message, Fresh
<1> QED
  BY <1>1, <1>2, PutMessage

(* A message may be sent by several invocations, each time as a new one.   *)
LEMMA SendInv ==
    ASSUME Inv, NEW r \in Requests, Send(r)
    PROVE  Inv'
<1>1. /\ request[r].pc \in {"send", "resend"} /\ AfterDelivery(r)
      /\ UNCHANGED <<holder, tables, lease, execution, worker>>
  BY DEF Send
<1>2. PICK id \in request[r].id, n \in 1 .. MaxCopies : queue' = Put(queue, <<id, n>>, Fresh)
  BY DEF Send
<1>3. RequestMoves /\ WorkerMoves /\ id \in DOMAIN job
  BY <1>1, AfterDeliveryKnows DEF WorkerMoves
<1>4. QueueOK'
  BY <1>1, <1>2, <1>3, FreshMessage DEF tables
<1> QED
  BY <1>1, <1>3, <1>4, QuietStep

(* What a step leaves of the queue and of its jobs is as it was.           *)
LEMMA QueueKept ==
    ASSUME Inv, UNCHANGED <<job, queue>>
    PROVE  QueueOK'
  BY DEF Inv, TypeOK, IsTable, QueueOK, VisibleCanBeReceived

(* An execution is started for a job, once.                                *)
LEMMA StartInv ==
    ASSUME Inv, NEW r \in Requests, Start(r)
    PROVE  Inv'
<1>1. /\ request[r].pc \in {"send", "resend"} /\ AfterDelivery(r)
      /\ UNCHANGED <<holder, tables, lease, queue, worker>>
  BY DEF Start
<1>2. PICK id \in request[r].id : execution' = Started(id)
  BY DEF Start
<1>3. RequestMoves /\ WorkerMoves /\ id \in DOMAIN job
  BY <1>1, AfterDeliveryKnows DEF WorkerMoves
<1>4. QueueOK' /\ UNCHANGED job
  BY <1>1, QueueKept DEF tables
<1>5. ExecutionsOK'
  <2> DEFINE states == {"started", "sent", "failed"}
  <2>1. IsTable(execution, DOMAIN job, states) /\ "started" \in states
    BY DEF Inv, TypeOK
  <2>2. IsTable(execution', DOMAIN job, states)
    <3> HIDE DEF states
    <3> QED
      BY <1>2, <1>3, <2>1, PutIfAbsentType DEF Started
  <2> QED
    BY <1>4, <2>2 DEF ExecutionsOK
<1> QED
  BY <1>1, <1>3, <1>4, <1>5, DeliveryStep

(* An execution that goes on, or fails, is one of a job.                   *)
LEMMA ExecutionMoves ==
    ASSUME Inv, UNCHANGED job, NEW id \in DOMAIN execution, NEW state \in {"sent", "failed"},
           execution' = Put(execution, id, state)
    PROVE  ExecutionsOK'
<1> DEFINE states == {"started", "sent", "failed"}
<1>1. IsTable(execution, DOMAIN job, states) /\ id \in DOMAIN job /\ state \in states
  BY DEF Inv, TypeOK, IsTable
<1>2. IsTable(execution', DOMAIN job, states)
  <2> HIDE DEF states
  <2> QED
    BY <1>1, PutType
<1> QED
  BY <1>2 DEF ExecutionsOK

(* An execution sends the message of its job.                              *)
LEMMA SendMessageInv ==
    ASSUME Inv, NEW id \in JobIds, SendMessage(id)
    PROVE  Inv'
<1>1. /\ id \in DOMAIN execution /\ execution' = Put(execution, id, "sent")
      /\ queue' = Put(queue, <<id, 1>>, Fresh)
      /\ UNCHANGED <<holder, tables, lease, request, worker>>
  BY DEF SendMessage
<1>2. id \in DOMAIN job /\ 1 \in 1 .. MaxCopies /\ UNCHANGED job
  BY <1>1, JobsAssumption DEF Inv, TypeOK, IsTable, tables
<1>3. QueueOK' /\ ExecutionsOK'
  BY <1>1, <1>2, FreshMessage, ExecutionMoves
<1> QED
  BY <1>1, <1>3, QuietMovesTo, DeliveryStep

(* An execution may fail before.                                           *)
LEMMA FailExecutionInv ==
    ASSUME Inv, NEW id \in JobIds, FailExecution(id)
    PROVE  Inv'
<1>1. /\ id \in DOMAIN execution /\ execution' = Put(execution, id, "failed")
      /\ UNCHANGED <<holder, tables, lease, queue, request, worker>> /\ UNCHANGED job
  BY DEF FailExecution, tables
<1>2. QueueOK' /\ ExecutionsOK'
  BY <1>1, QueueKept, ExecutionMoves
<1> QED
  BY <1>1, <1>2, QuietMovesTo, DeliveryStep

(* A worker keeps the version of the job that its delivery found.          *)
LEMMA ReceiveInv ==
    ASSUME Inv, NEW w \in Workers, NEW m \in Messages, Receive(w, m)
    PROVE  Inv'
<1> DEFINE q == Working("claim", m, job[m[1]], "draft")
<1>1. /\ m \in DOMAIN queue /\ queue[m].state = "visible" /\ queue' = Delivered(m)
      /\ worker' = [worker EXCEPT ![w] = q]
      /\ UNCHANGED <<holder, tables, lease, execution, request>>
      /\ job[m[1]].status \notin Terminal /\ <<m[1], job[m[1]].attempt>> \notin lease
  BY DEF Receive, IsClaimable, IsLeased
<1>2. QueueOK'
  BY <1>1, DeliveredQueue DEF tables
<1>3. m[1] \in DOMAIN job /\ job[m[1]] \in Job /\ job[m[1]].attempt <= job[m[1]].attempt
  BY <1>1, MessageShape, JobShape DEF Inv
<1>4. q \in WorkerLocal
  BY <1>3 DEF Working, WorkerLocal, WorkerPcs, Stages
<1>5. KnowsItsClaim(q)
  BY <1>1, <1>3 DEF KnowsItsClaim, Working
<1>6. RequestMoves /\ WorkerMoves
  BY <1>1, <1>4, <1>5, QuietMovesTo
<1> QED
  BY <1>1, <1>2, <1>6, QuietStep

(* A delivery that finds nothing to claim is counted or acknowledged.      *)
LEMMA ReceiveUnclaimableInv ==
    ASSUME Inv, NEW m \in Messages, ReceiveUnclaimable(m)
    PROVE  Inv'
<1>1. QueueOK'
  BY DeliveredQueue, DeleteMessage DEF ReceiveUnclaimable, tables
<1> QED
  BY <1>1, QuietMovesTo, QuietStep DEF ReceiveUnclaimable

(* A message that was received too often becomes a dead one.               *)
LEMMA RedeliverInv ==
    ASSUME Inv, NEW m \in Messages, Redeliver(m)
    PROVE  Inv'
<1> DEFINE message == [state |-> IF queue[m].receives < MaxReceives THEN "visible" ELSE "dead",
                       receives |-> queue[m].receives]
<1>1. m \in DOMAIN queue /\ queue' = Put(queue, m, message)
      /\ UNCHANGED <<holder, tables, lease, execution, request, worker>>
  BY DEF Redeliver
<1>2. message.state = "visible" => message.receives < MaxReceives
  OBVIOUS
<1>3. message \in Message
  BY <1>1, MessageShape, JobsAssumption DEF Message
<1>4. QueueOK'
  BY <1>1, <1>2, <1>3, MessageShape, PutMessage DEF tables
<1> QED
  BY <1>1, <1>4, QuietMovesTo, QuietStep

(* A dead message of a finished job is dropped, another fails its job.     *)
LEMMA ReadDeadInv ==
    ASSUME Inv, NEW r \in Requests, NEW m \in Messages, ReadDead(r, m)
    PROVE  Inv'
<1>1. m \in DOMAIN queue /\ m[1] \in DOMAIN job
  BY MessageShape DEF ReadDead
<1>2. CASE job[m[1]].status \in Terminal
  <2>1. QueueOK'
    BY <1>2, DeleteMessage DEF ReadDead, tables
  <2> QED
    BY <1>2, <2>1, QuietMovesTo, QuietStep DEF ReadDead
<1>3. CASE job[m[1]].status \notin Terminal
  BY <1>1, <1>3, MaintenanceInv DEF ReadDead
<1> QED
  BY <1>2, <1>3

(* What a worker acknowledges is gone.                                     *)
LEMMA AcknowledgeInv ==
    ASSUME Inv, NEW w \in Workers, Acknowledge(w)
    PROVE  Inv'
<1>1. QueueOK'
  BY DeleteMessage DEF Acknowledge, tables
<1>2. RequestMoves /\ WorkerMoves
  BY IdleKnows, QuietMovesTo DEF Acknowledge
<1> QED
  BY <1>1, <1>2, QuietStep DEF Acknowledge

-----------------------------------------------------------------------------
(* Steps that write records.                                               *)

(* The types that writes can disturb.                                      *)
RecordTypes ==
    /\ holder \in [Tickets -> Employees \cup {"nobody"}]
    /\ IsTable(job, JobIds, Job)
    /\ IsTable(pointer, Employees \X Keys, Pointer)
    /\ IsTable(active, Employees \X Tickets, DOMAIN job)
    /\ used \in Nat
    /\ IsTable(saved, JobIds \X Stages, Nat)
    /\ IsTable(run, JobIds, Nat)
    /\ lease \subseteq JobIds \X Nat

(* A step that writes: what the records say of each other must be kept, the *)
(* rest follows from what may grow.                                        *)
LEMMA WritingStep ==
    ASSUME Inv, Grows, RequestMoves, WorkerMoves, UNCHANGED <<queue, execution>>,
           RecordTypes', MarkersAreUnfinishedJobs', ResultsAreCompletedJobs',
           PointersLeadToJobs', OneLivePerJob', JobsAreCharged'
    PROVE  Inv'
<1>1. /\ request' \in [Requests -> {Idle} \cup Local]
      /\ \A s \in Requests : KnowsItsJob(request[s])'
      /\ worker' \in [Workers -> {Idle} \cup WorkerLocal]
      /\ \A v \in Workers : KnowsItsClaim(worker[v])'
      /\ \A v \in Workers : worker'[v] # Idle => worker'[v].message[1] \in DOMAIN job'
  BY LocalsKnow DEF RecordTypes
<1>2. \A m \in DOMAIN queue : m[1] \in DOMAIN job'
  BY DEF Inv, TypeOK, Grows
<1>3. VisibleCanBeReceived'
  BY DEF Inv, VisibleCanBeReceived
<1>4. IsTable(queue', Messages, Message)
  BY DEF Inv, TypeOK
<1>5. DOMAIN job \subseteq DOMAIN job'
  BY DEF Grows
<1>6. IsTable(execution', DOMAIN job', {"started", "sent", "failed"})
  BY <1>5, WiderKeys DEF Inv, TypeOK
<1>7. TypeOK'
  BY <1>1, <1>2, <1>4, <1>6 DEF RecordTypes, TypeOK
<1> QED
  BY <1>1, <1>3, <1>7 DEF Inv

(* Types that hold of records which a step leaves alone.                   *)
LEMMA RecordsTyped == Inv => RecordTypes
  BY DEF Inv, TypeOK, RecordTypes

(* Access may change at any time.                                          *)
LEMMA ChangeAccessInv ==
    ASSUME Inv, ChangeAccess
    PROVE  Inv'
<1>1. holder' \in [Tickets -> Employees \cup {"nobody"}]
  BY DEF ChangeAccess, Inv, TypeOK
<1>2. RecordTypes'
  BY <1>1, RecordsTyped DEF RecordTypes, ChangeAccess, tables, IsTable
<1>3. Grows /\ RequestMoves /\ WorkerMoves
  BY NothingGrows, QuietMovesTo DEF Inv, ChangeAccess, tables
<1>4. /\ MarkersAreUnfinishedJobs' /\ ResultsAreCompletedJobs' /\ PointersLeadToJobs'
      /\ OneLivePerJob' /\ JobsAreCharged'
  BY DEF Inv, ChangeAccess, tables, MarkersAreUnfinishedJobs, HasMarker,
         ResultsAreCompletedJobs, OneLivePerJob, JobsAreCharged, PointersLeadToJobs
<1> QED
  BY <1>2, <1>3, <1>4, WritingStep DEF ChangeAccess

(* A lease that expires leaves its job without one.                        *)
LEMMA ExpireInv ==
    ASSUME Inv, NEW claim \in lease, Expire(claim)
    PROVE  Inv'
<1>1. RecordTypes'
  BY RecordsTyped DEF RecordTypes, Expire, tables, IsTable
<1>2. Grows
  BY JobShape DEF Inv, Grows, Expire, tables
<1>3. RequestMoves /\ WorkerMoves
  BY DEF RequestMoves, WorkerMoves, Expire
<1>4. OneLivePerJob'
  BY DEF Inv, Expire, tables, OneLivePerJob
<1>5. /\ MarkersAreUnfinishedJobs' /\ ResultsAreCompletedJobs' /\ PointersLeadToJobs'
      /\ JobsAreCharged'
  BY DEF Inv, Expire, tables, MarkersAreUnfinishedJobs, HasMarker,
         ResultsAreCompletedJobs, JobsAreCharged, PointersLeadToJobs
<1> QED
  BY <1>1, <1>2, <1>3, <1>4, <1>5, WritingStep DEF Expire

(* A worker at work has a local state, and holds a version of its job.     *)
LEMMA WorkerShape ==
    ASSUME Inv, NEW w \in Workers, worker[w].pc \in WorkerPcs
    PROVE  /\ worker[w] \in WorkerLocal /\ worker[w] # Idle /\ KnowsItsClaim(worker[w])
           /\ worker[w].message \in Messages /\ worker[w].message[1] \in DOMAIN job
           /\ worker[w].message[1] \in JobIds
           /\ worker[w].body \in Job /\ worker[w].stage \in Stages
           /\ worker[w].body.attempt \in Nat
<1>1. worker[w] # Idle
  BY DEF Idle, WorkerPcs
<1>2. worker[w] \in WorkerLocal
  BY <1>1 DEF Inv, TypeOK
<1>3. KnowsItsClaim(worker[w])
  BY DEF Inv
<1>4. /\ worker[w].message \in Messages /\ worker[w].body \in Job
      /\ worker[w].stage \in Stages
  BY <1>2 DEF WorkerLocal
<1> QED
  BY <1>1, <1>2, <1>3, <1>4, JobsAssumption DEF KnowsItsClaim, Messages, Job

(* A worker that has claimed a job stays what it is from stage to stage.   *)
LEMMA Proceeds ==
    ASSUME Inv, NEW w \in Workers, worker[w].pc \in WorkerPcs \ {"claim"},
           worker[w].pc \in {"authorize", "prepare", "commit", "fail"},
           NEW pc \in WorkerPcs \ {"claim"}, NEW stage \in Stages
    PROVE  LET q == Working(pc, worker[w].message, worker[w].body, stage)
           IN  q \in WorkerLocal /\ KnowsItsClaim(q)
<1> DEFINE q == Working(pc, worker[w].message, worker[w].body, stage)
<1>1. /\ worker[w] # Idle /\ KnowsItsClaim(worker[w])
      /\ worker[w].message \in Messages /\ worker[w].body \in Job
  BY WorkerShape
<1>2. q \in WorkerLocal
  BY <1>1 DEF Working, WorkerLocal
<1>3. KnowsItsClaim(q)
  BY <1>1 DEF KnowsItsClaim, Working
<1> QED
  BY <1>2, <1>3

(* A worker invocation may end or die at any point.                        *)
LEMMA AbandonInv ==
    ASSUME Inv, NEW w \in Workers, Abandon(w)
    PROVE  Inv'
  BY IdleKnows, WorkerStep DEF Abandon

(* The stages a worker goes through.                                       *)
LEMMA StageTypes ==
    /\ "draft" \in Stages /\ AfterReport \subseteq Stages
    /\ \A id : StagesFrom(id) \subseteq Stages
    /\ \A stage \in Stages \ {"run"} : StagesAfter(stage) \subseteq Stages
  BY DEF Stages, AfterReport, StagesFrom, StagesAfter

(* Authorizing and preparing only move a worker on.                        *)
LEMMA AuthorizeClaimInv ==
    ASSUME Inv, NEW w \in Workers, AuthorizeClaim(w)
    PROVE  Inv'
<1>1. worker[w].pc \in WorkerPcs \ {"claim"}
      /\ worker[w].pc \in {"authorize", "prepare", "commit", "fail"}
      /\ {"prepare", "fail"} \subseteq WorkerPcs \ {"claim"}
  BY DEF AuthorizeClaim, WorkerPcs
<1>2. PICK pc \in {"prepare", "fail"}, stage \in Stages : Proceed(w, pc, stage)
  BY StageTypes DEF AuthorizeClaim
<1> QED
  BY <1>1, <1>2, Proceeds, WorkerStep DEF AuthorizeClaim, Proceed

(* Whether the claim is still held is decided by the commit.               *)
LEMMA PrepareInv ==
    ASSUME Inv, NEW w \in Workers, Prepare(w)
    PROVE  Inv'
<1>1. worker[w].pc \in WorkerPcs \ {"claim"}
      /\ worker[w].pc \in {"authorize", "prepare", "commit", "fail"}
      /\ {"commit", "fail"} \subseteq WorkerPcs \ {"claim"}
  BY DEF Prepare, WorkerPcs
<1>2. PICK pc \in {"commit", "fail"}, stage \in Stages : Proceed(w, pc, stage)
  BY <1>1, StageTypes, WorkerShape DEF Prepare
<1> QED
  BY <1>1, <1>2, Proceeds, WorkerStep DEF Prepare, Proceed

(* A checkpoint or a proposal is saved under the attempt that wrote it.    *)
LEMMA SaveInv ==
    ASSUME Inv, NEW w \in Workers, Save(w)
    PROVE  Inv'
<1> DEFINE k == <<worker[w].message[1], worker[w].stage>>
<1>1. worker[w].pc \in WorkerPcs \ {"claim"}
      /\ worker[w].pc \in {"authorize", "prepare", "commit", "fail"}
      /\ "prepare" \in WorkerPcs \ {"claim"} /\ worker[w].pc \in WorkerPcs
  BY DEF Save, WorkerPcs
<1>2. PICK stage \in Stages : Proceed(w, "prepare", stage)
  BY <1>1, StageTypes, WorkerShape DEF Save
<1>3. UNCHANGED <<holder, job, pointer, active, used, run, lease, queue, execution, request>>
  BY DEF Save
<1>4. Grows
  BY <1>3, NothingGrows DEF Inv
<1>5. IsTable(job', JobIds, Job)
  BY <1>3 DEF Inv, TypeOK
<1>6. RequestMoves /\ WorkerMoves
  BY <1>1, <1>2, <1>3, <1>4, <1>5, Proceeds, MovesTo DEF Proceed
<1>7. IsTable(saved', JobIds \X Stages, Nat)
  <2>1. CASE UNCHANGED saved
    BY <2>1 DEF Inv, TypeOK
  <2>2. CASE saved' = Put(saved, k, worker[w].body.attempt)
    <3>1. k \in JobIds \X Stages /\ worker[w].body.attempt \in Nat
      BY <1>1, WorkerShape
    <3> QED
      BY <2>2, <3>1, PutType DEF Inv, TypeOK
  <2> QED
    BY <2>1, <2>2 DEF Save
<1>8. RecordTypes'
  BY <1>3, <1>7, RecordsTyped DEF RecordTypes, IsTable
<1>9. /\ MarkersAreUnfinishedJobs' /\ ResultsAreCompletedJobs' /\ PointersLeadToJobs'
      /\ OneLivePerJob' /\ JobsAreCharged'
  BY <1>3 DEF Inv, MarkersAreUnfinishedJobs, HasMarker, ResultsAreCompletedJobs,
         OneLivePerJob, JobsAreCharged, PointersLeadToJobs
<1> QED
  BY <1>3, <1>4, <1>6, <1>8, <1>9, WritingStep

(* A key that is bound keeps its job, a free one is bound to the active    *)
(* job.                                                                    *)
LEMMA BindKeyInv ==
    ASSUME Inv, NEW r \in Requests, BindKey(r)
    PROVE  Inv'
<1> DEFINE me == request[r]
           k == RequestKey(r)
           q == At("authorize", me.employee, me.ticket_id, me.key, me.id, me.body)
<1>1. /\ me.pc = "bind"
      /\ UNCHANGED <<holder, job, active, used, saved, run, lease, queue, execution, worker>>
  BY DEF BindKey
<1>2. /\ me.pc \in RequestPcs /\ "authorize" \in RequestPcs
      /\ me.pc \notin {"resend", "mark_resent", "fail_dead"}
  BY <1>1 DEF RequestPcs
<1>3. PICK id \in me.id :
          /\ k \in DOMAIN pointer => IsBoundTo(k, id, me.ticket_id)
          /\ pointer' = PutIfAbsent(pointer, k, [id |-> id, ticket_id |-> me.ticket_id])
          /\ Goto(r, "authorize")
  BY DEF BindKey
<1> DEFINE body == [id |-> id, ticket_id |-> me.ticket_id]
<1>4. /\ me.employee \in Employees /\ me.ticket_id \in Tickets /\ me.key \in Keys
      /\ me.id = {id} /\ id \in JobIds /\ id \in DOMAIN job
      /\ job[id].requester = me.employee /\ job[id].ticket_id = me.ticket_id
  BY <1>1, <1>2, <1>3, RequestShape DEF KnowsItsJob
<1>5. k \in Employees \X Keys /\ body \in Pointer /\ k[1] = me.employee
  BY <1>4 DEF RequestKey, Pointer
<1>6. /\ IsTable(pointer', Employees \X Keys, Pointer)
      /\ DOMAIN pointer' = DOMAIN pointer \cup {k}
      /\ \A other \in DOMAIN pointer : pointer'[other] = pointer[other]
      /\ k \notin DOMAIN pointer => pointer'[k] = body
  <2>1. IsTable(pointer, Employees \X Keys, Pointer)
    BY DEF Inv, TypeOK
  <2>2. pointer' = PutIfAbsent(pointer, k, body)
    BY <1>3
  <2> HIDE DEF k, body
  <2>3. CASE k \in DOMAIN pointer
    BY <2>1, <2>2, <2>3 DEF PutIfAbsent
  <2>4. CASE k \notin DOMAIN pointer
    BY <1>5, <2>1, <2>2, <2>4 DEF PutIfAbsent, Put, IsTable
  <2> QED
    BY <2>3, <2>4
<1>7. pointer'[k].id = id /\ pointer'[k].ticket_id = me.ticket_id
  BY <1>3, <1>6 DEF IsBoundTo
<1>8. \A j \in DOMAIN job : job[j].attempt <= job[j].attempt
  BY JobShape DEF Inv
<1>9. Grows
  BY <1>1, <1>6, <1>8 DEF Grows
<1>10. /\ q \in Local /\ q # Idle /\ q.pc = "authorize" /\ q.employee = me.employee
       /\ q.ticket_id = me.ticket_id /\ q.key = me.key /\ q.id = me.id
  BY <1>2, GotoType
<1>11. PICK p \in Local : p = q
  BY <1>10
<1>12. KnowsItsJob(p)'
  <2>1. KeyOf(p) = k
    BY <1>10, <1>11 DEF KeyOf, RequestKey
  <2> HIDE DEF q, k
  <2> QED
    BY <1>1, <1>4, <1>6, <1>7, <1>10, <1>11, <2>1 DEF KnowsItsJob, BoundPcs, KeyOf
<1>13. IsTable(job', JobIds, Job)
  BY <1>1 DEF Inv, TypeOK
<1>14. RequestMoves /\ WorkerMoves
  BY <1>1, <1>3, <1>11, <1>12 DEF RequestMoves, WorkerMoves, Goto
<1>15. RecordTypes'
  BY <1>1, <1>6, RecordsTyped DEF RecordTypes, IsTable
<1>16. PointersLeadToJobs'
  BY <1>1, <1>4, <1>5, <1>6, <1>7 DEF Inv, PointersLeadToJobs
<1>17. /\ MarkersAreUnfinishedJobs' /\ ResultsAreCompletedJobs'
       /\ OneLivePerJob' /\ JobsAreCharged'
  BY <1>1 DEF Inv, MarkersAreUnfinishedJobs, HasMarker, ResultsAreCompletedJobs,
         OneLivePerJob, JobsAreCharged
<1> QED
  BY <1>1, <1>9, <1>14, <1>15, <1>16, <1>17, WritingStep

(* A job that is put where it was keeps its owner and may be claimed once  *)
(* more.                                                                   *)
LEMMA JobPut ==
    ASSUME Inv, NEW id \in DOMAIN job, NEW body \in Job,
           body.requester = job[id].requester, body.ticket_id = job[id].ticket_id,
           job[id].attempt <= body.attempt,
           job' = Put(job, id, body), UNCHANGED <<pointer, used>>,
           \A claim \in lease' \ lease : claim[1] = id /\ job[id].attempt < claim[2]
    PROVE  /\ IsTable(job', JobIds, Job)
           /\ DOMAIN job' = DOMAIN job /\ job'[id] = body
           /\ \A other \in DOMAIN job \ {id} : job'[other] = job[other]
           /\ Grows /\ PointersLeadToJobs' /\ JobsAreCharged'
<1>1. IsTable(job', JobIds, Job)
  BY JobShape, PutType DEF Inv, TypeOK
<1>2. /\ DOMAIN job' = DOMAIN job /\ job'[id] = body
      /\ \A other \in DOMAIN job \ {id} : job'[other] = job[other]
  BY DEF Put
<1>3. \A other \in DOMAIN job :
          /\ job'[other].requester = job[other].requester
          /\ job'[other].ticket_id = job[other].ticket_id
          /\ job[other].attempt <= job'[other].attempt
  BY <1>2, JobShape DEF Inv
<1>4. Grows
  BY <1>2, <1>3 DEF Grows
<1>5. PointersLeadToJobs'
  BY <1>2, <1>3 DEF Inv, PointersLeadToJobs
<1>6. JobsAreCharged'
  BY <1>2 DEF Inv, JobsAreCharged
<1> QED
  BY <1>1, <1>2, <1>4, <1>5, <1>6

(* A job that was pending is marked, whoever sent its message; a copy that *)
(* is out of date marks nothing.                                           *)
LEMMA MarkSentInv ==
    ASSUME Inv, NEW r \in Requests, MarkSent(r)
    PROVE  Inv'
<1> DEFINE me == request[r]
           answer == NewJob(me.employee, me.ticket_id)
           q == At("answer", me.employee, me.ticket_id, me.key, me.id, answer)
<1>1. me.pc \in {"mark_sent", "mark_resent"}
  BY DEF MarkSent
<1>2. PICK id \in me.id :
          /\ \/ IsUnchanged(id, me.body) /\ job' = Put(job, id, Sent(me.body))
             \/ UNCHANGED job
          /\ IF me.pc = "mark_sent"
             THEN Answer(r)
             ELSE request' = [request EXCEPT ![r] = Idle]
          /\ UNCHANGED <<holder, pointer, active, used, saved, run, lease, queue, execution, worker>>
  BY DEF MarkSent
<1>3. me.pc \in RequestPcs
  BY <1>1 DEF RequestPcs
<1>4. KnowsItsJob(me) /\ me # Idle /\ NeedsDispatch(me.body)
  BY <1>1, <1>3, RequestShape DEF KnowsItsJob
<1>5. /\ IsTable(job', JobIds, Job) /\ DOMAIN job' = DOMAIN job
      /\ Grows /\ PointersLeadToJobs' /\ JobsAreCharged'
      /\ \A other \in DOMAIN job :
             /\ job'[other].requester = job[other].requester
             /\ job'[other].ticket_id = job[other].ticket_id
             /\ job'[other].status = job[other].status
             /\ job'[other].attempt = job[other].attempt
  <2>1. CASE UNCHANGED job
    <3>1. Grows
      BY <1>2, <2>1, NothingGrows DEF Inv
    <3> QED
      BY <1>2, <2>1, <3>1 DEF Inv, TypeOK, PointersLeadToJobs, JobsAreCharged
  <2>2. CASE IsUnchanged(id, me.body) /\ job' = Put(job, id, Sent(me.body))
    <3> DEFINE body == Sent(job[id])
    <3>1. id \in DOMAIN job /\ job' = Put(job, id, body)
      BY <2>2 DEF IsUnchanged
    <3>2. /\ body \in Job /\ body.requester = job[id].requester
          /\ body.ticket_id = job[id].ticket_id /\ body.status = job[id].status
          /\ body.attempt = job[id].attempt /\ job[id].attempt <= body.attempt
      BY <3>1, JobShape DEF Sent, Job, Inv
    <3>3. /\ IsTable(job', JobIds, Job) /\ DOMAIN job' = DOMAIN job
          /\ Grows /\ PointersLeadToJobs' /\ JobsAreCharged' /\ job'[id] = body
          /\ \A other \in DOMAIN job \ {id} : job'[other] = job[other]
      <4> HIDE DEF body
      <4> QED
        BY <1>2, <3>1, <3>2, JobPut
    <3> QED
      BY <3>2, <3>3
  <2> QED
    BY <1>2, <2>1, <2>2
<1>6. RequestMoves /\ WorkerMoves
  <2>1. CASE me.pc = "mark_sent"
    <3>1. answer \in Job
      BY <1>3, RequestShape, NewJobType
    <3>2. q \in Local /\ q # Idle /\ q.pc = "answer" /\ q.employee = me.employee
          /\ q.ticket_id = me.ticket_id /\ q.key = me.key /\ q.id = me.id
      <4>1. /\ me.employee \in Employees /\ me.ticket_id \in Tickets
            /\ me.key \in Keys \cup {"none"} /\ me.id \in SUBSET JobIds
        BY <1>3, RequestShape
      <4>2. q \in Local
        BY <3>1, <4>1 DEF At, Local, RequestPcs
      <4> QED
        BY <4>2, Idles DEF At
    <3>3. KnowsItsJob(q)
      <4> HIDE DEF q
      <4> QED
        BY <1>4, <2>1, <3>2 DEF KnowsItsJob, BoundPcs, KeyOf
    <3>4. request' = [request EXCEPT ![r] = q]
      BY <1>2, <2>1 DEF Answer, Holding
    <3> QED
      BY <1>2, <1>5, <3>2, <3>3, <3>4, MovesTo
  <2>2. CASE me.pc = "mark_resent"
    BY <1>2, <1>5, <2>2, IdleKnows, MovesTo
  <2> QED
    BY <1>1, <2>1, <2>2
<1>7. RecordTypes'
  BY <1>2, <1>5, RecordsTyped DEF RecordTypes, IsTable
<1>8. MarkersAreUnfinishedJobs'
  <2>1. \A k \in DOMAIN active : active[k] \in DOMAIN job
    BY MarkerLeadsToJob
  <2> QED
    BY <1>2, <1>5, <2>1 DEF Inv, MarkersAreUnfinishedJobs, HasMarker
<1>9. ResultsAreCompletedJobs'
  BY <1>2, <1>5 DEF Inv, ResultsAreCompletedJobs
<1>10. OneLivePerJob'
  BY <1>2, <1>5 DEF Inv, OneLivePerJob
<1> QED
  BY <1>2, <1>5, <1>6, <1>7, <1>8, <1>9, <1>10, WritingStep

(* A claim is the only one of its job that is leased: an earlier lease     *)
(* would have been of the version that the worker found without one.       *)
LEMMA ClaimInv ==
    ASSUME Inv, NEW w \in Workers, Claim(w)
    PROVE  Inv'
<1> DEFINE me == worker[w]
           id == me.message[1]
           claimed == Claimed(me.body)
           q == Working("authorize", me.message, claimed, "draft")
<1>1. /\ me.pc = "claim" /\ id \in DOMAIN job /\ job[id] = me.body
      /\ job' = Put(job, id, claimed)
      /\ lease' = lease \cup {<<id, claimed.attempt>>}
      /\ worker' = [worker EXCEPT ![w] = q]
      /\ UNCHANGED <<holder, pointer, active, used, saved, run, queue, execution, request>>
  BY DEF Claim, IsUnchanged
<1>2. me.pc \in WorkerPcs
  BY <1>1 DEF WorkerPcs
<1>3. /\ job[id].status \notin Terminal /\ <<id, job[id].attempt>> \notin lease
      /\ me.message \in Messages /\ id \in JobIds
  BY <1>1, <1>2, WorkerShape DEF KnowsItsClaim
<1>4. /\ claimed \in Job /\ claimed.requester = job[id].requester
      /\ claimed.ticket_id = job[id].ticket_id /\ claimed.status = "running"
      /\ claimed.attempt = job[id].attempt + 1 /\ job[id].attempt \in Nat
      /\ claimed.status \notin Terminal
  BY <1>1, JobShape DEF Inv, Claimed, Job, Statuses, Terminal
<1>5. job[id].attempt <= claimed.attempt /\ job[id].attempt < claimed.attempt
      /\ claimed.attempt \in Nat
  BY <1>4
<1>6. /\ IsTable(job', JobIds, Job) /\ DOMAIN job' = DOMAIN job /\ job'[id] = claimed
      /\ \A other \in DOMAIN job \ {id} : job'[other] = job[other]
      /\ Grows /\ PointersLeadToJobs' /\ JobsAreCharged'
  <2> HIDE DEF claimed, id
  <2> QED
    BY <1>1, <1>4, <1>5, JobPut
<1>7. PICK p \in WorkerLocal : p = q
  BY <1>3, <1>4 DEF Working, WorkerLocal, WorkerPcs, Stages
<1>8. KnowsItsClaim(p)'
  <2>1. p.message[1] = id /\ p.body = claimed /\ p.pc = "authorize"
    BY <1>7 DEF Working
  <2>2. claimed.attempt <= job'[id].attempt
    BY <1>5, <1>6
  <2> HIDE DEF q, id, claimed
  <2> QED
    BY <1>1, <1>4, <1>6, <2>1, <2>2 DEF KnowsItsClaim
<1>9. RequestMoves /\ WorkerMoves
  BY <1>1, <1>7, <1>8 DEF RequestMoves, WorkerMoves
<1>10. RecordTypes'
  BY <1>1, <1>3, <1>5, <1>6, RecordsTyped DEF RecordTypes, IsTable
<1>11. MarkersAreUnfinishedJobs'
  <2>1. \A k \in DOMAIN active : active[k] \in DOMAIN job
    BY MarkerLeadsToJob
  <2> HIDE DEF id, claimed
  <2> QED
    BY <1>1, <1>3, <1>4, <1>6, <2>1 DEF Inv, MarkersAreUnfinishedJobs, HasMarker
<1>12. ResultsAreCompletedJobs'
  <2>1. job[id].status # "completed" /\ job'[id].status # "completed"
    BY <1>3, <1>4, <1>6 DEF Terminal
  <2> QED
    BY <1>1, <1>6, <2>1 DEF Inv, ResultsAreCompletedJobs
<1>13. OneLivePerJob'
  <2>1. ASSUME NEW claim \in lease
        PROVE  claim[1] \in DOMAIN job /\ claim[1] # id /\ claim[2] = job[claim[1]].attempt
    <3>1. claim[1] \in DOMAIN job /\ claim[2] = job[claim[1]].attempt
          /\ claim = <<claim[1], claim[2]>>
      BY DEF Inv, OneLivePerJob, TypeOK
    <3> QED
      BY <1>3, <3>1
  <2> HIDE DEF id, claimed
  <2> QED
    BY <1>1, <1>6, <2>1 DEF OneLivePerJob
<1> QED
  BY <1>1, <1>6, <1>9, <1>10, <1>11, <1>12, <1>13, WritingStep

(* A job that ends gives up its marker and its lease, and has a result     *)
(* exactly when it is completed.                                           *)
LEMMA EndJob ==
    ASSUME Inv, NEW id, NEW body, NEW end \in Terminal,
           IsUnchanged(id, body), HasMarker(id, body),
           job' = Put(job, id, WithStatus(body, end)),
           active' = MarkerReleased(body),
           lease' = lease \ {<<id, body.attempt>>},
           \/ end = "failed" /\ UNCHANGED run
           \/ end = "completed" /\ run' = Put(run, id, body.attempt),
           UNCHANGED <<holder, pointer, used, saved>>
    PROVE  /\ job[id].status \notin Terminal /\ id \in DOMAIN job
           /\ Grows /\ RecordTypes' /\ MarkersAreUnfinishedJobs' /\ ResultsAreCompletedJobs'
           /\ PointersLeadToJobs' /\ OneLivePerJob' /\ JobsAreCharged'
<1> DEFINE ended == WithStatus(job[id], end)
           k == <<job[id].requester, job[id].ticket_id>>
<1>1. /\ id \in DOMAIN job /\ body = job[id] /\ job' = Put(job, id, ended)
      /\ k \in DOMAIN active /\ active[k] = id
      /\ DOMAIN active' = DOMAIN active \ {k}
      /\ \A other \in DOMAIN active \ {k} : active'[other] = active[other]
      /\ lease' = lease \ {<<id, job[id].attempt>>}
  BY DEF IsUnchanged, HasMarker, MarkerReleased, Delete
<1>2. job[id].status \notin Terminal
  BY <1>1, MarkerLeadsToJob
<1>3. /\ ended \in Job /\ ended.requester = job[id].requester
      /\ ended.ticket_id = job[id].ticket_id /\ ended.status = end
      /\ ended.attempt = job[id].attempt /\ job[id].attempt <= ended.attempt
  BY <1>1, JobShape DEF WithStatus, Job, Inv, Terminal, Statuses
<1>4. /\ IsTable(job', JobIds, Job) /\ DOMAIN job' = DOMAIN job /\ job'[id] = ended
      /\ \A other \in DOMAIN job \ {id} : job'[other] = job[other]
      /\ Grows /\ PointersLeadToJobs' /\ JobsAreCharged'
  <2> HIDE DEF ended
  <2> QED
    BY <1>1, <1>3, JobPut
<1>5. IsTable(active', Employees \X Tickets, DOMAIN job')
  <2>1. IsTable(active', Employees \X Tickets, DOMAIN job)
    BY DeleteType DEF Inv, TypeOK, MarkerReleased
  <2> QED
    BY <1>4, <2>1
<1>6. IsTable(run', JobIds, Nat)
  <2>1. id \in JobIds /\ job[id].attempt \in Nat /\ IsTable(run, JobIds, Nat)
    BY <1>1, JobShape DEF Inv, TypeOK
  <2> QED
    BY <1>1, <2>1, PutType
<1>7. RecordTypes'
  BY <1>4, <1>5, <1>6, RecordsTyped DEF RecordTypes, IsTable
<1>8. MarkersAreUnfinishedJobs'
  <2>1. ASSUME NEW other \in DOMAIN active'
        PROVE  /\ job'[active'[other]].status \notin Terminal
               /\ other = <<job'[active'[other]].requester, job'[active'[other]].ticket_id>>
    <3>1. /\ other \in DOMAIN active \ {k} /\ active'[other] = active[other]
          /\ active[other] \in DOMAIN job /\ job[active[other]].status \notin Terminal
          /\ other = <<job[active[other]].requester, job[active[other]].ticket_id>>
      BY <1>1, MarkerLeadsToJob
    <3>2. active[other] # id
      BY <3>1
    <3> QED
      BY <1>4, <3>1, <3>2
  <2>2. ASSUME NEW j \in DOMAIN job', job'[j].status \notin Terminal
        PROVE  HasMarker(j, job[j])' /\ j # id
    <3>1. j # id /\ j \in DOMAIN job /\ job'[j] = job[j]
      BY <1>3, <1>4, <2>2
    <3>2. HasMarker(j, job[j])
      BY <2>2, <3>1 DEF Inv, MarkersAreUnfinishedJobs
    <3> QED
      BY <1>1, <3>1, <3>2 DEF HasMarker
  <2> QED
    BY <2>1, <2>2 DEF MarkersAreUnfinishedJobs
<1>9. ResultsAreCompletedJobs'
  <2>1. CASE end = "failed"
    <3>1. UNCHANGED run /\ job'[id].status # "completed" /\ job[id].status # "completed"
      BY <1>2, <1>3, <1>4, <2>1 DEF Terminal
    <3> QED
      BY <1>4, <3>1 DEF Inv, ResultsAreCompletedJobs
  <2>2. CASE end = "completed"
    <3>1. DOMAIN run' = DOMAIN run \cup {id} /\ job'[id].status = "completed"
      BY <1>3, <1>4, <2>2 DEF Put
    <3> QED
      BY <1>1, <1>4, <3>1 DEF Inv, ResultsAreCompletedJobs
  <2> QED
    BY <2>1, <2>2
<1>10. OneLivePerJob'
  <2>1. ASSUME NEW claim \in lease'
        PROVE  claim[1] \in DOMAIN job' /\ claim[2] = job'[claim[1]].attempt
    <3>1. claim \in lease
      BY <1>1
    <3>2. claim[1] \in DOMAIN job /\ claim[2] = job[claim[1]].attempt
      BY <3>1 DEF Inv, OneLivePerJob
    <3> QED
      BY <1>3, <1>4, <3>2
  <2> QED
    BY <2>1 DEF OneLivePerJob
<1> QED
  BY <1>1, <1>2, <1>4, <1>7, <1>8, <1>9, <1>10

(* The result, the terminal state and the marker commit together.          *)
LEMMA PublishInv ==
    ASSUME Inv, NEW w \in Workers, Publish(w)
    PROVE  Inv'
<1> DEFINE id == worker[w].message[1]
           body == worker[w].body
<1>1. /\ worker[w].pc \in WorkerPcs \ {"claim"} /\ "acknowledge" \in WorkerPcs \ {"claim"}
      /\ worker[w].pc \in {"authorize", "prepare", "commit", "fail"}
  BY DEF Publish, WorkerPcs
<1>2. /\ IsUnchanged(id, body) /\ HasMarker(id, body)
      /\ run' = Put(run, id, body.attempt)
      /\ job' = Put(job, id, WithStatus(body, "completed"))
      /\ active' = MarkerReleased(body)
      /\ lease' = lease \ {<<id, body.attempt>>}
      /\ Proceed(w, "acknowledge", "draft")
      /\ UNCHANGED <<holder, pointer, used, saved, queue, execution, request>>
  BY DEF Publish, HoldsClaim, Completed
<1>3. /\ Grows /\ RecordTypes' /\ MarkersAreUnfinishedJobs' /\ ResultsAreCompletedJobs'
      /\ PointersLeadToJobs' /\ OneLivePerJob' /\ JobsAreCharged'
  BY <1>2, EndJob DEF Terminal
<1>4. RequestMoves /\ WorkerMoves
  BY <1>1, <1>2, <1>3, StageTypes, Proceeds, MovesTo DEF Proceed, RecordTypes
<1> QED
  BY <1>2, <1>3, <1>4, WritingStep

(* A job that is rejected ends without a result.                           *)
LEMMA RejectInv ==
    ASSUME Inv, NEW w \in Workers, Reject(w)
    PROVE  Inv'
<1> DEFINE id == worker[w].message[1]
           body == worker[w].body
<1>1. /\ worker[w].pc \in WorkerPcs \ {"claim"} /\ "acknowledge" \in WorkerPcs \ {"claim"}
      /\ worker[w].pc \in {"authorize", "prepare", "commit", "fail"}
  BY DEF Reject, WorkerPcs
<1>2. /\ FailJob(id, body) /\ Proceed(w, "acknowledge", "draft")
      /\ UNCHANGED <<holder, pointer, used, saved, run, queue, execution, request>>
  BY DEF Reject
<1>3. /\ Grows /\ RecordTypes' /\ MarkersAreUnfinishedJobs' /\ ResultsAreCompletedJobs'
      /\ PointersLeadToJobs' /\ OneLivePerJob' /\ JobsAreCharged'
  BY <1>2, EndJob DEF Terminal, FailJob
<1>4. RequestMoves /\ WorkerMoves
  BY <1>1, <1>2, <1>3, StageTypes, Proceeds, MovesTo DEF Proceed, RecordTypes
<1> QED
  BY <1>2, <1>3, <1>4, WritingStep

(* So does one whose message SQS gave up.                                  *)
LEMMA FailDeadInv ==
    ASSUME Inv, NEW r \in Requests, FailDead(r)
    PROVE  Inv'
<1>1. PICK id \in request[r].id :
          /\ FailJob(id, request[r].body)
          /\ request' = [request EXCEPT ![r] = Idle]
          /\ UNCHANGED <<holder, pointer, used, saved, run, queue, execution, worker>>
  BY DEF FailDead
<1>2. /\ Grows /\ RecordTypes' /\ MarkersAreUnfinishedJobs' /\ ResultsAreCompletedJobs'
      /\ PointersLeadToJobs' /\ OneLivePerJob' /\ JobsAreCharged'
  BY <1>1, EndJob DEF Terminal, FailJob
<1>3. RequestMoves /\ WorkerMoves
  BY <1>1, <1>2, IdleKnows, MovesTo DEF RecordTypes
<1> QED
  BY <1>1, <1>2, <1>3, WritingStep

(* A job that is created is the only one of its owner, and is charged for. *)
LEMMA CreateJobInv ==
    ASSUME Inv, NEW r \in Requests, NEW id \in JobIds, CreateJob(r, id)
    PROVE  Inv'
<1> DEFINE me == request[r]
           mine == NewJob(me.employee, me.ticket_id)
           k == RequestKey(r)
           a == ActiveKey(r)
           bound == [id |-> id, ticket_id |-> me.ticket_id]
<1>1. /\ me.pc = "create" /\ id \notin DOMAIN job
      /\ UNCHANGED <<holder, saved, run, lease, queue, execution, worker>>
  BY DEF CreateJob
<1>2. me.pc \in RequestPcs /\ me.pc \notin {"resend", "mark_resent", "fail_dead"}
  BY <1>1 DEF RequestPcs
<1>3. /\ me.employee \in Employees /\ me.ticket_id \in Tickets /\ me.key \in Keys
      /\ mine \in Job
  BY <1>2, RequestShape, NewJobType DEF KnowsItsJob
<1>4. CASE Goto(r, "reread_pointer") /\ UNCHANGED <<job, pointer, active, used>>
  <2> DEFINE q == At("reread_pointer", me.employee, me.ticket_id, me.key, me.id, me.body)
  <2>1. "reread_pointer" \in RequestPcs
    BY DEF RequestPcs
  <2>2. /\ q \in Local /\ q.pc = "reread_pointer" /\ q.employee = me.employee
        /\ q.ticket_id = me.ticket_id /\ q.key = me.key /\ q.id = me.id
    BY <1>2, <2>1, GotoType
  <2>3. KnowsItsJob(q)
    BY <1>2, <1>3, <2>2, RequestShape DEF KnowsItsJob, BoundPcs
  <2> QED
    BY <1>1, <1>4, <2>2, <2>3, RequestStep DEF Goto, tables
<1>5. CASE /\ k \notin DOMAIN pointer /\ a \notin DOMAIN active /\ HasAllowance
           /\ job' = Put(job, id, mine) /\ pointer' = Put(pointer, k, bound)
           /\ active' = Put(active, a, id) /\ used' = used + 1
           /\ Holding(r, "bind", {id}, mine)
  <2>1. /\ k \in Employees \X Keys /\ k[1] = me.employee
        /\ a \in Employees \X Tickets /\ a = <<me.employee, me.ticket_id>>
        /\ bound \in Pointer /\ bound.id = id /\ bound.ticket_id = me.ticket_id
    BY <1>3 DEF RequestKey, ActiveKey, Pointer
  <2>2. /\ mine.requester = me.employee /\ mine.ticket_id = me.ticket_id
        /\ mine.status = "queued" /\ mine.status \notin Terminal
    BY DEF NewJob, Terminal
  <2> HIDE DEF mine, k, a, bound
  <2>3. /\ IsTable(job', JobIds, Job) /\ DOMAIN job' = DOMAIN job \cup {id}
        /\ job'[id] = mine /\ \A j \in DOMAIN job : j # id /\ job'[j] = job[j]
    <3>1. IsTable(job', JobIds, Job)
      BY <1>3, <1>5, PutType DEF Inv, TypeOK
    <3> QED
      BY <1>1, <1>5, <3>1 DEF Put
  <2>4. /\ IsTable(pointer', Employees \X Keys, Pointer)
        /\ DOMAIN pointer' = DOMAIN pointer \cup {k} /\ pointer'[k] = bound
        /\ \A other \in DOMAIN pointer : pointer'[other] = pointer[other]
    <3>1. IsTable(pointer', Employees \X Keys, Pointer)
      BY <1>5, <2>1, PutType DEF Inv, TypeOK
    <3> QED
      BY <1>5, <3>1 DEF Put
  <2>5. /\ IsTable(active', Employees \X Tickets, DOMAIN job')
        /\ DOMAIN active' = DOMAIN active \cup {a} /\ active'[a] = id
        /\ \A other \in DOMAIN active : active'[other] = active[other]
    <3>1. DOMAIN active \subseteq Employees \X Tickets
          /\ \A other \in DOMAIN active : active[other] \in DOMAIN job
      BY DEF Inv, TypeOK, IsTable
    <3>2. /\ DOMAIN active' = DOMAIN active \cup {a} /\ active'[a] = id
          /\ \A other \in DOMAIN active : active'[other] = active[other]
          /\ active' \in [DOMAIN active' -> DOMAIN job']
      BY <1>5, <2>3, <3>1 DEF Put
    <3> QED
      BY <2>1, <3>1, <3>2 DEF IsTable
  <2>6. used' \in Nat /\ used' <= Limit /\ used < Limit
    BY <1>5, JobsAssumption DEF HasAllowance, Inv, TypeOK
  <2>7. RecordTypes'
    BY <1>1, <2>3, <2>4, <2>5, <2>6, RecordsTyped DEF RecordTypes, IsTable
  <2>8. Grows
    BY <1>1, <2>3, <2>4, JobShape DEF Grows, Inv
  <2>9. PICK p \in Local :
            p = At("bind", me.employee, me.ticket_id, me.key, {id}, mine)
    BY <1>3 DEF At, Local, RequestPcs
  <2>10. KnowsItsJob(p)'
    <3>1. /\ p.pc = "bind" /\ p.employee = me.employee /\ p.ticket_id = me.ticket_id
          /\ p.key = me.key /\ p.id = {id}
      BY <2>9 DEF At
    <3> QED
      BY <1>3, <2>2, <2>3, <3>1 DEF KnowsItsJob, BoundPcs
  <2>11. RequestMoves /\ WorkerMoves
    BY <1>1, <1>5, <2>9, <2>10 DEF RequestMoves, WorkerMoves, Holding
  <2>12. MarkersAreUnfinishedJobs'
    <3>1. ASSUME NEW other \in DOMAIN active'
          PROVE  /\ job'[active'[other]].status \notin Terminal
                 /\ other = <<job'[active'[other]].requester, job'[active'[other]].ticket_id>>
      <4>1. CASE other = a
        BY <2>1, <2>2, <2>3, <2>5, <4>1
      <4>2. CASE other \in DOMAIN active
        BY <2>3, <2>5, <4>2, MarkerLeadsToJob
      <4> QED
        BY <2>5, <4>1, <4>2
    <3>2. ASSUME NEW j \in DOMAIN job', job'[j].status \notin Terminal
          PROVE  HasMarker(j, job[j])'
      <4>1. CASE j = id
        BY <2>1, <2>2, <2>3, <2>5, <4>1 DEF HasMarker
      <4>2. CASE j \in DOMAIN job
        <5>1. job'[j] = job[j] /\ HasMarker(j, job[j])
          BY <2>3, <3>2, <4>2 DEF Inv, MarkersAreUnfinishedJobs
        <5> QED
          BY <2>5, <5>1 DEF HasMarker
      <4> QED
        BY <2>3, <4>1, <4>2
    <3> QED
      BY <3>1, <3>2 DEF MarkersAreUnfinishedJobs
  <2>13. ResultsAreCompletedJobs'
    <3>1. job'[id].status # "completed"
      BY <2>2, <2>3
    <3> QED
      BY <1>1, <2>3, <3>1 DEF Inv, ResultsAreCompletedJobs
  <2>14. PointersLeadToJobs'
    <3>1. ASSUME NEW other \in DOMAIN pointer'
          PROVE  /\ pointer'[other].id \in DOMAIN job'
                 /\ job'[pointer'[other].id].requester = other[1]
                 /\ job'[pointer'[other].id].ticket_id = pointer'[other].ticket_id
      <4>1. CASE other = k
        BY <2>1, <2>2, <2>3, <2>4, <4>1
      <4>2. CASE other \in DOMAIN pointer
        BY <2>3, <2>4, <4>2 DEF Inv, PointersLeadToJobs
      <4> QED
        BY <2>4, <4>1, <4>2
    <3> QED
      BY <3>1 DEF PointersLeadToJobs
  <2>15. OneLivePerJob'
    BY <1>1, <2>3 DEF Inv, OneLivePerJob
  <2>16. JobsAreCharged'
    <3>1. /\ IsFiniteSet(DOMAIN job') /\ Cardinality(DOMAIN job') = Cardinality(DOMAIN job) + 1
      BY <1>1, <2>3, FS_AddElement DEF Inv, JobsAreCharged
    <3>2. Cardinality(DOMAIN job) \in Nat /\ used \in Nat /\ Cardinality(DOMAIN job) <= used
      BY FS_CardinalityType DEF Inv, JobsAreCharged, TypeOK
    <3>3. Cardinality(DOMAIN job') <= used'
      BY <1>5, <3>1, <3>2
    <3> QED
      BY <2>6, <3>1, <3>3 DEF JobsAreCharged
  <2> QED
    BY <1>1, <2>7, <2>8, <2>11, <2>12, <2>13, <2>14, <2>15, <2>16, WritingStep
<1> QED
  BY <1>4, <1>5 DEF CreateJob

(* Every step preserves the invariant.                                     *)
LEMMA StepInv ==
    ASSUME Inv, [Next]_vars
    PROVE  Inv'
<1>1. CASE UNCHANGED vars
  BY <1>1, QuietMovesTo, QuietStep
     DEF vars, tables, Inv, TypeOK, QueueOK, VisibleCanBeReceived, IsTable
<1>2. ASSUME NEW r \in Requests, Submitting(r) PROVE Inv'
  BY <1>2, EndInv, SubmitInv, ReadPointerInv, ReadActiveInv, ReadJobInv, CreateJobInv,
     BindKeyInv, AuthorizeInv, StartInv, SendInv, MarkSentInv DEF Submitting
<1>3. ASSUME NEW r \in Requests, Maintaining(r) PROVE Inv'
  BY <1>3, RescanInv, ReadDeadInv, FailDeadInv DEF Maintaining
<1>4. ASSUME NEW w \in Workers, Investigating(w) PROVE Inv'
  BY <1>4, ReceiveInv, ClaimInv, AuthorizeClaimInv, PrepareInv, SaveInv, PublishInv,
     RejectInv, AcknowledgeInv, AbandonInv DEF Investigating
<1>5. CASE Delivering
  BY <1>5, SendMessageInv, FailExecutionInv, ReceiveUnclaimableInv, RedeliverInv DEF Delivering
<1>6. CASE ChangeAccess
  BY <1>6, ChangeAccessInv
<1>7. ASSUME NEW claim \in lease, Expire(claim) PROVE Inv'
  BY <1>7, ExpireInv
<1> QED
  BY <1>1, <1>2, <1>3, <1>4, <1>5, <1>6, <1>7 DEF Next

-----------------------------------------------------------------------------
(* What a step does to jobs and to what their claims write.                *)

NothingWritten == UNCHANGED <<job, used, saved, run>>

Created(id) ==
    \E e \in Employees, t \in Tickets :
        /\ id \in JobIds \ DOMAIN job /\ <<e, t>> \notin DOMAIN active
        /\ used < Limit /\ used' = used + 1
        /\ job' = Put(job, id, NewJob(e, t))
        /\ UNCHANGED <<saved, run>>

Marked(id) ==
    /\ id \in DOMAIN job /\ NeedsDispatch(job[id])
    /\ job' = Put(job, id, Sent(job[id]))
    /\ UNCHANGED <<used, saved, run>>

Leased(id) ==
    /\ id \in DOMAIN job /\ job[id].status \notin Terminal
    /\ job' = Put(job, id, Claimed(job[id]))
    /\ UNCHANGED <<used, saved, run>>

(* The claim holds and its requester has access.                           *)
ClaimIsGood(id) ==
    /\ id \in DOMAIN job /\ job[id].status = "running"
    /\ HasAccess(job[id].requester, job[id].ticket_id)

Checkpointed(id) ==
    /\ ClaimIsGood(id)
    /\ \E stage : saved' = Put(saved, <<id, stage>>, job[id].attempt)
    /\ UNCHANGED <<job, used, run>>

Finished(id) ==
    /\ ClaimIsGood(id)
    /\ job' = Put(job, id, WithStatus(job[id], "completed"))
    /\ run' = Put(run, id, job[id].attempt)
    /\ UNCHANGED <<used, saved>>

Failed(id) ==
    /\ id \in DOMAIN job /\ job[id].status \notin Terminal
    /\ job' = Put(job, id, WithStatus(job[id], "failed"))
    /\ UNCHANGED <<used, saved, run>>

WritesAbout(id) ==
    Created(id) \/ Marked(id) \/ Leased(id) \/ Checkpointed(id) \/ Finished(id) \/ Failed(id)

(* A worker holding its claim, unchanged, is the one that runs the job.    *)
LEMMA ClaimHeld ==
    ASSUME Inv, NEW w \in Workers, worker[w].pc \in {"authorize", "prepare", "commit", "fail"},
           IsUnchanged(worker[w].message[1], worker[w].body)
    PROVE  /\ worker[w].message[1] \in DOMAIN job
           /\ job[worker[w].message[1]] = worker[w].body
           /\ job[worker[w].message[1]].status = "running"
<1>1. worker[w].pc \in WorkerPcs
  BY DEF WorkerPcs
<1> QED
  BY <1>1, WorkerShape DEF KnowsItsClaim, IsUnchanged

(* Every step is of one of these kinds.                                    *)
LEMMA StepKinds ==
    ASSUME Inv, [Next]_vars
    PROVE  NothingWritten \/ \E id : WritesAbout(id)
<1>1. CASE UNCHANGED vars
  BY <1>1 DEF vars, tables, NothingWritten
<1>2. ASSUME NEW r \in Requests, Submitting(r) PROVE NothingWritten \/ \E id : WritesAbout(id)
  <2>1. ASSUME NEW id \in JobIds, CreateJob(r, id), ~NothingWritten PROVE Created(id)
    <3>1. request[r].pc \in RequestPcs
      BY <2>1 DEF CreateJob, RequestPcs
    <3>2. request[r].employee \in Employees /\ request[r].ticket_id \in Tickets
      BY <3>1, RequestShape
    <3> QED
      BY <2>1, <3>2 DEF CreateJob, Created, NothingWritten, HasAllowance, ActiveKey
  <2>2. ASSUME MarkSent(r), ~NothingWritten PROVE \E id : Marked(id)
    <3>1. request[r].pc \in RequestPcs /\ request[r].pc \in {"mark_sent", "mark_resent"}
      BY <2>2 DEF MarkSent, RequestPcs
    <3>2. NeedsDispatch(request[r].body)
      BY <3>1, RequestShape DEF KnowsItsJob
    <3> QED
      BY <2>2, <3>2 DEF MarkSent, Marked, NothingWritten, IsUnchanged
  <2>3. CASE \/ \E e \in Employees, t \in Tickets, k \in Keys : Submit(r, e, t, k)
             \/ ReadPointer(r) \/ ReadActive(r) \/ ReadJob(r) \/ BindKey(r)
             \/ Authorize(r) \/ Start(r) \/ Send(r) \/ End(r)
    BY <2>3 DEF Submit, ReadPointer, ReadActive, ReadJob, BindKey, Authorize, Start, Send,
                End, tables, NothingWritten
  <2> QED
    BY <1>2, <2>1, <2>2, <2>3 DEF Submitting, WritesAbout
<1>3. ASSUME NEW r \in Requests, Maintaining(r) PROVE NothingWritten \/ \E id : WritesAbout(id)
  <2>1. ASSUME FailDead(r) PROVE \E id : Failed(id)
    <3>1. PICK id : FailJob(id, request[r].body) /\ UNCHANGED <<used, saved, run>>
      BY <2>1 DEF FailDead
    <3>2. job[id].status \notin Terminal
      BY <3>1, MarkerLeadsToJob DEF FailJob, HasMarker
    <3> QED
      BY <3>1, <3>2 DEF Failed, FailJob, IsUnchanged
  <2>2. CASE \/ \E id \in JobIds : Rescan(r, id)
             \/ \E m \in Messages : ReadDead(r, m)
    BY <2>2 DEF Rescan, ReadDead, tables, NothingWritten
  <2> QED
    BY <1>3, <2>1, <2>2 DEF Maintaining, WritesAbout
<1>4. ASSUME NEW w \in Workers, Investigating(w) PROVE NothingWritten \/ \E id : WritesAbout(id)
  <2> DEFINE id == worker[w].message[1]
  <2>1. ASSUME Claim(w) PROVE Leased(id)
    <3>1. worker[w].pc \in WorkerPcs /\ worker[w].pc = "claim"
      BY <2>1 DEF Claim, WorkerPcs
    <3> QED
      BY <2>1, <3>1, WorkerShape DEF Claim, Leased, KnowsItsClaim, IsUnchanged
  <2>2. ASSUME Save(w), ~NothingWritten PROVE Checkpointed(id)
    BY <2>2, ClaimHeld DEF Save, NothingWritten, HoldsClaim, Checkpointed, ClaimIsGood
  <2>3. ASSUME Publish(w) PROVE Finished(id)
    BY <2>3, ClaimHeld DEF Publish, HoldsClaim, Finished, ClaimIsGood, Completed
  <2>4. ASSUME Reject(w) PROVE Failed(id)
    BY <2>4, ClaimHeld DEF Reject, FailJob, Failed, Terminal
  <2>5. CASE \/ \E m \in Messages : Receive(w, m)
             \/ AuthorizeClaim(w) \/ Prepare(w) \/ Acknowledge(w) \/ Abandon(w)
    BY <2>5 DEF Receive, AuthorizeClaim, Prepare, Acknowledge, Abandon, tables, NothingWritten
  <2> QED
    BY <1>4, <2>1, <2>2, <2>3, <2>4, <2>5 DEF Investigating, WritesAbout
<1>5. CASE Delivering \/ ChangeAccess \/ \E claim \in lease : Expire(claim)
  BY <1>5 DEF Delivering, SendMessage, FailExecution, ReceiveUnclaimable, Redeliver, ChangeAccess,
              Expire, tables, NothingWritten
<1> QED
  BY <1>1, <1>2, <1>3, <1>4, <1>5 DEF Next

-----------------------------------------------------------------------------
(* The invariant of every execution, and what it says.                     *)

(* The invariant holds of every reachable state.                           *)
THEOREM Invariant == Spec => []Inv
<1>1. Init => Inv
  BY InitInv
<1>2. Inv /\ [Next]_vars => Inv'
  BY StepInv
<1> QED
  BY <1>1, <1>2, PTL DEF Spec

(* Records and local states keep their shapes, and what refers to a job    *)
(* refers to one that exists.                                              *)
THEOREM JobTypes == Spec => []TypeOK
<1>1. Inv => TypeOK
  BY DEF Inv
<1> QED
  BY <1>1, Invariant, PTL

(* A ticket is locked by exactly its requester's unfinished job.           *)
THEOREM TicketsAreLocked == Spec => []MarkersAreUnfinishedJobs
<1>1. Inv => MarkersAreUnfinishedJobs
  BY DEF Inv
<1> QED
  BY <1>1, Invariant, PTL

(* A result exists exactly for a completed job.                            *)
THEOREM ResultsComplete == Spec => []ResultsAreCompletedJobs
<1>1. Inv => ResultsAreCompletedJobs
  BY DEF Inv
<1> QED
  BY <1>1, Invariant, PTL

(* At most one lease of a job is live, that of its latest claim.           *)
THEOREM OneClaimAtATime == Spec => []OneLivePerJob
<1>1. Inv => OneLivePerJob
  BY DEF Inv
<1> QED
  BY <1>1, Invariant, PTL

(* A retry under the same key finds the job that the answer named.         *)
THEOREM RetriesFindTheirJob == Spec => []KeysLeadToTheirJob
<1>1. ASSUME Inv PROVE KeysLeadToTheirJob
  <2>1. ASSUME NEW r \in Requests, request[r].pc = "answer"
        PROVE  /\ RequestKey(r) \in DOMAIN pointer
               /\ request[r].id = {pointer[RequestKey(r)].id}
    <3>1. request[r].pc \in RequestPcs
      BY <2>1 DEF RequestPcs
    <3> QED
      BY <1>1, <2>1, <3>1, RequestShape DEF KnowsItsJob, BoundPcs, KeyOf, RequestKey
  <2> QED
    BY <1>1, <2>1 DEF Inv, PointersLeadToJobs, KeysLeadToTheirJob
<1> QED
  BY <1>1, Invariant, PTL

(* A put under another key leaves a job as it is.                          *)
LEMMA OtherJobs ==
    ASSUME NEW id, NEW body, job' = Put(job, id, body)
    PROVE  /\ DOMAIN job' = DOMAIN job \cup {id} /\ job'[id] = body
           /\ \A other \in DOMAIN job \ {id} : job'[other] = job[other]
  BY DEF Put

(* No step rewinds a job.                                                  *)
LEMMA NeverRewind ==
    ASSUME Inv, [Next]_vars, NEW id \in DOMAIN job
    PROVE  /\ id \in DOMAIN job'
           /\ job[id].status \in Terminal => job'[id] = job[id]
           /\ job[id].status = "running" => job'[id].status # "queued"
           /\ job[id].dispatch = "sent" => job'[id].dispatch = "sent"
           /\ job[id].attempt <= job'[id].attempt
<1>1. job[id].attempt \in Nat
  BY JobShape DEF Inv
<1>2. CASE NothingWritten
  BY <1>1, <1>2 DEF NothingWritten
<1>3. ASSUME NEW other, WritesAbout(other), other # id
      PROVE  id \in DOMAIN job' /\ job'[id] = job[id]
  BY <1>3, OtherJobs
     DEF WritesAbout, Created, Marked, Leased, Checkpointed, Finished, Failed
<1>4. ASSUME WritesAbout(id) PROVE id \in DOMAIN job'
  BY <1>4, OtherJobs DEF WritesAbout, Created, Marked, Leased, Checkpointed, Finished, Failed
<1>5. CASE Checkpointed(id)
  BY <1>1, <1>5 DEF Checkpointed
<1>6. CASE Marked(id)
  <2>1. job'[id] = Sent(job[id]) /\ job[id].status = "queued" /\ job[id].dispatch = "pending"
    BY <1>6, OtherJobs DEF Marked, NeedsDispatch
  <2> QED
    BY <1>1, <1>4, <1>6, <2>1 DEF Sent, Terminal, WritesAbout
<1>7. CASE Leased(id)
  <2>1. job'[id] = Claimed(job[id]) /\ job[id].status \notin Terminal
    BY <1>7, OtherJobs DEF Leased
  <2>2. job[id].attempt <= job[id].attempt + 1
    BY <1>1
  <2> QED
    BY <1>4, <1>7, <2>1, <2>2 DEF Claimed, WritesAbout
<1>8. ASSUME NEW end \in Terminal, job'[id] = WithStatus(job[id], end),
             job[id].status \notin Terminal, WritesAbout(id)
      PROVE  /\ job'[id].status # "queued" /\ job'[id].dispatch = job[id].dispatch
             /\ job[id].attempt <= job'[id].attempt /\ id \in DOMAIN job'
  BY <1>1, <1>4, <1>8 DEF WithStatus, Terminal
<1>9. CASE Finished(id) \/ Failed(id)
  <2>1. PICK end \in Terminal : job'[id] = WithStatus(job[id], end)
    BY <1>9, OtherJobs DEF Finished, Failed, Terminal
  <2>2. job[id].status \notin Terminal
    BY <1>9 DEF Finished, Failed, ClaimIsGood, Terminal
  <2> QED
    BY <1>8, <1>9, <2>1, <2>2 DEF WritesAbout
<1>10. ~Created(id)
  BY DEF Created
<1> QED
  BY <1>1, <1>2, <1>3, <1>5, <1>6, <1>7, <1>9, <1>10, StepKinds DEF WritesAbout

(* Finished, running, sent and claimed are never undone.                   *)
THEOREM JobsOnlyAdvance == Spec => JobsNeverRewind
<1>1. Inv /\ [Next]_vars =>
          [\A id \in DOMAIN job :
               /\ id \in DOMAIN job'
               /\ job[id].status \in Terminal => job'[id] = job[id]
               /\ job[id].status = "running" => job'[id].status # "queued"
               /\ job[id].dispatch = "sent" => job'[id].dispatch = "sent"
               /\ job[id].attempt <= job'[id].attempt]_vars
  BY NeverRewind
<1> QED
  BY <1>1, Invariant, PTL DEF Spec, JobsNeverRewind

(* What a step writes into a table changes one item at most.               *)
LEMMA OneChange ==
    ASSUME NEW items, NEW key, NEW body
    PROVE  /\ Changed(items, items) = {}
           /\ Changed(items, Put(items, key, body)) \subseteq {key}
           /\ Put(items, key, body)[key] = body
  BY DEF Changed, Put

(* What is written for a job is written under its claim.                   *)
LEMMA ClaimWrites ==
    ASSUME Inv, [Next]_vars
    PROVE  /\ \A k \in Changed(saved, saved') :
                  /\ job[k[1]].status = "running"
                  /\ saved'[k] = job[k[1]].attempt
                  /\ HasAccess(job[k[1]].requester, job[k[1]].ticket_id)
           /\ \A id \in Changed(run, run') :
                  /\ job[id].status = "running"
                  /\ run'[id] = job[id].attempt
                  /\ HasAccess(job[id].requester, job[id].ticket_id)
<1>1. Changed(saved, saved) = {} /\ Changed(run, run) = {}
  BY OneChange
<1>2. CASE UNCHANGED <<saved, run>>
  BY <1>1, <1>2
<1>3. ASSUME NEW id, Checkpointed(id)
      PROVE  \A k \in Changed(saved, saved') :
                 k[1] = id /\ saved'[k] = job[id].attempt
  <2>1. PICK stage : saved' = Put(saved, <<id, stage>>, job[id].attempt)
    BY <1>3 DEF Checkpointed
  <2> QED
    BY <2>1 DEF Put, Changed
<1>4. ASSUME NEW id, Checkpointed(id)
      PROVE  ClaimIsGood(id) /\ UNCHANGED run
  BY <1>4 DEF Checkpointed
<1>5. ASSUME NEW id, Finished(id)
      PROVE  /\ ClaimIsGood(id) /\ UNCHANGED saved
             /\ \A k \in Changed(run, run') : k = id /\ run'[k] = job[id].attempt
  BY <1>5 DEF Finished, Put, Changed
<1>6. ASSUME NEW id, WritesAbout(id)
      PROVE  UNCHANGED <<saved, run>> \/ Checkpointed(id) \/ Finished(id)
  BY <1>6 DEF WritesAbout, Created, Marked, Leased, Failed
<1>7. NothingWritten => UNCHANGED <<saved, run>>
  BY DEF NothingWritten
<1> QED
  BY <1>1, <1>2, <1>3, <1>4, <1>5, <1>6, <1>7, StepKinds DEF ClaimIsGood

(* A worker that was replaced, or whose requester was removed, writes      *)
(* nothing.                                                                *)
THEOREM ClaimsGuardWrites == Spec => OnlyTheClaimWrites
<1>1. Inv /\ [Next]_vars =>
          [/\ \A k \in Changed(saved, saved') :
                  /\ job[k[1]].status = "running"
                  /\ saved'[k] = job[k[1]].attempt
                  /\ HasAccess(job[k[1]].requester, job[k[1]].ticket_id)
           /\ \A id \in Changed(run, run') :
                  /\ job[id].status = "running"
                  /\ run'[id] = job[id].attempt
                  /\ HasAccess(job[id].requester, job[id].ticket_id)]_vars
  BY ClaimWrites
<1> QED
  BY <1>1, Invariant, PTL DEF Spec, OnlyTheClaimWrites

(* Only a job that is created is charged for, and only while allowed.      *)
LEMMA ChargedOnce ==
    ASSUME Inv, [Next]_vars
    PROVE  used' = used + Cardinality(DOMAIN job' \ DOMAIN job) /\ used' <= Limit
<1>1. used \in Nat /\ used <= Limit
  BY DEF Inv, TypeOK, JobsAreCharged
<1>2. ASSUME DOMAIN job' = DOMAIN job, UNCHANGED used
      PROVE  used' = used + Cardinality(DOMAIN job' \ DOMAIN job) /\ used' <= Limit
  <2>1. Cardinality(DOMAIN job' \ DOMAIN job) = 0
    BY <1>2, FS_EmptySet
  <2> QED
    BY <1>1, <1>2, <2>1
<1>3. ASSUME NEW id, Created(id)
      PROVE  used' = used + Cardinality(DOMAIN job' \ DOMAIN job) /\ used' <= Limit
  <2>1. DOMAIN job' \ DOMAIN job = {id} /\ used < Limit /\ used' = used + 1
    BY <1>3, OtherJobs DEF Created
  <2>2. Cardinality({id}) = 1
    BY FS_Singleton
  <2>3. Limit \in Nat
    BY JobsAssumption
  <2> QED
    BY <1>1, <2>1, <2>2, <2>3
<1>4. NothingWritten => DOMAIN job' = DOMAIN job /\ UNCHANGED used
  BY DEF NothingWritten
<1>5. ASSUME NEW id, WritesAbout(id), ~Created(id)
      PROVE  DOMAIN job' = DOMAIN job /\ UNCHANGED used
  <2>1. CASE Checkpointed(id)
    BY <2>1 DEF Checkpointed
  <2>2. ASSUME ~Checkpointed(id)
        PROVE  id \in DOMAIN job /\ UNCHANGED used /\ \E body : job' = Put(job, id, body)
    BY <1>5, <2>2 DEF WritesAbout, Marked, Leased, Finished, Failed, ClaimIsGood
  <2> QED
    BY <2>1, <2>2, OtherJobs
<1> QED
  BY <1>2, <1>3, <1>4, <1>5, StepKinds

(* The allowance is charged for exactly the jobs that are created.         *)
THEOREM AllowanceIsKept == Spec => AllowanceCountsJobs
<1>1. Inv /\ [Next]_vars =>
          [used' = used + Cardinality(DOMAIN job' \ DOMAIN job) /\ used' <= Limit]_vars
  BY ChargedOnce
<1> QED
  BY <1>1, Invariant, PTL DEF Spec, AllowanceCountsJobs

-----------------------------------------------------------------------------
(* The refinement: each owner's investigations, open or ended.             *)

OwnerOf == [id \in DOMAIN job |-> <<job[id].requester, job[id].ticket_id>>]
OutcomeOf == [id \in DOMAIN job |->
                  IF job[id].status \in Terminal THEN job[id].status ELSE "open"]

LedgerStep == [Ledger!Next]_<<OwnerOf, OutcomeOf, DOMAIN run>>

(* At first nothing is open.                                               *)
LEMMA RefinesInit == Init => Ledger!Init
<1> SUFFICES ASSUME Init PROVE Ledger!Init
  OBVIOUS
<1>1. DOMAIN job = {} /\ DOMAIN run = {}
  BY NoItemsType DEF Init
<1>2. OwnerOf = NoItems /\ OutcomeOf = NoItems
  BY <1>1 DEF OwnerOf, OutcomeOf, NoItems
<1> QED
  BY <1>1, <1>2 DEF Ledger!Init, Ledger!NoItems, NoItems, OwnerOf, OutcomeOf

(* Steps that neither create nor end a job are hidden.                     *)
LEMMA Hidden ==
    ASSUME DOMAIN job' = DOMAIN job, UNCHANGED run,
           \A id \in DOMAIN job :
               /\ job'[id].requester = job[id].requester
               /\ job'[id].ticket_id = job[id].ticket_id
               /\ job'[id].status = job[id].status
                  \/ {job'[id].status, job[id].status} \cap Terminal = {}
    PROVE  LedgerStep
<1>1. OwnerOf' = OwnerOf
  BY DEF OwnerOf
<1>2. OutcomeOf' = OutcomeOf
  BY DEF OutcomeOf
<1> QED
  BY <1>1, <1>2 DEF LedgerStep

(* A job is created only when its owner has none that is open.             *)
LEMMA RefinesCreated ==
    ASSUME Inv, NEW id, Created(id)
    PROVE  LedgerStep
<1>1. PICK e \in Employees, t \in Tickets :
          /\ id \in JobIds \ DOMAIN job /\ <<e, t>> \notin DOMAIN active
          /\ used < Limit
          /\ job' = Put(job, id, NewJob(e, t))
          /\ UNCHANGED run
  BY DEF Created
<1> DEFINE o == <<e, t>>
<1>2. /\ DOMAIN job' = DOMAIN job \cup {id} /\ job'[id] = NewJob(e, t)
      /\ \A other \in DOMAIN job \ {id} : job'[other] = job[other]
  BY <1>1, OtherJobs
<1>3. /\ job'[id].requester = e /\ job'[id].ticket_id = t /\ job'[id].status = "queued"
      /\ "queued" \notin Terminal
  BY <1>2 DEF NewJob, Terminal
<1>4. DOMAIN OwnerOf = DOMAIN job
  BY DEF OwnerOf
<1>5. ASSUME NEW j \in DOMAIN job, OwnerOf[j] = o PROVE OutcomeOf[j] # "open"
  <2>1. <<job[j].requester, job[j].ticket_id>> = o
    BY <1>5 DEF OwnerOf
  <2>2. ~HasMarker(j, job[j])
    BY <1>1, <2>1 DEF HasMarker
  <2>3. job[j].status \in Terminal
    BY <2>2 DEF Inv, MarkersAreUnfinishedJobs
  <2> QED
    BY <2>3 DEF OutcomeOf, Terminal
<1>6. Cardinality(DOMAIN job) < Limit
  BY <1>1, FS_CardinalityType, JobsAssumption DEF Inv, JobsAreCharged, TypeOK
<1>7. OwnerOf' = [k \in DOMAIN OwnerOf \cup {id} |-> IF k = id THEN o ELSE OwnerOf[k]]
  BY <1>1, <1>2, <1>3, <1>4 DEF OwnerOf
<1>8. OutcomeOf' = [k \in DOMAIN OutcomeOf \cup {id} |-> IF k = id THEN "open" ELSE OutcomeOf[k]]
  BY <1>1, <1>2, <1>3 DEF OutcomeOf
<1>9. \A S : Ledger!Cardinality(S) = Cardinality(S)
  BY Zenon DEF Ledger!Cardinality, Cardinality
<1>10. Ledger!Open(id, o)
  BY <1>1, <1>4, <1>5, <1>6, <1>7, <1>8, <1>9 DEF Ledger!Open, Ledger!Put, OwnerOf, OutcomeOf
<1>11. id \in JobIds /\ o \in Employees \X Tickets
  BY <1>1
<1> QED
  BY <1>10, <1>11 DEF LedgerStep, Ledger!Next

(* A job that ends was open, and is published when it is completed.        *)
LEMMA RefinesEnded ==
    ASSUME Inv, NEW id \in DOMAIN job, NEW end \in Terminal, job[id].status \notin Terminal,
           job' = Put(job, id, WithStatus(job[id], end)),
           DOMAIN run' = IF end = "completed" THEN DOMAIN run \cup {id} ELSE DOMAIN run
    PROVE  LedgerStep
<1>1. /\ DOMAIN job' = DOMAIN job /\ job'[id] = WithStatus(job[id], end)
      /\ \A other \in DOMAIN job \ {id} : job'[other] = job[other]
  BY DEF Put
<1>2. /\ job'[id].requester = job[id].requester /\ job'[id].ticket_id = job[id].ticket_id
      /\ job'[id].status = end
  BY <1>1 DEF WithStatus
<1>3. OwnerOf' = OwnerOf
  BY <1>1, <1>2 DEF OwnerOf
<1>4. OutcomeOf' = [OutcomeOf EXCEPT ![id] = end]
  BY <1>1, <1>2 DEF OutcomeOf
<1>5. id \in DOMAIN OwnerOf /\ OutcomeOf[id] = "open"
  BY DEF OwnerOf, OutcomeOf
<1>6. Ledger!Finish(id, end)
  BY <1>3, <1>4, <1>5 DEF Ledger!Finish, OwnerOf, OutcomeOf
<1>7. id \in JobIds /\ end \in {"completed", "failed"}
  BY JobShape DEF Inv, Terminal
<1> QED
  BY <1>6, <1>7 DEF LedgerStep, Ledger!Next

(* Every step opens or ends one investigation, or changes none.            *)
LEMMA RefinesNext ==
    ASSUME Inv, [Next]_vars
    PROVE  LedgerStep
<1>1. CASE UNCHANGED <<job, run>>
  BY <1>1, Hidden
<1>2. ASSUME NEW id, Marked(id) \/ Leased(id) PROVE LedgerStep
  <2>1. PICK body :
            /\ id \in DOMAIN job /\ job' = Put(job, id, body) /\ UNCHANGED run
            /\ body.requester = job[id].requester /\ body.ticket_id = job[id].ticket_id
            /\ {body.status, job[id].status} \cap Terminal = {}
    BY <1>2 DEF Marked, Leased, Sent, Claimed, NeedsDispatch, Terminal
  <2>2. DOMAIN job' = DOMAIN job /\ job'[id] = body
        /\ \A other \in DOMAIN job \ {id} : job'[other] = job[other]
    BY <2>1, OtherJobs
  <2> QED
    BY <2>1, <2>2, Hidden
<1>3. ASSUME NEW id, Created(id) PROVE LedgerStep
  BY <1>3, RefinesCreated
<1>4. ASSUME NEW id, Finished(id) PROVE LedgerStep
  <2>1. /\ id \in DOMAIN job /\ job[id].status \notin Terminal
        /\ job' = Put(job, id, WithStatus(job[id], "completed"))
        /\ DOMAIN run' = DOMAIN run \cup {id}
    BY <1>4 DEF Finished, ClaimIsGood, Terminal, Put
  <2> QED
    BY <2>1, RefinesEnded DEF Terminal
<1>5. ASSUME NEW id, Failed(id) PROVE LedgerStep
  <2>1. /\ id \in DOMAIN job /\ job[id].status \notin Terminal
        /\ job' = Put(job, id, WithStatus(job[id], "failed"))
        /\ DOMAIN run' = DOMAIN run
    BY <1>5 DEF Failed
  <2> QED
    BY <2>1, RefinesEnded DEF Terminal
<1>6. NothingWritten => UNCHANGED <<job, run>>
  BY DEF NothingWritten
<1>7. \A id : Checkpointed(id) => UNCHANGED <<job, run>>
  BY DEF Checkpointed
<1> QED
  BY <1>1, <1>2, <1>3, <1>4, <1>5, <1>6, <1>7, StepKinds DEF WritesAbout

(* Racing submissions, workers and maintenance keep the ledger's promise.  *)
THEOREM JobsImplementLedger == Spec => ImplementsJobLedger
<1>1. Inv /\ [Next]_vars => LedgerStep
  BY RefinesNext
<1> QED
  BY <1>1, RefinesInit, Invariant, PTL
  DEF Spec, ImplementsJobLedger, Ledger!Spec, LedgerStep, OwnerOf, OutcomeOf, Ledger!vars
=============================================================================
