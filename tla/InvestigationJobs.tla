------------------------- MODULE InvestigationJobs -------------------------
(***************************************************************************)
(* Durable investigation jobs of one workspace generation: submissions     *)
(* that race under idempotency keys, at-least-once delivery through SQS,   *)
(* workers that claim a job with a lease, and the maintenance that         *)
(* delivers again what was never sent and fails what SQS gave up.          *)
(*                                                                         *)
(* Requests are API or maintenance invocations, Workers are worker         *)
(* invocations; each reads, leaves the records unlocked, and commits one   *)
(* conditional transaction at a time.  End and Abandon, possible at every  *)
(* point, stand for a handler that raises, answers or dies, so the other   *)
(* actions only describe the branch that goes on.                          *)
(*                                                                         *)
(* A definition called a mutant is not part of the model: it is the        *)
(* definition after it with one mistake in it.                             *)
(***************************************************************************)
EXTENDS Integers, FiniteSets, Items

CONSTANTS
    Employees, Tickets,
    Keys,               \* idempotency keys a browser may send
    JobIds,             \* identities uuid4 may give to jobs
    Requests, Workers,  \* concurrent invocations
    InitHolder,         \* the employee who may investigate each ticket at first
    Changing,           \* tickets whose holder may change
    Outcomes,           \* what an investigation may conclude
    StateMachine,       \* whether a state machine delivers the jobs
    Limit,              \* jobs the daily allowance permits
    Earlier,            \* how many it may have been charged for other workspaces
    MaxReceives,        \* deliveries after which SQS gives a message up
    MaxCopies           \* bound: messages sent for one job

ASSUME JobsAssumption ==
    /\ InitHolder \in [Tickets -> Employees]
    /\ Changing \subseteq Tickets
    /\ Outcomes \subseteq {"proposal_candidate", "blocked"}
    /\ StateMachine \in BOOLEAN
    /\ Limit \in Nat /\ Earlier \subseteq 0 .. Limit
    /\ {MaxReceives, MaxCopies} \subseteq Nat \ {0}

Terminal == {"completed", "failed"}
Statuses == {"queued", "running"} \cup Terminal

(* JOB#; owner is the claim's uuid4, which attempt identifies as well.     *)
Job == [requester : Employees, ticket_id : Tickets, status : Statuses,
        dispatch : {"pending", "sent"}, attempt : Nat]
Pointer == [id : JobIds, ticket_id : Tickets]
Messages == JobIds \X (1 .. MaxCopies)
Message == [state : {"visible", "in_flight", "dead"}, receives : 0 .. MaxReceives]

(* What a worker writes before it publishes, in order: two checkpoints and *)
(* the proposal.                                                           *)
Stages == {"draft", "validated", "proposal", "run"}

VARIABLES
    holder,                 \* the ticket's assignee, "nobody" without the role or the customers
    job, pointer, active,   \* JOB#, REQUEST#, ACTIVE#
    used,                   \* USAGE#
    saved, run,             \* checkpoints and proposal of a job, RUN#: the attempt that wrote them
    lease,                  \* <<job, attempt>> of the leases of unfinished jobs that have not expired
    queue,                  \* messages in the queue or the dead-letter queue
    execution,              \* executions of the state machine, up to their message
    request, worker         \* local state of every invocation

tables == <<job, pointer, active, used, saved, run>>
vars == <<holder, tables, lease, queue, execution, request, worker>>

HasAccess(e, t) == holder[t] = e

NeedsDispatch(body) == body.status = "queued" /\ body.dispatch = "pending"
IsLeased(id, body) == <<id, body.attempt>> \in lease

(* Mutant: the transaction does not compare the record that was read.      *)
IsStillOpen(id, body) == id \in DOMAIN job /\ job[id].ticket_id = body.ticket_id

IsUnchanged(id, body) == id \in DOMAIN job /\ job[id] = body

HasMarker(id, body) ==
    LET k == <<body.requester, body.ticket_id>>
    IN  k \in DOMAIN active /\ active[k] = id

(* Mutant: a finished job keeps its marker.                                *)
MarkerKept(body) == active

MarkerReleased(body) == Delete(active, {<<body.requester, body.ticket_id>>})

WithStatus(body, status) ==
    [requester |-> body.requester, ticket_id |-> body.ticket_id,
     status |-> status, dispatch |-> body.dispatch, attempt |-> body.attempt]

(* Mutant: the delivery is recorded where the status belongs.              *)
SentStatus(body) ==
    [requester |-> body.requester, ticket_id |-> body.ticket_id,
     status |-> "sent", dispatch |-> "sent", attempt |-> body.attempt]

Sent(body) ==
    [requester |-> body.requester, ticket_id |-> body.ticket_id,
     status |-> body.status, dispatch |-> "sent", attempt |-> body.attempt]

Claimed(body) ==
    [requester |-> body.requester, ticket_id |-> body.ticket_id,
     status |-> "running", dispatch |-> "sent", attempt |-> body.attempt + 1]

-----------------------------------------------------------------------------
NewJob(e, t) == [requester |-> e, ticket_id |-> t, status |-> "queued",
                 dispatch |-> "pending", attempt |-> 0]

(* Local state of an API or maintenance invocation; key is "none" in       *)
(* maintenance, body the copy of JOB#id it read last.                      *)
At(pc, e, t, k, id, body) ==
    [pc |-> pc, employee |-> e, ticket_id |-> t, key |-> k, id |-> id, body |-> body]

Idle == [pc |-> "idle"]

Goto(r, pc) ==
    request' = [request EXCEPT ![r] =
        At(pc, request[r].employee, request[r].ticket_id, request[r].key,
           request[r].id, request[r].body)]

Holding(r, pc, id, body) ==
    request' = [request EXCEPT ![r] =
        At(pc, request[r].employee, request[r].ticket_id, request[r].key, id, body)]

RequestKey(r) == <<request[r].employee, request[r].key>>
ActiveKey(r) == <<request[r].employee, request[r].ticket_id>>

Init ==
    /\ holder = InitHolder
    /\ job = NoItems
    /\ pointer = NoItems
    /\ active = NoItems
    /\ used \in Earlier
    /\ saved = NoItems
    /\ run = NoItems
    /\ lease = {}
    /\ queue = NoItems
    /\ execution = NoItems
    /\ request = [r \in Requests |-> Idle]
    /\ worker = [w \in Workers |-> Idle]

End(r) ==
    /\ request[r] # Idle
    /\ request' = [request EXCEPT ![r] = Idle]
    /\ UNCHANGED <<holder, tables, lease, queue, execution, worker>>

-----------------------------------------------------------------------------
(* Submitting.                                                             *)

(* The request key decides when it is already bound; bound to another      *)
(* ticket the submission is refused.                                       *)
Submit(r, e, t, k) ==
    /\ request[r] = Idle
    /\ HasAccess(e, t)
    /\ request' = [request EXCEPT ![r] = At("read_pointer", e, t, k, {}, NewJob(e, t))]
    /\ UNCHANGED <<holder, tables, lease, queue, execution, worker>>

(* Read before creating, and again when the creation was refused.          *)
ReadPointer(r) ==
    LET again == request[r].pc = "reread_pointer"
    IN  /\ request[r].pc \in {"read_pointer", "reread_pointer"}
        /\ \/ /\ RequestKey(r) \in DOMAIN pointer
              /\ pointer[RequestKey(r)].ticket_id = request[r].ticket_id
              /\ Holding(r, "read_bound_job", {pointer[RequestKey(r)].id}, request[r].body)
           \/ /\ RequestKey(r) \notin DOMAIN pointer
              /\ Goto(r, IF again THEN "reread_active" ELSE "read_active")
        /\ UNCHANGED <<holder, tables, lease, queue, execution, worker>>

ReadActive(r) ==
    /\ \/ /\ request[r].pc \in {"read_active", "reread_active"}
          /\ ActiveKey(r) \in DOMAIN active
          /\ Holding(r, "read_job", {active[ActiveKey(r)]}, request[r].body)
       \/ /\ request[r].pc = "read_active"
          /\ ActiveKey(r) \notin DOMAIN active
          /\ Goto(r, "create")
    /\ UNCHANGED <<holder, tables, lease, queue, execution, worker>>

ReadJob(r) ==
    /\ request[r].pc \in {"read_job", "read_bound_job"}
    /\ \E id \in request[r].id :
        /\ id \in DOMAIN job
        /\ Holding(r, IF request[r].pc = "read_job" THEN "bind" ELSE "authorize",
                   {id}, job[id])
        /\ UNCHANGED <<holder, tables, lease, queue, execution, worker>>

(* Mutant: the allowance is counted but not limited.                       *)
HasUnlimitedAllowance == TRUE

HasAllowance == used < Limit

(* The job, its key, its marker and the allowance commit together.         *)
CreateJob(r, id) ==
    LET mine == NewJob(request[r].employee, request[r].ticket_id)
        isFree == RequestKey(r) \notin DOMAIN pointer /\ ActiveKey(r) \notin DOMAIN active
    IN  /\ request[r].pc = "create"
        /\ id \in JobIds \ DOMAIN job
        /\ IF isFree /\ HasAllowance
           THEN /\ job' = Put(job, id, mine)
                /\ pointer' = Put(pointer, RequestKey(r),
                                  [id |-> id, ticket_id |-> request[r].ticket_id])
                /\ active' = Put(active, ActiveKey(r), id)
                /\ used' = used + 1
                /\ Holding(r, "bind", {id}, mine)
           ELSE /\ Goto(r, "reread_pointer")
                /\ UNCHANGED <<job, pointer, active, used>>
        /\ UNCHANGED <<holder, saved, run, lease, queue, execution, worker>>

(* Mutant: the key may be bound to another job of the same ticket.         *)
IsBoundTicket(k, id, t) == pointer[k].ticket_id = t

IsBoundTo(k, id, t) == pointer[k].id = id /\ pointer[k].ticket_id = t

(* Another key of the same ticket is bound to the job that is active; a    *)
(* key that was bound in the meantime must be bound to this job.           *)
BindKey(r) ==
    /\ request[r].pc = "bind"
    /\ \E id \in request[r].id :
        LET k == RequestKey(r)
            t == request[r].ticket_id
        IN  /\ k \in DOMAIN pointer => IsBoundTo(k, id, t)
            /\ pointer' = PutIfAbsent(pointer, k, [id |-> id, ticket_id |-> t])
            /\ Goto(r, "authorize")
            /\ UNCHANGED <<holder, job, active, used, saved, run, lease, queue, execution, worker>>

(* The answer names the job and the state it has when it is sent: the copy *)
(* is not used any more.                                                   *)
Answer(r) ==
    Holding(r, "answer", request[r].id, NewJob(request[r].employee, request[r].ticket_id))

Authorize(r) ==
    /\ request[r].pc = "authorize"
    /\ HasAccess(request[r].body.requester, request[r].body.ticket_id)
    /\ IF NeedsDispatch(request[r].body) THEN Goto(r, "send") ELSE Answer(r)
    /\ UNCHANGED <<holder, tables, lease, queue, execution, worker>>

Copies(id) == {n \in 1 .. MaxCopies : <<id, n>> \in DOMAIN queue}

Fresh == [state |-> "visible", receives |-> 0]

AfterDelivery(r) ==
    Goto(r, IF request[r].pc = "send" THEN "mark_sent" ELSE "mark_resent")

(* Its name is the job's: a second start is refused or ignored, and taken  *)
(* for a success.                                                          *)
Started(id) == PutIfAbsent(execution, id, "started")

(* dispatch delivers the job, then marks it.  With a state machine, start  *)
(* only begins its execution.                                              *)
Start(r) ==
    /\ StateMachine
    /\ request[r].pc \in {"send", "resend"}
    /\ \E id \in request[r].id :
        /\ execution' = Started(id)
        /\ AfterDelivery(r)
        /\ UNCHANGED <<holder, tables, lease, queue, worker>>

(* Without one, a message is sent, and sent again by every invocation that *)
(* has read the job as pending.                                            *)
Send(r) ==
    /\ ~StateMachine
    /\ request[r].pc \in {"send", "resend"}
    /\ \E id \in request[r].id, n \in 1 .. MaxCopies :
        /\ n \notin Copies(id) /\ 1 .. n - 1 \subseteq Copies(id)
        /\ queue' = Put(queue, <<id, n>>, Fresh)
        /\ AfterDelivery(r)
        /\ UNCHANGED <<holder, tables, lease, execution, worker>>

(* The execution resolves the job and sends its message; nobody else can   *)
(* have finished a job that has none.                                      *)
SendMessage(id) ==
    /\ id \in DOMAIN execution /\ execution[id] = "started"
    /\ job[id].status \notin Terminal
    /\ execution' = Put(execution, id, "sent")
    /\ queue' = Put(queue, <<id, 1>>, Fresh)
    /\ UNCHANGED <<holder, tables, lease, request, worker>>

(* Resolve fails more often than it is retried, or for another reason, or  *)
(* the sending fails, which is not retried.                                *)
FailExecution(id) ==
    /\ id \in DOMAIN execution /\ execution[id] = "started"
    /\ execution' = Put(execution, id, "failed")
    /\ UNCHANGED <<holder, tables, lease, queue, request, worker>>

MarkSent(r) ==
    /\ request[r].pc \in {"mark_sent", "mark_resent"}
    /\ \E id \in request[r].id :
        LET body == request[r].body
        IN  /\ \/ IsUnchanged(id, body) /\ job' = Put(job, id, Sent(body))
               \/ ~IsUnchanged(id, body) /\ ~NeedsDispatch(job[id]) /\ UNCHANGED job
            /\ IF request[r].pc = "mark_sent"
               THEN Answer(r)
               ELSE request' = [request EXCEPT ![r] = Idle]
            /\ UNCHANGED <<holder, pointer, active, used, saved, run, lease, queue, execution, worker>>

-----------------------------------------------------------------------------
(* Working.  A worker invocation holds the message, the copy of the job it *)
(* read or claimed, and the stage it writes next.                          *)

Working(pc, m, body, stage) == [pc |-> pc, message |-> m, body |-> body, stage |-> stage]

Proceed(w, pc, stage) ==
    worker' = [worker EXCEPT ![w] =
        Working(pc, worker[w].message, worker[w].body, stage)]

Delivered(m) == Put(queue, m, [state |-> "in_flight", receives |-> queue[m].receives + 1])

(* Mutant: a lease that is still held does not stop another worker.        *)
IsUnfinished(id, body) == body.status \notin Terminal

IsClaimable(id, body) == body.status \notin Terminal /\ ~IsLeased(id, body)

(* A delivery that finds a job to claim: the worker keeps what it read.    *)
Receive(w, m) ==
    LET id == m[1]
    IN  /\ worker[w] = Idle
        /\ m \in DOMAIN queue /\ queue[m].state = "visible"
        /\ IsClaimable(id, job[id])
        /\ queue' = Delivered(m)
        /\ worker' = [worker EXCEPT ![w] = Working("claim", m, job[id], "draft")]
        /\ UNCHANGED <<holder, tables, lease, execution, request>>

(* A delivery whose job is leased raises and comes back later; one whose   *)
(* job is finished is acknowledged without any work.                       *)
ReceiveUnclaimable(m) ==
    /\ m \in DOMAIN queue /\ queue[m].state = "visible"
    /\ \/ job[m[1]].status \in Terminal /\ queue' = Delete(queue, {m})
       \/ /\ job[m[1]].status \notin Terminal /\ IsLeased(m[1], job[m[1]])
          /\ queue' = Delivered(m)
    /\ UNCHANGED <<holder, tables, lease, execution, request, worker>>

(* The visibility timeout, or another delivery of the same message.        *)
Redeliver(m) ==
    /\ m \in DOMAIN queue /\ queue[m].state = "in_flight"
    /\ queue' = Put(queue, m,
           [state |-> IF queue[m].receives < MaxReceives THEN "visible" ELSE "dead",
            receives |-> queue[m].receives])
    /\ UNCHANGED <<holder, tables, lease, execution, request, worker>>

Abandon(w) ==
    /\ worker[w] # Idle
    /\ worker' = [worker EXCEPT ![w] = Idle]
    /\ UNCHANGED <<holder, tables, lease, queue, execution, request>>

Claim(w) ==
    LET id == worker[w].message[1]
        claimed == Claimed(worker[w].body)
    IN  /\ worker[w].pc = "claim"
        /\ IsUnchanged(id, worker[w].body)
        /\ job' = Put(job, id, claimed)
        /\ lease' = lease \cup {<<id, claimed.attempt>>}
        /\ worker' = [worker EXCEPT ![w] =
               Working("authorize", worker[w].message, claimed, "draft")]
        /\ UNCHANGED <<holder, pointer, active, used, saved, run, queue, execution, request>>

(* A blocked report is published without a proposal.                       *)
AfterReport ==
    {IF outcome = "blocked" THEN "run" ELSE "proposal" : outcome \in Outcomes}

(* Where a retry resumes: after the validated checkpoint, else after the   *)
(* draft.                                                                  *)
StagesFrom(id) ==
    IF <<id, "validated">> \in DOMAIN saved THEN AfterReport
    ELSE IF <<id, "draft">> \in DOMAIN saved THEN {"validated"}
    ELSE {"draft"}

StagesAfter(stage) ==
    CASE stage = "draft" -> {"validated"}
      [] stage = "validated" -> AfterReport
      [] stage = "proposal" -> {"run"}

AuthorizeClaim(w) ==
    LET body == worker[w].body
    IN  /\ worker[w].pc = "authorize"
        /\ IF HasAccess(body.requester, body.ticket_id)
           THEN \E stage \in StagesFrom(worker[w].message[1]) : Proceed(w, "prepare", stage)
           ELSE Proceed(w, "fail", "draft")
        /\ UNCHANGED <<holder, tables, lease, queue, execution, request>>

(* transaction() of a worker before it commits: the lease by the clock,    *)
(* then the requester's current access, which is read here and compared    *)
(* by the commit.  Without access, or when the output of the model is not  *)
(* valid, the job is rejected.                                             *)
Prepare(w) ==
    LET body == worker[w].body
    IN  /\ worker[w].pc = "prepare"
        /\ \/ /\ IsLeased(worker[w].message[1], body)
              /\ HasAccess(body.requester, body.ticket_id)
              /\ Proceed(w, "commit", worker[w].stage)
           \/ Proceed(w, "fail", "draft")
        /\ UNCHANGED <<holder, tables, lease, queue, execution, request>>

(* Mutant: the claim is compared, the requester's access is not.           *)
HasClaim(w) == IsUnchanged(worker[w].message[1], worker[w].body)

HoldsClaim(w) ==
    /\ IsUnchanged(worker[w].message[1], worker[w].body)
    /\ HasAccess(worker[w].body.requester, worker[w].body.ticket_id)

(* A checkpoint replaces the one before it; the proposal of a snapshot is  *)
(* saved once and found again by a retry.                                  *)
Save(w) ==
    LET stage == worker[w].stage
        k == <<worker[w].message[1], stage>>
    IN  /\ worker[w].pc = "commit" /\ stage # "run"
        /\ IF stage = "proposal" /\ k \in DOMAIN saved
           THEN UNCHANGED saved
           ELSE HoldsClaim(w) /\ saved' = Put(saved, k, worker[w].body.attempt)
        /\ \E next \in StagesAfter(stage) : Proceed(w, "prepare", next)
        /\ UNCHANGED <<holder, job, pointer, active, used, run, lease, queue, execution, request>>

(* Mutant: the job is not completed with its result.                       *)
Unfinished(body) == body

Completed(body) == WithStatus(body, "completed")

(* The result, the terminal state and the marker commit together.          *)
Publish(w) ==
    LET id == worker[w].message[1]
        body == worker[w].body
    IN  /\ worker[w].pc = "commit" /\ worker[w].stage = "run"
        /\ HoldsClaim(w)
        /\ id \notin DOMAIN run
        /\ HasMarker(id, body)
        /\ run' = Put(run, id, body.attempt)
        /\ job' = Put(job, id, Completed(body))
        /\ active' = MarkerReleased(body)
        /\ lease' = lease \ {<<id, body.attempt>>}
        /\ Proceed(w, "acknowledge", "draft")
        /\ UNCHANGED <<holder, pointer, used, saved, queue, execution, request>>

FailJob(id, body) ==
    /\ IsUnchanged(id, body)
    /\ HasMarker(id, body)
    /\ job' = Put(job, id, WithStatus(body, "failed"))
    /\ active' = MarkerReleased(body)
    /\ lease' = lease \ {<<id, body.attempt>>}

(* Rejecting a job needs no access: it is how lost access is recorded.     *)
Reject(w) ==
    /\ worker[w].pc = "fail"
    /\ FailJob(worker[w].message[1], worker[w].body)
    /\ Proceed(w, "acknowledge", "draft")
    /\ UNCHANGED <<holder, pointer, used, saved, run, queue, execution, request>>

Acknowledge(w) ==
    /\ worker[w].pc = "acknowledge"
    /\ queue' = Delete(queue, {worker[w].message})
    /\ worker' = [worker EXCEPT ![w] = Idle]
    /\ UNCHANGED <<holder, tables, lease, execution, request>>

-----------------------------------------------------------------------------
(* Maintenance.                                                            *)

(* A job that was never sent is sent again, unless its requester has lost  *)
(* access.                                                                 *)
Rescan(r, id) ==
    /\ request[r] = Idle
    /\ id \in DOMAIN job /\ NeedsDispatch(job[id])
    /\ HasAccess(job[id].requester, job[id].ticket_id)
    /\ request' = [request EXCEPT ![r] =
           At("resend", job[id].requester, job[id].ticket_id, "none", {id}, job[id])]
    /\ UNCHANGED <<holder, tables, lease, queue, execution, worker>>

(* Mutant: a dead message is removed before its failure is saved.          *)
DiscardDead(r, m) ==
    /\ request[r] = Idle
    /\ m \in DOMAIN queue /\ queue[m].state = "dead"
    /\ queue' = Delete(queue, {m})
    /\ UNCHANGED <<holder, tables, lease, execution, request, worker>>

(* A dead message is removed when its job is finished, kept while a worker *)
(* holds the job, and otherwise fails it first.                            *)
ReadDead(r, m) ==
    LET body == job[m[1]]
    IN  /\ request[r] = Idle
        /\ m \in DOMAIN queue /\ queue[m].state = "dead"
        /\ IF body.status \in Terminal
           THEN queue' = Delete(queue, {m}) /\ UNCHANGED request
           ELSE /\ ~IsLeased(m[1], body)
                /\ request' = [request EXCEPT ![r] =
                       At("fail_dead", body.requester, body.ticket_id, "none", {m[1]}, body)]
                /\ UNCHANGED queue
        /\ UNCHANGED <<holder, tables, lease, execution, worker>>

(* The message is removed by the next ReadDead, now or an hour later.      *)
FailDead(r) ==
    /\ request[r].pc = "fail_dead"
    /\ \E id \in request[r].id :
        /\ FailJob(id, request[r].body)
        /\ request' = [request EXCEPT ![r] = Idle]
        /\ UNCHANGED <<holder, pointer, used, saved, run, queue, execution, worker>>

-----------------------------------------------------------------------------
(* The world outside.                                                      *)

ChangeAccess ==
    /\ \E t \in Changing, e \in (Employees \cup {"nobody"}) :
           /\ holder[t] # e
           /\ holder' = [holder EXCEPT ![t] = e]
    /\ UNCHANGED <<tables, lease, queue, execution, request, worker>>

Expire(claim) ==
    /\ claim \in lease
    /\ lease' = lease \ {claim}
    /\ UNCHANGED <<holder, tables, queue, execution, request, worker>>

Submitting(r) ==
    \/ \E e \in Employees, t \in Tickets, k \in Keys : Submit(r, e, t, k)
    \/ ReadPointer(r) \/ ReadActive(r) \/ ReadJob(r)
    \/ \E id \in JobIds : CreateJob(r, id)
    \/ BindKey(r) \/ Authorize(r) \/ Start(r) \/ Send(r) \/ MarkSent(r)
    \/ End(r)

Maintaining(r) ==
    \/ \E id \in JobIds : Rescan(r, id)
    \/ \E m \in Messages : ReadDead(r, m)
    \/ FailDead(r)

Investigating(w) ==
    \/ \E m \in Messages : Receive(w, m)
    \/ Claim(w) \/ AuthorizeClaim(w) \/ Prepare(w) \/ Save(w) \/ Publish(w)
    \/ Reject(w) \/ Acknowledge(w)
    \/ Abandon(w)

Delivering ==
    \/ \E id \in JobIds : SendMessage(id) \/ FailExecution(id)
    \/ \E m \in Messages : ReceiveUnclaimable(m) \/ Redeliver(m)

Next ==
    \/ \E r \in Requests : Submitting(r) \/ Maintaining(r)
    \/ \E w \in Workers : Investigating(w)
    \/ Delivering
    \/ ChangeAccess
    \/ \E claim \in lease : Expire(claim)

Spec == Init /\ [][Next]_vars

(* Nothing is assumed of the workers' success, nor of the executions'.  A  *)
(* started execution goes on, SQS keeps delivering, each invocation ends   *)
(* (its timeout) and each lease expires; maintenance runs every hour and   *)
(* its steps, tried again and again, succeed some time.                    *)
FairSpec ==
    /\ Spec
    /\ \A m \in Messages :
           /\ SF_vars(ReceiveUnclaimable(m) \/ \E w \in Workers : Receive(w, m))
           /\ WF_vars(Redeliver(m))
    /\ \A w \in Workers : WF_vars(Abandon(w))
    /\ \A r \in Requests :
           WF_vars(End(r)) /\ SF_vars(Start(r) \/ Send(r)) /\ SF_vars(FailDead(r))
    /\ \A id \in JobIds :
           /\ WF_vars(SendMessage(id) \/ FailExecution(id))
           /\ SF_vars(\E r \in Requests : Rescan(r, id))
    /\ \A m \in Messages : SF_vars(\E r \in Requests : ReadDead(r, m))
    /\ \A claim \in JobIds \X (1 .. MaxReceives * MaxCopies) : WF_vars(Expire(claim))
-----------------------------------------------------------------------------
(* Types.                                                                  *)

RequestPcs == {"read_pointer", "read_active", "read_job", "read_bound_job",
               "reread_pointer", "reread_active", "create", "bind", "authorize",
               "send", "mark_sent", "answer",
               "resend", "mark_resent", "fail_dead"}
WorkerPcs == {"claim", "authorize", "prepare", "commit", "fail", "acknowledge"}

Local == [pc : RequestPcs, employee : Employees, ticket_id : Tickets,
          key : Keys \cup {"none"}, id : SUBSET JobIds, body : Job]
WorkerLocal == [pc : WorkerPcs, message : Messages, body : Job, stage : Stages]

(* Every stored record and every local value has the shape the code gives  *)
(* it, and what refers to a job refers to one that exists.                 *)
TypeOK ==
    /\ holder \in [Tickets -> Employees \cup {"nobody"}]
    /\ IsTable(job, JobIds, Job)
    /\ IsTable(pointer, Employees \X Keys, Pointer)
    /\ IsTable(active, Employees \X Tickets, DOMAIN job)
    /\ used \in Nat
    /\ IsTable(saved, JobIds \X Stages, Nat)
    /\ IsTable(run, JobIds, Nat)
    /\ lease \subseteq JobIds \X Nat
    /\ IsTable(queue, Messages, Message)
    /\ \A m \in DOMAIN queue : m[1] \in DOMAIN job
    /\ IsTable(execution, DOMAIN job, {"started", "sent", "failed"})
    /\ request \in [Requests -> {Idle} \cup Local]
    /\ worker \in [Workers -> {Idle} \cup WorkerLocal]
    /\ \A w \in Workers : worker[w] # Idle => worker[w].message[1] \in DOMAIN job

-----------------------------------------------------------------------------
(* Safety.                                                                 *)

(* A ticket is locked by exactly the job of its requester that is not      *)
(* finished: whatever submissions, workers and maintenance race, no        *)
(* finished job keeps the lock and no unfinished one loses it (submit,     *)
(* release_marker).                                                        *)
MarkersAreUnfinishedJobs ==
    /\ \A k \in DOMAIN active :
           LET body == job[active[k]]
           IN  body.status \notin Terminal /\ k = <<body.requester, body.ticket_id>>
    /\ \A id \in DOMAIN job :
           job[id].status \notin Terminal => HasMarker(id, job[id])

(* A published result and the state "completed" exist together, although   *)
(* failing, retrying and publishing invocations race (save_run, fail).     *)
ResultsAreCompletedJobs ==
    DOMAIN run = {id \in DOMAIN job : job[id].status = "completed"}

(* The daily allowance, which all workspaces share, is charged for exactly *)
(* the jobs that are created: retries, lost races and redeliveries are not *)
(* charged, and no job is created beyond it (submission_allowances).       *)
AllowanceCountsJobs ==
    [][used' = used + Cardinality(DOMAIN job' \ DOMAIN job) /\ used' <= Limit]_vars

(* A bound key leads to a job of its employee and ticket, and a submission *)
(* that answers has its key bound to the job it names, so that a retry     *)
(* finds the same job (submit).                                            *)
KeysLeadToTheirJob ==
    /\ \A k \in DOMAIN pointer :
           LET id == pointer[k].id
           IN  /\ id \in DOMAIN job
               /\ job[id].requester = k[1]
               /\ job[id].ticket_id = pointer[k].ticket_id
    /\ \A r \in Requests :
           request[r].pc = "answer" =>
               /\ RequestKey(r) \in DOMAIN pointer
               /\ request[r].id = {pointer[RequestKey(r)].id}

(* At most one lease of a job is live, that of its latest claim: a second  *)
(* delivery never starts an investigation next to a running one            *)
(* (process_message).                                                      *)
OneLivePerJob ==
    \A claim \in lease : claim[1] \in DOMAIN job /\ claim[2] = job[claim[1]].attempt

(* No step rewinds a job: finished stays as it is, running is never queued *)
(* again, sent is never pending again, attempts only grow (dispatch's      *)
(* "never rewind its state").                                              *)
JobsNeverRewind ==
    [][\A id \in DOMAIN job :
           /\ id \in DOMAIN job'
           /\ job[id].status \in Terminal => job'[id] = job[id]
           /\ job[id].status = "running" => job'[id].status # "queued"
           /\ job[id].dispatch = "sent" => job'[id].dispatch = "sent"
           /\ job[id].attempt <= job'[id].attempt]_vars

Changed(items, next) == {k \in DOMAIN next : k \notin DOMAIN items \/ next[k] # items[k]}

(* A checkpoint, a proposal or a result is written only for a job that is  *)
(* running, under its latest claim, while its requester has access: a      *)
(* worker that was replaced, or whose requester was removed since it last  *)
(* looked, writes nothing (transaction).                                   *)
OnlyTheClaimWrites ==
    [][/\ \A k \in Changed(saved, saved') :
              /\ job[k[1]].status = "running"
              /\ saved'[k] = job[k[1]].attempt
              /\ HasAccess(job[k[1]].requester, job[k[1]].ticket_id)
       /\ \A id \in Changed(run, run') :
              /\ job[id].status = "running"
              /\ run'[id] = job[id].attempt
              /\ HasAccess(job[id].requester, job[id].ticket_id)]_vars

-----------------------------------------------------------------------------
(* Liveness.                                                               *)

IsFinished(id) == id \in DOMAIN job /\ job[id].status \in Terminal
IsShutOut(id) ==
    id \in DOMAIN job /\ ~HasAccess(job[id].requester, job[id].ticket_id)

(* Its execution has failed before it sent the message.  The job is marked *)
(* as sent by then or will be, and its execution is never started again.   *)
IsNeverSent(id) == id \in DOMAIN execution /\ execution[id] = "failed"

(* Every submitted job finishes, unless its requester loses access or its  *)
(* execution fails before the message is sent, although dispatching stops  *)
(* half-way, workers die and messages are given up (submit, dispatch, the  *)
(* worker, maintain).                                                      *)
JobsFinish ==
    \A id \in JobIds :
        id \in DOMAIN job ~> IsFinished(id) \/ IsShutOut(id) \/ IsNeverSent(id)

(* What the architecture notes say of a requester who has lost access for  *)
(* good: the job becomes a failed one.                                     *)
LostAccessFailsJobs ==
    \A id \in JobIds : []IsShutOut(id) ~> IsFinished(id)

-----------------------------------------------------------------------------
(* The promise: one investigation at a time for a requester and a ticket.  *)

Ledger == INSTANCE JobLedger WITH
    Investigations <- JobIds,
    Owners <- Employees \X Tickets,
    Allowance <- Limit,
    owner <- [id \in DOMAIN job |-> <<job[id].requester, job[id].ticket_id>>],
    outcome <- [id \in DOMAIN job |->
                    IF job[id].status \in Terminal THEN job[id].status ELSE "open"],
    published <- DOMAIN run

(* Racing submissions, workers and maintenance implement the ledger: every *)
(* step opens, completes or fails one investigation, or changes nothing.   *)
ImplementsJobLedger == Ledger!Spec
=============================================================================
