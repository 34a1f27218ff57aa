------------------------- MODULE WorkflowCallbacks -------------------------
(***************************************************************************)
(* The Step Functions executions that lead investigations through          *)
(* approval, execution and verification, and the callbacks that advance    *)
(* them.  An execution that waits has a task token; the wait handler saves *)
(* it as a FLOW record; whoever commits the awaited action, or finds it    *)
(* committed later, sends the saved token back and deletes the record.     *)
(*                                                                         *)
(* All Runs have found the same proposal, as repeated investigations of a  *)
(* ticket do, so they share its receipts.  A process is one invocation: a  *)
(* wait handler, named by its run and token, or one of Calls, which are    *)
(* API requests and maintenance.                                           *)
(*                                                                         *)
(* A definition called a mutant is not part of the model: it is the        *)
(* definition after it with one mistake in it.                             *)
(***************************************************************************)
EXTENDS Integers, FiniteSets, Items

CONSTANTS
    Runs, Calls,
    Environment,    \* of the proposal
    Faults,         \* what may go wrong in the service, see below
    MaxTokens       \* bound: tokens of one execution, which stops trying waits again

(* "resolve": the first task fails; "retry": a wait is tried again although*)
(* its first handler still runs; "crash": a wait handler fails; "timeout": *)
(* the execution exceeds its day.                                          *)
ASSUME CallbacksAssumption ==
    /\ (Runs \X (1 .. MaxTokens)) \cap Calls = {}
    /\ Environment \in {"sandbox", "production"}
    /\ Faults \subseteq {"resolve", "retry", "crash", "timeout"}
    /\ MaxTokens \in Nat
    /\ MaxTokens > IF Environment = "production" THEN 3 ELSE 2

(* A sandbox change needs no approval.                                     *)
Stages == {"execution", "verification"}
          \cup (IF Environment = "production" THEN {"approval"} ELSE {})

FirstStage == IF Environment = "production" THEN "approval" ELSE "execution"

Awaiting(stage) == CASE stage = "approval" -> "AwaitApproval"
                     [] stage = "execution" -> "AwaitExecution"
                     [] stage = "verification" -> "AwaitVerification"
Waits == {Awaiting(stage) : stage \in Stages}
Ends == {"Blocked", "Delivered", "ManualIntervention", "Failed"}
Phases == {"none", "Resolve", "Investigate"} \cup Waits \cup Ends
JobStates == {"queued", "failed", "blocked", "proposal_candidate"}

VARIABLES
    phase,          \* the state of every run's execution, "none" before it starts
    token,          \* the number of its latest task token
    job,            \* the run's job, with the outcome once it is completed
    messages,       \* <<run, token>> of investigation messages in SQS or its dead-letter queue
    committed,      \* the stages with a receipt
    delivered,      \* the outcome in the verification receipt
    waiting,        \* FLOW#run#stage: the saved token
    process         \* local state of running invocations

business == <<job, messages, committed, delivered>>
vars == <<phase, token, business, waiting, process>>

-----------------------------------------------------------------------------
(* The state machine (aws/template.yml).                                   *)

Idle == [pc |-> "idle"]

At(pc, run, stage, n) == [pc |-> pc, run |-> run, stage |-> stage, token |-> n]

Step(x, local) == process' = [process EXCEPT ![x] = local]

(* Entering a wait creates its token and invokes the wait handler.         *)
Enter(run, stage, processes) ==
    /\ phase' = [phase EXCEPT ![run] = Awaiting(stage)]
    /\ token' = [token EXCEPT ![run] = token[run] + 1]
    /\ process' = [processes EXCEPT ![<<run, token[run] + 1>>] =
                      At("read_previous", run, stage, token[run] + 1)]

Finish(run, end, processes) ==
    /\ phase' = [phase EXCEPT ![run] = end]
    /\ process' = processes
    /\ UNCHANGED token

(* Mutant: the choice has no default.                                      *)
ReviewProduction(run, outcome, processes) ==
    IF outcome = "blocked" THEN Finish(run, "Blocked", processes)
    ELSE IF Environment = "production" THEN Enter(run, "approval", processes)
    ELSE Finish(run, "NoChoiceMatched", processes)

ReviewOutcome(run, outcome, processes) ==
    IF outcome = "blocked" THEN Finish(run, "Blocked", processes)
    ELSE Enter(run, FirstStage, processes)

ReviewDelivery(run, processes) ==
    Finish(run, IF delivered THEN "Delivered" ELSE "ManualIntervention", processes)

Advance(run, stage, processes) ==
    CASE stage = "approval" -> Enter(run, "execution", processes)
      [] stage = "execution" -> Enter(run, "verification", processes)
      [] stage = "verification" -> ReviewDelivery(run, processes)

(* A run is a new job, or the one that the demo portfolio is seeded with:  *)
(* without job or execution, for a production change, perhaps approved.    *)
Init ==
    /\ phase = [run \in Runs |-> "none"]
    /\ token = [run \in Runs |-> 0]
    /\ messages = {}
    /\ \/ /\ job = [run \in Runs |-> "queued"]
          /\ committed = {}
       \/ /\ Environment = "production"
          /\ \E seeded \in Runs :
                 job = [run \in Runs |-> IF run = seeded THEN "proposal_candidate" ELSE "queued"]
          /\ committed \in {{}, {"approval"}}
    /\ delivered = FALSE
    /\ waiting = NoItems
    /\ process = [x \in (Runs \X (1 .. MaxTokens)) \cup Calls |-> Idle]

(* The waits that follow have a token left each, so the bound only limits  *)
(* how often waits are tried again.                                        *)
TokensAhead(stage) == CASE stage = "approval" -> 2
                        [] stage = "execution" -> 1
                        [] stage = "verification" -> 0
HasToken(run, stage) == token[run] + TokensAhead(stage) < MaxTokens

(* start, when a job is dispatched: an execution that exists is not        *)
(* started again.                                                          *)
Start(run) ==
    /\ phase[run] = "none"
    /\ job[run] = "queued"
    /\ phase' = [phase EXCEPT ![run] = "Resolve"]
    /\ UNCHANGED <<token, business, waiting, process>>

Resolve(run) ==
    /\ phase[run] = "Resolve"
    /\ \/ /\ job[run] = "queued"
          /\ phase' = [phase EXCEPT ![run] = "Investigate"]
          /\ token' = [token EXCEPT ![run] = token[run] + 1]
          /\ messages' = messages \cup {<<run, token[run] + 1>>}
          /\ UNCHANGED process
       \/ /\ job[run] # "queued"
          /\ ReviewOutcome(run, job[run], process)
          /\ UNCHANGED messages
       \/ /\ "resolve" \in Faults
          /\ Finish(run, "Failed", process)
          /\ UNCHANGED messages
    /\ UNCHANGED <<job, committed, delivered, waiting>>

(* The service reports an error that is retried although the first handler *)
(* is still running: a second token and a second handler.                  *)
RetryWait(run, stage) ==
    /\ "retry" \in Faults
    /\ phase[run] = Awaiting(stage)
    /\ HasToken(run, stage)
    /\ Enter(run, stage, process)
    /\ UNCHANGED <<business, waiting>>

TimeOut(run) ==
    /\ "timeout" \in Faults
    /\ phase[run] \notin Ends \cup {"none"}
    /\ Finish(run, "Failed", process)
    /\ UNCHANGED <<business, waiting>>

-----------------------------------------------------------------------------
(* Investigations.                                                         *)

(* The worker saves a result, or the job fails.                            *)
FinishJob(run) ==
    /\ \E m \in messages : m[1] = run
    /\ job[run] = "queued"
    /\ \E state \in JobStates \ {"queued"} : job' = [job EXCEPT ![run] = state]
    /\ UNCHANGED <<phase, token, messages, committed, delivered, waiting, process>>

(* Mutant: the message is removed before the callback.                     *)
RemoveThenComplete(m) ==
    /\ m \in messages
    /\ job[m[1]] # "queued"
    /\ messages' = messages \ {m}
    /\ \/ UNCHANGED <<phase, token, process>>
       \/ /\ phase[m[1]] = "Investigate" /\ token[m[1]] = m[2]
          /\ ReviewOutcome(m[1], job[m[1]], process)
    /\ UNCHANGED <<job, committed, delivered, waiting>>

(* complete_investigation, when the job of a delivered or dead message is  *)
(* finished: the callback, then the message is removed.  A process that    *)
(* dies in between repeats the callback, which the service then ignores.   *)
CompleteInvestigation(m) ==
    LET run == m[1]
    IN  /\ m \in messages
        /\ job[run] # "queued"
        /\ \/ /\ phase[run] = "Investigate" /\ token[run] = m[2]
              /\ IF job[run] = "failed"
                 THEN Finish(run, "Failed", process)
                 ELSE ReviewOutcome(run, job[run], process)
              /\ messages' \in {messages, messages \ {m}}
           \/ /\ ~(phase[run] = "Investigate" /\ token[run] = m[2])
              /\ messages' = messages \ {m}
              /\ UNCHANGED <<phase, token, process>>
        /\ UNCHANGED <<job, committed, delivered, waiting>>

-----------------------------------------------------------------------------
(* Waiting.                                                                *)

(* The token saved under a FLOW record, if any.                            *)
Saved(k) == IF k \in DOMAIN waiting THEN {waiting[k]} ELSE {}

(* Local token: of a handler, its own until it is registered, afterwards   *)
(* the one advance read; previous is what the handler read first.          *)
ReadPrevious(x) ==
    LET local == process[x]
        k == <<local.run, local.stage>>
    IN  /\ local.pc = "read_previous"
        /\ Step(x, [pc |-> "register", run |-> local.run, stage |-> local.stage,
                    token |-> local.token,
                    previous |-> Saved(k)])
        /\ UNCHANGED <<phase, token, business, waiting>>

(* The condition of the registration.                                      *)
IsUnchanged(local) == Saved(<<local.run, local.stage>>) = local.previous

Register(x) ==
    LET local == process[x]
    IN  /\ local.pc = "register"
        /\ IsUnchanged(local)
        /\ waiting' = Put(waiting, <<local.run, local.stage>>, local.token)
        /\ Step(x, At("read_waiting", local.run, local.stage, local.token))
        /\ UNCHANGED <<phase, token, business>>

(* The condition of the deletion after a callback.                         *)
HoldsToken(local) == Saved(<<local.run, local.stage>>) = {local.token}

IsRefused(local) ==
    \/ local.pc = "register" /\ ~IsUnchanged(local)
    \/ local.pc = "delete" /\ ~HoldsToken(local)

(* A handler whose transaction is refused, or that fails otherwise, fails  *)
(* the execution if that still waits with the handler's token.             *)
HandlerFails(x) ==
    LET local == process[x]
    IN  /\ x \notin Calls
        /\ local.pc # "idle"
        /\ "crash" \in Faults \/ IsRefused(local)
        /\ IF phase[local.run] = Awaiting(local.stage) /\ token[local.run] = x[2]
           THEN Finish(local.run, "Failed", [process EXCEPT ![x] = Idle])
           ELSE Step(x, Idle) /\ UNCHANGED <<phase, token>>
        /\ UNCHANGED <<business, waiting>>

-----------------------------------------------------------------------------
(* Advancing, by a wait handler after its registration, by the request     *)
(* that committed the action, by a repeated request, and by maintenance.   *)

ReadWaiting(x) ==
    LET local == process[x]
        k == <<local.run, local.stage>>
    IN  /\ local.pc = "read_waiting"
        /\ Step(x, IF k \in DOMAIN waiting
                   THEN At("read_receipt", local.run, local.stage, waiting[k])
                   ELSE Idle)
        /\ UNCHANGED <<phase, token, business, waiting>>

(* Mutant: the callback does not look for the receipt.                     *)
IsRequested(stage) == TRUE

HasReceipt(stage) == stage \in committed

(* Mutant: a wait whose action is not committed is forgotten.              *)
ReadReceiptOrForget(x) ==
    LET local == process[x]
    IN  /\ local.pc = "read_receipt"
        /\ Step(x, At(IF HasReceipt(local.stage) THEN "callback" ELSE "delete",
                      local.run, local.stage, local.token))
        /\ UNCHANGED <<phase, token, business, waiting>>

ReadReceipt(x) ==
    LET local == process[x]
    IN  /\ local.pc = "read_receipt"
        /\ Step(x, IF HasReceipt(local.stage)
                   THEN At("callback", local.run, local.stage, local.token)
                   ELSE Idle)
        /\ UNCHANGED <<phase, token, business, waiting>>

(* The service accepts a token while its task waits, and ignores it else.  *)
IsAwaited(local) ==
    phase[local.run] = Awaiting(local.stage) /\ token[local.run] = local.token

Callback(x) ==
    LET local == process[x]
        done == [process EXCEPT ![x] = At("delete", local.run, local.stage, local.token)]
    IN  /\ local.pc = "callback"
        /\ IF IsAwaited(local)
           THEN Advance(local.run, local.stage, done)
           ELSE process' = done /\ UNCHANGED <<phase, token>>
        /\ UNCHANGED <<business, waiting>>

(* A request whose deletion is refused fails with 409, see End.            *)
DeleteWaiting(x) ==
    LET local == process[x]
    IN  /\ local.pc = "delete"
        /\ HoldsToken(local)
        /\ waiting' = Delete(waiting, {<<local.run, local.stage>>})
        /\ Step(x, Idle)
        /\ UNCHANGED <<phase, token, business>>

(* A request or a maintenance run that is over, at whatever point.         *)
End(c) ==
    /\ process[c].pc # "idle"
    /\ Step(c, Idle)
    /\ UNCHANGED <<phase, token, business, waiting>>

-----------------------------------------------------------------------------
(* Requests and maintenance.                                               *)

(* The stage that may be committed next.                                   *)
Committable(stage) ==
    /\ stage \notin committed
    /\ stage = "execution" /\ Environment = "production" => "approval" \in committed
    /\ stage = "verification" => "execution" \in committed

Signalling(c, run, stage) == Step(c, At("signal", run, stage, 0))

(* A request commits an action of the proposal it opened from one run, and *)
(* then signals that run.                                                  *)
Commit(c, run, stage) ==
    /\ process[c] = Idle
    /\ job[run] = "proposal_candidate"
    /\ Committable(stage)
    /\ committed' = committed \cup {stage}
    /\ IF stage = "verification" THEN delivered' \in BOOLEAN ELSE UNCHANGED delivered
    /\ Signalling(c, run, stage)
    /\ UNCHANGED <<phase, token, job, messages, waiting>>

(* A repeated request finds the receipt and signals again.                 *)
Repeat(c, run, stage) ==
    /\ process[c] = Idle
    /\ job[run] = "proposal_candidate"
    /\ stage \in committed
    /\ Signalling(c, run, stage)
    /\ UNCHANGED <<phase, token, business, waiting>>

(* signal starts the execution if there is none, then advances it.         *)
Signal(c) ==
    LET local == process[c]
    IN  /\ local.pc = "signal"
        /\ phase' = IF phase[local.run] = "none"
                    THEN [phase EXCEPT ![local.run] = "Resolve"] ELSE phase
        /\ Step(c, At("read_waiting", local.run, local.stage, 0))
        /\ UNCHANGED <<token, business, waiting>>

(* Mutant: only approvals are looked for.                                  *)
MaintainApprovals(c, run, stage) ==
    /\ process[c] = Idle
    /\ stage = "approval"
    /\ <<run, stage>> \in DOMAIN waiting
    /\ Step(c, At("read_waiting", run, stage, 0))
    /\ UNCHANGED <<phase, token, business, waiting>>

(* The hourly scan finds a FLOW record and advances its run.               *)
Maintain(c, run, stage) ==
    /\ process[c] = Idle
    /\ <<run, stage>> \in DOMAIN waiting
    /\ Step(c, At("read_waiting", run, stage, 0))
    /\ UNCHANGED <<phase, token, business, waiting>>

Handlers == Runs \X (1 .. MaxTokens)

Machine(run) ==
    \/ Start(run) \/ Resolve(run) \/ TimeOut(run)
    \/ \E stage \in Stages : RetryWait(run, stage)

Handling(x) ==
    \/ ReadPrevious(x) \/ Register(x) \/ HandlerFails(x)
    \/ ReadWaiting(x) \/ ReadReceipt(x) \/ Callback(x) \/ DeleteWaiting(x)

Calling(c) ==
    \/ \E run \in Runs, stage \in Stages :
           Commit(c, run, stage) \/ Repeat(c, run, stage) \/ Maintain(c, run, stage)
    \/ Signal(c)
    \/ End(c)

Next ==
    \/ \E run \in Runs : Machine(run) \/ FinishJob(run)
    \/ \E m \in messages : CompleteInvestigation(m)
    \/ \E x \in Handlers \cup Calls : Handling(x)
    \/ \E c \in Calls : Calling(c)

Spec == Init /\ [][Next]_vars

(* Call c serves this wait.                                                *)
Serves(c, run, stage) ==
    process[c].pc # "idle" /\ process[c].run = run /\ process[c].stage = stage

(* The service runs every task and every handler, SQS delivers, the hourly *)
(* scan comes back to every FLOW record, and each step of advancing it     *)
(* succeeds some time.  Nothing is assumed of the employees, nor of their  *)
(* requests, which may end at any point.                                   *)
FairSpec ==
    /\ Spec
    /\ \A run \in Runs : WF_vars(Start(run)) /\ WF_vars(Resolve(run)) /\ WF_vars(FinishJob(run))
    /\ \A m \in Handlers : WF_vars(CompleteInvestigation(m))
    /\ \A x \in Handlers : WF_vars(Handling(x))
    /\ \A c \in Calls : WF_vars(End(c))
    /\ \A run \in Runs, stage \in Stages :
           /\ SF_vars(\E c \in Calls : Maintain(c, run, stage))
           /\ SF_vars(\E c \in Calls : Serves(c, run, stage) /\ ReadWaiting(c))
           /\ SF_vars(\E c \in Calls : Serves(c, run, stage) /\ ReadReceipt(c))
           /\ SF_vars(\E c \in Calls : Serves(c, run, stage) /\ Callback(c))

-----------------------------------------------------------------------------
(* Every variable keeps its type, and a running invocation is at a step of *)
(* its own (workflow.py: handle and advance).                              *)
Local ==
    {Idle}
    \cup [pc : {"read_previous", "signal", "read_waiting", "read_receipt", "callback", "delete"},
          run : Runs, stage : Stages, token : 0 .. MaxTokens]
    \cup [pc : {"register"}, run : Runs, stage : Stages, token : 0 .. MaxTokens,
          previous : SUBSET (0 .. MaxTokens)]

TypeOK ==
    /\ phase \in [Runs -> Phases]
    /\ token \in [Runs -> 0 .. MaxTokens]
    /\ job \in [Runs -> JobStates]
    /\ messages \subseteq Handlers
    /\ committed \subseteq Stages
    /\ delivered \in BOOLEAN
    /\ DOMAIN waiting \subseteq Runs \X Stages
    /\ \A k \in DOMAIN waiting : waiting[k] \in 0 .. MaxTokens
    /\ process \in [Handlers \cup Calls -> Local]

(* An execution is past a wait only when the receipt of the awaited action *)
(* is saved, and it ends as the verification receipt says, whichever       *)
(* callbacks are late, repeated, sent by another invocation or to a token  *)
(* that has been replaced (workflow.py: advance; aws/template.yml).        *)
StagesFollowReceipts ==
    \A run \in Runs :
        /\ phase[run] = "AwaitExecution" /\ Environment = "production" => "approval" \in committed
        /\ phase[run] = "AwaitVerification" => "execution" \in committed
        /\ phase[run] \in {"Delivered", "ManualIntervention"} =>
               "verification" \in committed /\ delivered = (phase[run] = "Delivered")
        /\ phase[run] = "Blocked" => job[run] = "blocked"

(* As long as a wait is not tried again, a waiting execution can be found: *)
(* its token is saved, or its handler is about to save it.  The record is  *)
(* deleted only after its token was used (workflow.py: handle, advance).   *)
WaitsStayRegistered ==
    \A run \in Runs, stage \in Stages :
        phase[run] = Awaiting(stage) =>
            \/ Saved(<<run, stage>>) = {token[run]}
            \/ process[<<run, token[run]>>].pc \in {"read_previous", "register"}

(* An execution that waits for an action that is committed advances: the   *)
(* wait handler checks after registering, and maintenance finds what a     *)
(* request committed through another run or did not live to signal         *)
(* (workflow.py: advance, "Replays and maintenance can deliver a callback  *)
(* lost after an action commit").                                          *)
CommittedActionsAdvance ==
    \A run \in Runs, stage \in Stages :
        (phase[run] = Awaiting(stage) /\ stage \in committed) ~> phase[run] # Awaiting(stage)

(* An execution that waits for its investigation learns of the end of the  *)
(* job, be it a result or a failure, although the process that reports it  *)
(* may die before it removes the message (workflow.py:                     *)
(* complete_investigation).                                                *)
FinishedJobsAdvance ==
    \A run \in Runs :
        (phase[run] = "Investigate" /\ job[run] # "queued") ~> phase[run] # "Investigate"
=============================================================================
