----------------------- MODULE WorkflowCallbacksProofs -----------------------
(***************************************************************************)
(* Theorems about WorkflowCallbacks, for any number of runs, tokens and    *)
(* racing calls: with all the faults, the types and that no execution      *)
(* passes a wait without the receipt of the awaited action; and as long as *)
(* no wait is tried again, that a waiting execution can be found.          *)
(***************************************************************************)
EXTENDS WorkflowCallbacks, TLAPS

(* An execution in this state with n tokens has one left for each wait     *)
(* that follows.                                                           *)
Affords(state, n) ==
    /\ state \in {"none", "Resolve"} => n = 0
    /\ state = "Investigate" => n = 1
    /\ \A stage \in Stages : state = Awaiting(stage) => n + TokensAhead(stage) <= MaxTokens

TokensSuffice == \A run \in Runs : Affords(phase[run], token[run])

(* The part of the state that the service changes with the tasks.          *)
FlowOK ==
    /\ phase \in [Runs -> Phases]
    /\ token \in [Runs -> 0 .. MaxTokens]
    /\ process \in [Handlers \cup Calls -> Local]
    /\ TokensSuffice

(* What the handlers and callbacks rely on: a process sends a token only   *)
(* after it found the receipt of the stage.                                *)
CallbacksHaveReceipts ==
    \A x \in Handlers \cup Calls :
        process[x].pc \in {"callback", "delete"} => process[x].stage \in committed

(* The inductive invariant.                                                *)
Reliance == TypeOK /\ TokensSuffice /\ CallbacksHaveReceipts /\ StagesFollowReceipts

-----------------------------------------------------------------------------
(* The stages and their waits are different strings.                       *)
LEMMA WaitsArePhases ==
    ASSUME NEW stage \in Stages
    PROVE  /\ Awaiting(stage) \in Phases
           /\ stage \in {"approval", "execution", "verification"}
           /\ stage = "approval" => Environment = "production"
BY DEF Stages, Phases, Waits, Awaiting

(* The first stage is a stage.                                             *)
LEMMA FirstIsStage == FirstStage \in Stages
BY DEF FirstStage, Stages

(* A local state at a step other than the registration.                    *)
LEMMA AtIsLocal ==
    ASSUME NEW pc \in {"read_previous", "signal", "read_waiting", "read_receipt", "callback", "delete"},
           NEW run \in Runs, NEW stage \in Stages, NEW n \in 0 .. MaxTokens
    PROVE  At(pc, run, stage, n) \in Local
BY DEF At, Local

(* Stepping keeps the type of the local states.                            *)
LEMMA StepType ==
    ASSUME process \in [Handlers \cup Calls -> Local],
           NEW x, NEW local \in Local, Step(x, local)
    PROVE  process' \in [Handlers \cup Calls -> Local]
BY DEF Step

(* Every wait is a state of its own, and none is another kind of state.    *)
LEMMA WaitsAreDistinct ==
    ASSUME NEW stage \in Stages
    PROVE  /\ Awaiting(stage) \notin {"none", "Resolve", "Investigate"} \cup Ends
           /\ \A other \in Stages : Awaiting(other) = Awaiting(stage) => other = stage
BY DEF Stages, Awaiting, Ends

(* How many waits follow each.                                             *)
LEMMA AheadOf ==
    /\ TokensAhead("approval") = 2
    /\ TokensAhead("execution") = 1
    /\ TokensAhead("verification") = 0
    /\ \A stage \in Stages : TokensAhead(stage) \in 0 .. 2
BY DEF TokensAhead, Stages

(* A token remains for a wait that may be entered and for those after it.  *)
MayEnter(run, stage) == token[run] + 1 + TokensAhead(stage) <= MaxTokens

(* What one execution does to its state and its tokens.                    *)
LEMMA MoveType ==
    ASSUME FlowOK, NEW run \in Runs, NEW state \in Phases, NEW n \in 0 .. MaxTokens,
           Affords(state, n),
           phase' = [phase EXCEPT ![run] = state], token' = [token EXCEPT ![run] = n],
           process' \in [Handlers \cup Calls -> Local]
    PROVE  FlowOK'
<1>1. phase' \in [Runs -> Phases] /\ token' \in [Runs -> 0 .. MaxTokens]
  BY DEF FlowOK
<1>2. ASSUME NEW other \in Runs PROVE Affords(phase'[other], token'[other])
  <2>1. CASE other = run
    BY <2>1 DEF FlowOK
  <2>2. CASE other # run
    BY <2>2 DEF FlowOK, TokensSuffice
  <2> QED
    BY <2>1, <2>2
<1> QED
  BY <1>1, <1>2 DEF FlowOK, TokensSuffice, Affords

(* Nor does a step of a process that leaves the executions alone.          *)
LEMMA ProcessType ==
    ASSUME FlowOK, UNCHANGED <<phase, token>>, process' \in [Handlers \cup Calls -> Local]
    PROVE  FlowOK'
BY DEF FlowOK, TokensSuffice, Affords

(* Entering a wait keeps the types.                                        *)
LEMMA EnterType ==
    ASSUME FlowOK, CallbacksAssumption,
           NEW run \in Runs, NEW stage \in Stages, MayEnter(run, stage),
           NEW ps \in [Handlers \cup Calls -> Local], Enter(run, stage, ps)
    PROVE  FlowOK'
<1>1. /\ token[run] \in Nat /\ MaxTokens \in Nat /\ TokensAhead(stage) \in Nat
      /\ token[run] + 1 + TokensAhead(stage) <= MaxTokens
  BY AheadOf DEF FlowOK, MayEnter, CallbacksAssumption
<1>2. token[run] + 1 \in 0 .. MaxTokens
  BY <1>1
<1>3. At("read_previous", run, stage, token[run] + 1) \in Local
  BY <1>2, AtIsLocal
<1>4. process' \in [Handlers \cup Calls -> Local]
  BY <1>3 DEF Enter
<1>5. Affords(Awaiting(stage), token[run] + 1)
  BY <1>1, WaitsAreDistinct DEF Affords
<1> QED
  BY <1>2, <1>4, <1>5, MoveType, WaitsArePhases DEF Enter

(* Ending an execution keeps the types.                                    *)
LEMMA FinishType ==
    ASSUME FlowOK, NEW run \in Runs, NEW end \in Ends,
           NEW ps \in [Handlers \cup Calls -> Local], Finish(run, end, ps)
    PROVE  FlowOK'
<1>1. end \in Phases /\ end \notin {"none", "Resolve", "Investigate"}
  BY DEF Ends, Phases
<1>2. Affords(end, token[run])
  BY <1>1, WaitsAreDistinct DEF Affords
<1>3. token[run] \in 0 .. MaxTokens /\ token' = [token EXCEPT ![run] = token[run]]
  BY DEF FlowOK, Finish
<1> QED
  BY <1>1, <1>2, <1>3, MoveType DEF Finish

(* So does the choice after an investigation.                              *)
LEMMA OutcomeType ==
    ASSUME FlowOK, CallbacksAssumption, NEW run \in Runs, NEW outcome,
           phase[run] \in {"Resolve", "Investigate"},
           NEW ps \in [Handlers \cup Calls -> Local], ReviewOutcome(run, outcome, ps)
    PROVE  FlowOK'
<1>1. CASE outcome = "blocked"
  <2>1. Finish(run, "Blocked", ps)
    BY <1>1 DEF ReviewOutcome
  <2> QED
    BY <2>1, FinishType DEF Ends
<1>2. CASE outcome # "blocked"
  <2>1. Enter(run, FirstStage, ps)
    BY <1>2 DEF ReviewOutcome
  <2>2. token[run] \in 0 .. 1
    BY DEF FlowOK, TokensSuffice, Affords
  <2>3. MayEnter(run, FirstStage)
    BY <2>2, AheadOf DEF MayEnter, FirstStage, CallbacksAssumption
  <2> QED
    BY <2>1, <2>3, EnterType, FirstIsStage
<1> QED
  BY <1>1, <1>2

(* So does an accepted callback.                                           *)
LEMMA AdvanceType ==
    ASSUME FlowOK, CallbacksAssumption, NEW run \in Runs, NEW stage \in Stages,
           phase[run] = Awaiting(stage),
           NEW ps \in [Handlers \cup Calls -> Local], Advance(run, stage, ps)
    PROVE  FlowOK'
<1>0. /\ token[run] \in Nat /\ MaxTokens \in Nat
      /\ token[run] + TokensAhead(stage) <= MaxTokens
  BY DEF FlowOK, TokensSuffice, Affords, CallbacksAssumption
<1>1. CASE stage = "approval"
  <2>1. Enter(run, "execution", ps)
    BY <1>1 DEF Advance
  <2>2. MayEnter(run, "execution")
    BY <1>0, <1>1, AheadOf DEF MayEnter
  <2> QED
    BY <2>1, <2>2, EnterType DEF Stages
<1>2. CASE stage = "execution"
  <2>1. Enter(run, "verification", ps)
    BY <1>2 DEF Advance
  <2>2. MayEnter(run, "verification")
    BY <1>0, <1>2, AheadOf DEF MayEnter
  <2> QED
    BY <2>1, <2>2, EnterType DEF Stages
<1>3. CASE stage = "verification"
  <2>1. ReviewDelivery(run, ps)
    BY <1>3 DEF Advance
  <2>2. CASE delivered
    BY <2>1, <2>2, FinishType DEF ReviewDelivery, Ends
  <2>3. CASE ~delivered
    BY <2>1, <2>3, FinishType DEF ReviewDelivery, Ends
  <2> QED
    BY <2>2, <2>3
<1> QED
  BY <1>1, <1>2, <1>3, WaitsArePhases

(* A running invocation has a run, a stage and a token.                    *)
LEMMA RunningHasFields ==
    ASSUME process \in [Handlers \cup Calls -> Local],
           NEW x \in Handlers \cup Calls, process[x].pc # "idle"
    PROVE  /\ process[x].run \in Runs
           /\ process[x].stage \in Stages
           /\ process[x].token \in 0 .. MaxTokens
<1>1. process[x] \in Local
  OBVIOUS
<1> QED
  BY <1>1 DEF Local, Idle

-----------------------------------------------------------------------------
(* Every step keeps the types of the service's part of the state.          *)
LEMMA FlowStep ==
    ASSUME TypeOK, TokensSuffice, CallbacksAssumption, [Next]_vars
    PROVE  FlowOK'
<1> FlowOK
  BY DEF TypeOK, FlowOK
<1> Idle \in Local
  BY DEF Local
<1>u. CASE UNCHANGED vars
  BY <1>u, ProcessType DEF vars, FlowOK
<1>m. ASSUME NEW run \in Runs, Machine(run) PROVE FlowOK'
  <2>1. CASE Start(run)
    <3>1. token[run] = 0 /\ token' = [token EXCEPT ![run] = 0]
      BY <2>1 DEF Start, FlowOK, TokensSuffice, Affords
    <3>2. Affords("Resolve", 0) /\ "Resolve" \in Phases /\ 0 \in 0 .. MaxTokens
      BY WaitsAreDistinct DEF Affords, Phases, CallbacksAssumption
    <3> QED
      BY <2>1, <3>1, <3>2, MoveType DEF Start, FlowOK
  <2>2. CASE Resolve(run)
    <3>1. CASE job[run] = "queued" /\ phase' = [phase EXCEPT ![run] = "Investigate"]
               /\ token' = [token EXCEPT ![run] = token[run] + 1] /\ UNCHANGED process
      <4>1. token[run] + 1 = 1 /\ 1 \in 0 .. MaxTokens
        BY <2>2 DEF Resolve, FlowOK, TokensSuffice, Affords, CallbacksAssumption
      <4>2. Affords("Investigate", 1) /\ "Investigate" \in Phases
        BY WaitsAreDistinct DEF Affords, Phases
      <4> QED
        BY <3>1, <4>1, <4>2, MoveType DEF FlowOK
    <3>2. CASE ReviewOutcome(run, job[run], process)
      <4>1. phase[run] \in {"Resolve", "Investigate"}
        BY <2>2 DEF Resolve
      <4> QED
        BY <3>2, <4>1, OutcomeType DEF FlowOK
    <3>3. CASE Finish(run, "Failed", process)
      BY <3>3, FinishType DEF Ends, FlowOK
    <3> QED
      BY <2>2, <3>1, <3>2, <3>3 DEF Resolve
  <2>3. CASE TimeOut(run)
    BY <2>3, FinishType DEF TimeOut, Ends, FlowOK
  <2>4. ASSUME NEW stage \in Stages, RetryWait(run, stage) PROVE FlowOK'
    <3>1. Enter(run, stage, process) /\ token[run] + TokensAhead(stage) < MaxTokens
      BY <2>4 DEF RetryWait, HasToken
    <3>2. MayEnter(run, stage)
      <4>1. token[run] \in Nat /\ MaxTokens \in Nat /\ TokensAhead(stage) \in Nat
        BY AheadOf DEF FlowOK, CallbacksAssumption
      <4> QED
        BY <3>1, <4>1 DEF MayEnter
    <3> QED
      BY <3>1, <3>2, EnterType DEF FlowOK
  <2> QED
    BY <1>m, <2>1, <2>2, <2>3, <2>4 DEF Machine
<1>j. ASSUME NEW run \in Runs, FinishJob(run) PROVE FlowOK'
  BY <1>j, ProcessType DEF FinishJob, FlowOK
<1>i. ASSUME NEW m \in messages, CompleteInvestigation(m) PROVE FlowOK'
  <2> m[1] \in Runs
    BY DEF TypeOK, Handlers
  <2>1. CASE Finish(m[1], "Failed", process)
    BY <2>1, FinishType DEF Ends, FlowOK
  <2>2. CASE phase[m[1]] = "Investigate" /\ ReviewOutcome(m[1], job[m[1]], process)
    BY <2>2, OutcomeType DEF FlowOK
  <2>3. CASE UNCHANGED <<phase, token, process>>
    BY <2>3, ProcessType DEF FlowOK
  <2> QED
    BY <1>i, <2>1, <2>2, <2>3 DEF CompleteInvestigation
<1>h. ASSUME NEW x \in Handlers \cup Calls, Handling(x) PROVE FlowOK'
  <2> process \in [Handlers \cup Calls -> Local]
    BY DEF FlowOK
  <2> process[x].pc # "idle"
    BY <1>h DEF Handling, ReadPrevious, Register, HandlerFails, ReadWaiting, ReadReceipt,
                Callback, DeleteWaiting
  <2> PICK local \in Local : local = process[x]
    OBVIOUS
  <2>f. local.run \in Runs /\ local.stage \in Stages /\ local.token \in 0 .. MaxTokens
    BY RunningHasFields
  <2>1. CASE ReadPrevious(x)
    <3> DEFINE saved == Saved(<<local.run, local.stage>>)
               next == [pc |-> "register", run |-> local.run, stage |-> local.stage,
                        token |-> local.token, previous |-> saved]
    <3>1. saved \in SUBSET (0 .. MaxTokens)
      BY DEF TypeOK, Saved
    <3>2. next \in Local
      BY <3>1, <2>f DEF Local
    <3>3. Step(x, next) /\ UNCHANGED <<phase, token>>
      BY <2>1 DEF ReadPrevious
    <3> QED
      BY <3>2, <3>3, StepType, ProcessType DEF FlowOK
  <2>2. CASE Register(x)
    <3>1. Step(x, At("read_waiting", local.run, local.stage, local.token)) /\ UNCHANGED <<phase, token>>
      BY <2>2 DEF Register
    <3> QED
      BY <3>1, <2>f, AtIsLocal, StepType, ProcessType DEF FlowOK
  <2>3. CASE HandlerFails(x)
    <3>1. \/ Finish(local.run, "Failed", [process EXCEPT ![x] = Idle])
          \/ Step(x, Idle) /\ UNCHANGED <<phase, token>>
      BY <2>3 DEF HandlerFails
    <3>2. [process EXCEPT ![x] = Idle] \in [Handlers \cup Calls -> Local]
      OBVIOUS
    <3>3. "Failed" \in Ends
      BY DEF Ends
    <3>4. CASE Finish(local.run, "Failed", [process EXCEPT ![x] = Idle])
      BY <3>2, <3>3, <3>4, <2>f, FinishType
    <3>5. CASE Step(x, Idle) /\ UNCHANGED <<phase, token>>
      BY <3>5, StepType, ProcessType DEF FlowOK
    <3> QED
      BY <3>1, <3>4, <3>5
  <2>4. CASE ReadWaiting(x)
    <3>1. PICK next \in Local : Step(x, next)
      <4>1. CASE <<local.run, local.stage>> \in DOMAIN waiting
        <5>1. waiting[<<local.run, local.stage>>] \in 0 .. MaxTokens
          BY <4>1 DEF TypeOK
        <5>2. At("read_receipt", local.run, local.stage, waiting[<<local.run, local.stage>>]) \in Local
          BY <5>1, <2>f, AtIsLocal
        <5> QED
          BY <4>1, <5>2, <2>4 DEF ReadWaiting
      <4>2. CASE <<local.run, local.stage>> \notin DOMAIN waiting
        BY <4>2, <2>4 DEF ReadWaiting
      <4> QED
        BY <4>1, <4>2
    <3> QED
      BY <3>1, <2>4, StepType, ProcessType DEF ReadWaiting, FlowOK
  <2>5. CASE ReadReceipt(x)
    <3>1. At("callback", local.run, local.stage, local.token) \in Local
      BY <2>f, AtIsLocal
    <3>2. CASE HasReceipt(local.stage)
      BY <3>1, <3>2, <2>5, StepType, ProcessType DEF ReadReceipt, FlowOK
    <3>3. CASE ~HasReceipt(local.stage)
      BY <3>3, <2>5, StepType, ProcessType DEF ReadReceipt, FlowOK
    <3> QED
      BY <3>2, <3>3
  <2>6. CASE Callback(x)
    <3> DEFINE done == [process EXCEPT ![x] = At("delete", local.run, local.stage, local.token)]
    <3>1. done \in [Handlers \cup Calls -> Local]
      BY <2>f, AtIsLocal
    <3>2. CASE phase[local.run] = Awaiting(local.stage) /\ Advance(local.run, local.stage, done)
      BY <3>1, <3>2, <2>f, AdvanceType
    <3>3. CASE process' = done /\ UNCHANGED <<phase, token>>
      BY <3>1, <3>3, ProcessType
    <3> QED
      BY <2>6, <3>2, <3>3 DEF Callback, IsAwaited
  <2>7. CASE DeleteWaiting(x)
    BY <2>7, StepType, ProcessType DEF DeleteWaiting, FlowOK
  <2> QED
    BY <1>h, <2>1, <2>2, <2>3, <2>4, <2>5, <2>6, <2>7 DEF Handling
<1>c. ASSUME NEW c \in Calls, Calling(c) PROVE FlowOK'
  <2> process \in [Handlers \cup Calls -> Local]
    BY DEF FlowOK
  <2> 0 \in 0 .. MaxTokens
    BY DEF CallbacksAssumption
  <2>1. ASSUME NEW run \in Runs, NEW stage \in Stages,
               Commit(c, run, stage) \/ Repeat(c, run, stage) \/ Maintain(c, run, stage)
        PROVE  FlowOK'
    <3>1. \/ Step(c, At("signal", run, stage, 0))
          \/ Step(c, At("read_waiting", run, stage, 0))
      BY <2>1 DEF Commit, Repeat, Maintain, Signalling
    <3>2. UNCHANGED <<phase, token>>
      BY <2>1 DEF Commit, Repeat, Maintain
    <3> QED
      BY <3>1, <3>2, AtIsLocal, StepType, ProcessType DEF FlowOK
  <2>2. CASE Signal(c)
    <3>1. process[c].pc # "idle"
      BY <2>2 DEF Signal
    <3> PICK local \in Local : local = process[c]
      OBVIOUS
    <3>2. local.run \in Runs /\ local.stage \in Stages
      BY <3>1, RunningHasFields
    <3>3. process' \in [Handlers \cup Calls -> Local]
      BY <3>2, <2>2, AtIsLocal, StepType, ProcessType DEF Signal
    <3>4. CASE phase[local.run] = "none"
      <4>1. token[local.run] = 0 /\ token' = [token EXCEPT ![local.run] = 0]
        BY <2>2, <3>2, <3>4 DEF Signal, FlowOK, TokensSuffice, Affords
      <4>2. Affords("Resolve", 0) /\ "Resolve" \in Phases
        BY WaitsAreDistinct DEF Affords, Phases, CallbacksAssumption
      <4> QED
        BY <2>2, <3>2, <3>3, <3>4, <4>1, <4>2, MoveType DEF Signal
    <3>5. CASE phase[local.run] # "none"
      BY <2>2, <3>3, <3>5, ProcessType DEF Signal
    <3> QED
      BY <3>4, <3>5
  <2>3. CASE End(c)
    BY <2>3, StepType, ProcessType DEF End, FlowOK
  <2> QED
    BY <1>c, <2>1, <2>2, <2>3 DEF Calling
<1> QED
  BY <1>u, <1>m, <1>j, <1>i, <1>h, <1>c DEF Next
-----------------------------------------------------------------------------
(* What one step does to the rest of the state: jobs end once, committed   *)
(* stages stay, and the outcome of a verification is written once.         *)
LEMMA BusinessStep ==
    ASSUME TypeOK, [Next]_vars
    PROVE  /\ \A run \in Runs : job[run] # "queued" => job'[run] = job[run]
           /\ committed \subseteq committed'
           /\ "verification" \in committed => delivered' = delivered
<1>u. CASE UNCHANGED vars
  BY <1>u DEF vars, business
<1>m. ASSUME NEW run \in Runs, Machine(run) PROVE UNCHANGED <<job, committed, delivered>>
  BY <1>m DEF Machine, Start, Resolve, RetryWait, TimeOut, business
<1>j. ASSUME NEW run \in Runs, FinishJob(run)
      PROVE  /\ \A r \in Runs : job[r] # "queued" => job'[r] = job[r]
             /\ UNCHANGED <<committed, delivered>>
  BY <1>j DEF FinishJob, TypeOK
<1>i. ASSUME NEW m \in messages, CompleteInvestigation(m) PROVE UNCHANGED <<job, committed, delivered>>
  BY <1>i DEF CompleteInvestigation
<1>h. ASSUME NEW x \in Handlers \cup Calls, Handling(x) PROVE UNCHANGED <<job, committed, delivered>>
  BY <1>h DEF Handling, ReadPrevious, Register, HandlerFails, ReadWaiting, ReadReceipt,
              Callback, DeleteWaiting, business
<1>c. ASSUME NEW c \in Calls, Calling(c)
      PROVE  /\ job' = job
             /\ committed \subseteq committed'
             /\ "verification" \in committed => delivered' = delivered
  <2>1. ASSUME NEW run \in Runs, NEW stage \in Stages, Commit(c, run, stage)
        PROVE  /\ job' = job
               /\ committed \subseteq committed'
               /\ "verification" \in committed => delivered' = delivered
    <3>1. stage \notin committed /\ job' = job /\ committed' = committed \cup {stage}
      BY <2>1 DEF Commit, Committable
    <3>2. CASE stage = "verification"
      BY <3>1, <3>2
    <3>3. CASE stage # "verification"
      BY <3>1, <3>3, <2>1 DEF Commit
    <3> QED
      BY <3>2, <3>3
  <2>2. ASSUME ~(\E run \in Runs, stage \in Stages : Commit(c, run, stage))
        PROVE  UNCHANGED <<job, committed, delivered>>
    BY <1>c, <2>2 DEF Calling, Repeat, Maintain, Signal, End, business
  <2> QED
    BY <2>1, <2>2
<1> QED
  BY <1>u, <1>m, <1>j, <1>i, <1>h, <1>c DEF Next

(* Every step keeps the types, and the tokens that remain.                 *)
LEMMA TypeStep ==
    ASSUME TypeOK, TokensSuffice, CallbacksAssumption, [Next]_vars
    PROVE  TypeOK' /\ TokensSuffice'
<1>f. FlowOK'
  BY FlowStep
<1>u. CASE UNCHANGED vars
  BY <1>f, <1>u DEF vars, business, TypeOK, FlowOK
<1> DEFINE Rest ==
        /\ job' \in [Runs -> JobStates]
        /\ messages' \subseteq Handlers
        /\ committed' \subseteq Stages
        /\ delivered' \in BOOLEAN
        /\ DOMAIN waiting' \subseteq Runs \X Stages
        /\ \A k \in DOMAIN waiting' : waiting'[k] \in 0 .. MaxTokens
<1>0. ASSUME UNCHANGED <<job, messages, committed, delivered, waiting>> PROVE Rest
  BY <1>0 DEF TypeOK
<1>m. ASSUME NEW run \in Runs, Machine(run) PROVE Rest
  <2>1. CASE Resolve(run)
    <3>1. messages' \subseteq Handlers
      BY <2>1 DEF Resolve, TypeOK, Handlers, TokensSuffice, Affords, CallbacksAssumption
    <3> QED
      BY <2>1, <3>1 DEF Resolve, TypeOK
  <2>2. CASE ~Resolve(run)
    BY <1>m, <1>0, <2>2 DEF Machine, Start, RetryWait, TimeOut, business
  <2> QED
    BY <2>1, <2>2
<1>j. ASSUME NEW run \in Runs, FinishJob(run) PROVE Rest
  BY <1>j DEF FinishJob, TypeOK
<1>i. ASSUME NEW m \in messages, CompleteInvestigation(m) PROVE Rest
  BY <1>i DEF CompleteInvestigation, TypeOK
<1>h. ASSUME NEW x \in Handlers \cup Calls, Handling(x) PROVE Rest
  <2> process \in [Handlers \cup Calls -> Local]
    BY DEF TypeOK
  <2>1. CASE Register(x)
    <3> PICK local \in Local : local = process[x]
      OBVIOUS
    <3>1. local.run \in Runs /\ local.stage \in Stages /\ local.token \in 0 .. MaxTokens
      BY <2>1, RunningHasFields DEF Register
    <3>2. waiting' = Put(waiting, <<local.run, local.stage>>, local.token)
      BY <2>1 DEF Register
    <3> QED
      BY <2>1, <3>1, <3>2 DEF Register, Put, TypeOK, business
  <2>2. CASE DeleteWaiting(x)
    <3>1. DOMAIN waiting' \subseteq DOMAIN waiting
          /\ \A k \in DOMAIN waiting' : waiting'[k] = waiting[k]
      BY <2>2 DEF DeleteWaiting, Delete
    <3> QED
      BY <2>2, <3>1 DEF DeleteWaiting, TypeOK, business
  <2>3. CASE ~Register(x) /\ ~DeleteWaiting(x)
    BY <1>h, <1>0, <2>3 DEF Handling, ReadPrevious, HandlerFails, ReadWaiting, ReadReceipt, Callback, business
  <2> QED
    BY <2>1, <2>2, <2>3
<1>c. ASSUME NEW c \in Calls, Calling(c) PROVE Rest
  <2>1. ASSUME NEW run \in Runs, NEW stage \in Stages, Commit(c, run, stage) PROVE Rest
    <3>1. delivered' \in BOOLEAN
      BY <2>1 DEF Commit, TypeOK
    <3> QED
      BY <2>1, <3>1 DEF Commit, TypeOK
  <2>2. ASSUME ~(\E run \in Runs, stage \in Stages : Commit(c, run, stage)) PROVE Rest
    BY <1>c, <1>0, <2>2 DEF Calling, Repeat, Maintain, Signal, End, business
  <2> QED
    BY <2>1, <2>2
<1>r. CASE Rest
  BY <1>f, <1>r DEF FlowOK, TypeOK
<1> QED
  BY <1>u, <1>m, <1>j, <1>i, <1>h, <1>c, <1>r DEF Next

-----------------------------------------------------------------------------
(* A process reaches its callback only over the receipt.                   *)
LEMMA CallbackStep ==
    ASSUME TypeOK, CallbacksHaveReceipts, CallbacksAssumption, [Next]_vars
    PROVE  CallbacksHaveReceipts'
<1> SUFFICES ASSUME NEW y \in Handlers \cup Calls,
                    process'[y].pc \in {"callback", "delete"}
             PROVE  process'[y].stage \in committed'
  BY DEF CallbacksHaveReceipts
<1>1. committed \subseteq committed'
  BY BusinessStep
<1>2. CASE process'[y] = process[y]
  BY <1>1, <1>2 DEF CallbacksHaveReceipts
<1>e. ASSUME NEW run, NEW stage, Enter(run, stage, process) PROVE process'[y] = process[y]
  BY <1>e DEF Enter, At, TypeOK
<1>o. ASSUME NEW run, NEW outcome, ReviewOutcome(run, outcome, process)
      PROVE  process'[y] = process[y]
  BY <1>o, <1>e DEF ReviewOutcome, Finish
<1>m. ASSUME NEW run \in Runs, Machine(run) PROVE process'[y] = process[y]
  BY <1>m, <1>e, <1>o DEF Machine, Start, Resolve, RetryWait, TimeOut, Finish
<1>i. ASSUME NEW m \in messages, CompleteInvestigation(m) PROVE process'[y] = process[y]
  BY <1>i, <1>o DEF CompleteInvestigation, Finish
<1>h. ASSUME NEW x \in Handlers \cup Calls, Handling(x) PROVE process'[y].stage \in committed'
  <2>1. CASE ReadReceipt(x)
    BY <1>1, <1>2, <2>1 DEF ReadReceipt, HasReceipt, Step, At, Idle, TypeOK
  <2>2. CASE Callback(x)
    <3> process \in [Handlers \cup Calls -> Local]
      BY DEF TypeOK
    <3> PICK local \in Local : local = process[x]
      OBVIOUS
    <3> DEFINE done == [process EXCEPT ![x] = At("delete", local.run, local.stage, local.token)]
    <3>1. local.stage \in committed
      BY <2>2 DEF Callback, CallbacksHaveReceipts
    <3>2. done[y] = process[y] \/ done[y].stage = local.stage
      BY DEF At
    <3>3. \A z \in Handlers \cup Calls : process'[z] = done[z] \/ process'[z].pc = "read_previous"
      <4>1. ASSUME NEW run, NEW s, Enter(run, s, done)
            PROVE  \A z \in Handlers \cup Calls :
                       process'[z] = done[z] \/ process'[z].pc = "read_previous"
        <5> PICK m : m = <<run, token[run] + 1>>
          OBVIOUS
        <5> PICK new : new = At("read_previous", run, s, token[run] + 1)
          OBVIOUS
        <5>1. new.pc = "read_previous"
          BY DEF At
        <5>2. process' = [done EXCEPT ![m] = new]
          BY <4>1 DEF Enter
        <5>3. \A z \in Handlers \cup Calls : process'[z] = IF z = m THEN new ELSE done[z]
          BY <5>2
        <5> QED
          BY <5>1, <5>3
      <4>2. process' = done \/ Advance(local.run, local.stage, done)
        BY <2>2 DEF Callback
      <4>3. local.stage \in {"approval", "execution", "verification"}
        BY <2>2, RunningHasFields, WaitsArePhases DEF Callback
      <4>4. CASE process' = done
        BY <4>4
      <4>5. CASE Advance(local.run, local.stage, done) /\ local.stage = "approval"
        BY <4>1, <4>5 DEF Advance
      <4>6. CASE Advance(local.run, local.stage, done) /\ local.stage = "execution"
        BY <4>1, <4>6 DEF Advance
      <4>7. CASE Advance(local.run, local.stage, done) /\ local.stage = "verification"
        BY <4>7 DEF Advance, ReviewDelivery, Finish
      <4> QED
        BY <4>2, <4>3, <4>4, <4>5, <4>6, <4>7
    <3> QED
      BY <1>1, <1>2, <3>1, <3>2, <3>3
  <2>3. CASE ~ReadReceipt(x) /\ ~Callback(x)
    BY <1>h, <1>2, <2>3
       DEF Handling, ReadPrevious, Register, HandlerFails, ReadWaiting, DeleteWaiting,
           Finish, Step, At, Idle, TypeOK
  <2> QED
    BY <2>1, <2>2, <2>3
<1>c. ASSUME NEW c \in Calls, Calling(c) PROVE process'[y] = process[y]
  <2> DEFINE Other(local) == Step(c, local) /\ local.pc \notin {"callback", "delete"}
  <2>0. ASSUME NEW local, Other(local) PROVE process'[y] = process[y]
    BY <2>0 DEF Step, TypeOK
  <2>1. ASSUME NEW run, NEW stage, NEW n,
               Step(c, At("signal", run, stage, n)) \/ Step(c, At("read_waiting", run, stage, n))
        PROVE  process'[y] = process[y]
    BY <2>0, <2>1 DEF At
  <2>2. CASE Step(c, Idle)
    BY <2>0, <2>2 DEF Idle
  <2> HIDE DEF Other
  <2> QED
    BY <1>c, <2>1, <2>2 DEF Calling, Commit, Repeat, Maintain, Signalling, Signal, End
<1>u. CASE UNCHANGED vars
  BY <1>u, <1>2 DEF vars
<1>j. ASSUME NEW run \in Runs, FinishJob(run) PROVE process'[y] = process[y]
  BY <1>j DEF FinishJob
<1> QED
  BY <1>2, <1>m, <1>i, <1>h, <1>c, <1>u, <1>j DEF Next
-----------------------------------------------------------------------------
(* What an execution may do in one step: stay, start, or move to a state   *)
(* whose condition holds.                                                  *)
Justified(run, state) ==
    /\ state = "AwaitExecution" /\ Environment = "production" => "approval" \in committed
    /\ state = "AwaitVerification" => "execution" \in committed
    /\ state \in {"Delivered", "ManualIntervention"} =>
           "verification" \in committed /\ delivered = (state = "Delivered")
    /\ state = "Blocked" => job[run] = "blocked"

(* Entering the first wait, failing and starting need no receipt.          *)
LEMMA FreeStates ==
    ASSUME NEW run, NEW state \in {"none", "Resolve", "Investigate", "Failed", Awaiting(FirstStage)}
    PROVE  Justified(run, state)
<1>1. CASE Environment = "production"
  <2>1. Awaiting(FirstStage) = "AwaitApproval"
    BY <1>1 DEF Awaiting, FirstStage
  <2> QED
    BY <2>1 DEF Justified
<1>2. CASE Environment # "production"
  <2>1. Awaiting(FirstStage) = "AwaitExecution"
    BY <1>2 DEF Awaiting, FirstStage
  <2> QED
    BY <1>2, <2>1 DEF Justified
<1> QED
  BY <1>1, <1>2

(* The choice after an investigation leads to a justified state.           *)
LEMMA OutcomeJustified ==
    ASSUME TypeOK, NEW run \in Runs, NEW ps, ReviewOutcome(run, job[run], ps)
    PROVE  \A r \in Runs : phase'[r] = phase[r] \/ Justified(r, phase'[r])
<1>1. CASE job[run] = "blocked"
  <2>1. phase' = [phase EXCEPT ![run] = "Blocked"]
    BY <1>1 DEF ReviewOutcome, Finish
  <2>2. Justified(run, "Blocked")
    BY <1>1 DEF Justified
  <2> QED
    BY <2>1, <2>2 DEF TypeOK
<1>2. CASE job[run] # "blocked"
  <2>1. phase' = [phase EXCEPT ![run] = Awaiting(FirstStage)]
    BY <1>2 DEF ReviewOutcome, Enter
  <2>2. Justified(run, Awaiting(FirstStage))
    BY FreeStates
  <2> QED
    BY <2>1, <2>2 DEF TypeOK
<1> QED
  BY <1>1, <1>2

(* Failing an execution is justified.                                      *)
LEMMA FailureJustified ==
    ASSUME TypeOK, NEW run, NEW ps, Finish(run, "Failed", ps)
    PROVE  \A r \in Runs : phase'[r] = phase[r] \/ Justified(r, phase'[r])
<1>1. phase' = [phase EXCEPT ![run] = "Failed"]
  BY DEF Finish
<1>2. \A r \in Runs : Justified(r, "Failed")
  BY FreeStates
<1> QED
  BY <1>1, <1>2 DEF TypeOK

(* A callback that is accepted leads to a justified state, for it is sent  *)
(* over the receipt of its stage.                                          *)
LEMMA AdvanceJustified ==
    ASSUME TypeOK, NEW run \in Runs, NEW stage \in Stages, stage \in committed,
           NEW ps, Advance(run, stage, ps)
    PROVE  \A r \in Runs : phase'[r] = phase[r] \/ Justified(r, phase'[r])
<1>1. CASE stage = "approval"
  <2>1. phase' = [phase EXCEPT ![run] = "AwaitExecution"]
    BY <1>1 DEF Advance, Enter, Awaiting
  <2>2. Justified(run, "AwaitExecution")
    BY <1>1 DEF Justified
  <2> QED
    BY <2>1, <2>2 DEF TypeOK
<1>2. CASE stage = "execution"
  <2>1. phase' = [phase EXCEPT ![run] = "AwaitVerification"]
    BY <1>2 DEF Advance, Enter, Awaiting
  <2>2. Justified(run, "AwaitVerification")
    BY <1>2 DEF Justified
  <2> QED
    BY <2>1, <2>2 DEF TypeOK
<1>3. CASE stage = "verification"
  <2> PICK end : end = IF delivered THEN "Delivered" ELSE "ManualIntervention"
    OBVIOUS
  <2>1. phase' = [phase EXCEPT ![run] = end]
    BY <1>3 DEF Advance, ReviewDelivery, Finish
  <2>2. Justified(run, end)
    <3>1. CASE delivered
      BY <1>3, <3>1 DEF Justified
    <3>2. CASE ~delivered
      BY <1>3, <3>2 DEF Justified, TypeOK
    <3> QED
      BY <3>1, <3>2
  <2> QED
    BY <2>1, <2>2 DEF TypeOK
<1> QED
  BY <1>1, <1>2, <1>3, WaitsArePhases

(* Every step of the system moves executions to justified states only.     *)
LEMMA PhaseStep ==
    ASSUME TypeOK, CallbacksHaveReceipts, [Next]_vars
    PROVE  \A r \in Runs : phase'[r] = phase[r] \/ Justified(r, phase'[r])
<1> DEFINE Goal == \A r \in Runs : phase'[r] = phase[r] \/ Justified(r, phase'[r])
<1>s. ASSUME phase' = phase PROVE Goal
  BY <1>s
<1>w. ASSUME NEW run \in Runs, NEW state \in {"Resolve", "Investigate", Awaiting(FirstStage)},
             phase' = [phase EXCEPT ![run] = state]
      PROVE  Goal
  BY <1>w, FreeStates DEF TypeOK
<1>u. CASE UNCHANGED vars
  BY <1>u, <1>s DEF vars
<1>m. ASSUME NEW run \in Runs, Machine(run) PROVE Goal
  <2>1. CASE Start(run)
    BY <2>1, <1>w DEF Start
  <2>2. CASE Resolve(run)
    <3>1. CASE phase' = [phase EXCEPT ![run] = "Investigate"]
      BY <3>1, <1>w
    <3>2. CASE ReviewOutcome(run, job[run], process)
      BY <3>2, OutcomeJustified
    <3>3. CASE Finish(run, "Failed", process)
      BY <3>3, FailureJustified
    <3> QED
      BY <2>2, <3>1, <3>2, <3>3 DEF Resolve
  <2>3. CASE TimeOut(run)
    BY <2>3, FailureJustified DEF TimeOut
  <2>4. ASSUME NEW stage \in Stages, RetryWait(run, stage) PROVE Goal
    <3>1. phase[run] = Awaiting(stage) /\ phase' = [phase EXCEPT ![run] = Awaiting(stage)]
      BY <2>4 DEF RetryWait, Enter
    <3>2. phase' = phase
      BY <3>1 DEF TypeOK
    <3> QED
      BY <3>2, <1>s
  <2> QED
    BY <1>m, <2>1, <2>2, <2>3, <2>4 DEF Machine
<1>j. ASSUME NEW run \in Runs, FinishJob(run) PROVE Goal
  BY <1>j, <1>s DEF FinishJob
<1>i. ASSUME NEW m \in messages, CompleteInvestigation(m) PROVE Goal
  <2>1. m[1] \in Runs
    BY DEF TypeOK, Handlers
  <2>2. \/ Finish(m[1], "Failed", process)
        \/ ReviewOutcome(m[1], job[m[1]], process)
        \/ phase' = phase
    BY <1>i DEF CompleteInvestigation
  <2> QED
    BY <2>1, <2>2, <1>s, FailureJustified, OutcomeJustified
<1>h. ASSUME NEW x \in Handlers \cup Calls, Handling(x) PROVE Goal
  <2> process \in [Handlers \cup Calls -> Local]
    BY DEF TypeOK
  <2>1. CASE Callback(x)
    <3> PICK local \in Local : local = process[x]
      OBVIOUS
    <3>1. local.run \in Runs /\ local.stage \in Stages /\ local.stage \in committed
      BY <2>1, RunningHasFields DEF Callback, CallbacksHaveReceipts
    <3> DEFINE done == [process EXCEPT ![x] = At("delete", local.run, local.stage, local.token)]
    <3>2. phase' = phase \/ Advance(local.run, local.stage, done)
      BY <2>1 DEF Callback
    <3> HIDE DEF done
    <3> QED
      BY <3>1, <3>2, <1>s, AdvanceJustified
  <2>2. CASE HandlerFails(x)
    <3> DEFINE over == [process EXCEPT ![x] = Idle]
    <3>1. phase' = phase \/ Finish(process[x].run, "Failed", over)
      BY <2>2 DEF HandlerFails
    <3> HIDE DEF over
    <3> QED
      BY <3>1, <1>s, FailureJustified
  <2>3. CASE ~Callback(x) /\ ~HandlerFails(x)
    BY <1>h, <2>3, <1>s DEF Handling, ReadPrevious, Register, ReadWaiting, ReadReceipt, DeleteWaiting
  <2> QED
    BY <2>1, <2>2, <2>3
<1>c. ASSUME NEW c \in Calls, Calling(c) PROVE Goal
  <2>1. CASE Signal(c)
    <3> PICK run : run = process[c].run
      OBVIOUS
    <3>1. run \in Runs
      BY <2>1, RunningHasFields DEF Signal, TypeOK
    <3>2. phase' = phase \/ phase' = [phase EXCEPT ![run] = "Resolve"]
      BY <2>1 DEF Signal
    <3> QED
      BY <3>1, <3>2, <1>s, <1>w
  <2>2. CASE ~Signal(c)
    BY <1>c, <2>2, <1>s DEF Calling, Commit, Repeat, Maintain, End
  <2> QED
    BY <2>1, <2>2
<1> QED
  BY <1>u, <1>m, <1>j, <1>i, <1>h, <1>c DEF Next

(* A justified state stays justified: receipts are never taken back.       *)
LEMMA JustifiedStays ==
    ASSUME TypeOK, [Next]_vars, NEW run \in Runs, NEW state, Justified(run, state)
    PROVE  Justified(run, state)'
BY BusinessStep DEF Justified

(* The invariant is inductive.                                             *)
LEMMA RelianceStep ==
    ASSUME Reliance, CallbacksAssumption, [Next]_vars
    PROVE  Reliance'
<1>1. TypeOK /\ TokensSuffice /\ CallbacksHaveReceipts /\ \A r \in Runs : Justified(r, phase[r])
  BY DEF Reliance, StagesFollowReceipts, Justified
<1>2. TypeOK' /\ TokensSuffice'
  BY <1>1, TypeStep
<1>3. CallbacksHaveReceipts'
  BY <1>1, CallbackStep
<1>4. ASSUME NEW r \in Runs PROVE Justified(r, phase[r])'
  <2> PICK state : state = phase'[r]
    OBVIOUS
  <2>0. phase'[r] = phase[r] \/ Justified(r, phase'[r])
    BY <1>1, PhaseStep
  <2>1. Justified(r, state)
    BY <1>1, <2>0
  <2>2. Justified(r, state)'
    BY <1>1, <2>1, JustifiedStays
  <2> QED
    BY <2>2
<1>5. StagesFollowReceipts'
  BY <1>4 DEF StagesFollowReceipts, Justified
<1> QED
  BY <1>2, <1>3, <1>5 DEF Reliance

(* It holds initially.                                                     *)
LEMMA RelianceInit ==
    ASSUME CallbacksAssumption, Init
    PROVE  Reliance
<1>1. TypeOK
  <2>1. Idle \in Local
    BY DEF Local
  <2>2. process \in [Handlers \cup Calls -> Local]
    BY <2>1 DEF Init, Handlers
  <2>3. DOMAIN waiting = {}
    BY DEF Init, NoItems
  <2>4. token \in [Runs -> 0 .. MaxTokens]
    BY DEF Init, CallbacksAssumption
  <2>5. phase \in [Runs -> Phases] /\ job \in [Runs -> JobStates]
    BY DEF Init, Phases, JobStates
  <2>6. messages = {} /\ committed \subseteq Stages /\ delivered \in BOOLEAN
    BY DEF Init, Stages
  <2> QED
    BY <2>2, <2>3, <2>4, <2>5, <2>6 DEF TypeOK
<1>2. CallbacksHaveReceipts
  BY DEF Init, CallbacksHaveReceipts, Idle, Handlers
<1>3. StagesFollowReceipts
  BY DEF Init, StagesFollowReceipts
<1>4. TokensSuffice
  BY WaitsAreDistinct DEF Init, TokensSuffice, Affords
<1> QED
  BY <1>1, <1>2, <1>3, <1>4 DEF Reliance

-----------------------------------------------------------------------------
(* Every variable keeps its type, and a callback is sent only over a saved *)
(* receipt (workflow.py: advance returns when there is none).              *)
THEOREM FlowTypes == Spec => []TypeOK
<1>1. Init => Reliance
  BY RelianceInit, CallbacksAssumption
<1>2. Reliance /\ [Next]_vars => Reliance'
  BY RelianceStep, CallbacksAssumption
<1>3. Reliance => TypeOK
  BY DEF Reliance
<1> QED
  BY <1>1, <1>2, <1>3, PTL DEF Spec

(* For any runs, tokens, racing callers and faults, an execution passes a  *)
(* wait only over the saved receipt, and ends as the verification receipt  *)
(* says (workflow.py: advance; aws/template.yml: ReviewDelivery).          *)
THEOREM StagesFollowSavedReceipts == Spec => []StagesFollowReceipts
<1>1. Init => Reliance
  BY RelianceInit, CallbacksAssumption
<1>2. Reliance /\ [Next]_vars => Reliance'
  BY RelianceStep, CallbacksAssumption
<1>3. Reliance => StagesFollowReceipts
  BY DEF Reliance
<1> QED
  BY <1>1, <1>2, <1>3, PTL DEF Spec

-----------------------------------------------------------------------------
(* The registration of waits, as long as none is tried again.              *)
(*                                                                         *)
(* The argument: an execution only moves forward, so it enters each wait   *)
(* at most once.  A handler that has not registered yet is therefore the   *)
(* only one that will ever register its run and stage, and a process that  *)
(* deletes a record does so for a token that was used.                     *)

(* How far an execution has come.                                          *)
Rank(p) ==
    CASE p = "none" -> 0
      [] p = "Resolve" -> 1
      [] p = "Investigate" -> 2
      [] p = "AwaitApproval" -> 3
      [] p = "AwaitExecution" -> 4
      [] p = "AwaitVerification" -> 5
      [] OTHER -> 6

Registering == {"read_previous", "register"}

(* A handler that still has to register is the one of the token it has,    *)
(* and the execution is in its wait exactly while that token is the latest.*)
IsCurrent(x) ==
    LET local == process[x]
    IN  /\ x = <<local.run, local.token>>
        /\ Rank(Awaiting(local.stage)) <= Rank(phase[local.run])
        /\ phase[local.run] \in Waits =>
               (phase[local.run] = Awaiting(local.stage) <=> local.token = token[local.run])

HandlersAreCurrent ==
    \A x \in Handlers \cup Calls : process[x].pc \in Registering => IsCurrent(x)

(* Nobody has a token that does not exist yet.                             *)
TokensExist ==
    /\ \A x \in Handlers \cup Calls :
           process[x].pc # "idle" => process[x].token <= token[process[x].run]
    /\ \A k \in DOMAIN waiting : waiting[k] <= token[k[1]]
    /\ \A r \in Runs : phase[r] \in Waits => token[r] > 0

(* A token whose record is about to be deleted is not awaited any more.    *)
DeletedWereUsed ==
    \A x \in Handlers \cup Calls : process[x].pc = "delete" => ~IsAwaited(process[x])

(* The inductive invariant.                                                *)
Registration ==
    TypeOK /\ TokensSuffice /\ HandlersAreCurrent /\ TokensExist /\ DeletedWereUsed /\ WaitsStayRegistered

(* What one step may do to an execution: keep its wait and its token, come *)
(* to a state that is no wait, or enter a later wait with a new token and  *)
(* a handler for it.                                                       *)
Kept(r) == phase'[r] = phase[r] /\ token'[r] = token[r]

Left(r) ==
    /\ phase'[r] \notin Waits
    /\ token[r] <= token'[r]
    /\ Rank(phase[r]) <= Rank(phase'[r])

Entered(r) ==
    \E stage \in Stages :
        /\ phase'[r] = Awaiting(stage)
        /\ Rank(phase[r]) < Rank(phase'[r])
        /\ token'[r] = token[r] + 1
        /\ process'[<<r, token[r] + 1>>] = At("read_previous", r, stage, token[r] + 1)

Moves == \A r \in Runs : Kept(r) \/ Left(r) \/ Entered(r)

(* What one step may do to an invocation: nothing, end it, or send it on,  *)
(* with a token that exists; invoke it for a wait that is entered; let it  *)
(* go on to register, or from its callback to the deletion.                *)
SameWait(before, after) ==
    after.run = before.run /\ after.stage = before.stage /\ after.token = before.token

Opened(y, after) ==
    \E run \in Runs, stage \in Stages :
        /\ y = <<run, token[run] + 1>>
        /\ after = At("read_previous", run, stage, token[run] + 1)
        /\ phase'[run] = Awaiting(stage)
        /\ token'[run] = token[run] + 1

Searching(after) ==
    /\ after.pc \in {"signal", "read_waiting", "read_receipt", "callback"}
    /\ after.run \in Runs
    /\ after.token <= token[after.run]

Used(before, after) ==
    /\ before.pc = "callback" /\ after.pc = "delete"
    /\ SameWait(before, after)
    /\ ~(phase'[after.run] = Awaiting(after.stage) /\ token'[after.run] = after.token)

Goes(y, before, after) ==
    \/ after = before
    \/ after = Idle /\ (before.pc \in Registering => HandlerFails(y) \/ y \in Calls)
    \/ Searching(after) /\ (before.pc \in Registering => Register(y))
    \/ Opened(y, after)
    \/ before.pc = "read_previous" /\ after.pc = "register" /\ SameWait(before, after)
    \/ Used(before, after)

-----------------------------------------------------------------------------
(* The waits follow each other.                                            *)
LEMMA Ranks ==
    /\ \A p \in Phases : Rank(p) \in 0 .. 6
    /\ \A stage \in Stages : Rank(Awaiting(stage)) \in 3 .. 5
    /\ \A p \in Phases : p \notin Waits => Rank(p) \in {0, 1, 2, 6}
    /\ \A p \in Ends : p \notin Waits /\ Rank(p) = 6
    /\ \A s, t \in Stages : Rank(Awaiting(s)) = Rank(Awaiting(t)) => s = t
BY DEF Rank, Phases, Waits, Ends, Awaiting, Stages

(* An execution that keeps its phase and its token moves nothing.          *)
LEMMA StayMoves ==
    ASSUME phase' = phase, token' = token
    PROVE  Moves
BY DEF Moves, Kept

(* Ending an execution is such a move.                                     *)
LEMMA FinishMoves ==
    ASSUME TypeOK, CallbacksAssumption, NEW run \in Runs, NEW end \in Ends, NEW ps,
           Finish(run, end, ps)
    PROVE  Moves
<1>1. phase' = [phase EXCEPT ![run] = end] /\ token' = token
  BY DEF Finish
<1>2. Left(run)
  <2>1. phase[run] \in Phases /\ token[run] \in Nat
    BY DEF TypeOK, CallbacksAssumption
  <2>2. phase'[run] = end
    BY <1>1 DEF TypeOK
  <2> QED
    BY <1>1, <2>1, <2>2, Ranks DEF Left
<1>3. \A r \in Runs \ {run} : Kept(r)
  BY <1>1 DEF Kept, TypeOK
<1> QED
  BY <1>2, <1>3 DEF Moves

(* So is entering a later wait.                                            *)
LEMMA EnterMoves ==
    ASSUME TypeOK, CallbacksAssumption, NEW run \in Runs, NEW stage \in Stages,
           token[run] < MaxTokens, Rank(phase[run]) < Rank(Awaiting(stage)),
           NEW ps \in [Handlers \cup Calls -> Local], Enter(run, stage, ps)
    PROVE  Moves
<1>1. /\ phase' = [phase EXCEPT ![run] = Awaiting(stage)]
      /\ token' = [token EXCEPT ![run] = token[run] + 1]
  BY DEF Enter
<1>2. Entered(run)
  <2> PICK n : n = token[run] + 1
    OBVIOUS
  <2> PICK x : x = <<run, n>>
    OBVIOUS
  <2>1. x \in Handlers
    BY DEF TypeOK, CallbacksAssumption, Handlers
  <2>2. process' = [ps EXCEPT ![x] = At("read_previous", run, stage, n)]
    BY DEF Enter
  <2>3. process'[x] = At("read_previous", run, stage, n)
    BY <2>1, <2>2
  <2>4. phase'[run] = Awaiting(stage) /\ token'[run] = n
    BY <1>1 DEF TypeOK
  <2> QED
    BY <2>3, <2>4 DEF Entered
<1>3. \A r \in Runs \ {run} : Kept(r)
  BY <1>1 DEF Kept, TypeOK
<1> QED
  BY <1>2, <1>3 DEF Moves

(* The choice after an investigation leads to the first wait or the end.   *)
LEMMA OutcomeMoves ==
    ASSUME TypeOK, CallbacksAssumption, NEW run \in Runs, NEW outcome,
           outcome # "blocked" => token[run] < MaxTokens, Rank(phase[run]) < 3,
           NEW ps \in [Handlers \cup Calls -> Local], ReviewOutcome(run, outcome, ps)
    PROVE  Moves
<1>1. CASE outcome = "blocked"
  <2>1. Finish(run, "Blocked", ps)
    BY <1>1 DEF ReviewOutcome
  <2> QED
    BY <2>1, FinishMoves DEF Ends
<1>2. CASE outcome # "blocked"
  <2>1. Enter(run, FirstStage, ps) /\ token[run] < MaxTokens
    BY <1>2 DEF ReviewOutcome
  <2>2. Rank(phase[run]) \in 0 .. 6 /\ Rank(Awaiting(FirstStage)) \in 3 .. 5
    BY Ranks, FirstIsStage DEF TypeOK
  <2>3. Rank(phase[run]) < Rank(Awaiting(FirstStage))
    BY <2>2
  <2> QED
    BY <2>1, <2>3, EnterMoves, FirstIsStage
<1> QED
  BY <1>1, <1>2

(* An accepted callback leads to the next wait or to the end.              *)
LEMMA AdvanceMoves ==
    ASSUME TypeOK, CallbacksAssumption, NEW run \in Runs, NEW stage \in Stages,
           stage # "verification" => token[run] < MaxTokens, phase[run] = Awaiting(stage),
           NEW ps \in [Handlers \cup Calls -> Local], Advance(run, stage, ps)
    PROVE  Moves
<1>1. CASE stage = "approval"
  <2>1. Enter(run, "execution", ps)
    BY <1>1 DEF Advance
  <2>2. Rank(Awaiting("approval")) < Rank(Awaiting("execution"))
    BY DEF Rank, Awaiting
  <2> QED
    BY <2>1, <2>2, <1>1, EnterMoves DEF Stages
<1>2. CASE stage = "execution"
  <2>1. Enter(run, "verification", ps)
    BY <1>2 DEF Advance
  <2>2. Rank(Awaiting("execution")) < Rank(Awaiting("verification"))
    BY DEF Rank, Awaiting
  <2> QED
    BY <2>1, <2>2, <1>2, EnterMoves DEF Stages
<1>3. CASE stage = "verification"
  <2>1. ReviewDelivery(run, ps)
    BY <1>3 DEF Advance
  <2>2. CASE delivered
    BY <2>1, <2>2, FinishMoves DEF ReviewDelivery, Ends
  <2>3. CASE ~delivered
    BY <2>1, <2>3, FinishMoves DEF ReviewDelivery, Ends
  <2> QED
    BY <2>2, <2>3
<1> QED
  BY <1>1, <1>2, <1>3, WaitsArePhases

(* Starting an execution is a move to a state that is no wait.             *)
LEMMA StartMoves ==
    ASSUME TypeOK, CallbacksAssumption, NEW run \in Runs, phase[run] = "none",
           phase' = [phase EXCEPT ![run] = "Resolve"], token' = token
    PROVE  Moves
<1>1. Left(run)
  <2>1. "Resolve" \notin Waits /\ Rank("none") = 0 /\ Rank("Resolve") = 1
    BY DEF Waits, Awaiting, Stages, Rank
  <2>2. phase'[run] = "Resolve" /\ token[run] \in Nat
    BY DEF TypeOK, CallbacksAssumption
  <2> QED
    BY <2>1, <2>2 DEF Left
<1>2. \A r \in Runs \ {run} : Kept(r)
  BY DEF Kept, TypeOK
<1> QED
  BY <1>1, <1>2 DEF Moves

(* An execution that has a wait before it has a token for it.              *)
LEMMA TokenRemains ==
    ASSUME TypeOK, TokensSuffice, CallbacksAssumption, NEW run \in Runs
    PROVE  /\ phase[run] \in {"Resolve", "Investigate"} => token[run] < MaxTokens
           /\ \A stage \in Stages :
                  phase[run] = Awaiting(stage) /\ stage # "verification" =>
                      token[run] < MaxTokens
<1>1. token[run] \in Nat /\ MaxTokens \in Nat /\ MaxTokens > 2
  BY DEF TypeOK, CallbacksAssumption
<1>2. phase[run] \in {"Resolve", "Investigate"} => token[run] < MaxTokens
  BY <1>1 DEF TokensSuffice, Affords
<1>3. ASSUME NEW stage \in Stages, phase[run] = Awaiting(stage), stage # "verification"
      PROVE  token[run] < MaxTokens
  <2>1. TokensAhead(stage) \in {1, 2}
    BY <1>3, AheadOf, WaitsArePhases
  <2>2. token[run] + TokensAhead(stage) <= MaxTokens
    BY <1>3 DEF TokensSuffice, Affords
  <2> QED
    BY <1>1, <2>1, <2>2
<1> QED
  BY <1>2, <1>3

(* Every step of the system moves executions in these three ways only,     *)
(* when no wait is tried again.                                            *)
LEMMA FlowMoves ==
    ASSUME TypeOK, TokensSuffice, CallbacksAssumption, "retry" \notin Faults, [Next]_vars
    PROVE  Moves
<1> process \in [Handlers \cup Calls -> Local]
  BY DEF TypeOK
<1>u. CASE UNCHANGED vars
  BY <1>u, StayMoves DEF vars
<1>m. ASSUME NEW run \in Runs, Machine(run) PROVE Moves
  <2>1. CASE Start(run)
    BY <2>1, StartMoves DEF Start
  <2>2. CASE Resolve(run)
    <3>0. /\ phase[run] = "Resolve" /\ token[run] < MaxTokens
          /\ Rank("Resolve") = 1 /\ Rank("Investigate") = 2
      BY <2>2, TokenRemains DEF Resolve, Rank
    <3>1. CASE /\ phase' = [phase EXCEPT ![run] = "Investigate"]
               /\ token' = [token EXCEPT ![run] = token[run] + 1]
      <4>1. Left(run)
        <5>1. "Investigate" \notin Waits
          BY DEF Waits, Awaiting, Stages
        <5>2. phase'[run] = "Investigate" /\ token[run] \in Nat /\ token'[run] = token[run] + 1
          BY <3>1 DEF TypeOK, CallbacksAssumption
        <5> QED
          BY <3>0, <5>1, <5>2 DEF Left
      <4>2. \A r \in Runs \ {run} : Kept(r)
        BY <3>1 DEF Kept, TypeOK
      <4> QED
        BY <4>1, <4>2 DEF Moves
    <3>2. CASE ReviewOutcome(run, job[run], process)
      BY <3>0, <3>2, OutcomeMoves
    <3>3. CASE Finish(run, "Failed", process)
      BY <3>3, FinishMoves DEF Ends
    <3> QED
      BY <2>2, <3>1, <3>2, <3>3 DEF Resolve
  <2>3. CASE TimeOut(run)
    BY <2>3, FinishMoves DEF TimeOut, Ends
  <2> QED
    BY <1>m, <2>1, <2>2, <2>3 DEF Machine, RetryWait
<1>j. ASSUME NEW run \in Runs, FinishJob(run) PROVE Moves
  BY <1>j, StayMoves DEF FinishJob
<1>i. ASSUME NEW m \in messages, CompleteInvestigation(m) PROVE Moves
  <2>1. m[1] \in Runs
    BY DEF TypeOK, Handlers
  <2>2. CASE phase[m[1]] = "Investigate" /\ token[m[1]] = m[2]
    <3>0. Rank(phase[m[1]]) < 3
      BY <2>2 DEF Rank
    <3>1. CASE Finish(m[1], "Failed", process)
      BY <2>1, <3>1, FinishMoves DEF Ends
    <3>2. CASE ReviewOutcome(m[1], job[m[1]], process)
      BY <2>1, <2>2, <3>0, <3>2, TokenRemains, OutcomeMoves
    <3> QED
      BY <1>i, <2>2, <3>1, <3>2 DEF CompleteInvestigation
  <2>3. CASE ~(phase[m[1]] = "Investigate" /\ token[m[1]] = m[2])
    BY <1>i, <2>3, StayMoves DEF CompleteInvestigation
  <2> QED
    BY <2>2, <2>3
<1>h. ASSUME NEW x \in Handlers \cup Calls, Handling(x) PROVE Moves
  <2>1. CASE Callback(x)
    <3> PICK local \in Local : local = process[x]
      OBVIOUS
    <3>1. local.run \in Runs /\ local.stage \in Stages /\ local.token \in 0 .. MaxTokens
      BY <2>1, RunningHasFields DEF Callback
    <3> DEFINE done == [process EXCEPT ![x] = At("delete", local.run, local.stage, local.token)]
    <3>2. done \in [Handlers \cup Calls -> Local]
      BY <3>1, AtIsLocal
    <3>3. CASE phase[local.run] = Awaiting(local.stage) /\ Advance(local.run, local.stage, done)
      <4>1. local.stage # "verification" => token[local.run] < MaxTokens
        BY <3>1, <3>3, TokenRemains
      <4> HIDE DEF done
      <4> QED
        BY <3>1, <3>2, <3>3, <4>1, AdvanceMoves
    <3> QED
      BY <2>1, <3>3, StayMoves DEF Callback, IsAwaited
  <2>2. CASE HandlerFails(x)
    <3> PICK local \in Local : local = process[x]
      OBVIOUS
    <3>1. local.run \in Runs
      BY <2>2, RunningHasFields DEF HandlerFails
    <3> DEFINE over == [process EXCEPT ![x] = Idle]
    <3>2. (phase' = phase /\ token' = token) \/ Finish(local.run, "Failed", over)
      BY <2>2 DEF HandlerFails
    <3> HIDE DEF over
    <3> QED
      BY <3>1, <3>2, StayMoves, FinishMoves DEF Ends
  <2>3. CASE ~Callback(x) /\ ~HandlerFails(x)
    BY <1>h, <2>3, StayMoves
       DEF Handling, ReadPrevious, Register, ReadWaiting, ReadReceipt, DeleteWaiting
  <2> QED
    BY <2>1, <2>2, <2>3
<1>c. ASSUME NEW c \in Calls, Calling(c) PROVE Moves
  <2>1. CASE Signal(c)
    <3> PICK run : run = process[c].run
      OBVIOUS
    <3>1. run \in Runs
      BY <2>1, RunningHasFields DEF Signal
    <3>2. CASE phase[run] = "none"
      BY <2>1, <3>1, <3>2, StartMoves DEF Signal
    <3>3. CASE phase[run] # "none"
      BY <2>1, <3>3, StayMoves DEF Signal
    <3> QED
      BY <3>2, <3>3
  <2>2. CASE ~Signal(c)
    BY <1>c, <2>2, StayMoves DEF Calling, Commit, Repeat, Maintain, End
  <2> QED
    BY <2>1, <2>2
<1> QED
  BY <1>u, <1>m, <1>j, <1>i, <1>h, <1>c DEF Next

-----------------------------------------------------------------------------
(* A step of x leaves the other invocations alone.                         *)
LEMMA StepProcess ==
    ASSUME process \in [Handlers \cup Calls -> Local], NEW x, NEW local, Step(x, local)
    PROVE  \A y \in Handlers \cup Calls : process'[y] = IF y = x THEN local ELSE process[y]
BY DEF Step

(* Entering a wait invokes one handler and leaves the other processes.     *)
LEMMA EnterProcess ==
    ASSUME TypeOK, NEW run \in Runs, NEW stage \in Stages,
           NEW ps \in [Handlers \cup Calls -> Local], Enter(run, stage, ps)
    PROVE  \A y \in Handlers \cup Calls : process'[y] = ps[y] \/ Opened(y, process'[y])
<1> PICK n : n = token[run] + 1
  OBVIOUS
<1> PICK x : x = <<run, n>>
  OBVIOUS
<1> PICK new : new = At("read_previous", run, stage, n)
  OBVIOUS
<1>1. process' = [ps EXCEPT ![x] = new]
  BY DEF Enter
<1>2. phase'[run] = Awaiting(stage) /\ token'[run] = n
  BY DEF Enter, TypeOK
<1>3. Opened(x, new)
  BY <1>2 DEF Opened
<1>4. \A y \in Handlers \cup Calls : process'[y] = IF y = x THEN new ELSE ps[y]
  BY <1>1
<1> QED
  BY <1>3, <1>4

(* So does the choice after an investigation, and an accepted callback.    *)
LEMMA OutcomeProcess ==
    ASSUME TypeOK, NEW run \in Runs, NEW outcome,
           NEW ps \in [Handlers \cup Calls -> Local], ReviewOutcome(run, outcome, ps)
    PROVE  \A y \in Handlers \cup Calls : process'[y] = ps[y] \/ Opened(y, process'[y])
<1>1. CASE outcome = "blocked"
  BY <1>1 DEF ReviewOutcome, Finish
<1>2. CASE outcome # "blocked"
  <2>1. Enter(run, FirstStage, ps)
    BY <1>2 DEF ReviewOutcome
  <2> QED
    BY <2>1, EnterProcess, FirstIsStage
<1> QED
  BY <1>1, <1>2

(* Advancing opens at most the handler of the next wait, and the execution *)
(* leaves the wait of this stage.                                          *)
LEMMA AdvanceProcess ==
    ASSUME TypeOK, NEW run \in Runs, NEW stage \in Stages,
           NEW ps \in [Handlers \cup Calls -> Local], Advance(run, stage, ps)
    PROVE  /\ \A y \in Handlers \cup Calls : process'[y] = ps[y] \/ Opened(y, process'[y])
           /\ phase'[run] # Awaiting(stage)
<1>1. CASE stage = "approval"
  <2>1. Enter(run, "execution", ps) /\ "execution" \in Stages
    BY <1>1 DEF Advance, Stages
  <2>2. phase'[run] = Awaiting("execution")
    BY <2>1 DEF Enter, TypeOK
  <2>3. Awaiting("execution") # Awaiting("approval")
    BY DEF Awaiting
  <2> QED
    BY <1>1, <2>1, <2>2, <2>3, EnterProcess
<1>2. CASE stage = "execution"
  <2>1. Enter(run, "verification", ps) /\ "verification" \in Stages
    BY <1>2 DEF Advance, Stages
  <2>2. phase'[run] = Awaiting("verification")
    BY <2>1 DEF Enter, TypeOK
  <2>3. Awaiting("execution") # Awaiting("verification")
    BY DEF Awaiting
  <2> QED
    BY <1>2, <2>1, <2>2, <2>3, EnterProcess
<1>3. CASE stage = "verification"
  <2>1. process' = ps /\ phase'[run] \in {"Delivered", "ManualIntervention"}
    BY <1>3 DEF Advance, ReviewDelivery, Finish, TypeOK
  <2>2. Awaiting("verification") = "AwaitVerification"
    BY DEF Awaiting
  <2> QED
    BY <1>3, <2>1, <2>2
<1> QED
  BY <1>1, <1>2, <1>3, WaitsArePhases

(* What an invocation may do in one step of the system.                    *)
LEMMA ProcessGoes ==
    ASSUME TypeOK, TokensExist, CallbacksAssumption, "retry" \notin Faults, [Next]_vars,
           NEW y \in Handlers \cup Calls
    PROVE  Goes(y, process[y], process'[y])
<1> DEFINE Goal == Goes(y, process[y], process'[y])
<1> process \in [Handlers \cup Calls -> Local]
  BY DEF TypeOK
<1>s. ASSUME process'[y] = process[y] \/ Opened(y, process'[y]) PROVE Goal
  BY <1>s DEF Goes
<1>e. ASSUME process'[y] = Idle, process[y].pc \in Registering => HandlerFails(y) \/ y \in Calls
      PROVE  Goal
  BY <1>e DEF Goes
<1>t. ASSUME Searching(process'[y]), process[y].pc \in Registering => Register(y) PROVE Goal
  BY <1>t DEF Goes
<1>a. ASSUME NEW pc \in {"signal", "read_waiting", "read_receipt", "callback"},
             NEW run \in Runs, NEW stage, NEW n \in 0 .. token[run]
      PROVE  Searching(At(pc, run, stage, n))
  <2>1. token[run] \in Nat
    BY DEF TypeOK, CallbacksAssumption
  <2> QED
    BY <2>1 DEF Searching, At
<1>u. CASE UNCHANGED vars
  BY <1>u, <1>s DEF vars
<1>m. ASSUME NEW run \in Runs, Machine(run) PROVE Goal
  <2>1. CASE Resolve(run)
    <3>1. process' = process \/ ReviewOutcome(run, job[run], process)
      BY <2>1 DEF Resolve, Finish
    <3> QED
      BY <3>1, <1>s, OutcomeProcess
  <2>2. CASE ~Resolve(run)
    BY <1>m, <1>s, <2>2 DEF Machine, Start, TimeOut, RetryWait, Finish
  <2> QED
    BY <2>1, <2>2
<1>j. ASSUME NEW run \in Runs, FinishJob(run) PROVE Goal
  BY <1>j, <1>s DEF FinishJob
<1>i. ASSUME NEW m \in messages, CompleteInvestigation(m) PROVE Goal
  <2>1. m[1] \in Runs
    BY DEF TypeOK, Handlers
  <2>2. process' = process \/ ReviewOutcome(m[1], job[m[1]], process)
    BY <1>i DEF CompleteInvestigation, Finish
  <2> QED
    BY <2>1, <2>2, <1>s, OutcomeProcess
<1>h. ASSUME NEW x \in Handlers \cup Calls, Handling(x) PROVE Goal
  <2> PICK local \in Local : local = process[x]
    OBVIOUS
  <2>0. process[x].pc # "idle"
    BY <1>h DEF Handling, ReadPrevious, Register, HandlerFails, ReadWaiting, ReadReceipt,
                Callback, DeleteWaiting
  <2>f. /\ local.run \in Runs /\ local.stage \in Stages
        /\ local.token \in 0 .. token[local.run]
    <3>1. local.run \in Runs /\ local.stage \in Stages /\ local.token \in 0 .. MaxTokens
      BY <2>0, RunningHasFields
    <3>2. local.token <= token[local.run] /\ token[local.run] \in Nat
      BY <2>0, <3>1 DEF TokensExist, TypeOK, CallbacksAssumption
    <3> QED
      BY <3>1, <3>2 DEF CallbacksAssumption
  <2>1. CASE ReadPrevious(x)
    <3> PICK saved : saved = Saved(<<local.run, local.stage>>)
      OBVIOUS
    <3> PICK next : next = [pc |-> "register", run |-> local.run, stage |-> local.stage,
                            token |-> local.token, previous |-> saved]
      OBVIOUS
    <3>1. Step(x, next) /\ local.pc = "read_previous"
      BY <2>1 DEF ReadPrevious
    <3>2. SameWait(local, next) /\ next.pc = "register"
      BY DEF SameWait
    <3>3. process'[y] = IF y = x THEN next ELSE process[y]
      BY <3>1, StepProcess
    <3> QED
      BY <3>1, <3>2, <3>3 DEF Goes
  <2>2. CASE Register(x)
    <3> PICK next : next = At("read_waiting", local.run, local.stage, local.token)
      OBVIOUS
    <3>1. process'[y] = IF y = x THEN next ELSE process[y]
      BY <2>2, StepProcess DEF Register
    <3>2. Searching(next)
      BY <2>f, <1>a
    <3> QED
      BY <2>2, <3>1, <3>2, <1>s, <1>t
  <2>3. CASE HandlerFails(x)
    <3>1. process' = [process EXCEPT ![x] = Idle]
      BY <2>3 DEF HandlerFails, Finish, Step
    <3> QED
      BY <2>3, <3>1, <1>s, <1>e
  <2>4. CASE ReadWaiting(x)
    <3>0. process[x].pc \notin Registering
      BY <2>4 DEF ReadWaiting, Registering
    <3> PICK k : k = <<local.run, local.stage>>
      OBVIOUS
    <3>1. CASE k \in DOMAIN waiting
      <4> PICK next : next = At("read_receipt", local.run, local.stage, waiting[k])
        OBVIOUS
      <4>1. waiting[k] \in 0 .. token[local.run]
        <5>1. waiting[k] \in Nat /\ waiting[k] <= token[k[1]] /\ k[1] = local.run
          BY <3>1 DEF TypeOK, TokensExist, CallbacksAssumption
        <5>2. token[local.run] \in Nat
          BY <2>f DEF TypeOK, CallbacksAssumption
        <5> QED
          BY <5>1, <5>2
      <4>2. Searching(next)
        BY <2>f, <4>1, <1>a
      <4>3. process'[y] = IF y = x THEN next ELSE process[y]
        BY <2>4, <3>1, StepProcess DEF ReadWaiting
      <4> QED
        BY <3>0, <4>2, <4>3, <1>s, <1>t
    <3>2. CASE k \notin DOMAIN waiting
      <4>1. process'[y] = IF y = x THEN Idle ELSE process[y]
        BY <2>4, <3>2, StepProcess DEF ReadWaiting
      <4> QED
        BY <3>0, <4>1, <1>s, <1>e
    <3> QED
      BY <3>1, <3>2
  <2>5. CASE ReadReceipt(x)
    <3> PICK next : next = At("callback", local.run, local.stage, local.token)
      OBVIOUS
    <3>1. Searching(next)
      BY <2>f, <1>a
    <3>2. process'[y] = process[y] \/ (y = x /\ process'[y] \in {Idle, next})
      BY <2>5, StepProcess DEF ReadReceipt
    <3>3. process[x].pc \notin Registering
      BY <2>5 DEF ReadReceipt, Registering
    <3> QED
      BY <3>1, <3>2, <3>3, <1>s, <1>e, <1>t
  <2>6. CASE Callback(x)
    <3> PICK next : next = At("delete", local.run, local.stage, local.token)
      OBVIOUS
    <3>0. next \in Local
      BY <2>f, AtIsLocal DEF TypeOK, CallbacksAssumption
    <3> PICK done \in [Handlers \cup Calls -> Local] : done = [process EXCEPT ![x] = next]
      BY <3>0
    <3>1. local.pc = "callback" /\ next.pc = "delete" /\ SameWait(local, next)
      BY <2>6 DEF Callback, At, SameWait
    <3>2. CASE IsAwaited(local)
      <4>1. Advance(local.run, local.stage, done)
        BY <2>6, <3>2 DEF Callback
      <4>2. /\ process'[y] = done[y] \/ Opened(y, process'[y])
            /\ phase'[local.run] # Awaiting(local.stage)
        BY <4>1, <2>f, AdvanceProcess
      <4>3. Used(local, next)
        BY <3>1, <4>2 DEF Used, SameWait
      <4> QED
        BY <4>2, <4>3, <1>s DEF Goes
    <3>3. CASE ~IsAwaited(local)
      <4>1. process' = done /\ phase' = phase /\ token' = token
        BY <2>6, <3>3 DEF Callback
      <4>2. Used(local, next)
        BY <3>1, <3>3, <4>1 DEF Used, SameWait, IsAwaited
      <4> QED
        BY <4>1, <4>2, <1>s DEF Goes
    <3> QED
      BY <3>2, <3>3
  <2>7. CASE DeleteWaiting(x)
    <3>1. process'[y] = IF y = x THEN Idle ELSE process[y]
      BY <2>7, StepProcess DEF DeleteWaiting
    <3>2. process[x].pc \notin Registering
      BY <2>7 DEF DeleteWaiting, Registering
    <3> QED
      BY <3>1, <3>2, <1>s, <1>e
  <2> QED
    BY <1>h, <2>1, <2>2, <2>3, <2>4, <2>5, <2>6, <2>7 DEF Handling
<1>c. ASSUME NEW c \in Calls, Calling(c) PROVE Goal
  <2>0. ASSUME NEW pc \in {"signal", "read_waiting"}, NEW run \in Runs, NEW stage,
               Step(c, At(pc, run, stage, 0)), process[c].pc \notin Registering
        PROVE  Goal
    <3> PICK next : next = At(pc, run, stage, 0)
      OBVIOUS
    <3>1. 0 \in 0 .. token[run]
      BY DEF TypeOK, CallbacksAssumption
    <3>2. Searching(next)
      BY <3>1, <1>a
    <3>3. process'[y] = IF y = c THEN next ELSE process[y]
      BY <2>0, StepProcess
    <3> QED
      BY <2>0, <3>2, <3>3, <1>s, <1>t
  <2>1. ASSUME NEW run \in Runs, NEW stage \in Stages,
               Commit(c, run, stage) \/ Repeat(c, run, stage) \/ Maintain(c, run, stage)
        PROVE  Goal
    <3>1. process[c].pc \notin Registering
      BY <2>1 DEF Commit, Repeat, Maintain, Idle, Registering
    <3> QED
      BY <2>0, <2>1, <3>1 DEF Commit, Repeat, Maintain, Signalling
  <2>2. CASE Signal(c)
    <3> PICK local \in Local : local = process[c]
      OBVIOUS
    <3>1. local.run \in Runs /\ Step(c, At("read_waiting", local.run, local.stage, 0))
      BY <2>2, RunningHasFields DEF Signal
    <3>2. process[c].pc \notin Registering
      BY <2>2 DEF Signal, Registering
    <3> QED
      BY <3>1, <3>2, <2>0
  <2>3. CASE End(c)
    <3>1. process'[y] = IF y = c THEN Idle ELSE process[y]
      BY <2>3, StepProcess DEF End
    <3> QED
      BY <2>3, <3>1, <1>s, <1>e
  <2> QED
    BY <1>c, <2>1, <2>2, <2>3 DEF Calling
<1> QED
  BY <1>u, <1>m, <1>j, <1>i, <1>h, <1>c DEF Next

-----------------------------------------------------------------------------
(* A FLOW record changes only when an invocation registers its token, or   *)
(* deletes the token that it finds there.                                  *)
Registers(x, k) ==
    /\ process[x].pc = "register"
    /\ k = <<process[x].run, process[x].stage>>
    /\ Saved(k)' = {process[x].token}

Deletes(x, k) ==
    /\ process[x].pc = "delete"
    /\ k = <<process[x].run, process[x].stage>>
    /\ Saved(k) = {process[x].token}
    /\ Saved(k)' = {}

(* A saved wait changes only when an invocation registers one in its place *)
(* or deletes it.                                                          *)
LEMMA WaitingGoes ==
    ASSUME TypeOK, [Next]_vars, NEW k
    PROVE  \/ Saved(k)' = Saved(k)
           \/ \E x \in Handlers \cup Calls : Registers(x, k) \/ Deletes(x, k)
<1> DEFINE Goal == \/ Saved(k)' = Saved(k)
                   \/ \E x \in Handlers \cup Calls : Registers(x, k) \/ Deletes(x, k)
<1>s. ASSUME waiting' = waiting PROVE Goal
  BY <1>s DEF Saved
<1>u. CASE UNCHANGED vars
  BY <1>u, <1>s DEF vars
<1>m. ASSUME NEW run \in Runs, Machine(run) PROVE Goal
  BY <1>m, <1>s DEF Machine, Start, Resolve, TimeOut, RetryWait
<1>j. ASSUME NEW run \in Runs, FinishJob(run) PROVE Goal
  BY <1>j, <1>s DEF FinishJob
<1>i. ASSUME NEW m \in messages, CompleteInvestigation(m) PROVE Goal
  BY <1>i, <1>s DEF CompleteInvestigation
<1>h. ASSUME NEW x \in Handlers \cup Calls, Handling(x) PROVE Goal
  <2> PICK local : local = process[x]
    OBVIOUS
  <2> PICK mine : mine = <<local.run, local.stage>>
    OBVIOUS
  <2>1. CASE Register(x)
    <3>1. local.pc = "register" /\ waiting' = Put(waiting, mine, local.token)
      BY <2>1 DEF Register
    <3>2. CASE k = mine
      <4>1. Saved(k)' = {local.token}
        BY <3>1, <3>2 DEF Put, Saved
      <4> QED
        BY <3>1, <3>2, <4>1 DEF Registers
    <3>3. CASE k # mine
      BY <3>1, <3>3 DEF Put, Saved
    <3> QED
      BY <3>2, <3>3
  <2>2. CASE DeleteWaiting(x)
    <3>1. /\ local.pc = "delete" /\ Saved(mine) = {local.token}
          /\ waiting' = Delete(waiting, {mine})
      BY <2>2 DEF DeleteWaiting, HoldsToken
    <3>2. CASE k = mine
      <4>1. Saved(k)' = {}
        BY <3>1, <3>2 DEF Delete, Saved
      <4> QED
        BY <3>1, <3>2, <4>1 DEF Deletes
    <3>3. CASE k # mine
      BY <3>1, <3>3 DEF Delete, Saved
    <3> QED
      BY <3>2, <3>3
  <2>3. CASE ~Register(x) /\ ~DeleteWaiting(x)
    BY <1>h, <1>s, <2>3 DEF Handling, ReadPrevious, HandlerFails, ReadWaiting, ReadReceipt, Callback
  <2> QED
    BY <2>1, <2>2, <2>3
<1>c. ASSUME NEW c \in Calls, Calling(c) PROVE Goal
  BY <1>c, <1>s DEF Calling, Commit, Repeat, Maintain, Signal, End
<1> QED
  BY <1>u, <1>m, <1>j, <1>i, <1>h, <1>c DEF Next

-----------------------------------------------------------------------------
(* Tokens only grow, and a wait that is still held has kept its token.     *)
LEMMA TokensGrow ==
    ASSUME TypeOK, TypeOK', CallbacksAssumption, Moves, NEW r \in Runs
    PROVE  /\ token[r] \in Nat /\ token'[r] \in Nat
           /\ token[r] <= token'[r]
           /\ Rank(phase[r]) <= Rank(phase'[r])
           /\ phase'[r] \in Waits => Kept(r) \/ Entered(r)
<1>1. token[r] \in Nat /\ token'[r] \in Nat /\ Rank(phase[r]) \in 0 .. 6
  BY Ranks DEF TypeOK, CallbacksAssumption
<1>2. CASE Kept(r)
  BY <1>1, <1>2 DEF Kept
<1>3. CASE Entered(r)
  <2>1. PICK stage \in Stages :
            /\ phase'[r] = Awaiting(stage)
            /\ Rank(phase[r]) < Rank(phase'[r])
            /\ token'[r] = token[r] + 1
    BY <1>3 DEF Entered
  <2>2. Rank(phase'[r]) \in 3 .. 5
    BY <2>1, Ranks
  <2> QED
    BY <1>1, <1>3, <2>1, <2>2
<1>4. CASE Left(r) /\ ~Kept(r)
  BY <1>1, <1>4 DEF Left
<1> QED
  BY <1>2, <1>3, <1>4 DEF Moves

(* A wait that is not held is not held later under the same token.         *)
LEMMA UnusedStays ==
    ASSUME TypeOK, TypeOK', CallbacksAssumption, Moves,
           NEW r \in Runs, NEW stage \in Stages, NEW n, n <= token[r],
           ~(phase[r] = Awaiting(stage) /\ token[r] = n)
    PROVE  ~(phase'[r] = Awaiting(stage) /\ token'[r] = n)
<1> SUFFICES ASSUME phase'[r] = Awaiting(stage), token'[r] = n PROVE FALSE
  OBVIOUS
<1>1. phase'[r] \in Waits /\ token[r] \in Nat
  BY TokensGrow DEF Waits
<1>2. CASE Kept(r)
  BY <1>2 DEF Kept
<1>3. CASE Entered(r)
  BY <1>1, <1>3 DEF Entered
<1> QED
  BY <1>1, <1>2, <1>3, TokensGrow

(* A handler that has not registered stays the one of its wait.            *)
LEMMA CurrentStays ==
    ASSUME TypeOK, TypeOK', CallbacksAssumption, Moves,
           NEW r \in Runs, NEW stage \in Stages, NEW n, n <= token[r],
           Rank(Awaiting(stage)) <= Rank(phase[r]),
           phase[r] \in Waits => (phase[r] = Awaiting(stage) <=> n = token[r])
    PROVE  /\ Rank(Awaiting(stage)) <= Rank(phase'[r])
           /\ phase'[r] \in Waits => (phase'[r] = Awaiting(stage) <=> n = token'[r])
<1>1. /\ Rank(Awaiting(stage)) \in Nat /\ Rank(phase[r]) \in Nat /\ Rank(phase'[r]) \in Nat
      /\ token[r] \in Nat
  BY Ranks DEF TypeOK, CallbacksAssumption
<1>2. Rank(phase[r]) <= Rank(phase'[r])
  BY TokensGrow
<1>3. CASE Kept(r)
  BY <1>3 DEF Kept
<1>4. CASE Entered(r)
  <2>1. Rank(phase[r]) < Rank(phase'[r]) /\ token'[r] = token[r] + 1
    BY <1>4 DEF Entered
  <2>2. phase'[r] # Awaiting(stage)
    BY <1>1, <2>1
  <2> QED
    BY <1>1, <1>2, <2>1, <2>2
<1>5. CASE phase'[r] \notin Waits
  BY <1>1, <1>2, <1>5
<1> QED
  BY <1>3, <1>4, <1>5, TokensGrow

-----------------------------------------------------------------------------
(* One lemma per conjunct of the invariant.                                *)
LEMMA TokensExistStep ==
    ASSUME Registration, TypeOK', CallbacksAssumption, "retry" \notin Faults, [Next]_vars
    PROVE  TokensExist'
<1> TypeOK /\ TokensExist /\ Moves
  BY FlowMoves DEF Registration
<1> process \in [Handlers \cup Calls -> Local]
  BY DEF TypeOK
<1>g. ASSUME NEW r \in Runs, NEW n, n <= token[r], n \in Int PROVE n <= token'[r]
  BY <1>g, TokensGrow
<1>1. ASSUME NEW y \in Handlers \cup Calls, process'[y].pc # "idle"
      PROVE  process'[y].token <= token'[process'[y].run]
  <2> PICK before \in Local : before = process[y]
    OBVIOUS
  <2> PICK after : after = process'[y]
    OBVIOUS
  <2>0. Goes(y, before, after)
    BY ProcessGoes
  <2>a. after \in Local /\ after # Idle
    BY <1>1 DEF TypeOK, Idle
  <2>f. after.run \in Runs /\ after.token \in Int
    BY <2>a DEF Local, CallbacksAssumption
  <2>1. CASE before.pc # "idle" /\ after.run = before.run /\ after.token = before.token
    <3>1. before.token <= token[before.run]
      BY <2>1 DEF TokensExist
    <3> QED
      BY <2>1, <2>f, <3>1, <1>g
  <2>2. CASE Searching(after)
    BY <2>2, <2>f, <1>g DEF Searching
  <2>3. CASE Opened(y, after)
    <3>1. PICK run \in Runs, stage \in Stages :
              /\ after = At("read_previous", run, stage, token[run] + 1)
              /\ token'[run] = token[run] + 1
      BY <2>3 DEF Opened
    <3> QED
      BY <3>1, <2>f DEF At
  <2> QED
    BY <1>1, <2>0, <2>a, <2>1, <2>2, <2>3 DEF Goes, Used, SameWait
<1>2. ASSUME NEW k \in DOMAIN waiting' PROVE waiting'[k] <= token'[k[1]]
  <2>1. k[1] \in Runs /\ waiting'[k] \in Int /\ Saved(k)' = {waiting'[k]}
    BY <1>2 DEF TypeOK, Saved, CallbacksAssumption
  <2>2. CASE Saved(k)' = Saved(k)
    <3>1. k \in DOMAIN waiting /\ waiting[k] = waiting'[k]
      BY <2>1, <2>2 DEF Saved
    <3> QED
      BY <2>1, <3>1, <1>g DEF TokensExist
  <2>3. ASSUME NEW x \in Handlers \cup Calls, Registers(x, k)
        PROVE  waiting'[k] <= token'[k[1]]
    <3>1. process[x].pc # "idle" /\ process[x].run = k[1] /\ waiting'[k] = process[x].token
      BY <2>1, <2>3 DEF Registers
    <3>2. process[x].token <= token[process[x].run]
      BY <3>1 DEF TokensExist
    <3> QED
      BY <2>1, <3>1, <3>2, <1>g
  <2>4. ASSUME NEW x \in Handlers \cup Calls, Deletes(x, k) PROVE FALSE
    BY <2>1, <2>4 DEF Deletes
  <2> QED
    BY <2>2, <2>3, <2>4, WaitingGoes
<1>3. ASSUME NEW r \in Runs, phase'[r] \in Waits PROVE token'[r] > 0
  <2>1. token[r] \in Nat /\ (Kept(r) \/ Entered(r))
    BY <1>3, TokensGrow
  <2>2. CASE Kept(r)
    BY <1>3, <2>2 DEF Kept, TokensExist
  <2>3. CASE Entered(r)
    BY <2>1, <2>3 DEF Entered
  <2> QED
    BY <2>1, <2>2, <2>3
<1> QED
  BY <1>1, <1>2, <1>3 DEF TokensExist

(* Handlers keep being those of the latest token of a waiting execution.   *)
LEMMA HandlersStep ==
    ASSUME Registration, TypeOK', CallbacksAssumption, "retry" \notin Faults, [Next]_vars
    PROVE  HandlersAreCurrent'
<1> TypeOK /\ TokensExist /\ HandlersAreCurrent /\ Moves
  BY FlowMoves DEF Registration
<1> SUFFICES ASSUME NEW y \in Handlers \cup Calls, process'[y].pc \in Registering
             PROVE  IsCurrent(y)'
  BY DEF HandlersAreCurrent
<1> process \in [Handlers \cup Calls -> Local]
  BY DEF TypeOK
<1> PICK before \in Local : before = process[y]
  OBVIOUS
<1> PICK after : after = process'[y]
  OBVIOUS
<1>0. Goes(y, before, after)
  BY ProcessGoes
<1>1. CASE before.pc \in Registering /\ SameWait(before, after)
  <2>1. before.pc # "idle"
    BY <1>1 DEF Registering
  <2>2. before.run \in Runs /\ before.stage \in Stages /\ before.token <= token[before.run]
    BY <2>1, RunningHasFields DEF TokensExist
  <2>3. IsCurrent(y)
    BY <1>1 DEF HandlersAreCurrent
  <2>4. /\ y = <<before.run, before.token>>
        /\ Rank(Awaiting(before.stage)) <= Rank(phase[before.run])
        /\ phase[before.run] \in Waits =>
               (phase[before.run] = Awaiting(before.stage) <=> before.token = token[before.run])
    BY <2>3 DEF IsCurrent
  <2>5. /\ Rank(Awaiting(before.stage)) <= Rank(phase'[before.run])
        /\ phase'[before.run] \in Waits =>
               (phase'[before.run] = Awaiting(before.stage) <=> before.token = token'[before.run])
    BY <2>2, <2>4, CurrentStays
  <2> QED
    BY <1>1, <2>4, <2>5 DEF IsCurrent, SameWait
<1>2. CASE Opened(y, after)
  <2>1. PICK run \in Runs, stage \in Stages :
            /\ y = <<run, token[run] + 1>>
            /\ after = At("read_previous", run, stage, token[run] + 1)
            /\ phase'[run] = Awaiting(stage)
            /\ token'[run] = token[run] + 1
    BY <1>2 DEF Opened
  <2>2. after.run = run /\ after.stage = stage /\ after.token = token[run] + 1
    BY <2>1 DEF At
  <2>3. Rank(Awaiting(stage)) <= Rank(phase'[run])
    BY <2>1, Ranks
  <2> QED
    BY <2>1, <2>2, <2>3 DEF IsCurrent
<1>3. before = after => SameWait(before, after)
  BY DEF SameWait
<1> QED
  BY <1>0, <1>1, <1>2, <1>3 DEF Goes, Registering, Searching, Used, Idle

(* What is about to be deleted has been used.                              *)
LEMMA DeletedStep ==
    ASSUME Registration, TypeOK', CallbacksAssumption, "retry" \notin Faults, [Next]_vars
    PROVE  DeletedWereUsed'
<1> TypeOK /\ TokensExist /\ DeletedWereUsed /\ Moves
  BY FlowMoves DEF Registration
<1> SUFFICES ASSUME NEW y \in Handlers \cup Calls, process'[y].pc = "delete"
             PROVE  ~(/\ phase'[process'[y].run] = Awaiting(process'[y].stage)
                      /\ token'[process'[y].run] = process'[y].token)
  BY DEF DeletedWereUsed, IsAwaited
<1> process \in [Handlers \cup Calls -> Local]
  BY DEF TypeOK
<1> PICK before \in Local : before = process[y]
  OBVIOUS
<1> PICK after : after = process'[y]
  OBVIOUS
<1>0. Goes(y, before, after)
  BY ProcessGoes
<1>1. CASE after = before
  <2>1. before.run \in Runs /\ before.stage \in Stages /\ before.token <= token[before.run]
    BY <1>1, RunningHasFields DEF TokensExist
  <2>2. ~(phase[before.run] = Awaiting(before.stage) /\ token[before.run] = before.token)
    BY <1>1 DEF DeletedWereUsed, IsAwaited
  <2> QED
    BY <1>1, <2>1, <2>2, UnusedStays
<1>2. ~Opened(y, after)
  <2>1. Opened(y, after) => after.pc = "read_previous"
    BY DEF Opened, At
  <2> QED
    BY <2>1
<1>3. after # Idle /\ ~Searching(after) /\ after.pc # "register"
  BY DEF Idle, Searching
<1>4. after = before \/ Used(before, after)
  BY <1>0, <1>2, <1>3 DEF Goes
<1>5. CASE Used(before, after)
  BY <1>5 DEF Used
<1> QED
  BY <1>1, <1>4, <1>5

(* A wait that is kept stays registered, or its handler still to register. *)
LEMMA KeptStep ==
    ASSUME Registration, TypeOK', CallbacksAssumption, "retry" \notin Faults, [Next]_vars,
           NEW r \in Runs, NEW stage \in Stages, Kept(r), phase[r] = Awaiting(stage)
    PROVE  \/ Saved(<<r, stage>>)' = {token[r]}
           \/ process'[<<r, token[r]>>].pc \in Registering
<1> /\ TypeOK /\ TokensExist /\ HandlersAreCurrent /\ DeletedWereUsed
    /\ WaitsStayRegistered
  BY DEF Registration
<1> process \in [Handlers \cup Calls -> Local]
  BY DEF TypeOK
<1> PICK n : n = token[r]
  OBVIOUS
<1> PICK k : k = <<r, stage>>
  OBVIOUS
<1> PICK x : x = <<r, n>>
  OBVIOUS
<1>w. phase[r] \in Waits
  BY DEF Waits
<1>n. n \in Nat /\ n > 0 /\ n <= MaxTokens
  BY <1>w DEF TypeOK, TokensExist, CallbacksAssumption
<1>x. x \in Handlers /\ x \notin Calls
  BY <1>n DEF Handlers, CallbacksAssumption
<1>g. Goes(x, process[x], process'[x])
  BY <1>x, ProcessGoes
<1>1. ASSUME NEW y \in Handlers \cup Calls, Registers(y, k) PROVE Saved(k)' = {n}
  <2>1. process[y].run = r /\ process[y].stage = stage /\ Saved(k)' = {process[y].token}
    BY <1>1 DEF Registers
  <2>2. IsCurrent(y)
    BY <1>1 DEF Registers, HandlersAreCurrent, Registering
  <2>3. process[y].token = n
    BY <1>w, <2>1, <2>2 DEF IsCurrent
  <2> QED
    BY <2>1, <2>3
<1>2. ASSUME NEW y \in Handlers \cup Calls, Deletes(y, k) PROVE Saved(k) # {n}
  <2>1. /\ process[y].run = r /\ process[y].stage = stage /\ process[y].pc = "delete"
        /\ Saved(k) = {process[y].token}
    BY <1>2 DEF Deletes
  <2>2. process[y].token # n
    BY <2>1 DEF DeletedWereUsed, IsAwaited
  <2> QED
    BY <2>1, <2>2
<1>3. CASE Saved(k) = {n}
  BY <1>1, <1>2, <1>3, WaitingGoes
<1>4. CASE process[x].pc \in Registering
  <2>0. IsCurrent(x)
    BY <1>x, <1>4 DEF HandlersAreCurrent
  <2>1. process[x].run = r /\ process[x].token = n
    BY <2>0 DEF IsCurrent
  <2>2. phase[r] = Awaiting(process[x].stage)
    BY <1>w, <2>0, <2>1 DEF IsCurrent
  <2>3. process[x].stage = stage
    <3>1. process[x].stage \in Stages
      BY <1>x, <1>4, RunningHasFields DEF Registering
    <3> QED
      BY <2>2, <3>1, Ranks
  <2>4. ~HandlerFails(x)
    <3>1. SUFFICES ASSUME HandlerFails(x) PROVE FALSE
      OBVIOUS
    <3>2. Finish(r, "Failed", [process EXCEPT ![x] = Idle])
      BY <2>1, <2>2, <3>1 DEF HandlerFails
    <3>3. phase'[r] = "Failed"
      BY <3>2 DEF Finish, TypeOK
    <3> QED
      BY <1>w, <3>3, Ranks DEF Kept, Ends
  <2>5. CASE Register(x)
    <3>1. waiting' = Put(waiting, k, n)
      BY <2>1, <2>3, <2>5 DEF Register
    <3>2. Saved(k)' = {n}
      BY <3>1 DEF Put, Saved
    <3> QED
      BY <3>2
  <2>6. CASE ~Register(x)
    <3> PICK after : after = process'[x]
      OBVIOUS
    <3>1. \/ after = process[x]
          \/ Opened(x, after)
          \/ after.pc = "register"
      BY <1>x, <1>4, <1>g, <2>4, <2>6 DEF Goes, Used, Registering
    <3>2. Opened(x, after) => after.pc = "read_previous"
      BY DEF Opened, At
    <3> QED
      BY <1>4, <3>1, <3>2 DEF Registering
  <2> QED
    BY <2>5, <2>6
<1> QED
  BY <1>3, <1>4 DEF WaitsStayRegistered, Registering

(* A waiting execution stays findable.                                     *)
LEMMA WaitsStep ==
    ASSUME Registration, TypeOK', CallbacksAssumption, "retry" \notin Faults, [Next]_vars
    PROVE  WaitsStayRegistered'
<1> TypeOK /\ Moves
  BY FlowMoves DEF Registration
<1> SUFFICES ASSUME NEW r \in Runs, NEW stage \in Stages, phase'[r] = Awaiting(stage)
             PROVE  \/ Saved(<<r, stage>>)' = {token'[r]}
                    \/ process'[<<r, token'[r]>>].pc \in Registering
  BY DEF WaitsStayRegistered, Registering
<1>1. CASE Kept(r)
  BY <1>1, KeptStep DEF Kept
<1>2. CASE Entered(r)
  <2>1. PICK s \in Stages :
            /\ token'[r] = token[r] + 1
            /\ process'[<<r, token[r] + 1>>] = At("read_previous", r, s, token[r] + 1)
    BY <1>2 DEF Entered
  <2>2. process'[<<r, token'[r]>>].pc = "read_previous"
    BY <2>1 DEF At
  <2> QED
    BY <2>2 DEF Registering
<1>3. phase'[r] \in Waits
  BY DEF Waits
<1> QED
  BY <1>1, <1>2, <1>3, TokensGrow

-----------------------------------------------------------------------------
(* The invariant is inductive as long as no wait is tried again.           *)
LEMMA RegistrationStep ==
    ASSUME Registration, CallbacksAssumption, "retry" \notin Faults, [Next]_vars
    PROVE  Registration'
<1>1. TypeOK' /\ TokensSuffice'
  BY TypeStep DEF Registration
<1> QED
  BY <1>1, TokensExistStep, HandlersStep, DeletedStep, WaitsStep DEF Registration

(* It holds initially.                                                     *)
LEMMA RegistrationInit ==
    ASSUME CallbacksAssumption, Init
    PROVE  Registration
<1>1. TypeOK /\ TokensSuffice
  BY RelianceInit DEF Reliance
<1>2. \A x \in Handlers \cup Calls : process[x].pc = "idle"
  BY DEF Init, Handlers, Idle
<1>3. \A r \in Runs : phase[r] = "none"
  BY DEF Init
<1>4. "none" \notin Waits
  BY DEF Waits, Awaiting, Stages
<1>5. HandlersAreCurrent /\ DeletedWereUsed
  BY <1>2 DEF HandlersAreCurrent, DeletedWereUsed, Registering
<1>6. TokensExist
  <2>1. DOMAIN waiting = {}
    BY DEF Init, NoItems
  <2> QED
    BY <1>2, <1>3, <1>4, <2>1 DEF TokensExist
<1>7. WaitsStayRegistered
  BY <1>3, <1>4 DEF WaitsStayRegistered, Waits
<1> QED
  BY <1>1, <1>5, <1>6, <1>7 DEF Registration

(* When the service does not try a wait again while its handler still      *)
(* runs, a waiting execution can always be found, by the request that      *)
(* commits the awaited action or by the hourly scan: its latest token is   *)
(* saved, or its handler is about to save it (workflow.py: handle,         *)
(* advance).                                                               *)
THEOREM WaitingExecutionsAreFound ==
    "retry" \notin Faults => (Spec => []WaitsStayRegistered)
<1> SUFFICES ASSUME "retry" \notin Faults PROVE Spec => []WaitsStayRegistered
  OBVIOUS
<1>1. Init => Registration
  BY RegistrationInit, CallbacksAssumption
<1>2. Registration /\ [Next]_vars => Registration'
  BY RegistrationStep, CallbacksAssumption
<1>3. Registration => WaitsStayRegistered
  BY DEF Registration
<1> QED
  BY <1>1, <1>2, <1>3, PTL DEF Spec
=============================================================================
