------------------------------ MODULE Release ------------------------------
(***************************************************************************)
(* Releasing the application with scripts/aws.py, one invocation after the *)
(* other: the deployment workflow queues them (concurrency group           *)
(* switchboard-production), but a cancelled one leaves behind its change   *)
(* sets, an update CloudFormation goes on with, and the files it wrote.    *)
(*                                                                         *)
(* A template stands for the application and its parameters.  Whether a    *)
(* change set replaces or removes resources is decided when it is created. *)
(*                                                                         *)
(* A definition called a mutant is not part of the model: it is the        *)
(* definition after it with one mistake in it.                             *)
(***************************************************************************)
EXTENDS Integers, FiniteSets, Items

CONSTANTS
    Templates,
    Healthy,         \* templates that pass the live checks
    InitTemplate,
    MaxInvocations   \* bound: releases and manual rollbacks

ASSUME TemplatesAssumption == Healthy \subseteq Templates /\ InitTemplate \in Templates

Invocations == 1 .. MaxInvocations
Procedures == {"release", "rollback"}
Idle == [pc |-> "idle"]
NoReceipt == [status |-> "none"]

VARIABLES
    stack,       \* CloudFormation: what runs, what it is updated to, its status
    sets,        \* change sets: what they deploy, whether that is empty or safe
    sent,        \* creations of change sets that may still be carried out
    count,       \* invocations begun
    aws,         \* the local state of the invocation
    previous,    \* previous-template.yml and previous-deployment.json
    health,      \* deployment-health.json; by and template are history
    executed     \* history: the invocations that have executed a change set

vars == <<stack, sets, sent, count, aws, previous, health, executed>>

Init ==
    /\ stack = [template |-> InitTemplate, target |-> InitTemplate, status |-> "complete"]
    /\ sets = NoItems
    /\ sent = NoItems
    /\ count = 0
    /\ aws = Idle
    /\ previous = {}
    /\ health = NoReceipt
    /\ executed = {}

-----------------------------------------------------------------------------
(* How an invocation ends.                                                 *)

Report(status, rolled_back) ==
    /\ aws' = Idle
    /\ health' = [status |-> status, rolled_back |-> rolled_back,
                  by |-> count, template |-> aws.template]

(* What raises DeploymentBlocked: everything before the execution.         *)
IsPreflight(pc) == pc \in {"check_stack", "list", "create", "identify", "check"}

(* An error: a blocked release changes nothing, a failed one is rolled     *)
(* back, a failed rollback is reported; a manual rollback just ends.       *)
Raise ==
    \/ /\ aws.procedure = "release" /\ IsPreflight(aws.pc)
       /\ Report("blocked", FALSE)
    \/ /\ aws.procedure = "release" /\ ~IsPreflight(aws.pc)
       /\ \E template \in previous :
              aws' = [pc |-> "list", procedure |-> "rollback", manual |-> FALSE,
                      template |-> template]
       /\ UNCHANGED health
    \/ /\ aws.procedure = "rollback" /\ ~aws.manual
       /\ Report("failed", FALSE)
    \/ /\ aws.procedure = "rollback" /\ aws.manual
       /\ aws' = Idle
       /\ UNCHANGED health

Succeed ==
    \/ /\ aws.procedure = "release"
       /\ Report("passed", FALSE)
    \/ /\ aws.procedure = "rollback" /\ ~aws.manual
       /\ Report("failed", TRUE)
    \/ /\ aws.procedure = "rollback" /\ aws.manual
       /\ aws' = Idle
       /\ UNCHANGED health

Goes(pc) == aws' = [aws EXCEPT !.pc = pc] /\ UNCHANGED health

-----------------------------------------------------------------------------
(* Beginning: release saves what is deployed; rollback reads what is saved.*)

(* What is saved are the parameters and then the template of the stack.    *)
(* While an update runs one may be read before its end and the other after *)
(* it, so that what is saved is a mixture, which may be any template.      *)
Deployed == IF stack.status = "updating" THEN Templates ELSE {stack.template}

StartRelease(built) ==
    /\ aws = Idle
    /\ count < MaxInvocations
    /\ count' = count + 1
    /\ \E template \in Deployed : previous' = {template}
    /\ aws' = [pc |-> "check_stack", procedure |-> "release", manual |-> FALSE,
               template |-> built]
    /\ UNCHANGED <<stack, sets, sent, health, executed>>

(* It may be cancelled when only one of the two files is written: the      *)
(* other one is still that of an earlier release, if there was one.        *)
SaveHalf ==
    /\ aws = Idle
    /\ count < MaxInvocations
    /\ count' = count + 1
    /\ previous # {}
    /\ \E template \in Templates : previous' = {template}
    /\ UNCHANGED <<stack, sets, sent, aws, health, executed>>

StartRollback ==
    /\ aws = Idle
    /\ count < MaxInvocations
    /\ count' = count + 1
    /\ \E template \in previous :
           aws' = [pc |-> "list", procedure |-> "rollback", manual |-> TRUE,
                   template |-> template]
    /\ UNCHANGED <<stack, sets, sent, previous, health, executed>>

(* The stack policy and a fresh drift result, which no updating stack has. *)
CheckStack ==
    /\ aws.pc = "check_stack"
    /\ \/ stack.status # "updating" /\ Goes("list")
       \/ Raise
    /\ UNCHANGED <<stack, sets, sent, count, previous, executed>>

-----------------------------------------------------------------------------
(* Preparing a change set.                                                 *)

ChangeSetId == <<count, aws.procedure>>

ListChangeSets ==
    /\ aws.pc = "list"
    /\ aws' = [pc |-> "create", procedure |-> aws.procedure, manual |-> aws.manual,
               template |-> aws.template, previous_ids |-> DOMAIN sets]
    /\ UNCHANGED <<stack, sets, sent, count, previous, health, executed>>

(* CloudFormation creates a change set, unless the stack is being updated. *)
Create(id, template) ==
    /\ stack.status # "updating"
    /\ \E safe \in BOOLEAN :
           sets' = Put(sets, id, [template |-> template, safe |-> safe,
                                  empty |-> template = stack.template])

(* sam deploy --no-execute-changeset, which may also fail afterwards.      *)
CreateChangeSet ==
    /\ aws.pc = "create"
    /\ \/ Create(ChangeSetId, aws.template) /\ (Goes("identify") \/ Raise)
       \/ Raise /\ UNCHANGED sets
    /\ UNCHANGED <<stack, sent, count, previous, executed>>

IsOnlyNew(id, created) == created = {id}

(* An unidentified or failed change set is an error, an empty one a no-op. *)
IdentifyChangeSet ==
    LET created == DOMAIN sets \ aws.previous_ids
    IN  /\ aws.pc = "identify"
        /\ \/ \E id \in created :
                  /\ IsOnlyNew(id, created)
                  /\ aws' = [pc |-> IF sets[id].empty THEN "smoke_check" ELSE "check",
                             procedure |-> aws.procedure, manual |-> aws.manual,
                             template |-> aws.template, id |-> id]
                  /\ UNCHANGED health
           \/ Raise
        /\ UNCHANGED <<stack, sets, sent, count, previous, executed>>

-----------------------------------------------------------------------------
(* Executing it and checking what runs.                                    *)

(* Mutant: removals and replacements are not looked for.                   *)
IsListed(change_set) == TRUE

IsSafe(change_set) == change_set.safe

CheckChangeSet ==
    /\ aws.pc = "check"
    /\ \/ aws.id \in DOMAIN sets /\ IsSafe(sets[aws.id]) /\ Goes("execute")
       \/ Raise
    /\ UNCHANGED <<stack, sets, sent, count, previous, executed>>

(* The update begins and every change set is gone; the answer may be lost, *)
(* and the call may fail.                                                  *)
ExecuteChangeSet ==
    /\ aws.pc = "execute"
    /\ \/ /\ aws.id \in DOMAIN sets
          /\ stack.status # "updating"
          /\ stack' = [stack EXCEPT !.target = sets[aws.id].template, !.status = "updating"]
          /\ sets' = NoItems
          /\ executed' = executed \cup {count}
          /\ Goes("wait") \/ Raise
       \/ Raise /\ UNCHANGED <<stack, sets, executed>>
    /\ UNCHANGED <<sent, count, previous>>

(* Mutant: a stack that is not updating any more is up to date.            *)
IsSettled(status) == status # "updating"

IsUpdated(status) == status = "complete"

(* The waiter: success, or the stack was rolled back, or ten minutes.      *)
AwaitUpdate ==
    /\ aws.pc = "wait"
    /\ \/ IsUpdated(stack.status) /\ Goes("smoke_check")
       \/ Raise
    /\ UNCHANGED <<stack, sets, sent, count, previous, executed>>

(* Three attempts at the website, its assets and the API.                  *)
SmokeCheck ==
    /\ aws.pc = "smoke_check"
    /\ \/ stack.template \in Healthy /\ Succeed
       \/ Raise
    /\ UNCHANGED <<stack, sets, sent, count, previous, executed>>

-----------------------------------------------------------------------------
(* The world outside.                                                      *)

(* The job is cancelled.  The creation it has asked for may still be       *)
(* carried out, at any time: sam uploads first, and CloudFormation creates *)
(* the change set after it has answered.  An execution it has asked for is *)
(* accepted, if at all, before another invocation begins: it is one call,  *)
(* and the update it begins goes on (ExecuteChangeSet, then Cancel).       *)
Cancel ==
    /\ aws # Idle
    /\ aws' = Idle
    /\ sent' = IF aws.pc = "create" THEN Put(sent, ChangeSetId, aws.template) ELSE sent
    /\ UNCHANGED <<stack, sets, count, previous, health, executed>>

CarryOut(id) ==
    /\ id \in DOMAIN sent
    /\ Create(id, sent[id])
    /\ sent' = Delete(sent, {id})
    /\ UNCHANGED <<stack, count, aws, previous, health, executed>>

(* CloudFormation ends an update, or undoes it.                            *)
FinishUpdate ==
    /\ stack.status = "updating"
    /\ \/ stack' = [stack EXCEPT !.template = stack.target, !.status = "complete"]
       \/ stack' = [stack EXCEPT !.target = stack.template, !.status = "rolled_back"]
    /\ UNCHANGED <<sets, sent, count, aws, previous, health, executed>>

Next ==
    \/ \E built \in Templates : StartRelease(built)
    \/ SaveHalf \/ StartRollback
    \/ CheckStack
    \/ ListChangeSets \/ CreateChangeSet \/ IdentifyChangeSet
    \/ CheckChangeSet \/ ExecuteChangeSet \/ AwaitUpdate \/ SmokeCheck
    \/ Cancel
    \/ \E id \in Invocations \X Procedures : CarryOut(id)
    \/ FinishUpdate

Spec == Init /\ [][Next]_vars

-----------------------------------------------------------------------------
(* Blocked: it has executed no change set (deploy_template; aws/README.md: *)
(* a blocked preflight leaves the running stack untouched).                *)
BlockedTouchedNothing == health.status = "blocked" => health.by \notin executed

(* Passed: the template that was built, checked live; rolled back: the one *)
(* that was saved before the release.                                      *)
RunsAsReported ==
    LET isLast == health # NoReceipt /\ health.by = count
    IN  isLast /\ (health.status = "passed" \/ health.rolled_back) =>
            /\ stack.status # "updating"
            /\ stack.template = health.template
            /\ stack.template \in Healthy
            /\ health.rolled_back => previous = {health.template}

(* The receipt of a release tells what has become of it: a blocked one has *)
(* left everything as it was, and until the next invocation the            *)
(* application runs what one that has passed or was rolled back says.      *)
(* Neither the change sets nor the updates of cancelled invocations get in *)
(* between (prepare_change_set, the waiter, release).                      *)
ReceiptTellsWhatRuns == BlockedTouchedNothing /\ RunsAsReported

(* An update starts only for the change set of the invocation that is      *)
(* running, deploys what it set out to deploy, and replaces or removes     *)
(* nothing (check_change_set, prepare_change_set).                         *)
OnlyCheckedUpdates ==
    [][stack'.status = "updating" /\ stack.status # "updating" =>
           /\ stack'.target = aws.template
           /\ sets[aws.id].safe]_vars
=============================================================================
