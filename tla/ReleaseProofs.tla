--------------------------- MODULE ReleaseProofs ---------------------------
(***************************************************************************)
(* Theorems about Release, for any number of invocations and templates:    *)
(* what a receipt says is true however invocations are cancelled and       *)
(* whatever CloudFormation carries out late, and an update deploys the     *)
(* checked change set of the invocation that is running.                   *)
(***************************************************************************)
EXTENDS Release, ItemsProofs

-----------------------------------------------------------------------------
(* The inductive invariant.                                                *)

Ids == Nat \X Procedures

ChangeSets == [template : Templates, safe : BOOLEAN, empty : BOOLEAN]

(* Local state before, while and after a change set is created.            *)
Beginning ==
    [pc : {"check_stack", "list"}, procedure : Procedures, manual : BOOLEAN,
     template : Templates]
Creating ==
    [pc : {"create", "identify"}, procedure : Procedures, manual : BOOLEAN,
     template : Templates, previous_ids : SUBSET Ids]
Deploying ==
    [pc : {"check", "execute", "wait", "smoke_check"}, procedure : Procedures,
     manual : BOOLEAN, template : Templates, id : Ids]

Locals == Beginning \cup Creating \cup Deploying

Receipts ==
    [status : {"passed", "failed", "blocked"}, rolled_back : BOOLEAN, by : Nat,
     template : Templates]

Types ==
    /\ stack \in [template : Templates, target : Templates,
                  status : {"complete", "updating", "rolled_back"}]
    /\ IsTable(sets, Ids, ChangeSets)
    /\ IsTable(sent, Ids, Templates)
    /\ count \in Nat
    /\ aws \in {Idle} \cup Locals
    /\ previous \subseteq Templates
    /\ health \in {NoReceipt} \cup Receipts
    /\ executed \subseteq Nat

(* What is saved is one template.                                          *)
SavedOne == \A t, u \in previous : t = u

(* A change set belongs to an invocation that has begun, and one that is   *)
(* still to be created to an earlier one.                                  *)
IdsAreOld ==
    /\ \A id \in DOMAIN sets : id[1] <= count
    /\ \A id \in DOMAIN sent : id[1] <= count /\ (aws # Idle => id[1] < count)
    /\ \A n \in executed : n <= count

(* A receipt is older than the invocation that is running, and a release   *)
(* that was blocked has executed nothing.                                  *)
ReceiptIsOld ==
    health # NoReceipt =>
        /\ health.by <= count
        /\ aws # Idle => health.by < count
        /\ health.status = "blocked" => health.by \notin executed

(* The change set of an invocation with this local state.                  *)
Own(l) == <<count, l.procedure>>

(* What an invocation has not created yet, and what it has.                *)
Owns(l) ==
    /\ l.procedure = "release" => <<count, "rollback">> \notin DOMAIN sets
    /\ l.pc \in {"check_stack", "list", "create"} => Own(l) \notin DOMAIN sets
    /\ l.pc \in {"create", "identify"} => Own(l) \notin l.previous_ids
    /\ l.pc = "identify" =>
           /\ Own(l) \in DOMAIN sets
           /\ sets[Own(l)].template = l.template
           /\ sets[Own(l)].empty => stack.template = l.template
           /\ stack.status # "updating"
    /\ l.pc \in {"check", "execute"} =>
           /\ l.id = Own(l)
           /\ l.id \in DOMAIN sets => sets[l.id].template = l.template
    /\ l.pc = "execute" /\ l.id \in DOMAIN sets => sets[l.id].safe

(* What the stack does, once the invocation has executed its change set or *)
(* found that it is empty.                                                 *)
Follows(l) ==
    /\ l.pc = "wait" =>
           /\ stack.status = "updating" => stack.target = l.template
           /\ stack.status = "complete" => stack.template = l.template
    /\ l.pc = "smoke_check" => stack.status # "updating" /\ stack.template = l.template

(* A release is blocked only before it executes anything; an automatic     *)
(* rollback deploys what was saved.                                        *)
Intends(l) ==
    /\ l.procedure = "release" /\ (IsPreflight(l.pc) \/ l.pc = "execute") =>
           count \notin executed
    /\ l.procedure = "rollback" => l.pc # "check_stack"
    /\ l.procedure = "rollback" /\ ~l.manual => previous = {l.template}

Fits(l) == Owns(l) /\ Follows(l) /\ Intends(l)

Inv ==
    /\ Types /\ SavedOne /\ IdsAreOld /\ ReceiptIsOld
    /\ aws # Idle => Fits(aws)
    /\ RunsAsReported

-----------------------------------------------------------------------------
(* Initially.                                                              *)
LEMMA InitInv == Init => Inv
<1> SUFFICES ASSUME Init PROVE Inv
  OBVIOUS
<1>1. DOMAIN sets = {} /\ DOMAIN sent = {} /\ IsTable(sets, Ids, ChangeSets)
      /\ IsTable(sent, Ids, Templates)
  BY NoItemsType DEF Init
<1>2. Types
  BY <1>1, TemplatesAssumption DEF Init, Types
<1>3. SavedOne /\ IdsAreOld /\ ReceiptIsOld /\ RunsAsReported
  BY <1>1 DEF Init, SavedOne, IdsAreOld, ReceiptIsOld, RunsAsReported
<1> QED
  BY <1>2, <1>3 DEF Init, Inv

-----------------------------------------------------------------------------
(* Local states.                                                           *)

(* An invocation that is running is at one of its steps.                   *)
LEMMA Running ==
    ASSUME Types, aws # Idle
    PROVE  /\ aws \in Locals /\ aws.procedure \in Procedures /\ aws.manual \in BOOLEAN
           /\ aws.template \in Templates
           /\ aws.pc \in {"check_stack", "list"} => aws \in Beginning
           /\ aws.pc \in {"create", "identify"} => aws \in Creating
           /\ aws.pc \in {"check", "execute", "wait", "smoke_check"} => aws \in Deploying
<1>1. aws \in Beginning \/ aws \in Creating \/ aws \in Deploying
  BY DEF Types, Locals
<1>2. CASE aws \in Beginning
  BY <1>2 DEF Beginning, Locals
<1>3. CASE aws \in Creating
  BY <1>3 DEF Creating, Locals
<1>4. CASE aws \in Deploying
  BY <1>4 DEF Deploying, Locals
<1> QED
  BY <1>1, <1>2, <1>3, <1>4

(* An invocation does not stop on its way.                                 *)
LEMMA NotIdle ==
    ASSUME NEW l \in Locals
    PROVE  l # Idle
<1>1. l.pc # "idle"
  BY DEF Locals, Beginning, Creating, Deploying
<1> QED
  BY <1>1 DEF Idle

(* Going on to the next step changes nothing else.                         *)
LEMMA GoesOn ==
    ASSUME Types, aws # Idle, NEW pc,
           \/ aws.pc = "check_stack" /\ pc = "list"
           \/ aws.pc = "create" /\ pc = "identify"
           \/ aws.pc = "check" /\ pc = "execute"
           \/ aws.pc = "execute" /\ pc = "wait"
           \/ aws.pc = "wait" /\ pc = "smoke_check",
           NEW next, next = [aws EXCEPT !.pc = pc]
    PROVE  /\ next \in Locals /\ next.pc = pc /\ next.procedure = aws.procedure
           /\ next.manual = aws.manual /\ next.template = aws.template
           /\ pc = "identify" => next.previous_ids = aws.previous_ids
           /\ pc \in {"execute", "wait", "smoke_check"} => next.id = aws.id
<1>1. CASE aws.pc = "check_stack" /\ pc = "list"
  <2>1. aws \in Beginning
    BY <1>1, Running
  <2> QED
    BY <1>1, <2>1 DEF Beginning, Locals
<1>2. CASE aws.pc = "create" /\ pc = "identify"
  <2>1. aws \in Creating
    BY <1>2, Running
  <2> QED
    BY <1>2, <2>1 DEF Creating, Locals
<1>3. CASE aws.pc \in {"check", "execute", "wait"} /\ pc \in {"execute", "wait", "smoke_check"}
  <2>1. aws \in Deploying
    BY <1>3, Running
  <2> QED
    BY <1>3, <2>1 DEF Deploying, Locals
<1> QED
  BY <1>1, <1>2, <1>3

-----------------------------------------------------------------------------
(* Steps of an invocation.                                                 *)

(* What a step of an invocation leaves as it is, or well formed.           *)
Keeps ==
    /\ UNCHANGED <<count, previous, sent>>
    /\ stack' \in [template : Templates, target : Templates,
                   status : {"complete", "updating", "rolled_back"}]
    /\ IsTable(sets, Ids, ChangeSets)'
    /\ \A id \in DOMAIN sets' : id[1] <= count
    /\ executed \subseteq executed' /\ executed' \subseteq executed \cup {count}
    /\ aws.procedure = "release" => <<count, "rollback">> \notin DOMAIN sets'

(* Most steps change none of it.                                           *)
LEMMA KeepsAll ==
    ASSUME Inv, aws # Idle, UNCHANGED <<stack, sets, sent, count, previous, executed>>
    PROVE  Keeps
  BY DEF Inv, Types, IdsAreOld, Fits, Owns, Keeps, IsTable

(* An invocation goes on, or ends without a receipt.                       *)
LEMMA InvocationStep ==
    ASSUME Inv, aws # Idle, Keeps, UNCHANGED health,
           NEW next \in {Idle} \cup Locals, aws' = next, next # Idle => Fits(next)'
    PROVE  Inv'
<1>1. count \in Nat /\ count' = count /\ sent' = sent /\ previous' = previous
  BY DEF Inv, Types, Keeps
<1>2. Types'
  BY <1>1 DEF Inv, Types, Keeps, IsTable
<1>3. SavedOne'
  BY <1>1 DEF Inv, SavedOne
<1>4. IdsAreOld'
  BY <1>1 DEF Inv, IdsAreOld, Keeps
<1>5. health # NoReceipt => health.by < count /\ health.by # count
  <2>1. health # NoReceipt => health.by \in Nat
    BY DEF Inv, Types, Receipts
  <2> QED
    BY <1>1, <2>1 DEF Inv, ReceiptIsOld
<1>6. ReceiptIsOld'
  BY <1>1, <1>5 DEF Inv, ReceiptIsOld, Keeps
<1>7. RunsAsReported'
  BY <1>1, <1>5 DEF RunsAsReported
<1> QED
  BY <1>2, <1>3, <1>4, <1>6, <1>7 DEF Inv

(* One ends with a receipt that tells the truth.                           *)
LEMMA ReportStep ==
    ASSUME Inv, aws # Idle, Keeps, NEW status \in {"passed", "failed", "blocked"},
           NEW rolled_back \in BOOLEAN, Report(status, rolled_back),
           status = "blocked" => count \notin executed',
           status = "passed" \/ rolled_back =>
               /\ stack'.status # "updating" /\ stack'.template = aws.template
               /\ aws.template \in Healthy
               /\ rolled_back => previous = {aws.template}
    PROVE  Inv'
<1>1. count \in Nat /\ count' = count /\ sent' = sent /\ previous' = previous
  BY DEF Inv, Types, Keeps
<1>2. /\ aws' = Idle
      /\ health' = [status |-> status, rolled_back |-> rolled_back,
                    by |-> count, template |-> aws.template]
  BY DEF Report
<1>3. aws.template \in Templates
  BY Running DEF Inv
<1>4. /\ health' \in Receipts /\ health'.status = status /\ health'.by = count
      /\ health'.rolled_back = rolled_back /\ health'.template = aws.template
  BY <1>1, <1>2, <1>3 DEF Receipts
<1>5. Types'
  BY <1>1, <1>2, <1>4 DEF Inv, Types, Keeps, IsTable
<1>6. SavedOne'
  BY <1>1 DEF Inv, SavedOne
<1>7. IdsAreOld'
  BY <1>1, <1>2 DEF Inv, IdsAreOld, Keeps
<1>8. ReceiptIsOld'
  BY <1>1, <1>2, <1>4 DEF ReceiptIsOld
<1>9. RunsAsReported'
  BY <1>1, <1>4 DEF RunsAsReported
<1> QED
  BY <1>2, <1>5, <1>6, <1>7, <1>8, <1>9 DEF Inv

(* After an error a release was blocked before it executed anything, or    *)
(* deploys again what was saved.                                           *)
LEMMA RaiseStep ==
    ASSUME Inv, aws # Idle, Keeps, Raise,
           aws.procedure = "release" /\ IsPreflight(aws.pc) => count \notin executed'
    PROVE  Inv'
<1>1. CASE aws.procedure = "release" /\ IsPreflight(aws.pc) /\ Report("blocked", FALSE)
  BY <1>1, ReportStep
<1>2. CASE aws.procedure = "release" /\ UNCHANGED health
           /\ \E template \in previous :
                  aws' = [pc |-> "list", procedure |-> "rollback", manual |-> FALSE,
                          template |-> template]
  <2> PICK template \in previous :
               aws' = [pc |-> "list", procedure |-> "rollback", manual |-> FALSE,
                       template |-> template]
    BY <1>2
  <2> PICK next : next = [pc |-> "list", procedure |-> "rollback", manual |-> FALSE,
                           template |-> template]
    OBVIOUS
  <2>1. template \in Templates /\ previous' = {template} /\ count' = count
    BY DEF Inv, Types, SavedOne, Keeps
  <2>2. /\ next \in Locals /\ next.pc = "list" /\ next.procedure = "rollback"
        /\ next.template = template
    <3>1. "rollback" \in Procedures
      BY DEF Procedures
    <3>2. next \in Beginning
      BY <2>1, <3>1 DEF Beginning
    <3> QED
      BY <3>2 DEF Locals
  <2>3. Fits(next)'
    BY <1>2, <2>1, <2>2 DEF Fits, Owns, Own, Follows, Intends, Keeps
  <2> QED
    BY <1>2, <2>2, <2>3, InvocationStep
<1>3. CASE aws.procedure = "rollback" /\ Report("failed", FALSE)
  BY <1>3, ReportStep
<1>4. CASE aws' = Idle /\ UNCHANGED health
  BY <1>4, InvocationStep
<1> QED
  BY <1>1, <1>2, <1>3, <1>4 DEF Raise

(* An invocation that succeeds runs what it says.                          *)
LEMMA SucceedStep ==
    ASSUME Inv, aws # Idle, Keeps, Succeed,
           stack'.status # "updating" /\ stack'.template = aws.template,
           aws.template \in Healthy
    PROVE  Inv'
<1>1. CASE Report("passed", FALSE)
  BY <1>1, ReportStep
<1>2. CASE aws.procedure = "rollback" /\ ~aws.manual /\ Report("failed", TRUE)
  <2>1. previous = {aws.template}
    BY <1>2 DEF Inv, Fits, Intends
  <2> QED
    BY <1>2, <2>1, ReportStep
<1>3. CASE aws' = Idle /\ UNCHANGED health
  BY <1>3, InvocationStep
<1> QED
  BY <1>1, <1>2, <1>3 DEF Succeed

-----------------------------------------------------------------------------
(* The actions.                                                            *)

(* What is saved is one template, and nothing has been created yet.        *)
LEMMA StartInv ==
    ASSUME Inv, aws = Idle, count' = count + 1, UNCHANGED <<stack, sets, sent, health, executed>>,
           NEW next \in {Idle} \cup Beginning, aws' = next,
           previous' \subseteq Templates, SavedOne',
           \/ next = Idle
           \/ next.pc = "check_stack" /\ next.procedure = "release"
           \/ next.pc = "list" /\ next.procedure = "rollback" /\ next.manual
    PROVE  Inv'
<1>1. count \in Nat /\ count' \in Nat
  BY DEF Inv, Types
<1>2. next \in {Idle} \cup Locals
  BY DEF Locals
<1>3. Types'
  BY <1>1, <1>2 DEF Inv, Types, IsTable
<1>4. \A id \in DOMAIN sets : id[1] \in Nat /\ id[1] <= count
  BY DEF Inv, Types, IsTable, Ids, IdsAreOld
<1>5. \A id \in DOMAIN sent : id[1] \in Nat /\ id[1] <= count
  BY DEF Inv, Types, IsTable, Ids, IdsAreOld
<1>6. \A n \in executed : n \in Nat /\ n <= count
  BY DEF Inv, Types, IdsAreOld
<1>7. IdsAreOld'
  BY <1>1, <1>4, <1>5, <1>6 DEF IdsAreOld
<1>8. health # NoReceipt => health.by \in Nat /\ health.by <= count
  BY DEF Inv, Types, Receipts, ReceiptIsOld
<1>9. ReceiptIsOld' /\ RunsAsReported'
  <2>1. health # NoReceipt => health.by <= count' /\ health.by < count' /\ health.by # count'
    BY <1>1, <1>8
  <2> QED
    BY <2>1 DEF Inv, ReceiptIsOld, RunsAsReported
<1>10. \A id \in DOMAIN sets : id[1] # count'
  BY <1>1, <1>4
<1>11. \A procedure : <<count', procedure>> \notin DOMAIN sets
  BY <1>10
<1>12. count' \notin executed
  BY <1>1, <1>6
<1>13. next # Idle => Fits(next)'
  BY <1>11, <1>12 DEF Fits, Owns, Own, Follows, Intends
<1> QED
  BY <1>3, <1>7, <1>9, <1>13 DEF Inv

(* A release saves what is deployed.                                       *)
LEMMA StartReleaseInv ==
    ASSUME Inv, NEW built \in Templates, StartRelease(built)
    PROVE  Inv'
<1> PICK next : next = [pc |-> "check_stack", procedure |-> "release", manual |-> FALSE,
                    template |-> built]
  OBVIOUS
<1>1. /\ aws = Idle /\ count' = count + 1 /\ UNCHANGED <<stack, sets, sent, health, executed>>
      /\ aws' = next
  BY DEF StartRelease
<1>2. next \in Beginning /\ next.pc = "check_stack" /\ next.procedure = "release"
  <2>1. "release" \in Procedures
    BY DEF Procedures
  <2>2. next \in Beginning
    BY <2>1 DEF Beginning
  <2> QED
    BY <2>2
<1>3. previous' \subseteq Templates /\ SavedOne'
  BY DEF StartRelease, Deployed, Inv, Types, SavedOne
<1> QED
  BY <1>1, <1>2, <1>3, StartInv

(* One that is cancelled between the two files saves some template.        *)
LEMMA SaveHalfInv ==
    ASSUME Inv, SaveHalf
    PROVE  Inv'
<1>1. /\ aws = Idle /\ count' = count + 1 /\ UNCHANGED <<stack, sets, sent, health, executed>>
      /\ aws' = Idle
  BY DEF SaveHalf
<1>2. previous' \subseteq Templates /\ SavedOne'
  BY DEF SaveHalf, SavedOne
<1> QED
  BY <1>1, <1>2, StartInv

(* A manual rollback deploys what the last release has saved.              *)
LEMMA StartRollbackInv ==
    ASSUME Inv, StartRollback
    PROVE  Inv'
<1> PICK template \in previous :
             aws' = [pc |-> "list", procedure |-> "rollback", manual |-> TRUE,
                     template |-> template]
  BY DEF StartRollback
<1> PICK next : next = [pc |-> "list", procedure |-> "rollback", manual |-> TRUE,
                    template |-> template]
  OBVIOUS
<1>1. /\ aws = Idle /\ count' = count + 1 /\ UNCHANGED <<stack, sets, sent, health, executed>>
      /\ aws' = next /\ previous' = previous
  BY DEF StartRollback
<1>2. template \in Templates
  BY DEF Inv, Types
<1>3. next \in Beginning /\ next.pc = "list" /\ next.procedure = "rollback" /\ next.manual
  <2>1. "rollback" \in Procedures
    BY DEF Procedures
  <2>2. next \in Beginning
    BY <1>2, <2>1 DEF Beginning
  <2> QED
    BY <2>2
<1>4. previous' \subseteq Templates /\ SavedOne'
  BY <1>1 DEF Inv, Types, SavedOne
<1> QED
  BY <1>1, <1>3, <1>4, StartInv

(* The preflight of the stack changes nothing.                             *)
LEMMA CheckStackInv ==
    ASSUME Inv, CheckStack
    PROVE  Inv'
<1>1. /\ aws.pc = "check_stack" /\ aws # Idle
      /\ UNCHANGED <<stack, sets, sent, count, previous, executed>>
  BY DEF CheckStack, Idle
<1>2. Keeps
  BY <1>1, KeepsAll
<1>3. CASE Raise
  BY <1>1, <1>2, <1>3, RaiseStep DEF Inv, Fits, Intends
<1>4. CASE Goes("list")
  <2> PICK next : next = [aws EXCEPT !.pc = "list"]
    OBVIOUS
  <2>1. /\ next \in Locals /\ next.pc = "list" /\ next.procedure = aws.procedure
        /\ next.manual = aws.manual /\ next.template = aws.template
    BY <1>1, GoesOn DEF Inv
  <2>2. Fits(aws) /\ IsPreflight(aws.pc)
    BY <1>1 DEF Inv, IsPreflight
  <2>3. Fits(next)'
    BY <1>1, <2>1, <2>2 DEF Fits, Owns, Own, Follows, Intends, ChangeSetId
  <2> QED
    BY <1>1, <1>2, <1>4, <2>1, <2>3, InvocationStep DEF Goes
<1> QED
  BY <1>3, <1>4 DEF CheckStack

(* The change sets that are listed are those of others.                    *)
LEMMA ListChangeSetsInv ==
    ASSUME Inv, ListChangeSets
    PROVE  Inv'
<1> PICK next : next = [pc |-> "create", procedure |-> aws.procedure, manual |-> aws.manual,
                        template |-> aws.template, previous_ids |-> DOMAIN sets]
  OBVIOUS
<1>1. /\ aws.pc = "list" /\ aws # Idle /\ aws' = next
      /\ UNCHANGED <<stack, sets, sent, count, previous, health, executed>>
  BY DEF ListChangeSets, Idle
<1>2. DOMAIN sets \in SUBSET Ids
  BY DEF Inv, Types, IsTable
<1>3. aws.procedure \in Procedures /\ aws.manual \in BOOLEAN /\ aws.template \in Templates
  BY <1>1, Running DEF Inv
<1>4. next \in Creating
  BY <1>2, <1>3 DEF Creating
<1>5. /\ next.pc = "create" /\ next.procedure = aws.procedure
      /\ next.manual = aws.manual /\ next.template = aws.template
      /\ next.previous_ids = DOMAIN sets
  OBVIOUS
<1>6. Fits(aws) /\ IsPreflight(aws.pc)
  BY <1>1 DEF Inv, IsPreflight
<1>7. Fits(next)'
  BY <1>1, <1>5, <1>6 DEF Fits, Owns, Own, Follows, Intends
<1> QED
  BY <1>1, <1>4, <1>7, KeepsAll, InvocationStep DEF Locals

(* A change set that is created is empty only if the stack runs its        *)
(* template.                                                               *)
LEMMA SetIsCreated ==
    ASSUME Inv, NEW id \in Ids, NEW template \in Templates, Create(id, template)
    PROVE  /\ IsTable(sets, Ids, ChangeSets)' /\ DOMAIN sets' = DOMAIN sets \cup {id}
           /\ \A k \in DOMAIN sets : k # id => sets'[k] = sets[k]
           /\ sets'[id].template = template
           /\ sets'[id].empty => stack.template = template
           /\ stack.status # "updating"
<1> PICK safe \in BOOLEAN :
         sets' = Put(sets, id, [template |-> template, safe |-> safe,
                                empty |-> template = stack.template])
  BY DEF Create
<1> PICK empty \in BOOLEAN : empty <=> template = stack.template
  OBVIOUS
<1> PICK body : body = [template |-> template, safe |-> safe, empty |-> empty]
  OBVIOUS
<1>1. sets' = Put(sets, id, body)
  OBVIOUS
<1>2. /\ body \in ChangeSets /\ body.template = template
      /\ body.empty => stack.template = template
  BY DEF ChangeSets
<1>3. IsTable(sets, Ids, ChangeSets)
  BY DEF Inv, Types
<1>4. /\ DOMAIN sets' = DOMAIN sets \cup {id} /\ sets'[id] = body
      /\ \A k \in DOMAIN sets : k # id => sets'[k] = sets[k]
  BY <1>1 DEF Put
<1>5. IsTable(sets', Ids, ChangeSets)
  BY <1>1, <1>2, <1>3 DEF IsTable, Put
<1> QED
  BY <1>2, <1>4, <1>5 DEF Create, IsTable

(* The change set of an invocation is its own.                             *)
LEMMA CreateChangeSetInv ==
    ASSUME Inv, CreateChangeSet
    PROVE  Inv'
<1>1. /\ aws.pc = "create" /\ aws # Idle
      /\ UNCHANGED <<stack, sent, count, previous, executed>>
  BY DEF CreateChangeSet, Idle
<1>2. aws.procedure \in Procedures /\ aws.template \in Templates
  BY <1>1, Running DEF Inv
<1>3. Fits(aws) /\ count \in Nat /\ (aws.procedure = "release" => count \notin executed)
  BY <1>1 DEF Inv, Types, Fits, Intends, IsPreflight
<1>4. CASE Raise /\ UNCHANGED sets
  BY <1>1, <1>3, <1>4, KeepsAll, RaiseStep
<1>5. CASE Create(ChangeSetId, aws.template) /\ (Goes("identify") \/ Raise)
  <2> PICK id : id = ChangeSetId
    OBVIOUS
  <2>1. id \in Ids /\ id[1] = count /\ id = Own(aws)
    BY <1>2, <1>3 DEF Ids, ChangeSetId, Own
  <2>2. /\ IsTable(sets, Ids, ChangeSets)' /\ DOMAIN sets' = DOMAIN sets \cup {id}
        /\ sets'[id].template = aws.template
        /\ sets'[id].empty => stack.template = aws.template
        /\ stack.status # "updating"
    BY <1>2, <1>5, <2>1, SetIsCreated
  <2>3. \A k \in DOMAIN sets' : k[1] <= count
    BY <1>3, <2>1, <2>2 DEF Inv, IdsAreOld
  <2>4. aws.procedure = "release" => <<count, "rollback">> \notin DOMAIN sets'
    BY <1>3, <2>1, <2>2 DEF Fits, Owns, Own
  <2>5. Keeps
    BY <1>1, <2>2, <2>3, <2>4 DEF Keeps, Inv, Types
  <2>6. CASE Raise
    BY <1>1, <1>3, <2>5, <2>6, RaiseStep
  <2>7. CASE Goes("identify")
    <3> PICK next : next = [aws EXCEPT !.pc = "identify"]
      OBVIOUS
    <3>1. /\ next \in Locals /\ next.pc = "identify" /\ next.procedure = aws.procedure
          /\ next.manual = aws.manual /\ next.template = aws.template
          /\ next.previous_ids = aws.previous_ids
      BY <1>1, GoesOn DEF Inv
    <3>2. Own(next) = id /\ Own(next)' = id
      BY <1>1, <2>1, <3>1 DEF Own
    <3>3. Owns(next)'
      BY <1>1, <1>3, <2>1, <2>2, <2>4, <3>1, <3>2 DEF Fits, Owns
    <3>4. Follows(next)' /\ Intends(next)'
      BY <1>1, <1>3, <3>1 DEF Fits, Follows, Intends
    <3> QED
      BY <1>1, <2>5, <2>7, <3>1, <3>3, <3>4, InvocationStep DEF Goes, Fits
  <2> QED
    BY <1>5, <2>6, <2>7
<1> QED
  BY <1>4, <1>5 DEF CreateChangeSet

(* The only new change set is the one that was just created; if it is      *)
(* empty the stack runs its template already.                              *)
LEMMA IdentifyChangeSetInv ==
    ASSUME Inv, IdentifyChangeSet
    PROVE  Inv'
<1>1. /\ aws.pc = "identify" /\ aws # Idle
      /\ UNCHANGED <<stack, sets, sent, count, previous, executed>>
  BY DEF IdentifyChangeSet, Idle
<1>2. Keeps /\ Fits(aws) /\ (aws.procedure = "release" => count \notin executed)
  BY <1>1, KeepsAll DEF Inv, Fits, Intends, IsPreflight
<1>3. CASE Raise
  BY <1>1, <1>2, <1>3, RaiseStep
<1>4. ASSUME NEW id \in DOMAIN sets \ aws.previous_ids,
             IsOnlyNew(id, DOMAIN sets \ aws.previous_ids),
             aws' = [pc |-> IF sets[id].empty THEN "smoke_check" ELSE "check",
                     procedure |-> aws.procedure, manual |-> aws.manual,
                     template |-> aws.template, id |-> id],
             UNCHANGED health
      PROVE  Inv'
  <2> PICK pc : pc = IF sets[id].empty THEN "smoke_check" ELSE "check"
    OBVIOUS
  <2> PICK next : next = [pc |-> pc, procedure |-> aws.procedure, manual |-> aws.manual,
                          template |-> aws.template, id |-> id]
    OBVIOUS
  <2>1. id = Own(aws)
    BY <1>1, <1>2, <1>4 DEF IsOnlyNew, Fits, Owns
  <2>2. /\ aws.procedure \in Procedures /\ aws.manual \in BOOLEAN /\ aws.template \in Templates
        /\ id \in Ids
    BY <1>1, Running DEF Inv, Types, IsTable
  <2>3. pc \in {"check", "execute", "wait", "smoke_check"}
    OBVIOUS
  <2>4. next \in Deploying
    BY <2>2, <2>3 DEF Deploying
  <2>5. /\ next.pc = pc /\ next.procedure = aws.procedure
        /\ next.manual = aws.manual /\ next.template = aws.template /\ next.id = id
    OBVIOUS
  <2>6. /\ sets[id].template = aws.template
        /\ sets[id].empty => stack.template = aws.template
        /\ stack.status # "updating"
    BY <1>1, <1>2, <2>1 DEF Fits, Owns
  <2>7. Owns(next)'
    BY <1>1, <1>2, <2>1, <2>5, <2>6 DEF Fits, Owns, Own
  <2>8. Follows(next)'
    BY <1>1, <2>5, <2>6 DEF Follows
  <2>9. Intends(next)'
    BY <1>1, <1>2, <2>5 DEF Fits, Intends
  <2>10. aws' = next
    BY <1>4
  <2> QED
    BY <1>1, <1>2, <1>4, <2>4, <2>7, <2>8, <2>9, <2>10, InvocationStep DEF Fits, Locals
<1> QED
  BY <1>3, <1>4 DEF IdentifyChangeSet

(* A change set is executed only after it was found safe.                  *)
LEMMA CheckChangeSetInv ==
    ASSUME Inv, CheckChangeSet
    PROVE  Inv'
<1>1. /\ aws.pc = "check" /\ aws # Idle
      /\ UNCHANGED <<stack, sets, sent, count, previous, executed>>
  BY DEF CheckChangeSet, Idle
<1>2. Keeps /\ Fits(aws) /\ (aws.procedure = "release" => count \notin executed)
  BY <1>1, KeepsAll DEF Inv, Fits, Intends, IsPreflight
<1>3. CASE Raise
  BY <1>1, <1>2, <1>3, RaiseStep
<1>4. CASE aws.id \in DOMAIN sets /\ IsSafe(sets[aws.id]) /\ Goes("execute")
  <2> PICK next : next = [aws EXCEPT !.pc = "execute"]
    OBVIOUS
  <2>1. /\ next \in Locals /\ next.pc = "execute" /\ next.procedure = aws.procedure
        /\ next.manual = aws.manual /\ next.template = aws.template /\ next.id = aws.id
    BY <1>1, GoesOn DEF Inv
  <2>2. Owns(next)'
    BY <1>1, <1>2, <1>4, <2>1 DEF Fits, Owns, Own, IsSafe
  <2>3. Follows(next)' /\ Intends(next)'
    BY <1>1, <1>2, <2>1 DEF Fits, Follows, Intends
  <2> QED
    BY <1>1, <1>2, <1>4, <2>1, <2>2, <2>3, InvocationStep DEF Goes, Fits
<1> QED
  BY <1>3, <1>4 DEF CheckChangeSet

(* An update is that of the invocation, whether it learns of it or not.    *)
LEMMA ExecuteChangeSetInv ==
    ASSUME Inv, ExecuteChangeSet
    PROVE  Inv'
<1>1. aws.pc = "execute" /\ aws # Idle /\ UNCHANGED <<sent, count, previous>>
  BY DEF ExecuteChangeSet, Idle
<1>2. ~IsPreflight(aws.pc) /\ Fits(aws) /\ count \in Nat
  BY <1>1 DEF IsPreflight, Inv, Types
<1>3. CASE Raise /\ UNCHANGED <<stack, sets, executed>>
  BY <1>1, <1>2, <1>3, KeepsAll, RaiseStep
<1>4. CASE /\ aws.id \in DOMAIN sets
           /\ stack' = [stack EXCEPT !.target = sets[aws.id].template, !.status = "updating"]
           /\ sets' = NoItems
           /\ executed' = executed \cup {count}
           /\ Goes("wait") \/ Raise
  <2>1. sets[aws.id].template = aws.template /\ aws.template \in Templates
    BY <1>1, <1>2, <1>4, Running DEF Fits, Owns, Inv
  <2>2. /\ stack' \in [template : Templates, target : Templates,
                       status : {"complete", "updating", "rolled_back"}]
        /\ stack'.status = "updating" /\ stack'.target = aws.template
    BY <1>4, <2>1 DEF Inv, Types
  <2>3. IsTable(sets', Ids, ChangeSets) /\ DOMAIN sets' = {}
    BY <1>4, NoItemsType
  <2>4. Keeps
    BY <1>1, <1>4, <2>2, <2>3 DEF Keeps, IsTable
  <2>5. CASE Raise
    BY <1>1, <1>2, <2>4, <2>5, RaiseStep
  <2>6. CASE Goes("wait")
    <3> PICK next : next = [aws EXCEPT !.pc = "wait"]
      OBVIOUS
    <3>1. /\ next \in Locals /\ next.pc = "wait" /\ next.procedure = aws.procedure
          /\ next.manual = aws.manual /\ next.template = aws.template
      BY <1>1, GoesOn DEF Inv
    <3>2. Owns(next)' /\ Follows(next)'
      BY <2>2, <2>3, <3>1 DEF Owns, Follows
    <3>3. Intends(next)'
      BY <1>1, <1>2, <3>1 DEF Fits, Intends, IsPreflight
    <3> QED
      BY <1>1, <2>4, <2>6, <3>1, <3>2, <3>3, InvocationStep DEF Goes, Fits
  <2> QED
    BY <1>4, <2>5, <2>6
<1> QED
  BY <1>3, <1>4 DEF ExecuteChangeSet

(* A stack that is complete runs what was executed.                        *)
LEMMA AwaitUpdateInv ==
    ASSUME Inv, AwaitUpdate
    PROVE  Inv'
<1>1. /\ aws.pc = "wait" /\ aws # Idle
      /\ UNCHANGED <<stack, sets, sent, count, previous, executed>>
  BY DEF AwaitUpdate, Idle
<1>2. Keeps /\ Fits(aws) /\ ~IsPreflight(aws.pc)
  BY <1>1, KeepsAll DEF Inv, IsPreflight
<1>3. CASE Raise
  BY <1>1, <1>2, <1>3, RaiseStep
<1>4. CASE IsUpdated(stack.status) /\ Goes("smoke_check")
  <2> PICK next : next = [aws EXCEPT !.pc = "smoke_check"]
    OBVIOUS
  <2>1. /\ next \in Locals /\ next.pc = "smoke_check" /\ next.procedure = aws.procedure
        /\ next.manual = aws.manual /\ next.template = aws.template
    BY <1>1, GoesOn DEF Inv
  <2>2. Owns(next)' /\ Follows(next)'
    BY <1>1, <1>2, <1>4, <2>1 DEF Fits, Owns, Follows, IsUpdated
  <2>3. Intends(next)'
    BY <1>1, <1>2, <2>1 DEF Fits, Intends, IsPreflight
  <2> QED
    BY <1>1, <1>2, <1>4, <2>1, <2>2, <2>3, InvocationStep DEF Goes, Fits
<1> QED
  BY <1>3, <1>4 DEF AwaitUpdate

(* What was checked live is what the invocation has deployed.              *)
LEMMA SmokeCheckInv ==
    ASSUME Inv, SmokeCheck
    PROVE  Inv'
<1>1. /\ aws.pc = "smoke_check" /\ aws # Idle
      /\ UNCHANGED <<stack, sets, sent, count, previous, executed>>
  BY DEF SmokeCheck, Idle
<1>2. Keeps /\ Fits(aws) /\ ~IsPreflight(aws.pc)
  BY <1>1, KeepsAll DEF Inv, IsPreflight
<1>3. CASE Raise
  BY <1>1, <1>2, <1>3, RaiseStep
<1>4. CASE stack.template \in Healthy /\ Succeed
  <2>1. stack'.status # "updating" /\ stack'.template = aws.template /\ aws.template \in Healthy
    BY <1>1, <1>2, <1>4 DEF Fits, Follows
  <2> QED
    BY <1>1, <1>2, <1>4, <2>1, SucceedStep
<1> QED
  BY <1>3, <1>4 DEF SmokeCheck

(* A cancelled invocation leaves no receipt, perhaps a request.            *)
LEMMA CancelInv ==
    ASSUME Inv, Cancel
    PROVE  Inv'
<1>1. /\ aws # Idle /\ aws' = Idle /\ UNCHANGED <<stack, sets, count, previous, health, executed>>
      /\ sent' = IF aws.pc = "create" THEN Put(sent, ChangeSetId, aws.template) ELSE sent
  BY DEF Cancel
<1>2. ChangeSetId \in Ids /\ ChangeSetId[1] = count /\ count \in Nat /\ aws.template \in Templates
  BY <1>1, Running DEF Inv, Types, Ids, ChangeSetId
<1>3. IsTable(sent, Ids, Templates)
  BY DEF Inv, Types
<1>4. IsTable(sent', Ids, Templates) /\ DOMAIN sent' \subseteq DOMAIN sent \cup {ChangeSetId}
  BY <1>1, <1>2, <1>3 DEF IsTable, Put
<1>5. Types'
  BY <1>1, <1>4 DEF Inv, Types, IsTable
<1>6. IdsAreOld'
  BY <1>1, <1>2, <1>4 DEF Inv, IdsAreOld
<1>7. SavedOne' /\ ReceiptIsOld' /\ RunsAsReported'
  BY <1>1 DEF Inv, SavedOne, ReceiptIsOld, RunsAsReported
<1> QED
  BY <1>1, <1>5, <1>6, <1>7 DEF Inv

(* A request that is carried out late creates a change set that no         *)
(* invocation that is running takes for its own.                           *)
LEMMA CarryOutInv ==
    ASSUME Inv, NEW id \in Ids, CarryOut(id)
    PROVE  Inv'
<1>1. /\ id \in DOMAIN sent /\ Create(id, sent[id]) /\ sent' = Delete(sent, {id})
      /\ UNCHANGED <<stack, count, aws, previous, health, executed>>
  BY DEF CarryOut
<1>2. IsTable(sent, Ids, Templates) /\ sent[id] \in Templates
  BY <1>1 DEF Inv, Types, IsTable
<1>3. /\ IsTable(sets, Ids, ChangeSets)' /\ DOMAIN sets' = DOMAIN sets \cup {id}
      /\ \A k \in DOMAIN sets : k # id => sets'[k] = sets[k]
  BY <1>1, <1>2, SetIsCreated
<1>4. IsTable(sent', Ids, Templates) /\ DOMAIN sent' = DOMAIN sent \ {id}
  BY <1>1, <1>2 DEF IsTable, Delete
<1>5. id[1] \in Nat /\ count \in Nat /\ id[1] <= count /\ (aws # Idle => id[1] < count)
  BY <1>1 DEF Ids, Inv, Types, IdsAreOld
<1>6. Types'
  BY <1>1, <1>3, <1>4 DEF Inv, Types, IsTable
<1>7. IdsAreOld'
  BY <1>1, <1>3, <1>4, <1>5 DEF Inv, IdsAreOld
<1>8. SavedOne' /\ ReceiptIsOld' /\ RunsAsReported'
  BY <1>1 DEF Inv, SavedOne, ReceiptIsOld, RunsAsReported
<1>9. ASSUME aws # Idle PROVE Fits(aws)'
  <2>1. \A procedure : <<count, procedure>> # id
    BY <1>5, <1>9
  <2>2. Fits(aws)
    BY <1>9 DEF Inv
  <2>3. Owns(aws)'
    BY <1>1, <1>3, <2>1, <2>2 DEF Fits, Owns, Own
  <2>4. Follows(aws)' /\ Intends(aws)'
    BY <1>1, <2>2 DEF Fits, Follows, Intends
  <2> QED
    BY <2>3, <2>4 DEF Fits
<1> QED
  BY <1>1, <1>6, <1>7, <1>8, <1>9 DEF Inv

(* An update ends with what it was to deploy, or with what ran before.     *)
LEMMA FinishUpdateInv ==
    ASSUME Inv, FinishUpdate
    PROVE  Inv'
<1>1. /\ stack.status = "updating" /\ UNCHANGED <<sets, sent, count, aws, previous, health, executed>>
      /\ \/ stack' = [stack EXCEPT !.template = stack.target, !.status = "complete"]
         \/ stack' = [stack EXCEPT !.target = stack.template, !.status = "rolled_back"]
  BY DEF FinishUpdate
<1>2. /\ stack' \in [template : Templates, target : Templates,
                     status : {"complete", "updating", "rolled_back"}]
      /\ stack'.status = "complete" => stack'.template = stack.target
      /\ stack'.status \in {"complete", "rolled_back"}
  BY <1>1 DEF Inv, Types
<1>3. Types'
  BY <1>1, <1>2 DEF Inv, Types, IsTable
<1>4. SavedOne' /\ IdsAreOld' /\ ReceiptIsOld'
  BY <1>1 DEF Inv, SavedOne, IdsAreOld, ReceiptIsOld
<1>5. RunsAsReported'
  BY <1>1 DEF Inv, RunsAsReported
<1>6. ASSUME aws # Idle PROVE Fits(aws)'
  <2>1. Fits(aws)
    BY <1>6 DEF Inv
  <2>2. aws.pc # "smoke_check" /\ aws.pc # "identify"
    BY <1>1, <2>1 DEF Fits, Owns, Follows
  <2>3. Owns(aws)' /\ Intends(aws)'
    BY <1>1, <2>1, <2>2 DEF Fits, Owns, Own, Intends
  <2>4. Follows(aws)'
    BY <1>1, <1>2, <2>1, <2>2 DEF Fits, Follows
  <2> QED
    BY <2>3, <2>4 DEF Fits
<1> QED
  BY <1>1, <1>3, <1>4, <1>5, <1>6 DEF Inv

-----------------------------------------------------------------------------
(* The theorems.                                                           *)

(* Every step keeps the invariant.                                         *)
LEMMA NextInv == Inv /\ [Next]_vars => Inv'
<1> SUFFICES ASSUME Inv, [Next]_vars PROVE Inv'
  OBVIOUS
<1>1. ASSUME NEW built \in Templates, StartRelease(built) PROVE Inv'
  BY <1>1, StartReleaseInv
<1>2. CASE StartRollback
  BY <1>2, StartRollbackInv
<1>3. CASE CheckStack
  BY <1>3, CheckStackInv
<1>4. CASE ListChangeSets
  BY <1>4, ListChangeSetsInv
<1>5. CASE CreateChangeSet
  BY <1>5, CreateChangeSetInv
<1>6. CASE IdentifyChangeSet
  BY <1>6, IdentifyChangeSetInv
<1>7. CASE CheckChangeSet
  BY <1>7, CheckChangeSetInv
<1>8. CASE ExecuteChangeSet
  BY <1>8, ExecuteChangeSetInv
<1>9. CASE AwaitUpdate
  BY <1>9, AwaitUpdateInv
<1>10. CASE SmokeCheck
  BY <1>10, SmokeCheckInv
<1>11. CASE Cancel
  BY <1>11, CancelInv
<1>12. ASSUME NEW id \in Invocations \X Procedures, CarryOut(id) PROVE Inv'
  <2>1. id \in Ids
    BY <1>12 DEF CarryOut, Inv, Types, IsTable
  <2> QED
    BY <1>12, <2>1, CarryOutInv
<1>13. CASE FinishUpdate
  BY <1>13, FinishUpdateInv
<1>14. CASE SaveHalf
  BY <1>14, SaveHalfInv
<1>15. CASE UNCHANGED vars
  BY <1>15 DEF vars, Inv, Types, IsTable, SavedOne, IdsAreOld, ReceiptIsOld, Fits, Owns, Own,
       Follows, Intends, RunsAsReported
<1> QED
  BY <1>1, <1>2, <1>3, <1>4, <1>5, <1>6, <1>7, <1>8, <1>9, <1>10, <1>11, <1>12, <1>13, <1>14,
     <1>15 DEF Next

(* An invocation owns the change set it identifies and follows the update  *)
(* it starts, whatever cancelled ones have left behind (prepare_change_set,*)
(* execute_checked_change_set, release).                                   *)
THEOREM Invariant == Spec => []Inv
  BY InitInv, NextInv, PTL DEF Spec

(* A release that reports itself blocked has executed no change set, and   *)
(* until the next invocation the application runs what the last receipt    *)
(* says (deploy_template, release, prepare_change_set, the waiter).        *)
THEOREM ReceiptsAreTrue == Spec => []ReceiptTellsWhatRuns
<1>1. Inv => BlockedTouchedNothing
  BY DEF Inv, ReceiptIsOld, BlockedTouchedNothing, NoReceipt
<1>2. Inv => ReceiptTellsWhatRuns
  BY <1>1 DEF Inv, ReceiptTellsWhatRuns
<1> QED
  BY <1>2, Invariant, PTL

(* An update deploys the checked change set of the invocation that is      *)
(* running (check_change_set, prepare_change_set).                         *)
THEOREM UpdatesAreChecked == Spec => OnlyCheckedUpdates
<1>1. ASSUME Inv, [Next]_vars, stack'.status = "updating", stack.status # "updating"
      PROVE  stack'.target = aws.template /\ sets[aws.id].safe
  <2>1. ExecuteChangeSet /\ stack' # stack
    <3>1. stack' # stack
      BY <1>1
    <3>2. ~FinishUpdate
      BY <1>1 DEF FinishUpdate
    <3> QED
      BY <1>1, <3>1, <3>2 DEF Next, vars, StartRelease, SaveHalf, StartRollback,
           CheckStack, ListChangeSets, CreateChangeSet, IdentifyChangeSet, CheckChangeSet,
           AwaitUpdate, SmokeCheck, Cancel, CarryOut
  <2>2. /\ aws.pc = "execute" /\ aws # Idle /\ aws.id \in DOMAIN sets
        /\ stack' = [stack EXCEPT !.target = sets[aws.id].template, !.status = "updating"]
    BY <2>1 DEF ExecuteChangeSet, Idle
  <2>3. sets[aws.id].template = aws.template /\ sets[aws.id].safe
    BY <1>1, <2>2 DEF Inv, Fits, Owns
  <2>4. stack'.target = sets[aws.id].template
    BY <1>1, <2>2 DEF Inv, Types
  <2> QED
    BY <2>3, <2>4
<1> QED
  BY <1>1, Invariant, PTL DEF Spec, OnlyCheckedUpdates
=============================================================================
