----------------------------- MODULE Workspaces -----------------------------
(***************************************************************************)
(* One workspace: how it is initialised, reset, used, kept alive and       *)
(* cleaned up.  META names the active generation; the records of a         *)
(* generation are items of a partition of their own, written one by one    *)
(* before META names it, and removed one by one by hourly maintenance      *)
(* after it has been retired.                                              *)
(*                                                                         *)
(* A process is one Lambda invocation (or command): a request, or the one  *)
(* maintenance scan.  Time is kept as ages that Tick advances: how long    *)
(* ago META was touched, a generation was staged, an invocation began.     *)
(* An invocation cannot outlive its timeout, so Tick waits until whoever   *)
(* has reached it has ended.  Ages stop where no comparison can tell them  *)
(* apart any more.                                                         *)
(*                                                                         *)
(* uuid4 never repeats; a generation of which nothing is left, in the      *)
(* table or in an invocation, may stand for the next one.                  *)
(*                                                                         *)
(* A definition called a mutant is not part of the model: it is the        *)
(* definition after it with one mistake in it.                             *)
(***************************************************************************)
EXTENDS Integers, FiniteSets

CONSTANTS
    Requests,          \* concurrent invocations
    Generations,       \* identities of generations
    Seeds,             \* the records of a payload
    Notes,             \* records that requests write afterwards
    Modes,             \* the kinds of workspace to look at
    Lifetime, Grace,   \* 24 hours, one hour
    RequestTimeout, ScanTimeout

CONSTANTS None, STAGING

(* An initialiser and a scan that began while it was staging both end      *)
(* within the hour that protects staged records.                           *)
ASSUME TimeoutsAssumption ==
    /\ {Lifetime, Grace, RequestTimeout, ScanTimeout} \subseteq Nat
    /\ RequestTimeout + ScanTimeout < Grace
    /\ RequestTimeout + ScanTimeout <= Lifetime

ASSUME NamesAssumption ==
    /\ None \notin Generations
    /\ STAGING \notin Seeds \cup Notes
    /\ Seeds \cap Notes = {}
    /\ Modes \subseteq {"demo", "entra", "cli"}

Records == Seeds \cup Notes \cup {STAGING}
Ages == 0 .. Lifetime + 1
NoMeta == [generation |-> None, age |-> 0]

VARIABLES
    mode,        \* whose workspace it is; never changes
    meta,        \* META: the active generation and the age of updatedAt
    items,       \* the items of every generation's partition
    staged,      \* the age of its STAGING record
    request,     \* local state of every request
    scan         \* local state of maintenance

vars == <<mode, meta, items, staged, request, scan>>

Idle == [pc |-> "idle", age |-> 0]

Step(r, local) == request' = [request EXCEPT ![r] = local]

IsLive(r) == request[r].pc # "idle"

Exists == meta.generation # None

IsActive(g) == Exists /\ meta.generation = g

-----------------------------------------------------------------------------
(* Initialising and resetting.                                             *)

(* Mutant: META as a whole is remembered as what is replaced.              *)
StagingOverBody(g, previous) ==
    [pc |-> "stage", age |-> 0, generation |-> g, previous |-> meta, todo |-> Seeds]

Staging(g, previous) ==
    [pc |-> "stage", age |-> 0, generation |-> g, previous |-> previous, todo |-> Seeds]

Init ==
    /\ mode \in Modes
    /\ meta = NoMeta
    /\ items = [g \in Generations |-> {}]
    /\ staged = [g \in Generations |-> 0]
    /\ scan = Idle
    /\ \/ /\ mode # "demo"
          /\ request = [r \in Requests |-> Idle]
       \/ (* open_demo_workspace creates each workspace once, under a new id. *)
          /\ mode = "demo"
          /\ \E creator \in Requests, g \in Generations :
                 request = [r \in Requests |->
                               IF r = creator THEN Staging(g, None) ELSE Idle]

Mentions(local) == IF "generation" \in DOMAIN local THEN {local.generation} ELSE {}

Fresh(g) ==
    /\ items[g] = {}
    /\ ~IsActive(g)
    /\ g \notin Mentions(scan)
    /\ \A r \in Requests : g \notin Mentions(request[r])

(* initialize reads what it replaces, which need not be what its caller saw*)
BeginStaging(r, g) ==
    /\ Fresh(g)
    /\ Step(r, [Staging(g, meta.generation) EXCEPT !.age = request[r].age])
    /\ UNCHANGED <<mode, meta, items, staged, scan>>

(* reset_demo, which replaces what is there.                               *)
Reset(r, g) ==
    /\ mode = "cli"
    /\ ~IsLive(r)
    /\ BeginStaging(r, g)

(* initialize_demo_workspace found no workspace.                           *)
InitializeImplicitly(r, g) ==
    /\ request[r].pc = "initialize"
    /\ BeginStaging(r, g)

(* The first transaction of initialize.                                    *)
Stage(r) ==
    LET g == request[r].generation
    IN  /\ request[r].pc = "stage"
        /\ items' = [items EXCEPT ![g] = {STAGING}]
        /\ staged' = [staged EXCEPT ![g] = 0]
        /\ Step(r, [request[r] EXCEPT !.pc = "seed"])
        /\ UNCHANGED <<mode, meta, scan>>

(* One record per transaction; which comes first does not matter here.     *)
Seed(r, record) ==
    LET g == request[r].generation
    IN  /\ request[r].pc = "seed"
        /\ record \in request[r].todo
        /\ items' = [items EXCEPT ![g] = @ \cup {record}]
        /\ Step(r, [request[r] EXCEPT !.todo = @ \ {record}])
        /\ UNCHANGED <<mode, meta, staged, scan>>

(* Mutant: META is published before the records are complete.              *)
IsStarted(local) == local.pc = "seed"

IsSeeded(local) == local.pc = "seed" /\ local.todo = {}

(* absent for a first generation, unchanged for a later one.               *)
IsStill(previous) == meta.generation = previous

Serving(g, age) == [pc |-> "serve", age |-> age, generation |-> g, whole |-> TRUE]

(* updatedAt was taken when the payload was built, as old as the request.  *)
Publish(r) ==
    LET g == request[r].generation
    IN  /\ IsSeeded(request[r])
        /\ IF IsStill(request[r].previous)
           THEN /\ meta' = [generation |-> g, age |-> request[r].age]
                /\ Step(r, Serving(g, request[r].age))
           ELSE Step(r, Idle) /\ UNCHANGED meta
        /\ UNCHANGED <<mode, items, staged, scan>>

-----------------------------------------------------------------------------
(* Using a workspace.                                                      *)

IsExpired(age) == age > Lifetime

(* get_request_context: take the time, read META.  A demo visitor without  *)
(* a workspace is given another one; an employee or a command initialises. *)
Open(r) ==
    /\ ~IsLive(r)
    /\ \/ /\ Exists
          /\ Step(r, [pc |-> CASE mode # "demo" -> "serve"
                             [] mode = "demo" /\ IsExpired(meta.age) -> "read_delete"
                             [] mode = "demo" /\ ~IsExpired(meta.age) -> "read_touch",
                      age |-> 0, generation |-> meta.generation, whole |-> TRUE])
       \/ /\ ~Exists
          /\ mode # "demo"
          /\ Step(r, [pc |-> "initialize", age |-> 0])
    /\ UNCHANGED <<mode, meta, items, staged, scan>>

(* workspace.touch and workspace.delete read META again.                   *)
ReadTouch(r) ==
    /\ request[r].pc = "read_touch"
    /\ Step(r, IF Exists
               THEN [pc |-> "touch", age |-> request[r].age,
                     generation |-> request[r].generation, body |-> meta]
               ELSE [request[r] EXCEPT !.pc = "serve"])
    /\ UNCHANGED <<mode, meta, items, staged, scan>>

(* A refused touch is ignored.                                             *)
Touch(r) ==
    /\ request[r].pc = "touch"
    /\ meta' = IF meta = request[r].body THEN [meta EXCEPT !.age = request[r].age] ELSE meta
    /\ Step(r, Serving(request[r].generation, request[r].age))
    /\ UNCHANGED <<mode, items, staged, scan>>

ReadDelete(r) ==
    /\ request[r].pc = "read_delete"
    /\ Step(r, IF Exists
               THEN [pc |-> "delete", age |-> request[r].age, generation |-> meta.generation]
               ELSE Idle)
    /\ UNCHANGED <<mode, meta, items, staged, scan>>

(* Conditioned on the generation only.  The request goes on with another   *)
(* workspace.                                                              *)
DeleteExpired(r) ==
    /\ request[r].pc = "delete"
    /\ meta' = IF IsActive(request[r].generation) THEN NoMeta ELSE meta
    /\ Step(r, Idle)
    /\ UNCHANGED <<mode, items, staged, scan>>

(* A request reads records of the generation it is bound to, without a     *)
(* fence; whole remembers whether it ever missed a seeded one.             *)
Read(r) ==
    /\ request[r].pc = "serve"
    /\ Step(r, [request[r] EXCEPT !.whole = @ /\ Seeds \subseteq items[request[r].generation]])
    /\ UNCHANGED <<mode, meta, items, staged, scan>>

(* transaction: META is read, and compared again by the transaction.       *)
Fence(r) ==
    /\ request[r].pc = "serve"
    /\ Step(r, IF IsActive(request[r].generation)
               THEN [request[r] EXCEPT !.pc = "commit"] ELSE Idle)
    /\ UNCHANGED <<mode, meta, items, staged, scan>>

(* Mutant: the transaction carries no condition on META.                   *)
IsReadable(g) == TRUE

IsFenced(g) == IsActive(g)

Commit(r, note) ==
    LET g == request[r].generation
    IN  /\ request[r].pc = "commit"
        /\ IF IsFenced(g)
           THEN /\ items' = [items EXCEPT ![g] = @ \cup {note}]
                /\ Step(r, [request[r] EXCEPT !.pc = "serve"])
           ELSE Step(r, Idle) /\ UNCHANGED items
        /\ UNCHANGED <<mode, meta, staged, scan>>

(* The invocation returns, raises or dies.                                 *)
End(r) ==
    /\ IsLive(r)
    /\ Step(r, Idle)
    /\ UNCHANGED <<mode, meta, items, staged, scan>>

-----------------------------------------------------------------------------
(* Maintenance.  The scan has returned an item some time before its turn.  *)

Turn(local) == scan' = local /\ UNCHANGED <<mode, meta, staged, request>>

ScanMeta ==
    /\ scan = Idle
    /\ Exists
    /\ Turn([pc |-> "read_expiry", age |-> 0, body |-> meta])
    /\ UNCHANGED items

ReadExpiry ==
    /\ scan.pc = "read_expiry"
    /\ Turn(IF Exists /\ mode = "demo" /\ IsExpired(meta.age)
            THEN [scan EXCEPT !.pc = "expire"] ELSE Idle)
    /\ UNCHANGED items

(* Mutant: as in workspace.delete, the generation is compared.             *)
IsSameGeneration(body) == meta.generation = body.generation

IsSameBody(body) == meta = body

Expire ==
    /\ scan.pc = "expire"
    /\ meta' = IF IsSameBody(scan.body) THEN NoMeta ELSE meta
    /\ scan' = Idle
    /\ UNCHANGED <<mode, items, staged, request>>

ScanRecord(g, record) ==
    /\ scan = Idle
    /\ record \in items[g]
    /\ Turn([pc |-> "read_active", age |-> 0, generation |-> g, record |-> record])
    /\ UNCHANGED items

ReadActive ==
    /\ scan.pc = "read_active"
    /\ Turn(IF IsActive(scan.generation) THEN Idle
            ELSE [scan EXCEPT !.pc = "read_staging"])
    /\ UNCHANGED items

(* Mutant: a STAGING record protects for the time of an invocation only.   *)
MayBeRecentlyStaging(g) == STAGING \in items[g] /\ staged[g] < RequestTimeout

MayBeStaging(g) == STAGING \in items[g] /\ staged[g] < Grace

ReadStaging ==
    /\ scan.pc = "read_staging"
    /\ Turn(IF MayBeStaging(scan.generation) THEN Idle
            ELSE [scan EXCEPT !.pc = "remove"])
    /\ UNCHANGED items

RemoveRecord ==
    /\ scan.pc = "remove"
    /\ items' = [items EXCEPT ![scan.generation] = @ \ {scan.record}]
    /\ Turn(Idle)

EndScan ==
    /\ scan # Idle
    /\ Turn(Idle)
    /\ UNCHANGED items

-----------------------------------------------------------------------------
Older(age, limit) == IF age < limit THEN age + 1 ELSE age

OlderBody(local) ==
    IF "body" \in DOMAIN local
    THEN [local EXCEPT !.age = @ + 1, !.body.age = Older(@, Lifetime + 1)]
    ELSE [local EXCEPT !.age = @ + 1]

OlderLocal(local) == IF local.pc = "idle" THEN local ELSE OlderBody(local)

Tick ==
    /\ \A r \in Requests : IsLive(r) => request[r].age < RequestTimeout
    /\ scan # Idle => scan.age < ScanTimeout
    /\ meta' = IF Exists THEN [meta EXCEPT !.age = Older(@, Lifetime + 1)] ELSE meta
    /\ staged' = [g \in Generations |->
                     IF STAGING \in items[g] THEN Older(staged[g], Grace) ELSE 0]
    /\ request' = [r \in Requests |-> OlderLocal(request[r])]
    /\ scan' = OlderLocal(scan)
    /\ UNCHANGED <<mode, items>>

Request(r) ==
    \/ \E g \in Generations : Reset(r, g) \/ InitializeImplicitly(r, g)
    \/ Stage(r) \/ Publish(r)
    \/ \E record \in Seeds : Seed(r, record)
    \/ Open(r) \/ ReadTouch(r) \/ Touch(r) \/ ReadDelete(r) \/ DeleteExpired(r)
    \/ Read(r) \/ Fence(r)
    \/ \E note \in Notes : Commit(r, note)
    \/ End(r)

ScanStep ==
    \/ ReadExpiry \/ Expire \/ ReadActive \/ ReadStaging \/ RemoveRecord

Maintenance ==
    \/ ScanMeta
    \/ \E g \in Generations : \E record \in items[g] : ScanRecord(g, record)
    \/ ScanStep
    \/ EndScan

Next == (\E r \in Requests : Request(r)) \/ Maintenance \/ Tick

Spec == Init /\ [][Next]_vars

-----------------------------------------------------------------------------
Bodies == [generation : Generations, age : Ages]

Metas == Bodies \cup {NoMeta}

(* What the invocations remember between two steps.                        *)
Locals ==
    [pc : {"idle", "initialize"}, age : 0 .. RequestTimeout]
        \cup [pc : {"stage", "seed"}, age : 0 .. RequestTimeout,
              generation : Generations, previous : Generations \cup {None},
              todo : SUBSET Seeds]
        \cup [pc : {"read_touch", "read_delete", "serve", "commit"},
              age : 0 .. RequestTimeout, generation : Generations, whole : BOOLEAN]
        \cup [pc : {"touch"}, age : 0 .. RequestTimeout, generation : Generations,
              body : Bodies]
        \cup [pc : {"delete"}, age : 0 .. RequestTimeout, generation : Generations]

Scans ==
    [pc : {"idle"}, age : {0}]
        \cup [pc : {"read_expiry", "expire"}, age : 0 .. ScanTimeout, body : Bodies]
        \cup [pc : {"read_active", "read_staging", "remove"}, age : 0 .. ScanTimeout,
              generation : Generations, record : Records]

(* The records have their types, and nothing outlives its timeout.         *)
TypeOK ==
    /\ mode \in Modes
    /\ meta \in Metas
    /\ items \in [Generations -> SUBSET Records]
    /\ staged \in [Generations -> 0 .. Grace]
    /\ request \in [Requests -> Locals]
    /\ scan \in Scans

(* Nobody sees a half-initialised workspace, and maintenance never takes a *)
(* record from one: while META names a generation, every seeded record of  *)
(* it is there, whoever crashed, raced or cleaned up while it was staged.  *)
PublishedIsWhole == Exists => Seeds \subseteq items[meta.generation]

Commits(r) == request[r].pc = "commit" /\ request'[r].pc = "serve"

(* A request may outlive its generation and read what maintenance has left *)
(* of it, but it never commits anything after it has missed a record, and  *)
(* what it commits is not lost in a generation that was replaced meanwhile.*)
WritesFollowWholeReads ==
    [][\A r \in Requests :
           Commits(r) => request[r].whole /\ IsActive(request[r].generation)]_vars

(* Maintenance removes a workspace only if nobody has touched it for its   *)
(* whole lifetime, however long ago its scan has read META.                *)
KeptWhileUsed ==
    [][(Exists /\ meta' = NoMeta /\ UNCHANGED request) => IsExpired(meta.age)]_vars

(* What requests see of a workspace changes as a whole.                    *)
Abstract == INSTANCE WorkspaceRecords WITH
    Identities <- Generations,
    identity <- meta.generation,
    visible <- IF Exists THEN items[meta.generation] \ {STAGING} ELSE {}

(* Staging, crashes, deletions and clean-up one record at a time implement *)
(* the workspace whose records appear and disappear at once.               *)
ImplementsWorkspaceRecords == Abstract!Spec
=============================================================================
