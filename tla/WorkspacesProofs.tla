-------------------------- MODULE WorkspacesProofs --------------------------
(***************************************************************************)
(* Theorems about Workspaces, for any requests, generations and records,   *)
(* and for any timeouts that keep to TimeoutsAssumption: a published       *)
(* workspace is whole, a request that has missed a record commits nothing, *)
(* and maintenance removes only what nobody has used for a lifetime.       *)
(***************************************************************************)
EXTENDS Workspaces, TLAPS

USE DEF Ages

(* Who is writing the records of generation g.                             *)
Stagers(g) ==
    {r \in Requests : request[r].pc \in {"stage", "seed"} /\ request[r].generation = g}

(* Nobody else knows a generation that is being staged.                    *)
StagersAreAlone ==
    \A r \in Requests : request[r].pc \in {"stage", "seed"} =>
        /\ ~IsActive(request[r].generation)
        /\ \A q \in Requests \ {r} : request[r].generation \notin Mentions(request[q])

(* Before its first record is written, maintenance cannot know it either.  *)
UnstagedAreUnknown ==
    \A r \in Requests : request[r].pc = "stage" =>
        /\ request[r].todo = Seeds
        /\ items[request[r].generation] = {}
        /\ request[r].generation \notin Mentions(scan)

(* What has been seeded stays, under a STAGING record not older than the   *)
(* invocation that has written it.                                         *)
SeededStays ==
    \A r \in Requests : request[r].pc = "seed" =>
        LET g == request[r].generation
        IN  /\ items[g] = (Seeds \ request[r].todo) \cup {STAGING}
            /\ staged[g] <= request[r].age

(* A published generation keeps its STAGING record, too.                   *)
ActiveIsWhole == Exists => Seeds \cup {STAGING} \subseteq items[meta.generation]

(* If a generation has been published since the scan found it inactive,    *)
(* its staging is still recent.                                            *)
ScansSeeStaging ==
    scan.pc = "read_staging" /\ IsActive(scan.generation) =>
        staged[scan.generation] <= RequestTimeout + scan.age

(* Maintenance is about to remove a record of a retired generation only.   *)
RemovedAreRetired ==
    scan.pc = "remove" => ~IsActive(scan.generation) /\ Stagers(scan.generation) = {}

(* Who is bound to the active generation has missed no record of it.       *)
ReadsAreWhole ==
    \A r \in Requests :
        /\ request[r].pc \in {"read_touch", "read_delete", "serve", "commit"}
        /\ IsActive(request[r].generation)
        => request[r].whole

(* What maintenance has read of META is still there, or is used again.     *)
ScansAreCurrent ==
    /\ scan.pc = "read_expiry" =>
           \/ ~Exists
           \/ meta = scan.body
           \/ meta.age <= RequestTimeout + scan.age
    /\ scan.pc = "expire" => IsExpired(scan.body.age)

Inv ==
    /\ TypeOK
    /\ StagersAreAlone
    /\ UnstagedAreUnknown
    /\ SeededStays
    /\ ActiveIsWhole
    /\ ScansSeeStaging
    /\ RemovedAreRetired
    /\ ReadsAreWhole
    /\ ScansAreCurrent

-----------------------------------------------------------------------------
(* What the types say.                                                     *)

Unbound == {"idle", "initialize"}
StagingPcs == {"stage", "seed"}
Bound == {"read_touch", "read_delete", "serve", "commit"}

(* What a local state of a request holds, by its pc.                       *)
LEMMA LocalShape ==
    ASSUME NEW local \in Locals
    PROVE  /\ local.age \in 0 .. RequestTimeout
           /\ local.pc \in Unbound \cup StagingPcs \cup Bound \cup {"touch", "delete"}
           /\ local.pc \in Unbound => Mentions(local) = {}
           /\ local.pc \notin Unbound =>
                  Mentions(local) = {local.generation} /\ local.generation \in Generations
           /\ local.pc \in StagingPcs =>
                  local.previous \in Generations \cup {None} /\ local.todo \subseteq Seeds
           /\ local.pc \in Bound => local.whole \in BOOLEAN
           /\ local.pc = "touch" => local.body \in Bodies
  BY DEF Locals, Unbound, StagingPcs, Bound, Mentions

(* What the local state of maintenance holds, by its pc.                   *)
LEMMA ScanShape ==
    ASSUME scan \in Scans
    PROVE  /\ scan.pc \in {"idle", "read_expiry", "expire", "read_active", "read_staging", "remove"}
           /\ scan.pc \in {"idle", "read_expiry", "expire"} => Mentions(scan) = {}
           /\ scan.pc \in {"read_expiry", "expire"} =>
                  scan.body \in Bodies /\ scan.age \in 0 .. ScanTimeout
           /\ scan.pc \in {"read_active", "read_staging", "remove"} =>
                  /\ Mentions(scan) = {scan.generation} /\ scan.generation \in Generations
                  /\ scan.age \in 0 .. ScanTimeout
                  /\ scan.record \in Records
  BY DEF Scans, Mentions

(* A step of one request changes its own local state.                      *)
LEMMA StepShape ==
    ASSUME TypeOK, NEW r \in Requests, NEW local \in Locals, Step(r, local)
    PROVE  /\ request' \in [Requests -> Locals]
           /\ request'[r] = local
           /\ \A q \in Requests \ {r} : request'[q] = request[q]
  BY DEF TypeOK, Step

(* META exists with a body, or is NoMeta.                                  *)
LEMMA MetaShape ==
    /\ Exists /\ meta \in Metas => meta \in Bodies
    /\ meta \in Bodies => Exists /\ meta.generation \in Generations /\ meta.age \in Ages
    /\ NoMeta.generation = None /\ NoMeta.age = 0
  BY NamesAssumption DEF Exists, Metas, Bodies, NoMeta

(* Constants that are compared with ages.                                  *)
LEMMA Bounds ==
    /\ Lifetime \in Nat /\ Grace \in Nat /\ RequestTimeout \in Nat /\ ScanTimeout \in Nat
    /\ RequestTimeout + ScanTimeout < Grace
    /\ RequestTimeout + ScanTimeout <= Lifetime
    /\ 0 .. RequestTimeout \subseteq 0 .. Lifetime + 1
  BY TimeoutsAssumption

-----------------------------------------------------------------------------
(* The first state.                                                        *)
LEMMA InitInv == Init => Inv
<1> SUFFICES ASSUME Init PROVE Inv
  OBVIOUS
<1> USE Bounds
<1>1. Idle \in Locals /\ Idle \in Scans /\ NoMeta \in Metas
  BY DEF Idle, Locals, Scans, NoMeta, Metas, Bodies
<1>2. \A g \in Generations : Staging(g, None) \in Locals /\ Staging(g, None).pc = "stage"
                             /\ Staging(g, None).generation = g
                             /\ Staging(g, None).todo = Seeds
  BY DEF Staging, Locals
<1>3. Mentions(Idle) = {}
  BY DEF Mentions, Idle
<1>4. TypeOK
  BY <1>1, <1>2 DEF Init, TypeOK
<1>5. \A r \in Requests : request[r] = Idle
                          \/ \E g \in Generations : request[r] = Staging(g, None)
  BY DEF Init
<1>6. \A r, q \in Requests : r # q /\ request[r].pc = "stage" => request[q] = Idle
  BY <1>2 DEF Init, Idle
<1>7. \A r \in Requests : request[r].pc \in {"idle", "stage"}
  BY <1>2, <1>5 DEF Idle
<1>8. ~Exists /\ \A g \in Generations : items[g] = {} /\ ~IsActive(g)
  BY NamesAssumption DEF Init, Exists, IsActive, NoMeta
<1>9. \A r \in Requests : request[r].pc = "stage" => request[r].generation \in Generations
  BY <1>2, <1>5 DEF Idle
<1>10. StagersAreAlone
  BY <1>3, <1>6, <1>7, <1>8, <1>9 DEF StagersAreAlone
<1>11. UnstagedAreUnknown
  BY <1>2, <1>3, <1>5, <1>8, <1>9 DEF Idle, Init, UnstagedAreUnknown
<1>12. SeededStays /\ ActiveIsWhole /\ ReadsAreWhole
  BY <1>7, <1>8 DEF SeededStays, ActiveIsWhole, ReadsAreWhole
<1>13. ScansSeeStaging /\ RemovedAreRetired /\ ScansAreCurrent
  BY DEF Init, Idle, ScansSeeStaging, RemovedAreRetired, ScansAreCurrent
<1> QED
  BY <1>4, <1>10, <1>11, <1>12, <1>13 DEF Inv

-----------------------------------------------------------------------------
(* Steps of a request that bind it to nothing but what it was bound to or  *)
(* what is active, and that at most touch or delete META.                  *)

Uses(r, local) ==
    /\ Step(r, local)
    /\ local.pc \notin StagingPcs
    /\ Mentions(local) \subseteq Mentions(request[r]) \cup {g \in Generations : IsActive(g)}
    /\ local.pc \in Bound /\ IsActive(local.generation) => local.whole
    /\ \/ meta' = meta
       \/ Exists /\ meta' = [meta EXCEPT !.age = request[r].age]
       \/ meta' = NoMeta
    /\ UNCHANGED <<mode, items, staged, scan>>

(* Such a step disturbs nothing: it makes no generation active and no      *)
(* stager.                                                                 *)
LEMMA UseKeeps ==
    ASSUME Inv, NEW r \in Requests, NEW local \in Locals, Uses(r, local)
    PROVE  Inv'
<1> USE Bounds
<1>1. TypeOK
  BY DEF Inv
<1>2. /\ request' \in [Requests -> Locals]
      /\ request'[r] = local
      /\ \A q \in Requests \ {r} : request'[q] = request[q]
  BY <1>1, StepShape DEF Uses
<1>3. request[r] \in Locals /\ request[r].age \in 0 .. RequestTimeout
  BY <1>1, LocalShape DEF TypeOK
<1>4. meta' \in Metas
  <2>1. CASE Exists /\ meta' = [meta EXCEPT !.age = request[r].age]
    BY <1>1, <1>3, <2>1, MetaShape DEF TypeOK, Metas, Bodies
  <2> QED
    BY <1>1, <2>1 DEF Uses, TypeOK, Metas
<1>5. \A g \in Generations : IsActive(g)' => IsActive(g)
  <2>1. meta'.generation \in {meta.generation, None}
    BY <1>1, MetaShape DEF Uses, TypeOK, Bodies
  <2> QED
    BY <2>1, NamesAssumption DEF IsActive, Exists
<1>6. TypeOK'
  BY <1>1, <1>2, <1>4 DEF Uses, TypeOK
<1>7. \A q \in Requests : request[q].pc \notin Unbound =>
          request[q].generation \in Generations /\ Mentions(request[q]) = {request[q].generation}
  BY <1>1, LocalShape DEF TypeOK
<1>8. \A q \in Requests : request'[q].pc \in StagingPcs =>
          q # r /\ request'[q] = request[q] /\ request[q].pc \notin Unbound
  BY <1>2 DEF Uses, StagingPcs, Unbound
<1>9. StagersAreAlone'
  <2> SUFFICES ASSUME NEW q \in Requests, request'[q].pc \in StagingPcs
               PROVE  /\ ~IsActive(request[q].generation)'
                      /\ \A p \in Requests \ {q} :
                             request'[q].generation \notin Mentions(request'[p])
    BY DEF StagersAreAlone, StagingPcs, Mentions
  <2> DEFINE g == request[q].generation
  <2>1. q # r /\ request'[q] = request[q] /\ g \in Generations
    BY <1>7, <1>8
  <2>2. ~IsActive(g) /\ \A p \in Requests \ {q} : g \notin Mentions(request[p])
    BY <2>1 DEF Inv, StagersAreAlone, StagingPcs
  <2>3. g \notin Mentions(local)
    BY <2>1, <2>2 DEF Uses
  <2> QED
    BY <1>2, <1>5, <2>1, <2>2, <2>3
<1>10. UnstagedAreUnknown' /\ SeededStays'
  BY <1>8 DEF Inv, UnstagedAreUnknown, SeededStays, Uses, StagingPcs, Mentions
<1>11. ActiveIsWhole'
  BY <1>1, <1>4, <1>5 DEF Inv, ActiveIsWhole, Uses, Exists, IsActive, Metas, Bodies, NoMeta
<1>12. ScansSeeStaging'
  BY <1>1, <1>5, ScanShape DEF Inv, ScansSeeStaging, Uses, TypeOK
<1>13. RemovedAreRetired'
  BY <1>1, <1>5, <1>8, ScanShape DEF Inv, RemovedAreRetired, Uses, TypeOK, Stagers, StagingPcs
<1>14. ReadsAreWhole'
  <2> SUFFICES ASSUME NEW q \in Requests, request'[q].pc \in Bound,
                      IsActive(request[q].generation)'
               PROVE  request'[q].whole
    BY DEF ReadsAreWhole, Bound
  <2>1. request'[q].generation \in Generations
    BY <1>2, LocalShape DEF Bound, Unbound
  <2>2. IsActive(request'[q].generation)
    BY <1>5, <2>1 DEF IsActive
  <2>3. CASE q = r
    BY <1>2, <2>2, <2>3 DEF Uses
  <2>4. CASE q # r
    BY <1>2, <2>2, <2>4 DEF Inv, ReadsAreWhole, Bound
  <2> QED
    BY <2>3, <2>4
<1>15. ScansAreCurrent'
  BY <1>1, <1>3, ScanShape DEF Inv, ScansAreCurrent, Uses, TypeOK, Exists, NoMeta, Metas, Bodies
<1> QED
  BY <1>6, <1>9, <1>10, <1>11, <1>12, <1>13, <1>14, <1>15 DEF Inv

-----------------------------------------------------------------------------
(* A step of maintenance that reads and remembers.                         *)
LEMMA TurnKeeps ==
    ASSUME Inv, NEW local \in Scans, Turn(local), UNCHANGED items,
           Mentions(local) \subseteq Mentions(scan) \cup {g \in Generations : items[g] # {}},
           ScansSeeStaging', RemovedAreRetired', ScansAreCurrent'
    PROVE  Inv'
<1>1. TypeOK'
  BY DEF Inv, TypeOK, Turn
<1>2. StagersAreAlone' /\ SeededStays' /\ ActiveIsWhole' /\ ReadsAreWhole'
  BY DEF Inv, StagersAreAlone, SeededStays, ActiveIsWhole, ReadsAreWhole, Turn,
         Exists, IsActive
<1>3. UnstagedAreUnknown'
  BY DEF Inv, UnstagedAreUnknown, Turn
<1> QED
  BY <1>1, <1>2, <1>3 DEF Inv

(* Maintenance that has nothing more to do with an item.                   *)
LEMMA IdleKeeps == Inv /\ Turn(Idle) /\ UNCHANGED items => Inv'
<1> SUFFICES ASSUME Inv, Turn(Idle), UNCHANGED items PROVE Inv'
  OBVIOUS
<1>1. Idle \in Scans /\ Mentions(Idle) = {} /\ Idle.pc = "idle"
  BY DEF Idle, Scans, Mentions
<1>2. ScansSeeStaging' /\ RemovedAreRetired' /\ ScansAreCurrent'
  BY <1>1 DEF Turn, ScansSeeStaging, RemovedAreRetired, ScansAreCurrent
<1> QED
  BY <1>1, <1>2, TurnKeeps

(* A workspace is found expired only if what was read of it is.            *)
LEMMA ExpiryKeeps == Inv /\ (ScanMeta \/ ReadExpiry) => Inv'
<1> USE Bounds
<1> SUFFICES ASSUME Inv, ScanMeta \/ ReadExpiry PROVE Inv'
  OBVIOUS
<1>1. meta \in Metas /\ scan \in Scans
  BY DEF Inv, TypeOK
<1>2. CASE ScanMeta
  <2> DEFINE local == [pc |-> "read_expiry", age |-> 0, body |-> meta]
  <2>1. local \in Scans /\ Mentions(local) = {} /\ Turn(local) /\ UNCHANGED items
    BY <1>1, <1>2, MetaShape DEF ScanMeta, Scans, Mentions
  <2>2. ScansSeeStaging' /\ RemovedAreRetired' /\ ScansAreCurrent'
    BY <2>1 DEF Turn, ScansSeeStaging, RemovedAreRetired, ScansAreCurrent
  <2> QED
    BY <2>1, <2>2, TurnKeeps
<1>3. CASE ReadExpiry /\ ~(Exists /\ mode = "demo" /\ IsExpired(meta.age))
  BY <1>3, IdleKeeps DEF ReadExpiry
<1>4. CASE ReadExpiry /\ Exists /\ mode = "demo" /\ IsExpired(meta.age)
  <2> DEFINE local == [scan EXCEPT !.pc = "expire"]
  <2>1. local \in Scans /\ Mentions(local) = {} /\ Turn(local) /\ UNCHANGED items
        /\ local.pc = "expire" /\ local.body = scan.body
    BY <1>1, <1>4 DEF ReadExpiry, Scans, Mentions
  <2>2. meta.age > Lifetime /\ meta.age \in Nat /\ scan.age \in 0 .. ScanTimeout
    BY <1>1, <1>4, ScanShape DEF IsExpired, Metas, Bodies, NoMeta, ReadExpiry
  <2>3. meta = scan.body
    BY <1>4, <2>2 DEF Inv, ScansAreCurrent, ReadExpiry
  <2>4. ScansSeeStaging' /\ RemovedAreRetired' /\ ScansAreCurrent'
    BY <2>1, <2>2, <2>3 DEF Turn, ScansSeeStaging, RemovedAreRetired, ScansAreCurrent, IsExpired
  <2> QED
    BY <2>1, <2>4, TurnKeeps
<1> QED
  BY <1>2, <1>3, <1>4

(* Maintenance decides to remove a record of a retired generation only.    *)
LEMMA ScanKeeps ==
    ASSUME Inv,
           \/ \E g \in Generations : \E record \in items[g] : ScanRecord(g, record)
           \/ ReadActive \/ ReadStaging
    PROVE  Inv'
<1> USE Bounds
<1>1. scan \in Scans /\ items \in [Generations -> SUBSET Records]
  BY DEF Inv, TypeOK
<1>2. ASSUME NEW g \in Generations, NEW record \in items[g], ScanRecord(g, record)
      PROVE  Inv'
  <2> DEFINE local == [pc |-> "read_active", age |-> 0, generation |-> g, record |-> record]
  <2>1. local \in Scans /\ Mentions(local) = {g} /\ Turn(local) /\ UNCHANGED items
        /\ items[g] # {}
    BY <1>1, <1>2 DEF ScanRecord, Scans, Mentions
  <2>2. ScansSeeStaging' /\ RemovedAreRetired' /\ ScansAreCurrent'
    BY <2>1 DEF Turn, ScansSeeStaging, RemovedAreRetired, ScansAreCurrent
  <2> QED
    BY <2>1, <2>2, TurnKeeps
<1>3. CASE ReadActive /\ IsActive(scan.generation)
  BY <1>3, IdleKeeps DEF ReadActive
<1>4. CASE ReadActive /\ ~IsActive(scan.generation)
  <2> DEFINE local == [scan EXCEPT !.pc = "read_staging"]
  <2>1. local \in Scans /\ Mentions(local) = Mentions(scan) /\ Turn(local) /\ UNCHANGED items
        /\ local.pc = "read_staging" /\ local.generation = scan.generation
    BY <1>1, <1>4 DEF ReadActive, Scans, Mentions
  <2>2. ScansSeeStaging' /\ RemovedAreRetired' /\ ScansAreCurrent'
    BY <1>4, <2>1 DEF Turn, ScansSeeStaging, RemovedAreRetired, ScansAreCurrent, IsActive, Exists
  <2> QED
    BY <2>1, <2>2, TurnKeeps
<1>5. CASE ReadStaging /\ MayBeStaging(scan.generation)
  BY <1>5, IdleKeeps DEF ReadStaging
<1>6. CASE ReadStaging /\ ~MayBeStaging(scan.generation)
  <2> DEFINE local == [scan EXCEPT !.pc = "remove"]
             g == scan.generation
  <2>1. local \in Scans /\ Mentions(local) = Mentions(scan) /\ Turn(local) /\ UNCHANGED items
        /\ local.pc = "remove" /\ local.generation = g
    BY <1>1, <1>6 DEF ReadStaging, Scans, Mentions
  <2>2. /\ scan.pc = "read_staging" /\ scan.age \in 0 .. ScanTimeout
        /\ g \in Generations /\ Mentions(scan) = {g}
    BY <1>1, <1>6, ScanShape DEF ReadStaging
  <2>3. staged[g] \in Nat /\ (STAGING \in items[g] => staged[g] >= Grace)
    BY <1>6, <2>2 DEF MayBeStaging, Inv, TypeOK
  <2>4. ~IsActive(g)
    BY <2>2, <2>3 DEF Inv, ActiveIsWhole, ScansSeeStaging, IsActive
  <2>5. Stagers(g) = {}
    <3> SUFFICES ASSUME NEW r \in Requests, request[r].pc \in StagingPcs,
                        request[r].generation = g
                 PROVE  FALSE
      BY DEF Stagers, StagingPcs
    <3>1. request[r].age \in 0 .. RequestTimeout
      BY LocalShape DEF Inv, TypeOK
    <3>2. request[r].pc = "seed"
      BY <2>2 DEF Inv, UnstagedAreUnknown, StagingPcs
    <3> QED
      BY <2>3, <3>1, <3>2 DEF Inv, SeededStays
  <2>6. ScansSeeStaging' /\ RemovedAreRetired' /\ ScansAreCurrent'
    BY <2>1, <2>4, <2>5 DEF Turn, ScansSeeStaging, RemovedAreRetired, ScansAreCurrent,
       IsActive, Exists, Stagers
  <2> QED
    BY <2>1, <2>6, TurnKeeps
<1> QED
  BY <1>2, <1>3, <1>4, <1>5, <1>6

-----------------------------------------------------------------------------
(* What the local states of Inv are like, for the steps that follow.       *)
LEMMA RequestShape ==
    ASSUME Inv, NEW r \in Requests
    PROVE  /\ request[r] \in Locals
           /\ request[r].age \in 0 .. RequestTimeout
           /\ request[r].pc \in Unbound => Mentions(request[r]) = {}
           /\ request[r].pc \notin Unbound =>
                  /\ Mentions(request[r]) = {request[r].generation}
                  /\ request[r].generation \in Generations
           /\ request[r].pc \in StagingPcs =>
                  /\ request[r].previous \in Generations \cup {None}
                  /\ request[r].todo \subseteq Seeds
  BY LocalShape DEF Inv, TypeOK

(* The generation of a stager is nobody else's, and not the active one.    *)
LEMMA StagerAlone ==
    ASSUME Inv, NEW r \in Requests, request[r].pc \in StagingPcs
    PROVE  LET g == request[r].generation
           IN  /\ g \in Generations
               /\ ~IsActive(g)
               /\ \A q \in Requests \ {r} :
                      request[q].pc \notin Unbound => request[q].generation # g
               /\ scan.pc = "remove" => scan.generation # g
<1> DEFINE g == request[r].generation
<1>1. g \in Generations /\ ~IsActive(g)
  BY RequestShape DEF Inv, StagersAreAlone, StagingPcs, Unbound
<1>2. \A q \in Requests \ {r} : request[q].pc \notin Unbound => request[q].generation # g
  BY RequestShape DEF Inv, StagersAreAlone, StagingPcs
<1>3. scan.pc = "remove" => scan.generation # g
  BY DEF Inv, RemovedAreRetired, Stagers, StagingPcs
<1> QED
  BY <1>1, <1>2, <1>3

(* An unused generation begins to be staged.                               *)
LEMMA BeginStagingKeeps ==
    ASSUME Inv, NEW r \in Requests, NEW g \in Generations,
           request[r].pc \in Unbound, BeginStaging(r, g)
    PROVE  Inv'
<1> DEFINE local == [Staging(g, meta.generation) EXCEPT !.age = request[r].age]
<1>1. /\ local \in Locals /\ local.pc = "stage" /\ local.generation = g
      /\ local.todo = Seeds /\ Mentions(local) = {g} /\ Step(r, local)
  BY RequestShape DEF BeginStaging, Staging, Locals, Mentions, Inv, TypeOK, Metas, Bodies, NoMeta
<1> HIDE DEF local
<1>2. /\ request' \in [Requests -> Locals]
      /\ request'[r] = local
      /\ \A q \in Requests \ {r} : request'[q] = request[q]
  BY <1>1, StepShape DEF Inv
<1>3. TypeOK'
  BY <1>2 DEF Inv, TypeOK, BeginStaging
<1>4. /\ items[g] = {} /\ ~IsActive(g) /\ g \notin Mentions(scan)
      /\ \A q \in Requests : g \notin Mentions(request[q])
  BY DEF BeginStaging, Fresh
<1>5. UNCHANGED <<meta, items, staged, scan>>
  BY DEF BeginStaging
<1>6. StagersAreAlone'
  <2> SUFFICES ASSUME NEW q \in Requests, request'[q].pc \in StagingPcs
               PROVE  /\ ~IsActive(request'[q].generation)
                      /\ \A p \in Requests \ {q} :
                             request'[q].generation \notin Mentions(request'[p])
    BY <1>5 DEF StagersAreAlone, StagingPcs, IsActive, Exists, Mentions
  <2>1. CASE q = r
    BY <1>1, <1>2, <1>4, <2>1
  <2>2. CASE q # r
    <3>1. /\ ~IsActive(request[q].generation)
          /\ \A p \in Requests \ {q} : request[q].generation \notin Mentions(request[p])
          /\ request[q].generation \in Mentions(request[q])
      BY <1>2, <2>2, RequestShape DEF Inv, StagersAreAlone, StagingPcs, Unbound
    <3> QED
      BY <1>1, <1>2, <1>4, <2>2, <3>1
  <2> QED
    BY <2>1, <2>2
<1>7. UnstagedAreUnknown' /\ SeededStays' /\ ReadsAreWhole'
  <2> SUFFICES ASSUME NEW q \in Requests
               PROVE  /\ request'[q].pc = "stage" =>
                             /\ request'[q].todo = Seeds
                             /\ items[request'[q].generation] = {}
                             /\ request'[q].generation \notin Mentions(scan)
                      /\ request'[q].pc = "seed" =>
                             /\ items[request'[q].generation]
                                    = (Seeds \ request'[q].todo) \cup {STAGING}
                             /\ staged[request'[q].generation] <= request'[q].age
                      /\ request'[q].pc \in Bound /\ IsActive(request'[q].generation)
                             => request'[q].whole
    BY <1>5 DEF UnstagedAreUnknown, SeededStays, ReadsAreWhole, IsActive, Exists, Bound, Mentions
  <2>1. CASE q = r
    BY <1>1, <1>2, <1>4, <2>1 DEF Bound
  <2>2. CASE q # r
    BY <1>2, <2>2 DEF Inv, UnstagedAreUnknown, SeededStays, ReadsAreWhole, Bound
  <2> QED
    BY <2>1, <2>2
<1>8. ActiveIsWhole' /\ ScansSeeStaging' /\ ScansAreCurrent'
  BY <1>5 DEF Inv, ActiveIsWhole, ScansSeeStaging, ScansAreCurrent, IsActive, Exists
<1>9. RemovedAreRetired'
  <2> SUFFICES ASSUME scan.pc = "remove"
               PROVE  /\ ~IsActive(scan.generation)
                      /\ \A q \in Requests : request'[q].pc \in StagingPcs =>
                                                 request'[q].generation # scan.generation
    BY <1>5 DEF RemovedAreRetired, Stagers, StagingPcs, IsActive, Exists
  <2>1. ~IsActive(scan.generation) /\ Stagers(scan.generation) = {}
    BY DEF Inv, RemovedAreRetired
  <2>2. scan.generation # g
    BY <1>4, ScanShape DEF Inv, TypeOK
  <2> QED
    BY <1>1, <1>2, <2>1, <2>2 DEF Stagers, StagingPcs
<1> QED
  BY <1>3, <1>6, <1>7, <1>8, <1>9 DEF Inv

(* A stager writes the STAGING record or a seeded one.                     *)
LEMMA StageKeeps ==
    ASSUME Inv, NEW r \in Requests, Stage(r)
    PROVE  Inv'
<1> USE Bounds
<1> DEFINE g == request[r].generation
           local == [request[r] EXCEPT !.pc = "seed"]
<1>1. request[r] \in Locals /\ request[r].pc = "stage"
  BY RequestShape DEF Stage
<1>2. /\ local \in Locals /\ local.pc = "seed" /\ local.generation = g
      /\ local.todo = Seeds /\ local.age \in 0 .. RequestTimeout
      /\ Mentions(local) = Mentions(request[r]) /\ Step(r, local)
  BY <1>1, RequestShape DEF Stage, Locals, Mentions, Inv, UnstagedAreUnknown
<1> HIDE DEF local
<1>3. /\ request' \in [Requests -> Locals]
      /\ request'[r] = local
      /\ \A q \in Requests \ {r} : request'[q] = request[q]
  BY <1>2, StepShape DEF Inv
<1>4. /\ g \in Generations /\ ~IsActive(g) /\ g \notin Mentions(scan)
      /\ \A q \in Requests \ {r} : request[q].pc \notin Unbound => request[q].generation # g
      /\ scan.pc = "remove" => scan.generation # g
  BY <1>1, StagerAlone DEF StagingPcs, Inv, UnstagedAreUnknown
<1>5. /\ UNCHANGED <<mode, meta, scan>>
      /\ items'[g] = {STAGING} /\ staged'[g] = 0
      /\ \A h \in Generations \ {g} : items'[h] = items[h] /\ staged'[h] = staged[h]
  BY <1>4 DEF Stage, Inv, TypeOK
<1>6. TypeOK'
  <2>1. items' \in [Generations -> SUBSET Records]
    BY DEF Inv, TypeOK, Stage, Records
  <2>2. staged' \in [Generations -> 0 .. Grace]
    <3>1. 0 \in 0 .. Grace /\ staged \in [Generations -> 0 .. Grace]
      BY DEF Inv, TypeOK
    <3>2. staged' = [staged EXCEPT ![g] = 0]
      BY DEF Stage
    <3> QED
      BY ONLY <3>1, <3>2
  <2> QED
    BY <1>3, <1>5, <2>1, <2>2 DEF Inv, TypeOK
<1>7. StagersAreAlone'
  BY <1>1, <1>2, <1>3, <1>5 DEF Inv, StagersAreAlone, IsActive, Exists
<1>8. UnstagedAreUnknown' /\ SeededStays' /\ ReadsAreWhole'
  <2> SUFFICES ASSUME NEW q \in Requests
               PROVE  /\ request'[q].pc = "stage" =>
                             /\ request'[q].todo = Seeds
                             /\ items'[request'[q].generation] = {}
                             /\ request'[q].generation \notin Mentions(scan)
                      /\ request'[q].pc = "seed" =>
                             /\ items'[request'[q].generation]
                                    = (Seeds \ request'[q].todo) \cup {STAGING}
                             /\ staged'[request'[q].generation] <= request'[q].age
                      /\ request'[q].pc \in Bound /\ IsActive(request'[q].generation)
                             => request'[q].whole
    BY <1>5 DEF UnstagedAreUnknown, SeededStays, ReadsAreWhole, IsActive, Exists, Bound, Mentions
  <2>1. CASE q = r
    BY <1>2, <1>3, <1>5, <2>1 DEF Bound
  <2>2. CASE q # r
    <3>1. request[q].pc \notin Unbound => request[q].generation \in Generations \ {g}
      BY <1>4, <2>2, RequestShape
    <3> QED
      BY <1>3, <1>5, <2>2, <3>1
      DEF Inv, UnstagedAreUnknown, SeededStays, ReadsAreWhole, Bound, Unbound
  <2> QED
    BY <2>1, <2>2
<1>9. ActiveIsWhole' /\ ScansSeeStaging' /\ ScansAreCurrent'
  <2>1. Exists => meta.generation \in Generations \ {g}
    BY <1>4 DEF IsActive, Exists, Inv, TypeOK, Metas, Bodies, NoMeta
  <2> QED
    BY <1>5, <2>1 DEF Inv, ActiveIsWhole, ScansSeeStaging, ScansAreCurrent, IsActive, Exists
<1>10. RemovedAreRetired'
  <2> SUFFICES ASSUME scan.pc = "remove"
               PROVE  /\ ~IsActive(scan.generation)
                      /\ \A q \in Requests : request'[q].pc \in StagingPcs =>
                                                 request'[q].generation # scan.generation
    BY <1>5 DEF RemovedAreRetired, Stagers, StagingPcs, IsActive, Exists
  <2>1. ~IsActive(scan.generation) /\ Stagers(scan.generation) = {}
    BY DEF Inv, RemovedAreRetired
  <2> QED
    BY <1>2, <1>3, <1>4, <2>1 DEF Stagers, StagingPcs
<1> QED
  BY <1>6, <1>7, <1>8, <1>9, <1>10 DEF Inv

(* A stager writes a record: its generation is nobody else's.              *)
LEMMA SeedKeeps ==
    ASSUME Inv, NEW r \in Requests, NEW record \in Seeds, Seed(r, record)
    PROVE  Inv'
<1> USE Bounds
<1> DEFINE g == request[r].generation
           local == [request[r] EXCEPT !.todo = @ \ {record}]
<1>1. request[r] \in Locals /\ request[r].pc = "seed"
  BY RequestShape DEF Seed
<1>2. /\ local \in Locals /\ local.pc = "seed" /\ local.generation = g
      /\ local.todo = request[r].todo \ {record} /\ local.age = request[r].age
      /\ Mentions(local) = Mentions(request[r]) /\ Step(r, local)
  BY <1>1 DEF Seed, Locals, Mentions
<1> HIDE DEF local
<1>3. /\ request' \in [Requests -> Locals]
      /\ request'[r] = local
      /\ \A q \in Requests \ {r} : request'[q] = request[q]
  BY <1>2, StepShape DEF Inv
<1>4. /\ g \in Generations /\ ~IsActive(g)
      /\ \A q \in Requests \ {r} : request[q].pc \notin Unbound => request[q].generation # g
      /\ scan.pc = "remove" => scan.generation # g
  BY <1>1, StagerAlone DEF StagingPcs
<1>5. /\ UNCHANGED <<mode, meta, staged, scan>>
      /\ items'[g] = items[g] \cup {record}
      /\ \A h \in Generations \ {g} : items'[h] = items[h]
  BY <1>4 DEF Seed, Inv, TypeOK
<1>6. TypeOK'
  <2>1. items' \in [Generations -> SUBSET Records]
    BY DEF Inv, TypeOK, Seed, Records
  <2> QED
    BY <1>3, <1>5, <2>1 DEF Inv, TypeOK
<1>7. StagersAreAlone'
  BY <1>1, <1>2, <1>3, <1>5 DEF Inv, StagersAreAlone, IsActive, Exists
<1>8. UnstagedAreUnknown' /\ SeededStays' /\ ReadsAreWhole'
  <2> SUFFICES ASSUME NEW q \in Requests
               PROVE  /\ request'[q].pc = "stage" =>
                             /\ request'[q].todo = Seeds
                             /\ items'[request'[q].generation] = {}
                             /\ request'[q].generation \notin Mentions(scan)
                      /\ request'[q].pc = "seed" =>
                             /\ items'[request'[q].generation]
                                    = (Seeds \ request'[q].todo) \cup {STAGING}
                             /\ staged[request'[q].generation] <= request'[q].age
                      /\ request'[q].pc \in Bound /\ IsActive(request'[q].generation)
                             => request'[q].whole
    BY <1>5 DEF UnstagedAreUnknown, SeededStays, ReadsAreWhole, IsActive, Exists, Bound, Mentions
  <2>1. CASE q = r
    <3>1. /\ items[g] = (Seeds \ request[r].todo) \cup {STAGING}
          /\ staged[g] <= request[r].age
      BY <1>1 DEF Inv, SeededStays
    <3> QED
      BY <1>2, <1>3, <1>5, <2>1, <3>1 DEF Bound
  <2>2. CASE q # r
    <3>1. request[q].pc \notin Unbound => request[q].generation \in Generations \ {g}
      BY <1>4, <2>2, RequestShape
    <3> QED
      BY <1>3, <1>5, <2>2, <3>1
      DEF Inv, UnstagedAreUnknown, SeededStays, ReadsAreWhole, Bound, Unbound
  <2> QED
    BY <2>1, <2>2
<1>9. ActiveIsWhole' /\ ScansSeeStaging' /\ ScansAreCurrent'
  <2>1. Exists => meta.generation \in Generations \ {g}
    BY <1>4 DEF IsActive, Exists, Inv, TypeOK, Metas, Bodies, NoMeta
  <2> QED
    BY <1>5, <2>1 DEF Inv, ActiveIsWhole, ScansSeeStaging, ScansAreCurrent, IsActive, Exists
<1>10. RemovedAreRetired'
  <2> SUFFICES ASSUME scan.pc = "remove"
               PROVE  /\ ~IsActive(scan.generation)
                      /\ \A q \in Requests : request'[q].pc \in StagingPcs =>
                                                 request'[q].generation # scan.generation
    BY <1>5 DEF RemovedAreRetired, Stagers, StagingPcs, IsActive, Exists
  <2>1. ~IsActive(scan.generation) /\ Stagers(scan.generation) = {}
    BY DEF Inv, RemovedAreRetired
  <2> QED
    BY <1>2, <1>3, <1>4, <2>1 DEF Stagers, StagingPcs
<1> QED
  BY <1>6, <1>7, <1>8, <1>9, <1>10 DEF Inv

(* META names a generation that is complete and that nobody else knows.    *)
LEMMA PublishKeeps ==
    ASSUME Inv, NEW r \in Requests, Publish(r), IsStill(request[r].previous)
    PROVE  Inv'
<1> USE Bounds
<1> DEFINE g == request[r].generation
           local == Serving(g, request[r].age)
<1>1. /\ request[r] \in Locals /\ request[r].pc = "seed" /\ request[r].todo = {}
      /\ request[r].age \in 0 .. RequestTimeout /\ g \in Generations
  BY RequestShape DEF Publish, IsSeeded, Unbound
<1>2. /\ local \in Locals /\ local.pc = "serve" /\ local.generation = g
      /\ local.whole = TRUE /\ Mentions(local) = {g} /\ Step(r, local)
  BY <1>1 DEF Publish, Serving, Locals, Mentions
<1> HIDE DEF local
<1>3. /\ request' \in [Requests -> Locals]
      /\ request'[r] = local
      /\ \A q \in Requests \ {r} : request'[q] = request[q]
  BY <1>2, StepShape DEF Inv
<1>4. /\ \A q \in Requests \ {r} : request[q].pc \notin Unbound => request[q].generation # g
      /\ scan.pc = "remove" => scan.generation # g
  BY <1>1, StagerAlone DEF StagingPcs
<1>5. /\ UNCHANGED <<mode, items, staged, scan>>
      /\ meta' = [generation |-> g, age |-> request[r].age] /\ meta' \in Metas
  BY <1>1 DEF Publish, Metas, Bodies, NoMeta
<1>6. Exists' /\ meta'.generation = g
  BY <1>1, <1>5, NamesAssumption DEF Exists
<1>7. TypeOK'
  BY <1>3, <1>5 DEF Inv, TypeOK
<1>8. \A q \in Requests \ {r} : request[q].pc \notin Unbound =>
          request[q].generation # meta'.generation
  BY <1>4, <1>6
<1>9. StagersAreAlone'
  <2> SUFFICES ASSUME NEW q \in Requests, request'[q].pc \in StagingPcs
               PROVE  /\ request'[q].generation # meta'.generation
                      /\ \A p \in Requests \ {q} :
                             request'[q].generation \notin Mentions(request'[p])
    BY DEF StagersAreAlone, StagingPcs, Mentions, IsActive
  <2>1. q # r /\ request'[q] = request[q] /\ request[q].pc \notin Unbound
    BY <1>2, <1>3 DEF StagingPcs, Unbound
  <2>2. \A p \in Requests \ {q} : request[q].generation \notin Mentions(request[p])
    BY <2>1 DEF Inv, StagersAreAlone, StagingPcs
  <2> QED
    BY <1>2, <1>3, <1>6, <1>8, <2>1, <2>2
<1>10. UnstagedAreUnknown' /\ SeededStays'
  BY <1>2, <1>3, <1>5 DEF Inv, UnstagedAreUnknown, SeededStays
<1>11. ActiveIsWhole'
  BY <1>1, <1>5, <1>6 DEF Inv, SeededStays, ActiveIsWhole
<1>12. ScansSeeStaging'
  <2>1. staged[g] \in Nat /\ staged[g] <= request[r].age
    BY <1>1 DEF Inv, TypeOK, SeededStays
  <2>2. scan.pc = "read_staging" => scan.age \in Nat
    BY ScanShape DEF Inv, TypeOK
  <2> QED
    BY <1>1, <1>5, <1>6, <2>1, <2>2 DEF ScansSeeStaging, IsActive
<1>13. RemovedAreRetired'
  <2> SUFFICES ASSUME scan.pc = "remove"
               PROVE  /\ scan.generation # meta'.generation
                      /\ \A q \in Requests : request'[q].pc \in StagingPcs =>
                                                 request'[q].generation # scan.generation
    BY <1>5 DEF RemovedAreRetired, Stagers, StagingPcs, IsActive
  <2>1. Stagers(scan.generation) = {} /\ scan.generation \in Generations \ {g}
    BY <1>4, ScanShape DEF Inv, TypeOK, RemovedAreRetired
  <2> QED
    BY <1>2, <1>3, <1>6, <2>1 DEF Stagers, StagingPcs
<1>14. ReadsAreWhole'
  <2> SUFFICES ASSUME NEW q \in Requests, request'[q].pc \in Bound,
                      IsActive(request[q].generation)'
               PROVE  request'[q].whole
    BY DEF ReadsAreWhole, Bound
  <2>1. q = r
    BY <1>3, <1>8 DEF Bound, Unbound, IsActive
  <2> QED
    BY <1>2, <1>3, <2>1
<1>15. ScansAreCurrent'
  BY <1>1, <1>5, ScanShape DEF Inv, TypeOK, ScansAreCurrent
<1> QED
  BY <1>7, <1>9, <1>10, <1>11, <1>12, <1>13, <1>14, <1>15 DEF Inv

(* A fenced transaction adds a record to the active generation.            *)
LEMMA CommitKeeps ==
    ASSUME Inv, NEW r \in Requests, NEW note \in Notes, Commit(r, note),
           IsActive(request[r].generation)
    PROVE  Inv'
<1> USE Bounds
<1> DEFINE g == request[r].generation
           local == [request[r] EXCEPT !.pc = "serve"]
<1>1. request[r] \in Locals /\ request[r].pc = "commit" /\ g \in Generations /\ request[r].whole
  BY RequestShape DEF Commit, Unbound, Inv, ReadsAreWhole
<1>2. /\ local \in Locals /\ local.pc = "serve" /\ local.generation = g
      /\ local.whole = request[r].whole
      /\ Mentions(local) = Mentions(request[r]) /\ Step(r, local)
  BY <1>1 DEF Commit, IsFenced, Locals, Mentions
<1> HIDE DEF local
<1>3. /\ request' \in [Requests -> Locals]
      /\ request'[r] = local
      /\ \A q \in Requests \ {r} : request'[q] = request[q]
  BY <1>2, StepShape DEF Inv
<1>4. \A q \in Requests : request[q].pc \in StagingPcs =>
          request[q].generation \in Generations \ {g}
  BY StagerAlone
<1>5. /\ UNCHANGED <<mode, meta, staged, scan>>
      /\ items'[g] = items[g] \cup {note}
      /\ \A h \in Generations \ {g} : items'[h] = items[h]
  BY <1>1 DEF Commit, IsFenced, Inv, TypeOK
<1>6. TypeOK'
  <2>1. items' \in [Generations -> SUBSET Records]
    BY DEF Inv, TypeOK, Commit, IsFenced, Records
  <2> QED
    BY <1>3, <1>5, <2>1 DEF Inv, TypeOK
<1>7. \A q \in Requests : request'[q].pc \in StagingPcs => q # r /\ request'[q] = request[q]
  BY <1>2, <1>3 DEF StagingPcs
<1>8. StagersAreAlone'
  <2> SUFFICES ASSUME NEW q \in Requests, request'[q].pc \in StagingPcs
               PROVE  /\ ~IsActive(request'[q].generation)
                      /\ \A p \in Requests \ {q} :
                             request'[q].generation \notin Mentions(request'[p])
    BY <1>5 DEF StagersAreAlone, StagingPcs, IsActive, Exists, Mentions
  <2> QED
    BY <1>2, <1>3, <1>7 DEF Inv, StagersAreAlone, StagingPcs
<1>9. UnstagedAreUnknown' /\ SeededStays'
  BY <1>4, <1>5, <1>7 DEF Inv, UnstagedAreUnknown, SeededStays, StagingPcs
<1>10. ActiveIsWhole' /\ ScansSeeStaging' /\ ScansAreCurrent'
  BY <1>1, <1>5 DEF Inv, ActiveIsWhole, ScansSeeStaging, ScansAreCurrent, IsActive, Exists
<1>11. RemovedAreRetired'
  BY <1>5, <1>7 DEF Inv, RemovedAreRetired, Stagers, StagingPcs, IsActive, Exists
<1>12. ReadsAreWhole'
  <2> SUFFICES ASSUME NEW q \in Requests, request'[q].pc \in Bound,
                      IsActive(request'[q].generation)
               PROVE  request'[q].whole
    BY <1>5 DEF ReadsAreWhole, Bound, IsActive, Exists
  <2> QED
    BY <1>1, <1>2, <1>3 DEF Inv, ReadsAreWhole, Bound
<1> QED
  BY <1>6, <1>8, <1>9, <1>10, <1>11, <1>12 DEF Inv

(* Steps of a request that use the workspace, or that give up.             *)
LEMMA EndKeeps ==
    ASSUME Inv, NEW r \in Requests, Step(r, Idle), UNCHANGED <<mode, items, staged, scan>>,
           meta' = meta \/ meta' = NoMeta
    PROVE  Inv'
<1>1. Idle \in Locals /\ Idle.pc = "idle" /\ Mentions(Idle) = {}
  BY Bounds DEF Idle, Locals, Mentions
<1>2. Uses(r, Idle)
  BY <1>1 DEF Uses, StagingPcs, Bound
<1> QED
  BY <1>1, <1>2, UseKeeps

(* get_request_context binds a request to the active generation or to      *)
(* none.                                                                   *)
LEMMA OpenKeeps == ASSUME Inv, NEW r \in Requests, Open(r) PROVE Inv'
<1> USE Bounds
<1>1. meta \in Metas /\ UNCHANGED <<mode, meta, items, staged, scan>>
  BY DEF Inv, TypeOK, Open
<1>2. ASSUME ~Exists, Step(r, [pc |-> "initialize", age |-> 0])
      PROVE  Inv'
  <2> DEFINE local == [pc |-> "initialize", age |-> 0]
  <2>1. local \in Locals /\ local.pc = "initialize" /\ Mentions(local) = {}
    BY DEF Locals, Mentions
  <2>2. Uses(r, local)
    BY <1>1, <1>2, <2>1 DEF Uses, StagingPcs, Bound
  <2> QED
    BY <2>1, <2>2, UseKeeps
<1>3. ASSUME Exists, NEW pc \in {"serve", "read_delete", "read_touch"},
             Step(r, [pc |-> pc, age |-> 0, generation |-> meta.generation, whole |-> TRUE])
      PROVE  Inv'
  <2> DEFINE local == [pc |-> pc, age |-> 0, generation |-> meta.generation, whole |-> TRUE]
  <2>1. meta.generation \in Generations /\ IsActive(meta.generation)
    BY <1>1, <1>3 DEF Exists, Metas, Bodies, NoMeta, IsActive
  <2>2. /\ local \in Locals /\ local.pc \in Bound /\ local.whole = TRUE
        /\ Mentions(local) = {meta.generation}
    BY <2>1 DEF Locals, Mentions, Bound
  <2>3. Uses(r, local)
    BY <1>1, <1>3, <2>1, <2>2 DEF Uses, StagingPcs, Bound
  <2> QED
    BY <2>2, <2>3, UseKeeps
<1> QED
  BY <1>2, <1>3 DEF Open

(* A touch makes META younger or is refused.                               *)
LEMMA TouchKeeps == ASSUME Inv, NEW r \in Requests, ReadTouch(r) \/ Touch(r) PROVE Inv'
<1> USE Bounds
<1>1. meta \in Metas /\ UNCHANGED <<mode, items, staged, scan>>
  BY DEF Inv, TypeOK, ReadTouch, Touch
<1>2. /\ request[r] \in Locals /\ request[r].age \in 0 .. RequestTimeout
      /\ request[r].generation \in Generations
      /\ Mentions(request[r]) = {request[r].generation}
  BY RequestShape DEF ReadTouch, Touch, Unbound
<1>3. CASE ReadTouch(r) /\ Exists
  <2> DEFINE local == [pc |-> "touch", age |-> request[r].age,
                       generation |-> request[r].generation, body |-> meta]
  <2>1. local \in Locals /\ local.pc = "touch" /\ Mentions(local) = Mentions(request[r])
    BY <1>1, <1>2, <1>3, MetaShape DEF Locals, Mentions
  <2>2. Uses(r, local)
    BY <1>3, <2>1 DEF ReadTouch, Uses, StagingPcs, Bound
  <2> QED
    BY <2>1, <2>2, UseKeeps
<1>4. CASE ReadTouch(r) /\ ~Exists
  <2> DEFINE local == [request[r] EXCEPT !.pc = "serve"]
  <2>1. local \in Locals /\ local.pc = "serve" /\ Mentions(local) = Mentions(request[r])
    BY <1>2, <1>4 DEF ReadTouch, Locals, Mentions
  <2>2. Uses(r, local)
    BY <1>4, <2>1 DEF ReadTouch, Uses, StagingPcs, Bound, IsActive
  <2> QED
    BY <2>1, <2>2, UseKeeps
<1>5. CASE Touch(r)
  <2> DEFINE local == Serving(request[r].generation, request[r].age)
  <2>1. /\ local \in Locals /\ local.pc = "serve" /\ local.whole = TRUE
        /\ Mentions(local) = Mentions(request[r])
    BY <1>2 DEF Serving, Locals, Mentions
  <2>2. request[r].body \in Bodies
    BY <1>2, <1>5, LocalShape DEF Touch
  <2>3. meta' = meta \/ (Exists /\ meta' = [meta EXCEPT !.age = request[r].age])
    BY <1>5, <2>2, NamesAssumption DEF Touch, Bodies, Exists
  <2>4. Uses(r, local)
    BY <1>1, <1>5, <2>1, <2>3 DEF Touch, Uses, StagingPcs, Bound
  <2> QED
    BY <2>1, <2>4, UseKeeps
<1> QED
  BY <1>3, <1>4, <1>5

(* A request that finds its workspace expired deletes it.                  *)
LEMMA DeleteKeeps == ASSUME Inv, NEW r \in Requests, ReadDelete(r) \/ DeleteExpired(r) PROVE Inv'
<1> USE Bounds
<1>1. CASE DeleteExpired(r)
  BY <1>1, EndKeeps DEF DeleteExpired
<1>2. CASE ReadDelete(r) /\ ~Exists
  BY <1>2, EndKeeps DEF ReadDelete
<1>3. CASE ReadDelete(r) /\ Exists
  <2> DEFINE local == [pc |-> "delete", age |-> request[r].age, generation |-> meta.generation]
  <2>1. meta.generation \in Generations /\ IsActive(meta.generation)
    BY <1>3 DEF Exists, Metas, Bodies, NoMeta, IsActive, Inv, TypeOK
  <2>2. local \in Locals /\ local.pc = "delete" /\ Mentions(local) = {meta.generation}
    BY <2>1, RequestShape DEF Locals, Mentions
  <2>3. Uses(r, local)
    BY <1>3, <2>1, <2>2 DEF ReadDelete, Uses, StagingPcs, Bound
  <2> QED
    BY <2>2, <2>3, UseKeeps
<1> QED
  BY <1>1, <1>2, <1>3

(* Reading records, and reading META before a transaction.                 *)
LEMMA ReadKeeps == ASSUME Inv, NEW r \in Requests, Read(r) \/ Fence(r) PROVE Inv'
<1> USE Bounds
<1>1. /\ request[r] \in Locals /\ request[r].pc = "serve"
      /\ request[r].generation \in Generations
      /\ request[r].whole \in BOOLEAN
      /\ IsActive(request[r].generation) => request[r].whole
  BY RequestShape, LocalShape DEF Read, Fence, Unbound, Bound, Inv, ReadsAreWhole
<1>2. CASE Read(r)
  <2> DEFINE local == [request[r] EXCEPT
                           !.whole = @ /\ Seeds \subseteq items[request[r].generation]]
  <2>1. local \in Locals /\ local.pc = "serve" /\ Mentions(local) = Mentions(request[r])
        /\ local.generation = request[r].generation
        /\ local.whole = (request[r].whole /\ Seeds \subseteq items[request[r].generation])
    BY <1>1 DEF Locals, Mentions
  <2>2. IsActive(request[r].generation) => local.whole
    BY <1>1, <2>1 DEF Inv, ActiveIsWhole, IsActive
  <2> HIDE DEF local
  <2>3. Step(r, local) /\ UNCHANGED <<mode, meta, items, staged, scan>>
    BY <1>2 DEF Read, local
  <2>4. Uses(r, local)
    BY <2>1, <2>2, <2>3 DEF Uses, StagingPcs
  <2> QED
    BY <2>1, <2>4, UseKeeps
<1>3. CASE Fence(r) /\ IsActive(request[r].generation)
  <2> DEFINE local == [request[r] EXCEPT !.pc = "commit"]
  <2>1. local \in Locals /\ local.pc = "commit" /\ Mentions(local) = Mentions(request[r])
        /\ local.whole = request[r].whole
    BY <1>1 DEF Locals, Mentions
  <2>2. Uses(r, local)
    BY <1>1, <1>3, <2>1 DEF Fence, Uses, StagingPcs
  <2> QED
    BY <2>1, <2>2, UseKeeps
<1>4. CASE Fence(r) /\ ~IsActive(request[r].generation)
  BY <1>4, EndKeeps DEF Fence
<1> QED
  BY <1>2, <1>3, <1>4

-----------------------------------------------------------------------------
(* Maintenance removes a record of a retired generation.                   *)
LEMMA RemoveKeeps == ASSUME Inv, RemoveRecord PROVE Inv'
<1> DEFINE g == scan.generation
<1>1. /\ scan.pc = "remove" /\ g \in Generations /\ ~IsActive(g) /\ Stagers(g) = {}
      /\ Idle \in Scans /\ Idle.pc = "idle" /\ Mentions(Idle) = {}
  BY ScanShape DEF RemoveRecord, Inv, TypeOK, RemovedAreRetired, Idle, Scans, Mentions
<1>2. /\ UNCHANGED <<mode, meta, staged, request>> /\ scan' = Idle
      /\ \A h \in Generations \ {g} : items'[h] = items[h]
      /\ \A h \in Generations : items'[h] \subseteq items[h]
  BY <1>1 DEF RemoveRecord, Turn, Inv, TypeOK
<1>3. TypeOK'
  <2>1. items' \in [Generations -> SUBSET Records]
    BY DEF RemoveRecord, Inv, TypeOK
  <2> QED
    BY <1>1, <1>2, <2>1 DEF Inv, TypeOK
<1>4. \A q \in Requests : request[q].pc \in StagingPcs =>
          request[q].generation \in Generations \ {g}
  BY <1>1, RequestShape DEF Stagers, StagingPcs, Unbound
<1>5. StagersAreAlone' /\ ReadsAreWhole'
  BY <1>2 DEF Inv, StagersAreAlone, ReadsAreWhole, IsActive, Exists
<1>6. UnstagedAreUnknown' /\ SeededStays'
  BY <1>1, <1>2, <1>4 DEF Inv, UnstagedAreUnknown, SeededStays, StagingPcs
<1>7. ActiveIsWhole'
  <2>1. Exists => meta.generation \in Generations \ {g}
    BY <1>1, MetaShape DEF IsActive, Inv, TypeOK
  <2> QED
    BY <1>2, <2>1 DEF Inv, ActiveIsWhole, Exists
<1>8. ScansSeeStaging' /\ RemovedAreRetired' /\ ScansAreCurrent'
  BY <1>1, <1>2 DEF ScansSeeStaging, RemovedAreRetired, ScansAreCurrent
<1> QED
  BY <1>3, <1>5, <1>6, <1>7, <1>8 DEF Inv

(* Maintenance removes the workspace as a whole.                           *)
LEMMA ExpireKeeps == ASSUME Inv, Expire PROVE Inv'
<1>1. /\ UNCHANGED <<mode, items, staged, request>> /\ scan' = Idle
      /\ meta' \in {meta, NoMeta}
      /\ Idle \in Scans /\ Idle.pc = "idle" /\ Mentions(Idle) = {}
  BY DEF Expire, Idle, Scans, Mentions
<1>2. \A g : IsActive(g)' => IsActive(g)
  BY <1>1, MetaShape DEF IsActive, Exists
<1>3. TypeOK'
  BY <1>1 DEF Inv, TypeOK, Metas
<1>4. StagersAreAlone' /\ ReadsAreWhole'
  BY <1>1, <1>2 DEF Inv, StagersAreAlone, ReadsAreWhole, IsActive
<1>5. UnstagedAreUnknown' /\ SeededStays'
  BY <1>1 DEF Inv, UnstagedAreUnknown, SeededStays
<1>6. ActiveIsWhole'
  BY <1>1, MetaShape DEF Inv, ActiveIsWhole, Exists
<1>7. ScansSeeStaging' /\ RemovedAreRetired' /\ ScansAreCurrent'
  BY <1>1 DEF ScansSeeStaging, RemovedAreRetired, ScansAreCurrent
<1> QED
  BY <1>3, <1>4, <1>5, <1>6, <1>7 DEF Inv

-----------------------------------------------------------------------------
(* Time passes for everyone alike.                                         *)
LEMMA OlderAge ==
    ASSUME NEW limit \in Nat, NEW age \in 0 .. limit
    PROVE  /\ Older(age, limit) \in 0 .. limit
           /\ age <= Older(age, limit) /\ Older(age, limit) <= age + 1
  BY DEF Older

(* A request keeps all it remembers but the ages.                          *)
LEMMA OlderRequest ==
    ASSUME NEW local \in Locals, local.pc # "idle" => local.age < RequestTimeout
    PROVE  /\ OlderLocal(local) \in Locals
           /\ OlderLocal(local).pc = local.pc
           /\ Mentions(OlderLocal(local)) = Mentions(local)
           /\ local.pc \notin Unbound => OlderLocal(local).generation = local.generation
           /\ local.pc \in StagingPcs =>
                  /\ OlderLocal(local).todo = local.todo
                  /\ OlderLocal(local).age = local.age + 1
           /\ local.pc \in Bound => OlderLocal(local).whole = local.whole
<1> USE Bounds
<1> DEFINE older == [local EXCEPT !.age = @ + 1]
<1>1. CASE local.pc = "idle"
  BY <1>1, LocalShape DEF OlderLocal, Unbound, StagingPcs, Bound
<1>2. ASSUME local.pc # "idle"
      PROVE  local.age \in 0 .. RequestTimeout /\ local.age + 1 \in 0 .. RequestTimeout
  BY <1>2, LocalShape
<1>3. CASE local \in [pc : {"idle", "initialize"}, age : 0 .. RequestTimeout] /\ local.pc # "idle"
  <2>1. OlderLocal(local) = older
    BY <1>3 DEF OlderLocal, OlderBody
  <2> QED
    BY <1>2, <1>3, <2>1 DEF Locals, Mentions, Unbound, StagingPcs, Bound
<1>4. CASE local \in [pc : {"stage", "seed"}, age : 0 .. RequestTimeout,
                      generation : Generations, previous : Generations \cup {None},
                      todo : SUBSET Seeds]
  <2>1. OlderLocal(local) = older
    BY <1>4 DEF OlderLocal, OlderBody
  <2> QED
    BY <1>2, <1>4, <2>1 DEF Locals, Mentions, Unbound, StagingPcs, Bound
<1>5. CASE local \in [pc : {"read_touch", "read_delete", "serve", "commit"},
                      age : 0 .. RequestTimeout, generation : Generations, whole : BOOLEAN]
  <2>1. OlderLocal(local) = older
    BY <1>5 DEF OlderLocal, OlderBody
  <2> QED
    BY <1>2, <1>5, <2>1 DEF Locals, Mentions, Unbound, StagingPcs, Bound
<1>6. CASE local \in [pc : {"touch"}, age : 0 .. RequestTimeout, generation : Generations,
                      body : Bodies]
  <2>1. OlderLocal(local) = [local EXCEPT !.age = @ + 1, !.body.age = Older(@, Lifetime + 1)]
    BY <1>6 DEF OlderLocal, OlderBody
  <2>2. [local.body EXCEPT !.age = Older(@, Lifetime + 1)] \in Bodies
    BY <1>6, OlderAge DEF Bodies
  <2> QED
    BY <1>2, <1>6, <2>1, <2>2 DEF Locals, Mentions, Unbound, StagingPcs, Bound
<1>7. CASE local \in [pc : {"delete"}, age : 0 .. RequestTimeout, generation : Generations]
  <2>1. OlderLocal(local) = older
    BY <1>7 DEF OlderLocal, OlderBody
  <2> QED
    BY <1>2, <1>7, <2>1 DEF Locals, Mentions, Unbound, StagingPcs, Bound
<1> QED
  BY <1>1, <1>3, <1>4, <1>5, <1>6, <1>7 DEF Locals

(* Maintenance keeps all it remembers but the ages.                        *)
LEMMA OlderScan ==
    ASSUME scan \in Scans, scan.pc # "idle" => scan.age < ScanTimeout
    PROVE  /\ OlderLocal(scan) \in Scans
           /\ OlderLocal(scan).pc = scan.pc
           /\ Mentions(OlderLocal(scan)) = Mentions(scan)
           /\ scan.pc # "idle" => OlderLocal(scan).age = scan.age + 1
           /\ scan.pc \in {"read_expiry", "expire"} =>
                  OlderLocal(scan).body = [scan.body EXCEPT !.age = Older(@, Lifetime + 1)]
           /\ scan.pc \in {"read_active", "read_staging", "remove"} =>
                  OlderLocal(scan).generation = scan.generation
<1> USE Bounds
<1>1. CASE scan.pc = "idle"
  BY <1>1 DEF OlderLocal
<1>2. ASSUME scan.pc # "idle"
      PROVE  scan.age \in 0 .. ScanTimeout /\ scan.age + 1 \in 0 .. ScanTimeout
  BY <1>2, ScanShape
<1>3. CASE scan \in [pc : {"read_expiry", "expire"}, age : 0 .. ScanTimeout, body : Bodies]
  <2>1. OlderLocal(scan) = [scan EXCEPT !.age = @ + 1, !.body.age = Older(@, Lifetime + 1)]
    BY <1>3 DEF OlderLocal, OlderBody
  <2>2. [scan.body EXCEPT !.age = Older(@, Lifetime + 1)] \in Bodies
    BY <1>3, OlderAge DEF Bodies
  <2> QED
    BY <1>2, <1>3, <2>1, <2>2 DEF Scans, Mentions
<1>4. CASE scan \in [pc : {"read_active", "read_staging", "remove"}, age : 0 .. ScanTimeout,
                     generation : Generations, record : Records]
  <2>1. OlderLocal(scan) = [scan EXCEPT !.age = @ + 1]
    BY <1>4 DEF OlderLocal, OlderBody
  <2> QED
    BY <1>2, <1>4, <2>1 DEF Scans, Mentions
<1> QED
  BY <1>1, <1>3, <1>4 DEF Scans

(* What is compared with the age of somebody grows no faster than that     *)
(* age.                                                                    *)
LEMMA TickKeeps == ASSUME Inv, Tick PROVE Inv'
<1> USE Bounds
<1>1. TypeOK /\ UNCHANGED <<mode, items>>
  BY DEF Inv, Tick
<1>2. /\ OlderLocal(scan) \in Scans
      /\ scan' = OlderLocal(scan)
      /\ scan'.pc = scan.pc /\ Mentions(scan') = Mentions(scan)
      /\ scan.pc # "idle" => scan'.age = scan.age + 1
      /\ scan.pc \in {"read_expiry", "expire"} =>
             scan'.body = [scan.body EXCEPT !.age = Older(@, Lifetime + 1)]
      /\ scan.pc \in {"read_active", "read_staging", "remove"} =>
             scan'.generation = scan.generation
  BY <1>1, OlderScan DEF Tick, TypeOK, Idle
<1>3. \A q \in Requests :
          /\ request'[q] \in Locals
          /\ request'[q].pc = request[q].pc
          /\ Mentions(request'[q]) = Mentions(request[q])
          /\ request[q].pc \notin Unbound => request'[q].generation = request[q].generation
          /\ request[q].pc \in StagingPcs =>
                 /\ request'[q].todo = request[q].todo
                 /\ request'[q].age = request[q].age + 1
          /\ request[q].pc \in Bound => request'[q].whole = request[q].whole
  BY <1>1, OlderRequest DEF Tick, TypeOK, IsLive
<1>4. /\ meta' \in Metas /\ meta'.generation = meta.generation
      /\ ~Exists => meta' = meta
      /\ Exists => meta' = [meta EXCEPT !.age = Older(@, Lifetime + 1)]
      /\ meta.age \in Nat /\ meta'.age \in Nat /\ meta'.age <= meta.age + 1
  <2>1. CASE ~Exists
    BY <1>1, <2>1, MetaShape DEF Tick, TypeOK, Metas
  <2>2. CASE Exists
    <3>1. meta \in Bodies /\ meta.age \in 0 .. Lifetime + 1
      BY <1>1, <2>2, MetaShape DEF TypeOK
    <3>2. /\ meta' = [meta EXCEPT !.age = Older(@, Lifetime + 1)]
          /\ Older(meta.age, Lifetime + 1) \in 0 .. Lifetime + 1
          /\ Older(meta.age, Lifetime + 1) <= meta.age + 1
      BY <2>2, <3>1, OlderAge DEF Tick
    <3> QED
      BY <2>2, <3>1, <3>2 DEF Metas, Bodies
  <2> QED
    BY <2>1, <2>2
<1>5. staged' \in [Generations -> 0 .. Grace]
      /\ \A g \in Generations : staged[g] \in Nat /\ staged'[g] <= staged[g] + 1
  BY <1>1, OlderAge DEF Tick, TypeOK
<1>6. \A g : IsActive(g)' <=> IsActive(g)
  BY <1>4 DEF IsActive, Exists
<1>7. TypeOK'
  BY <1>1, <1>2, <1>3, <1>4, <1>5 DEF Tick, TypeOK
<1>8. StagersAreAlone' /\ UnstagedAreUnknown' /\ SeededStays' /\ ReadsAreWhole'
  <2> SUFFICES ASSUME NEW q \in Requests
               PROVE  /\ request[q].pc \in StagingPcs =>
                             /\ ~IsActive(request[q].generation)
                             /\ \A p \in Requests \ {q} :
                                    request[q].generation \notin Mentions(request'[p])
                      /\ request[q].pc = "stage" =>
                             /\ request'[q].todo = Seeds
                             /\ items[request[q].generation] = {}
                             /\ request[q].generation \notin Mentions(scan')
                      /\ request[q].pc = "seed" =>
                             /\ items[request[q].generation]
                                    = (Seeds \ request'[q].todo) \cup {STAGING}
                             /\ staged'[request[q].generation] <= request'[q].age
                      /\ request[q].pc \in Bound /\ IsActive(request[q].generation)
                             => request'[q].whole
    BY <1>1, <1>3, <1>4
    DEF StagersAreAlone, UnstagedAreUnknown, SeededStays, ReadsAreWhole, IsActive, Exists,
        Bound, Unbound, StagingPcs
  <2>1. /\ request[q].pc \in StagingPcs => request[q].age \in Nat
        /\ request[q].pc \notin Unbound => request[q].generation \in Generations
    BY RequestShape
  <2>2. CASE request[q].pc \in StagingPcs
    <3>1. request[q].generation \in Generations
      BY <2>1, <2>2 DEF StagingPcs, Unbound
    <3> QED
      BY <1>2, <1>3, <1>5, <2>1, <2>2, <3>1
      DEF Inv, StagersAreAlone, UnstagedAreUnknown, SeededStays, StagingPcs, Bound
  <2>3. CASE request[q].pc \in Bound
    BY <1>3, <2>3 DEF Inv, ReadsAreWhole, StagingPcs, Bound
  <2> QED
    BY <2>2, <2>3 DEF StagingPcs
<1>9. ActiveIsWhole'
  BY <1>1, <1>4 DEF Inv, ActiveIsWhole, Exists
<1>10. ScansSeeStaging'
  <2>1. scan.pc = "read_staging" => scan.generation \in Generations /\ scan.age \in Nat
    BY <1>1, ScanShape DEF TypeOK
  <2> QED
    BY <1>2, <1>4, <1>5, <2>1 DEF Inv, ScansSeeStaging, IsActive, Exists
<1>11. RemovedAreRetired'
  <2> SUFFICES ASSUME scan.pc = "remove"
               PROVE  /\ ~IsActive(scan.generation)
                      /\ \A q \in Requests : request[q].pc \in StagingPcs =>
                                                 request[q].generation # scan.generation
    BY <1>2, <1>3, <1>4
    DEF RemovedAreRetired, Stagers, StagingPcs, Unbound, IsActive, Exists
  <2> QED
    BY DEF Inv, RemovedAreRetired, Stagers, StagingPcs
<1>12. ScansAreCurrent'
  <2>1. scan.pc \in {"read_expiry", "expire"} =>
            scan.body \in Bodies /\ scan.body.age \in Ages /\ scan.age \in Nat
    BY <1>1, ScanShape DEF TypeOK, Bodies
  <2>2. scan.pc = "expire" => IsExpired(scan'.body.age)
    BY <1>2, <2>1, OlderAge DEF Inv, ScansAreCurrent, IsExpired, Bodies
  <2>3. scan.pc = "read_expiry" =>
            ~Exists \/ meta' = scan'.body \/ meta'.age <= RequestTimeout + scan'.age
    BY <1>2, <1>4, <2>1 DEF Inv, ScansAreCurrent
  <2> QED
    BY <1>2, <1>4, <2>2, <2>3 DEF ScansAreCurrent, Exists
<1> QED
  BY <1>7, <1>8, <1>9, <1>10, <1>11, <1>12 DEF Inv

-----------------------------------------------------------------------------
(* The steps of a request, and all steps.                                  *)
LEMMA RequestKeeps == ASSUME Inv, NEW r \in Requests, Request(r) PROVE Inv'
<1>1. ASSUME NEW g \in Generations, Reset(r, g) \/ InitializeImplicitly(r, g) PROVE Inv'
  BY <1>1, BeginStagingKeeps DEF Reset, InitializeImplicitly, IsLive, Unbound
<1>2. ASSUME Publish(r) PROVE Inv'
  <2>1. CASE IsStill(request[r].previous)
    BY <1>2, <2>1, PublishKeeps
  <2>2. CASE ~IsStill(request[r].previous)
    BY <1>2, <2>2, EndKeeps DEF Publish
  <2> QED
    BY <2>1, <2>2
<1>3. ASSUME NEW record \in Seeds, Seed(r, record) PROVE Inv'
  BY <1>3, SeedKeeps
<1>4. ASSUME NEW note \in Notes, Commit(r, note) PROVE Inv'
  <2>1. CASE IsActive(request[r].generation)
    BY <1>4, <2>1, CommitKeeps
  <2>2. CASE ~IsActive(request[r].generation)
    BY <1>4, <2>2, EndKeeps DEF Commit, IsFenced
  <2> QED
    BY <2>1, <2>2
<1>5. ASSUME End(r) PROVE Inv'
  BY <1>5, EndKeeps DEF End
<1> QED
  BY <1>1, <1>2, <1>3, <1>4, <1>5, StageKeeps, OpenKeeps, TouchKeeps, DeleteKeeps, ReadKeeps
  DEF Request

(* All steps: Inv is inductive.                                            *)
LEMMA NextKeeps == Inv /\ [Next]_vars => Inv'
<1> SUFFICES ASSUME Inv, [Next]_vars PROVE Inv'
  OBVIOUS
<1>1. CASE UNCHANGED vars
  BY <1>1 DEF vars, Inv, TypeOK, StagersAreAlone, UnstagedAreUnknown, SeededStays,
     ActiveIsWhole, ScansSeeStaging, RemovedAreRetired, ReadsAreWhole, ScansAreCurrent,
     Stagers, IsActive, Exists
<1>2. ASSUME NEW r \in Requests, Request(r) PROVE Inv'
  BY <1>2, RequestKeeps
<1>3. CASE Maintenance
  <2>1. CASE EndScan
    BY <2>1, IdleKeeps DEF EndScan
  <2> QED
    BY <1>3, <2>1, ExpiryKeeps, ScanKeeps, RemoveKeeps, ExpireKeeps DEF Maintenance, ScanStep
<1>4. CASE Tick
  BY <1>4, TickKeeps
<1> QED
  BY <1>1, <1>2, <1>3, <1>4 DEF Next

-----------------------------------------------------------------------------
(* The invariant that the other theorems are read from holds in every      *)
(* state.                                                                  *)
THEOREM Invariant == Spec => []Inv
  BY InitInv, NextKeeps, PTL DEF Spec

(* In the states and histories of any number of requests, generations and  *)
(* records, everything has its type and no invocation outlives its timeout.*)
THEOREM TypeCorrect == Spec => []TypeOK
<1>1. Inv => TypeOK
  BY DEF Inv
<1> QED
  BY <1>1, Invariant, PTL

(* Nobody is ever shown a half-initialised workspace: neither an initialiser *)
(* that dies or loses, nor maintenance at any moment of the staging, leaves  *)
(* META at a generation of which a record is missing.                        *)
THEOREM WorkspacesAreWhole == Spec => []PublishedIsWhole
<1>1. Inv => PublishedIsWhole
  BY DEF Inv, ActiveIsWhole, PublishedIsWhole
<1> QED
  BY <1>1, Invariant, PTL

(* Nothing but the transaction itself leads from its fence to its success. *)
LEMMA CommitStep ==
    ASSUME Inv, [Next]_vars, NEW r \in Requests, Commits(r)
    PROVE  request[r].whole /\ IsActive(request[r].generation)
<1>1. request[r].pc = "commit" /\ request'[r].pc = "serve"
  BY DEF Commits
<1>2. IsActive(request[r].generation)
  <2>1. CASE UNCHANGED request
    BY <1>1, <2>1
  <2>2. CASE Tick
    <3>1. request'[r] = OlderLocal(request[r]) /\ request[r] \in Locals
          /\ (request[r].pc # "idle" => request[r].age < RequestTimeout)
      BY <2>2 DEF Tick, Inv, TypeOK, IsLive
    <3> QED
      BY <1>1, <3>1, OlderRequest
  <2>3. ASSUME NEW q \in Requests, Request(q)
        PROVE  IsActive(request[r].generation)
    <3>1. CASE q # r
      <4>1. \E local : Step(q, local)
        BY <2>3 DEF Request, Reset, InitializeImplicitly, BeginStaging, Stage, Publish, Seed,
           Open, ReadTouch, Touch, ReadDelete, DeleteExpired, Read, Fence, Commit, End
      <4>2. request'[r] = request[r]
        BY <3>1, <4>1 DEF Step, Inv, TypeOK
      <4> QED
        BY <1>1, <4>2
    <3>2. CASE q = r
      <4>1. (\E note \in Notes : Commit(r, note)) \/ End(r)
        BY <1>1, <2>3, <3>2
        DEF Request, Reset, InitializeImplicitly, IsLive, Stage, Publish, IsSeeded, Seed,
            Open, ReadTouch, Touch, ReadDelete, DeleteExpired, Read, Fence
      <4>2. ~Step(r, Idle)
        BY <1>1 DEF Step, Idle, Inv, TypeOK
      <4> QED
        BY <4>1, <4>2, <3>2 DEF Commit, IsFenced, End
    <3> QED
      BY <3>1, <3>2
  <2> QED
    BY <2>1, <2>2, <2>3
    DEF Next, Maintenance, ScanStep, ScanMeta, ReadExpiry, Expire, ScanRecord, ReadActive,
        ReadStaging, RemoveRecord, EndScan, Turn, vars
<1> QED
  BY <1>1, <1>2 DEF Inv, ReadsAreWhole

(* A request that outlives its generation commits nothing after it has     *)
(* missed a record: the fence holds at the commit, not only when it was    *)
(* read.                                                                   *)
THEOREM CommitsAreFenced == Spec => WritesFollowWholeReads
<1>1. Inv /\ [Next]_vars =>
          [\A r \in Requests :
               Commits(r) => request[r].whole /\ IsActive(request[r].generation)]_vars
  BY CommitStep
<1> QED
  BY <1>1, Invariant, PTL DEF Spec, WritesFollowWholeReads

(* A removal that is not a request's own is the one of maintenance.        *)
LEMMA RemovalStep ==
    ASSUME Inv, [Next]_vars, Exists, meta' = NoMeta, UNCHANGED request
    PROVE  IsExpired(meta.age)
<1> USE Bounds
<1>1. meta \in Bodies /\ meta.generation \in Generations /\ meta'.generation = None
      /\ ~(meta' = meta)
  BY MetaShape, NamesAssumption DEF Inv, TypeOK
<1>2. CASE Expire
  BY <1>1, <1>2 DEF Expire, IsSameBody, Inv, ScansAreCurrent
<1>3. CASE Tick
  BY <1>1, <1>3, NamesAssumption DEF Tick, Bodies
<1>4. ASSUME NEW r \in Requests, Request(r)
      PROVE  FALSE
  <2>1. Touch(r) \/ DeleteExpired(r) \/ Publish(r)
    BY <1>1, <1>4
    DEF Request, Reset, InitializeImplicitly, BeginStaging, Stage, Seed, Open, ReadTouch,
        ReadDelete, Read, Fence, Commit, End
  <2>2. ~Touch(r)
    BY <1>1, NamesAssumption DEF Touch, Bodies
  <2>3. ~DeleteExpired(r)
    BY DEF DeleteExpired, Step, Idle, Inv, TypeOK
  <2>4. ~Publish(r)
    BY <1>1, RequestShape, NamesAssumption DEF Publish, IsSeeded, Unbound
  <2> QED
    BY <2>1, <2>2, <2>3, <2>4
<1> QED
  BY <1>1, <1>2, <1>3, <1>4
  DEF Next, Maintenance, ScanStep, ScanMeta, ReadExpiry, ScanRecord, ReadActive,
      ReadStaging, RemoveRecord, EndScan, Turn, vars

(* Maintenance, however late it deletes, deletes only a workspace that     *)
(* nobody has used for its whole lifetime: the whole body it has read is   *)
(* compared.                                                               *)
THEOREM UsedIsKept == Spec => KeptWhileUsed
<1>1. Inv /\ [Next]_vars =>
          [(Exists /\ meta' = NoMeta /\ UNCHANGED request) => IsExpired(meta.age)]_vars
  BY RemovalStep
<1> QED
  BY <1>1, Invariant, PTL DEF Spec, KeptWhileUsed

-----------------------------------------------------------------------------
(* The refinement: what requests see of the workspace.                     *)
Visible == IF Exists THEN items[meta.generation] \ {STAGING} ELSE {}

AbstractStep == [Abstract!Next]_<<meta.generation, Visible>>

(* Steps that leave META's generation and its items alone.                 *)
LEMMA Hidden ==
    ASSUME meta'.generation = meta.generation,
           Exists => items'[meta.generation] = items[meta.generation]
    PROVE  AbstractStep
  BY DEF AbstractStep, Visible, Exists

(* At first there is nothing to see.                                       *)
LEMMA RefinesInit == Init => Abstract!Init
  BY DEF Init, Abstract!Init, Exists, NoMeta

(* The records that have been staged one by one appear at once.            *)
LEMMA RefinesPublish ==
    ASSUME Inv, NEW r \in Requests, Publish(r)
    PROVE  AbstractStep
<1> DEFINE g == request[r].generation
<1>1. CASE ~IsStill(request[r].previous)
  BY <1>1, Hidden DEF Publish
<1>2. CASE IsStill(request[r].previous)
  <2>1. /\ g \in Generations /\ ~IsActive(g) /\ UNCHANGED items
        /\ request[r].pc = "seed" /\ request[r].todo = {} /\ meta'.generation = g
    BY <1>2, StagerAlone DEF Publish, IsSeeded, StagingPcs
  <2>2. items[g] = Seeds \cup {STAGING}
    BY <2>1 DEF Inv, SeededStays
  <2>3. g # None /\ STAGING \notin Seeds
    BY <2>1, NamesAssumption
  <2>4. meta.generation # g
    BY <2>1, <2>3 DEF IsActive, Exists
  <2>5. Visible' = Seeds
    BY <2>1, <2>2, <2>3 DEF Visible, Exists
  <2>6. Abstract!Publish(g)
    BY <2>1, <2>4, <2>5 DEF Abstract!Publish, Visible
  <2> QED
    BY <2>1, <2>6 DEF AbstractStep, Abstract!Next
<1> QED
  BY <1>1, <1>2

(* A business write is visible to everybody with its commit.               *)
LEMMA RefinesCommit ==
    ASSUME Inv, NEW r \in Requests, NEW note \in Notes, Commit(r, note)
    PROVE  AbstractStep
<1> DEFINE g == request[r].generation
<1>1. CASE ~IsFenced(g)
  BY <1>1, Hidden DEF Commit
<1>2. CASE IsFenced(g)
  <2>1. /\ g \in Generations /\ Exists /\ meta.generation = g /\ UNCHANGED meta
        /\ items'[g] = items[g] \cup {note}
    BY <1>2, RequestShape DEF Commit, IsFenced, IsActive, Unbound, Inv, TypeOK
  <2>2. note # STAGING
    BY NamesAssumption
  <2>3. Visible' = Visible \cup {note}
    BY <2>1, <2>2 DEF Visible, Exists
  <2>4. Abstract!Write(note)
    BY <2>1, <2>3 DEF Abstract!Write, Visible, Exists
  <2> QED
    BY <2>4 DEF AbstractStep, Abstract!Next
<1> QED
  BY <1>1, <1>2

(* They disappear at once, too.                                            *)
LEMMA RefinesRemoval ==
    ASSUME UNCHANGED items, meta' \in {meta, NoMeta}
    PROVE  AbstractStep
<1>1. CASE meta' = meta
  BY <1>1, Hidden
<1>2. CASE meta' = NoMeta
  <2>1. meta'.generation = None /\ Visible' = {}
    BY <1>2 DEF NoMeta, Visible, Exists
  <2>2. Abstract!Remove
    BY <2>1 DEF Abstract!Remove, Visible
  <2> QED
    BY <2>2 DEF AbstractStep, Abstract!Next
<1> QED
  BY <1>1, <1>2

(* Every step is an abstract one or changes nothing that requests see.     *)
LEMMA RefinesNext == ASSUME Inv, [Next]_vars PROVE AbstractStep
<1>1. CASE UNCHANGED <<meta, items>>
  BY <1>1, Hidden
<1>2. meta \in Metas /\ items \in [Generations -> SUBSET Records]
      /\ (Exists => meta.generation \in Generations)
  BY MetaShape DEF Inv, TypeOK
<1>3. ASSUME NEW r \in Requests, Stage(r) \/ \E record \in Seeds : Seed(r, record)
      PROVE  AbstractStep
  <2>1. request[r].pc \in StagingPcs /\ UNCHANGED meta
    BY <1>3 DEF Stage, Seed, StagingPcs
  <2>2. ~IsActive(request[r].generation)
    BY <2>1, StagerAlone
  <2> QED
    BY <1>2, <1>3, <2>1, <2>2, Hidden DEF Stage, Seed, IsActive
<1>4. ASSUME NEW r \in Requests, Touch(r)
      PROVE  AbstractStep
  BY <1>2, <1>4, Hidden DEF Touch, Metas, Bodies, NoMeta
<1>5. CASE Tick
  BY <1>2, <1>5, Hidden DEF Tick, Metas, Bodies, NoMeta
<1>6. CASE RemoveRecord
  <2>1. ~IsActive(scan.generation) /\ UNCHANGED meta
    BY <1>6 DEF RemoveRecord, Turn, Inv, RemovedAreRetired
  <2> QED
    BY <1>2, <1>6, <2>1, Hidden DEF RemoveRecord, IsActive
<1>7. ASSUME NEW r \in Requests, DeleteExpired(r)
      PROVE  AbstractStep
  BY <1>7, RefinesRemoval DEF DeleteExpired
<1>8. CASE Expire
  BY <1>8, RefinesRemoval DEF Expire
<1>9. ASSUME NEW r \in Requests, Request(r)
      PROVE  AbstractStep
  <2>1. \/ UNCHANGED <<meta, items>>
        \/ Stage(r) \/ (\E record \in Seeds : Seed(r, record))
        \/ Touch(r) \/ DeleteExpired(r) \/ Publish(r)
        \/ \E note \in Notes : Commit(r, note)
    BY <1>9
    DEF Request, Reset, InitializeImplicitly, BeginStaging, Open, ReadTouch, ReadDelete,
        Read, Fence, End
  <2> QED
    BY <1>1, <1>3, <1>4, <1>7, <2>1, RefinesPublish, RefinesCommit
<1> QED
  BY <1>1, <1>5, <1>6, <1>8, <1>9
  DEF Next, Maintenance, ScanStep, ScanMeta, ReadExpiry, ScanRecord, ReadActive,
      ReadStaging, EndScan, Turn, vars

(* Every step of staging, use, expiry and clean-up is a step of the        *)
(* workspace whose records appear and disappear at once, or hidden from it.*)
THEOREM WorkspacesImplementRecords == Spec => ImplementsWorkspaceRecords
<1>1. Inv /\ [Next]_vars => AbstractStep
  BY RefinesNext
<1> QED
  BY <1>1, RefinesInit, Invariant, PTL
  DEF Spec, ImplementsWorkspaceRecords, Abstract!Spec, AbstractStep, Visible
=============================================================================
