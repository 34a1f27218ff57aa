----------------------- MODULE InvestigationGraphProofs -----------------------
(***************************************************************************)
(* Theorems about InvestigationGraph, for any number of attempts, chunks   *)
(* and tries, any policies and any issues: what is accepted, proposed and  *)
(* published was reviewed, nobody is refused because of what he has written*)
(* himself, and the whole implements ReportLedger.                         *)
(***************************************************************************)
EXTENDS InvestigationGraph, ItemsProofs

-----------------------------------------------------------------------------
(* The inductive invariant.                                                *)

Pcs == {"load", "hydrate", "investigate", "review", "revise", "prepare", "propose", "reread",
        "save", "fail"}

(* Local state of an attempt at work.                                      *)
Local ==
    [pc : Pcs, kind : Kinds, report : Reports \cup {NoReport}, version : 0 .. MaxAttempts,
     part : 1 .. Parts + 1, tries : 0 .. MaxTries - 1, applied : BOOLEAN, stale : BOOLEAN]

Refusals == {Refused(TRUE), Refused(FALSE)}

Locals == {Idle} \cup Refusals \cup Local

Types ==
    /\ attempt \in [Attempts -> Locals]
    /\ reviews \subseteq Reports \X {"clean", "issues"}

(* The types of all but the local states.                                  *)
TablesOK ==
    /\ job \in [status : {"queued", "running"} \cup Closed, claim : 0 .. MaxAttempts]
    /\ DOMAIN chunks \subseteq Kinds \X Attempts \X (1 .. Parts)
    /\ \A k \in DOMAIN chunks : chunks[k] \in Reports
    /\ DOMAIN manifest \subseteq Kinds
    /\ \A k \in DOMAIN manifest : manifest[k] \in [version : Attempts, content : Reports]
    /\ proposed \in BOOLEAN
    /\ reviews \subseteq Reports \X {"clean", "issues"}

(* Who has not claimed the job has done nothing.                           *)
OnlyClaimants == \A a \in Attempts : a > job.claim => attempt[a] = Idle

HadIssues(author) ==
    \E review \in reviews :
        review[2] = "issues" /\ ~review[1].revised /\ review[1].author = author

(* A report that follows the draft, and was revised only when a review of  *)
(* the draft had issues.                                                   *)
FollowsDraft(report) ==
    /\ "draft" \in DOMAIN manifest
    /\ report.author = manifest["draft"].content.author
    /\ report.outcome = manifest["draft"].content.outcome
    /\ report.revised => HadIssues(report.author)

IsClean(report) == <<report, "clean">> \in reviews

IsAccepted(report) ==
    "validated" \in DOMAIN manifest /\ report = manifest["validated"].content

IsBacked(report) == report.outcome = "proposal_candidate" => proposed

(* What is visible, and in which order it became so.                       *)
ManifestsFollow ==
    /\ "draft" \in DOMAIN manifest => ~manifest["draft"].content.revised
    /\ "validated" \in DOMAIN manifest =>
           FollowsDraft(manifest["validated"].content) /\ IsClean(manifest["validated"].content)
    /\ "run" \in DOMAIN manifest =>
           IsAccepted(manifest["run"].content) /\ IsBacked(manifest["run"].content)
    /\ "run" \in DOMAIN manifest <=> job.status = "completed"
    /\ job.status = "queued" => job.claim = 0
    /\ proposed => "validated" \in DOMAIN manifest
                   /\ manifest["validated"].content.outcome = "proposal_candidate"

HasChunk(kind, version, part, report) ==
    /\ <<kind, version, part>> \in DOMAIN chunks
    /\ chunks[<<kind, version, part>>] = report

(* All chunks of a visible report are there.                               *)
ManifestsAreWhole ==
    \A k \in DOMAIN manifest : \A part \in 1 .. Parts :
        HasChunk(k, manifest[k].version, part, manifest[k].content)

(* What is required of a report that is being saved.                       *)
MayBeSaved(kind, report) ==
    /\ kind = "draft" => ~report.revised
    /\ kind = "validated" => FollowsDraft(report) /\ IsClean(report)
    /\ kind = "run" => IsAccepted(report) /\ IsBacked(report)

(* What an attempt knows, whoever holds the claim by now.                  *)
Knows(a, local) ==
    /\ local.pc \in {"load", "hydrate"} => local.kind \in {"draft", "validated"}
    /\ local.pc = "hydrate" =>
           /\ local.kind \in DOMAIN manifest
           /\ manifest[local.kind] = [version |-> local.version, content |-> local.report]
    /\ local.pc \in {"review", "revise"} =>
           local.report \in Reports /\ FollowsDraft(local.report)
    /\ local.pc = "revise" => ~local.report.revised /\ HadIssues(local.report.author)
    /\ local.pc \in {"prepare", "propose", "reread"} =>
           /\ local.report \in Reports /\ IsAccepted(local.report)
           /\ local.report.outcome = "proposal_candidate"
    /\ local.pc = "propose" /\ local.applied => proposed
    /\ local.pc = "save" =>
           /\ local.version = a /\ local.report \in Reports
           /\ MayBeSaved(local.kind, local.report)
           /\ \A part \in 1 .. Parts :
                  part < local.part \/ (part = local.part /\ local.applied) =>
                      HasChunk(local.kind, a, part, local.report)
           /\ local.part > Parts /\ local.applied =>
                  /\ local.kind \in DOMAIN manifest
                  /\ manifest[local.kind] = [version |-> a, content |-> local.report]

(* A transaction that makes a report visible has been applied.             *)
IsVisible(local) == local.part > Parts /\ local.applied

(* What is not visible yet, as long as the claim is held.                  *)
Awaits(local) ==
    /\ local.pc \in {"investigate", "review", "revise"} => "validated" \notin DOMAIN manifest
    /\ local.pc \in {"load", "hydrate", "save"} /\ local.kind = "draft" =>
           "validated" \notin DOMAIN manifest
    /\ local.pc = "save" /\ local.kind = "validated" /\ ~IsVisible(local) =>
           "validated" \notin DOMAIN manifest
    /\ local.pc = "investigate" => "draft" \notin DOMAIN manifest
    /\ local.pc = "save" /\ local.kind = "draft" /\ ~IsVisible(local) =>
           "draft" \notin DOMAIN manifest

(* The attempt that has completed the job has nothing left to write, and   *)
(* cannot be refused.                                                      *)
HasCompleted(local) ==
    local = Idle \/ (local.pc = "save" /\ local.kind = "run" /\ IsVisible(local))

(* Who holds the claim is refused only for what somebody else has written, *)
(* for the end of the job, or for a proposal that is found.                *)
IsExcused(local) ==
    /\ local.pc = "refused" /\ ~local.stale => job.status = "failed"
    /\ local.pc = "reread" /\ ~local.stale => proposed \/ job.status = "failed"

ClaimantKnows ==
    \A a \in Attempts :
        a = job.claim =>
            /\ IsExcused(attempt[a])
            /\ job.status = "running" => Awaits(attempt[a])
            /\ job.status = "completed" => HasCompleted(attempt[a])

Inv ==
    /\ TypeOK /\ Types /\ OnlyClaimants
    /\ ManifestsFollow /\ ManifestsAreWhole
    /\ \A a \in Attempts : Knows(a, attempt[a])
    /\ ClaimantKnows
    /\ RefusedOnlyByOthers

-----------------------------------------------------------------------------
(* Local states.                                                           *)

(* No report is a report.                                                  *)
LEMMA NoReportIsNone == NoReport \notin Reports
  BY BoundsAssumption DEF NoReport, Reports, Attempts

(* What the fields of a local state at work are.                           *)
LEMMA LocalShape ==
    ASSUME NEW local \in Local
    PROVE  /\ local \notin {Idle} \cup Refusals /\ local.pc \in Pcs /\ local.kind \in Kinds
           /\ local.report \in Reports \cup {NoReport} /\ local.version \in 0 .. MaxAttempts
           /\ local.part \in 1 .. Parts + 1 /\ local.tries \in 0 .. MaxTries - 1
           /\ local.applied \in BOOLEAN /\ local.stale \in BOOLEAN
  BY DEF Local, Idle, Refusals, Refused, Pcs

(* The local states an attempt puts together are well typed.               *)
LEMMA AtType ==
    ASSUME NEW pc \in Pcs, NEW kind \in Kinds, NEW report \in Reports \cup {NoReport}
    PROVE  /\ At(pc, kind, report) \in Local
           /\ At(pc, kind, report) = [pc |-> pc, kind |-> kind, report |-> report,
                                      version |-> 0, part |-> 1, tries |-> 0, applied |-> FALSE,
                                      stale |-> FALSE]
<1>1. 0 \in 0 .. MaxAttempts /\ 1 \in 1 .. Parts + 1 /\ 0 \in 0 .. MaxTries - 1
  BY BoundsAssumption
<1> QED
  BY <1>1 DEF At, Local

(* The same of a transaction that is about to be sent.                     *)
LEMMA SavingType ==
    ASSUME NEW a \in Attempts, NEW kind \in Kinds, NEW report \in Reports \cup {NoReport}
    PROVE  /\ Saving(a, kind, report) \in Local
           /\ Saving(a, kind, report).pc = "save" /\ Saving(a, kind, report).kind = kind
           /\ Saving(a, kind, report).report = report /\ Saving(a, kind, report).version = a
           /\ Saving(a, kind, report).part = 1 /\ ~Saving(a, kind, report).applied
<1>1. a \in 0 .. MaxAttempts
  BY BoundsAssumption DEF Attempts
<1>2. At("save", kind, report) \in Local
  BY AtType DEF Pcs
<1> QED
  BY <1>1, <1>2 DEF Saving, At, Local

(* Nothing is known of an attempt that has ended, or that fails the job.   *)
LEMMA NothingToKnow ==
    ASSUME NEW a, NEW local,
           local \in {Idle} \cup Refusals \/ local.pc \in {"investigate", "fail"}
    PROVE  Knows(a, local)
  BY DEF Knows, Idle, Refusals, Refused

-----------------------------------------------------------------------------
(* Initially.                                                              *)
LEMMA InitInv == Init => Inv
<1> SUFFICES ASSUME Init PROVE Inv
  OBVIOUS
<1>1. /\ DOMAIN chunks = {} /\ DOMAIN manifest = {}
      /\ \A a \in Attempts : attempt[a] = Idle
  BY NoItemsType DEF Init
<1>2. job.status = "queued" /\ job.claim = 0 /\ 0 \in 0 .. MaxAttempts /\ 0 \notin Attempts
  BY BoundsAssumption DEF Init, Attempts
<1>3. TypeOK
  BY <1>1, <1>2 DEF Init, TypeOK
<1>4. Types /\ OnlyClaimants
  BY <1>1 DEF Init, Types, Locals, OnlyClaimants
<1>5. ManifestsFollow /\ ManifestsAreWhole
  BY <1>1, <1>2 DEF Init, ManifestsFollow, ManifestsAreWhole
<1>6. \A a \in Attempts : Knows(a, attempt[a])
  BY <1>1, NothingToKnow
<1>7. ClaimantKnows /\ RefusedOnlyByOthers
  BY <1>1, <1>2 DEF ClaimantKnows, IsExcused, RefusedOnlyByOthers, Idle
<1> QED
  BY <1>3, <1>4, <1>5, <1>6, <1>7 DEF Inv

-----------------------------------------------------------------------------
(* What attempts know stays true.                                          *)

(* Reports and reviews stay, and only this attempt writes its chunks.      *)
GrowsBy(a) ==
    /\ \A k \in DOMAIN manifest : k \in DOMAIN manifest' /\ manifest'[k] = manifest[k]
    /\ reviews \subseteq reviews'
    /\ proposed => proposed'
    /\ \A k \in DOMAIN chunks : k[2] # a => k \in DOMAIN chunks' /\ chunks'[k] = chunks[k]

(* What is known of the visible reports stays true.                        *)
LEMMA ReportsKept ==
    ASSUME NEW a, GrowsBy(a), NEW report
    PROVE  /\ FollowsDraft(report) => FollowsDraft(report)'
           /\ IsClean(report) => IsClean(report)'
           /\ IsAccepted(report) => IsAccepted(report)'
           /\ IsBacked(report) => IsBacked(report)'
           /\ HadIssues(report.author) => HadIssues(report.author)'
  BY DEF GrowsBy, FollowsDraft, HadIssues, IsClean, IsAccepted, IsBacked

(* So do the chunks of the others.                                         *)
LEMMA ChunksKept ==
    ASSUME NEW a, GrowsBy(a), NEW kind, NEW version, version # a, NEW part, NEW report,
           HasChunk(kind, version, part, report)
    PROVE  HasChunk(kind, version, part, report)'
<1>1. <<kind, version, part>>[2] = version
  OBVIOUS
<1> QED
  BY <1>1 DEF GrowsBy, HasChunk

(* The others know what they knew.                                         *)
LEMMA KnowsKept ==
    ASSUME NEW a, GrowsBy(a), NEW b, b # a, NEW local, Knows(b, local)
    PROVE  Knows(b, local)'
<1>1. /\ FollowsDraft(local.report) => FollowsDraft(local.report)'
      /\ IsClean(local.report) => IsClean(local.report)'
      /\ IsAccepted(local.report) => IsAccepted(local.report)'
      /\ IsBacked(local.report) => IsBacked(local.report)'
      /\ HadIssues(local.report.author) => HadIssues(local.report.author)'
  BY ReportsKept
<1>2. \A part : HasChunk(local.kind, b, part, local.report) =>
                    HasChunk(local.kind, b, part, local.report)'
  BY ChunksKept
<1>3. \A k \in DOMAIN manifest : k \in DOMAIN manifest' /\ manifest'[k] = manifest[k]
  BY DEF GrowsBy
<1> QED
  BY <1>1, <1>2, <1>3 DEF Knows, MayBeSaved, GrowsBy

(* So does everybody when nothing is written.                              *)
LEMMA KnowsStill ==
    ASSUME NEW a, NEW local, Knows(a, local), UNCHANGED Stored, reviews \subseteq reviews'
    PROVE  Knows(a, local)'
<1>1. \A b : GrowsBy(b)
  BY DEF GrowsBy, Stored
<1>2. /\ FollowsDraft(local.report) => FollowsDraft(local.report)'
      /\ IsClean(local.report) => IsClean(local.report)'
      /\ IsAccepted(local.report) => IsAccepted(local.report)'
      /\ IsBacked(local.report) => IsBacked(local.report)'
      /\ HadIssues(local.report.author) => HadIssues(local.report.author)'
  BY <1>1, ReportsKept
<1>3. \A part : HasChunk(local.kind, a, part, local.report) =>
                    HasChunk(local.kind, a, part, local.report)'
  BY DEF HasChunk, Stored
<1> QED
  BY <1>2, <1>3 DEF Knows, MayBeSaved, Stored

-----------------------------------------------------------------------------
(* Steps that write nothing.                                               *)

(* An attempt at work has claimed the job at some time, and a completed    *)
(* job leaves its claimant nothing but to be answered.                     *)
LEMMA AtWork ==
    ASSUME Inv, NEW a \in Attempts, attempt[a] # Idle
    PROVE  /\ a <= job.claim
           /\ a = job.claim /\ job.status = "running" => Awaits(attempt[a])
           /\ a = job.claim /\ job.status = "completed" =>
                  attempt[a].pc = "save" /\ attempt[a].kind = "run" /\ IsVisible(attempt[a])
           /\ Knows(a, attempt[a]) /\ attempt[a] \in Refusals \cup Local
           /\ attempt[a].pc \in Pcs => attempt[a] \in Local
<1>1. a \in Nat /\ job.claim \in Nat
  BY BoundsAssumption DEF Attempts, Inv, TypeOK
<1>2. a <= job.claim
  BY <1>1 DEF Inv, OnlyClaimants
<1>3. attempt[a] \in Refusals \cup Local
  BY DEF Inv, Types, Locals
<1>4. attempt[a].pc \in Pcs => attempt[a] \notin Refusals
  BY DEF Refusals, Refused, Pcs
<1>5. a = job.claim /\ job.status = "running" => Awaits(attempt[a])
  BY DEF Inv, ClaimantKnows
<1>6. a = job.claim /\ job.status = "completed" =>
          attempt[a].pc = "save" /\ attempt[a].kind = "run" /\ IsVisible(attempt[a])
  BY DEF Inv, ClaimantKnows, HasCompleted
<1> QED
  BY <1>2, <1>3, <1>4, <1>5, <1>6 DEF Inv

(* What the claimant may be, given what has become of the job.             *)
FitsClaim(a, local) ==
    /\ a <= job.claim
    /\ a = job.claim =>
           /\ job.status = "running" => Awaits(local)
           /\ job.status = "completed" => HasCompleted(local)
           /\ IsExcused(local)

(* A step of one attempt, which only the claimant may use to change the    *)
(* job or to make a report visible.                                        *)
LEMMA AttemptStep ==
    ASSUME Inv, NEW a \in Attempts, NEW local \in Locals, Step(a, local), GrowsBy(a),
           Knows(a, local)', FitsClaim(a, local)',
           job'.claim = job.claim, a # job.claim => UNCHANGED <<job, manifest>>,
           TablesOK', ManifestsFollow', ManifestsAreWhole'
    PROVE  Inv'
<1>1. /\ attempt' \in [Attempts -> Locals]
      /\ \A b \in Attempts : attempt'[b] = IF b = a THEN local ELSE attempt[b]
  BY DEF Inv, Types, Step
<1>2. local \in {Idle} \cup Refusals \/ (local.part \in 1 .. Parts + 1 /\ local.tries < MaxTries)
  BY LocalShape, BoundsAssumption DEF Locals
<1>3. TypeOK'
  BY <1>1, <1>2 DEF Inv, TypeOK, TablesOK, Refusals
<1>4. Types'
  BY <1>1 DEF Types, TablesOK
<1>5. OnlyClaimants'
  <2>1. ~(a > job.claim)
    BY BoundsAssumption DEF FitsClaim, IsExcused, Attempts, Inv, TypeOK
  <2> QED
    BY <1>1, <2>1 DEF Inv, OnlyClaimants
<1>6. ASSUME NEW b \in Attempts PROVE Knows(b, attempt[b])'
  BY <1>1, KnowsKept DEF Inv
<1>7. ClaimantKnows'
  BY <1>1 DEF Inv, ClaimantKnows, FitsClaim, IsExcused, Awaits, GrowsBy
<1>8. RefusedOnlyByOthers'
  BY <1>1 DEF Inv, RefusedOnlyByOthers, FitsClaim, IsExcused
<1> QED
  BY <1>3, <1>4, <1>5, <1>6, <1>7, <1>8 DEF Inv

(* A step that writes nothing but the local state and the reviews.         *)
LEMMA LocalStep ==
    ASSUME Inv, NEW a \in Attempts, NEW local \in Locals,
           Knows(a, local)', FitsClaim(a, local), Step(a, local),
           UNCHANGED Stored, reviews \subseteq reviews', reviews' \subseteq Reports \X {"clean", "issues"}
    PROVE  Inv'
<1>1. GrowsBy(a)
  BY DEF GrowsBy, Stored
<1>2. ManifestsFollow'
  BY <1>1, ReportsKept DEF Inv, ManifestsFollow, Stored
<1>3. ManifestsAreWhole'
  BY DEF Inv, ManifestsAreWhole, HasChunk, Stored
<1>4. TablesOK'
  BY DEF Inv, TypeOK, TablesOK, Stored
<1>5. FitsClaim(a, local)'
  BY DEF FitsClaim, IsExcused, Awaits, Stored
<1> QED
  BY <1>1, <1>2, <1>3, <1>4, <1>5, AttemptStep DEF Stored

(* The same, of a local state that relies on nothing new.                  *)
LEMMA QuietStep ==
    ASSUME Inv, NEW a \in Attempts, NEW local \in Locals,
           Knows(a, local), FitsClaim(a, local), Step(a, local), UNCHANGED <<Stored, reviews>>
    PROVE  Inv'
<1>1. Knows(a, local)'
  BY KnowsStill
<1>2. reviews' \subseteq Reports \X {"clean", "issues"}
  BY DEF Inv, Types
<1> QED
  BY <1>1, <1>2, LocalStep

(* Any attempt may end.                                                    *)
LEMMA EndInv ==
    ASSUME Inv, NEW a \in Attempts, Step(a, Idle), attempt[a] # Idle, UNCHANGED <<Stored, reviews>>
    PROVE  Inv'
<1>1. FitsClaim(a, Idle)
  BY AtWork DEF FitsClaim, IsExcused, HasCompleted, Awaits, Idle
<1> QED
  BY <1>1, NothingToKnow, QuietStep DEF Locals

(* An attempt that has yet to write its result is not that of a completed  *)
(* job.                                                                    *)
LEMMA NotCompleted ==
    ASSUME Inv, NEW a \in Attempts, attempt[a].pc \in Pcs \ {"save"}
    PROVE  /\ attempt[a] # Idle /\ attempt[a] \in Local /\ Knows(a, attempt[a]) /\ a <= job.claim
           /\ a = job.claim => job.status # "completed"
           /\ a = job.claim /\ job.status = "running" => Awaits(attempt[a])
<1>1. attempt[a] # Idle
  BY DEF Idle, Pcs
<1> QED
  BY <1>1, AtWork

(* Every error may be followed by failing the job.                         *)
LEMMA FailingInv ==
    ASSUME Inv, NEW a \in Attempts, attempt[a].pc \in Pcs \ {"save"}, Step(a, Failing),
           UNCHANGED <<Stored, reviews>>
    PROVE  Inv'
<1>1. Failing \in Local /\ Failing.pc = "fail"
  BY AtType DEF Failing, Pcs, Kinds
<1>2. FitsClaim(a, Failing)
  BY <1>1, NotCompleted, LocalShape DEF FitsClaim, IsExcused, Awaits
<1> QED
  BY <1>1, <1>2, NothingToKnow, QuietStep DEF Locals

(* What has not been found is not visible as long as the claim is held.    *)
LEMMA LoadInv ==
    ASSUME Inv, NEW a \in Attempts, Load(a)
    PROVE  Inv'
<1> DEFINE l == attempt[a]
<1>1. l.pc = "load" /\ UNCHANGED <<Stored, reviews>> /\ l.pc \in Pcs \ {"save"}
  BY DEF Load, Pcs
<1>2. l \in Local /\ l.kind \in {"draft", "validated"} /\ a <= job.claim
      /\ (a = job.claim => job.status # "completed")
      /\ (a = job.claim /\ job.status = "running" => Awaits(l))
  BY <1>1, NotCompleted DEF Knows
<1>3. CASE l.kind \in DOMAIN manifest
  <2> DEFINE saved == manifest[l.kind]
             next == [At("hydrate", l.kind, saved.content) EXCEPT !.version = saved.version]
  <2>1. /\ saved.content \in Reports /\ saved.version \in Attempts
        /\ saved = [version |-> saved.version, content |-> saved.content]
    BY <1>3 DEF Inv, TypeOK
  <2>2. l.kind \in Kinds /\ "hydrate" \in Pcs /\ saved.version \in 0 .. MaxAttempts
    BY <1>2, <2>1, BoundsAssumption DEF Kinds, Pcs, Attempts
  <2>3. /\ next \in Local /\ next.pc = "hydrate" /\ next.kind = l.kind
        /\ next.version = saved.version /\ next.report = saved.content
    <3> HIDE DEF saved, l
    <3>1. At("hydrate", l.kind, saved.content) \in Local
      BY <2>1, <2>2, AtType
    <3> QED
      BY <2>2, <3>1 DEF At, Local
  <2>4. Knows(a, next)
    <3> HIDE DEF next
    <3> QED
      BY <1>2, <1>3, <2>1, <2>3 DEF Knows
  <2>5. FitsClaim(a, next)
    <3>1. a = job.claim /\ job.status = "running" => Awaits(next)
      <4> HIDE DEF next
      <4> QED
        BY <1>1, <1>2, <2>3 DEF Awaits
    <3> QED
      BY <1>2, <2>3, <3>1, LocalShape DEF FitsClaim, IsExcused
  <2>6. Step(a, next)
    BY <1>3 DEF Load
  <2> QED
    BY <1>1, <2>3, <2>4, <2>5, <2>6, QuietStep DEF Locals
<1>4. ASSUME NEW pc \in {"load", "investigate"}, l.kind \notin DOMAIN manifest,
             l.kind = IF pc = "load" THEN "validated" ELSE "draft",
             Step(a, At(pc, "draft", NoReport))
      PROVE  Inv'
  <2> DEFINE next == At(pc, "draft", NoReport)
  <2>1. next \in Local /\ next.pc = pc /\ next.kind = "draft"
    BY AtType DEF Kinds, Pcs
  <2>2. Knows(a, next)
    <3> HIDE DEF next
    <3> QED
      BY <2>1 DEF Knows
  <2>3. FitsClaim(a, next)
    <3>1. a = job.claim /\ job.status = "running" => Awaits(next)
      <4> HIDE DEF next
      <4> QED
        BY <1>1, <1>2, <1>4, <2>1 DEF Awaits
    <3> QED
      BY <1>2, <2>1, <3>1, LocalShape DEF FitsClaim, IsExcused
  <2> QED
    BY <1>1, <1>4, <2>1, <2>2, <2>3, QuietStep DEF Locals
<1> QED
  BY <1>2, <1>3, <1>4 DEF Load

-----------------------------------------------------------------------------
(* Saving and going on.                                                    *)

(* A transaction may be put together for a report that may be saved.       *)
LEMMA SavingKnown ==
    ASSUME NEW a \in Attempts, NEW kind \in Kinds, NEW report \in Reports,
           NEW local, local = Saving(a, kind, report)
    PROVE  /\ MayBeSaved(kind, report) => Knows(a, local)
           /\ MayBeSaved(kind, report)' => Knows(a, local)'
<1>1. /\ local.pc = "save" /\ local.kind = kind /\ local.report = report
      /\ local.version = a /\ local.part = 1 /\ ~local.applied
  BY SavingType
<1>2. \A part \in 1 .. Parts : ~(part < 1)
  OBVIOUS
<1>3. ~(1 > Parts)
  BY BoundsAssumption
<1> HIDE DEF Saving
<1> QED
  BY <1>1, <1>2, <1>3 DEF Knows

(* What an attempt goes on with when a report is saved.                    *)
LEMMA AfterShape ==
    ASSUME NEW a \in Attempts, NEW kind \in Kinds, NEW report \in Reports,
           NEW next, next = After(a, kind, report)
    PROVE  /\ next = Idle \/ next \in Local
           /\ kind = "draft" =>
                  next.pc = "review" /\ next.kind = "validated" /\ next.report = report
           /\ kind = "validated" /\ report.outcome = "proposal_candidate" =>
                  next.pc = "prepare" /\ next.kind = "run" /\ next.report = report
           /\ kind = "validated" /\ report.outcome # "proposal_candidate" =>
                  next = Saving(a, "run", report) /\ next.pc = "save" /\ next.kind = "run"
           /\ kind = "run" => next = Idle
           /\ next.pc \notin {"refused", "reread"}
<1>1. kind \in {"draft", "validated", "run"}
  BY DEF Kinds
<1>2. CASE kind = "draft"
  <2>1. next = At("review", "validated", report)
    BY <1>2 DEF After
  <2>2. next \in Local
    BY <2>1, AtType DEF Pcs, Kinds
  <2>3. next.pc = "review" /\ next.kind = "validated" /\ next.report = report
    BY <2>1 DEF At
  <2> QED
    BY <1>2, <2>2, <2>3
<1>3. CASE kind = "validated" /\ report.outcome = "proposal_candidate"
  <2>1. next = At("prepare", "run", report)
    BY <1>3 DEF After
  <2>2. next \in Local
    BY <2>1, AtType DEF Pcs, Kinds
  <2>3. next.pc = "prepare" /\ next.kind = "run" /\ next.report = report
    BY <2>1 DEF At
  <2> QED
    BY <1>3, <2>2, <2>3
<1>4. CASE kind = "validated" /\ report.outcome # "proposal_candidate"
  <2>1. next = Saving(a, "run", report)
    BY <1>4 DEF After
  <2>2. next \in Local /\ next.pc = "save" /\ next.kind = "run"
    BY <2>1, SavingType DEF Kinds
  <2> QED
    BY <1>4, <2>1, <2>2
<1>5. CASE kind = "run"
  BY <1>5 DEF After, Idle
<1> QED
  BY <1>1, <1>2, <1>3, <1>4, <1>5

(* What is known then: the draft is followed, the report accepted.         *)
LEMMA AfterKnown ==
    ASSUME NEW a \in Attempts, NEW kind \in Kinds, NEW report \in Reports,
           NEW next, next = After(a, kind, report)
    PROVE  /\ next \in Locals /\ next.pc \notin {"refused", "reread"}
           /\ (kind = "draft" => FollowsDraft(report))
              /\ (kind = "validated" => IsAccepted(report)) => Knows(a, next)
           /\ (kind = "draft" => FollowsDraft(report)')
              /\ (kind = "validated" => IsAccepted(report)') => Knows(a, next)'
           /\ (kind = "draft" => "validated" \notin DOMAIN manifest) => Awaits(next)
           /\ (kind = "draft" => "validated" \notin DOMAIN manifest') => Awaits(next)'
<1>1. kind \in {"draft", "validated", "run"}
  BY DEF Kinds
<1>2. next \in Locals /\ next.pc \notin {"refused", "reread"}
  BY AfterShape DEF Locals
<1>3. CASE kind = "draft"
  <2>1. next.pc = "review" /\ next.report = report
    BY <1>3, AfterShape
  <2> QED
    BY <1>2, <1>3, <2>1 DEF Knows, Awaits
<1>4. CASE kind = "validated" /\ report.outcome = "proposal_candidate"
  <2>1. next.pc = "prepare" /\ next.report = report
    BY <1>4, AfterShape
  <2> QED
    BY <1>2, <1>4, <2>1 DEF Knows, Awaits
<1>5. CASE kind = "validated" /\ report.outcome # "proposal_candidate"
  <2>1. next = Saving(a, "run", report) /\ next.pc = "save" /\ next.kind = "run"
    BY <1>5, AfterShape
  <2>2. /\ IsAccepted(report) => MayBeSaved("run", report)
        /\ IsAccepted(report)' => MayBeSaved("run", report)'
    BY <1>5 DEF MayBeSaved, IsBacked
  <2>3. /\ IsAccepted(report) => Knows(a, next)
        /\ IsAccepted(report)' => Knows(a, next)'
    BY <2>1, <2>2, SavingKnown DEF Kinds
  <2>4. Awaits(next) /\ Awaits(next)'
    BY <2>1 DEF Awaits
  <2> QED
    BY <1>2, <1>5, <2>3, <2>4
<1>6. CASE kind = "run"
  <2>1. next = Idle
    BY <1>6, AfterShape
  <2>2. Knows(a, next) /\ Knows(a, next)' /\ Awaits(next) /\ Awaits(next)'
    BY <2>1 DEF Knows, Awaits, Idle
  <2> QED
    BY <1>2, <2>2
<1> QED
  BY <1>1, <1>3, <1>4, <1>5, <1>6

(* A loaded report is that of its manifest.                                *)
LEMMA HydrateInv ==
    ASSUME Inv, NEW a \in Attempts, Hydrate(a)
    PROVE  Inv'
<1> DEFINE l == attempt[a]
<1>1. l.pc = "hydrate" /\ UNCHANGED <<Stored, reviews>> /\ l.pc \in Pcs \ {"save"}
  BY DEF Hydrate, Pcs
<1>2. l \in Local /\ a <= job.claim /\ Knows(a, l)
      /\ (a = job.claim => job.status # "completed")
      /\ (a = job.claim /\ job.status = "running" => Awaits(l))
  BY <1>1, NotCompleted
<1>3. /\ l.kind \in DOMAIN manifest /\ l.kind \in {"draft", "validated"}
      /\ manifest[l.kind].content = l.report /\ l.report \in Reports
  BY <1>1, <1>2 DEF Knows, Inv, TypeOK
<1>4. CASE l.part < Parts
  <2> PICK next \in {[l EXCEPT !.part = @ + 1]} : TRUE
    OBVIOUS
  <2>1. l.part + 1 \in 1 .. Parts + 1
    BY <1>2, <1>4, LocalShape, BoundsAssumption
  <2>2. /\ next \in Local /\ next.pc = l.pc /\ next.kind = l.kind
        /\ next.version = l.version /\ next.report = l.report
    BY <1>2, <2>1 DEF Local
  <2>3. Knows(a, next)
    BY <1>1, <1>2, <2>2 DEF Knows
  <2>4. a = job.claim /\ job.status = "running" => Awaits(next)
    BY <1>1, <1>2, <2>2 DEF Awaits
  <2>5. FitsClaim(a, next)
    BY <1>1, <1>2, <2>2, <2>4 DEF FitsClaim, IsExcused
  <2>6. Step(a, next)
    BY <1>4 DEF Hydrate
  <2> QED
    BY <1>1, <2>2, <2>3, <2>5, <2>6, QuietStep DEF Locals
<1>5. CASE ~(l.part < Parts)
  <2> PICK next \in {After(a, l.kind, l.report)} : TRUE
    OBVIOUS
  <2>1. l.kind = "draft" => FollowsDraft(l.report)
    BY <1>3 DEF FollowsDraft, Inv, ManifestsFollow
  <2>2. l.kind = "validated" => IsAccepted(l.report)
    BY <1>3 DEF IsAccepted
  <2>3. l.kind \in Kinds
    BY <1>3 DEF Kinds
  <2>4. next \in Locals /\ next.pc \notin {"refused", "reread"} /\ Knows(a, next)
    BY <1>3, <2>1, <2>2, <2>3, AfterKnown
  <2>5. a = job.claim /\ job.status = "running" => Awaits(next)
    <3>1. a = job.claim /\ job.status = "running" =>
              (l.kind = "draft" => "validated" \notin DOMAIN manifest)
      BY <1>1, <1>2 DEF Awaits
    <3> QED
      BY <1>3, <2>3, <3>1, AfterKnown
  <2>6. FitsClaim(a, next)
    BY <1>2, <2>4, <2>5 DEF FitsClaim, IsExcused
  <2>7. Step(a, next)
    BY <1>5 DEF Hydrate
  <2> QED
    BY <1>1, <2>4, <2>6, <2>7, QuietStep
<1> QED
  BY <1>4, <1>5

(* A draft is a report that has not been revised.                          *)
LEMMA DraftType ==
    ASSUME NEW a \in Attempts, NEW result \in Results
    PROVE  Draft(a, result) \in Reports /\ ~Draft(a, result).revised
<1>1. result.outcome \in Outcomes
  BY DEF Results
<1> QED
  BY <1>1 DEF Draft, Reports

(* A drafted report is whole, and has not been revised.                    *)
LEMMA InvestigateInv ==
    ASSUME Inv, NEW a \in Attempts, Investigate(a)
    PROVE  Inv'
<1> DEFINE l == attempt[a]
<1>1. l.pc = "investigate" /\ UNCHANGED <<Stored, reviews>> /\ l.pc \in Pcs \ {"save"}
  BY DEF Investigate, Pcs
<1>2. a <= job.claim /\ (a = job.claim => job.status # "completed")
      /\ (a = job.claim /\ job.status = "running" => Awaits(l))
  BY <1>1, NotCompleted
<1>3. CASE Step(a, Failing)
  BY <1>1, <1>3, FailingInv
<1>4. ASSUME NEW result \in Results, Step(a, Saving(a, "draft", Draft(a, result)))
      PROVE  Inv'
  <2> PICK report \in {Draft(a, result)} : TRUE
    OBVIOUS
  <2>1. report \in Reports /\ ~report.revised
    BY DraftType
  <2> PICK next \in {Saving(a, "draft", report)} : TRUE
    OBVIOUS
  <2>2. "draft" \in Kinds /\ MayBeSaved("draft", report)
    BY <2>1 DEF Kinds, MayBeSaved
  <2>3. /\ next \in Local /\ next.pc = "save" /\ next.kind = "draft"
        /\ next.part = 1 /\ ~next.applied
    BY <2>1, <2>2, SavingType
  <2>4. Knows(a, next)
    BY <2>1, <2>2, SavingKnown
  <2>5. a = job.claim /\ job.status = "running" => Awaits(next)
    BY <1>1, <1>2, <2>3 DEF Awaits, IsVisible
  <2>6. FitsClaim(a, next)
    BY <1>2, <2>3, <2>5, LocalShape DEF FitsClaim, IsExcused
  <2>7. Step(a, next)
    BY <1>4
  <2> QED
    BY <1>1, <2>3, <2>4, <2>6, <2>7, QuietStep DEF Locals
<1> QED
  BY <1>3, <1>4 DEF Investigate

-----------------------------------------------------------------------------
(* Reviewing and proposing.                                                *)

(* The second review of a report is its last; a verdict decides.           *)
LEMMA VerdictsDecide ==
    ASSUME NEW answer \in ReviewAnswers, NEW revised
    PROVE  /\ AfterReview(Verdict(answer), revised) \in {"clean", "revise", "reject", "retry"}
           /\ AfterReview(Verdict(answer), revised) = "clean" => Verdict(answer) = "clean"
           /\ AfterReview(Verdict(answer), revised) = "revise" =>
                  Verdict(answer) = "issues" /\ ~revised
<1>1. Verdict(answer) \in {"clean", "issues", "reject", "retry"}
  BY DEF Verdict
<1> HIDE DEF Verdict
<1> QED
  BY <1>1 DEF AfterReview

(* A report is accepted on a clean review, and revised on one with issues  *)
(* only once.                                                              *)
LEMMA ReviewInv ==
    ASSUME Inv, NEW a \in Attempts, Review(a)
    PROVE  Inv'
<1> DEFINE l == attempt[a]
<1>1. l.pc = "review" /\ UNCHANGED Stored /\ l.pc \in Pcs \ {"save"} /\ l # Idle
  BY DEF Review, Pcs, Idle
<1>2. a <= job.claim /\ (a = job.claim => job.status # "completed") /\ Knows(a, l)
      /\ (a = job.claim /\ job.status = "running" => Awaits(l))
  BY <1>1, NotCompleted
<1>3. l.report \in Reports /\ FollowsDraft(l.report)
  BY <1>1, <1>2 DEF Knows
<1> PICK report \in {l.report} : TRUE
  OBVIOUS
<1> PICK answer \in ReviewAnswers :
       /\ Proceed(a, AfterReview(Verdict(answer), report.revised))
       /\ reviews' = reviews \cup
              ({<<report, Verdict(answer)>>} \cap (Reports \X {"clean", "issues"}))
  BY DEF Review
<1> DEFINE verdict == Verdict(answer)
           goes == AfterReview(verdict, report.revised)
<1>4. /\ reviews \subseteq reviews' /\ reviews' \subseteq Reports \X {"clean", "issues"}
      /\ verdict \in {"clean", "issues"} => <<report, verdict>> \in reviews'
  BY <1>3 DEF Inv, Types
<1>5. /\ goes \in {"clean", "revise", "reject", "retry"}
      /\ goes = "clean" => verdict = "clean"
      /\ goes = "revise" => verdict = "issues" /\ ~report.revised
  BY VerdictsDecide
<1>6. FollowsDraft(report)'
  BY <1>1, <1>3, <1>4, ReportsKept DEF GrowsBy, Stored
<1>7. Step(a, CASE goes = "clean" -> Saving(a, "validated", report)
                [] goes = "revise" -> At("revise", "validated", report)
                [] goes = "reject" -> Failing
                [] goes = "retry" -> Idle)
  BY DEF Proceed
<1> HIDE DEF verdict, goes
<1>8. ASSUME NEW next \in Local, Step(a, next), Knows(a, next)',
             a = job.claim /\ job.status = "running" => Awaits(next),
             next.pc \in {"save", "revise", "fail"}
      PROVE  Inv'
  <2>1. FitsClaim(a, next)
    BY <1>2, <1>8 DEF FitsClaim, IsExcused
  <2> QED
    BY <1>1, <1>4, <1>8, <2>1, LocalStep DEF Locals
<1>9. CASE goes = "clean"
  <2> PICK next \in {Saving(a, "validated", report)} : TRUE
    OBVIOUS
  <2>1. "validated" \in Kinds /\ MayBeSaved("validated", report)'
    BY <1>4, <1>5, <1>6, <1>9 DEF Kinds, MayBeSaved, IsClean
  <2>2. /\ next \in Local /\ next.pc = "save" /\ next.kind = "validated"
        /\ next.part = 1 /\ ~next.applied
    BY <1>3, <2>1, SavingType
  <2>3. Knows(a, next)'
    BY <1>3, <2>1, SavingKnown
  <2>4. a = job.claim /\ job.status = "running" => Awaits(next)
    BY <1>1, <1>2, <2>2 DEF Awaits
  <2>5. Step(a, next)
    BY <1>7, <1>9
  <2> QED
    BY <1>8, <2>2, <2>3, <2>4, <2>5
<1>10. CASE goes = "revise"
  <2> PICK next \in {At("revise", "validated", report)} : TRUE
    OBVIOUS
  <2>1. next \in Local
    BY <1>3, AtType DEF Kinds, Pcs
  <2>2. next.pc = "revise" /\ next.report = report
    BY DEF At
  <2>3. HadIssues(report.author)'
    <3>1. <<report, "issues">> \in reviews' /\ ~report.revised
      BY <1>4, <1>5, <1>10
    <3> QED
      BY <3>1 DEF HadIssues
  <2>4. Knows(a, next)'
    BY <1>3, <1>5, <1>6, <1>10, <2>2, <2>3 DEF Knows
  <2>5. a = job.claim /\ job.status = "running" => Awaits(next)
    BY <1>1, <1>2, <2>2 DEF Awaits
  <2>6. Step(a, next)
    BY <1>7, <1>10
  <2> QED
    BY <1>8, <2>1, <2>2, <2>4, <2>5, <2>6
<1>11. CASE goes = "reject"
  <2> PICK next \in {Failing} : TRUE
    OBVIOUS
  <2>1. next \in Local /\ next.pc = "fail"
    BY AtType DEF Failing, Pcs, Kinds
  <2>2. Knows(a, next)'
    BY <2>1 DEF Knows
  <2>3. Awaits(next)
    BY <2>1 DEF Awaits
  <2>4. Step(a, next)
    BY <1>7, <1>11
  <2> QED
    BY <1>8, <2>1, <2>2, <2>3, <2>4
<1>12. CASE goes = "retry"
  <2>1. Step(a, Idle)
    BY <1>7, <1>12
  <2>2. Knows(a, Idle)'
    BY DEF Knows, Idle
  <2>3. FitsClaim(a, Idle)
    BY <1>2 DEF FitsClaim, IsExcused, HasCompleted, Awaits, Idle
  <2> QED
    BY <1>1, <1>4, <2>1, <2>2, <2>3, LocalStep DEF Locals
<1> QED
  BY <1>5, <1>9, <1>10, <1>11, <1>12

(* A revision replaces the findings of a report that had issues.           *)
LEMMA ReviseInv ==
    ASSUME Inv, NEW a \in Attempts, Revise(a)
    PROVE  Inv'
<1> DEFINE l == attempt[a]
<1>1. l.pc = "revise" /\ UNCHANGED <<Stored, reviews>> /\ l.pc \in Pcs \ {"save"} /\ l # Idle
  BY DEF Revise, Pcs, Idle
<1>2. a <= job.claim /\ (a = job.claim => job.status # "completed") /\ Knows(a, l)
      /\ (a = job.claim /\ job.status = "running" => Awaits(l))
  BY <1>1, NotCompleted
<1>3. l.report \in Reports /\ FollowsDraft(l.report) /\ HadIssues(l.report.author)
  BY <1>1, <1>2 DEF Knows
<1>4. CASE Step(a, Idle)
  BY <1>1, <1>4, EndInv
<1>5. CASE Step(a, Failing)
  BY <1>1, <1>5, FailingInv
<1>6. CASE Step(a, At("review", "validated", Revision(l.report, a)))
  <2> PICK report \in {Revision(l.report, a)} : TRUE
    OBVIOUS
  <2>1. /\ report \in Reports /\ report.author = l.report.author
        /\ report.outcome = l.report.outcome
    BY <1>3 DEF Revision, Reports
  <2>2. FollowsDraft(report)
    BY <1>3, <2>1 DEF FollowsDraft
  <2> PICK next \in {At("review", "validated", report)} : TRUE
    OBVIOUS
  <2>3. next \in Local
    BY <2>1, AtType DEF Kinds, Pcs
  <2>4. next.pc = "review" /\ next.report = report
    BY DEF At
  <2>5. Knows(a, next)
    BY <2>1, <2>2, <2>4 DEF Knows
  <2>6. a = job.claim /\ job.status = "running" => Awaits(next)
    BY <1>1, <1>2, <2>4 DEF Awaits
  <2>7. FitsClaim(a, next)
    BY <1>2, <2>4, <2>6 DEF FitsClaim, IsExcused
  <2>8. Step(a, next)
    BY <1>6
  <2> QED
    BY <1>1, <2>3, <2>5, <2>7, <2>8, QuietStep DEF Locals
<1> QED
  BY <1>4, <1>5, <1>6 DEF Revise

(* A result may be saved for an accepted candidate whose proposal is there.*)
LEMMA BackedInv ==
    ASSUME Inv, NEW a \in Attempts, attempt[a].pc \in {"prepare", "reread"}, proposed,
           Step(a, Saving(a, "run", attempt[a].report)), UNCHANGED <<Stored, reviews>>
    PROVE  Inv'
<1> PICK report \in {attempt[a].report} : TRUE
  OBVIOUS
<1> PICK next \in {Saving(a, "run", report)} : TRUE
  OBVIOUS
<1>1. attempt[a].pc \in Pcs \ {"save"}
  BY DEF Pcs
<1>2. a <= job.claim /\ (a = job.claim => job.status # "completed") /\ Knows(a, attempt[a])
  BY <1>1, NotCompleted
<1>3. report \in Reports /\ "run" \in Kinds /\ MayBeSaved("run", report)
  BY <1>2 DEF Knows, Kinds, MayBeSaved, IsBacked
<1>4. next \in Local /\ next.pc = "save" /\ next.kind = "run"
  BY <1>3, SavingType
<1>5. Knows(a, next)
  BY <1>3, SavingKnown
<1>6. FitsClaim(a, next)
  BY <1>2, <1>4 DEF FitsClaim, IsExcused, Awaits
<1>7. Step(a, next)
  OBVIOUS
<1> QED
  BY <1>4, <1>5, <1>6, <1>7, QuietStep DEF Locals

(* The proposal is looked up for an accepted candidate.                    *)
LEMMA PrepareInv ==
    ASSUME Inv, NEW a \in Attempts, Prepare(a)
    PROVE  Inv'
<1>1. /\ attempt[a].pc = "prepare" /\ UNCHANGED <<Stored, reviews>>
      /\ attempt[a].pc \in Pcs \ {"save"}
  BY DEF Prepare, Pcs
<1>2. CASE Step(a, Failing)
  BY <1>1, <1>2, FailingInv
<1>3. CASE proposed /\ Step(a, Saving(a, "run", attempt[a].report))
  BY <1>1, <1>3, BackedInv
<1>4. CASE Step(a, At("propose", "run", attempt[a].report))
  <2> PICK report \in {attempt[a].report} : TRUE
    OBVIOUS
  <2> PICK next \in {At("propose", "run", report)} : TRUE
    OBVIOUS
  <2>1. a <= job.claim /\ (a = job.claim => job.status # "completed") /\ Knows(a, attempt[a])
    BY <1>1, NotCompleted
  <2>2. /\ report \in Reports /\ IsAccepted(report)
        /\ report.outcome = "proposal_candidate"
    BY <1>1, <2>1 DEF Knows
  <2>3. next \in Local
    BY <2>2, AtType DEF Kinds, Pcs
  <2>4. next.pc = "propose" /\ next.report = report /\ ~next.applied
    BY DEF At
  <2>5. Knows(a, next)
    BY <2>2, <2>4 DEF Knows
  <2>6. FitsClaim(a, next)
    BY <2>1, <2>4 DEF FitsClaim, IsExcused, Awaits
  <2>7. Step(a, next)
    BY <1>4
  <2> QED
    BY <1>1, <2>3, <2>5, <2>6, <2>7, QuietStep DEF Locals
<1> QED
  BY <1>2, <1>3, <1>4 DEF Prepare

(* What is not found then was refused for what somebody else has written.  *)
LEMMA RereadInv ==
    ASSUME Inv, NEW a \in Attempts, Reread(a)
    PROVE  Inv'
<1> DEFINE stale == attempt[a].stale
<1>1. /\ attempt[a].pc = "reread" /\ UNCHANGED <<Stored, reviews>>
      /\ attempt[a].pc \in Pcs \ {"save"}
  BY DEF Reread, Pcs
<1>2. CASE proposed
  BY <1>1, <1>2, BackedInv DEF Reread
<1>3. CASE ~proposed
  <2>1. Step(a, Refused(stale))
    BY <1>3 DEF Reread
  <2>2. /\ attempt[a] \in Local /\ a <= job.claim
        /\ a = job.claim => job.status # "completed"
    BY <1>1, NotCompleted
  <2>3. stale \in BOOLEAN
    BY <2>2, LocalShape
  <2>4. a = job.claim /\ ~stale => job.status = "failed"
    BY <1>1, <1>3 DEF Inv, ClaimantKnows, IsExcused
  <2>5. Refused(stale) \in Refusals
    BY <2>3 DEF Refusals
  <2>6. Refused(stale).pc = "refused" /\ Refused(stale).stale = stale
    BY DEF Refused
  <2> HIDE DEF stale
  <2>7. FitsClaim(a, Refused(stale))
    BY <2>2, <2>4, <2>6 DEF FitsClaim, IsExcused, Awaits
  <2> QED
    BY <1>1, <2>1, <2>5, <2>7, NothingToKnow, QuietStep DEF Locals
<1> QED
  BY <1>2, <1>3

-----------------------------------------------------------------------------
(* Transactions.                                                           *)

(* Who is refused access goes on to fail the job.                          *)
LEMMA LoseAccessInv ==
    ASSUME Inv, NEW a \in Attempts, LoseAccess(a)
    PROVE  Inv'
<1> DEFINE l == attempt[a]
<1>1. /\ l.pc \in {"save", "propose"} /\ ~l.applied /\ Step(a, Failing) /\ l.pc \in Pcs
      /\ UNCHANGED <<Stored, reviews>> /\ l # Idle
  BY DEF LoseAccess, Pcs, Idle
<1>2. /\ a <= job.claim
      /\ a = job.claim => job.status # "completed"
  BY <1>1, AtWork DEF IsVisible
<1>3. Failing \in Local /\ Failing.pc = "fail"
  BY AtType DEF Failing, Pcs, Kinds
<1>4. FitsClaim(a, Failing)
  BY <1>2, <1>3 DEF FitsClaim, IsExcused, Awaits
<1> QED
  BY <1>1, <1>3, <1>4, NothingToKnow, QuietStep DEF Locals

(* A transaction that conflicts leaves what is known as it was.            *)
LEMMA ConflictInv ==
    ASSUME Inv, NEW a \in Attempts, Conflict(a)
    PROVE  Inv'
<1> DEFINE l == attempt[a]
<1>1. /\ l.pc \in {"save", "propose", "fail"} /\ l.pc \in Pcs /\ l # Idle /\ ~l.applied
      /\ UNCHANGED <<Stored, reviews>>
  BY DEF Conflict, Sends, Pcs, Idle, IsDuplicate
<1>2. /\ l \in Local /\ a <= job.claim /\ Knows(a, l)
      /\ (a = job.claim /\ job.status = "completed" => IsVisible(l))
      /\ (a = job.claim /\ job.status = "running" => Awaits(l))
  BY <1>1, AtWork
<1>3. CASE Step(a, Idle)
  BY <1>1, <1>3, EndInv
<1>4. CASE l.tries < MaxTries - 1 /\ Step(a, [l EXCEPT !.tries = @ + 1])
  <2> PICK next \in {[l EXCEPT !.tries = @ + 1]} : TRUE
    OBVIOUS
  <2>1. l.tries + 1 \in 0 .. MaxTries - 1
    BY <1>2, <1>4, LocalShape, BoundsAssumption
  <2>2. /\ next \in Local /\ next.pc = l.pc /\ next.kind = l.kind
        /\ next.version = l.version /\ next.report = l.report
        /\ next.part = l.part /\ next.applied = l.applied
    BY <1>2, <2>1 DEF Local
  <2>3. Knows(a, next)
    BY <1>2, <2>2 DEF Knows
  <2>4. a = job.claim /\ job.status = "running" => Awaits(next)
    BY <1>2, <2>2 DEF Awaits, IsVisible
  <2>5. FitsClaim(a, next)
    BY <1>1, <1>2, <2>2, <2>4, LocalShape DEF FitsClaim, IsExcused, IsVisible
  <2>6. Step(a, next)
    BY <1>4
  <2> QED
    BY <1>1, <2>2, <2>3, <2>5, <2>6, QuietStep DEF Locals
<1> QED
  BY <1>3, <1>4 DEF Conflict

(* Who is refused has lost the claim, or finds a proposal, or the records  *)
(* are those of others.                                                    *)
LEMMA RefuseInv ==
    ASSUME Inv, NEW a \in Attempts, Refuse(a)
    PROVE  Inv'
<1> PICK l \in {attempt[a]} : TRUE
  OBVIOUS
<1> PICK stale \in BOOLEAN :
       /\ stale \/ ~Holds(a, l)
       /\ Step(a, IF l.pc = "propose" THEN [l EXCEPT !.pc = "reread", !.stale = stale]
                  ELSE Refused(stale))
  BY DEF Refuse
<1>1. /\ l = attempt[a] /\ l.pc \in {"save", "propose", "fail"} /\ l.pc \in Pcs /\ l # Idle
      /\ ~l.applied /\ UNCHANGED <<Stored, reviews>>
  BY DEF Refuse, Sends, Pcs, Idle, IsDuplicate
<1>2. /\ l \in Local /\ Knows(a, l) /\ a <= job.claim
      /\ a = job.claim => job.status # "completed"
  BY <1>1, AtWork DEF IsVisible
<1>3. a = job.claim /\ ~HoldsClaim(a) => job.status = "failed"
  <2>1. job.status \in {"queued", "running", "completed", "failed"}
    BY DEF Inv, TypeOK, Closed
  <2>2. job.status = "queued" => a # job.claim
    BY BoundsAssumption DEF Inv, ManifestsFollow, Attempts
  <2> QED
    BY <1>2, <2>1, <2>2 DEF HoldsClaim
<1>4. CASE l.pc = "propose"
  <2> PICK next \in {[l EXCEPT !.pc = "reread", !.stale = stale]} : TRUE
    OBVIOUS
  <2>1. /\ next \in Local /\ next.pc = "reread" /\ next.stale = stale
        /\ next.report = l.report
    BY <1>2 DEF Local, Pcs
  <2>2. Knows(a, next)
    BY <1>2, <1>4, <2>1 DEF Knows
  <2>3. a = job.claim /\ ~stale => proposed \/ job.status = "failed"
    BY <1>3 DEF Holds
  <2>4. FitsClaim(a, next)
    BY <1>2, <2>1, <2>3 DEF FitsClaim, IsExcused, Awaits
  <2>5. Step(a, next)
    BY <1>4
  <2> QED
    BY <1>1, <2>1, <2>2, <2>4, <2>5, QuietStep DEF Locals
<1>5. CASE l.pc # "propose"
  <2>1. a = job.claim /\ ~stale => job.status = "failed"
    BY <1>3, <1>5 DEF Holds
  <2>2. Refused(stale) \in Refusals
    BY DEF Refusals
  <2>3. Refused(stale).pc = "refused" /\ Refused(stale).stale = stale
    BY DEF Refused
  <2>4. FitsClaim(a, Refused(stale))
    BY <1>2, <2>1, <2>3 DEF FitsClaim, IsExcused, Awaits
  <2> QED
    BY <1>1, <1>5, <2>2, <2>4, NothingToKnow, QuietStep DEF Locals
<1> QED
  BY <1>4, <1>5

(* The next claim is that of an attempt that knows nothing yet.            *)
LEMMA BeginInv ==
    ASSUME Inv, NEW a \in Attempts, Begin(a)
    PROVE  Inv'
<1> PICK next \in {At("load", "validated", NoReport)} : TRUE
  OBVIOUS
<1>1. /\ job' = [status |-> "running", claim |-> a] /\ a = job.claim + 1
      /\ job.status \notin Closed /\ UNCHANGED <<chunks, manifest, proposed, reviews>>
      /\ Step(a, next)
  BY DEF Begin
<1>2. next \in Local
  BY AtType DEF Kinds, Pcs
<1>3. next.pc = "load" /\ next.kind = "validated"
  BY DEF At
<1>4. /\ attempt' \in [Attempts -> Locals]
      /\ \A b \in Attempts : attempt'[b] = IF b = a THEN next ELSE attempt[b]
  BY <1>1, <1>2 DEF Inv, Types, Step, Locals
<1>5. next.part \in 1 .. Parts + 1 /\ next.tries < MaxTries
  BY <1>2, LocalShape, BoundsAssumption
<1>6. job.claim \in Nat /\ a \in 0 .. MaxAttempts /\ a \in Nat
  BY BoundsAssumption DEF Inv, TypeOK, Attempts
<1>7. TypeOK'
  BY <1>1, <1>4, <1>5, <1>6 DEF Inv, TypeOK
<1>8. Types'
  BY <1>1, <1>4 DEF Inv, Types
<1>9. OnlyClaimants'
  <2> SUFFICES ASSUME NEW b \in Attempts, b > a PROVE attempt'[b] = Idle
    BY <1>1 DEF OnlyClaimants
  <2>1. b > job.claim /\ b # a
    BY <1>1, <1>6, BoundsAssumption DEF Attempts
  <2> QED
    BY <1>4, <2>1 DEF Inv, OnlyClaimants
<1>10. GrowsBy(a)
  BY <1>1 DEF GrowsBy
<1>11. ManifestsFollow'
  <2>1. job.status # "completed" /\ job'.status = "running"
    BY <1>1 DEF Closed
  <2> QED
    BY <1>1, <1>10, <2>1, ReportsKept DEF Inv, ManifestsFollow
<1>12. ManifestsAreWhole'
  BY <1>1 DEF Inv, ManifestsAreWhole, HasChunk
<1>13. Knows(a, next)'
  BY <1>3 DEF Knows
<1>14. ASSUME NEW b \in Attempts PROVE Knows(b, attempt[b])'
  BY <1>4, <1>10, <1>13, KnowsKept DEF Inv
<1>15. Awaits(next)'
  BY <1>3 DEF Awaits
<1>16. ClaimantKnows'
  BY <1>1, <1>3, <1>4, <1>15 DEF ClaimantKnows, IsExcused
<1>17. RefusedOnlyByOthers'
  BY <1>1, <1>3, <1>4 DEF Inv, RefusedOnlyByOthers, OnlyClaimants, Idle
<1> QED
  BY <1>7, <1>8, <1>9, <1>11, <1>12, <1>14, <1>16, <1>17 DEF Inv

(* A job that is given up is closed to all attempts.                       *)
LEMMA GiveUpInv ==
    ASSUME Inv, GiveUp
    PROVE  Inv'
<1>1. /\ job.status \notin Closed /\ UNCHANGED <<chunks, manifest, proposed, attempt, reviews>>
      /\ job' = [job EXCEPT !.status = "failed"]
  BY DEF GiveUp
<1>2. /\ job' \in [status : {"queued", "running"} \cup Closed, claim : 0 .. MaxAttempts]
      /\ job'.status = "failed" /\ job'.claim = job.claim /\ job.status # "completed"
  BY <1>1 DEF Inv, TypeOK, Closed
<1>3. TypeOK'
  BY <1>1, <1>2 DEF Inv, TypeOK
<1>4. Types'
  BY <1>1 DEF Inv, Types
<1>5. OnlyClaimants'
  BY <1>1, <1>2 DEF Inv, OnlyClaimants
<1>6. \A a : GrowsBy(a)
  BY <1>1 DEF GrowsBy
<1>7. ManifestsFollow'
  BY <1>1, <1>2, <1>6, ReportsKept DEF Inv, ManifestsFollow
<1>8. ManifestsAreWhole'
  BY <1>1 DEF Inv, ManifestsAreWhole, HasChunk
<1>9. ASSUME NEW a \in Attempts PROVE Knows(a, attempt[a])'
  <2>1. GrowsBy(0) /\ a # 0
    BY <1>6, BoundsAssumption DEF Attempts
  <2> QED
    BY <1>1, <2>1, KnowsKept DEF Inv
<1>10. ClaimantKnows' /\ RefusedOnlyByOthers'
  BY <1>1, <1>2 DEF Inv, ClaimantKnows, IsExcused, RefusedOnlyByOthers
<1> QED
  BY <1>3, <1>4, <1>5, <1>7, <1>8, <1>9, <1>10 DEF Inv

-----------------------------------------------------------------------------
(* What a transaction writes.                                              *)

(* It is about to write for the claim: nothing it writes is visible yet.   *)
Writes(a, l) ==
    /\ l.pc \in {"save", "propose", "fail"} /\ ~l.applied /\ HoldsClaim(a)
    /\ l \in Local /\ Knows(a, l) /\ Awaits(l)
    /\ "run" \notin DOMAIN manifest
    /\ l.pc = "propose" => /\ l.report \in Reports /\ IsAccepted(l.report)
                           /\ l.report.outcome = "proposal_candidate"
    /\ l.pc = "save" => l.kind \notin DOMAIN manifest /\ l.report \in Reports /\ l.version = a
                        /\ MayBeSaved(l.kind, l.report)

(* An attempt that sends a transaction while it holds the claim is.        *)
LEMMA IsAboutToWrite ==
    ASSUME Inv, NEW a \in Attempts, NEW l, l = attempt[a],
           l.pc \in {"save", "propose", "fail"}, ~l.applied, HoldsClaim(a)
    PROVE  Writes(a, l)
<1>1. l.pc \in Pcs /\ l # Idle
  BY DEF Pcs, Idle
<1>2. l \in Local /\ Knows(a, l) /\ Awaits(l)
  BY <1>1, AtWork DEF HoldsClaim
<1>3. "run" \notin DOMAIN manifest
  BY DEF HoldsClaim, Inv, ManifestsFollow
<1>4. /\ l.pc = "save" => l.report \in Reports /\ l.version = a /\ MayBeSaved(l.kind, l.report)
      /\ l.pc = "propose" => /\ l.report \in Reports /\ IsAccepted(l.report)
                             /\ l.report.outcome = "proposal_candidate"
  BY <1>2 DEF Knows
<1>5. l.pc = "save" => l.kind \notin DOMAIN manifest
  BY <1>2, <1>3, LocalShape DEF Awaits, IsVisible, Kinds
<1> QED
  BY <1>2, <1>3, <1>4, <1>5 DEF Writes

(* What becomes of the tables.                                             *)
LEMMA ChunkWritten ==
    ASSUME Inv, NEW a \in Attempts, NEW l, Writes(a, l),
           l.pc = "save", IsChunk(l.part), UNCHANGED <<job, manifest, proposed, reviews>>,
           chunks' = Put(chunks, <<l.kind, l.version, l.part>>, l.report)
    PROVE  /\ GrowsBy(a) /\ TablesOK' /\ ManifestsFollow' /\ ManifestsAreWhole'
           /\ HasChunk(l.kind, a, l.part, l.report)'
           /\ \A part : HasChunk(l.kind, a, part, l.report) /\ part # l.part =>
                            HasChunk(l.kind, a, part, l.report)'
<1> PICK key \in {<<l.kind, l.version, l.part>>} : TRUE
  OBVIOUS
<1>1. /\ DOMAIN chunks' = DOMAIN chunks \cup {key} /\ chunks'[key] = l.report
      /\ \A k \in DOMAIN chunks \ {key} : chunks'[k] = chunks[k]
  BY DEF Put
<1>2. /\ l.version = a /\ l.report \in Reports /\ l.kind \in Kinds /\ l.part \in 1 .. Parts
      /\ l.kind \notin DOMAIN manifest
  BY LocalShape, BoundsAssumption DEF Writes, IsChunk
<1>3. key[2] = a /\ key \in Kinds \X Attempts \X (1 .. Parts)
  BY <1>2
<1>4. GrowsBy(a)
  BY <1>1, <1>3 DEF GrowsBy
<1>5. TablesOK'
  BY <1>1, <1>2, <1>3 DEF TablesOK, Inv, TypeOK, Types
<1>6. ManifestsFollow'
  BY <1>4, ReportsKept DEF Inv, ManifestsFollow
<1>7. ManifestsAreWhole'
  <2>1. \A k \in DOMAIN manifest : \A part : <<k, manifest[k].version, part>> # key
    BY <1>2
  <2> QED
    BY <1>1, <2>1 DEF Inv, ManifestsAreWhole, HasChunk
<1>8. HasChunk(l.kind, a, l.part, l.report)'
  BY <1>1, <1>2 DEF HasChunk
<1>9. \A part : part # l.part => <<l.kind, a, part>> # key
  BY <1>2
<1> QED
  BY <1>1, <1>4, <1>5, <1>6, <1>7, <1>8, <1>9 DEF HasChunk

(* A report that becomes visible is whole, and follows what is visible.    *)
LEMMA ManifestWritten ==
    ASSUME Inv, NEW a \in Attempts, NEW l, Writes(a, l),
           l.pc = "save", ~IsChunk(l.part), UNCHANGED <<chunks, proposed, reviews>>,
           manifest' = Put(manifest, l.kind, [version |-> l.version, content |-> l.report]),
           job' = IF l.kind = "run" THEN [job EXCEPT !.status = "completed"] ELSE job
    PROVE  /\ GrowsBy(a) /\ TablesOK' /\ ManifestsFollow' /\ ManifestsAreWhole'
           /\ l.kind \in DOMAIN manifest'
           /\ manifest'[l.kind] = [version |-> a, content |-> l.report]
           /\ \A k : k \in DOMAIN manifest' <=> k \in DOMAIN manifest \/ k = l.kind
           /\ job'.claim = job.claim
           /\ l.kind = "run" => job'.status = "completed"
           /\ l.kind # "run" => job'.status = "running"
<1> PICK kind \in {l.kind} : TRUE
  OBVIOUS
<1> PICK report \in {l.report} : TRUE
  OBVIOUS
<1>1. /\ kind \in Kinds /\ report \in Reports /\ l.version = a
      /\ kind \notin DOMAIN manifest /\ "run" \notin DOMAIN manifest
      /\ MayBeSaved(kind, report) /\ job.status = "running"
  BY LocalShape DEF Writes, HoldsClaim
<1>2. /\ DOMAIN manifest' = DOMAIN manifest \cup {kind}
      /\ manifest'[kind] = [version |-> a, content |-> report]
      /\ \A k \in DOMAIN manifest : manifest'[k] = manifest[k]
  BY <1>1 DEF Put
<1>3. manifest'[kind].content = report /\ manifest'[kind].version = a
  BY <1>2
<1>4. /\ job' \in [status : {"queued", "running"} \cup Closed, claim : 0 .. MaxAttempts]
      /\ job'.claim = job.claim
      /\ kind = "run" => job'.status = "completed"
      /\ kind # "run" => job'.status = "running"
  BY <1>1 DEF Inv, TypeOK, Closed
<1>5. GrowsBy(a)
  BY <1>2 DEF GrowsBy
<1>6. TablesOK'
  BY <1>1, <1>2, <1>4 DEF TablesOK, Inv, TypeOK, Types
<1>7. ManifestsAreWhole'
  <2>1. \A part \in 1 .. Parts : HasChunk(kind, a, part, report)
    <3>1. \A part \in 1 .. Parts : part < l.part
      BY LocalShape, BoundsAssumption DEF Writes, IsChunk
    <3> QED
      BY <3>1 DEF Writes, Knows
  <2>2. ASSUME NEW k \in DOMAIN manifest', NEW part \in 1 .. Parts
        PROVE  HasChunk(k, manifest'[k].version, part, manifest'[k].content)
    BY <1>2, <1>3, <2>1, <2>2 DEF Inv, ManifestsAreWhole
  <2> QED
    BY <2>2 DEF ManifestsAreWhole, HasChunk
<1>8. ManifestsFollow'
  <2>1. /\ MayBeSaved(kind, report)'
        /\ \A r : /\ FollowsDraft(r) => FollowsDraft(r)'
                  /\ IsClean(r) => IsClean(r)'
    BY <1>1, <1>5, ReportsKept DEF MayBeSaved
  <2>2. CASE kind = "draft"
    <3>1. "validated" \notin DOMAIN manifest /\ "draft" # "validated" /\ "draft" # "run"
      BY <2>2 DEF Writes, Awaits
    <3> QED
      BY <1>1, <1>2, <1>3, <1>4, <2>2, <3>1 DEF MayBeSaved, Inv, ManifestsFollow
  <2>3. CASE kind = "validated"
    BY <1>1, <1>2, <1>3, <1>4, <2>1, <2>3 DEF MayBeSaved, Inv, ManifestsFollow
  <2>4. CASE kind = "run"
    BY <1>1, <1>2, <1>3, <1>4, <2>1, <2>4 DEF MayBeSaved, Inv, ManifestsFollow
  <2> QED
    BY <1>1, <2>2, <2>3, <2>4 DEF Kinds
<1> QED
  BY <1>2, <1>4, <1>5, <1>6, <1>7, <1>8

(* A job that fails leaves what is visible as it was.                      *)
LEMMA FailureWritten ==
    ASSUME Inv, NEW a \in Attempts, NEW l, Writes(a, l),
           job' = [job EXCEPT !.status = "failed"], UNCHANGED <<chunks, manifest, proposed, reviews>>
    PROVE  /\ GrowsBy(a) /\ TablesOK' /\ ManifestsFollow' /\ ManifestsAreWhole'
           /\ job'.claim = job.claim /\ job'.status = "failed"
<1>1. /\ job' \in [status : {"queued", "running"} \cup Closed, claim : 0 .. MaxAttempts]
      /\ job'.status = "failed" /\ job'.claim = job.claim
  BY DEF Inv, TypeOK, Closed
<1>2. "run" \notin DOMAIN manifest
  BY DEF Writes
<1>3. GrowsBy(a)
  BY DEF GrowsBy
<1>4. TablesOK'
  BY <1>1 DEF TablesOK, Inv, TypeOK, Types
<1>5. ManifestsFollow'
  BY <1>1, <1>2, <1>3, ReportsKept DEF Inv, ManifestsFollow
<1>6. ManifestsAreWhole'
  BY DEF Inv, ManifestsAreWhole, HasChunk
<1> QED
  BY <1>1, <1>3, <1>4, <1>5, <1>6

-----------------------------------------------------------------------------
(* What an attempt goes on with when its transaction is answered, or not.  *)

(* The next chunk, and the same transaction with its answer lost.          *)
Onward(l) == [l EXCEPT !.part = @ + 1, !.tries = 0, !.applied = FALSE]
Unanswered(l) == [l EXCEPT !.applied = TRUE]

(* Both keep what is written.                                              *)
LEMMA ChunkIsThere ==
    ASSUME NEW a \in Attempts, NEW l \in Local, l.pc = "save", IsChunk(l.part),
           NEW next \in {Onward(l), Unanswered(l)}
    PROVE  /\ next \in Local /\ next.pc = "save" /\ next.kind = l.kind
           /\ next.version = l.version /\ next.report = l.report
           /\ ~IsVisible(next)
           /\ \A part \in 1 .. Parts :
                  part < next.part \/ (part = next.part /\ next.applied) =>
                      part < l.part \/ part = l.part
<1>1. /\ l.part \in 1 .. Parts /\ l.part + 1 \in 1 .. Parts + 1 /\ 0 \in 0 .. MaxTries - 1
      /\ ~(l.part > Parts)
  BY LocalShape, BoundsAssumption DEF IsChunk
<1>2. CASE next = Onward(l)
  <2>1. next \in Local /\ next.pc = "save" /\ next.kind = l.kind
        /\ next.version = l.version /\ next.report = l.report
        /\ next.part = l.part + 1 /\ ~next.applied
    BY <1>1, <1>2 DEF Local, Onward
  <2>2. \A part \in 1 .. Parts : part < l.part + 1 => part < l.part \/ part = l.part
    BY <1>1
  <2> QED
    BY <2>1, <2>2 DEF IsVisible
<1>3. CASE next = Unanswered(l)
  <2>1. next \in Local /\ next.pc = "save" /\ next.kind = l.kind
        /\ next.version = l.version /\ next.report = l.report /\ next.part = l.part
    BY <1>3 DEF Local, Unanswered
  <2> QED
    BY <1>1, <2>1 DEF IsVisible
<1> QED
  BY <1>2, <1>3

(* An attempt knows its chunks, once they are written.                     *)
LEMMA ChunkKnown ==
    ASSUME Inv, NEW a \in Attempts, NEW l, l = attempt[a],
           l.pc \in {"save", "propose", "fail"}, ~l.applied, HoldsClaim(a),
           l.pc = "save", IsChunk(l.part), UNCHANGED <<job, manifest, proposed, reviews>>,
           chunks' = Put(chunks, <<l.kind, l.version, l.part>>, l.report),
           NEW next \in {Onward(l), Unanswered(l)},
           Step(a, next)
    PROVE  Inv'
<1>1. Writes(a, l)
  BY IsAboutToWrite
<1>2. l \in Local /\ Knows(a, l) /\ Awaits(l) /\ MayBeSaved(l.kind, l.report)
      /\ l.report \in Reports /\ l.version = a
  BY <1>1 DEF Writes
<1>3. /\ GrowsBy(a) /\ TablesOK' /\ ManifestsFollow' /\ ManifestsAreWhole'
      /\ HasChunk(l.kind, a, l.part, l.report)'
      /\ \A part : HasChunk(l.kind, a, part, l.report) /\ part # l.part =>
                       HasChunk(l.kind, a, part, l.report)'
  BY <1>1, ChunkWritten
<1>4. /\ next \in Local /\ next.pc = "save" /\ next.kind = l.kind
      /\ next.version = l.version /\ next.report = l.report
      /\ ~IsVisible(next)
      /\ \A part \in 1 .. Parts :
             part < next.part \/ (part = next.part /\ next.applied) =>
                 part < l.part \/ part = l.part
  BY <1>2, ChunkIsThere
<1>5. \A part \in 1 .. Parts : part < l.part => HasChunk(l.kind, a, part, l.report)
  BY <1>2 DEF Knows
<1>6. \A part \in 1 .. Parts : part < l.part \/ part = l.part =>
          HasChunk(l.kind, a, part, l.report)'
  BY <1>3, <1>5
<1>7. MayBeSaved(l.kind, l.report)'
  BY <1>2, <1>3, ReportsKept DEF MayBeSaved
<1>8. Knows(a, next)'
  BY <1>2, <1>4, <1>6, <1>7 DEF Knows, IsVisible
<1>9. Awaits(next)'
  <2>1. ~IsVisible(l)
    BY DEF IsVisible
  <2> QED
    BY <1>2, <1>4, <2>1 DEF Awaits
<1>10. FitsClaim(a, next)'
  <2>1. job'.claim = a /\ job'.status = "running" /\ a <= a
    BY BoundsAssumption DEF HoldsClaim, Attempts
  <2> QED
    BY <1>4, <1>9, <2>1, LocalShape DEF FitsClaim, IsExcused
<1> QED
  BY <1>3, <1>4, <1>8, <1>10, AttemptStep DEF Locals

(* So does one that has made its report visible.                           *)
LEMMA ManifestKnown ==
    ASSUME Inv, NEW a \in Attempts, NEW l, l = attempt[a],
           l.pc \in {"save", "propose", "fail"}, ~l.applied, HoldsClaim(a),
           l.pc = "save", ~IsChunk(l.part), UNCHANGED <<chunks, proposed, reviews>>,
           manifest' = Put(manifest, l.kind, [version |-> l.version, content |-> l.report]),
           job' = IF l.kind = "run" THEN [job EXCEPT !.status = "completed"] ELSE job,
           NEW next \in {After(a, l.kind, l.report), Unanswered(l)},
           Step(a, next)
    PROVE  Inv'
<1>1. Writes(a, l)
  BY IsAboutToWrite
<1>2. l \in Local /\ Knows(a, l) /\ Awaits(l) /\ MayBeSaved(l.kind, l.report)
      /\ l.report \in Reports /\ l.version = a /\ l.kind \in Kinds
  BY <1>1, LocalShape DEF Writes
<1>3. /\ GrowsBy(a) /\ TablesOK' /\ ManifestsFollow' /\ ManifestsAreWhole'
      /\ l.kind \in DOMAIN manifest'
      /\ manifest'[l.kind] = [version |-> a, content |-> l.report]
      /\ \A k : k \in DOMAIN manifest' <=> k \in DOMAIN manifest \/ k = l.kind
      /\ job'.claim = job.claim
      /\ l.kind = "run" => job'.status = "completed"
      /\ l.kind # "run" => job'.status = "running"
  BY <1>1, ManifestWritten
<1>4. job'.claim = a /\ a <= a
  BY <1>3, BoundsAssumption DEF HoldsClaim, Attempts
<1>5. l.kind = "draft" => "validated" \notin DOMAIN manifest'
  <2>1. l.kind = "draft" => "validated" \notin DOMAIN manifest
    BY <1>2 DEF Awaits
  <2> QED
    BY <1>3, <2>1
<1>6. MayBeSaved(l.kind, l.report)'
  BY <1>2, <1>3, ReportsKept DEF MayBeSaved
<1>7. CASE next = After(a, l.kind, l.report)
  <2>1. l.kind = "draft" => FollowsDraft(l.report)'
    BY <1>3, <1>6 DEF FollowsDraft, MayBeSaved
  <2>2. l.kind = "validated" => IsAccepted(l.report)'
    BY <1>3 DEF IsAccepted
  <2>3. next \in Locals /\ next.pc \notin {"refused", "reread"} /\ Knows(a, next)' /\ Awaits(next)'
    BY <1>2, <1>5, <1>7, <2>1, <2>2, AfterKnown
  <2>4. l.kind = "run" => next = Idle
    BY <1>2, <1>7, AfterShape
  <2>5. FitsClaim(a, next)'
    BY <1>3, <1>4, <2>3, <2>4 DEF FitsClaim, IsExcused, HasCompleted
  <2> QED
    BY <1>3, <1>4, <2>3, <2>5, AttemptStep DEF HoldsClaim
<1>8. CASE next = Unanswered(l)
  <2>1. /\ next \in Local /\ next.pc = "save" /\ next.kind = l.kind /\ next.applied
        /\ next.version = l.version /\ next.report = l.report /\ next.part = l.part
    BY <1>2, <1>8 DEF Local, Unanswered
  <2>2. l.part > Parts /\ \A part \in 1 .. Parts : part < l.part
    BY <1>2, LocalShape, BoundsAssumption DEF IsChunk
  <2>3. \A part \in 1 .. Parts : HasChunk(l.kind, a, part, l.report)
    BY <1>2, <2>2 DEF Knows
  <2>4. \A part \in 1 .. Parts : HasChunk(l.kind, a, part, l.report)'
    BY <2>3 DEF HasChunk
  <2>5. Knows(a, next)'
    BY <1>2, <1>3, <1>6, <2>1, <2>4 DEF Knows
  <2>6. Awaits(next)' /\ IsVisible(next)
    BY <1>5, <2>1, <2>2 DEF Awaits, IsVisible
  <2>7. FitsClaim(a, next)'
    BY <1>3, <1>4, <2>1, <2>6, LocalShape DEF FitsClaim, IsExcused, HasCompleted
  <2> QED
    BY <1>3, <1>4, <2>1, <2>5, <2>7, AttemptStep DEF HoldsClaim, Locals
<1> QED
  BY <1>7, <1>8

(* One that has saved its proposal may save its result.                    *)
LEMMA ProposalKnown ==
    ASSUME Inv, NEW a \in Attempts, NEW l, l = attempt[a],
           l.pc = "propose", ~l.applied, HoldsClaim(a),
           proposed' = TRUE, UNCHANGED <<job, chunks, manifest, reviews>>,
           NEW next \in {Saving(a, "run", l.report), Unanswered(l)},
           Step(a, next)
    PROVE  Inv'
<1> PICK report \in {l.report} : TRUE
  OBVIOUS
<1>1. Writes(a, l)
  BY IsAboutToWrite
<1>2. /\ l \in Local /\ report \in Reports /\ IsAccepted(report)
      /\ report.outcome = "proposal_candidate"
  BY <1>1 DEF Writes
<1>3. job'.claim = a /\ job'.status = "running" /\ a <= a
  BY BoundsAssumption DEF HoldsClaim, Attempts
<1>4. GrowsBy(a)
  BY DEF GrowsBy
<1>5. ManifestsFollow'
  BY <1>2, <1>4, ReportsKept DEF Inv, ManifestsFollow, IsAccepted
<1>6. ManifestsAreWhole'
  BY DEF Inv, ManifestsAreWhole, HasChunk
<1>7. TablesOK'
  BY DEF Inv, TypeOK, Types, TablesOK
<1>8. IsAccepted(report)' /\ MayBeSaved("run", report)'
  BY <1>2 DEF MayBeSaved, IsAccepted, IsBacked
<1>9. CASE next = Saving(a, "run", report)
  <2>1. "run" \in Kinds
    BY DEF Kinds
  <2>2. next \in Local /\ next.pc = "save" /\ next.kind = "run"
    BY <1>2, <1>9, <2>1, SavingType
  <2>3. Knows(a, next)'
    BY <1>2, <1>8, <1>9, <2>1, SavingKnown
  <2>4. FitsClaim(a, next)'
    BY <1>3, <2>2 DEF FitsClaim, IsExcused, Awaits
  <2> QED
    BY <1>4, <1>5, <1>6, <1>7, <2>2, <2>3, <2>4, AttemptStep DEF Locals
<1>10. CASE next = Unanswered(l)
  <2>1. next \in Local /\ next.pc = "propose" /\ next.report = report
    BY <1>2, <1>10 DEF Local, Unanswered
  <2>2. Knows(a, next)'
    BY <1>2, <1>8, <2>1 DEF Knows
  <2>3. FitsClaim(a, next)'
    BY <1>3, <2>1 DEF FitsClaim, IsExcused, Awaits
  <2> QED
    BY <1>4, <1>5, <1>6, <1>7, <2>1, <2>2, <2>3, AttemptStep DEF Locals
<1> QED
  BY <1>9, <1>10

(* One that has failed the job has nothing left to do.                     *)
LEMMA FailureKnown ==
    ASSUME Inv, NEW a \in Attempts, NEW l, l = attempt[a],
           l.pc \in {"save", "propose", "fail"}, ~l.applied, HoldsClaim(a), l.pc = "fail",
           UNCHANGED <<chunks, manifest, proposed, reviews>>,
           job' = [job EXCEPT !.status = "failed"],
           NEW next \in {Idle, Unanswered(l)},
           Step(a, next)
    PROVE  Inv'
<1>1. Writes(a, l)
  BY IsAboutToWrite
<1>2. /\ GrowsBy(a) /\ TablesOK' /\ ManifestsFollow' /\ ManifestsAreWhole'
      /\ job'.claim = job.claim /\ job'.status = "failed"
  BY <1>1, FailureWritten
<1>3. job'.claim = a /\ a <= a
  BY <1>2, BoundsAssumption DEF HoldsClaim, Attempts
<1>4. next = Idle \/ (next \in Local /\ next.pc = "fail")
  BY <1>1 DEF Writes, Local, Unanswered
<1>5. next \in Locals /\ Knows(a, next)'
  BY <1>4 DEF Locals, Knows, Idle
<1>6. FitsClaim(a, next)'
  BY <1>2, <1>3 DEF FitsClaim, IsExcused
<1> QED
  BY <1>2, <1>3, <1>5, <1>6, AttemptStep DEF HoldsClaim

(* A lost answer leaves an attempt that does not know what it has written. *)
LEMMA LoseAnswerInv ==
    ASSUME Inv, NEW a \in Attempts, LoseAnswer(a)
    PROVE  Inv'
<1> PICK l \in {attempt[a]} : TRUE
  OBVIOUS
<1> PICK next \in {Unanswered(l)} : TRUE
  OBVIOUS
<1>1. /\ l = attempt[a] /\ l.pc \in {"save", "propose", "fail"} /\ ~l.applied /\ HoldsClaim(a)
      /\ Write(l) /\ Step(a, next) /\ UNCHANGED reviews
  BY DEF LoseAnswer, Sends, Holds, Unanswered
<1>2. CASE l.pc = "save" /\ IsChunk(l.part)
           /\ chunks' = Put(chunks, <<l.kind, l.version, l.part>>, l.report)
           /\ UNCHANGED <<job, manifest, proposed>>
  <2>1. next \in {Onward(l), Unanswered(l)}
    OBVIOUS
  <2> QED
    BY <1>1, <1>2, <2>1, ChunkKnown
<1>3. CASE l.pc = "save" /\ ~IsChunk(l.part) /\ UNCHANGED <<chunks, proposed>>
           /\ manifest' = Put(manifest, l.kind, [version |-> l.version, content |-> l.report])
           /\ job' = IF l.kind = "run" THEN [job EXCEPT !.status = "completed"] ELSE job
  BY <1>1, <1>3, ManifestKnown
<1>4. CASE l.pc = "fail" /\ job' = [job EXCEPT !.status = "failed"]
           /\ UNCHANGED <<chunks, manifest, proposed>>
  BY <1>1, <1>4, FailureKnown
<1>5. CASE l.pc = "propose" /\ proposed' = TRUE /\ UNCHANGED <<job, chunks, manifest>>
  BY <1>1, <1>5, ProposalKnown
<1> QED
  BY <1>1, <1>2, <1>3, <1>4, <1>5 DEF Write

(* A transaction that is applied at once, or had been before.              *)
LEMMA CommitInv ==
    ASSUME Inv, NEW a \in Attempts, Commit(a)
    PROVE  Inv'
<1> PICK l \in {attempt[a]} : TRUE
  OBVIOUS
<1> PICK next \in {Committed(a, l)} : TRUE
  OBVIOUS
<1>1. /\ l = attempt[a] /\ l.pc \in {"save", "propose", "fail"} /\ Step(a, next) /\ UNCHANGED reviews
      /\ \/ l.applied /\ UNCHANGED Stored
         \/ ~l.applied /\ HoldsClaim(a) /\ Write(l)
  BY DEF Commit, Sends, Holds, IsDuplicate
<1>2. /\ l.pc = "fail" => next = Idle
      /\ l.pc = "propose" => next = Saving(a, "run", l.report)
      /\ l.pc = "save" /\ IsChunk(l.part) =>
             next = Onward(l)
      /\ l.pc = "save" /\ ~IsChunk(l.part) => next = After(a, l.kind, l.report)
  BY DEF Committed, Onward
<1>3. CASE ~l.applied /\ HoldsClaim(a) /\ Write(l)
  <2>1. CASE l.pc = "save" /\ IsChunk(l.part)
             /\ chunks' = Put(chunks, <<l.kind, l.version, l.part>>, l.report)
             /\ UNCHANGED <<job, manifest, proposed>>
    <3>1. next \in {Onward(l), Unanswered(l)}
      BY <1>2, <2>1
    <3> QED
      BY <1>1, <1>3, <2>1, <3>1, ChunkKnown
  <2>2. CASE l.pc = "save" /\ ~IsChunk(l.part) /\ UNCHANGED <<chunks, proposed>>
             /\ manifest' = Put(manifest, l.kind, [version |-> l.version, content |-> l.report])
             /\ job' = IF l.kind = "run" THEN [job EXCEPT !.status = "completed"] ELSE job
    BY <1>1, <1>2, <1>3, <2>2, ManifestKnown
  <2>3. CASE l.pc = "fail" /\ job' = [job EXCEPT !.status = "failed"]
             /\ UNCHANGED <<chunks, manifest, proposed>>
    <3>1. next \in {Idle, Unanswered(l)}
      BY <1>2, <2>3
    <3> QED
      BY <1>1, <1>3, <2>3, <3>1, FailureKnown
  <2>4. CASE l.pc = "propose" /\ proposed' = TRUE /\ UNCHANGED <<job, chunks, manifest>>
    <3>1. next \in {Saving(a, "run", l.report), Unanswered(l)}
      BY <1>2, <2>4
    <3> QED
      BY <1>1, <1>3, <2>4, <3>1, ProposalKnown
  <2> QED
    BY <1>3, <2>1, <2>2, <2>3, <2>4 DEF Write
<1>4. CASE l.applied /\ UNCHANGED Stored
  <2>1. /\ l \in Local /\ a <= job.claim /\ Knows(a, l) /\ l # Idle
        /\ (a = job.claim /\ job.status = "completed" =>
               l.pc = "save" /\ l.kind = "run" /\ IsVisible(l))
        /\ (a = job.claim /\ job.status = "running" => Awaits(l))
    <3>1. l # Idle /\ l.pc \in Pcs
      BY <1>1 DEF Idle, Pcs
    <3> QED
      BY <1>1, <3>1, AtWork
  <2>2. CASE l.pc = "fail"
    BY <1>1, <1>2, <1>4, <2>1, <2>2, EndInv
  <2>3. CASE l.pc = "save" /\ IsChunk(l.part)
    <3>1. /\ next \in Local /\ next.pc = "save" /\ next.kind = l.kind
          /\ next.version = l.version /\ next.report = l.report
          /\ ~IsVisible(next)
          /\ \A part \in 1 .. Parts :
                 part < next.part \/ (part = next.part /\ next.applied) =>
                     part < l.part \/ part = l.part
      BY <1>2, <2>1, <2>3, ChunkIsThere
    <3>2. ~IsVisible(l)
      BY <2>1, <2>3, LocalShape, BoundsAssumption DEF IsVisible, IsChunk
    <3>3. Knows(a, next)
      BY <1>4, <2>1, <2>3, <3>1 DEF Knows, IsVisible
    <3>4. a = job.claim /\ job.status = "running" => Awaits(next)
      BY <2>1, <2>3, <3>1, <3>2 DEF Awaits
    <3>5. FitsClaim(a, next)
      BY <2>1, <3>1, <3>2, <3>4, LocalShape DEF FitsClaim, IsExcused
    <3> QED
      BY <1>1, <1>4, <3>1, <3>3, <3>5, QuietStep DEF Locals
  <2>4. CASE l.pc = "save" /\ ~IsChunk(l.part)
    <3>1. IsVisible(l)
      BY <1>4, <2>1, <2>4, LocalShape, BoundsAssumption DEF IsVisible, IsChunk
    <3>2. /\ l.kind \in DOMAIN manifest /\ manifest[l.kind].content = l.report
          /\ l.report \in Reports /\ l.kind \in Kinds /\ MayBeSaved(l.kind, l.report)
      BY <2>1, <2>4, <3>1, LocalShape DEF Knows, IsVisible
    <3>3. l.kind = "draft" => FollowsDraft(l.report)
      BY <3>2 DEF FollowsDraft, MayBeSaved
    <3>4. l.kind = "validated" => IsAccepted(l.report)
      BY <3>2 DEF IsAccepted
    <3>5. next \in Locals /\ next.pc \notin {"refused", "reread"} /\ Knows(a, next)
      BY <1>2, <2>4, <3>2, <3>3, <3>4, AfterKnown
    <3>6. a = job.claim /\ job.status = "running" => Awaits(next)
      <4>1. a = job.claim /\ job.status = "running" =>
                (l.kind = "draft" => "validated" \notin DOMAIN manifest)
        BY <2>1, <2>4 DEF Awaits
      <4> QED
        BY <1>2, <2>4, <3>2, <4>1, AfterKnown
    <3>7. l.kind = "run" => next = Idle
      BY <1>2, <2>4, <3>2, AfterShape
    <3>8. FitsClaim(a, next)
      BY <2>1, <3>5, <3>6, <3>7 DEF FitsClaim, IsExcused, HasCompleted
    <3> QED
      BY <1>1, <1>4, <3>5, <3>8, QuietStep
  <2>5. CASE l.pc = "propose"
    <3>1. /\ l.report \in Reports /\ "run" \in Kinds /\ MayBeSaved("run", l.report)
          /\ next = Saving(a, "run", l.report)
      BY <1>2, <1>4, <2>1, <2>5 DEF Knows, Kinds, MayBeSaved, IsBacked
    <3>2. next \in Local /\ next.pc = "save" /\ next.kind = "run" /\ Knows(a, next)
      BY <3>1, SavingType, SavingKnown
    <3>3. FitsClaim(a, next)
      BY <2>1, <2>5, <3>2 DEF FitsClaim, IsExcused, Awaits
    <3> QED
      BY <1>1, <1>4, <3>2, <3>3, QuietStep DEF Locals
  <2> QED
    BY <1>1, <2>2, <2>3, <2>4, <2>5
<1> QED
  BY <1>1, <1>3, <1>4

-----------------------------------------------------------------------------
(* The invariant.                                                          *)

(* Every step keeps it.                                                    *)
LEMMA NextInv == Inv /\ [Next]_vars => Inv'
<1> SUFFICES ASSUME Inv, [Next]_vars PROVE Inv'
  OBVIOUS
<1>1. ASSUME NEW a \in Attempts, Begin(a) PROVE Inv'
  BY <1>1, BeginInv
<1>2. ASSUME NEW a \in Attempts, Load(a) PROVE Inv'
  BY <1>2, LoadInv
<1>3. ASSUME NEW a \in Attempts, Hydrate(a) PROVE Inv'
  BY <1>3, HydrateInv
<1>4. ASSUME NEW a \in Attempts, Investigate(a) PROVE Inv'
  BY <1>4, InvestigateInv
<1>5. ASSUME NEW a \in Attempts, Review(a) PROVE Inv'
  BY <1>5, ReviewInv
<1>6. ASSUME NEW a \in Attempts, Revise(a) PROVE Inv'
  BY <1>6, ReviseInv
<1>7. ASSUME NEW a \in Attempts, Prepare(a) PROVE Inv'
  BY <1>7, PrepareInv
<1>15. ASSUME NEW a \in Attempts, Reread(a) PROVE Inv'
  BY <1>15, RereadInv
<1>16. ASSUME NEW a \in Attempts, LoseAccess(a) PROVE Inv'
  BY <1>16, LoseAccessInv
<1>8. ASSUME NEW a \in Attempts, Commit(a) PROVE Inv'
  BY <1>8, CommitInv
<1>9. ASSUME NEW a \in Attempts, LoseAnswer(a) PROVE Inv'
  BY <1>9, LoseAnswerInv
<1>10. ASSUME NEW a \in Attempts, Conflict(a) PROVE Inv'
  BY <1>10, ConflictInv
<1>11. ASSUME NEW a \in Attempts, Refuse(a) PROVE Inv'
  BY <1>11, RefuseInv
<1>12. ASSUME NEW a \in Attempts, End(a) PROVE Inv'
  <2>1. attempt[a] # Idle
    BY <1>12 DEF End, Idle
  <2> QED
    BY <1>12, <2>1, EndInv DEF End
<1>13. CASE GiveUp
  BY <1>13, GiveUpInv
<1>14. CASE UNCHANGED vars
  <2>1. TypeOK' /\ Types' /\ OnlyClaimants' /\ RefusedOnlyByOthers'
    BY <1>14 DEF vars, Inv, TypeOK, Types, OnlyClaimants, RefusedOnlyByOthers
  <2>2. \A a \in Attempts : Knows(a, attempt[a])'
    BY <1>14, KnowsStill DEF vars, Stored, Inv
  <2>3. ManifestsFollow' /\ ManifestsAreWhole'
    BY <1>14 DEF vars, Inv, ManifestsFollow, ManifestsAreWhole, FollowsDraft, HadIssues,
       IsClean, IsAccepted, IsBacked, HasChunk
  <2>4. ClaimantKnows'
    BY <1>14 DEF vars, Inv, ClaimantKnows, Awaits, IsExcused
  <2> QED
    BY <2>1, <2>2, <2>3, <2>4 DEF Inv
<1> QED
  BY <1>1, <1>2, <1>3, <1>4, <1>5, <1>6, <1>7, <1>8, <1>9, <1>10, <1>11, <1>12, <1>13, <1>14,
     <1>15, <1>16 DEF Next

(* What is visible is whole, reviewed and in order, and every attempt,     *)
(* late or not, knows enough to keep it so (transaction, publish_result    *)
(* and the resumption of checkpoints in investigate_request).              *)
THEOREM Invariant == Spec => []Inv
  BY InitInv, NextInv, PTL DEF Spec

(* Everything has its type: there are never more chunks than the manifest  *)
(* counts, nor more tries than transaction allows.                         *)
THEOREM GraphTypes == Spec => []TypeOK
<1>1. Inv => TypeOK
  BY DEF Inv
<1> QED
  BY <1>1, Invariant, PTL

(* A report is accepted and published as its last review has seen it,      *)
(* whatever a retry resumes from (validate_investigation_report).          *)
THEOREM ReportsAreReviewed == Spec => []PublishedWasReviewed
<1>1. ASSUME Inv PROVE PublishedWasReviewed
  <2> SUFFICES ASSUME NEW k \in DOMAIN manifest \ {"draft"}
               PROVE  /\ <<manifest[k].content, "clean">> \in reviews
                      /\ Receipt(manifest[k].content).evaluation_count = 2 =>
                             HadIssues(manifest[k].content.author)
    BY DEF PublishedWasReviewed, HadIssues
  <2>1. k \in {"validated", "run"}
    BY <1>1 DEF Inv, TypeOK, Kinds
  <2>2. /\ "validated" \in DOMAIN manifest
        /\ manifest[k].content = manifest["validated"].content
    BY <1>1, <2>1 DEF Inv, ManifestsFollow, IsAccepted
  <2>3. /\ IsClean(manifest[k].content)
        /\ manifest[k].content.revised => HadIssues(manifest[k].content.author)
    BY <1>1, <2>2 DEF Inv, ManifestsFollow, FollowsDraft
  <2>4. Receipt(manifest[k].content).evaluation_count = 2 => manifest[k].content.revised
    BY DEF Receipt
  <2> QED
    BY <2>3, <2>4 DEF IsClean
<1> QED
  BY <1>1, Invariant, PTL

(* There is a proposal for an accepted candidate only, and for every       *)
(* published one (prepare_proposal).                                       *)
THEOREM ProposalsAreBacked == Spec => []ProposalsFollowAcceptedReports
<1>1. Inv => ProposalsFollowAcceptedReports
  BY DEF Inv, ManifestsFollow, ProposalsFollowAcceptedReports, IsBacked
<1> QED
  BY <1>1, Invariant, PTL

(* Nobody is refused because of what he has written himself, however often *)
(* an answer is lost (transaction: one token for all sendings).            *)
THEOREM NoSelfRefusal == Spec => []RefusedOnlyByOthers
<1>1. Inv => RefusedOnlyByOthers
  BY DEF Inv
<1> QED
  BY <1>1, Invariant, PTL

-----------------------------------------------------------------------------
(* The ledger of reports.                                                  *)

Readable == [k \in DOMAIN manifest |-> manifest[k].content]

Open == job.status \notin Closed

(* A reader gets what the manifest names.                                  *)
LEMMA ReadersGetIt ==
    /\ Inv => [k \in DOMAIN manifest |-> Assembled(k)] = Readable
    /\ Inv' => [k \in DOMAIN manifest |-> Assembled(k)]' = Readable'
<1>1. ASSUME Inv, NEW k \in DOMAIN manifest PROVE Assembled(k) = manifest[k].content
  BY <1>1 DEF Inv, ManifestsAreWhole, HasChunk, Assembled
<1>2. ASSUME Inv', NEW k \in DOMAIN manifest' PROVE Assembled(k)' = manifest'[k].content
  BY <1>2 DEF Inv, ManifestsAreWhole, HasChunk, Assembled
<1> QED
  BY <1>1, <1>2 DEF Readable

LedgerStep ==
    [Ledger!Next]_<<[k \in DOMAIN manifest |-> Assembled(k)], job.status \notin Closed>>

(* A step that makes nothing visible and does not end the job is not seen. *)
LEMMA LedgerStutters ==
    ASSUME Inv, Inv', manifest' = manifest, Open' = Open
    PROVE  LedgerStep
<1>1. Readable' = Readable
  BY DEF Readable
<1> QED
  BY <1>1, ReadersGetIt DEF LedgerStep, Open

(* One that ends it without a result closes the ledger.                    *)
LEMMA LedgerCloses ==
    ASSUME Inv, Inv', manifest' = manifest, Open, ~Open'
    PROVE  LedgerStep
<1>1. Readable' = Readable
  BY DEF Readable
<1> QED
  BY <1>1, ReadersGetIt DEF LedgerStep, Open, Ledger!Next, Ledger!Close

(* One that makes a report visible saves it at once.                       *)
LEMMA LedgerSaves ==
    ASSUME Inv, Inv', NEW a \in Attempts, NEW l, Writes(a, l),
           l.pc = "save", ~IsChunk(l.part), UNCHANGED <<chunks, proposed, reviews>>,
           manifest' = Put(manifest, l.kind, [version |-> l.version, content |-> l.report]),
           job' = IF l.kind = "run" THEN [job EXCEPT !.status = "completed"] ELSE job
    PROVE  LedgerStep
<1> PICK kind \in {l.kind} : TRUE
  OBVIOUS
<1> PICK report \in {l.report} : TRUE
  OBVIOUS
<1> DEFINE saved == [k \in DOMAIN manifest |-> Assembled(k)]
<1>1. saved = Readable /\ saved' = Readable'
  BY ReadersGetIt
<1>2. /\ kind \in Kinds /\ report \in Reports /\ kind \notin DOMAIN manifest
      /\ MayBeSaved(kind, report) /\ Open
  BY LocalShape DEF Writes, HoldsClaim, Open, Closed
<1>3. /\ kind = "run" => ~Open'
      /\ kind # "run" => Open'
  BY ManifestWritten DEF Open, Closed
<1>4. Readable' = [k \in DOMAIN Readable \cup {kind} |-> IF k = kind THEN report ELSE Readable[k]]
  BY <1>2 DEF Readable, Put
<1>5. DOMAIN Readable = DOMAIN manifest /\ \A k \in DOMAIN manifest : Readable[k] = manifest[k].content
  BY DEF Readable
<1>6. Readable'[kind] = report /\ kind \in DOMAIN Readable'
  BY <1>4
<1> HIDE DEF saved
<1>7. Ledger!Saves(kind, report)
  BY <1>1, <1>2, <1>4, <1>5 DEF Ledger!Saves, Open, saved
<1>8. CASE kind = "draft"
  <2>1. Ledger!SaveDraft(report)
    BY <1>2, <1>3, <1>7, <1>8 DEF Ledger!SaveDraft, Open
  <2> QED
    BY <1>1, <1>6, <1>8, <2>1 DEF LedgerStep, Ledger!Next, saved
<1>9. CASE kind = "validated"
  <2>1. /\ "draft" \in DOMAIN saved
        /\ report.author = saved["draft"].author
        /\ report.outcome = saved["draft"].outcome
    BY <1>1, <1>2, <1>5, <1>9 DEF MayBeSaved, FollowsDraft
  <2>2. Ledger!Accept(report)
    BY <1>2, <1>3, <1>7, <1>9, <2>1 DEF Ledger!Accept, Open, saved
  <2> QED
    BY <1>1, <1>6, <1>9, <2>2 DEF LedgerStep, Ledger!Next, saved
<1>10. CASE kind = "run"
  <2>1. "validated" \in DOMAIN saved /\ report = saved["validated"]
    BY <1>1, <1>2, <1>5, <1>10 DEF MayBeSaved, IsAccepted
  <2>2. Ledger!Publish
    BY <1>2, <1>3, <1>7, <1>10, <2>1 DEF Ledger!Publish, Open, saved
  <2> QED
    BY <2>2 DEF LedgerStep, Ledger!Next
<1> QED
  BY <1>2, <1>8, <1>9, <1>10 DEF Kinds

(* Every transaction is one step of the ledger, or none.                   *)
LEMMA LedgerWrites ==
    ASSUME Inv, Inv', NEW a \in Attempts, NEW l, l = attempt[a],
           l.pc \in {"save", "propose", "fail"}, ~l.applied, HoldsClaim(a), Write(l),
           UNCHANGED reviews
    PROVE  LedgerStep
<1>1. Writes(a, l)
  BY IsAboutToWrite
<1>2. Open
  BY DEF HoldsClaim, Open, Closed
<1>3. CASE l.pc = "save" /\ IsChunk(l.part) /\ UNCHANGED <<job, manifest>>
  BY <1>3, LedgerStutters DEF Open
<1>4. CASE l.pc = "save" /\ ~IsChunk(l.part) /\ UNCHANGED <<chunks, proposed>>
           /\ manifest' = Put(manifest, l.kind, [version |-> l.version, content |-> l.report])
           /\ job' = IF l.kind = "run" THEN [job EXCEPT !.status = "completed"] ELSE job
  BY <1>1, <1>4, LedgerSaves
<1>5. CASE l.pc = "fail" /\ job' = [job EXCEPT !.status = "failed"]
           /\ UNCHANGED <<chunks, manifest, proposed>>
  <2>1. ~Open'
    BY <1>1, <1>5, FailureWritten DEF Open, Closed
  <2> QED
    BY <1>2, <1>5, <2>1, LedgerCloses
<1>6. CASE l.pc = "propose" /\ UNCHANGED <<job, chunks, manifest>>
  BY <1>6, LedgerStutters DEF Open
<1> QED
  BY <1>3, <1>4, <1>5, <1>6 DEF Write

(* So is every step.                                                       *)
LEMMA LedgerNext ==
    ASSUME Inv, Inv', [Next]_vars
    PROVE  LedgerStep
<1>1. ASSUME NEW a \in Attempts, Begin(a) PROVE LedgerStep
  <2>1. Open /\ Open' /\ manifest' = manifest
    BY <1>1 DEF Begin, Open, Closed
  <2> QED
    BY <2>1, LedgerStutters
<1>2. ASSUME UNCHANGED <<job, manifest>> PROVE LedgerStep
  BY <1>2, LedgerStutters DEF Open
<1>3. ASSUME NEW a \in Attempts,
             \/ Load(a) \/ Hydrate(a) \/ Investigate(a) \/ Review(a) \/ Revise(a)
             \/ Prepare(a) \/ Reread(a) \/ Conflict(a) \/ Refuse(a) \/ LoseAccess(a) \/ End(a)
      PROVE  LedgerStep
  BY <1>2, <1>3 DEF Load, Hydrate, Investigate, Review, Revise, Prepare, Reread, Conflict,
     Refuse, LoseAccess, End, Stored
<1>5. ASSUME NEW a \in Attempts, Commit(a) PROVE LedgerStep
  <2> PICK l \in {attempt[a]} : TRUE
    OBVIOUS
  <2>1. /\ l = attempt[a] /\ l.pc \in {"save", "propose", "fail"} /\ UNCHANGED reviews
        /\ \/ UNCHANGED Stored
           \/ ~l.applied /\ HoldsClaim(a) /\ Write(l)
    BY <1>5 DEF Commit, Sends, Holds, IsDuplicate
  <2> QED
    BY <1>2, <2>1, LedgerWrites DEF Stored
<1>6. ASSUME NEW a \in Attempts, LoseAnswer(a) PROVE LedgerStep
  <2> PICK l \in {attempt[a]} : TRUE
    OBVIOUS
  <2>1. /\ l = attempt[a] /\ l.pc \in {"save", "propose", "fail"} /\ ~l.applied /\ HoldsClaim(a)
        /\ Write(l) /\ UNCHANGED reviews
    BY <1>6 DEF LoseAnswer, Sends, Holds
  <2> QED
    BY <2>1, LedgerWrites
<1>7. CASE GiveUp
  <2>1. Open /\ manifest' = manifest
    BY <1>7 DEF GiveUp, Open
  <2>2. job'.status = "failed"
    BY <1>7 DEF GiveUp, Inv, TypeOK
  <2> QED
    BY <2>1, <2>2, LedgerCloses DEF Open, Closed
<1>8. CASE UNCHANGED vars
  BY <1>2, <1>8 DEF vars
<1> QED
  BY <1>1, <1>3, <1>5, <1>6, <1>7, <1>8 DEF Next

(* Chunks, lost answers, crashes and late attempts implement reports that  *)
(* are saved at once, in order and for good.                               *)
THEOREM GraphImplementsLedger == Spec => ImplementsReportLedger
<1>1. Init => Ledger!Init
  BY NoItemsType DEF Init, Ledger!Init, Closed
<1>2. Inv /\ Inv' /\ [Next]_vars => LedgerStep
  BY LedgerNext
<1>3. Spec => []Inv
  BY Invariant
<1> QED
  BY <1>1, <1>2, <1>3, PTL DEF Spec, ImplementsReportLedger, Ledger!Spec, LedgerStep
=============================================================================
