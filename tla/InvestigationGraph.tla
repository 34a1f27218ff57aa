------------------------- MODULE InvestigationGraph -------------------------
(***************************************************************************)
(* The investigation of one job: how a report is drafted, reviewed,        *)
(* revised at most once and published, by attempts that may each die or    *)
(* lose their claim to the next one, and that leave checkpoints behind.    *)
(*                                                                         *)
(* A checkpoint or result is written as immutable chunks, one transaction  *)
(* each, and then made visible by a manifest.  A transaction is sent with  *)
(* a token: its answer may be lost, the SDK sends it again, and the store  *)
(* tries a conflicting one a bounded number of times.  It carries what was *)
(* read of the workspace, the employee and the ticket when it was put      *)
(* together; these records belong to other components, so Refuse and       *)
(* LoseAccess leave open whether they have changed.                        *)
(*                                                                         *)
(* An attempt is a worker invocation that has claimed the job; a later one *)
(* may begin as soon as the lease of the earlier one is over, which may    *)
(* still be running.  End, possible everywhere, stands for every error     *)
(* that SQS retries and for a crash.                                       *)
(*                                                                         *)
(* A definition called a mutant is not part of the model: it is the        *)
(* definition after it with one mistake in it.                             *)
(***************************************************************************)
EXTENDS ReportValidation, Items

CONSTANTS
    MaxAttempts,     \* deliveries SQS makes of one message
    Parts,           \* chunks of a result
    MaxTries         \* conflicts the store tolerates

ASSUME BoundsAssumption == {MaxAttempts, Parts, MaxTries} \subseteq Nat \ {0}

Attempts == 1 .. MaxAttempts
Reports ==
    [author : Attempts, outcome : Outcomes, findings : Attempts, revised : BOOLEAN]
Kinds == {"draft", "validated", "run"}
Closed == {"completed", "failed"}

VARIABLES
    job,         \* its status, and the attempt that has claimed it last
    chunks,      \* chunk items: <<kind, version, part>> -> content
    manifest,    \* manifests: the version, and the content by its hash
    proposed,    \* whether the proposal of this job is saved
    attempt,     \* local state of every attempt
    reviews      \* history: the reports reviewed, and whether they were clean

vars == <<job, chunks, manifest, proposed, attempt, reviews>>

Stored == <<job, chunks, manifest, proposed>>

Idle == [pc |-> "idle"]

(* Told that the records have changed, and whether those of others have.   *)
Refused(stale) == [pc |-> "refused", stale |-> stale]

Step(a, local) == attempt' = [attempt EXCEPT ![a] = local]

(* version is the chunk version that is read or written; tries and applied *)
(* belong to the transaction that is being sent, and stale to one that was *)
(* refused: what it was put together from had changed.                     *)
At(pc, kind, report) ==
    [pc |-> pc, kind |-> kind, report |-> report, version |-> 0, part |-> 1,
     tries |-> 0, applied |-> FALSE, stale |-> FALSE]

Saving(a, kind, report) == [At("save", kind, report) EXCEPT !.version = a]
Failing == At("fail", "run", NoReport)

Init ==
    /\ job = [status |-> "queued", claim |-> 0]
    /\ chunks = NoItems
    /\ manifest = NoItems
    /\ proposed = FALSE
    /\ attempt = [a \in Attempts |-> Idle]
    /\ reviews = {}

(* The condition on the job that a worker's transactions carry.            *)
HoldsClaim(a) == job.status = "running" /\ job.claim = a

-----------------------------------------------------------------------------
(* Claiming, loading and drafting.                                         *)

(* The message is delivered and the lease of the last claim is over; the   *)
(* attempts before that one have met their invocation's deadline.          *)
Begin(a) ==
    /\ job.status \notin Closed
    /\ a = job.claim + 1
    /\ \A b \in 1 .. a - 2 : attempt[b] = Idle
    /\ job' = [status |-> "running", claim |-> a]
    /\ Step(a, At("load", "validated", NoReport))
    /\ UNCHANGED <<chunks, manifest, proposed, reviews>>

(* Mutant: a candidate is proposed as soon as it is drafted.               *)
AfterEagerly(a, kind, report) ==
    CASE kind = "run" -> Idle
      [] kind # "run" /\ report.outcome = "proposal_candidate" -> At("prepare", "run", report)
      [] kind = "validated" /\ report.outcome = "blocked" -> Saving(a, "run", report)
      [] kind = "draft" /\ report.outcome = "blocked" -> At("review", "validated", report)

(* What follows once a report of this kind is saved or loaded.             *)
After(a, kind, report) ==
    CASE kind = "draft" -> At("review", "validated", report)
      [] kind = "validated" ->
             IF report.outcome = "proposal_candidate" THEN At("prepare", "run", report)
             ELSE Saving(a, "run", report)
      [] kind = "run" -> Idle

(* load_checkpoint: read the manifest.  Without a validated report the     *)
(* graph starts, from its draft if there is one.                           *)
Load(a) ==
    LET local == attempt[a]
    IN  /\ local.pc = "load"
        /\ Step(a, IF local.kind \in DOMAIN manifest
                   THEN LET saved == manifest[local.kind]
                        IN  [At("hydrate", local.kind, saved.content)
                                EXCEPT !.version = saved.version]
                   ELSE IF local.kind = "validated" THEN At("load", "draft", NoReport)
                   ELSE At("investigate", "draft", NoReport))
        /\ UNCHANGED <<Stored, reviews>>

(* hydrate: read the chunks one by one and compare the hash; an incomplete *)
(* or mixed result is an error.                                            *)
Hydrate(a) ==
    LET local == attempt[a]
        k == <<local.kind, local.version, local.part>>
    IN  /\ local.pc = "hydrate"
        /\ k \in DOMAIN chunks /\ chunks[k] = local.report
        /\ Step(a, IF local.part < Parts THEN [local EXCEPT !.part = @ + 1]
                   ELSE After(a, local.kind, local.report))
        /\ UNCHANGED <<Stored, reviews>>

(* The agent reads the records and returns a result about some ticket.     *)
Investigate(a) ==
    /\ attempt[a].pc = "investigate"
    /\ \E result \in Results :
           Step(a, IF result \in Drafts THEN Saving(a, "draft", Draft(a, result))
                   ELSE Failing)
    /\ UNCHANGED <<Stored, reviews>>

-----------------------------------------------------------------------------
(* Reviewing and proposing.                                                *)

Proceed(a, next) ==
    LET local == attempt[a]
    IN  Step(a, CASE next = "clean" -> Saving(a, "validated", local.report)
                  [] next = "revise" -> At("revise", "validated", local.report)
                  [] next = "reject" -> Failing
                  [] next = "retry" -> Idle)

(* evaluate_policy_claims on what the report says now.                     *)
Review(a) ==
    LET report == attempt[a].report
    IN  /\ attempt[a].pc = "review"
        /\ \E answer \in ReviewAnswers :
               /\ Proceed(a, AfterReview(Verdict(answer), report.revised))
               /\ reviews' = reviews \cup
                      ({<<report, Verdict(answer)>>} \cap (Reports \X {"clean", "issues"}))
        /\ UNCHANGED Stored

(* _revise_findings: the answer is empty, invalid, or new findings.        *)
Revise(a) ==
    /\ attempt[a].pc = "revise"
    /\ \/ Step(a, Idle)
       \/ Step(a, Failing)
       \/ Step(a, At("review", "validated", Revision(attempt[a].report, a)))
    /\ UNCHANGED <<Stored, reviews>>

(* prepare_proposal: the records no longer permit it, or the proposal is   *)
(* looked up by its fingerprint; it is saved unless it is found.           *)
Prepare(a) ==
    /\ attempt[a].pc = "prepare"
    /\ \/ Step(a, Failing)
       \/ Step(a, IF proposed THEN Saving(a, "run", attempt[a].report)
                  ELSE At("propose", "run", attempt[a].report))
    /\ UNCHANGED <<Stored, reviews>>

(* After a refusal it is looked up again: another attempt may have saved   *)
(* it meanwhile.                                                           *)
Reread(a) ==
    /\ attempt[a].pc = "reread"
    /\ Step(a, IF proposed THEN Saving(a, "run", attempt[a].report)
               ELSE Refused(attempt[a].stale))
    /\ UNCHANGED <<Stored, reviews>>

-----------------------------------------------------------------------------
(* Transactions.                                                           *)

(* Mutant: a manifest is visible before the last chunk.                    *)
IsEarlierChunk(part) == part < Parts

(* Mutant: the manifest is taken for one more chunk.                       *)
IsPart(part) == part <= Parts + 1

IsChunk(part) == part <= Parts

(* What a transaction at this point writes: a chunk; a manifest, for a     *)
(* result together with the end of the job; the proposal with its          *)
(* fingerprint; or the failure of the job.                                 *)
Write(local) ==
    \/ /\ local.pc = "save" /\ IsChunk(local.part)
       /\ chunks' = Put(chunks, <<local.kind, local.version, local.part>>, local.report)
       /\ UNCHANGED <<job, manifest, proposed>>
    \/ /\ local.pc = "save" /\ ~IsChunk(local.part)
       /\ manifest' = Put(manifest, local.kind,
                          [version |-> local.version, content |-> local.report])
       /\ job' = IF local.kind = "run" THEN [job EXCEPT !.status = "completed"] ELSE job
       /\ UNCHANGED <<chunks, proposed>>
    \/ /\ local.pc = "propose"
       /\ proposed' = TRUE
       /\ UNCHANGED <<job, chunks, manifest>>
    \/ /\ local.pc = "fail"
       /\ job' = [job EXCEPT !.status = "failed"]
       /\ UNCHANGED <<chunks, manifest, proposed>>

(* The conditions of a transaction on what attempts write: the claim, and  *)
(* that there is no proposal yet.                                          *)
Holds(a, local) == HoldsClaim(a) /\ (local.pc = "propose" => ~proposed)

(* Where an attempt goes on when its transaction is answered.              *)
Committed(a, local) ==
    CASE local.pc = "fail" -> Idle
      [] local.pc = "propose" -> Saving(a, "run", local.report)
      [] local.pc = "save" /\ IsChunk(local.part) ->
             [local EXCEPT !.part = @ + 1, !.tries = 0, !.applied = FALSE]
      [] local.pc = "save" /\ ~IsChunk(local.part) -> After(a, local.kind, local.report)

(* Mutant: every sending has a token of its own.                           *)
IsNew(local) == FALSE

(* The service has applied a transaction with this token.                  *)
IsDuplicate(local) == local.applied

Sends(local) == local.pc \in {"save", "propose", "fail"}

Commit(a) ==
    LET local == attempt[a]
    IN  /\ Sends(local)
        /\ \/ IsDuplicate(local) /\ UNCHANGED Stored
           \/ ~IsDuplicate(local) /\ Holds(a, local) /\ Write(local)
        /\ Step(a, Committed(a, local))
        /\ UNCHANGED reviews

(* It is applied, but the answer is lost: the SDK sends it again.          *)
LoseAnswer(a) ==
    LET local == attempt[a]
    IN  /\ Sends(local)
        /\ ~local.applied
        /\ Holds(a, local)
        /\ Write(local)
        /\ Step(a, [local EXCEPT !.applied = TRUE])
        /\ UNCHANGED reviews

(* Another transaction touches the same items.                             *)
Conflict(a) ==
    LET local == attempt[a]
    IN  /\ Sends(local)
        /\ ~IsDuplicate(local)
        /\ Step(a, IF local.tries < MaxTries - 1 THEN [local EXCEPT !.tries = @ + 1] ELSE Idle)
        /\ UNCHANGED <<Stored, reviews>>

(* The attempt is told that the records have changed: one of its own       *)
(* conditions fails, or the employee, the ticket or META is no longer what *)
(* the transaction was put together from.                                  *)
Refuse(a) ==
    LET local == attempt[a]
    IN  /\ Sends(local)
        /\ ~IsDuplicate(local)
        /\ \E stale \in BOOLEAN :
               /\ stale \/ ~Holds(a, local)
               /\ Step(a, IF local.pc = "propose"
                          THEN [local EXCEPT !.pc = "reread", !.stale = stale]
                          ELSE Refused(stale))
        /\ UNCHANGED <<Stored, reviews>>

(* The employee or the ticket no longer permits the request when its       *)
(* transaction is put together; the one that fails the job does not ask.   *)
LoseAccess(a) ==
    LET local == attempt[a]
    IN  /\ local.pc \in {"save", "propose"}
        /\ local.tries = 0 /\ ~local.applied
        /\ Step(a, Failing)
        /\ UNCHANGED <<Stored, reviews>>

(* Every error that SQS retries, and every crash.                          *)
End(a) ==
    /\ attempt[a].pc # "idle"
    /\ Step(a, Idle)
    /\ UNCHANGED <<Stored, reviews>>

(* Maintenance fails the job of a dead message.                            *)
GiveUp ==
    /\ job.status \notin Closed
    /\ job' = [job EXCEPT !.status = "failed"]
    /\ UNCHANGED <<chunks, manifest, proposed, attempt, reviews>>

Next ==
    \/ \E a \in Attempts :
           \/ Begin(a) \/ Load(a) \/ Hydrate(a) \/ Investigate(a)
           \/ Review(a) \/ Revise(a) \/ Prepare(a) \/ Reread(a)
           \/ Commit(a) \/ LoseAnswer(a) \/ Conflict(a) \/ Refuse(a)
           \/ LoseAccess(a) \/ End(a)
    \/ GiveUp

Spec == Init /\ [][Next]_vars

-----------------------------------------------------------------------------
(* Everything has its type: there are no more chunks than the manifest     *)
(* counts, and no transaction is tried more often than transaction allows. *)
TypeOK ==
    /\ job \in [status : {"queued", "running"} \cup Closed, claim : 0 .. MaxAttempts]
    /\ DOMAIN chunks \subseteq Kinds \X Attempts \X (1 .. Parts)
    /\ \A k \in DOMAIN chunks : chunks[k] \in Reports
    /\ DOMAIN manifest \subseteq Kinds
    /\ \A k \in DOMAIN manifest : manifest[k] \in [version : Attempts, content : Reports]
    /\ proposed \in BOOLEAN
    /\ \A a \in Attempts :
           \/ attempt[a] \in {Idle, Refused(TRUE), Refused(FALSE)}
           \/ attempt[a].part \in 1 .. Parts + 1 /\ attempt[a].tries < MaxTries

(* Whatever a retry resumes from, a report is accepted and published as    *)
(* its last review has seen it: without issues, and if it was revised,     *)
(* after a review of the draft that had some (validate_investigation_report*)
(* and the resumption of checkpoints in investigate_request).              *)
PublishedWasReviewed ==
    \A k \in DOMAIN manifest \ {"draft"} :
        LET report == manifest[k].content
        IN  /\ <<report, "clean">> \in reviews
            /\ Receipt(report).evaluation_count = 2 =>
                   \E review \in reviews :
                       /\ review[2] = "issues"
                       /\ ~review[1].revised
                       /\ review[1].author = report.author

(* A proposal is saved for an accepted report only, never for a draft, and *)
(* a published candidate has its proposal (prepare_proposal, resumption in *)
(* _run_investigation).                                                    *)
ProposalsFollowAcceptedReports ==
    /\ proposed => "validated" \in DOMAIN manifest
                   /\ manifest["validated"].content.outcome = "proposal_candidate"
    /\ "run" \in DOMAIN manifest
       /\ manifest["run"].content.outcome = "proposal_candidate" => proposed

(* An attempt is told that the records have changed only if they have:     *)
(* another one has claimed the job, maintenance has failed it, or somebody *)
(* has written the employee, the ticket or META since they were read.  It  *)
(* is never told so because of what it has written itself, although its    *)
(* own result ends the job and its own proposal is one that is found       *)
(* (transaction: one token for all sendings).                              *)
RefusedOnlyByOthers ==
    \A a \in Attempts :
        attempt[a].pc = "refused" =>
            job.claim # a \/ job.status = "failed" \/ attempt[a].stale

(* What a reader gets for a manifest: hydrate.                             *)
Assembled(k) ==
    LET saved == manifest[k]
    IN  IF \A part \in 1 .. Parts :
               /\ <<k, saved.version, part>> \in DOMAIN chunks
               /\ chunks[<<k, saved.version, part>>] = saved.content
        THEN saved.content ELSE NoReport

Ledger == INSTANCE ReportLedger WITH
    saved <- [k \in DOMAIN manifest |-> Assembled(k)],
    open <- job.status \notin Closed

(* Chunks, lost answers, crashes and late attempts implement reports that  *)
(* are saved at once, in order and for good.                               *)
ImplementsReportLedger == Ledger!Spec
=============================================================================
