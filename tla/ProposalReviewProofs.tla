------------------------ MODULE ProposalReviewProofs ------------------------
(***************************************************************************)
(* The status shown for a proposal was true at some moment while it was    *)
(* read, for any number of invocations that write under the reader.        *)
(***************************************************************************)
EXTENDS ProposalReview, ChangeManagementProofs, FiniteSetTheorems

(* Receipts a proposal has before its execution.                           *)
Approvals(p) == IF proposal[p].environment = "production" THEN 1 ELSE 0

Reading == [pc : {"read_execution", "read_verification"}, proposal_id : ProposalIds,
            since : Nat, approved : BOOLEAN]

(* What a reader knows of the receipts it has not read yet: one that is    *)
(* not there now was not there when the reading began.                     *)
ReadingIsSound ==
    IsReading =>
        LET p == review.proposal_id
        IN  /\ review \in Reading
            /\ p \in DOMAIN proposal
            /\ review.pc = "read_verification" => p \in DOMAIN execution
            /\ review.approved => p \in DOMAIN approval
            /\ p \notin DOMAIN execution => review.since = IF review.approved THEN 1 ELSE 0
            /\ p \notin DOMAIN verification => review.since <= Approvals(p) + 1
            /\ review.since <= Approvals(p) + 2

(* The inductive invariant.                                                *)
ReviewInv ==
    TypeOK /\ ReliedUponStaysTrue /\ ProductionIsIndependentlyApproved /\ ReadingIsSound

-----------------------------------------------------------------------------
(* How far a proposal has come.                                            *)

One(condition) == IF condition THEN 1 ELSE 0

(* The progress is the number of the three receipts that exist.            *)
LEMMA ProgressCounts ==
    ASSUME NEW p
    PROVE  Progress(p) = One(p \in DOMAIN approval) + One(p \in DOMAIN execution)
                             + One(p \in DOMAIN verification)
<1> DEFINE S == {i \in 1 .. 3 : p \in DOMAIN <<approval, execution, verification>>[i]}
           A == IF p \in DOMAIN approval THEN {1} ELSE {}
           E == IF p \in DOMAIN execution THEN A \cup {2} ELSE A
           V == IF p \in DOMAIN verification THEN E \cup {3} ELSE E
<1>1. \A i \in 1 .. 3 : i = 1 \/ i = 2 \/ i = 3 OBVIOUS
<1>2. S = V
  <2>1. \A i \in S : i \in V BY <1>1
  <2>2. \A i \in V : i \in S BY <1>1
  <2>3. QED BY <2>1, <2>2
<1>3. IsFiniteSet(A) /\ Cardinality(A) = One(p \in DOMAIN approval)
  BY FS_EmptySet, FS_Singleton DEF One
<1>4. /\ IsFiniteSet(E)
      /\ Cardinality(E) = One(p \in DOMAIN approval) + One(p \in DOMAIN execution)
  <2>1. 2 \notin A OBVIOUS
  <2> HIDE DEF A
  <2>2. IsFiniteSet(A \cup {2}) /\ Cardinality(A \cup {2}) = Cardinality(A) + 1
    BY <1>3, <2>1, FS_AddElement
  <2>3. QED BY <1>3, <2>2 DEF One
<1>5. Cardinality(V) = One(p \in DOMAIN approval) + One(p \in DOMAIN execution)
                           + One(p \in DOMAIN verification)
  <2>1. 3 \notin E OBVIOUS
  <2> HIDE DEF E
  <2>2. Cardinality(E \cup {3}) = Cardinality(E) + 1
    BY <1>4, <2>1, FS_AddElement
  <2>3. QED BY <1>4, <2>2 DEF One
<1>6. QED BY <1>2, <1>5 DEF Progress

(* Only proposals that need one have an approval, and those have it before *)
(* they are executed; a verification follows an execution.                 *)
LEMMA ReceiptsComeInOrder ==
    ASSUME TypeOK, ProductionIsIndependentlyApproved, NEW p \in DOMAIN proposal
    PROVE  /\ p \in DOMAIN approval => Approvals(p) = 1
           /\ p \in DOMAIN execution => One(p \in DOMAIN approval) = Approvals(p)
           /\ p \in DOMAIN verification => p \in DOMAIN execution
           /\ Approvals(p) \in {0, 1}
BY DEF TypeOK, IsTable, ProductionIsIndependentlyApproved, ApprovalPrecedes, Approvals, One

-----------------------------------------------------------------------------
(* The steps.                                                              *)

(* What writes under the reader only adds receipts.                        *)
LEMMA WriterStep ==
    ASSUME ReviewInv, [Next]_vars, UNCHANGED review
    PROVE  ReviewInv'
<1>1. TypeOK' /\ ReliedUponStaysTrue' /\ ProductionIsIndependentlyApproved'
  BY StepTypes, ApprovalStep DEF ReviewInv
<1>2. /\ Keeps(proposal, proposal') /\ Keeps(approval, approval')
      /\ Keeps(execution, execution') /\ Keeps(verification, verification')
  BY ReceiptsStay DEF ReviewInv
<1>3. ASSUME NEW p \in DOMAIN proposal
      PROVE  /\ p \in DOMAIN proposal'
             /\ Approvals(p)' = Approvals(p)
             /\ p \in DOMAIN approval => p \in DOMAIN approval'
             /\ p \in DOMAIN execution => p \in DOMAIN execution'
             /\ p \in DOMAIN verification => p \in DOMAIN verification'
  BY <1>2 DEF Keeps, Approvals
<1>4. ReadingIsSound'
  BY <1>3 DEF ReviewInv, ReadingIsSound, IsReading
<1>5. QED BY <1>1, <1>4 DEF ReviewInv

(* The reader begins with what is there, and goes on past a receipt only   *)
(* when it found it.                                                       *)
LEMMA ReaderStep ==
    ASSUME ReviewInv, Reader, UNCHANGED vars
    PROVE  ReviewInv'
<1>1. TypeOK' /\ ReliedUponStaysTrue' /\ ProductionIsIndependentlyApproved'
  <2>1. [Next]_vars OBVIOUS
  <2>2. QED BY <2>1, StepTypes, ApprovalStep DEF ReviewInv
<1>2. \A p : Approvals(p)' = Approvals(p) BY DEF Approvals, vars, records
<1>3. ASSUME NEW p \in ProposalIds, Open(p)
      PROVE  ReadingIsSound'
  <2>1. p \in DOMAIN proposal
        /\ review' = [pc |-> "read_execution", proposal_id |-> p, since |-> Progress(p),
                      approved |-> p \in DOMAIN approval]
    BY <1>3 DEF Open
  <2>2. /\ Progress(p) \in Nat
        /\ p \notin DOMAIN execution =>
               Progress(p) = IF p \in DOMAIN approval THEN 1 ELSE 0
        /\ p \notin DOMAIN verification => Progress(p) <= Approvals(p) + 1
        /\ Progress(p) <= Approvals(p) + 2
    BY <2>1, ProgressCounts, ReceiptsComeInOrder DEF ReviewInv, One
  <2>3. review' \in Reading BY <2>1, <2>2 DEF Reading
  <2>4. QED BY <1>2, <2>1, <2>2, <2>3 DEF ReadingIsSound, vars, records
<1>4. ASSUME ReadExecution
      PROVE  ReadingIsSound'
  <2>1. review \in Reading /\ IsReading
    BY <1>4 DEF ReadExecution, ReviewInv, ReadingIsSound, IsReading
  <2>2. CASE review'.pc = "shown"
    BY <2>2 DEF ReadingIsSound, IsReading
  <2>3. CASE /\ review.proposal_id \in DOMAIN execution
             /\ review' = [review EXCEPT !.pc = "read_verification"]
    <3>1. /\ review' \in Reading
          /\ review'.proposal_id = review.proposal_id
          /\ review'.since = review.since
          /\ review'.approved <=> review.approved
      BY <2>1, <2>3 DEF Reading
    <3>2. QED
      BY <1>2, <2>1, <2>3, <3>1 DEF ReviewInv, ReadingIsSound, vars, records
  <2>4. ASSUME NEW status, Show(status)
        PROVE  review'.pc = "shown"
    BY <2>4 DEF Show
  <2>5. QED BY <1>4, <2>2, <2>3, <2>4 DEF ReadExecution
<1>5. ASSUME ReadVerification
      PROVE  ReadingIsSound'
  BY <1>5 DEF ReadVerification, Show, ReadingIsSound, IsReading
<1>6. QED BY <1>1, <1>3, <1>4, <1>5 DEF Reader, ReviewInv

(* A status that is shown counts the receipts that were read, all of which *)
(* are there, and misses none that was there when the reading began.       *)
LEMMA ShowStep ==
    ASSUME ReviewInv, [ReviewNext]_<<vars, review>>, IsReading, review'.pc = "shown",
           NEW p, p = review.proposal_id
    PROVE  Told(p, review'.status) \in review.since .. Progress(p)
<1>1. review.pc # "shown" /\ review \in Reading /\ p \in DOMAIN proposal
  BY DEF IsReading, ReviewInv, ReadingIsSound
<1>2. /\ Progress(p) = One(p \in DOMAIN approval) + One(p \in DOMAIN execution)
                           + One(p \in DOMAIN verification)
      /\ p \in DOMAIN approval => Approvals(p) = 1
      /\ p \in DOMAIN execution => One(p \in DOMAIN approval) = Approvals(p)
      /\ p \in DOMAIN verification => p \in DOMAIN execution
      /\ Approvals(p) \in {0, 1}
  BY <1>1, ProgressCounts, ReceiptsComeInOrder DEF ReviewInv
<1>3. /\ review.since \in Nat
      /\ review.pc = "read_verification" => p \in DOMAIN execution
      /\ review.approved => p \in DOMAIN approval
      /\ p \notin DOMAIN execution => review.since = IF review.approved THEN 1 ELSE 0
      /\ p \notin DOMAIN verification => review.since <= Approvals(p) + 1
      /\ review.since <= Approvals(p) + 2
  BY <1>1 DEF ReviewInv, ReadingIsSound, Reading
<1>4. proposal[p].environment \in Environments
  BY <1>1 DEF ReviewInv, TypeOK, IsTable, Proposal
<1>5. CASE ReadExecution
  <2>1. review' # [review EXCEPT !.pc = "read_verification"]
    BY <1>1 DEF Reading
  <2>2. PICK status :
            /\ p \notin DOMAIN execution
            /\ status = ProposalStatus(p, review.approved, FALSE, "none")
            /\ Show(status)
    BY <1>5, <2>1 DEF ReadExecution
  <2>3. review'.status = status BY <2>2 DEF Show
  <2>4. CASE review.approved
    <3>1. status = "approved" BY <2>2, <2>4 DEF ProposalStatus
    <3>2. Told(p, status) = 1 BY <3>1 DEF Told, Environments, Outcomes
    <3>3. review.since = 1 /\ p \in DOMAIN approval BY <1>3, <2>2, <2>4
    <3>4. Progress(p) = 1 BY <1>2, <2>2, <3>3 DEF One
    <3>5. QED BY <2>3, <3>2, <3>3, <3>4
  <2>5. CASE ~review.approved
    <3>1. status = proposal[p].environment BY <2>2, <2>5 DEF ProposalStatus
    <3>2. Told(p, status) = 0 BY <1>4, <3>1 DEF Told, Environments, Outcomes
    <3>3. review.since = 0 BY <1>3, <2>2, <2>5
    <3>4. Progress(p) \in {0, 1} BY <1>2, <2>2 DEF One
    <3>5. QED BY <2>3, <3>2, <3>3, <3>4
  <2>6. QED BY <2>4, <2>5
<1>6. CASE ReadVerification
  <2>1. p \in DOMAIN execution BY <1>3, <1>6 DEF ReadVerification
  <2>2. CASE p \in DOMAIN verification
    <3>1. review'.status = verification[p].outcome /\ verification[p].outcome \in Outcomes
      BY <1>6, <2>2 DEF ReadVerification, Show, ProposalStatus, ReviewInv, TypeOK, IsTable,
                        Verification
    <3>2. Told(p, review'.status) = Approvals(p) + 2
      BY <3>1 DEF Told, Environments, Outcomes, Approvals
    <3>3. QED BY <1>2, <1>3, <2>1, <2>2, <3>2 DEF One
  <2>3. CASE p \notin DOMAIN verification
    <3>1. review'.status = "none"
      BY <1>6, <2>3 DEF ReadVerification, Show, ProposalStatus
    <3>2. Told(p, review'.status) = Approvals(p) + 1
      BY <3>1 DEF Told, Environments, Outcomes, Approvals
    <3>3. QED BY <1>2, <1>3, <2>1, <2>3, <3>2 DEF One
  <2>4. QED BY <2>2, <2>3
<1>7. QED
  BY <1>1, <1>5, <1>6 DEF ReviewNext, Reader, Open

(* A status that is shown is neither behind what was true when the reading *)
(* began nor ahead of what is true when it ends, for any number of racing  *)
(* approvers, executors and verifiers (get_proposal_review).               *)
THEOREM ShownIsTrue == ReviewSpec => ShownStatusWasHeld
<1>1. ReviewInit => ReviewInv
  BY InitialTypes DEF ReviewInit, ReviewInv, Init, ProductionIsIndependentlyApproved, NoItems,
                      ReadingIsSound, IsReading, NoReview
<1>2. ReviewInv /\ [ReviewNext]_<<vars, review>> => ReviewInv'
  BY WriterStep, ReaderStep DEF ReviewNext
<1>3. ReviewInv /\ [ReviewNext]_<<vars, review>> =>
          [IsReading /\ review'.pc = "shown" =>
               LET p == review.proposal_id
               IN  Told(p, review'.status) \in review.since .. Progress(p)]_<<vars, review>>
  BY ShowStep
<1>4. QED
  BY <1>1, <1>2, <1>3, PTL DEF ReviewSpec, ShownStatusWasHeld
=============================================================================
