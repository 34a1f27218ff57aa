------------------------------ MODULE JobLedger ------------------------------
(***************************************************************************)
(* What durable investigation jobs promise, with every operation atomic:   *)
(* an owner (an employee with a ticket) has at most one investigation      *)
(* open, it is completed with its result or fails once and for all, and    *)
(* no more of them are opened than the allowance permits.                  *)
(***************************************************************************)
EXTENDS Integers, FiniteSets, Items

CONSTANTS Investigations, Owners, Allowance

VARIABLES
    owner,       \* of every investigation that was opened
    outcome,     \* "open", "completed" or "failed"
    published    \* the investigations with a result

vars == <<owner, outcome, published>>

Init == owner = NoItems /\ outcome = NoItems /\ published = {}

Open(i, o) ==
    /\ i \notin DOMAIN owner
    /\ \A j \in DOMAIN owner : owner[j] = o => outcome[j] # "open"
    /\ Cardinality(DOMAIN owner) < Allowance
    /\ owner' = Put(owner, i, o)
    /\ outcome' = Put(outcome, i, "open")
    /\ UNCHANGED published

Finish(i, end) ==
    /\ i \in DOMAIN owner
    /\ outcome[i] = "open"
    /\ outcome' = [outcome EXCEPT ![i] = end]
    /\ published' = IF end = "completed" THEN published \cup {i} ELSE published
    /\ UNCHANGED owner

Next ==
    \E i \in Investigations :
        \/ \E o \in Owners : Open(i, o)
        \/ \E end \in {"completed", "failed"} : Finish(i, end)

Spec == Init /\ [][Next]_vars
=============================================================================
