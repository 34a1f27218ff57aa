------------------------------- MODULE Items -------------------------------
(***************************************************************************)
(* A collection of stored items of one kind: a function whose DOMAIN is    *)
(* the set of keys that exist.  "attribute_not_exists(PK)" is therefore    *)
(* "key \notin DOMAIN items", and a transaction is one step that puts or   *)
(* deletes in several collections at once.                                 *)
(***************************************************************************)

NoItems == [k \in {} |-> k]

Put(items, key, body) ==
    [k \in DOMAIN items \cup {key} |-> IF k = key THEN body ELSE items[k]]

(* put(..., absent=True) that is refused when the key exists; the mutant   *)
(* forgets the condition.                                                  *)
PutAlways(items, key, body) == Put(items, key, body)

PutIfAbsent(items, key, body) ==
    IF key \in DOMAIN items THEN items ELSE Put(items, key, body)

Delete(items, keys) == [k \in DOMAIN items \ keys |-> items[k]]

(* A table of the given type, stated without enumerating the tables.       *)
IsTable(items, keys, bodies) ==
    /\ DOMAIN items \subseteq keys
    /\ items \in [DOMAIN items -> bodies]
=============================================================================
