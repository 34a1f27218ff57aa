---------------------------- MODULE ItemsProofs ----------------------------
(***************************************************************************)
(* What puts and deletes do to a table, whatever it stores.                *)
(***************************************************************************)
EXTENDS Items, TLAPS

(* A put keeps the type of a table.                                        *)
LEMMA PutType ==
    ASSUME NEW keys, NEW bodies, NEW items, NEW key, NEW body,
           IsTable(items, keys, bodies), key \in keys, body \in bodies
    PROVE  IsTable(Put(items, key, body), keys, bodies)
BY DEF IsTable, Put

(* A put stores the body under its key and leaves the others alone.        *)
LEMMA PutStores ==
    ASSUME NEW items, NEW key, NEW body
    PROVE  /\ DOMAIN Put(items, key, body) = DOMAIN items \cup {key}
           /\ Put(items, key, body)[key] = body
           /\ \A k \in DOMAIN items \ {key} : Put(items, key, body)[k] = items[k]
BY DEF Put

(* A put that is conditional on absence never replaces a body.             *)
LEMMA PutIfAbsentType ==
    ASSUME NEW keys, NEW bodies, NEW items, NEW key, NEW body,
           IsTable(items, keys, bodies), key \in keys, body \in bodies
    PROVE  /\ IsTable(PutIfAbsent(items, key, body), keys, bodies)
           /\ DOMAIN PutIfAbsent(items, key, body) = DOMAIN items \cup {key}
           /\ \A k \in DOMAIN items : PutIfAbsent(items, key, body)[k] = items[k]
           /\ key \notin DOMAIN items => PutIfAbsent(items, key, body)[key] = body
<1>1. CASE key \in DOMAIN items
  BY <1>1 DEF PutIfAbsent
<1>2. CASE key \notin DOMAIN items
  <2>1. PutIfAbsent(items, key, body) = Put(items, key, body)
    BY <1>2 DEF PutIfAbsent
  <2> QED
    BY <1>2, <2>1 DEF IsTable, Put
<1> QED
  BY <1>1, <1>2

(* A delete leaves all other items as they are.                            *)
LEMMA DeleteType ==
    ASSUME NEW keys, NEW bodies, NEW items, NEW gone,
           IsTable(items, keys, bodies)
    PROVE  /\ IsTable(Delete(items, gone), keys, bodies)
           /\ DOMAIN Delete(items, gone) = DOMAIN items \ gone
           /\ \A k \in DOMAIN items \ gone : Delete(items, gone)[k] = items[k]
BY DEF IsTable, Delete

(* A table keeps its type when the set of possible keys grows.             *)
LEMMA WiderKeys ==
    ASSUME NEW keys, NEW more, NEW bodies, NEW items, keys \subseteq more,
           IsTable(items, keys, bodies)
    PROVE  IsTable(items, more, bodies)
BY DEF IsTable

(* At first a table is empty.                                              *)
LEMMA NoItemsType ==
    ASSUME NEW keys, NEW bodies
    PROVE  IsTable(NoItems, keys, bodies) /\ DOMAIN NoItems = {}
BY DEF IsTable, NoItems
=============================================================================
