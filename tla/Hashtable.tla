------------------------------ MODULE Hashtable ------------------------------
(***************************************************************************)
(* The table of hashtable.c: an array of objects with one slot for each    *)
(* key from 0 to max_key, NULL where there is none.  A key outside is not  *)
(* stored and not found.                                                   *)
(***************************************************************************)
EXTENDS Integers

CONSTANT NULL

hashtable_create(max_key) == [key \in 0..max_key |-> NULL]

hashtable_search(ht, key) == IF key \in DOMAIN ht THEN ht[key] ELSE NULL

hashtable_insert(ht, key, object) ==
  IF key \in DOMAIN ht THEN [ht EXCEPT ![key] = object] ELSE ht

hashtable_delete(ht, key) ==
  IF key \in DOMAIN ht THEN [ht EXCEPT ![key] = NULL] ELSE ht

\* The keys for which hashtable_iterate calls its block
hashtable_iterate(ht) == {key \in DOMAIN ht : ht[key] # NULL}
=============================================================================
