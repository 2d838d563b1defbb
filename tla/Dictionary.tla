------------------------------ MODULE Dictionary ------------------------------
(* What hev-hash-table.h promises: a map from keys to values that owns what  *)
(* it keeps.  A key is given as a pointer, one of many that compare equal.   *)
CONSTANTS Pointers, Vals, KeyOf(_)

VARIABLES
  entries,  \* the pointer and the value kept for every key of the map
  owned,    \* the pointers handed over and not destroyed or given back
  destroys  \* TRUE: values are owned too (value_destroy_notify is set)

dictVars == <<entries, owned, destroys>>

Entry(k, v) == [key |-> k, value |-> v]

Others(k) == {e \in entries : KeyOf(e.key) # KeyOf(k)}

DictInit == entries = {} /\ owned = {} /\ destroys \in BOOLEAN

Becomes(new) ==
  /\ entries' = new
  /\ owned' = {e.key : e \in new} \cup (IF destroys THEN {e.value : e \in new} ELSE {})
  /\ UNCHANGED destroys

(* hev_hash_table_insert keeps the pointer it has, _replace and _add take    *)
(* the new one.                                                              *)
SetNew(k, v) == Becomes(Others(k) \cup {Entry(k, v)})

Set(k, v) ==
  \/ \E e \in entries \ Others(k) : Becomes(Others(k) \cup {Entry(e.key, v)})
  \/ entries = Others(k) /\ SetNew(k, v)

(* remove, steal, foreach_remove, remove_all and the like.                   *)
Erase == \E kept \in SUBSET entries : Becomes(kept)

DictNext ==
  \/ Erase
  \/ \E k \in Pointers : SetNew(k, k) \/ \E v \in Vals : Set(k, v) \/ SetNew(k, v)

DictSpec == DictInit /\ [][DictNext]_dictVars

=============================================================================
