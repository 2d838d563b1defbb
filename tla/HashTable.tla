------------------------------ MODULE HashTable ------------------------------
(* hev-hash-table.c: open addressing with tombstones.  The table grows when  *)
(* no bucket is free and shrinks when few are used; it owns its keys and,    *)
(* with a value_destroy_notify, its values.  Single threaded: a call is one  *)
(* step.  Callbacks (notify, func) do not call the table back.               *)
EXTENDS Integers, FiniteSets

CONSTANTS
  Pointers,    \* key pointers
  KeyNum,      \* KeyNum[k]: the key k points to (equal for key_equal_func)
  HashOf,      \* HashOf[c]: hash_func of key c
  Vals,        \* value pointers
  MinShift,    \* HASH_TABLE_MIN_SHIFT (3 in the code)
  Null

KeyOf(k) == KeyNum[k]
Keys == {KeyOf(k) : k \in Pointers}

(* The size of the table is an int: it is at most 1 << 30.                   *)
MaxShift == 30

(* A table of all keys at most half full is no bigger than that.             *)
ASSUME TableAssumption ==
  /\ HashOf \in [Keys -> Nat] /\ MinShift \in 1..MaxShift
  /\ Null \notin Pointers \cup Vals /\ Pointers \cap Vals = {}
  /\ IsFiniteSet(Keys) /\ 2 * Cardinality(Keys) < 2 ^ MaxShift

VARIABLES
  table,    \* struct _HevHashTable
  owned,    \* the pointers handed over and not yet destroyed or given back
  destroys  \* TRUE: value_destroy_notify is set

vars == <<table, owned, destroys>>

(* UNUSED_HASH_VALUE, TOMBSTONE_HASH_VALUE, HASH_IS_REAL.                    *)
UNUSED == 0
TOMBSTONE == 1
IsReal(h) == h >= 2

prime_mod ==
  <<1, 2, 3, 7, 13, 31, 61, 127, 251, 509, 1021, 2039, 4093, 8191, 16381, 32749,
    65521, 131071, 262139, 524287, 1048573, 2097143, 4194301, 8388593, 16777213,
    33554393, 67108859, 134217689, 268435399, 536870909, 1073741789>>

Size(shift) == 2 ^ shift
Buckets(t) == 0..(Size(t.shift) - 1)

(* hev_hash_table_new_full; set_shift with empty arrays.                     *)
EmptyTable(shift) ==
  [shift |-> shift, nnodes |-> 0, noccupied |-> 0,
   hashes |-> [i \in 0..(Size(shift) - 1) |-> UNUSED],
   keys |-> [i \in 0..(Size(shift) - 1) |-> Null],
   values |-> [i \in 0..(Size(shift) - 1) |-> Null],
   shared |-> TRUE]   \* keys == values: one array for both

Init == table = EmptyTable(MinShift) /\ owned = {} /\ destroys \in BOOLEAN

-----------------------------------------------------------------------------
(* hev_hash_table_lookup_node.                                               *)
KeyHash(c) == IF IsReal(HashOf[c]) THEN HashOf[c] ELSE 2

(* The n-th bucket probed for hash h: the steps grow by one.                 *)
LinearProbe(t, h, n) == ((h % prime_mod[t.shift + 1]) + 2 * n) % Size(t.shift)

Probe(t, h, n) ==
  ((h % prime_mod[t.shift + 1]) + (n * (n + 1)) \div 2) % Size(t.shift)

(* The probes are over at the first n for which Ends holds.  They go round   *)
(* the buckets: Size(t.shift) of them see every bucket.                      *)
Probes(t) == 0..(Size(t.shift) - 1)

Holds(t, c, i) ==
  t.hashes[i] = KeyHash(c) /\ t.keys[i] # Null /\ KeyOf(t.keys[i]) = c

Ends(t, c, n) ==
  LET i == Probe(t, KeyHash(c), n) IN t.hashes[i] = UNUSED \/ Holds(t, c, i)

FirstEnd(t, c) == CHOOSE n \in Probes(t) : Ends(t, c, n) /\ \A m \in 0..(n - 1) : ~Ends(t, c, m)

(* The bucket of c, else the first tombstone passed, else the unused bucket. *)
LookupNode(t, c) ==
  LET end == FirstEnd(t, c)
      at(n) == Probe(t, KeyHash(c), n)
      tombs == {n \in 0..(end - 1) : t.hashes[at(n)] = TOMBSTONE}
  IN IF t.hashes[at(end)] = UNUSED /\ tombs # {}
       THEN at(CHOOSE n \in tombs : \A m \in tombs : n <= m)
       ELSE at(end)

Contains(t, c) == IsReal(t.hashes[LookupNode(t, c)])

-----------------------------------------------------------------------------
(* hev_hash_table_resize.                                                    *)
ClosestShift(n) == CHOOSE i \in 0..MaxShift : n < Size(i) /\ (i > 0 => n >= Size(i - 1))

ShiftNoMin(size) == ClosestShift(size)

ShiftFor(size) == IF ClosestShift(size) > MinShift THEN ClosestShift(size) ELSE MinShift

(* Bucket i of the old table moves to the first unused bucket of the new one. *)
Moved(new, old, i) ==
  IF ~IsReal(old.hashes[i]) THEN new
  ELSE LET free == {n \in Probes(new) : new.hashes[Probe(new, old.hashes[i], n)] = UNUSED}
           j == Probe(new, old.hashes[i], CHOOSE n \in free : \A m \in free : n <= m)
       IN [new EXCEPT !.hashes[j] = old.hashes[i], !.keys[j] = old.keys[i],
                      !.values[j] = old.values[i]]

(* The tombstones stay behind.                                               *)
WithTombstones(t) == t.noccupied

OccupiedAfter(t) == t.nnodes

NewTable(t) ==
  [EmptyTable(ShiftFor(2 * t.nnodes)) EXCEPT
     !.nnodes = t.nnodes, !.noccupied = OccupiedAfter(t), !.shared = t.shared]

(* The new table when the first n buckets have moved, for every n.           *)
Moves(t, new) ==
  LET moved[n \in 0..Size(t.shift)] == IF n = 0 THEN new ELSE Moved(moved[n - 1], t, n - 1)
  IN moved

Resize(t) == Moves(t, NewTable(t))[Size(t.shift)]

GrowLate(t) ==
  LET size == Size(t.shift)
  IN IF \/ size > 4 * t.nnodes /\ size > Size(MinShift)
        \/ size <= t.nnodes + t.nnodes \div 16
       THEN Resize(t) ELSE t

MaybeResize(t) ==
  LET size == Size(t.shift)
  IN IF \/ size > 4 * t.nnodes /\ size > Size(MinShift)
        \/ size <= t.noccupied + t.noccupied \div 16
       THEN Resize(t) ELSE t

-----------------------------------------------------------------------------
(* hev_hash_table_insert_node, at the bucket i found for k.                  *)
Written(t, i, k, v, keep) ==
  LET exists == IsReal(t.hashes[i])
      keys == IF exists /\ ~keep THEN t.keys ELSE [t.keys EXCEPT ![i] = k]
      values == IF t.shared THEN keys ELSE t.values
  IN [t EXCEPT !.hashes[i] = IF exists THEN @ ELSE KeyHash(KeyOf(k)),
               !.keys = keys,
               !.shared = @ /\ keys[i] = v,
               !.values = [values EXCEPT ![i] = v],
               !.nnodes = IF exists THEN @ ELSE @ + 1,
               !.noccupied = IF t.hashes[i] = UNUSED THEN @ + 1 ELSE @]

(* Only an entry that fills an unused bucket may make the table grow.        *)
InsertNode(t, i, k, v, keep) ==
  IF t.hashes[i] = UNUSED THEN MaybeResize(Written(t, i, k, v, keep))
                          ELSE Written(t, i, k, v, keep)

(* What the call destroys: the entry's old value, and the pointer that is    *)
(* not kept.                                                                 *)
DestroyNew(t, i, k, keep) ==
  IF ~IsReal(t.hashes[i]) THEN {}
  ELSE {k} \cup (IF destroys THEN {t.values[i]} ELSE {})

Destroyed(t, i, k, keep) ==
  IF ~IsReal(t.hashes[i]) THEN {}
  ELSE {IF keep THEN t.keys[i] ELSE k} \cup (IF destroys THEN {t.values[i]} ELSE {})

(* The program hands over pointers the table does not own yet.               *)
Given(k, v) == {k} \cup (IF destroys THEN {v} ELSE {})

InsertInternal(k, v, keep) ==
  LET i == LookupNode(table, KeyOf(k))
  IN /\ Given(k, v) \cap owned = {}
     /\ table' = InsertNode(table, i, k, v, keep)
     /\ owned' = (owned \cup Given(k, v)) \ Destroyed(table, i, k, keep)
     /\ UNCHANGED destroys

Insert(k, v) == InsertInternal(k, v, FALSE)
Replace(k, v) == InsertInternal(k, v, TRUE)

(* Sets of keys have no value_destroy_notify.                                *)
Add(k) == ~destroys /\ InsertInternal(k, k, TRUE)

(* hev_hash_table_remove_node, for every bucket of I.                        *)
NoTombstone(t, I) ==
  [t EXCEPT !.hashes = [i \in Buckets(t) |-> IF i \in I THEN UNUSED ELSE t.hashes[i]],
            !.keys = [i \in Buckets(t) |-> IF i \in I THEN Null ELSE t.keys[i]],
            !.values = [i \in Buckets(t) |-> IF i \in I THEN Null ELSE t.values[i]],
            !.nnodes = @ - Cardinality(I), !.noccupied = @ - Cardinality(I)]

RemoveNodes(t, I) ==
  [t EXCEPT !.hashes = [i \in Buckets(t) |-> IF i \in I THEN TOMBSTONE ELSE t.hashes[i]],
            !.keys = [i \in Buckets(t) |-> IF i \in I THEN Null ELSE t.keys[i]],
            !.values = [i \in Buckets(t) |-> IF i \in I THEN Null ELSE t.values[i]],
            !.nnodes = @ - Cardinality(I)]

(* Removed entries are destroyed, stolen ones are given back.                *)
Released(t, I) ==
  {t.keys[i] : i \in I} \cup (IF destroys THEN {t.values[i] : i \in I} ELSE {})

(* hev_hash_table_remove and _steal.                                         *)
Remove(c) ==
  /\ Contains(table, c)
  /\ LET I == {LookupNode(table, c)}
     IN table' = MaybeResize(RemoveNodes(table, I)) /\ owned' = owned \ Released(table, I)
  /\ UNCHANGED destroys

(* hev_hash_table_foreach_remove and _foreach_steal: the function says yes   *)
(* to the keys of S.  The table is resized once, after all of them.          *)
ForeachRemove(S) ==
  /\ LET I == {i \in Buckets(table) : IsReal(table.hashes[i]) /\ KeyOf(table.keys[i]) \in S}
     IN table' = MaybeResize(RemoveNodes(table, I)) /\ owned' = owned \ Released(table, I)
  /\ UNCHANGED destroys

(* hev_hash_table_remove_all and _steal_all: no tombstone stays.             *)
RemoveAll ==
  /\ table' = MaybeResize([EmptyTable(table.shift) EXCEPT !.shared = table.shared])
  /\ owned' = owned \ Released(table, {i \in Buckets(table) : IsReal(table.hashes[i])})
  /\ UNCHANGED destroys

Next ==
  \/ \E k \in Pointers : Add(k) \/ \E v \in Vals : Insert(k, v) \/ Replace(k, v)
  \/ \E c \in Keys : Remove(c)
  \/ \E S \in SUBSET Keys : ForeachRemove(S)
  \/ RemoveAll

Spec == Init /\ [][Next]_vars

-----------------------------------------------------------------------------
(* Properties.                                                               *)

(* The table has its type: every array has Size(shift) cells.                *)
TypeOK ==
  /\ table.shift \in MinShift..MaxShift
  /\ table.nnodes \in Nat /\ table.noccupied \in Nat /\ table.shared \in BOOLEAN
  /\ table.hashes \in [Buckets(table) -> Nat]
  /\ table.keys \in [Buckets(table) -> Pointers \cup {Null}]
  /\ table.values \in [Buckets(table) -> Pointers \cup Vals \cup {Null}]
  /\ owned \subseteq Pointers \cup Vals /\ destroys \in BOOLEAN

(* Every lookup ends: each key's probe sequence meets an unused bucket or    *)
(* the key, however many tombstones inserts and removals have left.          *)
ProbesEnd == \A c \in Keys : \E n \in Probes(table) : Ends(table, c, n)

(* nnodes and noccupied, on which every resize decides, are exact.           *)
CountsExact ==
  /\ table.nnodes = Cardinality({i \in Buckets(table) : IsReal(table.hashes[i])})
  /\ table.noccupied = Cardinality({i \in Buckets(table) : table.hashes[i] # UNUSED})

Stores(c, i) == IsReal(table.hashes[i]) /\ KeyOf(table.keys[i]) = c

(* A key that is stored is found, and in one bucket only: neither a          *)
(* tombstone before it nor a key of the same hash ends the search early, and *)
(* no insert puts a second copy into a tombstone nearer to the start.        *)
LookupFinds ==
  \A c \in Keys, i \in Buckets(table) : Stores(c, i) => LookupNode(table, c) = i

(* The table is a map that owns exactly what it keeps: every entry is what   *)
(* the last call for its key stored, through tombstones, growing, shrinking  *)
(* and the array of keys shared with the values, and every pointer is        *)
(* destroyed or given back exactly when its entry goes.                      *)
Entries ==
  {[key |-> table.keys[i], value |-> table.values[i]] :
     i \in {j \in Buckets(table) : IsReal(table.hashes[j])}}

Dict == INSTANCE Dictionary WITH entries <- Entries
DictSpec == Dict!DictSpec

=============================================================================
