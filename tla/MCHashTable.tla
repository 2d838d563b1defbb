----------------------------- MODULE MCHashTable -----------------------------
(* Small instances of HashTable for TLC: four keys, two of them with the     *)
(* same full hash and a third with the same first bucket, in a table of at   *)
(* least four buckets: it grows to eight and to sixteen and shrinks.         *)
EXTENDS HashTable

CONSTANTS k1, k2, k3, k4, l1

(* k1 and l1 are two pointers to one key.                                    *)
KeyNumbers == [k \in Pointers |-> IF k \in {k1, l1} THEN 1 ELSE IF k = k2 THEN 2
                                  ELSE IF k = k3 THEN 3 ELSE 4]

(* Hash 0 is not real: it becomes 2, the hash of the second key.             *)
Colliding == <<0, 2, 5, 3>>

=============================================================================
