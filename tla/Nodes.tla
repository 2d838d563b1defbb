-------------------------------- MODULE Nodes --------------------------------
(* What the two kinds of lists have in common: their nodes are blocks of the  *)
(* default allocator.                                                         *)
EXTENDS SliceAllocator, SequencesExt

CONSTANTS
  Data,     \* the data pointers of the program
  NoNode    \* what a block holds that is no node

ASSUME NodesAssumption == Null \notin Blocks /\ {"slist", "list"} \subseteq AllSizes

(* HEV_MEMORY_ALLOCATOR_FREE of the blocks bs, one after the other.           *)
FreedEach(bs) ==
  LET freed[n \in 0..Len(bs)] == IF n = 0 THEN heap ELSE Freed(freed[n - 1], Default, bs[n])
  IN freed[Len(bs)]

FreeEach(bs) ==
  /\ heap' = FreedEach(bs)
  /\ live' = [b \in Blocks |-> IF b \in ToSet(bs) THEN NotLive ELSE live[b]]
  /\ mixed' = (mixed \/ (Default # Plain /\ \E b \in ToSet(bs) : Foreign(b)))
  /\ default_allocator' = Default
  /\ UNCHANGED ref_count

LastOf(chain) == IF chain = <<>> THEN Null ELSE chain[Len(chain)]

(* The nodes that a walk along the pointers to of node visits, from b to      *)
(* Null; there are no more than blocks.                                       *)
Walk(b, node, to) ==
  LET steps[n \in 0..Cardinality(Blocks)] ==
        [c \in Blocks \cup {Null} |->
           IF n = 0 \/ c = Null THEN <<>> ELSE <<c>> \o steps[n - 1][node[c][to]]]
  IN steps[Cardinality(Blocks)][b]

(* What the nodes of chain hold.                                              *)
DataOf(chain, node) == [n \in DOMAIN chain |-> node[chain[n]].data]

(* The n-th node, or Null when n is off either end.                           *)
At(chain, n) == IF n \in 1..Len(chain) THEN chain[n] ELSE Null

(* The place of node b, one past the end when it is not there.                *)
Place(chain, b) ==
  IF b \in ToSet(chain) THEN CHOOSE n \in 1..Len(chain) : chain[n] = b ELSE Len(chain) + 1

(* The sequence q without any x.                                              *)
Without(q, x) ==
  LET without[n \in 0..Len(q)] ==
        IF n = 0 THEN <<>>
        ELSE IF q[n] = x THEN without[n - 1] ELSE Append(without[n - 1], q[n])
  IN without[Len(q)]

=============================================================================
