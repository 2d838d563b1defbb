-------------------------------- MODULE Memory --------------------------------
(* The lists over the allocators: a program that keeps one list of each kind, *)
(* and other blocks besides, while it changes its default allocator.          *)
EXTENDS SList, List

vars == <<allocator_vars, slist_vars, list_vars>>

(* The program frees no block that is a node.                                 *)
IsNode(b) == snode[b] # NoNode \/ lnode[b] # NoNode

OtherNext ==
  \/ \E a \in Slices : SliceNew(a) \/ AllocatorRef(a) \/ AllocatorUnref(a)
  \/ \E d \in Slices \cup {Plain, Null} : SetDefault(d)
  \/ \E b \in Blocks :
       \/ ~IsNode(b) /\ Free(b)
       \/ \E s \in AllSizes : Alloc(s, b)

MemoryInit == Init /\ SListInit /\ ListInit

MemoryNext ==
  \/ OtherNext /\ UNCHANGED <<slist_vars, list_vars>>
  \/ SListNext /\ UNCHANGED list_vars
  \/ ListNext /\ UNCHANGED slist_vars

MemorySpec == MemoryInit /\ [][MemoryNext]_vars

-----------------------------------------------------------------------------
(* The nodes the calls allocated and did not free are those of the two        *)
(* chains, each block in one of them: nothing leaks, nothing is freed while   *)
(* it is linked.                                                              *)
NodesOwned ==
  slist # Wild =>
    /\ ToSet(SChain) = {b \in Blocks : snode[b] # NoNode}
    /\ ToSet(LChain) = {b \in Blocks : lnode[b] # NoNode}
    /\ ToSet(SChain) \cap ToSet(LChain) = {}
    /\ \A b \in ToSet(SChain) : live[b] = "slist" /\ snode[b] \in SNodes
    /\ \A b \in ToSet(LChain) : live[b] = "list" /\ lnode[b] \in LNodes

=============================================================================
