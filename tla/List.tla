--------------------------------- MODULE List ---------------------------------
(* hev-list.c: a list of nodes linked both ways.  A program may hold any node *)
(* of it: calls find the first node by themselves.  When malloc has no memory *)
(* a call that inserts returns NULL and leaves the nodes as they were; the    *)
(* program keeps its pointer then.                                            *)
EXTENDS Nodes

VARIABLES
  lnode,    \* lnode[b]: struct _HevList, while block b is a node
  list      \* the node of the list the program holds, or Null

list_vars == <<lnode, list>>

LNodes == [data : Data, prev : Blocks \cup {Null}, next : Blocks \cup {Null}]

ASSUME ListAssumption == NoNode \notin LNodes

Previous(b) == lnode[b].prev
Following(b) == lnode[b].next

(* hev_list_first.                                                            *)
LFirst == LastOf(Walk(list, lnode, "prev"))

LChain == Walk(LFirst, lnode, "next")
LItems == DataOf(LChain, lnode)

ListInit == lnode = [b \in Blocks |-> NoNode] /\ list = Null

-----------------------------------------------------------------------------
(* A new node b with datum x goes between the nodes prev and next, and the    *)
(* call returns head.                                                         *)
LInsertForward(x, b, prev, next, head) ==
  /\ Alloc("list", b)
  /\ lnode' = [c \in Blocks |->
                 IF c = b THEN [data |-> x, prev |-> prev, next |-> next]
                 ELSE IF c = prev THEN [lnode[c] EXCEPT !.next = b]
                 ELSE lnode[c]]
  /\ list' = head

LInsert(x, b, prev, next, head) ==
  /\ Alloc("list", b)
  /\ lnode' = [c \in Blocks |->
                 IF c = b THEN [data |-> x, prev |-> prev, next |-> next]
                 ELSE IF c = prev THEN [lnode[c] EXCEPT !.next = b]
                 ELSE IF c = next THEN [lnode[c] EXCEPT !.prev = b]
                 ELSE lnode[c]]
  /\ list' = head

(* hev_list_append returns the node it was given, hev_list_prepend the new    *)
(* one, and the others the first one.                                         *)
ListAppend(x, b) ==
  LInsert(x, b, LastOf(LChain), Null, IF list = Null THEN b ELSE list)

ListPrependHere(x, b) ==
  LInsert(x, b, IF list = Null THEN Null ELSE Previous(list), list, b)

ListPrepend(x, b) == LInsert(x, b, Null, LFirst, b)

LInsertAt(x, b, n) ==
  LInsert(x, b, At(LChain, n - 1), At(LChain, n), IF n = 1 THEN b ELSE LFirst)

ListInsert(x, b, position) == LInsertAt(x, b, Min({position, Len(LChain)}) + 1)

ListInsertBefore(x, b, sibling) == LInsertAt(x, b, Place(LChain, sibling))

(* A walk that removes nodes: node and first so far, and the nodes removed.   *)
LWalk == [node |-> lnode, first |-> LFirst, gone |-> <<>>]

LUnlink(w, b) ==
  LET prev == w.node[b].prev  next == w.node[b].next IN
  [node |-> [c \in Blocks |-> IF c = prev THEN [w.node[c] EXCEPT !.next = next]
                              ELSE IF c = next THEN [w.node[c] EXCEPT !.prev = prev]
                              ELSE w.node[c]],
   first |-> IF prev = Null THEN next ELSE w.first,
   gone |-> Append(w.gone, b)]

(* The walk through the whole list that removes x, once or everywhere.        *)
LVisit(w, b, x, everywhere) ==
  IF lnode[b].data = x /\ (everywhere \/ w.gone = <<>>) THEN LUnlink(w, b) ELSE w

LScan(chain, x, everywhere) ==
  LET walk[n \in 0..Len(chain)] ==
        IF n = 0 THEN LWalk ELSE LVisit(walk[n - 1], chain[n], x, everywhere)
  IN walk[Len(chain)]

LRemoved(w) ==
  /\ FreeEach(w.gone)
  /\ lnode' = [b \in Blocks |-> IF b \in ToSet(w.gone) THEN NoNode ELSE w.node[b]]
  /\ list' = w.first

ListRemove(x) == LRemoved(LScan(LChain, x, FALSE))

ListRemoveAll(x) == LRemoved(LScan(LChain, x, TRUE))

(* hev_list_free: what follows the node first, then it and what precedes it.  *)
FreeOrderFrom(b) == Walk(Following(b), lnode, "next")

FreeOrder(b) == Walk(Following(b), lnode, "next") \o Walk(b, lnode, "prev")

ListFree ==
  /\ list # Null
  /\ FreeEach(FreeOrder(list))
  /\ lnode' = [b \in Blocks |-> IF b \in ToSet(FreeOrder(list)) THEN NoNode ELSE lnode[b]]
  /\ list' = Null

(* hev_list_next and hev_list_previous move the program along.                *)
ListMove ==
  /\ list # Null
  /\ \E b \in {Following(list), Previous(list)} \ {Null} : list' = b
  /\ UNCHANGED <<lnode, allocator_vars>>

ListSetData(b, x) ==
  /\ b \in ToSet(LChain)
  /\ lnode' = [lnode EXCEPT ![b].data = x]
  /\ UNCHANGED <<list, allocator_vars>>

ListNext ==
  \/ ListFree \/ ListMove
  \/ \E x \in Data :
       \/ ListRemove(x) \/ ListRemoveAll(x)
       \/ \E b \in Blocks :
            \/ ListAppend(x, b) \/ ListPrepend(x, b) \/ ListSetData(b, x)
            \/ \E n \in 0..Cardinality(Blocks) : ListInsert(x, b, n)
            \/ \E c \in ToSet(LChain) : ListInsertBefore(x, b, c)

-----------------------------------------------------------------------------
(* Properties.                                                                *)

(* Each call of hev-list.c does to the sequence of data what its name says,   *)
(* from whatever node it is given.                                            *)
ListCalls ==
  /\ ListMove => UNCHANGED LItems
  /\ \A b \in Blocks :
       /\ lnode[b] = NoNode /\ lnode'[b] # NoNode =>
            LET x == lnode'[b].data IN
            /\ ListAppend(x, b) => LItems' = Append(LItems, x)
            /\ ListPrepend(x, b) => LItems' = <<x>> \o LItems
            /\ \A n \in 0..Len(LItems) :
                 ListInsert(x, b, n) => LItems' = InsertAt(LItems, n + 1, x)
            /\ \A n \in DOMAIN LItems :
                 ListInsertBefore(x, b, LChain[n]) => LItems' = InsertAt(LItems, n, x)
       /\ lnode[b] # NoNode /\ lnode'[b] = NoNode =>
            LET x == lnode[b].data IN
            /\ ListRemove(x) => LItems' = RemoveFirst(LItems, x)
            /\ ListRemoveAll(x) => LItems' = Without(LItems, x)

ListIsSequence == [][ListCalls]_list_vars

(* prev and next are inverse, so that a walk either way visits all nodes.     *)
LinksInverse ==
  \A b \in ToSet(LChain) :
    /\ {Previous(b), Following(b)} \subseteq ToSet(LChain) \cup {Null}
    /\ \A c \in ToSet(LChain) : Previous(c) = b <=> Following(b) = c

=============================================================================
