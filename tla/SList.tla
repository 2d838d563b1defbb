-------------------------------- MODULE SList --------------------------------
(* hev-slist.c, and hev-queue.c on top of it: a list of nodes linked one way. *)
(* A call walks the chain as it is, so what it finds is said of the chain;    *)
(* what it links and frees is said pointer by pointer.  When malloc has no    *)
(* memory a call that inserts returns the list as it was.                     *)
EXTENDS Nodes

CONSTANTS Wild    \* a pointer read from memory that was given back

VARIABLES
  snode,    \* snode[b]: struct _HevSList, while block b is a node
  slist     \* the list the program keeps: a node, Null, or Wild

slist_vars == <<snode, slist>>

SNodes == [data : Data, next : Blocks \cup {Null}]

ASSUME SListAssumption == Wild \notin Blocks \cup {Null} /\ NoNode \notin SNodes

SChain == IF slist = Wild THEN <<>> ELSE Walk(slist, snode, "next")
SItems == DataOf(SChain, snode)

SListInit == snode = [b \in Blocks |-> NoNode] /\ slist = Null

-----------------------------------------------------------------------------
(* A new node b with datum x goes between the nodes prev and next.            *)
SInsert(x, b, prev, next) ==
  /\ slist # Wild /\ Alloc("slist", b)
  /\ snode' = [c \in Blocks |-> IF c = b THEN [data |-> x, next |-> next]
                                ELSE IF c = prev THEN [snode[c] EXCEPT !.next = b]
                                ELSE snode[c]]
  /\ slist' = IF prev = Null THEN b ELSE slist

SListAppend(x, b) == SInsert(x, b, LastOf(SChain), Null)

SListPrepend(x, b) == SInsert(x, b, Null, slist)

(* hev_slist_insert and hev_slist_insert_before put it in front of a node     *)
(* they look for, or at the end when they do not find it.                     *)
SInsertBehind(x, b, n) == SInsert(x, b, At(SChain, n), At(SChain, n + 1))

SInsertAt(x, b, n) == SInsert(x, b, At(SChain, n - 1), At(SChain, n))

SListInsert(x, b, position) == SInsertAt(x, b, Min({position, Len(SChain)}) + 1)

SListInsertBefore(x, b, sibling) == SInsertAt(x, b, Place(SChain, sibling))

SListInsertAfter(x, b, sibling) ==
  SInsert(x, b, sibling, IF sibling = Null THEN slist ELSE snode[sibling].next)

(* A walk that removes nodes: node and head so far, the last node that stays, *)
(* and the nodes removed.                                                     *)
SWalk == [node |-> snode, head |-> slist, prev |-> Null, gone |-> <<>>]

SUnlink(w, b) ==
  LET after == [w EXCEPT !.gone = Append(@, b)] IN
  IF w.prev = Null THEN [after EXCEPT !.head = w.node[b].next]
  ELSE [after EXCEPT !.node[w.prev].next = w.node[b].next]

SPass(w, b) == [w EXCEPT !.prev = b]

(* The walk through the whole list that removes x, once or everywhere.        *)
SVisit(w, b, x, everywhere) ==
  IF snode[b].data = x /\ (everywhere \/ w.gone = <<>>) THEN SUnlink(w, b) ELSE SPass(w, b)

SScan(chain, x, everywhere) ==
  LET walk[n \in 0..Len(chain)] ==
        IF n = 0 THEN SWalk ELSE SVisit(walk[n - 1], chain[n], x, everywhere)
  IN walk[Len(chain)]

SRemoved(w) ==
  /\ slist # Wild
  /\ FreeEach(w.gone)
  /\ snode' = [b \in Blocks |-> IF b \in ToSet(w.gone) THEN NoNode ELSE w.node[b]]
  /\ slist' = w.head

SListRemove(x) == SRemoved(SScan(SChain, x, FALSE))

SListRemoveAll(x) == SRemoved(SScan(SChain, x, TRUE))

SListRemoveNext(sibling) ==
  /\ sibling \in ToSet(SChain) /\ snode[sibling].next # Null
  /\ SRemoved(SUnlink(SPass(SWalk, sibling), snode[sibling].next))

(* Without a sibling hev_slist_remove_next frees the head and then reads its  *)
(* next pointer.  A block that went into a list of a slice allocator still    *)
(* has it; one that went back to malloc may have anything.                    *)
SListRemoveHead ==
  /\ slist \notin {Null, Wild}
  /\ FreeEach(<<slist>>)
  /\ snode' = [snode EXCEPT ![slist] = NoNode]
  /\ \/ slist' = snode[slist].next
     \/ slist \notin heap'.taken /\ slist' = Wild

(* hev_slist_free; hev_slist_free_notify also calls back for each datum.      *)
SListFree ==
  /\ slist # Wild
  /\ FreeEach(SChain)
  /\ snode' = [b \in Blocks |-> IF b \in ToSet(SChain) THEN NoNode ELSE snode[b]]
  /\ slist' = Null

SListSetData(b, x) ==
  /\ b \in ToSet(SChain)
  /\ snode' = [snode EXCEPT ![b].data = x]
  /\ UNCHANGED <<slist, allocator_vars>>

(* hev_queue_pop removes the datum at the head.                               *)
QueuePop == slist \notin {Null, Wild} /\ SListRemove(snode[slist].data)

SListNext ==
  \/ SListRemoveHead \/ SListFree \/ QueuePop
  \/ \E x \in Data :
       \/ SListRemove(x) \/ SListRemoveAll(x)
       \/ \E b \in Blocks :
            \/ SListAppend(x, b) \/ SListPrepend(x, b) \/ SListSetData(b, x)
            \/ \E n \in 0..Cardinality(Blocks) : SListInsert(x, b, n)
            \/ \E c \in ToSet(SChain) : SListInsertBefore(x, b, c)
            \/ \E c \in ToSet(SChain) \cup {Null} : SListInsertAfter(x, b, c)
  \/ \E b \in Blocks : SListRemoveNext(b)

-----------------------------------------------------------------------------
(* Properties.                                                                *)

(* Each call of hev-slist.c does to the sequence of data what its name says,  *)
(* wherever in the chain; the rest of the list is lost only by removing the   *)
(* head through hev_slist_remove_next when its block goes back to malloc.     *)
SListCalls ==
  \A b \in Blocks :
    /\ snode[b] = NoNode /\ snode'[b] # NoNode =>
         LET x == snode'[b].data IN
         /\ SListAppend(x, b) => SItems' = Append(SItems, x)
         /\ SListPrepend(x, b) => SItems' = <<x>> \o SItems
         /\ \A n \in 0..Len(SItems) :
              SListInsert(x, b, n) => SItems' = InsertAt(SItems, n + 1, x)
         /\ \A n \in DOMAIN SItems :
              /\ SListInsertBefore(x, b, SChain[n]) => SItems' = InsertAt(SItems, n, x)
              /\ SListInsertAfter(x, b, SChain[n]) => SItems' = InsertAt(SItems, n + 1, x)
    /\ snode[b] # NoNode /\ snode'[b] = NoNode =>
         LET x == snode[b].data IN
         /\ SListRemove(x) => SItems' = RemoveFirst(SItems, x)
         /\ SListRemoveAll(x) => SItems' = Without(SItems, x)
         /\ QueuePop => SItems' = Tail(SItems)
         /\ SListRemoveHead /\ (b \in heap'.taken) => SItems' = Tail(SItems)
         /\ \A n \in DOMAIN SItems :
              SListRemoveNext(SChain[n]) => SItems' = RemoveAt(SItems, n + 1)

SListIsSequence == [][SListCalls]_slist_vars

=============================================================================
