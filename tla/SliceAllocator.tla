---------------------------- MODULE SliceAllocator ----------------------------
(* hev-memory-allocator.c and hev-memory-allocator-slice.c: the allocator     *)
(* that all of the library uses by default, and one that keeps freed blocks   *)
(* in a list for each size.  A block of a slice allocator has a header in     *)
(* front that names the list it goes back to.                                 *)
EXTENDS Integers, Sequences, FiniteSets

CONSTANTS
  Blocks,      \* the addresses malloc may return
  Slices,      \* the addresses of slice allocators
  Plain,       \* the allocator over malloc and free
  Null,        \* no allocator; and the owner of a block that goes in no list
  Sizes,       \* the sizes that have a list
  Big,         \* a size above MAX_CACHED_SLICE_SIZE
  MaxCached,   \* MAX_CACHED_SLICE_COUNT
  Width,       \* an unsigned int counts modulo Width
  MaxRefs      \* bound: references on an allocator

ASSUME BlocksAssumption == IsFiniteSet(Blocks)
ASSUME NamesAssumption == Plain \notin Slices /\ Null \notin Slices \cup {Plain}
ASSUME SizesAssumption == Big \notin Sizes /\ "free" \notin Sizes \cup {Big}
ASSUME CountAssumption == MaxCached \in Nat /\ Width \in Nat /\ MaxCached < Width

VARIABLES
  default_allocator,
  ref_count,   \* ref_count[a] of a slice allocator, 0 when it is not allocated
  heap,        \* the blocks: see HeapType
  live,        \* live[b]: the size the program asked for, while it has b
  mixed        \* whether a block was freed through a slice allocator that did
               \* not make it (not in the code)

allocator_vars == <<default_allocator, ref_count, heap, live, mixed>>

FreeLists == Slices \X Sizes
AllSizes == Sizes \cup {Big}
NotLive == "free"

(* cached_mslices and cached_count of every slice allocator, the owner in     *)
(* the header of every block, and the blocks malloc has given out.            *)
HeapType ==
  [cached : [FreeLists -> Seq(Blocks)], count : [Slices -> 0..(Width - 1)],
   owner : [Blocks -> FreeLists \cup {Null}], taken : SUBSET Blocks]

Cached(k) == {heap.cached[k][i] : i \in 1..Len(heap.cached[k])}
CachedOf(a) == UNION {Cached(<<a, s>>) : s \in Sizes}

Live == {b \in Blocks : live[b] # NotLive}

(* hev_memory_allocator_default makes the plain allocator when it is asked    *)
(* for one for the first time.                                                *)
Default == IF default_allocator = Null THEN Plain ELSE default_allocator

-----------------------------------------------------------------------------
(* What alloc and free of allocator d do to the heap h.                       *)

Increment(n) == (n + 1) % Width
DecrementSigned(n) == n - 1
Decrement(n) == (n + Width - 1) % Width

(* malloc gets its blocks bs back; what is in them means nothing any more.    *)
Returned(h, bs) ==
  [h EXCEPT !.taken = @ \ bs, !.owner = [b \in Blocks |-> IF b \in bs THEN Null ELSE @[b]]]

Fresh(h, b, k) == [h EXCEPT !.taken = @ \cup {b}, !.owner[b] = k]

FreedUncounted(h, d, b) ==
  IF d = Plain \/ h.owner[b] = Null \/ h.count[d] >= MaxCached THEN Returned(h, {b})
  ELSE [h EXCEPT !.cached[h.owner[b]] = <<b>> \o @]

Freed(h, d, b) ==
  IF d = Plain \/ h.owner[b] = Null \/ h.count[d] >= MaxCached THEN Returned(h, {b})
  ELSE [h EXCEPT !.cached[h.owner[b]] = <<b>> \o @, !.count[d] = Increment(@)]

HasCached(h, d, s) == d # Plain /\ s \in Sizes /\ h.cached[<<d, s>>] # <<>>

Popped(h, d, k) ==
  [h EXCEPT !.cached[k] = Tail(@), !.count[d] = Decrement(@)]

(* The blocks alloc of d may return for size s: one, from the list, or any    *)
(* that malloc has not given out.                                             *)
Answers(h, d, s) ==
  IF HasCached(h, d, s) THEN {Head(h.cached[<<d, s>>])} ELSE Blocks \ h.taken

AllocatedBigCached(h, d, s, b) ==
  IF HasCached(h, d, s) THEN Popped(h, d, <<d, s>>)
  ELSE Fresh(h, b, IF d # Plain THEN <<d, CHOOSE t \in Sizes : s \in Sizes => t = s>> ELSE Null)

Allocated(h, d, s, b) ==
  IF HasCached(h, d, s) THEN Popped(h, d, <<d, s>>)
  ELSE Fresh(h, b, IF d # Plain /\ s \in Sizes THEN <<d, s>> ELSE Null)

-----------------------------------------------------------------------------
Init ==
  /\ default_allocator = Null /\ ref_count = [a \in Slices |-> 0]
  /\ heap = [cached |-> [k \in FreeLists |-> <<>>], count |-> [a \in Slices |-> 0],
             owner |-> [b \in Blocks |-> Null], taken |-> {}]
  /\ live = [b \in Blocks |-> NotLive] /\ mixed = FALSE

(* hev_memory_allocator_slice_new.                                            *)
SliceNew(a) ==
  /\ ref_count[a] = 0
  /\ ref_count' = [ref_count EXCEPT ![a] = 1]
  /\ heap' = [heap EXCEPT !.count[a] = 0,
                          !.cached = [k \in FreeLists |-> IF k[1] = a THEN <<>> ELSE @[k]]]
  /\ UNCHANGED <<default_allocator, live, mixed>>

(* hev_memory_allocator_ref.                                                  *)
AllocatorRef(a) ==
  /\ ref_count[a] \in 1..(MaxRefs - 1)
  /\ ref_count' = [ref_count EXCEPT ![a] = @ + 1]
  /\ UNCHANGED <<default_allocator, heap, live, mixed>>

(* hev_memory_allocator_unref; the last one gives every cached block back.    *)
(* A program drops its last reference when nothing needs the allocator: it    *)
(* is not the default, and no block in use is to go back to one of its lists. *)
Needed(a) ==
  a = default_allocator \/ \E b \in Live, s \in Sizes : heap.owner[b] = <<a, s>>

KeptSlices(a) ==
  [heap EXCEPT !.count[a] = 0,
               !.cached = [k \in FreeLists |-> IF k[1] = a THEN <<>> ELSE @[k]]]

Destroyed(a) ==
  [Returned(heap, CachedOf(a)) EXCEPT !.count[a] = 0,
               !.cached = [k \in FreeLists |-> IF k[1] = a THEN <<>> ELSE @[k]]]

AllocatorUnref(a) ==
  /\ ref_count[a] > 0 /\ (ref_count[a] = 1 => ~Needed(a))
  /\ ref_count' = [ref_count EXCEPT ![a] = @ - 1]
  /\ heap' = IF ref_count[a] = 1 THEN Destroyed(a) ELSE heap
  /\ UNCHANGED <<default_allocator, live, mixed>>

(* hev_memory_allocator_set_default.  A program changes between slice         *)
(* allocators at any time, but between the plain one and a slice allocator,   *)
(* whose blocks differ by the header, only when no block is in use.           *)
SetDefault(d) ==
  /\ d \in Slices => ref_count[d] > 0
  /\ Live = {} \/ (d \in Slices <=> Default \in Slices)
  /\ default_allocator' = d
  /\ UNCHANGED <<ref_count, heap, live, mixed>>

(* hev_memory_allocator_alloc of the default allocator, when it has memory.   *)
Alloc(s, b) ==
  /\ b \in Answers(heap, Default, s)
  /\ heap' = Allocated(heap, Default, s, b)
  /\ live' = [live EXCEPT ![b] = s]
  /\ default_allocator' = Default
  /\ UNCHANGED <<ref_count, mixed>>

(* hev_memory_allocator_free of the default allocator.                        *)
Foreign(b) ==
  \E a \in Slices, s \in Sizes : heap.owner[b] = <<a, s>> /\ a # Default

Free(b) ==
  /\ b \in Live
  /\ heap' = Freed(heap, Default, b)
  /\ live' = [live EXCEPT ![b] = NotLive]
  /\ mixed' = (mixed \/ (Default # Plain /\ Foreign(b)))
  /\ default_allocator' = Default
  /\ UNCHANGED ref_count

AllocatorNext ==
  \/ \E a \in Slices : SliceNew(a) \/ AllocatorRef(a) \/ AllocatorUnref(a)
  \/ \E d \in Slices \cup {Plain, Null} : SetDefault(d)
  \/ \E b \in Blocks : Free(b) \/ \E s \in AllSizes : Alloc(s, b)

AllocatorSpec == Init /\ [][AllocatorNext]_allocator_vars

-----------------------------------------------------------------------------
(* Properties.                                                                *)

(* Every variable has its type.                                               *)
TypeOK ==
  /\ default_allocator \in Slices \cup {Plain, Null}
  /\ ref_count \in [Slices -> Nat] /\ heap \in HeapType
  /\ live \in [Blocks -> AllSizes \cup {NotLive}] /\ mixed \in BOOLEAN

(* No block is lost or given back twice, whatever allocators come, go and     *)
(* are the default: what malloc gave out is in use or in one list, once, the  *)
(* one its header names, and only allocators that exist have lists.           *)
NothingLost ==
  /\ heap.taken = Live \cup UNION {Cached(k) : k \in FreeLists}
  /\ \A k \in FreeLists : \A i \in 1..Len(heap.cached[k]) :
       LET b == heap.cached[k][i] IN
       /\ b \notin Live /\ heap.owner[b] = k /\ ref_count[k[1]] > 0
       /\ \A j \in 1..Len(heap.cached[k]) : heap.cached[k][j] = b => i = j

(* cached_count is the number of blocks in all lists of the allocator, and    *)
(* keeps below its limit, as long as every block is freed through the         *)
(* allocator that made it.                                                    *)
CachedExact ==
  ~mixed => \A a \in Slices : ref_count[a] > 0 =>
              /\ heap.count[a] = Cardinality(CachedOf(a))
              /\ heap.count[a] <= MaxCached

(* A block in use goes back to a list of the size it was asked for, and that  *)
(* list exists.                                                               *)
GoesBack ==
  \A b \in Live : heap.owner[b] # Null =>
    heap.owner[b][2] = live[b] /\ ref_count[heap.owner[b][1]] > 0

===============================================================================
