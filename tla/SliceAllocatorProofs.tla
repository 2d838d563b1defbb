------------------------- MODULE SliceAllocatorProofs -------------------------
(* For every set of blocks, of slice allocators and of sizes, and every limit: *)
(* no block is lost or given out twice, and cached_count is exact as long as   *)
(* no block is freed through another slice allocator than its own.             *)
EXTENDS SliceAllocator, FiniteSetTheorems, SequenceTheorems, TLAPS

(* The default allocator has not been freed.                                   *)
DefaultExists == default_allocator \in Slices => ref_count[default_allocator] > 0

AInv == TypeOK /\ NothingLost /\ CachedExact /\ GoesBack /\ DefaultExists

-----------------------------------------------------------------------------
(* What the operations on a heap leave of it.                                  *)

LEMMA HeapParts ==
  ASSUME NEW h \in HeapType
  PROVE  /\ h.cached \in [FreeLists -> Seq(Blocks)] /\ h.count \in [Slices -> 0..(Width - 1)]
         /\ h.owner \in [Blocks -> FreeLists \cup {Null}] /\ h.taken \in SUBSET Blocks
BY DEF HeapType

LEMMA CountTypes ==
  ASSUME NEW n \in 0..(Width - 1)
  PROVE  Increment(n) \in 0..(Width - 1) /\ Decrement(n) \in 0..(Width - 1)
BY CountAssumption DEF Increment, Decrement

LEMMA CountSteps ==
  /\ \A n \in 0..(Width - 1) : n < MaxCached => Increment(n) = n + 1
  /\ \A n \in 1..(Width - 1) : Decrement(n) = n - 1
<1>1. ASSUME NEW n \in 0..(Width - 1), n < MaxCached PROVE Increment(n) = n + 1
  BY <1>1, CountAssumption DEF Increment
<1>2. ASSUME NEW n \in 1..(Width - 1) PROVE Decrement(n) = n - 1
  <2>1. n + Width - 1 = (n - 1) + 1 * Width /\ n - 1 \in 0..(Width - 1) /\ Width \in Nat \ {0}
    BY CountAssumption
  <2>2. \A m \in 0..(Width - 1) : (m + Width) % Width = m
    BY CountAssumption
  <2> QED BY <2>1, <2>2, CountAssumption DEF Decrement
<1> QED BY <1>1, <1>2

LEMMA ReturnedParts ==
  ASSUME NEW h \in HeapType, NEW bs \in SUBSET Blocks
  PROVE  LET r == Returned(h, bs) IN
         /\ r \in HeapType /\ r.cached = h.cached /\ r.count = h.count /\ r.taken = h.taken \ bs
         /\ \A b \in Blocks : r.owner[b] = IF b \in bs THEN Null ELSE h.owner[b]
<1>1. Returned(h, bs) \in HeapType
  BY DEF Returned, HeapType
<1>2. Returned(h, bs).owner = [b \in Blocks |-> IF b \in bs THEN Null ELSE h.owner[b]]
  BY DEF Returned, HeapType
<1>3. /\ Returned(h, bs).cached = h.cached /\ Returned(h, bs).count = h.count
      /\ Returned(h, bs).taken = h.taken \ bs
  BY DEF Returned, HeapType
<1> QED BY <1>1, <1>2, <1>3

LEMMA FreshParts ==
  ASSUME NEW h \in HeapType, NEW b \in Blocks, NEW k \in FreeLists \cup {Null}
  PROVE  LET r == Fresh(h, b, k) IN
         /\ r \in HeapType /\ r.cached = h.cached /\ r.count = h.count
         /\ r.taken = h.taken \cup {b} /\ r.owner = [h.owner EXCEPT ![b] = k]
<1>1. Fresh(h, b, k) \in HeapType
  BY DEF Fresh, HeapType
<1>2. Fresh(h, b, k).owner = [h.owner EXCEPT ![b] = k]
  BY DEF Fresh, HeapType
<1>3. /\ Fresh(h, b, k).cached = h.cached /\ Fresh(h, b, k).count = h.count
      /\ Fresh(h, b, k).taken = h.taken \cup {b}
  BY DEF Fresh, HeapType
<1> QED BY <1>1, <1>2, <1>3

LEMMA PoppedParts ==
  ASSUME NEW h \in HeapType, NEW d \in Slices, NEW k \in FreeLists, h.cached[k] # <<>>
  PROVE  LET r == Popped(h, d, k) IN
         /\ r \in HeapType /\ r.owner = h.owner /\ r.taken = h.taken
         /\ r.cached[k] = Tail(h.cached[k])
         /\ \A j \in FreeLists \ {k} : r.cached[j] = h.cached[j]
         /\ r.count[d] = Decrement(h.count[d])
         /\ \A a \in Slices \ {d} : r.count[a] = h.count[a]
<1>1. /\ Popped(h, d, k).cached = [h.cached EXCEPT ![k] = Tail(@)]
      /\ Popped(h, d, k).count = [h.count EXCEPT ![d] = Decrement(@)]
  BY DEF Popped, HeapType
<1>2. Popped(h, d, k).owner = h.owner /\ Popped(h, d, k).taken = h.taken
  BY DEF Popped, HeapType
<1>3. /\ [h.cached EXCEPT ![k] = Tail(@)] \in [FreeLists -> Seq(Blocks)]
      /\ [h.count EXCEPT ![d] = Decrement(@)] \in [Slices -> 0..(Width - 1)]
  BY HeapParts, CountTypes
<1>4. Popped(h, d, k) \in HeapType
  BY <1>3 DEF Popped, HeapType
<1> QED BY <1>1, <1>2, <1>4, HeapParts

(* Block b goes in front of list k.                                            *)
Pushed(h, d, k, b) == [h EXCEPT !.cached[k] = <<b>> \o @, !.count[d] = Increment(@)]

LEMMA PushedParts ==
  ASSUME NEW h \in HeapType, NEW d \in Slices, NEW b \in Blocks, NEW k \in FreeLists
  PROVE  LET r == Pushed(h, d, k, b) IN
         /\ r \in HeapType /\ r.owner = h.owner /\ r.taken = h.taken
         /\ r.cached[k] = <<b>> \o h.cached[k]
         /\ \A j \in FreeLists \ {k} : r.cached[j] = h.cached[j]
         /\ r.count[d] = Increment(h.count[d])
         /\ \A a \in Slices \ {d} : r.count[a] = h.count[a]
<1>1. /\ Pushed(h, d, k, b).cached = [h.cached EXCEPT ![k] = <<b>> \o @]
      /\ Pushed(h, d, k, b).count = [h.count EXCEPT ![d] = Increment(@)]
  BY DEF Pushed, HeapType
<1>2. Pushed(h, d, k, b).owner = h.owner /\ Pushed(h, d, k, b).taken = h.taken
  BY DEF Pushed, HeapType
<1>3. /\ [h.cached EXCEPT ![k] = <<b>> \o @] \in [FreeLists -> Seq(Blocks)]
      /\ [h.count EXCEPT ![d] = Increment(@)] \in [Slices -> 0..(Width - 1)]
  BY HeapParts, CountTypes
<1>4. Pushed(h, d, k, b) \in HeapType
  BY <1>3 DEF Pushed, HeapType
<1> QED BY <1>1, <1>2, <1>4, HeapParts

(* The lists of allocator a are emptied and its count is set to zero.          *)
Cleared(h, a) ==
  [h EXCEPT !.count[a] = 0, !.cached = [k \in FreeLists |-> IF k[1] = a THEN <<>> ELSE @[k]]]

LEMMA ClearedParts ==
  ASSUME NEW h \in HeapType, NEW a \in Slices
  PROVE  LET r == Cleared(h, a) IN
         /\ r \in HeapType /\ r.owner = h.owner /\ r.taken = h.taken
         /\ \A k \in FreeLists : r.cached[k] = IF k[1] = a THEN <<>> ELSE h.cached[k]
         /\ r.count[a] = 0 /\ \A c \in Slices \ {a} : r.count[c] = h.count[c]
<1>1. /\ Cleared(h, a).cached = [k \in FreeLists |-> IF k[1] = a THEN <<>> ELSE h.cached[k]]
      /\ Cleared(h, a).count = [h.count EXCEPT ![a] = 0]
  BY DEF Cleared, HeapType
<1>2. Cleared(h, a).owner = h.owner /\ Cleared(h, a).taken = h.taken
  BY DEF Cleared, HeapType
<1>3. /\ [k \in FreeLists |-> IF k[1] = a THEN <<>> ELSE h.cached[k]]
           \in [FreeLists -> Seq(Blocks)]
      /\ [h.count EXCEPT ![a] = 0] \in [Slices -> 0..(Width - 1)]
  <2>1. ASSUME NEW k \in FreeLists
        PROVE  (IF k[1] = a THEN <<>> ELSE h.cached[k]) \in Seq(Blocks)
    BY <2>1, HeapParts
  <2>2. [h.count EXCEPT ![a] = 0] \in [Slices -> 0..(Width - 1)]
    BY HeapParts, CountAssumption
  <2> QED BY <2>1, <2>2
<1>4. Cleared(h, a) \in HeapType
  <2>1. [h EXCEPT !.count[a] = 0, !.cached = [k \in FreeLists |-> IF k[1] = a THEN <<>> ELSE @[k]]]
          = [h EXCEPT !.count = [h.count EXCEPT ![a] = 0],
                      !.cached = [k \in FreeLists |-> IF k[1] = a THEN <<>> ELSE h.cached[k]]]
    BY DEF HeapType
  <2> QED BY <1>3, <2>1 DEF Cleared, HeapType
<1> QED BY <1>1, <1>2, <1>4, HeapParts

-----------------------------------------------------------------------------
(* Lists as sequences.                                                         *)

Elements(q) == {q[i] : i \in 1..Len(q)}
Distinct(q) == \A i, j \in 1..Len(q) : q[i] = q[j] => i = j

LEMMA InFront ==
  ASSUME NEW S, NEW q \in Seq(S), NEW b \in S
  PROVE  /\ Elements(<<b>> \o q) = Elements(q) \cup {b}
         /\ Distinct(q) /\ b \notin Elements(q) => Distinct(<<b>> \o q)
<1> DEFINE r == <<b>> \o q
<1>1. /\ r \in Seq(S) /\ Len(r) = Len(q) + 1 /\ r[1] = b
      /\ \A i \in 2..Len(r) : r[i] = q[i - 1]
  OBVIOUS
<1>2. \A i \in 1..Len(q) : i + 1 \in 2..Len(r) /\ r[i + 1] = q[i]
  BY <1>1
<1>3. Elements(r) = Elements(q) \cup {b}
  <2>1. ASSUME NEW i \in 1..Len(r) PROVE r[i] \in Elements(q) \cup {b}
    <3>1. CASE i = 1
      BY <1>1, <3>1
    <3>2. CASE i # 1
      BY <1>1, <3>2 DEF Elements
    <3> QED BY <3>1, <3>2
  <2>2. 1 \in 1..Len(r)
    BY <1>1
  <2>3. \A i \in 1..Len(q) : i + 1 \in 1..Len(r)
    BY <1>1
  <2>4. Elements(r) \subseteq Elements(q) \cup {b}
    BY <2>1 DEF Elements
  <2>5. b \in Elements(r)
    BY <1>1, <2>2 DEF Elements
  <2>6. \A i \in 1..Len(q) : r[i + 1] \in Elements(r)
    BY <2>3 DEF Elements
  <2>7. Elements(q) \subseteq Elements(r)
    BY <1>2, <2>6 DEF Elements
  <2> QED BY <2>4, <2>5, <2>7
<1>4. ASSUME Distinct(q), b \notin Elements(q) PROVE Distinct(r)
  <2>1. ASSUME NEW i \in 1..Len(r), NEW j \in 1..Len(r), r[i] = r[j] PROVE i = j
    <3>1. CASE i = 1 /\ j # 1
      BY <1>1, <1>4, <2>1, <3>1 DEF Elements
    <3>2. CASE i # 1 /\ j = 1
      BY <1>1, <1>4, <2>1, <3>2 DEF Elements
    <3>3. CASE i # 1 /\ j # 1
      <4>1. q[i - 1] = q[j - 1] /\ i - 1 \in 1..Len(q) /\ j - 1 \in 1..Len(q)
        BY <1>1, <2>1, <3>3
      <4> QED BY <4>1, <1>4 DEF Distinct
    <3> QED BY <3>1, <3>2, <3>3
  <2> QED BY <2>1 DEF Distinct
<1> QED BY <1>3, <1>4

LEMMA WithoutHead ==
  ASSUME NEW S, NEW q \in Seq(S), q # <<>>, Distinct(q)
  PROVE  /\ Head(q) \in Elements(q) /\ Elements(Tail(q)) = Elements(q) \ {Head(q)}
         /\ Distinct(Tail(q))
<1>1. /\ Tail(q) \in Seq(S) /\ Len(Tail(q)) = Len(q) - 1 /\ Len(q) \in Nat \ {0}
      /\ Head(q) = q[1] /\ \A i \in 1..Len(Tail(q)) : Tail(q)[i] = q[i + 1]
  OBVIOUS
<1>2. \A i \in 2..Len(q) : i - 1 \in 1..Len(Tail(q)) /\ Tail(q)[i - 1] = q[i]
  BY <1>1
<1>3. Head(q) \in Elements(q)
  BY <1>1 DEF Elements
<1>4. Elements(Tail(q)) \subseteq Elements(q) \ {Head(q)}
  BY <1>1 DEF Elements, Distinct
<1>5. Elements(q) \ {Head(q)} \subseteq Elements(Tail(q))
  <2>1. ASSUME NEW i \in 1..Len(q), q[i] # Head(q) PROVE q[i] \in Elements(Tail(q))
    <3>1. i \in 2..Len(q)
      BY <1>1, <2>1
    <3> QED BY <1>2, <3>1 DEF Elements
  <2> QED BY <2>1 DEF Elements
<1>6. Distinct(Tail(q))
  <2>1. ASSUME NEW i \in 1..Len(Tail(q)), NEW j \in 1..Len(Tail(q)), Tail(q)[i] = Tail(q)[j]
        PROVE  i = j
    <3>1. i + 1 \in 1..Len(q) /\ j + 1 \in 1..Len(q) /\ q[i + 1] = q[j + 1]
      BY <1>1, <2>1
    <3> QED BY <3>1 DEF Distinct
  <2> QED BY <2>1 DEF Distinct
<1> QED BY <1>3, <1>4, <1>5, <1>6

-----------------------------------------------------------------------------
(* The invariant, list by list.                                                *)

(* The part of NothingLost about one list.                                     *)
ListTidy(k) ==
  /\ Distinct(heap.cached[k])
  /\ \A b \in Cached(k) : b \notin Live /\ heap.owner[b] = k /\ ref_count[k[1]] > 0

Accounted == heap.taken = Live \cup UNION {Cached(k) : k \in FreeLists}

LEMMA NothingLostParts ==
  NothingLost <=> Accounted /\ \A k \in FreeLists : ListTidy(k)
<1>1. ASSUME NEW k \in FreeLists
      PROVE  ListTidy(k) <=>
               \A i \in 1..Len(heap.cached[k]) :
                 LET b == heap.cached[k][i] IN
                 /\ b \notin Live /\ heap.owner[b] = k /\ ref_count[k[1]] > 0
                 /\ \A j \in 1..Len(heap.cached[k]) : heap.cached[k][j] = b => i = j
  <2> DEFINE q == heap.cached[k]
             R(b) == b \notin Live /\ heap.owner[b] = k /\ ref_count[k[1]] > 0
  <2>1. (\A b \in Cached(k) : R(b)) <=> (\A i \in 1..Len(q) : R(q[i]))
    <3>1. Cached(k) = {q[i] : i \in 1..Len(q)}
      BY DEF Cached
    <3> QED BY ONLY <3>1
  <2>2. Distinct(q) <=> \A i \in 1..Len(q) : \A j \in 1..Len(q) : q[j] = q[i] => i = j
    BY DEF Distinct
  <2> QED BY <2>1, <2>2 DEF ListTidy
<1> QED BY <1>1 DEF NothingLost, Accounted

LEMMA CachedFacts ==
  ASSUME TypeOK
  PROVE  /\ \A k \in FreeLists : Cached(k) = Elements(heap.cached[k]) /\ Cached(k) \subseteq Blocks
         /\ \A a \in Slices : /\ CachedOf(a) \subseteq Blocks /\ IsFiniteSet(CachedOf(a))
                              /\ Cardinality(CachedOf(a)) \in Nat
                              /\ \A s \in Sizes : Cached(<<a, s>>) \subseteq CachedOf(a)
<1>1. ASSUME NEW k \in FreeLists
      PROVE  Cached(k) = Elements(heap.cached[k]) /\ Cached(k) \subseteq Blocks
  <2>1. heap.cached[k] \in Seq(Blocks)
    BY HeapParts DEF TypeOK
  <2> QED BY <2>1 DEF Cached, Elements
<1>2. ASSUME NEW a \in Slices
      PROVE  /\ CachedOf(a) \subseteq Blocks
             /\ \A s \in Sizes : Cached(<<a, s>>) \subseteq CachedOf(a)
  BY <1>1 DEF CachedOf, FreeLists
<1> QED BY <1>1, <1>2, BlocksAssumption, FS_Subset, FS_CardinalityType

-----------------------------------------------------------------------------
(* Each call keeps the invariant.                                              *)

LEMMA NothingLostNext ==
  NothingLost' <=> Accounted' /\ \A k \in FreeLists : ListTidy(k)'
<1>1. NothingLost' <=> (Accounted /\ \A k \in FreeLists : ListTidy(k))'
  BY NothingLostParts, PTL
<1> QED BY <1>1

(* What a step does to the blocks in lists, when it names the new lists.       *)
LEMMA ElementsNext ==
  ASSUME NEW k \in FreeLists PROVE Cached(k)' = Elements(heap'.cached[k])
BY DEF Cached, Elements

LEMMA DefaultFacts ==
  ASSUME AInv, default_allocator' = Default, UNCHANGED ref_count
  PROVE  /\ Default \in Slices \cup {Plain} /\ (Default = Plain <=> Default \notin Slices)
         /\ (Default \in Slices => ref_count[Default] > 0 /\ Default = default_allocator)
         /\ DefaultExists' /\ default_allocator' \in Slices \cup {Plain, Null}
BY NamesAssumption DEF AInv, TypeOK, Default, DefaultExists

LEMMA StaysTidy ==
  ASSUME NEW k \in FreeLists, ListTidy(k), heap'.cached[k] = heap.cached[k],
         \A c \in Cached(k) :
           c \notin Live' /\ heap'.owner[c] = heap.owner[c] /\ ref_count'[k[1]] > 0
  PROVE  ListTidy(k)' /\ Cached(k)' = Cached(k)
<1>1. Cached(k)' = Cached(k)
  BY DEF Cached
<1>2. Distinct(heap.cached[k])'
  BY DEF ListTidy, Distinct
<1>3. ASSUME NEW c \in Cached(k)'
      PROVE  c \notin Live' /\ heap'.owner[c] = k /\ ref_count'[k[1]] > 0
  BY <1>1, <1>3 DEF ListTidy
<1> QED BY <1>1, <1>2, <1>3 DEF ListTidy

-----------------------------------------------------------------------------
(* free, said of any heap h with blocks lv in use, as the lists free several   *)
(* blocks in one step.                                                         *)

Held(lv) == {b \in Blocks : lv[b] # NotLive}
InList(h, k) == Elements(h.cached[k])
InLists(h, a) == UNION {InList(h, <<a, s>>) : s \in Sizes}

Tidy(h, lv, k) ==
  /\ Distinct(h.cached[k])
  /\ \A b \in InList(h, k) : b \notin Held(lv) /\ h.owner[b] = k /\ ref_count[k[1]] > 0

HeapOK(h, lv, mx) ==
  /\ h \in HeapType /\ lv \in [Blocks -> AllSizes \cup {NotLive}] /\ mx \in BOOLEAN
  /\ h.taken = Held(lv) \cup UNION {InList(h, k) : k \in FreeLists}
  /\ \A k \in FreeLists : Tidy(h, lv, k)
  /\ ~mx => \A a \in Slices : ref_count[a] > 0 =>
              h.count[a] = Cardinality(InLists(h, a)) /\ h.count[a] <= MaxCached
  /\ \A b \in Held(lv) : h.owner[b] # Null =>
       h.owner[b][2] = lv[b] /\ ref_count[h.owner[b][1]] > 0

RefsOK ==
  /\ default_allocator \in Slices \cup {Plain, Null} /\ ref_count \in [Slices -> Nat]
  /\ DefaultExists

LEMMA HeapOKFacts == AInv <=> HeapOK(heap, live, mixed) /\ RefsOK
<1>1. Held(live) = Live
  BY DEF Held, Live
<1>2. \A k \in FreeLists : InList(heap, k) = Cached(k) /\ (Tidy(heap, live, k) <=> ListTidy(k))
  BY <1>1 DEF InList, Cached, Elements, Tidy, ListTidy
<1>3. \A a \in Slices : InLists(heap, a) = CachedOf(a)
  BY <1>2 DEF InLists, CachedOf, FreeLists
<1>4. UNION {InList(heap, k) : k \in FreeLists} = UNION {Cached(k) : k \in FreeLists}
  BY <1>2
<1>5. NothingLost <=> /\ heap.taken = Held(live) \cup UNION {InList(heap, k) : k \in FreeLists}
                      /\ \A k \in FreeLists : Tidy(heap, live, k)
  BY <1>1, <1>2, <1>4, NothingLostParts DEF Accounted
<1>6. CachedExact <=> (~mixed => \A a \in Slices : ref_count[a] > 0 =>
                         heap.count[a] = Cardinality(InLists(heap, a)) /\ heap.count[a] <= MaxCached)
  BY <1>3 DEF CachedExact
<1>7. GoesBack <=> \A b \in Held(live) : heap.owner[b] # Null =>
                     heap.owner[b][2] = live[b] /\ ref_count[heap.owner[b][1]] > 0
  BY <1>1 DEF GoesBack
<1> QED BY <1>5, <1>6, <1>7 DEF AInv, TypeOK, HeapOK, RefsOK

LEMMA HeapOKNext == AInv' <=> HeapOK(heap, live, mixed)' /\ RefsOK'
<1>1. AInv' <=> (HeapOK(heap, live, mixed) /\ RefsOK)'
  BY HeapOKFacts, PTL
<1> QED BY <1>1

LEMMA HeldLists ==
  ASSUME NEW h, NEW lv, NEW mx, HeapOK(h, lv, mx)
  PROVE  /\ \A k \in FreeLists : InList(h, k) \subseteq Blocks \ Held(lv)
         /\ \A a \in Slices : InLists(h, a) \subseteq Blocks \ Held(lv) /\ IsFiniteSet(InLists(h, a))
<1>1. ASSUME NEW k \in FreeLists PROVE InList(h, k) \subseteq Blocks \ Held(lv)
  <2>1. h.cached[k] \in Seq(Blocks)
    BY HeapParts DEF HeapOK
  <2> QED BY <2>1 DEF HeapOK, Tidy, InList, Elements
<1>2. ASSUME NEW a \in Slices PROVE InLists(h, a) \subseteq Blocks \ Held(lv)
  BY <1>1 DEF InLists, FreeLists
<1>3. ASSUME NEW a \in Slices PROVE IsFiniteSet(InLists(h, a))
  BY <1>2, BlocksAssumption, FS_Subset
<1> QED BY <1>1, <1>2, <1>3

(* Whether the block b of h was not made by the slice allocator d.             *)
ForeignTo(h, d, b) == \E a \in Slices, s \in Sizes : h.owner[b] = <<a, s>> /\ a # d

(* hev_memory_allocator_free when the block goes back to malloc.               *)
LEMMA FreedToMalloc ==
  ASSUME NEW h, NEW lv, NEW mx, HeapOK(h, lv, mx), NEW b \in Held(lv), NEW my \in BOOLEAN,
         mx => my
  PROVE  HeapOK(Returned(h, {b}), [lv EXCEPT ![b] = NotLive], my)
<1> DEFINE g == Returned(h, {b})
           lw == [lv EXCEPT ![b] = NotLive]
<1>1. b \in Blocks /\ h \in HeapType /\ lv \in [Blocks -> AllSizes \cup {NotLive}]
  BY DEF HeapOK, Held
<1>2. /\ g \in HeapType /\ g.cached = h.cached /\ g.count = h.count /\ g.taken = h.taken \ {b}
      /\ \A c \in Blocks : g.owner[c] = IF c = b THEN Null ELSE h.owner[c]
  BY <1>1, ReturnedParts
<1>3. /\ lw \in [Blocks -> AllSizes \cup {NotLive}] /\ Held(lw) = Held(lv) \ {b}
      /\ \A c \in Held(lw) : c # b /\ lw[c] = lv[c] /\ c \in Blocks
  BY <1>1 DEF Held
<1> HIDE DEF g, lw
<1>4. /\ \A k \in FreeLists : InList(g, k) = InList(h, k) /\ InList(h, k) \subseteq Blocks \ Held(lv)
      /\ \A a \in Slices : InLists(g, a) = InLists(h, a)
  BY <1>2, HeldLists DEF InList, InLists
<1>5. ASSUME NEW k \in FreeLists PROVE Tidy(g, lw, k)
  <2>1. Tidy(h, lv, k)
    BY DEF HeapOK
  <2> QED BY <1>2, <1>3, <1>4, <2>1 DEF Tidy
<1>6. g.taken = Held(lw) \cup UNION {InList(g, k) : k \in FreeLists}
  <2>1. UNION {InList(g, k) : k \in FreeLists} = UNION {InList(h, k) : k \in FreeLists}
    BY <1>4
  <2>2. b \notin UNION {InList(h, k) : k \in FreeLists}
    BY <1>4
  <2>3. h.taken = Held(lv) \cup UNION {InList(h, k) : k \in FreeLists}
    BY DEF HeapOK
  <2> QED BY <1>2, <1>3, <2>1, <2>2, <2>3
<1>7. ~my => \A a \in Slices : ref_count[a] > 0 =>
               g.count[a] = Cardinality(InLists(g, a)) /\ g.count[a] <= MaxCached
  BY <1>2, <1>4 DEF HeapOK
<1>8. \A c \in Held(lw) : g.owner[c] # Null =>
        g.owner[c][2] = lw[c] /\ ref_count[g.owner[c][1]] > 0
  BY <1>2, <1>3 DEF HeapOK
<1> QED BY <1>2, <1>3, <1>5, <1>6, <1>7, <1>8 DEF HeapOK, g, lw

(* hev_memory_allocator_free when the block goes into the list of its header.  *)
LEMMA FreedToList ==
  ASSUME NEW h, NEW lv, NEW mx, HeapOK(h, lv, mx), NEW b \in Held(lv), NEW my \in BOOLEAN,
         NEW d \in Slices, NEW o \in FreeLists, h.owner[b] = o, o # Null, h.count[d] < MaxCached,
         mx \/ ForeignTo(h, d, b) => my
  PROVE  HeapOK(Pushed(h, d, o, b), [lv EXCEPT ![b] = NotLive], my)
<1> DEFINE g == Pushed(h, d, o, b)
           lw == [lv EXCEPT ![b] = NotLive]
<1>1. b \in Blocks /\ h \in HeapType /\ lv \in [Blocks -> AllSizes \cup {NotLive}]
  BY DEF HeapOK, Held
<1>2. /\ g \in HeapType /\ g.owner = h.owner /\ g.taken = h.taken
      /\ g.cached[o] = <<b>> \o h.cached[o]
      /\ \A k \in FreeLists \ {o} : g.cached[k] = h.cached[k]
      /\ g.count[d] = Increment(h.count[d])
      /\ \A a \in Slices \ {d} : g.count[a] = h.count[a]
  BY <1>1, PushedParts
<1>3. /\ lw \in [Blocks -> AllSizes \cup {NotLive}] /\ Held(lw) = Held(lv) \ {b}
      /\ \A c \in Held(lw) : c # b /\ lw[c] = lv[c] /\ c \in Blocks
  BY <1>1 DEF Held
<1> HIDE DEF g, lw
<1>4. ref_count[o[1]] > 0
  BY DEF HeapOK
<1>5. ASSUME NEW k \in FreeLists PROVE Tidy(h, lv, k) /\ InList(h, k) \subseteq Blocks \ Held(lv)
  BY HeldLists DEF HeapOK
<1>6. ASSUME NEW k \in FreeLists, k # o PROVE Tidy(g, lw, k) /\ InList(g, k) = InList(h, k)
  <2>1. g.cached[k] = h.cached[k]
    BY <1>2, <1>6
  <2> QED BY <1>2, <1>3, <1>5, <2>1 DEF Tidy, InList
<1>7. Tidy(g, lw, o) /\ InList(g, o) = InList(h, o) \cup {b}
  <2>1. h.cached[o] \in Seq(Blocks)
    BY <1>1, HeapParts
  <2>2. Distinct(h.cached[o]) /\ b \notin Elements(h.cached[o])
    BY <1>5 DEF Tidy, InList
  <2>3. InList(g, o) = InList(h, o) \cup {b} /\ Distinct(g.cached[o])
    BY <1>1, <1>2, <2>1, <2>2, InFront DEF InList
  <2>4. ASSUME NEW c \in InList(h, o) \cup {b}
        PROVE  c \notin Held(lw) /\ g.owner[c] = o /\ ref_count[o[1]] > 0
    BY <1>2, <1>3, <1>4, <1>5 DEF Tidy
  <2> QED BY <2>3, <2>4 DEF Tidy
<1>8. g.taken = Held(lw) \cup UNION {InList(g, k) : k \in FreeLists}
  <2>1. UNION {InList(g, k) : k \in FreeLists} = (UNION {InList(h, k) : k \in FreeLists}) \cup {b}
    BY <1>6, <1>7
  <2>2. h.taken = Held(lv) \cup UNION {InList(h, k) : k \in FreeLists}
    BY DEF HeapOK
  <2> QED BY <1>2, <1>3, <2>1, <2>2
<1>9. ASSUME ~my, NEW a \in Slices, ref_count[a] > 0
      PROVE  g.count[a] = Cardinality(InLists(g, a)) /\ g.count[a] <= MaxCached
  <2>1. o[2] \in Sizes /\ o = <<d, o[2]>>
    <3>1. o[1] \in Slices /\ o[2] \in Sizes /\ o = <<o[1], o[2]>>
      BY DEF FreeLists
    <3> QED BY <1>9, <3>1 DEF ForeignTo
  <2>2. h.count[a] = Cardinality(InLists(h, a)) /\ h.count[a] <= MaxCached
    BY <1>9 DEF HeapOK
  <2>3. CASE a = d
    <3>1. InLists(g, d) = InLists(h, d) \cup {b}
      <4>1. \A s \in Sizes : <<d, s>> \in FreeLists
        BY DEF FreeLists
      <4> QED BY <1>6, <1>7, <2>1, <4>1 DEF InLists
    <3>2. b \notin InLists(h, d) /\ IsFiniteSet(InLists(h, d))
      BY HeldLists
    <3>3. Cardinality(InLists(g, d)) = Cardinality(InLists(h, d)) + 1
      BY <3>1, <3>2, FS_AddElement
    <3>4. h.count[d] \in 0..(Width - 1)
      BY <1>1, HeapParts
    <3>5. g.count[d] = h.count[d] + 1
      BY <1>2, <3>4, CountSteps
    <3> QED BY <2>2, <2>3, <3>3, <3>4, <3>5, CountAssumption
  <2>4. CASE a # d
    <3>1. \A s \in Sizes : InList(g, <<a, s>>) = InList(h, <<a, s>>)
      BY <1>6, <2>1, <2>4 DEF FreeLists
    <3>2. InLists(g, a) = InLists(h, a)
      BY <3>1 DEF InLists
    <3> QED BY <1>2, <2>2, <2>4, <3>2
  <2> QED BY <2>3, <2>4
<1>10. \A c \in Held(lw) : g.owner[c] # Null =>
         g.owner[c][2] = lw[c] /\ ref_count[g.owner[c][1]] > 0
  BY <1>2, <1>3 DEF HeapOK
<1> QED BY <1>2, <1>3, <1>6, <1>7, <1>8, <1>9, <1>10 DEF HeapOK, g, lw

(* hev_memory_allocator_free of the allocator d.                               *)
LEMMA FreedFacts ==
  ASSUME NEW h, NEW lv, NEW mx, HeapOK(h, lv, mx), NEW b \in Held(lv), NEW my \in BOOLEAN,
         NEW d \in Slices \cup {Plain}, mx \/ (d # Plain /\ ForeignTo(h, d, b)) => my
  PROVE  /\ HeapOK(Freed(h, d, b), [lv EXCEPT ![b] = NotLive], my)
         /\ \A c \in Blocks : c # b => Freed(h, d, b).owner[c] = h.owner[c]
<1>1. b \in Blocks /\ h \in HeapType
  BY DEF HeapOK, Held
<1>2. CASE d = Plain \/ h.owner[b] = Null \/ h.count[d] >= MaxCached
  <2>1. Freed(h, d, b) = Returned(h, {b})
    BY <1>2 DEF Freed
  <2>2. \A c \in Blocks : c # b => Returned(h, {b}).owner[c] = h.owner[c]
    BY <1>1, ReturnedParts
  <2> QED BY <2>1, <2>2, FreedToMalloc
<1>3. CASE ~(d = Plain \/ h.owner[b] = Null \/ h.count[d] >= MaxCached)
  <2>1. d \in Slices /\ h.owner[b] \in FreeLists /\ h.count[d] < MaxCached
    BY <1>1, <1>3, HeapParts, CountAssumption
  <2>2. Freed(h, d, b) = Pushed(h, d, h.owner[b], b)
    BY <1>3 DEF Freed, Pushed
  <2>3. Pushed(h, d, h.owner[b], b).owner = h.owner
    BY <1>1, <2>1, PushedParts
  <2> QED BY <1>3, <2>1, <2>2, <2>3, FreedToList
<1> QED BY <1>2, <1>3

-----------------------------------------------------------------------------
(* hev_memory_allocator_alloc that takes a block from the list of its size.    *)
LEMMA AllocCached ==
  ASSUME AInv, NEW b \in Blocks, NEW s \in Sizes, Alloc(s, b), NEW d \in Slices, Default = d,
         NEW o \in FreeLists, o = <<d, s>>, heap.cached[o] # <<>>, b = Head(heap.cached[o]),
         heap' = Popped(heap, d, o)
  PROVE  AInv'
<1>1. heap \in HeapType /\ heap.cached[o] \in Seq(Blocks)
  BY HeapParts DEF AInv, TypeOK
<1>2. /\ heap' \in HeapType /\ heap'.owner = heap.owner /\ heap'.taken = heap.taken
      /\ heap'.cached[o] = Tail(heap.cached[o])
      /\ \A k \in FreeLists \ {o} : heap'.cached[k] = heap.cached[k]
      /\ heap'.count[d] = Decrement(heap.count[d])
      /\ \A a \in Slices \ {d} : heap'.count[a] = heap.count[a]
  BY <1>1, PoppedParts
<1>3. ASSUME NEW k \in FreeLists
      PROVE  ListTidy(k) /\ Cached(k) \subseteq Blocks /\ Cached(k) = Elements(heap.cached[k])
  BY NothingLostParts, CachedFacts DEF AInv
<1>4. /\ b \in Cached(o) /\ heap.owner[b] = o /\ b \notin Live /\ ref_count[d] > 0
      /\ Elements(heap'.cached[o]) = Cached(o) \ {b} /\ Distinct(heap'.cached[o])
  <2>1. Distinct(heap.cached[o]) /\ Cached(o) = Elements(heap.cached[o])
    BY <1>3 DEF ListTidy
  <2>2. b \in Cached(o) /\ Elements(heap'.cached[o]) = Cached(o) \ {b} /\ Distinct(heap'.cached[o])
    BY <1>1, <1>2, <2>1, WithoutHead
  <2> QED BY <1>3, <2>2 DEF ListTidy
<1>5. /\ Live' = Live \cup {b} /\ live'[b] = s /\ \A c \in Live : live'[c] = live[c]
      /\ live' \in [Blocks -> AllSizes \cup {NotLive}]
  <2>1. s # NotLive /\ s \in AllSizes
    BY SizesAssumption DEF NotLive, AllSizes
  <2> QED BY <1>4, <2>1 DEF AInv, TypeOK, Alloc, Live
<1>6. ref_count' = ref_count /\ mixed' = mixed
  BY DEF Alloc
<1>7. ASSUME NEW k \in FreeLists, k # o PROVE ListTidy(k)' /\ Cached(k)' = Cached(k) /\ b \notin Cached(k)
  <2>1. b \notin Cached(k)
    BY <1>3, <1>4, <1>7 DEF ListTidy
  <2>2. ASSUME NEW c \in Cached(k)
        PROVE  c \notin Live' /\ heap'.owner[c] = heap.owner[c] /\ ref_count'[k[1]] > 0
    BY <1>2, <1>3, <1>5, <1>6, <2>1 DEF ListTidy
  <2> QED BY <1>2, <1>3, <1>7, <2>1, <2>2, StaysTidy
<1>8. ListTidy(o)' /\ Cached(o)' = Cached(o) \ {b}
  <2>1. Cached(o)' = Cached(o) \ {b}
    BY <1>4 DEF Cached, Elements
  <2>2. ASSUME NEW c \in Cached(o) \ {b}
        PROVE  c \notin Live' /\ heap'.owner[c] = o /\ ref_count'[o[1]] > 0
    BY <1>2, <1>3, <1>5, <1>6 DEF ListTidy
  <2> QED BY <1>4, <2>1, <2>2 DEF ListTidy, Distinct
<1>9. TypeOK' /\ DefaultExists'
  BY <1>2, <1>5, <1>6, DefaultFacts DEF AInv, TypeOK, Alloc
<1>10. Accounted'
  <2>1. UNION {Cached(k)' : k \in FreeLists} = (UNION {Cached(k) : k \in FreeLists}) \ {b}
    BY <1>7, <1>8
  <2>2. b \in UNION {Cached(k) : k \in FreeLists}
    BY <1>4
  <2> QED BY <1>2, <1>5, <2>1, <2>2, NothingLostParts DEF AInv, Accounted
<1>11. CachedExact'
  <2>1. ASSUME ~mixed', NEW a \in Slices, ref_count'[a] > 0
        PROVE  heap'.count[a] = Cardinality(CachedOf(a)') /\ heap'.count[a] <= MaxCached
    <3>1. heap.count[a] = Cardinality(CachedOf(a)) /\ heap.count[a] <= MaxCached
      BY <1>6, <2>1 DEF AInv, CachedExact
    <3>2. CASE a = d
      <4>1. CachedOf(d)' = CachedOf(d) \ {b}
        <5>1. ASSUME NEW t \in Sizes PROVE Cached(<<d, t>>)' = Cached(<<d, t>>) \ {b}
          BY <1>7, <1>8 DEF FreeLists
        <5>2. ASSUME NEW c \in CachedOf(d)' PROVE c \in CachedOf(d) \ {b}
          <6>1. PICK t \in Sizes : c \in Cached(<<d, t>>)'
            BY <5>2 DEF CachedOf
          <6>2. c \in Cached(<<d, t>>) /\ c # b
            BY <5>1, <6>1
          <6> QED BY <6>2 DEF CachedOf
        <5>3. CachedOf(d) \ {b} \subseteq CachedOf(d)'
          BY <5>1 DEF CachedOf
        <5> QED BY <5>2, <5>3
      <4>2. b \in CachedOf(d)
        BY <1>4 DEF CachedOf, FreeLists
      <4>3. Cardinality(CachedOf(d)') = Cardinality(CachedOf(d)) - 1
        <5>1. IsFiniteSet(CachedOf(d))
          BY CachedFacts DEF AInv
        <5>2. Cardinality(CachedOf(d) \ {b}) = Cardinality(CachedOf(d)) - 1
          BY <4>2, <5>1, FS_RemoveElement
        <5> QED BY <4>1, <5>2
      <4>4. Cardinality(CachedOf(d)') \in Nat
        BY <4>1, CachedFacts, FS_RemoveElement, FS_CardinalityType DEF AInv
      <4>5. heap'.count[d] = Decrement(heap.count[d]) /\ heap.count[d] \in 0..(Width - 1)
        BY <1>1, <1>2, HeapParts
      <4>6. heap.count[d] \in 1..(Width - 1)
        BY <3>1, <3>2, <4>3, <4>4, <4>5
      <4>7. heap'.count[d] = heap.count[d] - 1
        BY <4>5, <4>6, CountSteps
      <4> QED BY <3>1, <3>2, <4>3, <4>5, <4>7, CountAssumption
    <3>3. CASE a # d
      <4>1. CachedOf(a)' = CachedOf(a)
        BY <1>7, <3>3 DEF CachedOf, FreeLists
      <4>2. heap'.count[a] = heap.count[a]
        BY <1>2, <3>3
      <4> QED BY <3>1, <4>1, <4>2
    <3> QED BY <3>2, <3>3
  <2> QED BY <2>1 DEF CachedExact
<1>12. GoesBack'
  <2>1. ASSUME NEW c \in Live', heap'.owner[c] # Null
        PROVE  heap'.owner[c][2] = live'[c] /\ ref_count'[heap'.owner[c][1]] > 0
    BY <1>2, <1>4, <1>5, <1>6, <2>1 DEF AInv, GoesBack
  <2> QED BY <2>1 DEF GoesBack
<1> QED BY <1>7, <1>8, <1>9, <1>10, <1>11, <1>12, NothingLostNext DEF AInv

(* hev_memory_allocator_alloc that asks malloc for a block.                    *)
LEMMA AllocFresh ==
  ASSUME AInv, NEW b \in Blocks \ heap.taken, NEW s \in AllSizes, Alloc(s, b),
         NEW o \in FreeLists \cup {Null}, heap' = Fresh(heap, b, o),
         o # Null => o = <<Default, s>> /\ Default \in Slices
  PROVE  AInv'
<1>1. heap \in HeapType /\ b \in Blocks
  BY DEF AInv, TypeOK
<1>2. /\ heap' \in HeapType /\ heap'.cached = heap.cached /\ heap'.count = heap.count
      /\ heap'.taken = heap.taken \cup {b} /\ heap'.owner = [heap.owner EXCEPT ![b] = o]
  BY <1>1, FreshParts
<1>3. \A c \in Blocks : heap'.owner[c] = IF c = b THEN o ELSE heap.owner[c]
  BY <1>1, <1>2, HeapParts
<1>4. b \notin Live /\ \A k \in FreeLists : b \notin Cached(k)
  BY NothingLostParts DEF AInv, Accounted
<1>5. /\ Live' = Live \cup {b} /\ live'[b] = s /\ \A c \in Live : c # b /\ live'[c] = live[c]
      /\ live' \in [Blocks -> AllSizes \cup {NotLive}]
  <2>1. s # NotLive
    BY SizesAssumption DEF NotLive, AllSizes
  <2> QED BY <1>1, <1>4, <2>1 DEF AInv, TypeOK, Alloc, Live
<1>6. ref_count' = ref_count /\ mixed' = mixed
  BY DEF Alloc
<1>7. ASSUME NEW k \in FreeLists PROVE ListTidy(k)' /\ Cached(k)' = Cached(k)
  <2>1. ListTidy(k) /\ Cached(k) \subseteq Blocks
    BY NothingLostParts, CachedFacts DEF AInv
  <2>2. ASSUME NEW c \in Cached(k)
        PROVE  c \notin Live' /\ heap'.owner[c] = heap.owner[c] /\ ref_count'[k[1]] > 0
    BY <1>3, <1>4, <1>5, <1>6, <2>1 DEF ListTidy
  <2> QED BY <1>2, <2>1, <2>2, StaysTidy
<1>8. TypeOK' /\ DefaultExists'
  BY <1>2, <1>5, <1>6, DefaultFacts DEF AInv, TypeOK, Alloc
<1>9. Accounted'
  <2>1. UNION {Cached(k)' : k \in FreeLists} = UNION {Cached(k) : k \in FreeLists}
    BY <1>7
  <2> QED BY <1>2, <1>5, <2>1, NothingLostParts DEF AInv, Accounted
<1>10. CachedExact'
  <2>1. \A a \in Slices : CachedOf(a)' = CachedOf(a)
    BY <1>7 DEF CachedOf, FreeLists
  <2> QED BY <1>2, <1>6, <2>1 DEF AInv, CachedExact
<1>11. GoesBack'
  <2>1. ASSUME NEW c \in Live', heap'.owner[c] # Null
        PROVE  heap'.owner[c][2] = live'[c] /\ ref_count'[heap'.owner[c][1]] > 0
    <3>1. CASE c = b
      BY <1>1, <1>3, <1>5, <1>6, <2>1, <3>1, DefaultFacts DEF Alloc
    <3>2. CASE c # b
      BY <1>3, <1>5, <1>6, <2>1, <3>2 DEF AInv, GoesBack, Live
    <3> QED BY <3>1, <3>2
  <2> QED BY <2>1 DEF GoesBack
<1> QED BY <1>7, <1>8, <1>9, <1>10, <1>11, NothingLostNext DEF AInv

(* hev_memory_allocator_slice_new, hev_memory_allocator_ref and                *)
(* hev_memory_allocator_set_default.                                           *)
LEMMA SliceNewStep ==
  ASSUME AInv, NEW a \in Slices, SliceNew(a)
  PROVE  AInv'
<1>1. heap \in HeapType /\ heap' = Cleared(heap, a)
  BY DEF AInv, TypeOK, SliceNew, Cleared
<1>2. /\ heap' \in HeapType /\ heap'.owner = heap.owner /\ heap'.taken = heap.taken
      /\ \A k \in FreeLists : heap'.cached[k] = IF k[1] = a THEN <<>> ELSE heap.cached[k]
      /\ heap'.count[a] = 0 /\ \A c \in Slices \ {a} : heap'.count[c] = heap.count[c]
  BY <1>1, ClearedParts
<1>3. /\ Live' = Live /\ live' = live /\ mixed' = mixed /\ default_allocator' = default_allocator
      /\ ref_count[a] = 0 /\ ref_count' = [ref_count EXCEPT ![a] = 1]
  BY DEF SliceNew, Live
<1>4. ref_count' \in [Slices -> Nat] /\ \A c \in Slices : ref_count[c] > 0 => ref_count'[c] > 0 /\ c # a
  BY <1>3 DEF AInv, TypeOK
<1>5. ASSUME NEW k \in FreeLists
      PROVE  ListTidy(k)' /\ Cached(k)' = Cached(k) /\ (k[1] = a => Cached(k) = {})
  <2>1. ListTidy(k) /\ Cached(k) \subseteq Blocks /\ k[1] \in Slices
    BY NothingLostParts, CachedFacts DEF AInv, FreeLists
  <2>2. k[1] = a => Cached(k) = {}
    BY <1>3, <2>1 DEF ListTidy
  <2>3. heap.cached[k] \in Seq(Blocks)
    BY <1>1, HeapParts
  <2>4. k[1] = a => heap.cached[k] = <<>>
    <3>1. heap.cached[k] # <<>> => 1 \in 1..Len(heap.cached[k])
      BY <2>3
    <3>2. heap.cached[k] # <<>> => heap.cached[k][1] \in Cached(k)
      BY <3>1 DEF Cached
    <3> QED BY <2>2, <3>2
  <2>5. heap'.cached[k] = heap.cached[k]
    BY <1>2, <2>4
  <2>6. ASSUME NEW c \in Cached(k)
        PROVE  c \notin Live' /\ heap'.owner[c] = heap.owner[c] /\ ref_count'[k[1]] > 0
    BY <1>2, <1>3, <1>4, <2>1 DEF ListTidy
  <2> QED BY <2>1, <2>2, <2>5, <2>6, StaysTidy
<1>6. TypeOK' /\ DefaultExists'
  BY <1>2, <1>3, <1>4 DEF AInv, TypeOK, DefaultExists
<1>7. Accounted'
  <2>1. UNION {Cached(k)' : k \in FreeLists} = UNION {Cached(k) : k \in FreeLists}
    BY <1>5
  <2> QED BY <1>2, <1>3, <2>1, NothingLostParts DEF AInv, Accounted
<1>8. CachedExact'
  <2>1. \A c \in Slices : CachedOf(c)' = CachedOf(c)
    BY <1>5 DEF CachedOf, FreeLists
  <2>2. CachedOf(a) = {}
    <3>1. ASSUME NEW s \in Sizes PROVE Cached(<<a, s>>) = {}
      BY <1>5 DEF FreeLists
    <3> QED BY <3>1 DEF CachedOf
  <2>3. ASSUME ~mixed', NEW c \in Slices, ref_count'[c] > 0
        PROVE  heap'.count[c] = Cardinality(CachedOf(c)') /\ heap'.count[c] <= MaxCached
    <3>1. CASE c = a
      <4>1. heap'.count[a] = 0
        BY <1>1, <1>2, HeapParts
      <4>2. Cardinality(CachedOf(a)') = 0
        BY <2>1, <2>2, FS_EmptySet
      <4> QED BY <3>1, <4>1, <4>2, CountAssumption
    <3>2. CASE c # a
      <4>1. heap'.count[c] = heap.count[c] /\ ref_count[c] > 0 /\ ~mixed
        BY <1>1, <1>2, <1>3, <2>3, <3>2, HeapParts DEF AInv, TypeOK
      <4> QED BY <2>1, <4>1 DEF AInv, CachedExact
    <3> QED BY <3>1, <3>2
  <2> QED BY <2>3 DEF CachedExact
<1>9. GoesBack'
  <2>1. ASSUME NEW b \in Live, heap.owner[b] # Null
        PROVE  heap.owner[b][2] = live[b] /\ ref_count'[heap.owner[b][1]] > 0
    <3>1. heap.owner[b] \in FreeLists
      BY <1>1, <2>1, HeapParts DEF Live
    <3>2. heap.owner[b][1] \in Slices
      BY <3>1 DEF FreeLists
    <3> QED BY <1>4, <2>1, <3>2 DEF AInv, GoesBack
  <2> QED BY <1>2, <1>3, <2>1 DEF GoesBack
<1> QED BY <1>5, <1>6, <1>7, <1>8, <1>9, NothingLostNext DEF AInv

LEMMA RefStep ==
  ASSUME AInv, NEW a \in Slices, UNCHANGED <<default_allocator, heap, live, mixed>>,
         ref_count[a] > 0, NEW n \in Nat \ {0}, ref_count' = [ref_count EXCEPT ![a] = n]
  PROVE  AInv'
<1>1. ref_count' \in [Slices -> Nat] /\ \A c \in Slices : ref_count'[c] > 0 <=> ref_count[c] > 0
  BY DEF AInv, TypeOK
<1>2. Live' = Live /\ \A k \in FreeLists : Cached(k)' = Cached(k)
  BY DEF Live, Cached
<1>3. \A k \in FreeLists : ListTidy(k)'
  <2>1. ASSUME NEW k \in FreeLists PROVE ListTidy(k)'
    <3>1. ListTidy(k) /\ k[1] \in Slices
      BY NothingLostParts DEF AInv, FreeLists
    <3> QED BY <1>1, <1>2, <3>1, StaysTidy DEF ListTidy
  <2> QED BY <2>1
<1>4. Accounted'
  <2>1. UNION {Cached(k)' : k \in FreeLists} = UNION {Cached(k) : k \in FreeLists}
    BY <1>2
  <2> QED BY <1>2, <2>1, NothingLostParts DEF AInv, Accounted
<1>5. TypeOK' /\ DefaultExists'
  BY <1>1 DEF AInv, TypeOK, DefaultExists
<1>6. CachedExact'
  <2>1. \A c \in Slices : CachedOf(c)' = CachedOf(c)
    BY <1>2 DEF CachedOf, FreeLists
  <2> QED BY <1>1, <2>1 DEF AInv, CachedExact
<1>7. GoesBack'
  <2>1. ASSUME NEW b \in Live, heap.owner[b] # Null
        PROVE  heap.owner[b][2] = live[b] /\ ref_count'[heap.owner[b][1]] > 0
    <3>1. heap.owner[b] \in FreeLists
      BY <2>1, HeapParts DEF AInv, TypeOK, Live
    <3>2. heap.owner[b][1] \in Slices
      BY <3>1 DEF FreeLists
    <3> QED BY <1>1, <2>1, <3>2 DEF AInv, GoesBack
  <2> QED BY <1>2, <2>1 DEF GoesBack
<1> QED BY <1>3, <1>4, <1>5, <1>6, <1>7, NothingLostNext DEF AInv

LEMMA DefaultStep ==
  ASSUME AInv, NEW d \in Slices \cup {Plain, Null}, SetDefault(d)
  PROVE  AInv'
<1>1. TypeOK' /\ DefaultExists'
  BY DEF AInv, TypeOK, SetDefault, DefaultExists
<1>2. NothingLost' /\ CachedExact' /\ GoesBack'
  <2> USE DEF AInv, SetDefault
  <2>1. NothingLost'
    BY DEF NothingLost, Live, Cached
  <2>2. CachedExact'
    <3>1. \A c \in Slices : CachedOf(c)' = CachedOf(c)
      BY DEF CachedOf, Cached
    <3> QED BY <3>1 DEF CachedExact
  <2>3. GoesBack'
    BY DEF GoesBack, Live
  <2> QED BY <2>1, <2>2, <2>3
<1> QED BY <1>1, <1>2 DEF AInv

(* The last hev_memory_allocator_unref: every cached block goes back to malloc. *)
LEMMA LastUnref ==
  ASSUME AInv, NEW a \in Slices, AllocatorUnref(a), ref_count[a] = 1
  PROVE  AInv'
<1> DEFINE r == Returned(heap, CachedOf(a))
<1>1. heap \in HeapType /\ heap' = Cleared(r, a)
  BY DEF AInv, TypeOK, AllocatorUnref, Destroyed, Cleared
<1>2. /\ r \in HeapType /\ r.cached = heap.cached /\ r.count = heap.count
      /\ r.taken = heap.taken \ CachedOf(a)
      /\ \A b \in Blocks : r.owner[b] = IF b \in CachedOf(a) THEN Null ELSE heap.owner[b]
  BY <1>1, ReturnedParts, CachedFacts DEF AInv
<1>3. /\ heap' \in HeapType /\ heap'.owner = r.owner /\ heap'.taken = heap.taken \ CachedOf(a)
      /\ \A k \in FreeLists : heap'.cached[k] = IF k[1] = a THEN <<>> ELSE heap.cached[k]
      /\ heap'.count[a] = 0 /\ \A c \in Slices \ {a} : heap'.count[c] = heap.count[c]
  <2> HIDE DEF r
  <2> QED BY <1>1, <1>2, ClearedParts
<1>4. \A b \in Blocks : heap'.owner[b] = IF b \in CachedOf(a) THEN Null ELSE heap.owner[b]
  BY <1>2, <1>3
<1> HIDE DEF r
<1>5. /\ Live' = Live /\ live' = live /\ mixed' = mixed /\ default_allocator' = default_allocator
      /\ ref_count' = [ref_count EXCEPT ![a] = 0] /\ ~Needed(a)
  BY DEF AllocatorUnref, Live
<1>6. /\ ref_count' \in [Slices -> Nat] /\ ref_count'[a] = 0
      /\ \A c \in Slices : c # a => ref_count'[c] = ref_count[c]
  BY <1>5 DEF AInv, TypeOK
<1>7. ASSUME NEW k \in FreeLists
      PROVE  /\ ListTidy(k) /\ Cached(k) \subseteq Blocks /\ k[1] \in Slices /\ k[2] \in Sizes
             /\ k = <<k[1], k[2]>>
  BY NothingLostParts, CachedFacts DEF AInv, FreeLists
<1>8. ASSUME NEW b \in CachedOf(a) PROVE b \notin Live /\ \E s \in Sizes : heap.owner[b] = <<a, s>>
  <2>1. PICK s \in Sizes : b \in Cached(<<a, s>>)
    BY <1>8 DEF CachedOf
  <2>2. ListTidy(<<a, s>>)
    BY <1>7 DEF FreeLists
  <2> QED BY <2>1, <2>2 DEF ListTidy
<1>9. ASSUME NEW k \in FreeLists, k[1] # a
      PROVE  ListTidy(k)' /\ Cached(k)' = Cached(k) /\ Cached(k) \cap CachedOf(a) = {}
  <2>1. Cached(k) \cap CachedOf(a) = {}
    BY <1>7, <1>8, <1>9 DEF ListTidy
  <2>2. heap'.cached[k] = heap.cached[k]
    BY <1>3, <1>9
  <2>3. ASSUME NEW c \in Cached(k)
        PROVE  c \notin Live' /\ heap'.owner[c] = heap.owner[c] /\ ref_count'[k[1]] > 0
    <3>1. c \notin CachedOf(a) /\ c \in Blocks
      BY <1>7, <2>1
    <3> QED BY <1>4, <1>5, <1>6, <1>7, <1>9, <3>1 DEF ListTidy
  <2> QED BY <1>7, <2>1, <2>2, <2>3, StaysTidy
<1>10. ASSUME NEW k \in FreeLists, k[1] = a
       PROVE  ListTidy(k)' /\ Cached(k)' = {} /\ Cached(k) \subseteq CachedOf(a)
  <2>1. heap'.cached[k] = <<>>
    BY <1>3, <1>10
  <2>2. Cached(k)' = {}
    BY <2>1 DEF Cached
  <2>3. Cached(k) \subseteq CachedOf(a)
    BY <1>7, <1>10 DEF CachedOf
  <2> QED BY <2>1, <2>2, <2>3 DEF ListTidy, Distinct
<1>11. TypeOK' /\ DefaultExists'
  BY <1>3, <1>5, <1>6 DEF AInv, TypeOK, DefaultExists, Needed
<1>12. Accounted'
  <2> DEFINE before == UNION {Cached(k) : k \in FreeLists}
             after == UNION {Cached(k)' : k \in FreeLists}
  <2>1. after \subseteq before \ CachedOf(a)
    BY <1>9, <1>10
  <2>2. before \ CachedOf(a) \subseteq after
    BY <1>9, <1>10
  <2>3. heap.taken = Live \cup before
    BY NothingLostParts DEF AInv, Accounted
  <2>4. heap'.taken = Live' \cup after
    BY <1>3, <1>5, <1>8, <2>1, <2>2, <2>3
  <2> QED BY <2>4 DEF Accounted
<1>13. CachedExact'
  <2>1. ASSUME ~mixed', NEW c \in Slices, ref_count'[c] > 0
        PROVE  heap'.count[c] = Cardinality(CachedOf(c)') /\ heap'.count[c] <= MaxCached
    <3>1. c # a /\ ref_count[c] > 0 /\ ~mixed
      BY <1>5, <1>6, <2>1
    <3>2. heap'.count[c] = heap.count[c]
      BY <1>1, <1>3, <3>1, HeapParts
    <3>3. CachedOf(c)' = CachedOf(c)
      BY <1>9, <3>1 DEF CachedOf, FreeLists
    <3> QED BY <3>1, <3>2, <3>3 DEF AInv, CachedExact
  <2> QED BY <2>1 DEF CachedExact
<1>14. GoesBack'
  <2>1. ASSUME NEW b \in Live, heap'.owner[b] # Null
        PROVE  heap'.owner[b][2] = live[b] /\ ref_count'[heap'.owner[b][1]] > 0
    <3>1. b \in Blocks /\ b \notin CachedOf(a) /\ heap'.owner[b] = heap.owner[b]
      BY <1>4, <1>8 DEF Live
    <3>2. heap.owner[b] \in FreeLists
      BY <1>1, <2>1, <3>1, HeapParts
    <3>3. heap.owner[b][1] \in Slices /\ heap.owner[b][1] # a
      BY <1>5, <1>7, <3>2 DEF Needed
    <3> QED BY <1>6, <2>1, <3>1, <3>3 DEF AInv, GoesBack
  <2> QED BY <1>5, <2>1 DEF GoesBack
<1> QED BY <1>9, <1>10, <1>11, <1>12, <1>13, <1>14, NothingLostNext DEF AInv

-----------------------------------------------------------------------------
LEMMA AllocatorInit == Init => AInv
<1> SUFFICES ASSUME Init PROVE AInv
  OBVIOUS
<1>1. heap \in HeapType
  BY CountAssumption DEF Init, HeapType
<1>2. Live = {} /\ \A k \in FreeLists : heap.cached[k] = <<>> /\ Cached(k) = {}
  BY DEF Init, Live, Cached
<1>3. TypeOK /\ DefaultExists
  BY <1>1, NamesAssumption DEF Init, TypeOK, DefaultExists
<1>4. GoesBack
  BY <1>2 DEF GoesBack
<1>5. CachedExact
  BY DEF Init, CachedExact
<1>6. NothingLost
  BY <1>2 DEF Init, NothingLost
<1> QED BY <1>3, <1>4, <1>5, <1>6 DEF AInv

LEMMA AllocStep ==
  ASSUME AInv, NEW s \in AllSizes, NEW b \in Blocks, Alloc(s, b) PROVE AInv'
<1>1. Default \in Slices \cup {Plain} /\ (Default = Plain <=> Default \notin Slices)
  BY DefaultFacts DEF Alloc
<1>2. CASE HasCached(heap, Default, s)
  <2>1. /\ s \in Sizes /\ Default \in Slices /\ <<Default, s>> \in FreeLists
        /\ heap.cached[<<Default, s>>] # <<>> /\ b = Head(heap.cached[<<Default, s>>])
        /\ heap' = Popped(heap, Default, <<Default, s>>)
    BY <1>1, <1>2 DEF HasCached, Alloc, Answers, Allocated, FreeLists
  <2> QED BY <2>1, AllocCached
<1>3. CASE ~HasCached(heap, Default, s)
  <2> DEFINE o == IF Default # Plain /\ s \in Sizes THEN <<Default, s>> ELSE Null
  <2>1. /\ b \in Blocks \ heap.taken /\ heap' = Fresh(heap, b, o) /\ o \in FreeLists \cup {Null}
        /\ o # Null => o = <<Default, s>> /\ Default \in Slices
    BY <1>1, <1>3 DEF Alloc, Answers, Allocated, FreeLists
  <2> QED BY <2>1, AllocFresh
<1> QED BY <1>2, <1>3

LEMMA FreeStep ==
  ASSUME AInv, NEW b \in Blocks, Free(b) PROVE AInv'
<1> DEFINE h == heap
           lv == live
           mx == mixed
           d == Default
           rc == ref_count
<1>1. HeapOK(h, lv, mx) /\ RefsOK /\ b \in Held(lv) /\ mixed' \in BOOLEAN
  BY HeapOKFacts DEF Free, Live, Held, HeapOK
<1>2. d \in Slices \cup {Plain} /\ (mx \/ (d # Plain /\ ForeignTo(h, d, b)) => mixed')
  BY DefaultFacts DEF Free, Foreign, ForeignTo
<1>3. HeapOK(Freed(h, d, b), [lv EXCEPT ![b] = NotLive], mixed')
  BY <1>1, <1>2, FreedFacts
<1>4. heap' = Freed(h, d, b) /\ live' = [lv EXCEPT ![b] = NotLive] /\ ref_count' = ref_count
  BY DEF Free
<1>5. HeapOK(heap, live, mixed)'
  <2>1. PICK g, lw, my : g = heap' /\ lw = live' /\ my = mixed' /\ HeapOK(g, lw, my)
    BY <1>3, <1>4
  <2>2. ref_count' = ref_count
    BY <1>4
  <2> QED BY <2>1, <2>2 DEF HeapOK, Tidy
<1>6. RefsOK'
  BY <1>1, <1>4, DefaultFacts DEF RefsOK, Free
<1> QED BY <1>5, <1>6, HeapOKNext

LEMMA AllocatorStep == AInv /\ [AllocatorNext]_allocator_vars => AInv'
<1> SUFFICES ASSUME AInv, [AllocatorNext]_allocator_vars PROVE AInv'
  OBVIOUS
<1>1. ASSUME NEW a \in Slices, SliceNew(a) PROVE AInv'
  BY <1>1, SliceNewStep
<1>2. ASSUME NEW a \in Slices, AllocatorRef(a) PROVE AInv'
  <2>1. ref_count[a] \in Nat /\ ref_count[a] > 0
    BY <1>2 DEF AInv, TypeOK, AllocatorRef
  <2>2. ref_count[a] + 1 \in Nat \ {0} /\ ref_count' = [ref_count EXCEPT ![a] = ref_count[a] + 1]
    BY <1>2, <2>1 DEF AllocatorRef
  <2> QED BY <1>2, <2>1, <2>2, RefStep DEF AllocatorRef
<1>3. ASSUME NEW a \in Slices, AllocatorUnref(a) PROVE AInv'
  <2>1. ref_count[a] \in Nat /\ ref_count[a] > 0
    BY <1>3 DEF AInv, TypeOK, AllocatorUnref
  <2>2. CASE ref_count[a] = 1
    BY <1>3, <2>2, LastUnref
  <2>3. CASE ref_count[a] # 1
    <3>1. /\ ref_count[a] - 1 \in Nat \ {0}
          /\ ref_count' = [ref_count EXCEPT ![a] = ref_count[a] - 1]
      BY <1>3, <2>1, <2>3 DEF AllocatorUnref
    <3>2. UNCHANGED <<default_allocator, heap, live, mixed>>
      BY <1>3, <2>3 DEF AllocatorUnref
    <3> QED BY <2>1, <3>1, <3>2, RefStep
  <2> QED BY <2>2, <2>3
<1>4. ASSUME NEW d \in Slices \cup {Plain, Null}, SetDefault(d) PROVE AInv'
  BY <1>4, DefaultStep
<1>5. CASE UNCHANGED allocator_vars
  <2> USE <1>5 DEF allocator_vars
  <2>1. NothingLost' /\ GoesBack' /\ TypeOK' /\ DefaultExists'
    BY DEF AInv, NothingLost, Live, Cached, GoesBack, TypeOK, DefaultExists
  <2>2. \A c \in Slices : CachedOf(c)' = CachedOf(c)
    BY DEF CachedOf, Cached
  <2>3. CachedExact'
    BY <2>2 DEF AInv, CachedExact
  <2> QED BY <2>1, <2>3 DEF AInv
<1> QED BY <1>1, <1>2, <1>3, <1>4, <1>5, AllocStep, FreeStep DEF AllocatorNext

(* The invariant of every run of the allocators.                               *)
LEMMA AllocatorInvariant == AllocatorSpec => []AInv
BY AllocatorInit, AllocatorStep, PTL DEF AllocatorSpec

(* hev-memory-allocator-slice.c: cached_count wraps at neither end.            *)
THEOREM AllocatorTypeCorrect == AllocatorSpec => []TypeOK
<1>1. AInv => TypeOK
  BY DEF AInv
<1> QED BY <1>1, AllocatorInvariant, PTL

(* _hev_memory_allocator_alloc, _free and _destroy: a block is in use or in    *)
(* one list, once, whatever the program does with its allocators.              *)
THEOREM NoBlockLost == AllocatorSpec => []NothingLost
<1>1. AInv => NothingLost
  BY DEF AInv
<1> QED BY <1>1, AllocatorInvariant, PTL

(* cached_count of hev-memory-allocator-slice.c is exact and keeps its limit   *)
(* as long as blocks are freed through the slice allocator they came from.     *)
THEOREM CachedCountExact == AllocatorSpec => []CachedExact
<1>1. AInv => CachedExact
  BY DEF AInv
<1> QED BY <1>1, AllocatorInvariant, PTL

(* The owner in the header of a block in use is a list of its own size, of an  *)
(* allocator that exists.                                                      *)
THEOREM BlocksGoBack == AllocatorSpec => []GoesBack
<1>1. AInv => GoesBack
  BY DEF AInv
<1> QED BY <1>1, AllocatorInvariant, PTL

=============================================================================
