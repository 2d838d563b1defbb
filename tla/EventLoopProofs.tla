--------------------------- MODULE EventLoopProofs ---------------------------
(* What EventLoop guarantees for any number of sources, descriptor objects *)
(* and descriptors: the reference counts are exact, fd_list holds what it  *)
(* should, and the kernel never holds a dangling pointer, as long as the   *)
(* program leaves alone a source it took out of the loop, and up to the    *)
(* step, if there is one, after which a source's list is not Intact.       *)
EXTENDS EventLoop, SequenceTheorems, WellFoundedInduction, TLAPS

(* A freed cell holds nothing.                                             *)
FreedClean ==
  /\ \A s \in Sources : src[s].ref = 0 => src[s] = FreeSrc
  /\ \A d \in Efds : efd[d].ref = 0 => efd[d] = FreeEfd

(* source->fds and fd->source are inverse to each other.                   *)
Linked ==
  \A s \in Sources, d \in Efds :
    efd[d].source = s <=> d \in FdsOf(s) /\ efd[d].ref > 0

(* The loop pointer is set in every source the loop lists or may dispatch. *)
InLoop ==
  /\ \A s \in sources : src[s].loop = TRUE
  /\ \A d \in Efds : efd[d].dispatched /\ efd[d].source # NoSource
                       => src[efd[d].source].loop = TRUE

IInv ==
  /\ TypeOK /\ CountsExact /\ QueueExact /\ KernelPointers
  /\ FreedClean /\ Linked /\ InLoop

-----------------------------------------------------------------------------
(* The least number principle, for a set of numbers.                       *)
LEMMA LeastNat ==
  ASSUME NEW T \in SUBSET Nat, T # {}
  PROVE  \E n \in T : \A m \in T : n <= m
<1> DEFINE R == {ss \in Nat \X Nat : ss[1] < ss[2]}
<1>1. IsWellFoundedOn(R, Nat)
  BY NatLessThanWellFounded DEF OpToRel
<1>2. \E x \in T : \A y \in T : ~(<<y, x>> \in R)
  <2> HIDE DEF R
  <2> QED BY <1>1, WFMin
<1>3. PICK x \in T : \A y \in T : <<y, x>> \notin R
  BY <1>2
<1>4. \A y \in T : x <= y
  <2> TAKE y \in T
  <2>1. <<y, x>> \notin R
    BY <1>3
  <2>2. x \in Nat /\ y \in Nat
    OBVIOUS
  <2> QED BY <2>1, <2>2
<1> QED BY <1>4

(* The descriptor objects of a heap, taken alone.                          *)
HeapOK(h) ==
  /\ h \in [Efds -> EfdRecord]
  /\ \A d \in Efds : h[d].ref = (IF h[d].source = NoSource THEN 0 ELSE 1)
                              + (IF h[d].dispatched THEN 1 ELSE 0)
  /\ \A d \in Efds : h[d].ref = 0 => h[d] = FreeEfd

(* The list of a source: what it holds, and what adding in front or taking *)
(* out one place makes of it.                                              *)
LEMMA EmptyList == <<>> \in Lists /\ ToSet(<<>>) = {}
<1>1. <<>> \in Seq(Efds) /\ DOMAIN <<>> = {}
  OBVIOUS
<1> QED BY <1>1 DEF Lists, ToSet, IsInjective

LEMMA OneOnList ==
  ASSUME NEW d \in Efds PROVE <<d>> \in Lists /\ ToSet(<<d>>) = {d}
<1>1. <<d>> \in Seq(Efds) /\ DOMAIN <<d>> = {1} /\ <<d>>[1] = d
  OBVIOUS
<1> QED BY <1>1 DEF Lists, ToSet, IsInjective

LEMMA ListHolds ==
  ASSUME NEW l \in Lists
  PROVE  /\ l \in Seq(Efds) /\ DOMAIN l = 1..Len(l) /\ Len(l) \in Nat
         /\ ToSet(l) \subseteq Efds
         /\ \A i \in 1..Len(l) : l[i] \in ToSet(l) /\ l[i] \in Efds
         /\ \A d \in ToSet(l) : \E i \in 1..Len(l) : l[i] = d
         /\ \A i, j \in 1..Len(l) : l[i] = l[j] => i = j
<1>1. l \in Seq(Efds) /\ IsInjective(l)
  BY DEF Lists
<1>2. DOMAIN l = 1..Len(l) /\ Len(l) \in Nat /\ \A i \in 1..Len(l) : l[i] \in Efds
  BY <1>1
<1> QED BY <1>1, <1>2 DEF ToSet, IsInjective

LEMMA ListOf ==
  ASSUME NEW l \in Seq(Efds), \A i, j \in 1..Len(l) : l[i] = l[j] => i = j
  PROVE  l \in Lists
<1>1. DOMAIN l = 1..Len(l)
  OBVIOUS
<1> QED BY <1>1 DEF Lists, IsInjective

LEMMA ListAdds ==
  ASSUME NEW l \in Lists, NEW d \in Efds, d \notin ToSet(l)
  PROVE  <<d>> \o l \in Lists /\ ToSet(<<d>> \o l) = ToSet(l) \cup {d}
<1> DEFINE m == <<d>> \o l
           n == Len(l)
<1>1. /\ l \in Seq(Efds) /\ n \in Nat
      /\ \A i \in 1..n : l[i] \in ToSet(l)
      /\ \A e \in ToSet(l) : \E i \in 1..n : l[i] = e
      /\ \A i, j \in 1..n : l[i] = l[j] => i = j
  BY ListHolds
<1>2. /\ m \in Seq(Efds) /\ Len(m) = n + 1
      /\ \A i \in 1..(n + 1) : m[i] = IF i = 1 THEN d ELSE l[i - 1]
  BY <1>1
<1> HIDE DEF m, n
<1>3. m \in Lists
  <2>1. \A i, j \in 1..Len(m) : m[i] = m[j] => i = j
    BY <1>1, <1>2
  <2> QED BY <1>2, <2>1, ListOf
<1>4. ASSUME NEW e \in ToSet(m) PROVE e \in ToSet(l) \cup {d}
  <2>1. PICK i \in 1..(n + 1) : m[i] = e
    BY <1>2, <1>3, ListHolds
  <2> QED BY <1>1, <1>2, <2>1
<1>5. ASSUME NEW e \in ToSet(l) \cup {d} PROVE e \in ToSet(m)
  <2>1. \A i \in 1..(n + 1) : m[i] \in ToSet(m)
    BY <1>2, <1>3, ListHolds
  <2>2. CASE e = d
    BY <1>1, <1>2, <2>1, <2>2
  <2>3. CASE e \in ToSet(l)
    <3>1. PICK i \in 1..n : l[i] = e
      BY <1>1, <2>3
    <3>2. i + 1 \in 1..(n + 1) /\ m[i + 1] = e
      BY <1>1, <1>2, <3>1
    <3> QED BY <2>1, <3>2
  <2> QED BY <1>5, <2>2, <2>3
<1> QED BY <1>3, <1>4, <1>5 DEF m

LEMMA ListLoses ==
  ASSUME NEW l \in Lists, NEW k \in 1..Len(l)
  PROVE  /\ RemoveAt(l, k) \in Lists
         /\ ToSet(RemoveAt(l, k)) = ToSet(l) \ {l[k]}
<1> DEFINE a == SubSeq(l, 1, k - 1)
           b == SubSeq(l, k + 1, Len(l))
           n == Len(l)
           m == RemoveAt(l, k)
<1>1. /\ l \in Seq(Efds) /\ n \in Nat
      /\ \A i \in 1..n : l[i] \in ToSet(l)
      /\ \A e \in ToSet(l) : \E i \in 1..n : l[i] = e
      /\ \A i, j \in 1..n : l[i] = l[j] => i = j
  BY ListHolds
<1>2. /\ m \in Seq(Efds) /\ Len(m) = n - 1
      /\ \A i \in 1..(n - 1) : m[i] = IF i < k THEN l[i] ELSE l[i + 1]
  <2>1. /\ a \in Seq(Efds) /\ b \in Seq(Efds) /\ Len(a) = k - 1 /\ Len(b) = n - k
        /\ \A i \in 1..(k - 1) : a[i] = l[i]
        /\ \A i \in 1..(n - k) : b[i] = l[k + i]
    BY <1>1
  <2>2. m = a \o b
    BY DEF RemoveAt
  <2> HIDE DEF a, b, m, n
  <2>3. /\ a \o b \in Seq(Efds) /\ Len(a \o b) = Len(a) + Len(b)
        /\ \A i \in 1..(Len(a) + Len(b)) :
             (a \o b)[i] = IF i <= Len(a) THEN a[i] ELSE b[i - Len(a)]
    BY <2>1, ConcatProperties
  <2>4. k \in 1..n /\ Len(m) = n - 1 /\ m \in Seq(Efds)
    BY <1>1, <2>1, <2>2, <2>3 DEF n
  <2>5. ASSUME NEW i \in 1..(n - 1)
        PROVE  m[i] = IF i < k THEN l[i] ELSE l[i + 1]
    <3>1. m[i] = IF i <= k - 1 THEN a[i] ELSE b[i - (k - 1)]
      BY <1>1, <2>1, <2>2, <2>3, <2>4
    <3>2. CASE i < k
      BY <1>1, <2>1, <2>4, <3>1, <3>2
    <3>3. CASE ~(i < k)
      <4>1. i - (k - 1) \in 1..(n - k) /\ k + (i - (k - 1)) = i + 1 /\ ~(i <= k - 1)
        BY <1>1, <2>4, <3>3
      <4> QED BY <2>1, <3>1, <3>3, <4>1
    <3> QED BY <3>2, <3>3
  <2> QED BY <2>4, <2>5
<1>3. k \in 1..n
  OBVIOUS
<1> HIDE DEF m, n
<1>4. m \in Lists
  <2>1. \A i, j \in 1..Len(m) : m[i] = m[j] => i = j
    BY <1>1, <1>2, <1>3
  <2> QED BY <1>2, <2>1, ListOf
<1>5. ASSUME NEW e \in ToSet(m) PROVE e \in ToSet(l) \ {l[k]}
  <2>1. PICK i \in 1..(n - 1) : m[i] = e
    BY <1>2, <1>4, ListHolds
  <2>2. CASE i < k
    <3>1. i \in 1..n /\ i # k /\ l[i] = e
      BY <1>1, <1>2, <1>3, <2>1, <2>2
    <3> QED BY <1>1, <1>3, <3>1
  <2>3. CASE ~(i < k)
    <3>1. i + 1 \in 1..n /\ i + 1 # k /\ l[i + 1] = e
      BY <1>1, <1>2, <1>3, <2>1, <2>3
    <3> QED BY <1>1, <1>3, <3>1
  <2> QED BY <2>2, <2>3
<1>6. ASSUME NEW e \in ToSet(l) \ {l[k]} PROVE e \in ToSet(m)
  <2>1. PICK i \in 1..n : l[i] = e /\ i # k
    BY <1>1, <1>3
  <2>2. \A j \in 1..(n - 1) : m[j] \in ToSet(m)
    BY <1>2, <1>4, ListHolds
  <2>3. CASE i < k
    BY <1>1, <1>2, <1>3, <2>1, <2>2, <2>3
  <2>4. CASE i > k
    <3>1. i - 1 \in 1..(n - 1) /\ m[i - 1] = e
      BY <1>1, <1>2, <1>3, <2>1, <2>4
    <3> QED BY <2>2, <3>1
  <2> QED BY <1>1, <1>3, <2>1, <2>3, <2>4
<1> QED BY <1>4, <1>5, <1>6 DEF m

(* In what follows the objects of a source are those on its list.          *)
USE DEF FdsOf

(* Released takes one reference from each object its source or fd_list     *)
(* lets go, and frees exactly the objects nothing holds any more.          *)
LEMMA ReleasedFacts ==
  ASSUME NEW h, HeapOK(h), NEW U \in SUBSET Efds, NEW F \in SUBSET Efds,
         \A d \in U : h[d].source # NoSource, \A d \in F : h[d].dispatched
  PROVE  /\ HeapOK(Released(h, U, F))
         /\ \A d \in Efds :
              /\ Released(h, U, F)[d].source = IF d \in U THEN NoSource ELSE h[d].source
              /\ Released(h, U, F)[d].dispatched <=> h[d].dispatched /\ d \notin F
              /\ Released(h, U, F)[d].source # NoSource =>
                   Released(h, U, F)[d].fd = h[d].fd
<1> DEFINE g == Released(h, U, F)
<1> SUFFICES ASSUME NEW d \in Efds
             PROVE  /\ g[d] \in EfdRecord
                    /\ g[d].ref = (IF g[d].source = NoSource THEN 0 ELSE 1)
                                + (IF g[d].dispatched THEN 1 ELSE 0)
                    /\ g[d].ref = 0 => g[d] = FreeEfd
                    /\ g[d].source = IF d \in U THEN NoSource ELSE h[d].source
                    /\ g[d].dispatched <=> h[d].dispatched /\ d \notin F
                    /\ g[d].source # NoSource => g[d].fd = h[d].fd
  BY DEF HeapOK, Released
<1> DEFINE r == h[d].ref - (IF d \in U THEN 1 ELSE 0) - (IF d \in F THEN 1 ELSE 0)
<1>1. /\ h[d] \in EfdRecord
      /\ h[d].ref = (IF h[d].source = NoSource THEN 0 ELSE 1)
                  + (IF h[d].dispatched THEN 1 ELSE 0)
      /\ h[d].ref = 0 => h[d] = FreeEfd
  BY DEF HeapOK
<1>2. CASE d \notin U \cup F
  <2>1. g[d] = h[d]
    BY <1>2 DEF Released
  <2> QED BY <1>1, <1>2, <2>1
<1>3. CASE d \in U \cup F /\ r = 0
  <2>1. g[d] = FreeEfd
    BY <1>3 DEF Released, Frees
  <2> QED BY <1>1, <1>3, <2>1 DEF FreeEfd, EfdRecord
<1>4. CASE d \in U \cup F /\ r # 0
  <2>1. g[d] = Kept(h[d], r, d \in U, d \in F)
    BY <1>4 DEF Released, Frees
  <2>2. /\ g[d].ref = r /\ g[d].fd = h[d].fd /\ g[d].revents = h[d].revents
        /\ g[d].source = IF d \in U THEN NoSource ELSE h[d].source
        /\ g[d].dispatched = IF d \in F THEN FALSE ELSE h[d].dispatched
        /\ g[d] = [ref |-> g[d].ref, fd |-> g[d].fd, revents |-> g[d].revents,
                   dispatched |-> g[d].dispatched, source |-> g[d].source]
    <3> HIDE DEF g, r
    <3> QED BY <2>1 DEF Kept
  <2>3. r \in Nat /\ r = (IF g[d].source = NoSource THEN 0 ELSE 1)
                        + (IF g[d].dispatched THEN 1 ELSE 0)
    <3> HIDE DEF g
    <3> QED BY <1>1, <1>4, <2>2 DEF EfdRecord
  <2>4. g[d] \in EfdRecord
    <3> HIDE DEF g, r
    <3> QED BY <1>1, <2>2, <2>3 DEF EfdRecord
  <2> HIDE DEF g, r
  <2> QED BY <1>4, <2>2, <2>3, <2>4
<1> QED BY <1>2, <1>3, <1>4

(* Taking the head off a list without duplicates leaves the other elements. *)
LEMMA TailFacts ==
  ASSUME NEW l \in Seq(Efds), l # <<>>,
         \A i, j \in 1..Len(l) : l[i] = l[j] => i = j
  PROVE  /\ Tail(l) \in Seq(Efds)
         /\ \A i, j \in 1..Len(Tail(l)) : Tail(l)[i] = Tail(l)[j] => i = j
         /\ \A d : (\E i \in 1..Len(Tail(l)) : Tail(l)[i] = d)
                     <=> d # Head(l) /\ \E i \in 1..Len(l) : l[i] = d
<1>1. /\ Len(l) \in Nat \ {0} /\ Head(l) = l[1]
      /\ Tail(l) \in Seq(Efds) /\ Len(Tail(l)) = Len(l) - 1
      /\ \A i \in 1..Len(Tail(l)) : Tail(l)[i] = l[i + 1]
  BY HeadTailProperties, EmptySeq
<1>2. \A i, j \in 1..Len(Tail(l)) : Tail(l)[i] = Tail(l)[j] => i = j
  BY <1>1
<1>3. ASSUME NEW d, d # Head(l), NEW i \in 1..Len(l), l[i] = d
      PROVE  \E k \in 1..Len(Tail(l)) : Tail(l)[k] = d
  <2>1. i - 1 \in 1..Len(Tail(l)) /\ Tail(l)[i - 1] = l[i]
    BY <1>1, <1>3
  <2> QED BY <1>3, <2>1
<1>4. ASSUME NEW d, NEW i \in 1..Len(Tail(l)), Tail(l)[i] = d
      PROVE  d # Head(l) /\ \E k \in 1..Len(l) : l[k] = d
  <2>1. i + 1 \in 1..Len(l) /\ l[i + 1] = d /\ 1 \in 1..Len(l) /\ i + 1 # 1
    BY <1>1, <1>4
  <2> QED BY <1>1, <2>1
<1> QED BY <1>1, <1>2, <1>3, <1>4

(* The place the scan of insert_event_source_fd_sorted stops at.           *)
LEMMA InsertPlace ==
  ASSUME NEW d \in Efds, fd_list \in Seq(Efds)
  PROVE  \E at \in 0..Len(fd_list) :
           /\ InsertSorted(d) =
                [i \in 1..(Len(fd_list) + 1) |->
                   IF i <= at THEN fd_list[i]
                   ELSE IF i = at + 1 THEN d ELSE fd_list[i - 1]]
           /\ \A i \in 1..at : Priority(fd_list[i]) >= Priority(d)
           /\ at < Len(fd_list) => ~(Priority(fd_list[at + 1]) >= Priority(d))
<1> DEFINE n == Len(fd_list)
           passed(k) == \A i \in 1..k : Priority(fd_list[i]) >= Priority(d)
           stops(k) == passed(k) /\ (k < n => ~passed(k + 1))
           at == CHOOSE k \in 0..n : stops(k)
<1>1. n \in Nat
  BY LenProperties
<1>2. at \in 0..n /\ stops(at)
  <2> DEFINE T == {k \in 0..n : k < n => ~passed(k + 1)}
  <2>1. T \in SUBSET Nat /\ n \in T
    BY <1>1
  <2>2. PICK k \in T : \A m \in T : k <= m
    <3> HIDE DEF T
    <3> QED BY <2>1, LeastNat
  <2>3. passed(k)
    <3>1. CASE k = 0
      BY <3>1
    <3>2. CASE k # 0
      <4>1. k - 1 \in 0..n /\ k - 1 \notin T /\ k - 1 < n
        BY <1>1, <2>2, <3>2
      <4>2. passed((k - 1) + 1)
        <5> HIDE DEF passed
        <5> QED BY <4>1
      <4>3. (k - 1) + 1 = k
        BY <1>1, <2>2
      <4> HIDE DEF passed
      <4> QED BY <4>2, <4>3
    <3> QED BY <3>1, <3>2
  <2>4. k \in 0..n /\ stops(k)
    <3> HIDE DEF passed
    <3> QED BY <2>2, <2>3
  <2> HIDE DEF stops
  <2> QED BY <2>4
<1>3. InsertSorted(d) = [i \in 1..(n + 1) |-> IF i <= at THEN fd_list[i]
                              ELSE IF i = at + 1 THEN d ELSE fd_list[i - 1]]
  BY DEF InsertSorted
<1> HIDE DEF at
<1>4. at < n => ~(Priority(fd_list[at + 1]) >= Priority(d))
  <2> SUFFICES ASSUME at < n, Priority(fd_list[at + 1]) >= Priority(d) PROVE FALSE
    OBVIOUS
  <2>1. \A i \in 1..(at + 1) : i \in 1..at \/ i = at + 1
    BY <1>1, <1>2
  <2>2. passed(at + 1)
    BY <1>2, <2>1
  <2> QED BY <1>2, <2>2
<1> QED BY <1>2, <1>3, <1>4

(* Inserting a new object keeps the others, each once, in the same order.  *)
LEMMA InsertFacts ==
  ASSUME NEW d \in Efds, fd_list \in Seq(Efds), ~Queued(d),
         \A i, j \in 1..Len(fd_list) : fd_list[i] = fd_list[j] => i = j
  PROVE  LET l == InsertSorted(d)
         IN /\ l \in Seq(Efds)
            /\ \A i, j \in 1..Len(l) : l[i] = l[j] => i = j
            /\ \A e : (\E i \in 1..Len(l) : l[i] = e) <=> e = d \/ Queued(e)
<1> DEFINE n == Len(fd_list)
           l == InsertSorted(d)
<1>1. n \in Nat /\ fd_list \in [1..n -> Efds]
  BY LenProperties
<1>2. PICK at \in 0..n :
        l = [i \in 1..(n + 1) |-> IF i <= at THEN fd_list[i]
                                  ELSE IF i = at + 1 THEN d ELSE fd_list[i - 1]]
  BY InsertPlace
<1>3. at \in 0..n
  BY <1>2
<1> HIDE DEF l
<1>4. /\ l \in [1..(n + 1) -> Efds]
      /\ \A i \in 1..(n + 1) : l[i] = IF i <= at THEN fd_list[i]
                                     ELSE IF i = at + 1 THEN d ELSE fd_list[i - 1]
  BY <1>1, <1>2, <1>3
<1>5. l \in Seq(Efds) /\ Len(l) = n + 1
  BY <1>1, <1>4
<1>6. \A i \in 1..n : fd_list[i] # d
  BY DEF Queued
<1>7. \A i, j \in 1..Len(l) : l[i] = l[j] => i = j
  BY <1>1, <1>2, <1>4, <1>5, <1>6
<1>8. ASSUME NEW e PROVE (\E i \in 1..Len(l) : l[i] = e) <=> e = d \/ Queued(e)
  <2>1. ASSUME NEW i \in 1..Len(l), l[i] = e PROVE e = d \/ Queued(e)
    BY <1>1, <1>2, <1>4, <1>5, <2>1 DEF Queued
  <2>2. at + 1 \in 1..Len(l) /\ l[at + 1] = d
    BY <1>1, <1>2, <1>4, <1>5
  <2>3. ASSUME NEW i \in 1..n, fd_list[i] = e PROVE \E k \in 1..Len(l) : l[k] = e
    <3>1. CASE i <= at
      BY <1>1, <1>2, <1>4, <1>5, <2>3, <3>1
    <3>2. CASE ~(i <= at)
      <4>1. i + 1 \in 1..Len(l) /\ l[i + 1] = e
        BY <1>1, <1>2, <1>4, <1>5, <2>3, <3>2
      <4> QED BY <4>1
    <3> QED BY <3>1, <3>2
  <2> QED BY <2>1, <2>2, <2>3 DEF Queued
<1> QED BY <1>5, <1>7, <1>8 DEF l

-----------------------------------------------------------------------------
(* The invariant holds initially, and every step preserves it.             *)
LEMMA InitInv == Init => IInv
<1> SUFFICES ASSUME Init PROVE IInv
  OBVIOUS
<1> USE ConstantsAssumption
<1>1. TypeOK
  BY EmptySeq, EmptyList DEF Init, TypeOK, FreeSrc, FreeEfd, SourceRecord, EfdRecord
<1>2. CountsExact /\ FreedClean /\ Linked
  BY EmptyList DEF Init, CountsExact, FreedClean, Linked, FreeSrc, FreeEfd
<1>3. QueueExact /\ KernelPointers /\ InLoop
  BY EmptySeq DEF Init, QueueExact, Queued, KernelPointers, InLoop, FreeSrc, FreeEfd
<1> QED BY <1>1, <1>2, <1>3 DEF IInv

LEMMA HeapIsOK == IInv => HeapOK(efd)
  BY DEF IInv, TypeOK, CountsExact, FreedClean, HeapOK

LEMMA RegFacts ==
  ASSUME IInv, NEW f \in Fds, reg[f] # NoEfd
  PROVE  /\ reg[f] \in Efds /\ efd[reg[f]].fd = f /\ efd[reg[f]].source \in sources
         /\ efd[reg[f]].source \in Sources /\ efd[reg[f]].source # NoSource
<1>1. reg[f] \in Efds /\ sources \subseteq Sources
  BY DEF IInv, TypeOK
<1>2. efd[reg[f]].fd = f /\ efd[reg[f]].source \in sources
  BY DEF IInv, KernelPointers
<1> QED BY <1>1, <1>2, ConstantsAssumption

(* What only moves the control, and what only the kernel sees.             *)
LEMMA Frame ==
  ASSUME IInv, TypeOK', UNCHANGED <<heap, sources, fd_list, reg, batch>>,
         pc' = "callback" => pc = "callback" /\ cur' = cur,
         \A d \in Efds : batch[d] # {} => pc' = "queue",
         \A f \in Fds : edge'[f] => reg[f] # NoEfd
  PROVE  IInv'
<1>1. CountsExact' /\ FreedClean' /\ Linked' /\ InLoop'
  BY DEF IInv, CountsExact, FreedClean, Linked, InLoop, heap
<1>2. QueueExact'
  BY DEF IInv, QueueExact, Queued, heap
<1>3. KernelPointers'
  BY DEF IInv, KernelPointers, heap
<1> QED BY <1>1, <1>2, <1>3 DEF IInv

LEMMA QuietSteps ==
  ASSUME IInv,
         \/ Quit \/ LoopRef \/ Run \/ WaitInterrupted \/ QueueDone \/ DispatchNothing
         \/ \E f \in Fds : Arrive(f) \/ HangUp(f) \/ Expire(f)
  PROVE  IInv'
<1>1. TypeOK'
  <2>1. CASE Quit \/ LoopRef \/ Run \/ WaitInterrupted \/ QueueDone \/ DispatchNothing
    <3>1. /\ UNCHANGED <<src, efd, uref, sources, fd_list, batch, cur, level, edge, reg, armed>>
          /\ run' \in BOOLEAN /\ timeout' \in {-1, 0} /\ lref' \in Nat
          /\ pc' \in {pc, "user", "wait", "dispatch"}
      <4>0. CASE Quit
        BY <4>0 DEF IInv, TypeOK, Quit, control, kernel, heap
      <4>1. CASE LoopRef
        BY <4>1 DEF IInv, TypeOK, LoopRef, control, kernel, heap
      <4>2. CASE Run
        BY <4>2 DEF IInv, TypeOK, Run, kernel, heap
      <4>3. CASE WaitInterrupted \/ QueueDone
        BY <4>3 DEF IInv, TypeOK, WaitInterrupted, QueueDone, kernel, heap
      <4>4. CASE DispatchNothing
        BY <4>4 DEF IInv, TypeOK, DispatchNothing, NextIteration, kernel, heap
      <4> QED BY <2>1, <4>0, <4>1, <4>2, <4>3, <4>4
    <3> QED BY <3>1 DEF IInv, TypeOK
  <2>2. ASSUME NEW f \in Fds, Arrive(f) \/ HangUp(f) \/ Expire(f) PROVE TypeOK'
    <3>1. PICK E \in SUBSET Events : Happens(f, E) /\ armed' \in SUBSET Fds
      <4>1. {"IN"} \in SUBSET Events /\ {"HUP"} \in SUBSET Events
            /\ {"IN", "HUP"} \in SUBSET Events
        BY DEF Events
      <4> QED BY <2>2, <4>1 DEF IInv, TypeOK, Arrive, HangUp, Expire
    <3> QED BY <3>1 DEF IInv, TypeOK, Happens, heap, control
  <2> QED BY <2>1, <2>2
<1>2. UNCHANGED <<heap, sources, fd_list, reg, batch>>
  BY DEF Quit, LoopRef, Run, WaitInterrupted, QueueDone,
         DispatchNothing, Arrive, HangUp, Expire, Happens, control, kernel
<1>3. pc' = "callback" => pc = "callback" /\ cur' = cur
  BY DEF Quit, LoopRef, Run, WaitInterrupted, QueueDone,
         DispatchNothing, NextIteration, Arrive, HangUp, Expire, Happens, control
<1>4. \A d \in Efds : batch[d] # {} => pc' = "queue"
  BY DEF IInv, KernelPointers, Quit, LoopRef, Run, WaitInterrupted, QueueDone,
         DispatchNothing, Arrive, HangUp, Expire, Happens, control, UserTurn
<1>5. \A f \in Fds : edge'[f] => reg[f] # NoEfd
  BY DEF IInv, TypeOK, KernelPointers, Quit, LoopRef, Run, WaitInterrupted, QueueDone,
         DispatchNothing, Arrive, HangUp, Expire, Happens, kernel
<1> QED BY <1>1, <1>2, <1>3, <1>4, <1>5, Frame

LEMMA MinPrioIsInt == MinPrio \in Int
  BY SMT DEF MinPrio

LEMMA SourceNewInv == ASSUME IInv, Intact, NEW s \in Sources, SourceNew(s) PROVE IInv'
<1> USE ConstantsAssumption
<1>1. /\ src[s] = FreeSrc /\ uref[s] = 0 /\ s \notin sources
      /\ \A d \in Efds : efd[d].source # s
  <2>1. src[s].ref = 0
    BY DEF SourceNew
  <2>2. src[s] = FreeSrc
    BY <2>1 DEF IInv, FreedClean
  <2>3. uref[s] \in Nat /\ src[s].ref = uref[s] + (IF s \in sources THEN 1 ELSE 0)
    BY DEF IInv, TypeOK, CountsExact
  <2>4. \A d \in Efds : efd[d].source # s
    BY <2>2, EmptyList DEF IInv, Linked, FreeSrc
  <2> QED BY <2>1, <2>2, <2>3, <2>4
<1>2. PICK p \in Int, l \in Lists :
        /\ src' = [src EXCEPT ![s] = NewSrc(p, l)]
        /\ \A d \in ToSet(l) : efd[d] = FreeEfd
        /\ efd' = [d \in Efds |-> IF d \in ToSet(l) THEN NewEfd(OwnFd[s], s) ELSE efd[d]]
  <2>1. CASE Kind[s] = "fds"
    <3>1. src' = [src EXCEPT ![s] = NewSrc(0, <<>>)] /\ efd' = efd
      BY <2>1 DEF SourceNew
    <3>2. efd' = [d \in Efds |-> IF d \in ToSet(<<>>) THEN NewEfd(OwnFd[s], s) ELSE efd[d]]
      BY <3>1, EmptyList DEF IInv, TypeOK
    <3>3. <<>> \in Lists /\ \A d \in ToSet(<<>>) : efd[d] = FreeEfd
      BY EmptyList
    <3> QED BY <3>1, <3>2, <3>3
  <2>2. CASE Kind[s] # "fds"
    <3>1. PICK d \in Efds :
            /\ efd[d].ref = 0 /\ efd' = [efd EXCEPT ![d] = NewEfd(OwnFd[s], s)]
            /\ src' = [src EXCEPT ![s] =
                         NewSrc(IF Kind[s] = "idle" THEN MinPrio ELSE 0, <<d>>)]
      BY <2>2 DEF SourceNew
    <3> DEFINE p == IF Kind[s] = "idle" THEN MinPrio ELSE 0
               l == <<d>>
    <3>2. l \in Lists /\ ToSet(l) = {d}
      BY OneOnList
    <3>3. p \in Int /\ \A e \in ToSet(l) : efd[e] = FreeEfd
      BY <3>1, <3>2, MinPrioIsInt DEF IInv, FreedClean
    <3>4. src' = [src EXCEPT ![s] = NewSrc(p, l)]
      BY <3>1
    <3> HIDE DEF p, l
    <3>5. efd' = [e \in Efds |-> IF e \in ToSet(l) THEN NewEfd(OwnFd[s], s) ELSE efd[e]]
      BY <3>1, <3>2 DEF IInv, TypeOK
    <3> QED BY <3>2, <3>3, <3>4, <3>5
  <2> QED BY <2>1, <2>2
<1> DEFINE D == ToSet(l)
<1>3. /\ src' \in [Sources -> SourceRecord] /\ src'[s] = NewSrc(p, l)
      /\ \A t \in Sources : t # s => src'[t] = src[t]
  BY <1>2 DEF IInv, TypeOK, SourceRecord, NewSrc
<1>4. efd' \in [Efds -> EfdRecord]
  BY <1>2 DEF IInv, TypeOK, EfdRecord, NewEfd
<1>5. TypeOK'
  BY <1>3, <1>4 DEF IInv, TypeOK, SourceNew, control, kernel
<1>6. CountsExact' /\ FreedClean' /\ Linked'
  <2>1. CountsExact'
    <3>1. \A t \in Sources : src'[t].ref = uref'[t] + (IF t \in sources' THEN 1 ELSE 0)
      <4>1. uref' = [uref EXCEPT ![s] = 1] /\ sources' = sources
        BY DEF SourceNew
      <4>2. src'[s].ref = 1
        BY <1>3 DEF NewSrc
      <4>3. \A t \in Sources : t # s => uref'[t] = uref[t]
        BY <4>1 DEF IInv, TypeOK
      <4>4. uref'[s] = 1
        BY <4>1 DEF IInv, TypeOK
      <4> QED BY <1>1, <1>3, <4>1, <4>2, <4>3, <4>4 DEF IInv, CountsExact
    <3>2. \A d \in Efds : efd'[d].ref = (IF efd'[d].source = NoSource THEN 0 ELSE 1)
                                     + (IF efd'[d].dispatched THEN 1 ELSE 0)
      BY <1>2 DEF IInv, CountsExact, NewEfd
    <3> QED BY <3>1, <3>2 DEF CountsExact
  <2>2. FreedClean'
    BY <1>2, <1>3 DEF IInv, TypeOK, FreedClean, NewSrc, NewEfd
  <2>3. Linked'
    <3> SUFFICES ASSUME NEW t \in Sources, NEW d \in Efds
                 PROVE  efd'[d].source = t <=> d \in FdsOf(t)' /\ efd'[d].ref > 0
      BY DEF Linked
    <3>1. efd[d].source = t <=> d \in FdsOf(t) /\ efd[d].ref > 0
      BY DEF IInv, Linked
    <3>2. CASE d \in D
      <4>1. efd[d].ref = 0 /\ efd'[d] = NewEfd(OwnFd[s], s)
        BY <1>2, <3>2 DEF FreeEfd
      <4>2. efd'[d].source = s /\ efd'[d].ref = 1
        BY <4>1 DEF NewEfd
      <4>3. d \in FdsOf(s)'
        BY <1>3, <3>2 DEF NewSrc
      <4>4. d \notin FdsOf(t)
        BY <4>1 DEF Intact
      <4> QED BY <1>3, <4>2, <4>3, <4>4
    <3>3. CASE d \notin D
      <4>1. efd'[d] = efd[d] /\ d \notin FdsOf(s)'
        BY <1>2, <1>3, <3>3 DEF NewSrc
      <4> QED BY <1>1, <1>3, <3>1, <4>1
    <3> QED BY <3>2, <3>3
  <2> QED BY <2>1, <2>2, <2>3
<1>7. \A d \in Efds : d \notin D => efd'[d] = efd[d]
  BY <1>2
<1>8. \A d \in D : ~efd[d].dispatched /\ ~efd'[d].dispatched /\ efd[d].source = NoSource
  BY <1>2, ListHolds DEF FreeEfd, NewEfd
<1>9. QueueExact' /\ InLoop'
  <2>1. QueueExact'
    <3>1. UNCHANGED <<fd_list, pc, cur>>
      BY DEF SourceNew, control
    <3>2. \A d \in Efds : efd'[d].dispatched <=> efd[d].dispatched
      BY <1>7, <1>8
    <3> QED BY <3>1, <3>2 DEF IInv, QueueExact, Queued
  <2>2. InLoop'
    <3>1. sources' = sources
      BY DEF SourceNew
    <3>2. \A t \in Sources : src[t].loop = TRUE => t # s
      BY <1>1 DEF FreeSrc
    <3>3. \A t \in Sources : src[t].loop = TRUE => src'[t].loop = TRUE
      BY <1>3, <3>2
    <3>4. \A t \in sources : src'[t].loop = TRUE
      BY <3>3 DEF IInv, TypeOK, InLoop
    <3>5. ASSUME NEW d \in Efds, efd'[d].dispatched, efd'[d].source # NoSource
          PROVE  src'[efd'[d].source].loop = TRUE
      <4>1. d \notin D
        BY <1>8, <3>5
      <4>2. efd'[d] = efd[d] /\ efd[d] \in EfdRecord
        BY <1>7, <4>1 DEF IInv, TypeOK
      <4>3. efd[d].source \in Sources
        BY <3>5, <4>2 DEF EfdRecord
      <4> QED BY <3>3, <3>5, <4>2, <4>3 DEF IInv, InLoop
    <3> QED BY <3>1, <3>4, <3>5 DEF InLoop
  <2> QED BY <2>1, <2>2
<1>10. KernelPointers'
  <2>1. \A d \in D : efd[d].fd = NoFd
    BY <1>2 DEF FreeEfd
  <2>2. UNCHANGED <<sources, pc, batch, edge, reg>> /\ pc # "queue"
    BY DEF SourceNew, UserTurn, control, kernel
  <2>3. ASSUME NEW g \in Fds, reg[g] # NoEfd PROVE reg[g] \in Efds /\ reg[g] \notin D
    BY <2>1, <2>3, RegFacts
  <2>4. \A d \in Efds : batch[d] = {}
    BY <2>2 DEF IInv, KernelPointers
  <2> QED BY <1>7, <2>2, <2>3, <2>4 DEF IInv, KernelPointers
<1> QED BY <1>5, <1>6, <1>9, <1>10 DEF IInv

LEMMA SourceRefInv == ASSUME IInv, NEW s \in Sources, SourceRef(s) PROVE IInv'
<1>1. TypeOK'
  <2>1. src[s] \in SourceRecord
    BY DEF IInv, TypeOK
  <2>2. [src[s] EXCEPT !.ref = @ + 1] \in SourceRecord
    BY <2>1 DEF SourceRecord
  <2> QED BY <2>1, <2>2 DEF IInv, TypeOK, SourceRef, control, kernel
<1>2. CountsExact' /\ FreedClean' /\ Linked' /\ InLoop'
  BY DEF IInv, TypeOK, SourceRef, CountsExact, FreedClean, Linked, InLoop, SourceRecord,
         EfdRecord, CanUse
<1>3. QueueExact' /\ KernelPointers'
  BY DEF IInv, SourceRef, QueueExact, Queued, KernelPointers, control, kernel
<1> QED BY <1>1, <1>2, <1>3 DEF IInv

LEMMA SetPriorityInv ==
  ASSUME IInv, NEW s \in Sources, NEW p \in Prios, SetPriority(s, p) PROVE IInv'
<1> USE ConstantsAssumption
<1>1. TypeOK'
  <2>1. src[s] \in SourceRecord
    BY DEF IInv, TypeOK
  <2>2. [src[s] EXCEPT !.prio = p] \in SourceRecord
    BY <2>1 DEF SourceRecord
  <2> QED BY <2>1, <2>2 DEF IInv, TypeOK, SetPriority, control, kernel
<1>2. CountsExact' /\ FreedClean' /\ Linked' /\ InLoop'
  <2>1. src[s] \in SourceRecord /\ src[s].ref # 0
    BY DEF IInv, TypeOK, SetPriority, CanUse
  <2>2. /\ UNCHANGED <<efd, uref, sources>>
        /\ \A t \in Sources : t # s => src'[t] = src[t]
        /\ src'[s] = [src[s] EXCEPT !.prio = p]
    BY DEF IInv, TypeOK, SetPriority
  <2>3. \A t \in Sources : /\ src'[t].ref = src[t].ref /\ FdsOf(t)' = FdsOf(t)
                           /\ src'[t].loop = src[t].loop
    BY <2>1, <2>2 DEF SourceRecord
  <2>4. CountsExact'
    BY <2>2, <2>3 DEF IInv, CountsExact
  <2>5. FreedClean'
    BY <2>1, <2>2, <2>3 DEF IInv, FreedClean
  <2>6. Linked'
    BY <2>2, <2>3 DEF IInv, Linked
  <2>7. InLoop'
    <3>1. \A t \in sources : t \in Sources
      BY DEF IInv, TypeOK
    <3>2. \A d \in Efds : efd[d].source # NoSource => efd[d].source \in Sources
      BY DEF IInv, TypeOK, EfdRecord
    <3> QED BY <2>2, <2>3, <3>1, <3>2 DEF IInv, InLoop
  <2> QED BY <2>4, <2>5, <2>6, <2>7
<1>3. QueueExact' /\ KernelPointers'
  BY DEF IInv, SetPriority, QueueExact, Queued, KernelPointers, control, kernel
<1> QED BY <1>1, <1>2, <1>3 DEF IInv

LEMMA AddFdInv ==
  ASSUME IInv, Intact, AfterRemoval = {}, NEW s \in Sources, NEW f \in Fds, AddFd(s, f)
  PROVE  IInv'
<1> USE ConstantsAssumption
<1> DEFINE Accepted(d) ==
             /\ src[s].loop => reg[f] = NoEfd
             /\ efd' = [efd EXCEPT ![d] = NewEfd(f, s)]
             /\ IF src[s].loop THEN LoopAddFd(f, d) ELSE UNCHANGED <<reg, edge>>
<1>1. PICK d \in Efds :
        /\ efd[d].ref = 0
        /\ src' = [src EXCEPT ![s].fds = <<d>> \o @]
        /\ Accepted(d) \/ UNCHANGED <<efd, reg, edge>>
  BY DEF AddFd
<1>2. /\ UNCHANGED <<uref, run, sources, fd_list, lref, control, level, armed>>
      /\ src[s].ref > 0 /\ UserTurn /\ f \in Fds
      /\ src[s].loop = TRUE => s \in sources
  BY DEF AddFd, CanUse, Removed
<1>3. /\ src[s] \in SourceRecord /\ efd[d] = FreeEfd
      /\ \A t \in Sources : d \notin FdsOf(t)
      /\ \A g \in Fds : reg[g] # d
  <2>1. src[s] \in SourceRecord /\ efd[d] = FreeEfd
    BY <1>1 DEF IInv, TypeOK, FreedClean
  <2>2. \A t \in Sources : d \notin FdsOf(t)
    BY <1>1, <2>1 DEF Intact, FreeEfd
  <2>3. \A g \in Fds : reg[g] # d
    <3>1. efd[d].fd = NoFd /\ d # NoEfd
      BY <2>1 DEF FreeEfd
    <3> QED BY <3>1, RegFacts
  <2> QED BY <2>1, <2>2, <2>3
<1>4. /\ src' \in [Sources -> SourceRecord]
      /\ FdsOf(s)' = FdsOf(s) \cup {d} /\ src'[s].ref = src[s].ref
      /\ src'[s].loop = src[s].loop
      /\ \A t \in Sources : t # s => src'[t] = src[t]
  <2> DEFINE l == <<d>> \o src[s].fds
             o == [src[s] EXCEPT !.fds = l]
  <2>1. l \in Lists /\ ToSet(l) = FdsOf(s) \cup {d}
    <3>1. src[s].fds \in Lists /\ d \notin ToSet(src[s].fds)
      BY <1>3 DEF SourceRecord
    <3> QED BY <3>1, ListAdds
  <2>2. src' = [src EXCEPT ![s] = o]
    BY <1>1
  <2>3. src \in [Sources -> SourceRecord]
    BY DEF IInv, TypeOK
  <2> HIDE DEF l
  <2>4. /\ o \in SourceRecord /\ o.fds = l /\ o.ref = src[s].ref
        /\ o.loop = src[s].loop
    BY <1>3, <2>1 DEF SourceRecord
  <2> HIDE DEF o
  <2> QED BY <2>1, <2>2, <2>3, <2>4
<1>5. /\ efd' \in [Efds -> EfdRecord]
      /\ \A e \in Efds : e # d => efd'[e] = efd[e]
      /\ efd'[d] = NewEfd(f, s) \/ efd'[d] = FreeEfd
  <2>1. NewEfd(f, s) \in EfdRecord
    BY DEF NewEfd, EfdRecord
  <2>2. CASE Accepted(d)
    BY <1>3, <2>1, <2>2 DEF IInv, TypeOK
  <2>3. CASE efd' = efd
    BY <1>3, <2>3 DEF IInv, TypeOK
  <2> QED BY <1>1, <2>2, <2>3
<1>6. /\ reg' \in [Fds -> Efds \cup {NoEfd}] /\ edge' \in [Fds -> BOOLEAN]
      /\ \A g \in Fds : g # f => reg'[g] = reg[g] /\ edge'[g] = edge[g]
      /\ \/ reg'[f] = reg[f] /\ edge'[f] = edge[f]
         \/ reg'[f] = d /\ s \in sources /\ efd'[d] = NewEfd(f, s)
  <2>1. CASE Accepted(d) /\ src[s].loop
    <3>1. reg' = [reg EXCEPT ![f] = d] /\ edge' = [edge EXCEPT ![f] = level[f] # {}]
      BY <2>1 DEF LoopAddFd
    <3>2. edge' \in [Fds -> BOOLEAN] /\ \A g \in Fds : g # f => edge'[g] = edge[g]
      BY <3>1 DEF IInv, TypeOK
    <3>3. /\ reg' \in [Fds -> Efds \cup {NoEfd}] /\ reg'[f] = d
          /\ \A g \in Fds : g # f => reg'[g] = reg[g]
      BY <3>1 DEF IInv, TypeOK
    <3>4. efd'[d] = NewEfd(f, s) /\ s \in sources
      BY <1>2, <2>1 DEF IInv, TypeOK, SourceRecord
    <3> QED BY <3>2, <3>3, <3>4
  <2>2. CASE Accepted(d) /\ ~src[s].loop
    BY <2>2 DEF IInv, TypeOK
  <2>3. CASE UNCHANGED <<efd, reg, edge>>
    BY <2>3 DEF IInv, TypeOK
  <2> QED BY <1>1, <2>1, <2>2, <2>3
<1> HIDE DEF Accepted
<1>7. TypeOK'
  BY <1>2, <1>4, <1>5, <1>6 DEF IInv, TypeOK, control
<1>8. CountsExact' /\ FreedClean'
  <2>1. CountsExact'
    BY <1>2, <1>4, <1>5 DEF IInv, CountsExact, NewEfd, FreeEfd
  <2>2. FreedClean'
    BY <1>2, <1>4, <1>5 DEF IInv, FreedClean, NewEfd
  <2> QED BY <2>1, <2>2
<1>9. Linked'
  <2> SUFFICES ASSUME NEW t \in Sources, NEW e \in Efds
               PROVE  efd'[e].source = t <=> e \in FdsOf(t)' /\ efd'[e].ref > 0
    BY DEF Linked
  <2>1. efd[e].source = t <=> e \in FdsOf(t) /\ efd[e].ref > 0
    BY DEF IInv, Linked
  <2>2. CASE e # d
    BY <1>4, <1>5, <2>1, <2>2
  <2>3. CASE e = d
    <3>1. CASE efd'[d] = NewEfd(f, s)
      <4>1. efd'[d].source = s /\ efd'[d].ref = 1
        BY <3>1 DEF NewEfd
      <4> QED BY <1>3, <1>4, <2>3, <4>1
    <3>2. CASE efd'[d] = FreeEfd
      BY <2>3, <3>2 DEF FreeEfd
    <3> QED BY <1>5, <3>1, <3>2
  <2> QED BY <2>2, <2>3
<1>10. efd[d].dispatched = FALSE /\ efd'[d].dispatched = FALSE
  BY <1>3, <1>5 DEF FreeEfd, NewEfd
<1>11. QueueExact'
  BY <1>2, <1>5, <1>10 DEF IInv, QueueExact, Queued, control
<1>12. InLoop'
  <2>1. \A t \in Sources : src'[t].loop = src[t].loop
    BY <1>4
  <2>2. \A t \in sources' : src'[t].loop = TRUE
    BY <1>2, <2>1 DEF IInv, TypeOK, InLoop
  <2>3. ASSUME NEW e \in Efds, efd'[e].dispatched, efd'[e].source # NoSource
        PROVE  src'[efd'[e].source].loop = TRUE
    <3>1. efd'[e] = efd[e] /\ efd[e] \in EfdRecord
      BY <1>5, <1>10, <2>3 DEF IInv, TypeOK
    <3>2. efd[e].source \in Sources
      BY <2>3, <3>1 DEF EfdRecord
    <3> QED BY <2>1, <2>3, <3>1, <3>2 DEF IInv, InLoop
  <2> QED BY <2>2, <2>3 DEF InLoop
<1>13. KernelPointers'
  <2>1. ASSUME NEW g \in Fds, reg'[g] # NoEfd
        PROVE  efd'[reg'[g]].fd = g /\ efd'[reg'[g]].source \in sources'
    <3>1. CASE reg'[g] = reg[g]
      <4>1. reg[g] # NoEfd /\ reg[g] \in Efds /\ reg[g] # d
        BY <1>3, <2>1, <3>1 DEF IInv, TypeOK
      <4>2. efd'[reg[g]] = efd[reg[g]]
        BY <1>5, <4>1
      <4> QED BY <1>2, <3>1, <4>1, <4>2, RegFacts
    <3>2. CASE reg'[g] # reg[g]
      BY <1>2, <1>6, <3>2 DEF NewEfd
    <3> QED BY <3>1, <3>2
  <2>2. ASSUME NEW g \in Fds, edge'[g] PROVE reg'[g] # NoEfd
    BY <1>6, <2>2 DEF IInv, KernelPointers
  <2>3. \A e \in Efds : batch'[e] = {}
    BY <1>2 DEF IInv, KernelPointers, UserTurn, control
  <2> QED BY <2>1, <2>2, <2>3 DEF KernelPointers
<1> QED BY <1>7, <1>8, <1>9, <1>11, <1>12, <1>13 DEF IInv

(* A heap that differs from efd in nothing but the events recorded.        *)
SameLinks(h) ==
  \A d \in Efds : /\ h[d].source = efd[d].source
                  /\ h[d].dispatched = efd[d].dispatched
                  /\ h[d].fd = efd[d].fd

(* hev_event_source_unref: with the last reference, exactly the source and *)
(* its links are gone.                                                     *)
Unreferenced(s, F) ==
  /\ src' \in [Sources -> SourceRecord]
  /\ src'[s].ref = src[s].ref - 1
  /\ src'[s].ref = 0 => src'[s] = FreeSrc
  /\ src'[s].ref # 0 => src'[s].loop = src[s].loop
  /\ \A t \in Sources : t # s => src'[t] = src[t]
  /\ Linked' /\ HeapOK(efd')
  /\ level' \in [Fds -> SUBSET Events] /\ armed' \in SUBSET Fds
  /\ \A d \in Efds :
       /\ efd'[d].dispatched <=> efd[d].dispatched /\ d \notin F
       /\ efd'[d].source # NoSource => efd'[d].source = efd[d].source
                                       /\ efd'[d].fd = efd[d].fd
       /\ efd'[d].source # efd[d].source => efd[d].source = s /\ src[s].ref = 1

LEMMA UnrefFacts ==
  ASSUME IInv, Intact, NEW s \in Sources, src[s].ref > 0,
         NEW h, HeapOK(h), SameLinks(h),
         NEW F \in SUBSET Efds, \A d \in F : efd[d].dispatched,
         UnrefSource(s, h, F)
  PROVE  Unreferenced(s, F)
<1> USE ConstantsAssumption
<1> DEFINE U == IF LastRef(s) THEN FdsOf(s) ELSE {}
<1>1. src[s] \in SourceRecord /\ src \in [Sources -> SourceRecord]
  BY DEF IInv, TypeOK
<1>2. /\ src' \in [Sources -> SourceRecord]
      /\ src'[s].ref = src[s].ref - 1
      /\ src'[s].ref = 0 => src'[s] = FreeSrc
      /\ src'[s].ref # 0 => src'[s].loop = src[s].loop /\ FdsOf(s)' = FdsOf(s)
      /\ \A t \in Sources : t # s => src'[t] = src[t]
  <2>1. CASE LastRef(s)
    <3>1. src' = [src EXCEPT ![s] = FreeSrc]
      BY <2>1 DEF UnrefSource
    <3>2. FreeSrc \in SourceRecord /\ FreeSrc.ref = 0
      BY EmptyList DEF FreeSrc, SourceRecord
    <3> QED BY <1>1, <2>1, <3>1, <3>2 DEF LastRef
  <2>2. CASE ~LastRef(s)
    <3>1. src' = [src EXCEPT ![s] = [src[s] EXCEPT !.ref = src[s].ref - 1]]
      BY <2>2 DEF UnrefSource, OneLess
    <3>2. src[s].ref - 1 \in Nat /\ src[s].ref - 1 # 0
      BY <1>1, <2>2 DEF SourceRecord, LastRef
    <3>3. [src[s] EXCEPT !.ref = src[s].ref - 1] \in SourceRecord
      BY <1>1, <3>2 DEF SourceRecord
    <3> QED BY <1>1, <3>1, <3>2, <3>3 DEF SourceRecord
  <2> QED BY <2>1, <2>2
<1>3. U \in SUBSET Efds /\ \A d \in U : efd[d].source = s
  <2>1. FdsOf(s) \in SUBSET Efds
    BY <1>1, ListHolds DEF SourceRecord
  <2> QED BY <2>1 DEF Intact, IInv, Linked
<1>4. efd' = Released(h, U, F)
  BY DEF UnrefSource
<1>5. \A d \in U : h[d].source # NoSource
  BY <1>3 DEF SameLinks
<1>6. \A d \in F : h[d].dispatched
  BY DEF SameLinks
<1> HIDE DEF U
<1>7. /\ HeapOK(efd')
      /\ \A d \in Efds :
           /\ efd'[d].source = IF d \in U THEN NoSource ELSE h[d].source
           /\ efd'[d].dispatched <=> h[d].dispatched /\ d \notin F
           /\ efd'[d].source # NoSource => efd'[d].fd = h[d].fd
  <2>1. /\ HeapOK(Released(h, U, F))
        /\ \A d \in Efds :
             /\ Released(h, U, F)[d].source = IF d \in U THEN NoSource ELSE h[d].source
             /\ Released(h, U, F)[d].dispatched <=> h[d].dispatched /\ d \notin F
             /\ Released(h, U, F)[d].source # NoSource =>
                  Released(h, U, F)[d].fd = h[d].fd
    BY <1>3, <1>5, <1>6, ReleasedFacts
  <2> QED BY <1>4, <2>1
<1>8. \A d \in Efds :
        /\ efd'[d].source = IF d \in U THEN NoSource ELSE efd[d].source
        /\ efd'[d].dispatched <=> efd[d].dispatched /\ d \notin F
        /\ efd'[d].source # NoSource => efd'[d].fd = efd[d].fd
  BY <1>7 DEF SameLinks
<1>9. /\ level' \in [Fds -> SUBSET Events] /\ armed' \in SUBSET Fds
  BY DEF UnrefSource, CloseFds, IInv, TypeOK
<1>10. Linked'
  <2> SUFFICES ASSUME NEW t \in Sources, NEW d \in Efds
               PROVE  efd'[d].source = t <=> d \in FdsOf(t)' /\ efd'[d].ref > 0
    BY DEF Linked
  <2>1. (efd[d].source = t <=> d \in FdsOf(t)) /\ t # NoSource
    BY DEF IInv, Linked, Intact
  <2>2. efd'[d].source = t => efd'[d].ref > 0
    BY <1>7, <2>1 DEF HeapOK
  <2>3. CASE t # s \/ ~LastRef(s)
    <3>1. d \in FdsOf(t)' <=> d \in FdsOf(t)
      BY <1>1, <1>2, <2>3 DEF LastRef, SourceRecord
    <3>2. d \in U => t # s
      BY <2>3 DEF U
    <3> QED BY <1>3, <1>8, <2>1, <2>2, <3>1, <3>2
  <2>4. CASE t = s /\ LastRef(s)
    <3>1. FdsOf(t)' = {}
      BY <1>2, <2>4, EmptyList DEF LastRef, FreeSrc
    <3>2. d \in U <=> efd[d].source = s
      BY <2>1, <2>4 DEF U
    <3> QED BY <1>8, <2>1, <2>4, <3>1, <3>2
  <2> QED BY <2>3, <2>4
<1>11. \A d \in Efds : efd'[d].source # efd[d].source => efd[d].source = s /\ src[s].ref = 1
  BY <1>3, <1>8 DEF U, LastRef
<1> QED BY <1>2, <1>7, <1>8, <1>9, <1>10, <1>11 DEF Unreferenced


(* Consuming IN from a queued object touches no link.                      *)
LEMMA ConsumedFacts ==
  ASSUME IInv, NEW d \in Efds, efd[d].ref > 0
  PROVE  HeapOK(Consumed(d)) /\ SameLinks(Consumed(d))
<1> DEFINE h == Consumed(d)
<1>1. efd[d] \in EfdRecord /\ efd \in [Efds -> EfdRecord]
  BY DEF IInv, TypeOK
<1>2. /\ h \in [Efds -> EfdRecord]
      /\ \A e \in Efds : e # d => h[e] = efd[e]
      /\ h[d].ref = efd[d].ref /\ h[d].source = efd[d].source
      /\ h[d].dispatched = efd[d].dispatched /\ h[d].fd = efd[d].fd
  <2> DEFINE o == [efd[d] EXCEPT !.revents = efd[d].revents \ {"IN"}]
  <2>1. o \in EfdRecord
    BY <1>1 DEF EfdRecord
  <2>2. /\ o.ref = efd[d].ref /\ o.source = efd[d].source
        /\ o.dispatched = efd[d].dispatched /\ o.fd = efd[d].fd
    BY <1>1 DEF EfdRecord
  <2>3. h = [efd EXCEPT ![d] = o]
    BY DEF Consumed
  <2> HIDE DEF o, h
  <2> QED BY <1>1, <2>1, <2>2, <2>3
<1> HIDE DEF h
<1>3. HeapOK(h)
  BY <1>2, HeapIsOK DEF HeapOK
<1>4. SameLinks(h)
  BY <1>2 DEF SameLinks
<1> QED BY <1>3, <1>4 DEF h

(* A step that only changes the events recorded in the objects.            *)
LEMMA RelabelInv ==
  ASSUME IInv, Intact, HeapOK(efd'), SameLinks(efd'),
         UNCHANGED <<src, uref, run, sources, fd_list, lref, timeout, batch, reg, edge, armed>>,
         level' \in [Fds -> SUBSET Events], pc # "queue",
         pc' = "callback", cur' = Head(fd_list), fd_list # <<>>
  PROVE  IInv'
<1>1. Head(fd_list) \in Efds
  BY HeadTailProperties DEF IInv, TypeOK
<1>2. TypeOK'
  BY <1>1 DEF IInv, TypeOK, HeapOK
<1>3. CountsExact' /\ FreedClean'
  BY DEF IInv, CountsExact, FreedClean, HeapOK
<1>4. Linked'
  <2> SUFFICES ASSUME NEW t \in Sources, NEW e \in Efds
               PROVE  efd'[e].source = t <=> e \in FdsOf(t) /\ efd'[e].ref > 0
    BY DEF Linked
  <2>1. (efd[e].source = t <=> e \in FdsOf(t)) /\ t # NoSource
    BY ConstantsAssumption DEF IInv, Linked, Intact
  <2>2. efd'[e].source = efd[e].source
    BY DEF SameLinks
  <2>3. efd'[e].source = t => efd'[e].ref > 0
    BY <2>1 DEF HeapOK
  <2> QED BY <2>1, <2>2, <2>3
<1>5. QueueExact'
  BY DEF IInv, QueueExact, Queued, SameLinks
<1>6. InLoop'
  BY DEF IInv, InLoop, SameLinks
<1>7. KernelPointers'
  <2>1. \A d \in Efds : batch[d] = {}
    BY DEF IInv, KernelPointers
  <2>2. \A f \in Fds : reg[f] # NoEfd => efd'[reg[f]].fd = f /\ efd'[reg[f]].source \in sources
    BY RegFacts DEF SameLinks
  <2> QED BY <2>1, <2>2 DEF IInv, KernelPointers
<1> QED BY <1>2, <1>3, <1>4, <1>5, <1>6, <1>7 DEF IInv

(* The object q leaves fd_list.                                            *)
LEMMA DequeuedFacts ==
  ASSUME NEW h, HeapOK(h), NEW q \in Efds, h[q].dispatched
  PROVE  /\ HeapOK(Released(h, {}, {q}))
         /\ \A e \in Efds :
              /\ Released(h, {}, {q})[e].source = h[e].source
              /\ Released(h, {}, {q})[e].dispatched <=> h[e].dispatched /\ e # q
              /\ Released(h, {}, {q})[e].source # NoSource =>
                   Released(h, {}, {q})[e].fd = h[e].fd
<1> DEFINE U == {}
           F == {q}
<1>1. /\ U \in SUBSET Efds /\ \A d \in U : h[d].source # NoSource
      /\ F \in SUBSET Efds /\ \A d \in F : h[d].dispatched
  OBVIOUS
<1>2. ASSUME NEW e \in Efds
      PROVE  /\ e \notin U
             /\ e \in F <=> e = q
  OBVIOUS
<1> SUFFICES /\ HeapOK(Released(h, U, F))
             /\ \A e \in Efds : Released(h, U, F)[e].source = h[e].source
             /\ \A e \in Efds :
                  Released(h, U, F)[e].dispatched <=> h[e].dispatched /\ e # q
             /\ \A e \in Efds : Released(h, U, F)[e].source # NoSource =>
                  Released(h, U, F)[e].fd = h[e].fd
  OBVIOUS
<1> HIDE DEF U, F
<1>3. HeapOK(Released(h, U, F))
  BY <1>1, ReleasedFacts
<1>4. \A e \in Efds :
        Released(h, U, F)[e].source = IF e \in U THEN NoSource ELSE h[e].source
  BY <1>1, ReleasedFacts
<1>5. \A e \in Efds :
        Released(h, U, F)[e].dispatched <=> h[e].dispatched /\ e \notin F
  BY <1>1, ReleasedFacts
<1>6. \A e \in Efds : Released(h, U, F)[e].source # NoSource =>
        Released(h, U, F)[e].fd = h[e].fd
  BY <1>1, ReleasedFacts
<1> QED BY <1>2, <1>3, <1>4, <1>5, <1>6

(* The source of the object q lets it go.                                  *)
LEMMA UnlinkedFacts ==
  ASSUME NEW h, HeapOK(h), NEW q \in Efds, h[q].source # NoSource
  PROVE  /\ HeapOK(Released(h, {q}, {}))
         /\ \A e \in Efds :
              Released(h, {q}, {})[e].source = IF e = q THEN NoSource ELSE h[e].source
         /\ \A e \in Efds : Released(h, {q}, {})[e].dispatched <=> h[e].dispatched
         /\ \A e \in Efds : Released(h, {q}, {})[e].source # NoSource =>
              Released(h, {q}, {})[e].fd = h[e].fd
<1> DEFINE U == {q}
           F == {}
<1>1. /\ U \in SUBSET Efds /\ \A d \in U : h[d].source # NoSource
      /\ F \in SUBSET Efds /\ \A d \in F : h[d].dispatched
  OBVIOUS
<1>2. ASSUME NEW e \in Efds
      PROVE  /\ e \notin F
             /\ e \in U <=> e = q
  OBVIOUS
<1> SUFFICES
      /\ HeapOK(Released(h, U, F))
      /\ \A e \in Efds :
           Released(h, U, F)[e].source = IF e = q THEN NoSource ELSE h[e].source
      /\ \A e \in Efds : Released(h, U, F)[e].dispatched <=> h[e].dispatched
      /\ \A e \in Efds : Released(h, U, F)[e].source # NoSource =>
           Released(h, U, F)[e].fd = h[e].fd
  OBVIOUS
<1> HIDE DEF U, F
<1>3. HeapOK(Released(h, U, F))
  BY <1>1, ReleasedFacts
<1>4. \A e \in Efds :
        Released(h, U, F)[e].source = IF e \in U THEN NoSource ELSE h[e].source
  BY <1>1, ReleasedFacts
<1>5. \A e \in Efds :
        Released(h, U, F)[e].dispatched <=> h[e].dispatched /\ e \notin F
  BY <1>1, ReleasedFacts
<1>6. \A e \in Efds : Released(h, U, F)[e].source # NoSource =>
        Released(h, U, F)[e].fd = h[e].fd
  BY <1>1, ReleasedFacts
<1> QED BY <1>2, <1>3, <1>4, <1>5, <1>6

(* The end of dispatch_events.                                             *)
LEMMA FinishInv ==
  ASSUME IInv, Intact, NEW h, HeapOK(h), SameLinks(h),
         pc \in {"dispatch", "callback"}, fd_list # <<>>,
         FinishHead(h, Head(fd_list)),
         UNCHANGED <<src, uref, run, sources, lref, batch, cur, reg>>,
         level' \in [Fds -> SUBSET Events], edge' \in [Fds -> BOOLEAN],
         armed' \in SUBSET Fds, \A f \in Fds : edge'[f] => reg[f] # NoEfd
  PROVE  IInv'
<1> USE ConstantsAssumption
<1> DEFINE d == Head(fd_list)
<1>1. /\ fd_list \in Seq(Efds) /\ d \in Efds /\ efd[d].dispatched
      /\ \A i, j \in 1..Len(fd_list) : fd_list[i] = fd_list[j] => i = j
  <2>1. fd_list \in Seq(Efds)
    BY DEF IInv, TypeOK
  <2>2. d \in Efds /\ d = fd_list[1] /\ 1 \in 1..Len(fd_list)
    BY <2>1, HeadTailProperties, EmptySeq
  <2>3. Queued(d)
    BY <2>2 DEF Queued
  <2> QED BY <2>1, <2>2, <2>3 DEF IInv, QueueExact
<1>2. timeout' = 0 /\ pc' \in {"wait", "user"}
  BY DEF FinishHead, NextIteration
<1>3. /\ HeapOK(efd') /\ fd_list' \in Seq(Efds)
      /\ \A i, j \in 1..Len(fd_list') : fd_list'[i] = fd_list'[j] => i = j
      /\ \A e \in Efds :
           /\ efd'[e].source = efd[e].source
           /\ efd'[e].source # NoSource => efd'[e].fd = efd[e].fd
           /\ efd'[e].dispatched => efd[e].dispatched
           /\ efd'[e].dispatched <=> Queued(e)'
  <2>1. CASE StillReady(h, d)
    <3>1. efd' = h /\ fd_list' = fd_list
      BY <2>1 DEF FinishHead
    <3> QED BY <1>1, <3>1 DEF SameLinks, IInv, QueueExact, Queued
  <2>2. CASE ~StillReady(h, d)
    <3>1. efd' = Released(h, {}, {d}) /\ fd_list' = Tail(fd_list)
      BY <2>2 DEF FinishHead
    <3>2. h[d].dispatched
      BY <1>1 DEF SameLinks
    <3>3. /\ HeapOK(Released(h, {}, {d}))
          /\ \A e \in Efds :
              /\ Released(h, {}, {d})[e].source = h[e].source
              /\ Released(h, {}, {d})[e].dispatched <=> h[e].dispatched /\ e # d
              /\ Released(h, {}, {d})[e].source # NoSource =>
                   Released(h, {}, {d})[e].fd = h[e].fd
      <4> HIDE DEF d
      <4> QED BY <1>1, <3>2, DequeuedFacts
    <3>4. /\ HeapOK(efd')
          /\ \A e \in Efds :
              /\ efd'[e].source = h[e].source
              /\ efd'[e].dispatched <=> h[e].dispatched /\ e # d
              /\ efd'[e].source # NoSource => efd'[e].fd = h[e].fd
      <4> HIDE DEF d
      <4> QED BY <3>1, <3>3
    <3>5. /\ fd_list' \in Seq(Efds)
          /\ \A i, j \in 1..Len(fd_list') : fd_list'[i] = fd_list'[j] => i = j
          /\ \A e : (\E i \in 1..Len(fd_list') : fd_list'[i] = e) <=> e # d /\ Queued(e)
      <4>1. /\ Tail(fd_list) \in Seq(Efds)
            /\ \A i, j \in 1..Len(Tail(fd_list)) :
                 Tail(fd_list)[i] = Tail(fd_list)[j] => i = j
            /\ \A e : (\E i \in 1..Len(Tail(fd_list)) : Tail(fd_list)[i] = e)
                        <=> e # d /\ \E i \in 1..Len(fd_list) : fd_list[i] = e
        BY <1>1, TailFacts
      <4> QED BY <3>1, <4>1 DEF Queued
    <3>6. ASSUME NEW e \in Efds PROVE efd'[e].dispatched <=> Queued(e)'
      <4>1. efd'[e].dispatched <=> efd[e].dispatched /\ e # d
        BY <3>4 DEF SameLinks
      <4>2. efd[e].dispatched <=> Queued(e)
        BY DEF IInv, QueueExact
      <4> QED BY <3>5, <4>1, <4>2 DEF Queued
    <3> QED BY <3>4, <3>5, <3>6 DEF SameLinks
  <2> QED BY <2>1, <2>2
<1> HIDE DEF d
<1>4. TypeOK'
  BY <1>2, <1>3 DEF IInv, TypeOK, HeapOK
<1>5. CountsExact' /\ FreedClean'
  BY <1>3 DEF IInv, CountsExact, FreedClean, HeapOK
<1>6. Linked'
  <2> SUFFICES ASSUME NEW t \in Sources, NEW e \in Efds
               PROVE  efd'[e].source = t <=> e \in FdsOf(t) /\ efd'[e].ref > 0
    BY DEF Linked
  <2>1. (efd[e].source = t <=> e \in FdsOf(t)) /\ t # NoSource
    BY DEF IInv, Linked, Intact
  <2>2. efd'[e].source = t => efd'[e].ref > 0
    <3>1. efd'[e].ref = (IF efd'[e].source = NoSource THEN 0 ELSE 1)
                      + (IF efd'[e].dispatched THEN 1 ELSE 0)
      BY <1>3 DEF HeapOK
    <3> QED BY <2>1, <3>1
  <2>3. efd'[e].source = efd[e].source
    BY <1>3
  <2> QED BY <2>1, <2>2, <2>3
<1>7. QueueExact'
  BY <1>2, <1>3 DEF QueueExact
<1>8. InLoop'
  BY <1>3 DEF IInv, InLoop
<1>9. KernelPointers'
  <2>1. \A e \in Efds : batch[e] = {}
    BY DEF IInv, KernelPointers
  <2>2. ASSUME NEW f \in Fds, reg[f] # NoEfd
        PROVE  efd'[reg[f]].fd = f /\ efd'[reg[f]].source \in sources
    BY <1>3, <2>2, RegFacts
  <2> QED BY <2>1, <2>2 DEF KernelPointers
<1> QED BY <1>4, <1>5, <1>6, <1>7, <1>8, <1>9 DEF IInv


(* dispatch_events.                                                        *)
LEMMA HeadFacts ==
  ASSUME IInv, fd_list # <<>>
  PROVE  /\ Head(fd_list) \in Efds /\ efd[Head(fd_list)].dispatched
         /\ efd[Head(fd_list)].ref > 0
<1> DEFINE d == Head(fd_list)
<1>1. fd_list \in Seq(Efds)
  BY DEF IInv, TypeOK
<1>2. d \in Efds /\ d = fd_list[1] /\ 1 \in 1..Len(fd_list)
  BY <1>1, HeadTailProperties, EmptySeq
<1>3. efd[d].dispatched
  BY <1>2 DEF Queued, IInv, QueueExact
<1>4. efd[d].ref > 0
  BY <1>2, <1>3 DEF IInv, CountsExact
<1> QED BY <1>2, <1>3, <1>4

LEMMA SameFacts == IInv => HeapOK(efd) /\ SameLinks(efd)
  BY HeapIsOK DEF SameLinks

LEMMA DispatchSkipInv == ASSUME IInv, Intact, DispatchSkip PROVE IInv'
<1> DEFINE d == Head(fd_list)
<1>1. /\ fd_list # <<>> /\ pc = "dispatch"
      /\ UNCHANGED <<src, uref, run, sources, lref, batch, cur, level, edge, reg, armed>>
      /\ FinishHead(efd, d) \/ FinishHead(Consumed(d), d)
  BY DEF DispatchSkip, kernel
<1>2. d \in Efds /\ efd[d].ref > 0
  BY <1>1, HeadFacts
<1> HIDE DEF d
<1>3. PICK h \in {efd, Consumed(d)} : FinishHead(h, d)
  BY <1>1
<1>4. HeapOK(h) /\ SameLinks(h)
  BY <1>2, SameFacts, ConsumedFacts
<1>5. /\ level' \in [Fds -> SUBSET Events] /\ edge' \in [Fds -> BOOLEAN]
      /\ armed' \in SUBSET Fds /\ \A f \in Fds : edge'[f] => reg[f] # NoEfd
  BY <1>1 DEF IInv, TypeOK, KernelPointers
<1> QED BY <1>1, <1>3, <1>4, <1>5, FinishInv DEF d

LEMMA DispatchCallbackInv == ASSUME IInv, Intact, DispatchCallback PROVE IInv'
<1> DEFINE d == Head(fd_list)
<1>1. /\ fd_list # <<>> /\ pc = "dispatch" /\ pc' = "callback" /\ cur' = d
      /\ UNCHANGED <<src, uref, run, sources, fd_list, lref, timeout, batch, edge, reg, armed>>
      /\ efd' = efd \/ efd' = Consumed(d)
  BY DEF DispatchCallback
<1>2. d \in Efds /\ efd[d].ref > 0
  BY <1>1, HeadFacts
<1>3. level' \in [Fds -> SUBSET Events]
  <2> DEFINE read == [level EXCEPT ![efd[d].fd] = @ \ {"IN"}]
  <2>1. level \in [Fds -> SUBSET Events]
    BY DEF IInv, TypeOK
  <2>2. level' = level \/ level' = read
    BY DEF DispatchCallback
  <2>3. read \in [Fds -> SUBSET Events]
    BY <2>1
  <2> HIDE DEF read
  <2> QED BY <2>1, <2>2, <2>3
<1> HIDE DEF d
<1>4. HeapOK(efd') /\ SameLinks(efd')
  <2>1. CASE efd' = efd
    BY <2>1, HeapIsOK DEF HeapOK, SameLinks
  <2>2. CASE efd' = Consumed(d)
    <3>1. HeapOK(Consumed(d)) /\ SameLinks(Consumed(d))
      BY <1>2, ConsumedFacts
    <3> QED BY <2>2, <3>1
  <2> QED BY <1>1, <2>1, <2>2
<1> QED BY <1>1, <1>3, <1>4, RelabelInv DEF d

LEMMA ReadFdInv == ASSUME IInv, Intact, ReadFd PROVE IInv'
<1>1. /\ pc = "callback" /\ pc' = "callback" /\ cur' = cur
      /\ UNCHANGED <<src, uref, run, sources, fd_list, lref, timeout, batch, edge, reg, armed>>
      /\ efd' = efd \/ efd' = Consumed(cur)
  BY DEF ReadFd, control
<1>2. fd_list # <<>> /\ cur = Head(fd_list)
  BY <1>1 DEF IInv, QueueExact
<1>3. cur \in Efds /\ efd[cur].ref > 0
  BY <1>2, HeadFacts
<1>4. level' \in [Fds -> SUBSET Events]
  <2>1. level \in [Fds -> SUBSET Events]
    BY DEF IInv, TypeOK
  <2>2. level' = level \/ level' = [level EXCEPT ![efd[cur].fd] = @ \ {"IN"}]
    BY DEF ReadFd
  <2> QED BY <2>1, <2>2
<1>5. HeapOK(efd') /\ SameLinks(efd')
  <2>1. CASE efd' = efd
    BY <2>1, HeapIsOK DEF HeapOK, SameLinks
  <2>2. CASE efd' = Consumed(cur)
    <3>1. HeapOK(Consumed(cur)) /\ SameLinks(Consumed(cur))
      BY <1>3, ConsumedFacts
    <3> QED BY <2>2, <3>1
  <2> QED BY <1>1, <2>1, <2>2
<1> QED BY <1>1, <1>2, <1>4, <1>5, RelabelInv

LEMMA ReturnTrueInv == ASSUME IInv, Intact, ReturnTrue PROVE IInv'
<1> USE ConstantsAssumption
<1>1. /\ pc = "callback" /\ FinishHead(efd, cur)
      /\ UNCHANGED <<src, uref, run, sources, lref, batch, cur, reg>>
  BY DEF ReturnTrue
<1>2. fd_list # <<>> /\ cur = Head(fd_list)
  BY <1>1 DEF IInv, QueueExact
<1>3. cur \in Efds
  BY <1>2, HeadFacts
<1>4. /\ level' \in [Fds -> SUBSET Events] /\ edge' \in [Fds -> BOOLEAN]
      /\ armed' \in SUBSET Fds /\ \A f \in Fds : edge'[f] => reg[f] # NoEfd
  <2> DEFINE s == efd[cur].source
  <2>1. /\ level \in [Fds -> SUBSET Events] /\ edge \in [Fds -> BOOLEAN]
        /\ armed \in SUBSET Fds /\ \A f \in Fds : edge[f] => reg[f] # NoEfd
    BY DEF IInv, TypeOK, KernelPointers
  <2>2. CASE s # NoSource /\ src[s].loop
    <3>1. Prepare(s)
      BY <2>2 DEF ReturnTrue
    <3>2. s \in Sources
      BY <1>3, <2>2 DEF IInv, TypeOK, EfdRecord
    <3>3. {"IN"} \in SUBSET Events
      BY DEF Events
    <3> HIDE DEF s
    <3>4. level' \in [Fds -> SUBSET Events]
      BY <2>1, <3>1, <3>3 DEF Prepare, PreparedLevel
    <3>5. OwnFds(s) \in SUBSET Fds
      BY <3>2 DEF OwnFds
    <3>6. armed' \in SUBSET Fds
      BY <2>1, <3>1, <3>5 DEF Prepare, PreparedArmed
    <3>7. edge' \in [Fds -> BOOLEAN] /\ \A f \in Fds : edge'[f] => reg[f] # NoEfd
      BY <2>1, <3>1 DEF Prepare
    <3> QED BY <3>4, <3>6, <3>7
  <2>3. CASE ~(s # NoSource /\ src[s].loop)
    BY <2>1, <2>3 DEF ReturnTrue
  <2> QED BY <2>2, <2>3
<1> QED BY <1>1, <1>2, <1>4, SameFacts, FinishInv


(* A source loses a reference, and the kernel no longer holds pointers of  *)
(* it when it is out of the loop.                                          *)
LEMMA RemovalInv ==
  ASSUME IInv, Intact, NEW s \in Sources, src[s].ref > 0,
         NEW h, HeapOK(h), SameLinks(h),
         NEW F \in SUBSET Efds, \A d \in F : efd[d].dispatched,
         UnrefSource(s, h, F),
         sources' = sources \/ sources' = sources \ {s},
         uref' \in [Sources -> Nat], \A t \in Sources : t # s => uref'[t] = uref[t],
         src[s].ref - 1 = uref'[s] + (IF s \in sources' THEN 1 ELSE 0),
         UNCHANGED <<run, lref, batch, cur>>, pc \in {"user", "callback", "freed"},
         timeout' \in {-1, 0}, pc' \in {"user", "wait", "callback", "freed"},
         fd_list' \in Seq(Efds), QueueExact',
         NEW G \in SUBSET Fds, LoopDelFds(G),
         \A f \in Fds : reg[f] # NoEfd /\ f \notin G => efd[reg[f]].source \in sources'
  PROVE  IInv'
<1> USE ConstantsAssumption
<1>1. /\ src' \in [Sources -> SourceRecord]
      /\ src'[s].ref = src[s].ref - 1
      /\ src'[s].ref = 0 => src'[s] = FreeSrc
      /\ src'[s].ref # 0 => src'[s].loop = src[s].loop
      /\ \A t \in Sources : t # s => src'[t] = src[t]
      /\ Linked' /\ HeapOK(efd')
      /\ level' \in [Fds -> SUBSET Events] /\ armed' \in SUBSET Fds
      /\ \A d \in Efds :
           /\ efd'[d].dispatched <=> efd[d].dispatched /\ d \notin F
           /\ efd'[d].source # NoSource => efd'[d].source = efd[d].source
                                           /\ efd'[d].fd = efd[d].fd
           /\ efd'[d].source # efd[d].source => efd[d].source = s /\ src[s].ref = 1
  <2>1. Unreferenced(s, F)
    BY UnrefFacts
  <2> QED BY <2>1 DEF Unreferenced
<1>2. /\ reg' \in [Fds -> Efds \cup {NoEfd}] /\ edge' \in [Fds -> BOOLEAN]
      /\ \A f \in Fds : reg'[f] = IF f \in G THEN NoEfd ELSE reg[f]
      /\ \A f \in Fds : edge'[f] => f \notin G /\ edge[f]
  BY DEF LoopDelFds, IInv, TypeOK
<1>3. /\ sources' \in SUBSET Sources
      /\ \A t \in Sources : t # s => (t \in sources' <=> t \in sources)
  BY DEF IInv, TypeOK
<1>4. TypeOK'
  BY <1>1, <1>2, <1>3 DEF IInv, TypeOK, HeapOK
<1>5. CountsExact' /\ FreedClean'
  <2>1. \A t \in Sources : src'[t].ref = uref'[t] + (IF t \in sources' THEN 1 ELSE 0)
    <3> TAKE t \in Sources
    <3>1. CASE t = s
      BY <1>1, <3>1
    <3>2. CASE t # s
      <4>1. src[t].ref = uref[t] + (IF t \in sources THEN 1 ELSE 0)
        BY DEF IInv, CountsExact
      <4> QED BY <1>1, <1>3, <3>2, <4>1
    <3> QED BY <3>1, <3>2
  <2>2. ASSUME NEW t \in Sources PROVE src'[t].ref = 0 => src'[t] = FreeSrc
    <3>1. src[t].ref = 0 => src[t] = FreeSrc
      BY DEF IInv, FreedClean
    <3>2. CASE t = s
      BY <1>1, <3>2
    <3>3. CASE t # s
      BY <1>1, <3>1, <3>3
    <3> QED BY <3>2, <3>3
  <2>3. \A d \in Efds :
          /\ efd'[d].ref = (IF efd'[d].source = NoSource THEN 0 ELSE 1)
                           + (IF efd'[d].dispatched THEN 1 ELSE 0)
          /\ efd'[d].ref = 0 => efd'[d] = FreeEfd
    BY <1>1 DEF HeapOK
  <2>4. CountsExact'
    BY <2>1, <2>3 DEF CountsExact
  <2>5. FreedClean'
    BY <2>2, <2>3 DEF FreedClean
  <2> QED BY <2>4, <2>5
<1>6. src[s].ref # 1 \/ s \notin sources'
  <2>1. uref'[s] \in Nat
    OBVIOUS
  <2> QED BY <2>1
<1>7. InLoop'
  <2>1. ASSUME NEW t \in sources' PROVE src'[t].loop = TRUE
    <3>1. t \in Sources /\ t \in sources /\ src[t].loop = TRUE
      BY <1>3, <2>1 DEF IInv, InLoop
    <3>2. t = s => src'[t].ref # 0
      BY <1>1, <1>6, <2>1 DEF IInv, TypeOK, SourceRecord
    <3> QED BY <1>1, <3>1, <3>2
  <2>2. ASSUME NEW d \in Efds, efd'[d].dispatched, efd'[d].source # NoSource
        PROVE  src'[efd'[d].source].loop = TRUE
    <3> DEFINE t == efd'[d].source
    <3>1. t = efd[d].source /\ efd[d].dispatched /\ t # NoSource
      BY <1>1, <2>2
    <3>2. t \in Sources /\ src[t].loop = TRUE
      BY <3>1 DEF IInv, InLoop, TypeOK, EfdRecord
    <3>3. d \in ToSet(src'[t].fds)
      BY <1>1, <3>2 DEF Linked
    <3>4. t = s => src'[s].ref # 0
      BY <1>1, <3>3, EmptyList DEF FreeSrc
    <3> HIDE DEF t
    <3> QED BY <1>1, <3>2, <3>4 DEF t
  <2> QED BY <2>1, <2>2 DEF InLoop
<1>8. KernelPointers'
  <2>1. ASSUME NEW f \in Fds, reg'[f] # NoEfd
        PROVE  efd'[reg'[f]].fd = f /\ efd'[reg'[f]].source \in sources'
    <3>1. f \notin G /\ reg'[f] = reg[f] /\ reg[f] # NoEfd
      BY <1>2, <2>1
    <3>2. /\ reg[f] \in Efds /\ efd[reg[f]].fd = f /\ efd[reg[f]].source # NoSource
          /\ efd[reg[f]].source \in sources'
      BY <3>1, RegFacts
    <3>3. efd'[reg[f]].source = efd[reg[f]].source
      BY <1>1, <1>6, <3>2
    <3> QED BY <1>1, <3>1, <3>2, <3>3
  <2>2. ASSUME NEW f \in Fds, edge'[f] PROVE reg'[f] # NoEfd
    BY <1>2, <2>2 DEF IInv, KernelPointers
  <2>3. \A d \in Efds : batch'[d] = {}
    BY DEF IInv, KernelPointers
  <2> QED BY <2>1, <2>2, <2>3 DEF KernelPointers
<1> QED BY <1>1, <1>4, <1>5, <1>7, <1>8 DEF IInv


LEMMA SourceUnrefInv == ASSUME IInv, Intact, NEW s \in Sources, SourceUnref(s) PROVE IInv'
<1> USE ConstantsAssumption
<1> DEFINE G == IF LastRef(s) THEN OwnFds(s) ELSE {}
           F == {}
<1>1. /\ UserTurn \/ pc = "freed"
      /\ src[s].ref > 0 /\ uref[s] > 0
      /\ uref' = [uref EXCEPT ![s] = @ - 1]
      /\ UnrefSource(s, efd, F) /\ LoopDelFds(G)
      /\ UNCHANGED <<run, sources, fd_list, lref, pc, timeout, batch, cur>>
  BY DEF SourceUnref, control
<1>2. G \in SUBSET Fds /\ F \in SUBSET Efds /\ (\A d \in F : efd[d].dispatched)
  BY DEF OwnFds
<1> HIDE DEF G, F
<1>3. HeapOK(efd) /\ SameLinks(efd)
  BY SameFacts
<1>4. /\ uref' \in [Sources -> Nat] /\ \A t \in Sources : t # s => uref'[t] = uref[t]
      /\ uref'[s] = uref[s] - 1
  BY <1>1 DEF IInv, TypeOK
<1>5. src[s].ref - 1 = uref'[s] + (IF s \in sources' THEN 1 ELSE 0)
  <2>1. /\ src[s].ref = uref[s] + (IF s \in sources THEN 1 ELSE 0)
        /\ uref[s] \in Nat
    BY DEF IInv, TypeOK, CountsExact
  <2> QED BY <1>1, <1>4, <2>1
<1>6. QueueExact'
  <2>1. Unreferenced(s, F)
    BY <1>1, <1>2, <1>3, UnrefFacts
  <2>2. \A d \in Efds : efd'[d].dispatched <=> efd[d].dispatched
    BY <2>1 DEF Unreferenced, F
  <2> QED BY <1>1, <2>2 DEF IInv, QueueExact, Queued
<1>7. \A f \in Fds : reg[f] # NoEfd /\ f \notin G => efd[reg[f]].source \in sources'
  BY <1>1, RegFacts
<1>8. fd_list' \in Seq(Efds) /\ timeout' \in {-1, 0} /\ pc' \in {"user", "wait", "callback", "freed"}
  BY <1>1 DEF IInv, TypeOK, UserTurn
<1>9. pc \in {"user", "callback", "freed"}
  BY <1>1 DEF UserTurn
<1> QED BY <1>1, <1>2, <1>3, <1>4, <1>5, <1>6, <1>7, <1>8, <1>9, RemovalInv

(* hev_event_loop_del_source takes every descriptor of s from the kernel.  *)
LEMMA ForgetFacts ==
  ASSUME IInv, Intact, NEW s \in sources, sources' = sources \ {s}
  PROVE  \A f \in Fds : reg[f] # NoEfd /\ f \notin FdNums(s) \cap Fds
                          => efd[reg[f]].source \in sources'
<1> SUFFICES ASSUME NEW f \in Fds, reg[f] # NoEfd, f \notin FdNums(s) \cap Fds
             PROVE  efd[reg[f]].source \in sources'
  OBVIOUS
<1>1. /\ reg[f] \in Efds /\ efd[reg[f]].fd = f /\ efd[reg[f]].source \in sources
  BY RegFacts
<1>2. s \in Sources
  BY DEF IInv, TypeOK
<1>3. efd[reg[f]].source = s => reg[f] \in FdsOf(s)
  BY <1>1, <1>2 DEF IInv, Linked
<1>4. efd[reg[f]].source # s
  BY <1>1, <1>3 DEF FdNums
<1> QED BY <1>1, <1>4

LEMMA ForgetSame ==
  ASSUME IInv, NEW G, LoopDelFds(G)
  PROVE  LoopDelFds(G \cap Fds)
BY DEF LoopDelFds

LEMMA CountsOfMember ==
  ASSUME IInv, NEW s \in sources
  PROVE  /\ s \in Sources /\ uref[s] \in Nat /\ src[s].ref = uref[s] + 1
<1>1. s \in Sources
  BY DEF IInv, TypeOK
<1> QED BY <1>1 DEF IInv, TypeOK, CountsExact

LEMMA DelSourceInv ==
  ASSUME IInv, Intact, AfterRemoval = {}, NEW s \in Sources, DelSource(s) PROVE IInv'
<1> USE ConstantsAssumption
<1> DEFINE F == {}
           G == FdNums(s) \cap Fds
<1>1. /\ UserTurn /\ s \in sources /\ sources' = sources \ {s}
      /\ UnrefSource(s, efd, F) /\ LoopDelFds(FdNums(s))
      /\ UNCHANGED <<uref, run, fd_list, lref, pc, timeout, batch, cur>>
  BY DEF DelSource, DeleteSource, Removed, control
<1>2. LoopDelFds(G) /\ G \in SUBSET Fds
  BY <1>1, ForgetSame
<1>3. \A f \in Fds : reg[f] # NoEfd /\ f \notin G => efd[reg[f]].source \in sources'
  BY <1>1, ForgetFacts
<1>4. HeapOK(efd) /\ SameLinks(efd) /\ F \in SUBSET Efds
      /\ (\A d \in F : efd[d].dispatched)
  BY SameFacts
<1> HIDE DEF F, G
<1>5. /\ uref' \in [Sources -> Nat] /\ \A t \in Sources : t # s => uref'[t] = uref[t]
  BY <1>1 DEF IInv, TypeOK
<1>6. /\ src[s].ref > 0
      /\ src[s].ref - 1 = uref'[s] + (IF s \in sources' THEN 1 ELSE 0)
  <2>1. uref[s] \in Nat /\ src[s].ref = uref[s] + 1
    BY <1>1, CountsOfMember
  <2> QED BY <1>1, <2>1
<1>7. QueueExact'
  <2>1. Unreferenced(s, F)
    BY <1>1, <1>4, <1>6, UnrefFacts
  <2>2. \A d \in Efds : efd'[d].dispatched <=> efd[d].dispatched
    BY <2>1 DEF Unreferenced, F
  <2> QED BY <1>1, <2>2 DEF IInv, QueueExact, Queued
<1>8. fd_list' \in Seq(Efds) /\ timeout' \in {-1, 0} /\ pc' \in {"user", "wait", "callback", "freed"}
  BY <1>1 DEF IInv, TypeOK, UserTurn
<1>9. pc \in {"user", "callback", "freed"}
  BY <1>1 DEF UserTurn
<1> QED BY <1>1, <1>2, <1>3, <1>4, <1>5, <1>6, <1>7, <1>8, <1>9, RemovalInv


LEMMA ReturnFalseInv ==
  ASSUME IInv, Intact, AfterRemoval = {}, ReturnFalse PROVE IInv'
<1> USE ConstantsAssumption
<1> DEFINE s == efd[cur].source
           h == [efd EXCEPT ![cur].revents = {}]
           F == {cur}
           G == FdNums(s) \cap Fds
<1>1. /\ pc = "callback" /\ UNCHANGED <<uref, run, lref, batch, cur>>
  BY DEF ReturnFalse
<1>2. fd_list # <<>> /\ cur = Head(fd_list) /\ fd_list \in Seq(Efds)
  BY <1>1 DEF IInv, QueueExact, TypeOK
<1>3. cur \in Efds /\ efd[cur].ref > 0 /\ efd[cur].dispatched
  BY <1>2, HeadFacts
<1>4. CASE s = NoSource
  <2>1. FinishHead(efd, cur) /\ UNCHANGED <<src, sources, level, edge, reg, armed>>
    BY <1>4 DEF ReturnFalse, kernel
  <2>2. /\ level' \in [Fds -> SUBSET Events] /\ edge' \in [Fds -> BOOLEAN]
        /\ armed' \in SUBSET Fds /\ \A f \in Fds : edge'[f] => reg[f] # NoEfd
    BY <2>1 DEF IInv, TypeOK, KernelPointers
  <2> QED BY <1>1, <1>2, <2>1, <2>2, SameFacts, FinishInv
<1>5. CASE s # NoSource
  <2>1. /\ ~Removed(s) /\ DeleteSource(s, h, F)
        /\ fd_list' = Tail(fd_list) /\ timeout' = 0 /\ pc' \in {"wait", "user"}
    BY <1>5 DEF ReturnFalse, NextIteration
  <2>2. s \in Sources /\ src[s].loop = TRUE
    BY <1>3, <1>5 DEF IInv, TypeOK, EfdRecord, InLoop
  <2>3. s \in sources
    BY <2>1, <2>2 DEF Removed
  <2>4. sources' = sources \ {s} /\ LoopDelFds(FdNums(s)) /\ UnrefSource(s, h, F)
    BY <2>1 DEF DeleteSource
  <2>5. HeapOK(h) /\ SameLinks(h)
    <3> DEFINE o == [efd[cur] EXCEPT !.revents = {}]
    <3>1. efd \in [Efds -> EfdRecord] /\ efd[cur] \in EfdRecord
      BY <1>3 DEF IInv, TypeOK
    <3>2. /\ o \in EfdRecord /\ o.ref = efd[cur].ref /\ o.source = efd[cur].source
          /\ o.dispatched = efd[cur].dispatched /\ o.fd = efd[cur].fd
      BY <3>1 DEF EfdRecord
    <3>3. h = [efd EXCEPT ![cur] = o]
      OBVIOUS
    <3> HIDE DEF o, h
    <3>4. /\ h \in [Efds -> EfdRecord] /\ h[cur] = o
          /\ \A d \in Efds : d # cur => h[d] = efd[d]
      BY <1>3, <3>1, <3>2, <3>3
    <3>5. HeapOK(efd)
      BY HeapIsOK
    <3>6. HeapOK(h)
      <4>1. /\ h[cur].ref = efd[cur].ref /\ h[cur].source = efd[cur].source
            /\ h[cur].dispatched = efd[cur].dispatched
        BY <3>2, <3>4
      <4>2. \A d \in Efds : h[d].ref = (IF h[d].source = NoSource THEN 0 ELSE 1)
                                     + (IF h[d].dispatched THEN 1 ELSE 0)
        BY <3>4, <3>5, <4>1 DEF HeapOK
      <4>3. \A d \in Efds : h[d].ref = 0 => h[d] = FreeEfd
        <5>1. h[cur].ref # 0
          BY <1>3, <4>1
        <5> QED BY <3>4, <3>5, <5>1 DEF HeapOK
      <4> QED BY <3>4, <4>2, <4>3 DEF HeapOK
    <3>7. SameLinks(h)
      BY <3>2, <3>4 DEF SameLinks
    <3> QED BY <3>6, <3>7
  <2>6. LoopDelFds(G) /\ G \in SUBSET Fds
    BY <2>4, ForgetSame
  <2> HIDE DEF s, h
  <2>7. \A f \in Fds : reg[f] # NoEfd /\ f \notin G => efd[reg[f]].source \in sources'
    BY <2>3, <2>4, ForgetFacts
  <2>8. /\ uref' \in [Sources -> Nat] /\ \A t \in Sources : t # s => uref'[t] = uref[t]
    BY <1>1 DEF IInv, TypeOK
  <2>9. /\ src[s].ref > 0
        /\ src[s].ref - 1 = uref'[s] + (IF s \in sources' THEN 1 ELSE 0)
    <3>1. uref[s] \in Nat /\ src[s].ref = uref[s] + 1
      BY <2>3, CountsOfMember
    <3> QED BY <1>1, <2>4, <3>1
  <2>10. F \in SUBSET Efds /\ \A d \in F : efd[d].dispatched
    BY <1>3
  <2>11. fd_list' \in Seq(Efds) /\ QueueExact'
    <3>1. /\ Tail(fd_list) \in Seq(Efds)
          /\ \A i, j \in 1..Len(Tail(fd_list)) :
               Tail(fd_list)[i] = Tail(fd_list)[j] => i = j
          /\ \A e : (\E i \in 1..Len(Tail(fd_list)) : Tail(fd_list)[i] = e)
                      <=> e # cur /\ \E i \in 1..Len(fd_list) : fd_list[i] = e
      <4>1. \A i, j \in 1..Len(fd_list) : fd_list[i] = fd_list[j] => i = j
        BY DEF IInv, QueueExact
      <4> QED BY <1>2, <4>1, TailFacts
    <3>2. Unreferenced(s, F)
      <4> HIDE DEF F
      <4> QED BY <2>2, <2>4, <2>5, <2>9, <2>10, UnrefFacts
    <3>3. \A d \in Efds : efd'[d].dispatched <=> efd[d].dispatched /\ d # cur
      BY <3>2 DEF Unreferenced
    <3>4. ASSUME NEW d \in Efds PROVE efd'[d].dispatched <=> Queued(d)'
      <4>1. efd[d].dispatched <=> \E i \in 1..Len(fd_list) : fd_list[i] = d
        BY DEF IInv, QueueExact, Queued
      <4>2. Queued(d)' <=> \E i \in 1..Len(Tail(fd_list)) : Tail(fd_list)[i] = d
        BY <2>1 DEF Queued
      <4> QED BY <3>1, <3>3, <4>1, <4>2
    <3> QED BY <2>1, <3>1, <3>4 DEF QueueExact
  <2>12. timeout' \in {-1, 0} /\ pc' \in {"user", "wait", "callback", "freed"}
         /\ pc \in {"user", "callback", "freed"}
         /\ (sources' = sources \/ sources' = sources \ {s})
    BY <1>1, <2>1, <2>4
  <2> HIDE DEF F, G
  <2> QED BY <1>1, <2>2, <2>4, <2>5, <2>6, <2>7, <2>8, <2>9, <2>10, <2>11, <2>12, RemovalInv
<1> QED BY <1>4, <1>5

LEMMA CloseFdInv == ASSUME IInv, NEW f \in Fds, CloseFd(f) PROVE IInv'
<1>1. /\ UNCHANGED <<src, efd, uref, run, sources, fd_list, lref, pc, timeout, batch, cur>>
      /\ CloseFds({f}) /\ LoopDelFds({f}) /\ UserTurn
  BY DEF CloseFd, heap, control
<1>2. /\ reg' \in [Fds -> Efds \cup {NoEfd}] /\ edge' \in [Fds -> BOOLEAN]
      /\ level' \in [Fds -> SUBSET Events] /\ armed' \in SUBSET Fds
      /\ \A g \in Fds : reg'[g] # NoEfd => reg'[g] = reg[g]
      /\ \A g \in Fds : edge'[g] => edge[g] /\ reg'[g] = reg[g]
  BY <1>1 DEF LoopDelFds, CloseFds, IInv, TypeOK
<1>3. TypeOK'
  BY <1>1, <1>2 DEF IInv, TypeOK
<1>4. CountsExact' /\ FreedClean' /\ Linked' /\ InLoop'
  BY <1>1 DEF IInv, CountsExact, FreedClean, Linked, InLoop
<1>5. QueueExact'
  BY <1>1 DEF IInv, QueueExact, Queued
<1>6. KernelPointers'
  <2>1. \A d \in Efds : batch'[d] = {}
    BY <1>1 DEF IInv, KernelPointers, UserTurn
  <2> QED BY <1>1, <1>2, <2>1 DEF IInv, KernelPointers
<1> QED BY <1>3, <1>4, <1>5, <1>6 DEF IInv

LEMMA EpollWaitInv == ASSUME IInv, EpollWait PROVE IInv'
<1>1. /\ UNCHANGED <<src, efd, uref, run, sources, fd_list, lref, timeout, cur, level, reg, armed>>
      /\ pc' = "queue"
  BY DEF EpollWait, heap
<1>2. PICK R \in SUBSET Ready :
        /\ batch' = [d \in Efds |-> UNION {level[f] : f \in {g \in R : reg[g] = d}}]
        /\ edge' = [f \in Fds |-> f \in Ready \ R]
  BY DEF EpollWait
<1>3. \A f \in Ready : f \in Fds /\ reg[f] # NoEfd /\ level[f] \in SUBSET Events
  BY DEF Ready, IInv, KernelPointers, TypeOK
<1>4. TypeOK'
  <2>1. batch' \in [Efds -> SUBSET Events]
    BY <1>2, <1>3
  <2>2. edge' \in [Fds -> BOOLEAN]
    BY <1>2
  <2> QED BY <1>1, <2>1, <2>2 DEF IInv, TypeOK
<1>5. CountsExact' /\ FreedClean' /\ Linked' /\ InLoop'
  BY <1>1 DEF IInv, CountsExact, FreedClean, Linked, InLoop
<1>6. QueueExact'
  BY <1>1 DEF IInv, QueueExact, Queued
<1>7. KernelPointers'
  <2>1. ASSUME NEW d \in Efds, batch'[d] # {}
        PROVE  efd[d].fd # NoFd /\ reg[efd[d].fd] = d
    <3>1. PICK f \in R : reg[f] = d
      BY <1>2, <2>1
    <3>2. f \in Fds /\ efd[d].fd = f
      BY <1>3, <3>1, RegFacts
    <3> QED BY <3>1, <3>2, ConstantsAssumption
  <2>2. \A f \in Fds : edge'[f] => reg[f] # NoEfd
    BY <1>2, <1>3
  <2> QED BY <1>1, <2>1, <2>2 DEF IInv, KernelPointers
<1> QED BY <1>4, <1>5, <1>6, <1>7 DEF IInv


LEMMA QueueEventInv == ASSUME IInv, NEW d \in Efds, QueueEvent(d) PROVE IInv'
<1> USE ConstantsAssumption
<1>1. /\ UNCHANGED <<src, uref, run, sources, lref, pc, timeout, cur, level, edge, reg, armed>>
      /\ pc = "queue" /\ batch[d] # {} /\ batch' = [batch EXCEPT ![d] = {}]
  BY DEF QueueEvent, kernel
<1>2. efd[d].fd # NoFd /\ efd[d] \in EfdRecord /\ efd \in [Efds -> EfdRecord]
  BY <1>1 DEF IInv, KernelPointers, TypeOK
<1>3. efd[d].source # NoSource /\ efd[d].source \in sources
  <2>1. efd[d].fd \in Fds /\ reg[efd[d].fd] = d /\ d # NoEfd
    BY <1>1, <1>2 DEF EfdRecord, IInv, KernelPointers
  <2> QED BY <2>1, RegFacts
<1>4. batch[d] \in SUBSET Events /\ efd[d].revents \cup batch[d] \in SUBSET Events
  BY <1>2 DEF IInv, TypeOK, EfdRecord
<1>5. PICK o :
        /\ o \in EfdRecord /\ efd' = [efd EXCEPT ![d] = o]
        /\ o.source = efd[d].source /\ o.fd = efd[d].fd
        /\ \/ /\ efd[d].dispatched /\ o.dispatched /\ o.ref = efd[d].ref
              /\ fd_list' = fd_list
           \/ /\ ~efd[d].dispatched /\ o.dispatched /\ o.ref = efd[d].ref + 1
              /\ fd_list' = InsertSorted(d)
  <2>1. CASE efd[d].dispatched
    <3> DEFINE o == [efd[d] EXCEPT !.revents = efd[d].revents \cup batch[d]]
    <3>1. efd' = [efd EXCEPT ![d] = o] /\ fd_list' = fd_list
      BY <2>1 DEF QueueEvent
    <3>2. /\ o \in EfdRecord /\ o.source = efd[d].source /\ o.fd = efd[d].fd
          /\ o.dispatched = efd[d].dispatched /\ o.ref = efd[d].ref
      BY <1>2, <1>4 DEF EfdRecord
    <3> HIDE DEF o
    <3> QED BY <2>1, <3>1, <3>2
  <2>2. CASE ~efd[d].dispatched
    <3> DEFINE o == [efd[d] EXCEPT !.revents = efd[d].revents \cup batch[d],
                                   !.dispatched = TRUE, !.ref = efd[d].ref + 1]
    <3>1. efd' = [efd EXCEPT ![d] = o] /\ fd_list' = InsertSorted(d)
      BY <2>2 DEF QueueEvent, Dispatched
    <3>2. /\ o \in EfdRecord /\ o.source = efd[d].source /\ o.fd = efd[d].fd
          /\ o.dispatched = TRUE /\ o.ref = efd[d].ref + 1
      <4>1. efd[d].ref + 1 \in Nat
        BY <1>2 DEF EfdRecord
      <4> QED BY <1>2, <1>4, <4>1 DEF EfdRecord
    <3> HIDE DEF o
    <3> QED BY <2>2, <3>1, <3>2
  <2> QED BY <2>1, <2>2
<1>6. /\ efd' \in [Efds -> EfdRecord] /\ efd'[d] = o
      /\ \A e \in Efds : e # d => efd'[e] = efd[e]
  BY <1>2, <1>5
<1>7. /\ fd_list' \in Seq(Efds)
      /\ \A i, j \in 1..Len(fd_list') : fd_list'[i] = fd_list'[j] => i = j
      /\ \A e : (\E i \in 1..Len(fd_list') : fd_list'[i] = e) <=> e = d \/ Queued(e)
  <2>1. /\ fd_list \in Seq(Efds)
        /\ \A i, j \in 1..Len(fd_list) : fd_list[i] = fd_list[j] => i = j
        /\ efd[d].dispatched <=> Queued(d)
    BY DEF IInv, TypeOK, QueueExact
  <2>2. CASE fd_list' = fd_list /\ efd[d].dispatched
    BY <2>1, <2>2 DEF Queued
  <2>3. CASE fd_list' = InsertSorted(d) /\ ~efd[d].dispatched
    <3> DEFINE l == InsertSorted(d)
    <3>1. /\ l \in Seq(Efds)
          /\ \A i, j \in 1..Len(l) : l[i] = l[j] => i = j
          /\ \A e : (\E i \in 1..Len(l) : l[i] = e) <=> e = d \/ Queued(e)
      BY <2>1, <2>3, InsertFacts
    <3>2. fd_list' = l
      BY <2>3
    <3> HIDE DEF l
    <3> QED BY <3>1, <3>2
  <2> QED BY <1>5, <2>2, <2>3
<1>8. batch' \in [Efds -> SUBSET Events] /\ \A e \in Efds : batch'[e] # {} => e # d /\ batch[e] # {}
  BY <1>1 DEF IInv, TypeOK
<1>9. TypeOK'
  BY <1>1, <1>6, <1>7, <1>8 DEF IInv, TypeOK
<1>10. CountsExact'
  <2>1. \A e \in Efds : efd[e].ref = (IF efd[e].source = NoSource THEN 0 ELSE 1)
                                   + (IF efd[e].dispatched THEN 1 ELSE 0)
    BY DEF IInv, CountsExact
  <2>2. o.ref = (IF o.source = NoSource THEN 0 ELSE 1) + (IF o.dispatched THEN 1 ELSE 0)
    BY <1>2, <1>3, <1>5, <2>1
  <2>3. \A e \in Efds : efd'[e].ref = (IF efd'[e].source = NoSource THEN 0 ELSE 1)
                                    + (IF efd'[e].dispatched THEN 1 ELSE 0)
    BY <1>6, <2>1, <2>2
  <2> QED BY <1>1, <2>3 DEF IInv, CountsExact
<1>11. efd[d].ref > 0 /\ o.ref > 0
  <2>1. efd[d].ref = 1 + (IF efd[d].dispatched THEN 1 ELSE 0)
    BY <1>3 DEF IInv, CountsExact
  <2> QED BY <1>5, <2>1
<1>12. FreedClean' /\ Linked'
  <2>1. FreedClean'
    BY <1>1, <1>6, <1>11 DEF IInv, FreedClean
  <2>2. Linked'
    BY <1>1, <1>5, <1>6, <1>11 DEF IInv, Linked
  <2> QED BY <2>1, <2>2
<1>13. InLoop'
  <2>1. src[efd[d].source].loop = TRUE
    BY <1>3 DEF IInv, InLoop
  <2>2. \A e \in Efds : efd'[e].source = efd[e].source
    BY <1>5, <1>6
  <2>3. \A e \in Efds : efd'[e].dispatched => e = d \/ efd[e].dispatched
    BY <1>6
  <2> QED BY <1>1, <2>1, <2>2, <2>3 DEF IInv, InLoop
<1>14. QueueExact'
  <2>1. \A e \in Efds : efd'[e].dispatched <=> e = d \/ efd[e].dispatched
    BY <1>5, <1>6
  <2>2. \A e \in Efds : efd'[e].dispatched <=> Queued(e)'
    BY <1>7, <2>1 DEF IInv, QueueExact, Queued
  <2> QED BY <1>1, <1>7, <2>2 DEF QueueExact
<1>15. KernelPointers'
  <2>1. \A e \in Efds : efd'[e].source = efd[e].source /\ efd'[e].fd = efd[e].fd
    BY <1>5, <1>6
  <2>2. ASSUME NEW f \in Fds, reg[f] # NoEfd
        PROVE  efd'[reg[f]].fd = f /\ efd'[reg[f]].source \in sources
    BY <2>1, <2>2, RegFacts
  <2>3. ASSUME NEW e \in Efds, batch'[e] # {}
        PROVE  efd'[e].fd # NoFd /\ reg[efd'[e].fd] = e
    BY <1>8, <2>1, <2>3 DEF IInv, KernelPointers
  <2> QED BY <1>1, <2>2, <2>3 DEF IInv, KernelPointers
<1> QED BY <1>9, <1>10, <1>12, <1>13, <1>14, <1>15 DEF IInv

LEMMA DelFdInv ==
  ASSUME IInv, Intact, AfterRemoval = {}, NEW s \in Sources, NEW f \in Fds, DelFd(s, f)
  PROVE  IInv'
<1> USE ConstantsAssumption
<1>1. PICK i \in DOMAIN src[s].fds, w \in BOOLEAN :
        LET d == src[s].fds[i]
        IN /\ efd[d].fd = f
           /\ src' = [src EXCEPT ![s].fds = RemoveAt(@, i), ![s].wild = w]
           /\ efd' = Released(efd, {d}, {})
  BY DEF DelFd
<1> DEFINE l == RemoveAt(src[s].fds, i)
           d == src[s].fds[i]
<1>2. /\ UNCHANGED <<uref, run, sources, fd_list, lref, pc, timeout, batch, cur, level, armed>>
      /\ src[s].ref > 0 /\ UserTurn
      /\ LoopDelFds(IF src[s].loop THEN {f} ELSE {})
  BY DEF DelFd, CanUse, control
<1>3. /\ src[s] \in SourceRecord /\ d \in Efds /\ efd[d].source = s
      /\ \A t \in Sources : t # s => d \notin FdsOf(t)
  <2>1. src[s] \in SourceRecord
    BY DEF IInv, TypeOK
  <2>2. d \in Efds /\ d \in FdsOf(s) /\ src[s].fds \in Lists
    BY <2>1, ListHolds DEF SourceRecord
  <2>3. \A t \in Sources : d \in FdsOf(t) => efd[d].source = t
    BY <2>2 DEF Intact, IInv, Linked
  <2> QED BY <2>1, <2>2, <2>3
<1>4. /\ src' \in [Sources -> SourceRecord]
      /\ FdsOf(s)' = FdsOf(s) \ {d} /\ src'[s].ref = src[s].ref
      /\ src'[s].loop = src[s].loop
      /\ \A t \in Sources : t # s => src'[t] = src[t]
  <2> DEFINE o == [src[s] EXCEPT !.fds = l, !.wild = w]
  <2>1. l \in Lists /\ ToSet(l) = FdsOf(s) \ {d}
    <3>1. src[s].fds \in Lists /\ i \in 1..Len(src[s].fds)
      BY <1>3, ListHolds DEF SourceRecord
    <3> QED BY <3>1, ListLoses
  <2>2. src' = [src EXCEPT ![s] = o]
    BY <1>1
  <2>3. src \in [Sources -> SourceRecord]
    BY DEF IInv, TypeOK
  <2> HIDE DEF l
  <2>4. /\ o \in SourceRecord /\ o.fds = l /\ o.ref = src[s].ref
        /\ o.loop = src[s].loop
    BY <1>3, <2>1 DEF SourceRecord
  <2> HIDE DEF o, d
  <2> QED BY <2>1, <2>2, <2>3, <2>4
<1> HIDE DEF l, d
<1>5. /\ HeapOK(efd')
      /\ \A e \in Efds : efd'[e].source = IF e = d THEN NoSource ELSE efd[e].source
      /\ \A e \in Efds : efd'[e].dispatched <=> efd[e].dispatched
      /\ \A e \in Efds : efd'[e].source # NoSource => efd'[e].fd = efd[e].fd
  <2>1. HeapOK(efd) /\ efd[d].source # NoSource
    BY <1>3, HeapIsOK
  <2>2. efd' = Released(efd, {d}, {}) /\ d \in Efds
    BY <1>1, <1>3 DEF d
  <2> QED BY ONLY <2>1, <2>2, UnlinkedFacts
<1>6. /\ reg' \in [Fds -> Efds \cup {NoEfd}] /\ edge' \in [Fds -> BOOLEAN]
      /\ \A g \in Fds : reg'[g] # NoEfd => reg'[g] = reg[g] /\ ~(src[s].loop /\ g = f)
      /\ \A g \in Fds : edge'[g] => edge[g] /\ reg'[g] = reg[g]
  BY <1>2 DEF LoopDelFds, IInv, TypeOK
<1>7. TypeOK'
  BY <1>2, <1>4, <1>5, <1>6 DEF IInv, TypeOK, HeapOK
<1>8. CountsExact' /\ FreedClean'
  <2>1. \A t \in Sources : src'[t].ref = src[t].ref
    BY <1>4
  <2>2. \A t \in Sources : src'[t].ref = 0 => src'[t] = FreeSrc
    BY <1>2, <1>4 DEF IInv, FreedClean
  <2> QED BY <1>2, <1>5, <2>1, <2>2 DEF IInv, CountsExact, FreedClean, HeapOK
<1>9. Linked'
  <2> SUFFICES ASSUME NEW t \in Sources, NEW e \in Efds
               PROVE  efd'[e].source = t <=> e \in FdsOf(t)' /\ efd'[e].ref > 0
    BY DEF Linked
  <2>1. (efd[e].source = t <=> e \in FdsOf(t)) /\ t # NoSource
    BY DEF IInv, Linked, Intact
  <2>2. efd'[e].source = t => efd'[e].ref > 0
    BY <1>5, <2>1 DEF HeapOK
  <2>3. e \in FdsOf(t)' <=> e \in FdsOf(t) /\ e # d
    BY <1>3, <1>4
  <2> QED BY <1>5, <2>1, <2>2, <2>3
<1>10. QueueExact'
  BY <1>2, <1>5 DEF IInv, QueueExact, Queued
<1>11. InLoop'
  <2>1. \A t \in Sources : src'[t].loop = src[t].loop
    BY <1>4
  <2>2. \A t \in sources' : src'[t].loop = TRUE
    BY <1>2, <2>1 DEF IInv, TypeOK, InLoop
  <2>3. ASSUME NEW e \in Efds, efd'[e].dispatched, efd'[e].source # NoSource
        PROVE  src'[efd'[e].source].loop = TRUE
    <3>1. efd'[e].source = efd[e].source /\ efd[e].dispatched /\ efd[e] \in EfdRecord
      BY <1>5, <2>3 DEF IInv, TypeOK
    <3>2. efd[e].source \in Sources
      BY <2>3, <3>1 DEF EfdRecord
    <3> QED BY <2>1, <2>3, <3>1, <3>2 DEF IInv, InLoop
  <2> QED BY <2>2, <2>3 DEF InLoop
<1>12. KernelPointers'
  <2>1. ASSUME NEW g \in Fds, reg'[g] # NoEfd
        PROVE  efd'[reg'[g]].fd = g /\ efd'[reg'[g]].source \in sources'
    <3>1. /\ reg'[g] = reg[g] /\ reg[g] # NoEfd /\ ~(src[s].loop /\ g = f)
      BY <1>6, <2>1
    <3>2. /\ reg[g] \in Efds /\ efd[reg[g]].fd = g /\ efd[reg[g]].source \in sources
          /\ efd[reg[g]].source # NoSource
      BY <3>1, RegFacts
    <3>3. reg[g] # d
      <4>1. efd[reg[g]].source = s => src[s].loop = TRUE
        BY <3>2 DEF IInv, InLoop
      <4> QED BY <1>1, <1>3, <3>1, <3>2, <4>1 DEF d
    <3>4. efd'[reg[g]].source = efd[reg[g]].source
      BY <1>5, <3>2, <3>3
    <3> QED BY <1>2, <1>5, <3>1, <3>2, <3>4
  <2>2. ASSUME NEW g \in Fds, edge'[g] PROVE reg'[g] # NoEfd
    BY <1>6, <2>2 DEF IInv, KernelPointers
  <2>3. \A e \in Efds : batch'[e] = {}
    BY <1>2 DEF IInv, KernelPointers, UserTurn
  <2> QED BY <2>1, <2>2, <2>3 DEF KernelPointers
<1> QED BY <1>7, <1>8, <1>9, <1>10, <1>11, <1>12 DEF IInv


LEMMA AddSourceInv == ASSUME IInv, Intact, NEW s \in Sources, AddSource(s) PROVE IInv'
<1> USE ConstantsAssumption
<1>1. /\ UNCHANGED <<efd, uref, run, fd_list, lref, pc, timeout, batch, cur>>
      /\ UserTurn /\ src[s].ref > 0 /\ ~src[s].loop
      /\ sources' = sources \cup {s}
      /\ level' = PreparedLevel(s) /\ armed' = PreparedArmed(s)
  BY DEF AddSource, CanUse, control
<1>2. PICK R \in SUBSET FdsOf(s) :
        LET accepted == {efd[d].fd : d \in R}
        IN /\ \A f \in accepted : reg[f] = NoEfd
           /\ reg' = [f \in Fds |-> IF f \in accepted
                                      THEN CHOOSE d \in R : efd[d].fd = f
                                      ELSE reg[f]]
           /\ edge' = [f \in Fds |-> IF f \in accepted
                                       THEN PreparedLevel(s)[f] # {} ELSE edge[f]]
  BY DEF AddSource
<1>3. /\ src[s] \in SourceRecord /\ s \notin sources
      /\ \A d \in R : d \in Efds /\ efd[d].source = s
  <2>1. src[s] \in SourceRecord
    BY DEF IInv, TypeOK
  <2>2. s \notin sources
    BY <1>1 DEF IInv, InLoop
  <2>3. \A d \in R : d \in Efds /\ efd[d].source = s
    BY <2>1, ListHolds DEF SourceRecord, Intact, IInv, Linked
  <2> QED BY <2>1, <2>2, <2>3
<1>4. /\ src' \in [Sources -> SourceRecord]
      /\ FdsOf(s)' = FdsOf(s) /\ src'[s].ref = src[s].ref + 1
      /\ src'[s].loop = TRUE
      /\ \A t \in Sources : t # s => src'[t] = src[t]
  <2> DEFINE o == [src[s] EXCEPT !.loop = TRUE, !.ref = src[s].ref + 1]
  <2>1. src[s].ref + 1 \in Nat
    BY <1>3 DEF SourceRecord
  <2>2. /\ o \in SourceRecord /\ o.fds = src[s].fds /\ o.ref = src[s].ref + 1
        /\ o.loop = TRUE
    BY <1>3, <2>1 DEF SourceRecord
  <2>3. src' = [src EXCEPT ![s] = o]
    BY DEF AddSource
  <2>4. src \in [Sources -> SourceRecord]
    BY DEF IInv, TypeOK
  <2> HIDE DEF o
  <2> QED BY <2>2, <2>3, <2>4
<1>5. ASSUME NEW f \in Fds
      PROVE  \/ reg'[f] = reg[f] /\ edge'[f] = edge[f]
             \/ /\ reg'[f] \in R /\ efd[reg'[f]].fd = f
                /\ edge'[f] \in BOOLEAN
  <2>1. CASE \E d \in R : efd[d].fd = f
    <3>1. (CHOOSE d \in R : efd[d].fd = f) \in R
          /\ efd[CHOOSE d \in R : efd[d].fd = f].fd = f
      BY <2>1
    <3>2. reg'[f] = CHOOSE d \in R : efd[d].fd = f
      BY <1>2, <2>1
    <3>3. edge'[f] \in BOOLEAN
      BY <1>2, <2>1
    <3> QED BY <3>1, <3>2, <3>3
  <2>2. CASE ~\E d \in R : efd[d].fd = f
    BY <1>2, <2>2
  <2> QED BY <2>1, <2>2
<1>6. /\ reg' \in [Fds -> Efds \cup {NoEfd}] /\ edge' \in [Fds -> BOOLEAN]
  <2>1. DOMAIN reg' = Fds /\ reg' = [f \in Fds |-> reg'[f]]
        /\ edge' = [f \in Fds |-> edge'[f]]
    BY <1>2
  <2>2. \A f \in Fds : reg'[f] \in Efds \cup {NoEfd}
    BY <1>3, <1>5 DEF IInv, TypeOK
  <2>3. \A f \in Fds : edge'[f] \in BOOLEAN
    BY <1>5 DEF IInv, TypeOK
  <2> QED BY <2>1, <2>2, <2>3
<1>7. level' \in [Fds -> SUBSET Events] /\ armed' \in SUBSET Fds
  <2>1. {"IN"} \in SUBSET Events
    BY DEF Events
  <2>2. level' \in [Fds -> SUBSET Events]
    BY <1>1, <2>1 DEF PreparedLevel, IInv, TypeOK
  <2>3. OwnFds(s) \in SUBSET Fds
    BY DEF OwnFds
  <2> QED BY <1>1, <2>2, <2>3 DEF PreparedArmed, IInv, TypeOK
<1>8. sources' \in SUBSET Sources
  BY <1>1 DEF IInv, TypeOK
<1>9. TypeOK'
  BY <1>1, <1>4, <1>6, <1>7, <1>8 DEF IInv, TypeOK
<1>10. CountsExact' /\ FreedClean'
  <2>1. ASSUME NEW t \in Sources
        PROVE  src'[t].ref = uref'[t] + (IF t \in sources' THEN 1 ELSE 0)
    <3>1. /\ src[t].ref = uref[t] + (IF t \in sources THEN 1 ELSE 0)
          /\ uref[t] \in Nat
      BY DEF IInv, TypeOK, CountsExact
    <3> QED BY <1>1, <1>3, <1>4, <3>1
  <2>2. ASSUME NEW t \in Sources, src'[t].ref = 0 PROVE src'[t] = FreeSrc
    <3>1. t # s
      BY <1>3, <1>4, <2>2 DEF SourceRecord
    <3> QED BY <1>4, <2>2, <3>1 DEF IInv, FreedClean
  <2> QED BY <1>1, <2>1, <2>2 DEF IInv, CountsExact, FreedClean
<1>11. Linked' /\ QueueExact'
  <2>1. \A t \in Sources : FdsOf(t)' = FdsOf(t)
    BY <1>4
  <2> QED BY <1>1, <2>1 DEF IInv, Linked, QueueExact, Queued
<1>12. InLoop'
  <2>1. \A t \in Sources : src[t].loop = TRUE => src'[t].loop = TRUE
    BY <1>4
  <2>2. \A t \in sources' : src'[t].loop = TRUE
    BY <1>1, <1>4, <2>1 DEF IInv, TypeOK, InLoop
  <2>3. ASSUME NEW e \in Efds, efd[e].dispatched, efd[e].source # NoSource
        PROVE  src'[efd[e].source].loop = TRUE
    <3>1. efd[e].source \in Sources
      BY <2>3 DEF IInv, TypeOK, EfdRecord
    <3> QED BY <2>1, <2>3, <3>1 DEF IInv, InLoop
  <2> QED BY <1>1, <2>2, <2>3 DEF InLoop
<1>13. KernelPointers'
  <2>1. ASSUME NEW f \in Fds, reg'[f] # NoEfd
        PROVE  efd[reg'[f]].fd = f /\ efd[reg'[f]].source \in sources'
    <3>1. CASE reg'[f] = reg[f]
      BY <1>1, <2>1, <3>1, RegFacts
    <3>2. CASE reg'[f] \in R /\ efd[reg'[f]].fd = f
      BY <1>1, <1>3, <3>2
    <3> QED BY <1>5, <3>1, <3>2
  <2>2. ASSUME NEW f \in Fds, edge'[f] PROVE reg'[f] # NoEfd
    <3>1. CASE reg'[f] = reg[f] /\ edge'[f] = edge[f]
      BY <2>2, <3>1 DEF IInv, KernelPointers
    <3>2. CASE reg'[f] \in R
      BY <1>3, <3>2
    <3> QED BY <1>5, <3>1, <3>2
  <2>3. \A d \in Efds : batch'[d] = {}
    BY <1>1 DEF IInv, KernelPointers, UserTurn
  <2> QED BY <1>1, <2>1, <2>2, <2>3 DEF KernelPointers
<1> QED BY <1>9, <1>10, <1>11, <1>12, <1>13 DEF IInv


LEMMA LoopUnrefInv == ASSUME IInv, Intact, LoopUnref PROVE IInv'
<1> USE ConstantsAssumption
<1>1. /\ UNCHANGED <<uref, run, timeout, batch, cur>>
      /\ pc = "user" /\ lref' = lref - 1
  BY DEF LoopUnref, heap
<1>2. CASE lref > 1
  <2>1. UNCHANGED <<src, efd, sources, fd_list, pc, level, edge, reg, armed>>
    BY <1>2 DEF LoopUnref, heap, kernel
  <2>2. TypeOK'
    BY <1>1, <1>2, <2>1 DEF IInv, TypeOK
  <2>3. \A f \in Fds : edge[f] => reg[f] # NoEfd
    BY DEF IInv, KernelPointers
  <2>4. \A d \in Efds : batch[d] = {}
    BY <1>1 DEF IInv, KernelPointers
  <2> QED BY <1>1, <2>1, <2>2, <2>3, <2>4, Frame DEF heap
<1>3. CASE lref = 1
  <2> DEFINE gone == {s \in sources : LastRef(s)}
             U == UNION {FdsOf(s) : s \in gone}
             F == {d \in Efds : Queued(d)}
             own == UNION {OwnFds(s) : s \in gone}
  <2>1. /\ src' = [s \in Sources |-> IF s \in gone THEN FreeSrc
                                      ELSE IF s \in sources THEN OneLess(s) ELSE src[s]]
        /\ efd' = Released(efd, U, F)
        /\ CloseFds(own) /\ LoopDelFds(Fds)
        /\ sources' = {} /\ fd_list' = <<>> /\ pc' = "freed"
    BY <1>3 DEF LoopUnref
  <2>2. sources \in SUBSET Sources /\ gone \in SUBSET Sources
    BY DEF IInv, TypeOK
  <2>3. \A s \in Sources : src[s] \in SourceRecord /\ uref[s] \in Nat
    BY DEF IInv, TypeOK
  <2>4. ASSUME NEW s \in Sources
        PROVE  /\ src'[s] \in SourceRecord
               /\ src'[s].ref = uref[s]
               /\ src'[s].ref = 0 => src'[s] = FreeSrc
               /\ s \notin gone => FdsOf(s)' = FdsOf(s) /\ src'[s].loop = src[s].loop
               /\ s \in gone => src'[s] = FreeSrc
    <3>1. src[s].ref = uref[s] + (IF s \in sources THEN 1 ELSE 0)
      BY DEF IInv, CountsExact
    <3>2. CASE s \in gone
      <4>1. src'[s] = FreeSrc /\ src[s].ref = 1 /\ s \in sources
        BY <2>1, <3>2 DEF LastRef
      <4>2. FreeSrc \in SourceRecord /\ FreeSrc.ref = 0
        BY EmptyList DEF FreeSrc, SourceRecord
      <4> QED BY <2>3, <3>1, <3>2, <4>1, <4>2
    <3>3. CASE s \in sources /\ s \notin gone
      <4>1. src'[s] = [src[s] EXCEPT !.ref = src[s].ref - 1]
        BY <2>1, <3>3 DEF OneLess
      <4>2. src[s].ref # 1
        BY <3>3 DEF LastRef
      <4>3. src[s].ref - 1 = uref[s] /\ uref[s] # 0
        BY <2>3, <3>1, <3>3, <4>2
      <4> HIDE DEF gone
      <4>4. /\ [src[s] EXCEPT !.ref = src[s].ref - 1] \in SourceRecord
            /\ src'[s].ref = uref[s] /\ FdsOf(s)' = FdsOf(s)
            /\ src'[s].loop = src[s].loop
        BY <2>3, <4>1, <4>3 DEF SourceRecord
      <4> QED BY <3>3, <4>1, <4>3, <4>4
    <3>4. CASE s \notin sources
      <4>1. src'[s] = src[s] /\ s \notin gone
        BY <2>1, <3>4
      <4>2. src[s].ref = uref[s]
        BY <2>3, <3>1, <3>4
      <4> QED BY <2>3, <4>1, <4>2 DEF IInv, FreedClean
    <3> QED BY <3>2, <3>3, <3>4
  <2>5. \A d \in U : \E s \in gone : d \in FdsOf(s)
    OBVIOUS
  <2>6. \A d \in U : d \in Efds /\ efd[d].source \in gone
    <3> TAKE d \in U
    <3>1. PICK s \in gone : d \in FdsOf(s)
      BY <2>5
    <3>2. s \in Sources
      BY <2>2
    <3> HIDE DEF gone
    <3>3. d \in Efds
      BY <2>3, <3>1, <3>2, ListHolds DEF SourceRecord
    <3>4. efd[d].source = s
      BY <3>1, <3>2, <3>3 DEF Intact, IInv, Linked
    <3> QED BY <3>1, <3>3, <3>4
  <2>7. \A d \in Efds : efd[d].source \in gone => d \in U
    <3> TAKE d \in Efds
    <3> SUFFICES ASSUME efd[d].source \in gone PROVE d \in U
      OBVIOUS
    <3>1. d \in FdsOf(efd[d].source)
      BY <2>2 DEF IInv, Linked
    <3> QED BY <3>1
  <2>8. \A d \in Efds : d \in F <=> efd[d].dispatched
    BY DEF IInv, QueueExact
  <2>9. U \in SUBSET Efds /\ F \in SUBSET Efds /\ own \in SUBSET Fds
    BY <2>2, <2>6 DEF OwnFds
  <2> HIDE DEF U, F, own, gone
  <2>10. /\ \A d \in U : efd[d].source # NoSource
         /\ \A d \in F : efd[d].dispatched
         /\ HeapOK(efd)
    BY <2>2, <2>6, <2>8, <2>9, HeapIsOK
  <2>11. HeapOK(efd')
    <3>1. U \in SUBSET Efds /\ F \in SUBSET Efds
      BY <2>9
    <3>2. /\ \A d \in U : efd[d].source # NoSource
          /\ \A d \in F : efd[d].dispatched
      BY <2>10
    <3>3. HeapOK(efd)
      BY HeapIsOK
    <3>4. HeapOK(Released(efd, U, F))
      BY ONLY <3>1, <3>2, <3>3, ReleasedFacts
    <3> QED BY <2>1, <3>4
  <2>12. \A d \in Efds : efd'[d].source = IF d \in U THEN NoSource ELSE efd[d].source
    <3>1. \A d \in Efds : Released(efd, U, F)[d].source
                            = IF d \in U THEN NoSource ELSE efd[d].source
      BY <2>9, <2>10, ReleasedFacts
    <3> QED BY <2>1, <3>1
  <2>13. \A d \in Efds : ~efd'[d].dispatched
    <3>1. \A d \in Efds : Released(efd, U, F)[d].dispatched
                            <=> efd[d].dispatched /\ d \notin F
      BY <2>9, <2>10, ReleasedFacts
    <3> QED BY <2>1, <2>8, <3>1
  <2>14. /\ \A f \in Fds : reg'[f] = NoEfd /\ ~edge'[f]
         /\ reg' \in [Fds -> Efds \cup {NoEfd}] /\ edge' \in [Fds -> BOOLEAN]
    BY <2>1 DEF LoopDelFds
  <2>15. level' \in [Fds -> SUBSET Events] /\ armed' \in SUBSET Fds
    BY <2>1 DEF CloseFds, IInv, TypeOK
  <2>16. TypeOK'
    <3>1. src' \in [Sources -> SourceRecord]
      BY <2>1, <2>4
    <3>2. <<>> \in Seq(Efds)
      BY EmptySeq
    <3>3. efd' \in [Efds -> EfdRecord]
      BY <2>11 DEF HeapOK
    <3>4. lref' \in Nat
      BY <1>1, <1>3
    <3> QED BY <1>1, <2>1, <2>14, <2>15, <3>1, <3>2, <3>3, <3>4 DEF IInv, TypeOK
  <2>17. CountsExact' /\ FreedClean'
    <3>1. \A s \in Sources : src'[s].ref = uref'[s] + (IF s \in sources' THEN 1 ELSE 0)
      BY <1>1, <2>1, <2>3, <2>4
    <3> QED BY <2>4, <2>11, <3>1 DEF CountsExact, FreedClean, HeapOK
  <2>18. Linked'
    <3> SUFFICES ASSUME NEW t \in Sources, NEW e \in Efds
                 PROVE  efd'[e].source = t <=> e \in FdsOf(t)' /\ efd'[e].ref > 0
      BY DEF Linked
    <3>1. (efd[e].source = t <=> e \in FdsOf(t)) /\ t # NoSource
      BY DEF IInv, Linked, Intact
    <3>2. efd'[e].source = t => efd'[e].ref > 0
      BY <2>11, <3>1 DEF HeapOK
    <3>3. CASE t \in gone
      <4>1. FdsOf(t)' = {}
        BY <2>4, <3>3, EmptyList DEF FreeSrc
      <4>2. efd'[e].source # t
        BY <2>7, <2>12, <3>1, <3>3
      <4> QED BY <4>1, <4>2
    <3>4. CASE t \notin gone
      <4>1. FdsOf(t)' = FdsOf(t)
        BY <2>4, <3>4
      <4>2. e \in U => efd[e].source # t
        BY <2>6, <3>4
      <4> QED BY <2>12, <3>1, <3>2, <4>1, <4>2
    <3> QED BY <3>3, <3>4
  <2>19. QueueExact'
    <3>1. \A d : ~Queued(d)'
      BY <2>1, EmptySeq DEF Queued
    <3> QED BY <2>1, <2>13, <3>1, EmptySeq DEF QueueExact
  <2>20. InLoop' /\ KernelPointers'
    <3>1. \A d \in Efds : batch'[d] = {}
      BY <1>1 DEF IInv, KernelPointers
    <3> QED BY <2>1, <2>13, <2>14, <3>1 DEF InLoop, KernelPointers
  <2> QED BY <2>16, <2>17, <2>18, <2>19, <2>20 DEF IInv
<1>4. lref > 1 \/ lref = 1
  BY DEF LoopUnref
<1> QED BY <1>2, <1>3, <1>4

-----------------------------------------------------------------------------
LEMMA StutterInv == ASSUME IInv, UNCHANGED vars PROVE IInv'
BY DEF vars, IInv, TypeOK, CountsExact, QueueExact, Queued, KernelPointers, FreedClean,
       Linked, InLoop

(* Every step preserves the invariant.                                     *)
LEMMA NextInv == ASSUME AfterRemoval = {}, IInv, [Next]_vars PROVE IInv'
<1>1. CASE UNCHANGED vars
  BY <1>1, StutterInv
<1>2. CASE Next
  <2>1. Intact
    BY <1>2 DEF Next
  <2>2. CASE SourceCall
    <3>1. PICK s \in Sources :
            \/ SourceNew(s) \/ SourceRef(s) \/ SourceUnref(s)
            \/ AddSource(s) \/ DelSource(s)
            \/ \E p \in Prios : SetPriority(s, p)
            \/ \E f \in Fds : AddFd(s, f) \/ DelFd(s, f)
      BY <2>2 DEF SourceCall
    <3>2. CASE SourceNew(s)
      BY <2>1, <3>2, SourceNewInv
    <3>3. CASE SourceRef(s)
      BY <3>3, SourceRefInv
    <3>4. CASE SourceUnref(s)
      BY <2>1, <3>4, SourceUnrefInv
    <3>5. CASE AddSource(s)
      BY <2>1, <3>5, AddSourceInv
    <3>6. CASE DelSource(s)
      BY <2>1, <3>6, DelSourceInv
    <3>7. CASE \E p \in Prios : SetPriority(s, p)
      BY <3>7, SetPriorityInv
    <3>8. CASE \E f \in Fds : AddFd(s, f) \/ DelFd(s, f)
      BY <2>1, <3>8, AddFdInv, DelFdInv
    <3> QED BY <3>1, <3>2, <3>3, <3>4, <3>5, <3>6, <3>7, <3>8
  <2>3. CASE LoopCall
    <3>1. CASE Quit \/ LoopRef \/ Run
      BY <3>1, QuietSteps
    <3>2. CASE LoopUnref
      BY <2>1, <3>2, LoopUnrefInv
    <3>3. CASE \E f \in Fds : CloseFd(f)
      BY <3>3, CloseFdInv
    <3> QED BY <2>3, <3>1, <3>2, <3>3 DEF LoopCall
  <2>4. CASE LoopStep
    <3>1. CASE WaitInterrupted \/ QueueDone \/ DispatchNothing
      BY <3>1, QuietSteps
    <3>2. CASE EpollWait
      BY <3>2, EpollWaitInv
    <3>3. CASE \E d \in Efds : QueueEvent(d)
      BY <3>3, QueueEventInv
    <3>4. CASE DispatchSkip
      BY <2>1, <3>4, DispatchSkipInv
    <3>5. CASE DispatchCallback
      BY <2>1, <3>5, DispatchCallbackInv
    <3> QED BY <2>4, <3>1, <3>2, <3>3, <3>4, <3>5 DEF LoopStep
  <2>5. CASE Callback
    <3>1. CASE ReadFd
      BY <2>1, <3>1, ReadFdInv
    <3>2. CASE ReturnTrue
      BY <2>1, <3>2, ReturnTrueInv
    <3>3. CASE ReturnFalse
      BY <2>1, <3>3, ReturnFalseInv
    <3> QED BY <2>5, <3>1, <3>2, <3>3 DEF Callback
  <2>6. CASE World
    BY <2>6, QuietSteps DEF World
  <2> QED BY <1>2, <2>2, <2>3, <2>4, <2>5, <2>6 DEF Next
<1> QED BY <1>1, <1>2

(* A program that leaves alone every source it took out of the loop keeps  *)
(* the whole invariant, whatever else it calls and in whatever order.      *)
THEOREM Invariance == ASSUME AfterRemoval = {} PROVE Spec => []IInv
<1>1. Init => IInv
  BY InitInv
<1>2. IInv /\ [Next]_vars => IInv'
  BY NextInv
<1> QED BY <1>1, <1>2, PTL DEF Spec

(* The variables keep their types; no reference count is ever negative.    *)
THEOREM TypeCorrect == ASSUME AfterRemoval = {} PROVE Spec => []TypeOK
<1>1. Spec => []IInv
  BY Invariance
<1>2. IInv => TypeOK
  BY DEF IInv
<1> QED BY <1>1, <1>2, PTL

(* The reference counts of sources and descriptor objects are exact, as    *)
(* long as the lists that are walked to drop them are Intact.              *)
THEOREM CountsAreExact == ASSUME AfterRemoval = {} PROVE Spec => []CountsExact
<1>1. Spec => []IInv
  BY Invariance
<1>2. IInv => CountsExact
  BY DEF IInv
<1> QED BY <1>1, <1>2, PTL

(* fd_list holds the dispatched objects, once each, and the head stays put *)
(* during its callback.                                                    *)
THEOREM QueueIsExact == ASSUME AfterRemoval = {} PROVE Spec => []QueueExact
<1>1. Spec => []IInv
  BY Invariance
<1>2. IInv => QueueExact
  BY DEF IInv
<1> QED BY <1>1, <1>2, PTL

(* The kernel and the array of events hold no dangling pointer, as long as *)
(* the lists del_source walks to forget descriptors are Intact.            *)
THEOREM KernelPointersSafe == ASSUME AfterRemoval = {} PROVE Spec => []KernelPointers
<1>1. Spec => []IInv
  BY Invariance
<1>2. IInv => KernelPointers
  BY DEF IInv
<1> QED BY <1>1, <1>2, PTL


(* A reference the program holds keeps its source alive.                   *)
THEOREM ReferencesHold == ASSUME AfterRemoval = {} PROVE Spec => []UserRefKeepsAlive
<1>1. Spec => []IInv
  BY Invariance
<1>2. IInv => UserRefKeepsAlive
  <2> SUFFICES ASSUME IInv, NEW s \in Sources PROVE uref[s] <= src[s].ref
    BY DEF UserRefKeepsAlive
  <2>1. uref[s] \in Nat /\ src[s].ref = uref[s] + (IF s \in sources THEN 1 ELSE 0)
    BY DEF IInv, TypeOK, CountsExact
  <2> QED BY <2>1
<1> QED BY <1>1, <1>2, PTL

=============================================================================
