---------------------------- MODULE MemoryProofs ----------------------------
(* For every set of blocks, allocators and data: the two lists over the        *)
(* allocators lose no node and free none that is linked, and each call does to *)
(* the sequence of data what its name says.  In the order of the proof: the    *)
(* chain a walk visits, what frees, insertions and removals make of it, and    *)
(* the steps of MemoryNext.                                                    *)
EXTENDS Memory, SliceAllocatorProofs


-----------------------------------------------------------------------------
(* Sequences and recursive functions.                                          *)

(* A non-empty set of natural numbers has a least element.                     *)
LEMMA Least ==
  ASSUME NEW T \in SUBSET Nat, T # {}
  PROVE  \E n \in T : \A m \in T : n <= m
<1> DEFINE R == OpToRel(<, Nat)
<1>1. IsWellFoundedOn(R, Nat)
  BY NatLessThanWellFounded
<1>2. \A x, y \in Nat : <<x, y>> \in R <=> x < y
  BY DEF OpToRel
<1> HIDE DEF R
<1>3. PICK n \in T : \A m \in T : ~(<<m, n>> \in R)
  BY <1>1, WFMin
<1>4. \A m \in T : m \in Nat /\ n \in Nat /\ ~(m < n)
  BY <1>2, <1>3
<1> QED BY <1>4

(* Induction up to N, for a set S of numbers.                                  *)
LEMMA Upwards ==
  ASSUME NEW N \in Nat, NEW S, 0 \in S, \A n \in 0..(N - 1) : n \in S => n + 1 \in S
  PROVE  \A n \in 0..N : n \in S
<1> DEFINE Bad == {n \in 0..N : n \notin S}
<1> SUFFICES ASSUME Bad # {} PROVE FALSE
  OBVIOUS
<1>0. Bad \in SUBSET Nat
  OBVIOUS
<1> HIDE DEF Bad
<1>1. PICK n \in Bad : \A m \in Bad : n <= m
  BY <1>0, Least
<1> USE DEF Bad
<1>2. n \in Nat /\ n # 0 /\ n - 1 \in 0..(N - 1) /\ n - 1 \notin Bad
  BY <1>1
<1> QED BY <1>1, <1>2

(* What begins with base and goes on by step is a function.                    *)
Unfolds(f, base, step, n) ==
  f[0] = base /\ \A m \in 1..n : f[m] = step[<<m, f[m - 1]>>]

(* A function that is said by what it is at n - 1 exists.                      *)
LEMMA Recursion ==
  ASSUME NEW X, NEW base \in X, NEW N \in Nat, NEW step \in [(1..N) \X X -> X]
  PROVE  \E f \in [0..N -> X] : Unfolds(f, base, step, N)
<1> DEFINE Done == {n \in 0..N : \E f \in [0..n -> X] : Unfolds(f, base, step, n)}
<1>1. 0 \in Done
  <2> DEFINE f == [m \in 0..0 |-> base]
  <2>1. f \in [0..0 -> X] /\ Unfolds(f, base, step, 0)
    BY DEF Unfolds
  <2> QED BY <2>1
<1>2. ASSUME NEW n \in 0..(N - 1), n \in Done PROVE n + 1 \in Done
  <2>1. PICK f \in [0..n -> X] : Unfolds(f, base, step, n)
    BY <1>2
  <2> DEFINE last == step[<<n + 1, f[n]>>]
             g == [m \in 0..(n + 1) |-> IF m = n + 1 THEN last ELSE f[m]]
  <2>2. last \in X /\ n + 1 \in 0..N
    OBVIOUS
  <2> HIDE DEF last
  <2>3. g \in [0..(n + 1) -> X] /\ g[n + 1] = last /\ \A m \in 0..n : g[m] = f[m]
    BY <2>2
  <2> HIDE DEF g
  <2>4. g[0] = base
    BY <2>1, <2>3 DEF Unfolds
  <2>5. ASSUME NEW m \in 1..(n + 1) PROVE g[m] = step[<<m, g[m - 1]>>]
    <3>1. CASE m = n + 1
      BY <2>3, <3>1 DEF last
    <3>2. CASE m # n + 1
      <4>1. m \in 1..n /\ m \in 0..n /\ m - 1 \in 0..n
        BY <3>2
      <4> QED BY <2>1, <2>3, <4>1 DEF Unfolds
    <3> QED BY <3>1, <3>2
  <2>6. Unfolds(g, base, step, n + 1)
    BY <2>4, <2>5 DEF Unfolds
  <2> QED BY <2>2, <2>3, <2>6
<1> HIDE DEF Done
<1>3. \A n \in 0..N : n \in Done
  BY <1>1, <1>2, Upwards
<1> QED BY <1>3 DEF Done

(* The elements of two sequences after each other.                             *)
LEMMA JoinFacts ==
  ASSUME NEW T, NEW s \in Seq(T), NEW t \in Seq(T)
  PROVE  /\ s \o t \in Seq(T) /\ Len(s \o t) = Len(s) + Len(t)
         /\ \A i \in 1..(Len(s) + Len(t)) : (s \o t)[i] = IF i <= Len(s) THEN s[i] ELSE t[i - Len(s)]
OBVIOUS

(* A call that inserts or removes moves what comes after.                      *)
LEMMA InsertAtFacts ==
  ASSUME NEW T, NEW q \in Seq(T), NEW n \in 1..(Len(q) + 1), NEW e \in T
  PROVE  /\ InsertAt(q, n, e) \in Seq(T) /\ Len(InsertAt(q, n, e)) = Len(q) + 1
         /\ \A i \in 1..(Len(q) + 1) :
              InsertAt(q, n, e)[i] = IF i < n THEN q[i] ELSE IF i = n THEN e ELSE q[i - 1]
<1> DEFINE a == SubSeq(q, 1, n - 1)
           b == SubSeq(q, n, Len(q))
           N == Len(q)
<1>1. /\ N \in Nat /\ a \in Seq(T) /\ b \in Seq(T) /\ Len(a) = n - 1 /\ Len(b) = N - n + 1
      /\ \A i \in 1..(n - 1) : a[i] = q[i]
      /\ \A i \in 1..(N - n + 1) : b[i] = q[n + i - 1]
  OBVIOUS
<1> HIDE DEF a, b, N
<1>2. /\ a \o <<e>> \in Seq(T) /\ Len(a \o <<e>>) = n
      /\ \A i \in 1..n : (a \o <<e>>)[i] = IF i < n THEN q[i] ELSE e
  BY <1>1
<1> DEFINE c == a \o <<e>>
<1> HIDE DEF c
<1>3. c \in Seq(T) /\ Len(c) = n /\ \A i \in 1..n : c[i] = IF i < n THEN q[i] ELSE e
  BY <1>2 DEF c
<1>4. /\ c \o b \in Seq(T) /\ Len(c \o b) = N + 1
      /\ \A i \in 1..(N + 1) : (c \o b)[i] = IF i <= n THEN c[i] ELSE b[i - n]
  <2>1. Len(c) + Len(b) = N + 1
    BY <1>1, <1>3
  <2>2. /\ c \o b \in Seq(T) /\ Len(c \o b) = Len(c) + Len(b)
        /\ \A i \in 1..(Len(c) + Len(b)) : (c \o b)[i] = IF i <= Len(c) THEN c[i] ELSE b[i - Len(c)]
    BY <1>1, <1>3, JoinFacts
  <2> QED BY <1>3, <2>1, <2>2
<1>5. \A i \in 1..(N + 1) : (c \o b)[i] = IF i < n THEN q[i] ELSE IF i = n THEN e ELSE q[i - 1]
  <2> TAKE i \in 1..(N + 1)
  <2>1. CASE i <= n
    BY <1>1, <1>3, <1>4, <2>1
  <2>2. CASE i > n
    <3>1. i - n \in 1..(N - n + 1) /\ n + (i - n) - 1 = i - 1
      BY <1>1, <2>2
    <3> QED BY <1>1, <1>4, <2>2, <3>1
  <2>3. i <= n \/ i > n
    BY <1>1
  <2> QED BY <2>1, <2>2, <2>3
<1>6. InsertAt(q, n, e) = c \o b
  BY DEF InsertAt, a, b, c
<1> QED BY <1>4, <1>5, <1>6 DEF N

(* A sequence with one element less.                                           *)
LEMMA RemoveAtFacts ==
  ASSUME NEW T, NEW q \in Seq(T), NEW n \in 1..Len(q)
  PROVE  /\ RemoveAt(q, n) \in Seq(T) /\ Len(RemoveAt(q, n)) = Len(q) - 1
         /\ \A i \in 1..(Len(q) - 1) : RemoveAt(q, n)[i] = IF i < n THEN q[i] ELSE q[i + 1]
<1> DEFINE a == SubSeq(q, 1, n - 1)
           b == SubSeq(q, n + 1, Len(q))
           N == Len(q)
<1>1. /\ N \in Nat /\ a \in Seq(T) /\ b \in Seq(T) /\ Len(a) = n - 1 /\ Len(b) = N - n
      /\ \A i \in 1..(n - 1) : a[i] = q[i]
      /\ \A i \in 1..(N - n) : b[i] = q[n + i]
  OBVIOUS
<1> HIDE DEF a, b, N
<1>2. /\ a \o b \in Seq(T) /\ Len(a \o b) = N - 1
      /\ \A i \in 1..(N - 1) : (a \o b)[i] = IF i <= n - 1 THEN a[i] ELSE b[i - (n - 1)]
  <2>1. Len(a) + Len(b) = N - 1
    BY <1>1
  <2>2. /\ a \o b \in Seq(T) /\ Len(a \o b) = Len(a) + Len(b)
        /\ \A i \in 1..(Len(a) + Len(b)) : (a \o b)[i] = IF i <= Len(a) THEN a[i] ELSE b[i - Len(a)]
    BY <1>1, JoinFacts
  <2> QED BY <1>1, <2>1, <2>2
<1>3. \A i \in 1..(N - 1) : (a \o b)[i] = IF i < n THEN q[i] ELSE q[i + 1]
  <2> TAKE i \in 1..(N - 1)
  <2>1. CASE i < n
    BY <1>1, <1>2, <2>1
  <2>2. CASE ~(i < n)
    <3>1. i - (n - 1) \in 1..(N - n) /\ n + (i - (n - 1)) = i + 1 /\ ~(i <= n - 1)
      BY <1>1, <2>2
    <3> QED BY <1>1, <1>2, <2>2, <3>1
  <2> QED BY <2>1, <2>2
<1>4. RemoveAt(q, n) = a \o b
  BY DEF RemoveAt, a, b, N
<1> QED BY <1>2, <1>3, <1>4 DEF N

(* Sequences with the same elements are the same.                              *)
LEMMA SameSeq ==
  ASSUME NEW T, NEW s \in Seq(T), NEW U, NEW t \in Seq(U), Len(s) = Len(t),
         \A i \in 1..Len(s) : s[i] = t[i]
  PROVE  s = t
OBVIOUS

-----------------------------------------------------------------------------
(* Chains: what a walk along the pointers visits.                              *)

(* Null is no block.                                                           *)
LEMMA NullFacts == Null \notin Blocks /\ IsFiniteSet(Blocks) /\ Cardinality(Blocks) \in Nat
BY NodesAssumption, BlocksAssumption, FS_CardinalityType

(* At gives the nodes of the chain, and Null off either end.                   *)
LEMMA AtFacts ==
  ASSUME NEW q \in Seq(Blocks)
  PROVE  /\ Len(q) \in Nat /\ DOMAIN q = 1..Len(q) /\ LastOf(q) = At(q, Len(q))
         /\ \A n \in 1..Len(q) : q[n] \in Blocks /\ At(q, n) = q[n]
         /\ \A n : n \notin 1..Len(q) => At(q, n) = Null
         /\ \A n : At(q, n) \in Blocks \cup {Null} /\ (At(q, n) = Null <=> n \notin 1..Len(q))
         /\ ToSet(q) \subseteq Blocks
<1>1. Len(q) \in Nat /\ DOMAIN q = 1..Len(q) /\ \A n \in 1..Len(q) : q[n] \in Blocks
  OBVIOUS
<1>2. q = <<>> <=> Len(q) = 0
  OBVIOUS
<1>3. ToSet(q) \subseteq Blocks
  BY <1>1 DEF ToSet
<1>4. LastOf(q) = At(q, Len(q))
  <2>1. CASE Len(q) = 0
    BY <1>2, <2>1 DEF LastOf, At
  <2>2. CASE Len(q) # 0
    BY <1>1, <1>2, <2>2 DEF LastOf, At
  <2> QED BY <2>1, <2>2
<1> QED BY <1>1, <1>3, <1>4, NullFacts DEF At

(* The elements of a sequence and their places.                                *)
LEMMA ElementFacts ==
  ASSUME NEW T, NEW q \in Seq(T)
  PROVE  /\ \A n \in 1..Len(q) : q[n] \in ToSet(q)
         /\ \A x \in ToSet(q) : \E n \in 1..Len(q) : x = q[n]
         /\ IsInjective(q) <=> \A m, n \in 1..Len(q) : q[m] = q[n] => m = n
<1>1. DOMAIN q = 1..Len(q)
  OBVIOUS
<1> QED BY <1>1 DEF ToSet, IsInjective

(* The chain that begins at b and goes along the pointers to of node.          *)
IsChain(q, b, node, to) ==
  /\ q \in Seq(Blocks) /\ IsInjective(q) /\ b = At(q, 1)
  /\ \A n \in 1..Len(q) : node[q[n]][to] = At(q, n + 1)

(* A chain of different blocks is no longer than there are blocks.             *)
LEMMA ChainLength ==
  ASSUME NEW q \in Seq(Blocks), IsInjective(q)
  PROVE  Len(q) <= Cardinality(Blocks)
<1>1. Len(q) \in Nat /\ q \in [1..Len(q) -> Blocks]
  OBVIOUS
<1>2. q \in Injection(1..Len(q), Blocks)
  BY <1>1 DEF Injection
<1>3. IsFiniteSet(1..Len(q)) /\ Cardinality(1..Len(q)) = Len(q)
  BY <1>1, FS_Interval
<1> QED BY <1>1, <1>2, <1>3, NullFacts, FS_Injection

-----------------------------------------------------------------------------
(* A walk along a chain visits the chain.                                      *)

WalkTo(f, node, to, n) ==
  f = [m \in 0..n |-> [c \in Blocks \cup {Null} |->
         IF m = 0 \/ c = Null THEN <<>> ELSE <<c>> \o f[m - 1][node[c][to]]]]

(* The function in Walk exists.                                                *)
LEMMA WalkExists ==
  ASSUME NEW node, NEW to, NEW N \in Nat
  PROVE  \E f : WalkTo(f, node, to, N)
<1> DEFINE Done == {n \in 0..N : \E f : WalkTo(f, node, to, n)}
           row(m, before) == [c \in Blocks \cup {Null} |->
                                IF m = 0 \/ c = Null THEN <<>> ELSE <<c>> \o before[node[c][to]]]
<1>1. 0 \in Done
  <2> DEFINE f == [m \in 0..0 |-> [c \in Blocks \cup {Null} |-> <<>>]]
  <2>1. WalkTo(f, node, to, 0)
    BY DEF WalkTo
  <2> QED BY <2>1
<1>2. ASSUME NEW n \in 0..(N - 1), n \in Done PROVE n + 1 \in Done
  <2>1. PICK f : WalkTo(f, node, to, n)
    BY <1>2
  <2> DEFINE g == [m \in 0..(n + 1) |-> IF m = n + 1 THEN row(m, f[n]) ELSE f[m]]
  <2>2. \A m \in 0..n : g[m] = f[m]
    OBVIOUS
  <2>3. g[n + 1] = row(n + 1, f[n])
    OBVIOUS
  <2>4. f = [m \in 0..n |-> row(m, f[m - 1])]
        /\ \A e : row(0, e) = [c \in Blocks \cup {Null} |-> <<>>]
    BY <2>1 DEF WalkTo
  <2>5. g = [m \in 0..(n + 1) |-> g[m]]
    OBVIOUS
  <2> HIDE DEF row, g
  <2>6. \A m \in 0..(n + 1) : g[m] = row(m, g[m - 1])
    <3> TAKE m \in 0..(n + 1)
    <3>1. CASE m = 0
      <4>1. m \in 0..n /\ f[m] = row(m, f[m - 1])
        BY <2>4, <3>1
      <4> QED BY <2>2, <2>4, <3>1, <4>1
    <3>2. CASE m = n + 1
      <4>1. m - 1 = n /\ n \in 0..n
        BY <3>2
      <4> QED BY <2>2, <2>3, <3>2, <4>1
    <3>3. CASE m \in 1..n
      <4>1. m \in 0..n /\ m - 1 \in 0..n
        BY <3>3
      <4>2. f[m] = row(m, f[m - 1])
        BY <2>4, <4>1
      <4> QED BY <2>2, <4>1, <4>2
    <3> QED BY <3>1, <3>2, <3>3
  <2>7. WalkTo(g, node, to, n + 1)
    BY <2>5, <2>6 DEF WalkTo, row
  <2> QED BY <2>7
<1> HIDE DEF Done
<1>3. \A n \in 0..N : n \in Done
  BY <1>1, <1>2, Upwards
<1> QED BY <1>3 DEF Done

(* A walk visits the chain, whatever way its pointers go.                      *)
LEMMA WalkIsChain ==
  ASSUME NEW q, NEW b, NEW node, NEW to, IsChain(q, b, node, to)
  PROVE  Walk(b, node, to) = q
<1> DEFINE N == Cardinality(Blocks)
           L == Len(q)
           f == CHOOSE f : WalkTo(f, node, to, N)
           rest(i) == SubSeq(q, i, L)
           Good == {n \in 0..N : \A i \in 1..(L + 1) : L + 1 - i <= n => f[n][At(q, i)] = rest(i)}
<1>1. /\ q \in Seq(Blocks) /\ b = At(q, 1) /\ N \in Nat /\ L \in Nat /\ L <= N
      /\ \A n \in 1..L : node[q[n]][to] = At(q, n + 1)
  BY NullFacts, ChainLength DEF IsChain
<1>2. Walk(b, node, to) = f[N][b]
  BY DEF Walk, WalkTo
<1>3. WalkTo(f, node, to, N)
  BY <1>1, WalkExists
<1>4. /\ rest(L + 1) = <<>> /\ rest(1) = q
      /\ \A i \in 1..L : rest(i) = <<q[i]>> \o rest(i + 1)
  BY <1>1
<1>5. /\ \A i \in 1..L : At(q, i) = q[i] /\ q[i] \in Blocks
      /\ At(q, L + 1) = Null
  BY <1>1, AtFacts
<1> HIDE DEF N, L, f, rest
<1>6. 0 \in Good
  <2>1. f[0] = [c \in Blocks \cup {Null} |-> <<>>]
    BY <1>1, <1>3 DEF WalkTo
  <2>2. \A i \in 1..(L + 1) : L + 1 - i <= 0 => i = L + 1
    BY <1>1
  <2> QED BY <1>1, <1>4, <1>5, <2>1, <2>2
<1>7. ASSUME NEW n \in 0..(N - 1), n \in Good PROVE n + 1 \in Good
  <2>1. n + 1 \in 0..N /\ n + 1 # 0 /\ (n + 1) - 1 = n
    BY <1>1
  <2>2. ASSUME NEW c \in Blocks \cup {Null}
        PROVE  f[n + 1][c] = IF c = Null THEN <<>> ELSE <<c>> \o f[n][node[c][to]]
    <3>1. f[n + 1] = [e \in Blocks \cup {Null} |->
                       IF n + 1 = 0 \/ e = Null THEN <<>> ELSE <<e>> \o f[(n + 1) - 1][node[e][to]]]
      BY <1>3, <2>1 DEF WalkTo
    <3>2. f[n + 1] = [e \in Blocks \cup {Null} |->
                       IF e = Null THEN <<>> ELSE <<e>> \o f[n][node[e][to]]]
      BY <2>1, <3>1
    <3> QED BY <3>2
  <2>3. ASSUME NEW i \in 1..(L + 1), L + 1 - i <= n + 1 PROVE f[n + 1][At(q, i)] = rest(i)
    <3>1. CASE i = L + 1
      BY <1>4, <1>5, <2>2, <3>1
    <3>2. CASE i # L + 1
      <4>1. i \in 1..L /\ i + 1 \in 1..(L + 1) /\ L + 1 - (i + 1) <= n
        BY <1>1, <2>3, <3>2
      <4>2. f[n][At(q, i + 1)] = rest(i + 1)
        BY <1>7, <4>1
      <4>3. f[n + 1][q[i]] = <<q[i]>> \o f[n][node[q[i]][to]]
        BY <1>5, <2>2, <4>1, NullFacts
      <4> QED BY <1>1, <1>4, <1>5, <4>1, <4>2, <4>3
    <3> QED BY <3>1, <3>2
  <2> QED BY <2>1, <2>3
<1>8. \A n \in 0..N : n \in Good
  <2> HIDE DEF Good
  <2> QED BY <1>1, <1>6, <1>7, Upwards
<1>9. f[N][At(q, 1)] = rest(1)
  BY <1>1, <1>8
<1> QED BY <1>1, <1>2, <1>4, <1>9

-----------------------------------------------------------------------------
(* The blocks a call frees one after the other.                                *)

(* A free keeps the type of the heap.                                          *)
LEMMA FreedType ==
  ASSUME NEW h \in HeapType, NEW d \in Slices \cup {Plain}, NEW b \in Blocks
  PROVE  Freed(h, d, b) \in HeapType
<1>1. CASE d = Plain \/ h.owner[b] = Null \/ h.count[d] >= MaxCached
  <2>1. Freed(h, d, b) = Returned(h, {b})
    BY <1>1 DEF Freed
  <2>2. Returned(h, {b}) \in HeapType
    BY ReturnedParts
  <2> QED BY <2>1, <2>2
<1>2. CASE ~(d = Plain \/ h.owner[b] = Null \/ h.count[d] >= MaxCached)
  <2>1. d \in Slices /\ h.owner[b] \in FreeLists
    BY <1>2, HeapParts
  <2>2. Freed(h, d, b) = Pushed(h, d, h.owner[b], b)
    BY <1>2 DEF Freed, Pushed
  <2>3. Pushed(h, d, h.owner[b], b) \in HeapType
    BY <2>1, PushedParts
  <2> QED BY <2>2, <2>3
<1> QED BY <1>1, <1>2

FreedTo(f, d, bs, n) ==
  f = [m \in 0..n |-> IF m = 0 THEN heap ELSE Freed(f[m - 1], d, bs[m])]

(* The function in FreedEach exists.                                           *)
LEMMA FreedExists ==
  ASSUME heap \in HeapType, NEW d \in Slices \cup {Plain}, NEW bs \in Seq(Blocks)
  PROVE  \E f : FreedTo(f, d, bs, Len(bs))
<1> DEFINE N == Len(bs)
           base == heap
           step == [p \in (1..N) \X HeapType |-> Freed(p[2], d, bs[p[1]])]
<1>1. N \in Nat /\ \A n \in 1..N : bs[n] \in Blocks
  OBVIOUS
<1>2. step \in [(1..N) \X HeapType -> HeapType] /\ base \in HeapType
  BY <1>1, FreedType
<1>3. \A m \in 1..N, h \in HeapType : step[<<m, h>>] = Freed(h, d, bs[m])
  OBVIOUS
<1> HIDE DEF N, step, base
<1>4. PICK f \in [0..N -> HeapType] : Unfolds(f, base, step, N)
  BY <1>1, <1>2, Recursion
<1>5. \A m \in 0..N : f[m] = IF m = 0 THEN base ELSE Freed(f[m - 1], d, bs[m])
  <2> TAKE m \in 0..N
  <2>1. CASE m = 0
    BY <1>4, <2>1 DEF Unfolds
  <2>2. CASE m # 0
    <3>1. m \in 1..N /\ f[m - 1] \in HeapType
      BY <1>1, <1>4, <2>2
    <3> QED BY <1>3, <1>4, <2>2, <3>1 DEF Unfolds
  <2> QED BY <2>1, <2>2
<1>6. f = [m \in 0..N |-> f[m]]
  BY <1>4
<1>7. f = [m \in 0..N |-> IF m = 0 THEN base ELSE Freed(f[m - 1], d, bs[m])]
  BY <1>5, <1>6
<1> QED BY <1>7 DEF FreedTo, base, N

(* A free through a slice allocator that did not make the block is recorded.   *)
Mixes(h, d, b, my) == d # Plain /\ ForeignTo(h, d, b) => my

(* Freeing one block more of several.                                          *)
LEMMA FreedAgain ==
  ASSUME NEW h, NEW lv, NEW my \in BOOLEAN, HeapOK(h, lv, my), NEW b \in Held(lv),
         NEW d \in Slices \cup {Plain}, Mixes(h, d, b, my)
  PROVE  /\ HeapOK(Freed(h, d, b), [lv EXCEPT ![b] = NotLive], my)
         /\ \A c \in Blocks : c # b => Freed(h, d, b).owner[c] = h.owner[c]
<1>1. my \/ (d # Plain /\ ForeignTo(h, d, b)) => my
  BY DEF Mixes
<1> QED BY <1>1, FreedFacts


(* Every block of bs is freed once.                                            *)
LEMMA FreeEachFacts ==
  ASSUME AInv, NEW bs \in Seq(Blocks), IsInjective(bs), ToSet(bs) \subseteq Live, FreeEach(bs)
  PROVE  AInv'
<1> DEFINE d == Default
           N == Len(bs)
           my == mixed'
           f == CHOOSE f : FreedTo(f, d, bs, N)
           first(n) == {bs[i] : i \in 1..n}
           lv(n) == [b \in Blocks |-> IF b \in first(n) THEN NotLive ELSE live[b]]
           Good == {n \in 0..N : /\ HeapOK(f[n], lv(n), my)
                                 /\ \A c \in Blocks \ first(n) : f[n].owner[c] = heap.owner[c]}
<1>1. /\ HeapOK(heap, live, mixed) /\ RefsOK /\ heap \in HeapType
      /\ live \in [Blocks -> AllSizes \cup {NotLive}]
  BY HeapOKFacts DEF HeapOK
<1>2. d \in Slices \cup {Plain} /\ my \in BOOLEAN /\ (mixed => my)
  BY <1>1, DefaultFacts DEF FreeEach, HeapOK
<1>3. /\ N \in Nat /\ ToSet(bs) \subseteq Held(live)
      /\ \A i \in 1..N : bs[i] \in Blocks /\ bs[i] \in ToSet(bs)
      /\ \A i, j \in 1..N : bs[i] = bs[j] => i = j
  BY ElementFacts DEF Held, Live
<1>4. FreedTo(f, d, bs, N)
  BY <1>1, <1>2, FreedExists
<1>5. heap' = f[N]
  BY DEF FreeEach, FreedEach, FreedTo
<1>6. \A b \in ToSet(bs) : d # Plain /\ ForeignTo(heap, d, b) => my
  BY DEF FreeEach, Foreign, ForeignTo
<1> HIDE DEF d, N, my, f
<1>7. 0 \in Good
  <2>1. f[0] = heap
    BY <1>3, <1>4 DEF FreedTo
  <2>2. first(0) = {}
    OBVIOUS
  <2>3. lv(0) = live
    BY <1>1, <2>2
  <2> HIDE DEF first, lv
  <2>4. HeapOK(heap, live, my)
    BY <1>1, <1>2 DEF HeapOK
  <2> QED BY <1>3, <2>1, <2>3, <2>4
<1>8. ASSUME NEW n \in 0..(N - 1), n \in Good PROVE n + 1 \in Good
  <2>1. n + 1 \in 1..N /\ n + 1 \in 0..N /\ n + 1 # 0 /\ (n + 1) - 1 = n
    BY <1>3
  <2> DEFINE b == bs[n + 1]
             h == f[n]
  <2>2. f[n + 1] = Freed(h, d, b)
    BY <1>4, <2>1 DEF FreedTo
  <2>3. first(n + 1) = first(n) \cup {b}
    <3>1. 1..(n + 1) = 1..n \cup {n + 1}
      BY <1>3
    <3> QED BY <3>1
  <2>4. b \in Blocks /\ b \notin first(n) /\ b \in ToSet(bs)
    <3>1. \A i \in 1..n : i \in 1..N /\ i # n + 1
      BY <1>3
    <3> QED BY <1>3, <2>1, <3>1
  <2>5. lv(n + 1) = [lv(n) EXCEPT ![b] = NotLive]
    BY <2>3, <2>4
  <2>6. b \in Held(lv(n))
    BY <1>3, <2>4 DEF Held
  <2>7. HeapOK(h, lv(n), my) /\ \A c \in Blocks \ first(n) : h.owner[c] = heap.owner[c]
    BY <1>8
  <2> HIDE DEF b, h, lv, first
  <2>8. d # Plain /\ ForeignTo(h, d, b) => my
    BY <1>6, <2>4, <2>7 DEF ForeignTo
  <2>8a. Mixes(h, d, b, my)
    BY <2>8 DEF Mixes
  <2>9. /\ HeapOK(Freed(h, d, b), [lv(n) EXCEPT ![b] = NotLive], my)
        /\ \A c \in Blocks : c # b => Freed(h, d, b).owner[c] = h.owner[c]
    BY <1>2, <2>6, <2>7, <2>8a, FreedAgain
  <2>10. HeapOK(f[n + 1], lv(n + 1), my)
    BY <2>2, <2>5, <2>9
  <2>11. \A c \in Blocks \ first(n + 1) : f[n + 1].owner[c] = heap.owner[c]
    BY <2>2, <2>3, <2>7, <2>9
  <2> QED BY <2>1, <2>10, <2>11
<1>9. N \in Good
  <2> HIDE DEF Good
  <2>1. \A n \in 0..N : n \in Good
    BY <1>3, <1>7, <1>8, Upwards
  <2> QED BY <1>3, <2>1
<1>10. lv(N) = live'
  <2>1. first(N) = ToSet(bs)
    BY <1>3, ElementFacts DEF N
  <2> QED BY <2>1 DEF FreeEach
<1>11. ref_count' = ref_count
  BY DEF FreeEach
<1>12. HeapOK(heap, live, mixed)'
  <2>1. HeapOK(f[N], lv(N), my)
    BY <1>9
  <2>2. PICK g, lw, mx : g = heap' /\ lw = live' /\ mx = mixed' /\ HeapOK(g, lw, mx)
    BY <1>5, <1>10, <2>1 DEF my
  <2> QED BY <1>11, <2>2 DEF HeapOK, Tidy
<1>13. RefsOK'
  BY <1>1, <1>11, DefaultFacts DEF RefsOK, FreeEach
<1> QED BY <1>12, <1>13, HeapOKNext

(* alloc answers a block that is not in use.                                   *)
LEMMA AllocFacts ==
  ASSUME AInv, NEW s \in AllSizes, NEW b, Alloc(s, b)
  PROVE  AInv' /\ b \in Blocks \ Live /\ live' = [live EXCEPT ![b] = s]
<1>1. Default \in Slices \cup {Plain} /\ (Default = Plain <=> Default \notin Slices)
  BY DefaultFacts DEF Alloc
<1>2. b \in Blocks \ Live
  <2>1. CASE HasCached(heap, Default, s)
    <3>1. <<Default, s>> \in FreeLists /\ heap.cached[<<Default, s>>] # <<>>
      BY <1>1, <2>1 DEF HasCached, FreeLists
    <3> DEFINE k == <<Default, s>>
               q == heap.cached[k]
    <3>2. q \in Seq(Blocks) /\ q # <<>> /\ b = Head(q)
      BY <2>1, <3>1, HeapParts DEF AInv, TypeOK, Alloc, Answers
    <3> HIDE DEF k
    <3>3. 1 \in 1..Len(q) /\ b = q[1] /\ b \in Blocks
      BY <3>2
    <3>4. b \notin Live
      BY <3>1, <3>3 DEF AInv, NothingLost, k
    <3> QED BY <3>3, <3>4
  <2>2. CASE ~HasCached(heap, Default, s)
    BY <2>2 DEF Alloc, Answers, AInv, NothingLost
  <2> QED BY <2>1, <2>2
<1> QED BY <1>2, AllocStep DEF Alloc

-----------------------------------------------------------------------------
(* A chain with one node more, or one less.                                    *)

(* A chain with one node more, or one less.                                    *)
LEMMA InsertedChain ==
  ASSUME NEW q \in Seq(Blocks), IsInjective(q), NEW m \in 0..Len(q),
         NEW b \in Blocks, b \notin ToSet(q), NEW r, r = InsertAt(q, m + 1, b)
  PROVE  /\ r \in Seq(Blocks) /\ IsInjective(r) /\ Len(r) = Len(q) + 1
         /\ ToSet(r) = ToSet(q) \cup {b}
         /\ \A i \in 1..(Len(q) + 1) :
              r[i] = IF i < m + 1 THEN q[i] ELSE IF i = m + 1 THEN b ELSE q[i - 1]
<1>1. /\ m + 1 \in 1..(Len(q) + 1) /\ Len(q) \in Nat
      /\ \A i, j \in 1..Len(q) : q[i] = q[j] => i = j
      /\ \A i \in 1..Len(q) : q[i] \in ToSet(q)
      /\ \A x \in ToSet(q) : \E i \in 1..Len(q) : x = q[i]
  BY ElementFacts
<1>2. /\ r \in Seq(Blocks) /\ Len(r) = Len(q) + 1
      /\ \A i \in 1..(Len(q) + 1) :
           r[i] = IF i < m + 1 THEN q[i] ELSE IF i = m + 1 THEN b ELSE q[i - 1]
  <2> DEFINE n == m + 1
  <2>1. n \in 1..(Len(q) + 1) /\ r = InsertAt(q, n, b)
    BY <1>1
  <2> HIDE DEF n
  <2>2. /\ r \in Seq(Blocks) /\ Len(r) = Len(q) + 1
        /\ \A i \in 1..(Len(q) + 1) : r[i] = IF i < n THEN q[i] ELSE IF i = n THEN b ELSE q[i - 1]
    <3>1. q \in Seq(Blocks) /\ n \in 1..(Len(q) + 1) /\ b \in Blocks
      BY <2>1
    <3>2. /\ InsertAt(q, n, b) \in Seq(Blocks) /\ Len(InsertAt(q, n, b)) = Len(q) + 1
          /\ \A i \in 1..(Len(q) + 1) :
               InsertAt(q, n, b)[i] = IF i < n THEN q[i] ELSE IF i = n THEN b ELSE q[i - 1]
      BY ONLY <3>1, InsertAtFacts
    <3> QED BY <2>1, <3>2
  <2> QED BY <2>2 DEF n
<1>3. IsInjective(r)
  <2>1. ASSUME NEW i \in 1..(Len(q) + 1), NEW j \in 1..(Len(q) + 1), r[i] = r[j]
        PROVE  i = j
    <3>1. CASE i = m + 1
      <4>1. CASE j = m + 1
        BY <3>1, <4>1
      <4>2. CASE j # m + 1
        <5> DEFINE v == IF j < m + 1 THEN j ELSE j - 1
        <5>1. v \in 1..Len(q) /\ r[j] = q[v] /\ r[i] = b
          BY <1>1, <1>2, <3>1, <4>2
        <5> QED BY <1>1, <2>1, <5>1
      <4> QED BY <4>1, <4>2
    <3>3. CASE j = m + 1 /\ i # m + 1
      <4> DEFINE u == IF i < m + 1 THEN i ELSE i - 1
      <4>1. u \in 1..Len(q) /\ r[i] = q[u] /\ r[j] = b
        BY <1>1, <1>2, <3>3
      <4> QED BY <1>1, <2>1, <4>1
    <3>2. CASE i # m + 1 /\ j # m + 1
      <4> DEFINE u == IF i < m + 1 THEN i ELSE i - 1
                 v == IF j < m + 1 THEN j ELSE j - 1
      <4>1. u \in 1..Len(q) /\ v \in 1..Len(q) /\ r[i] = q[u] /\ r[j] = q[v]
        BY <1>1, <1>2, <3>2
      <4>2. u = v
        BY <1>1, <2>1, <4>1
      <4> QED BY <3>2, <4>2
    <3> QED BY <3>1, <3>2, <3>3
  <2> QED BY <1>2, <2>1, ElementFacts
<1>4. ToSet(r) = ToSet(q) \cup {b}
  <2>1. ASSUME NEW x \in ToSet(r) PROVE x \in ToSet(q) \cup {b}
    <3>1. PICK i \in 1..(Len(q) + 1) : x = r[i]
      BY <1>2, ElementFacts
    <3>2. i = m + 1 \/ (i \in 1..Len(q) /\ i < m + 1) \/ (i - 1 \in 1..Len(q) /\ i > m + 1)
      BY <1>1
    <3>3. x = b \/ \E j \in 1..Len(q) : x = q[j]
      BY <1>2, <3>1, <3>2
    <3> QED BY <1>1, <3>3
  <2>2. ASSUME NEW x \in ToSet(q) PROVE x \in ToSet(r)
    <3>1. PICK i \in 1..Len(q) : x = q[i]
      BY <1>1
    <3>2. x = r[IF i < m + 1 THEN i ELSE i + 1] /\ (IF i < m + 1 THEN i ELSE i + 1) \in 1..Len(r)
      BY <1>1, <1>2, <3>1
    <3> QED BY <1>2, <3>2, ElementFacts
  <2>3. b \in ToSet(r)
    <3>1. m + 1 \in 1..Len(r) /\ b = r[m + 1]
      BY <1>1, <1>2
    <3> QED BY <1>2, <3>1, ElementFacts
  <2> QED BY <2>1, <2>2, <2>3
<1> QED BY <1>2, <1>3, <1>4

Dropped(q, k, r) ==
  /\ r \in Seq(Blocks) /\ IsInjective(r) /\ Len(r) = Len(q) - 1
  /\ ToSet(r) = ToSet(q) \ {q[k]}
  /\ \A i \in 1..(Len(q) - 1) : r[i] = IF i < k THEN q[i] ELSE q[i + 1]

(* A chain without its k-th node.                                              *)
LEMMA RemovedChain ==
  ASSUME NEW q \in Seq(Blocks), IsInjective(q), NEW k \in 1..Len(q), NEW r, r = RemoveAt(q, k)
  PROVE  Dropped(q, k, r)
<1>1. /\ Len(q) \in Nat
      /\ \A i, j \in 1..Len(q) : q[i] = q[j] => i = j
      /\ \A i \in 1..Len(q) : q[i] \in ToSet(q)
      /\ \A x \in ToSet(q) : \E i \in 1..Len(q) : x = q[i]
  BY ElementFacts
<1>2. /\ r \in Seq(Blocks) /\ Len(r) = Len(q) - 1
      /\ \A i \in 1..(Len(q) - 1) : r[i] = IF i < k THEN q[i] ELSE q[i + 1]
  BY RemoveAtFacts
<1>3. IsInjective(r)
  <2>1. ASSUME NEW i \in 1..(Len(q) - 1), NEW j \in 1..(Len(q) - 1), r[i] = r[j]
        PROVE  i = j
    <3> DEFINE u == IF i < k THEN i ELSE i + 1
               v == IF j < k THEN j ELSE j + 1
    <3>1. u \in 1..Len(q) /\ v \in 1..Len(q) /\ r[i] = q[u] /\ r[j] = q[v]
      BY <1>1, <1>2
    <3>2. u = v
      BY <1>1, <2>1, <3>1
    <3> QED BY <3>2
  <2> QED BY <1>2, <2>1, ElementFacts
<1>4. ToSet(r) = ToSet(q) \ {q[k]}
  <2>1. ASSUME NEW x \in ToSet(r) PROVE x \in ToSet(q) \ {q[k]}
    <3>1. PICK i \in 1..(Len(q) - 1) : x = r[i]
      BY <1>2, ElementFacts
    <3> DEFINE u == IF i < k THEN i ELSE i + 1
    <3>2. u \in 1..Len(q) /\ u # k /\ x = q[u]
      BY <1>1, <1>2, <3>1
    <3> HIDE DEF u
    <3> QED BY <1>1, <3>2
  <2>2. ASSUME NEW x \in ToSet(q), x # q[k] PROVE x \in ToSet(r)
    <3>1. PICK i \in 1..Len(q) : x = q[i]
      BY <1>1
    <3> DEFINE u == IF i < k THEN i ELSE i - 1
    <3>2. i # k
      BY <2>2, <3>1
    <3>3. u \in 1..Len(r) /\ u \in 1..(Len(q) - 1) /\ (u < k <=> i < k)
      BY <1>1, <1>2, <3>2
    <3>4. x = r[u]
      <4>1. CASE i < k
        BY <1>2, <3>1, <3>3, <4>1
      <4>2. CASE ~(i < k)
        <5>1. ~(u < k) /\ u + 1 = i
          BY <3>3, <4>2
        <5> HIDE DEF u
        <5> QED BY <1>2, <3>1, <3>3, <5>1
      <4> QED BY <4>1, <4>2
    <3> HIDE DEF u
    <3> QED BY <1>2, <3>3, <3>4, ElementFacts
  <2> QED BY <2>1, <2>2
<1> QED BY <1>2, <1>3, <1>4 DEF Dropped

-----------------------------------------------------------------------------
(* What the nodes hold.                                                        *)

(* The data of a chain.                                                        *)
LEMMA DataFacts ==
  ASSUME NEW q \in Seq(Blocks), NEW node, NEW T, \A c \in ToSet(q) : node[c].data \in T
  PROVE  /\ DataOf(q, node) \in Seq(T) /\ Len(DataOf(q, node)) = Len(q)
         /\ DOMAIN DataOf(q, node) = 1..Len(q)
         /\ \A i \in 1..Len(q) : DataOf(q, node)[i] = node[q[i]].data
<1>1. DOMAIN q = 1..Len(q) /\ Len(q) \in Nat /\ \A i \in 1..Len(q) : q[i] \in ToSet(q)
  BY ElementFacts
<1>2. DataOf(q, node) = [i \in 1..Len(q) |-> node[q[i]].data]
  BY <1>1 DEF DataOf
<1>3. DataOf(q, node) \in [1..Len(q) -> T]
  BY <1>1, <1>2
<1>4. DataOf(q, node) \in Seq(T) /\ Len(DataOf(q, node)) = Len(q)
  BY <1>1, <1>3
<1> QED BY <1>2, <1>4

(* The data of a chain with the node b at place n.                             *)
LEMMA InsertedData ==
  ASSUME NEW q \in Seq(Blocks), IsInjective(q), NEW n \in 1..(Len(q) + 1),
         NEW b \in Blocks, b \notin ToSet(q), NEW r, r = InsertAt(q, n, b),
         NEW node, NEW new, \A c \in ToSet(q) : new[c].data = node[c].data
  PROVE  DataOf(r, new) = InsertAt(DataOf(q, node), n, new[b].data)
<1> DEFINE x == new[b].data
           T == {node[c].data : c \in ToSet(q)} \cup {x}
           d == DataOf(q, node)
           e == DataOf(r, new)
<1>1. /\ r \in Seq(Blocks) /\ Len(r) = Len(q) + 1 /\ ToSet(r) = ToSet(q) \cup {b}
      /\ \A i \in 1..(Len(q) + 1) :
           r[i] = IF i < n THEN q[i] ELSE IF i = n THEN b ELSE q[i - 1]
  <2> DEFINE m == n - 1
  <2>1. m \in 0..Len(q) /\ m + 1 = n
    OBVIOUS
  <2> HIDE DEF m
  <2>2. r = InsertAt(q, m + 1, b)
    BY <2>1
  <2>3. /\ r \in Seq(Blocks) /\ Len(r) = Len(q) + 1 /\ ToSet(r) = ToSet(q) \cup {b}
        /\ \A i \in 1..(Len(q) + 1) :
             r[i] = IF i < m + 1 THEN q[i] ELSE IF i = m + 1 THEN b ELSE q[i - 1]
    BY <2>1, <2>2, InsertedChain
  <2> QED BY <2>1, <2>3
<1>2. \A i \in 1..Len(q) : q[i] \in ToSet(q)
  BY ElementFacts
<1>3. /\ \A c \in ToSet(q) : node[c].data \in T
      /\ \A c \in ToSet(r) : new[c].data \in T
  BY <1>1
<1>4. /\ d \in Seq(T) /\ Len(d) = Len(q) /\ \A i \in 1..Len(q) : d[i] = node[q[i]].data
      /\ e \in Seq(T) /\ Len(e) = Len(r) /\ \A i \in 1..Len(r) : e[i] = new[r[i]].data
  <2> HIDE DEF T
  <2>1. r \in Seq(Blocks)
    BY <1>1
  <2>2. d \in Seq(T) /\ Len(d) = Len(q) /\ \A i \in 1..Len(q) : d[i] = node[q[i]].data
    BY <1>3, DataFacts
  <2>3. e \in Seq(T) /\ Len(e) = Len(r) /\ \A i \in 1..Len(r) : e[i] = new[r[i]].data
    BY <1>3, <2>1, DataFacts
  <2> QED BY <2>2, <2>3
<1>5. n \in 1..(Len(d) + 1) /\ x \in T /\ Len(q) \in Nat
  BY <1>4
<1> HIDE DEF T, d, e, x
<1>6. /\ InsertAt(d, n, x) \in Seq(T) /\ Len(InsertAt(d, n, x)) = Len(d) + 1
      /\ \A i \in 1..(Len(d) + 1) :
           InsertAt(d, n, x)[i] = IF i < n THEN d[i] ELSE IF i = n THEN x ELSE d[i - 1]
  BY <1>4, <1>5, InsertAtFacts
<1>7. ASSUME NEW i \in 1..(Len(q) + 1) PROVE e[i] = InsertAt(d, n, x)[i]
  <2>1. CASE i < n
    <3>1. i \in 1..Len(q) /\ i \in 1..Len(r) /\ i \in 1..(Len(d) + 1)
      BY <1>1, <1>4, <1>5, <2>1
    <3>2. r[i] = q[i] /\ q[i] \in ToSet(q)
      BY <1>1, <1>2, <2>1, <3>1
    <3>3. e[i] = node[q[i]].data
      BY <1>4, <3>1, <3>2
    <3>4. InsertAt(d, n, x)[i] = d[i] /\ d[i] = node[q[i]].data
      BY <1>4, <1>6, <2>1, <3>1
    <3> QED BY <3>3, <3>4
  <2>2. CASE i = n
    BY <1>1, <1>4, <1>6, <2>2 DEF x
  <2>3. CASE i > n
    <3>1. i - 1 \in 1..Len(q) /\ i \in 1..Len(r) /\ i \in 1..(Len(d) + 1) /\ ~(i < n) /\ i # n
      BY <1>1, <1>4, <1>5, <2>3
    <3>2. r[i] = q[i - 1] /\ q[i - 1] \in ToSet(q)
      BY <1>1, <1>2, <3>1
    <3>2a. new[q[i - 1]].data = node[q[i - 1]].data
      BY <3>2
    <3>3. e[i] = node[q[i - 1]].data
      BY <1>4, <3>1, <3>2, <3>2a
    <3>4. InsertAt(d, n, x)[i] = d[i - 1] /\ d[i - 1] = node[q[i - 1]].data
      BY <1>4, <1>6, <3>1
    <3> QED BY <3>3, <3>4
  <2> QED BY <1>5, <2>1, <2>2, <2>3
<1>8. e = InsertAt(d, n, x)
  <2>1. Len(e) = Len(q) + 1 /\ Len(e) = Len(InsertAt(d, n, x))
    BY <1>1, <1>4, <1>6
  <2> QED BY <1>4, <1>6, <1>7, <2>1, SameSeq
<1> QED BY <1>8 DEF d, e, x

(* The data of a chain without its k-th node.                                  *)
LEMMA RemovedData ==
  ASSUME NEW q \in Seq(Blocks), IsInjective(q), NEW k \in 1..Len(q), NEW node, NEW new,
         \A c \in ToSet(q) \ {q[k]} : new[c].data = node[c].data
  PROVE  DataOf(RemoveAt(q, k), new) = RemoveAt(DataOf(q, node), k)
<1> DEFINE r == RemoveAt(q, k)
           T == {node[c].data : c \in ToSet(q)}
           d == DataOf(q, node)
           e == DataOf(r, new)
<1>1. /\ r \in Seq(Blocks) /\ Len(r) = Len(q) - 1 /\ ToSet(r) = ToSet(q) \ {q[k]}
      /\ \A i \in 1..(Len(q) - 1) : r[i] = IF i < k THEN q[i] ELSE q[i + 1]
  <2>1. Dropped(q, k, r)
    BY RemovedChain
  <2> QED BY <2>1 DEF Dropped
<1>2. \A i \in 1..Len(q) : q[i] \in ToSet(q)
  BY ElementFacts
<1>2a. \A i \in 1..Len(r) : r[i] \in ToSet(r)
  BY <1>1, ElementFacts
<1> HIDE DEF r
<1>3. /\ \A c \in ToSet(q) : node[c].data \in T
      /\ \A c \in ToSet(r) : new[c].data \in T
  BY <1>1
<1>4. /\ d \in Seq(T) /\ Len(d) = Len(q) /\ \A i \in 1..Len(q) : d[i] = node[q[i]].data
      /\ e \in Seq(T) /\ Len(e) = Len(r) /\ \A i \in 1..Len(r) : e[i] = new[r[i]].data
  <2> HIDE DEF T
  <2>1. r \in Seq(Blocks)
    BY <1>1
  <2>2. d \in Seq(T) /\ Len(d) = Len(q) /\ \A i \in 1..Len(q) : d[i] = node[q[i]].data
    BY <1>3, DataFacts
  <2>3. e \in Seq(T) /\ Len(e) = Len(r) /\ \A i \in 1..Len(r) : e[i] = new[r[i]].data
    BY <1>3, <2>1, DataFacts
  <2> QED BY <2>2, <2>3
<1>5. k \in 1..Len(d) /\ Len(q) \in Nat
  BY <1>4
<1> HIDE DEF T, d, e
<1>6. /\ RemoveAt(d, k) \in Seq(T) /\ Len(RemoveAt(d, k)) = Len(d) - 1
      /\ \A i \in 1..(Len(d) - 1) : RemoveAt(d, k)[i] = IF i < k THEN d[i] ELSE d[i + 1]
  BY <1>4, <1>5, RemoveAtFacts
<1>7. ASSUME NEW i \in 1..(Len(q) - 1) PROVE e[i] = RemoveAt(d, k)[i]
  <2>1. /\ i \in 1..Len(q) /\ i + 1 \in 1..Len(q) /\ i \in 1..Len(r)
        /\ r[i] \in ToSet(q) \ {q[k]}
    BY <1>1, <1>2a, <1>5
  <2>2. new[r[i]].data = node[r[i]].data
    BY <2>1
  <2> QED BY <1>1, <1>4, <1>6, <2>1, <2>2
<1>8. e = RemoveAt(d, k)
  <2>1. Len(e) = Len(q) - 1 /\ Len(e) = Len(RemoveAt(d, k))
    BY <1>1, <1>4, <1>6
  <2> QED BY <1>4, <1>6, <1>7, <2>1, SameSeq
<1> QED BY <1>8 DEF d, e, r

-----------------------------------------------------------------------------
(* hev-slist.c: the list and what an insertion makes of it.                    *)

(* The list of hev-slist.c whose nodes are q.                                  *)
SLinked(q, head, node) ==
  /\ IsChain(q, head, node, "next")
  /\ node \in [Blocks -> SNodes \cup {NoNode}]
  /\ ToSet(q) = {b \in Blocks : node[b] # NoNode}

(* The nodes of a list of hev-slist.c.                                         *)
LEMMA SNodeFacts ==
  ASSUME NEW q, NEW head, NEW node, SLinked(q, head, node)
  PROVE  /\ q \in Seq(Blocks) /\ IsInjective(q) /\ Len(q) \in Nat
         /\ \A c \in ToSet(q) : c \in Blocks /\ node[c] \in SNodes
         /\ \A i \in 1..Len(q) : q[i] \in ToSet(q) /\ At(q, i) = q[i] /\ q[i] # Null
         /\ \A c \in SNodes : c.data \in Data /\ c.next \in Blocks \cup {Null} /\ c # NoNode
<1>1. q \in Seq(Blocks) /\ IsInjective(q)
  BY DEF SLinked, IsChain
<1>2. \A c \in ToSet(q) : c \in Blocks /\ node[c] \in SNodes
  BY DEF SLinked
<1>3. \A i \in 1..Len(q) : q[i] \in ToSet(q) /\ At(q, i) = q[i] /\ q[i] # Null
  BY <1>1, AtFacts, ElementFacts, NullFacts
<1>4. \A c \in SNodes : c.data \in Data /\ c.next \in Blocks \cup {Null} /\ c # NoNode
  BY SListAssumption DEF SNodes
<1> QED BY <1>1, <1>2, <1>3, <1>4

SInserted(node, x, b, prev, next) ==
  [c \in Blocks |-> IF c = b THEN [data |-> x, next |-> next]
                    ELSE IF c = prev THEN [node[c] EXCEPT !.next = b] ELSE node[c]]

(* SInsert links the new node behind the m-th one.                             *)
LEMMA SInsertedFacts ==
  ASSUME NEW q, NEW head, NEW node, SLinked(q, head, node), NEW m \in 0..Len(q),
         NEW b \in Blocks, b \notin ToSet(q), NEW x,
         NEW new, new = SInserted(node, x, b, At(q, m), At(q, m + 1)),
         NEW top, top = IF At(q, m) = Null THEN b ELSE head,
         NEW r, r = InsertAt(q, m + 1, b)
  PROVE  /\ IsChain(r, top, new, "next")
         /\ x \in Data => SLinked(r, top, new)
         /\ DataOf(r, new) = InsertAt(DataOf(q, node), m + 1, x)
<1>1. /\ q \in Seq(Blocks) /\ IsInjective(q) /\ Len(q) \in Nat
      /\ \A c \in ToSet(q) : c \in Blocks /\ node[c] \in SNodes
      /\ \A i \in 1..Len(q) : q[i] \in ToSet(q) /\ At(q, i) = q[i] /\ q[i] # Null
      /\ \A c \in SNodes : c.data \in Data /\ c.next \in Blocks \cup {Null} /\ c # NoNode
  BY SNodeFacts
<1>2. /\ r \in Seq(Blocks) /\ IsInjective(r) /\ Len(r) = Len(q) + 1
      /\ ToSet(r) = ToSet(q) \cup {b}
      /\ \A i \in 1..(Len(q) + 1) :
           r[i] = IF i < m + 1 THEN q[i] ELSE IF i = m + 1 THEN b ELSE q[i - 1]
  BY <1>1, InsertedChain
<1>3. /\ At(q, m) = IF m = 0 THEN Null ELSE q[m]
      /\ \A i : i \notin 1..Len(q) => At(q, i) = Null
      /\ \A i \in 1..Len(r) : At(r, i) = r[i]
      /\ \A i : i \notin 1..Len(r) => At(r, i) = Null
  BY <1>1, <1>2, AtFacts
<1>4. /\ new[b] = [data |-> x, next |-> At(q, m + 1)]
      /\ m # 0 => new[q[m]].next = b /\ new[q[m]].data = node[q[m]].data
      /\ \A i \in 1..Len(q) : i # m => new[q[i]] = node[q[i]]
  <2>1. \A c \in Blocks : new[c] = IF c = b THEN [data |-> x, next |-> At(q, m + 1)]
                                   ELSE IF c = At(q, m) THEN [node[c] EXCEPT !.next = b] ELSE node[c]
    BY DEF SInserted
  <2>2. ASSUME m # 0 PROVE new[q[m]].next = b /\ new[q[m]].data = node[q[m]].data
    <3>1. m \in 1..Len(q) /\ q[m] \in ToSet(q) /\ q[m] \in Blocks /\ q[m] # b
          /\ node[q[m]] \in SNodes
      BY <1>1, <2>2
    <3>2. new[q[m]] = [node[q[m]] EXCEPT !.next = b]
      BY <1>3, <2>1, <2>2, <3>1
    <3> QED BY <3>1, <3>2 DEF SNodes
  <2>3. ASSUME NEW i \in 1..Len(q), i # m PROVE new[q[i]] = node[q[i]]
    <3>1. q[i] \in ToSet(q) /\ q[i] \in Blocks /\ q[i] # b /\ q[i] # At(q, m)
      BY <1>1, <1>3, <2>3, ElementFacts
    <3> QED BY <2>1, <3>1
  <2> QED BY <2>1, <2>2, <2>3
<1>5. \A c \in ToSet(q) : new[c].data = node[c].data
  <2>1. ASSUME NEW c \in ToSet(q) PROVE new[c].data = node[c].data
    <3>1. PICK i \in 1..Len(q) : c = q[i]
      BY <1>1, ElementFacts
    <3> QED BY <1>4, <3>1
  <2> QED BY <2>1
<1>6. ASSUME NEW i \in 1..Len(r) PROVE new[r[i]]["next"] = At(r, i + 1)
  <2> USE <1>1, <1>2
  <2>1. CASE i < m
    <3>1. i \in 1..Len(q) /\ i + 1 \in 1..Len(q) /\ i + 1 \in 1..Len(r) /\ i + 1 < m + 1
      BY <2>1
    <3>2. node[q[i]]["next"] = At(q, i + 1)
      BY <3>1 DEF SLinked, IsChain
    <3> QED BY <1>3, <1>4, <2>1, <3>1, <3>2
  <2>2. CASE i = m
    <3>1. m # 0 /\ m + 1 \in 1..Len(r) /\ m < m + 1 /\ m \in 1..Len(r)
      BY <2>2
    <3>2. r[m] = q[m]
      BY <3>1
    <3>3. r[m + 1] = b /\ At(r, m + 1) = r[m + 1]
      BY <1>3, <3>1
    <3> QED BY <1>4, <2>2, <3>1, <3>2, <3>3
  <2>3. CASE i = m + 1
    <3>1. new[r[i]].next = At(q, m + 1)
      BY <1>4, <2>3
    <3>2. At(r, i + 1) = At(q, m + 1)
      <4>1. CASE m = Len(q)
        <5>1. m + 1 \notin 1..Len(q) /\ i + 1 \notin 1..Len(r)
          BY <2>3, <4>1
        <5> QED BY <1>3, <5>1
      <4>2. CASE m # Len(q)
        <5>1. m + 1 \in 1..Len(q) /\ i + 1 \in 1..Len(r) /\ ~(i + 1 < m + 1) /\ i + 1 # m + 1
              /\ i + 1 - 1 = m + 1
          BY <2>3, <4>2
        <5> QED BY <1>3, <5>1
      <4> QED BY <4>1, <4>2
    <3> QED BY <3>1, <3>2
  <2>4. CASE i > m + 1
    <3>1. i - 1 \in 1..Len(q) /\ i - 1 # m /\ i - 1 + 1 = i /\ ~(i < m + 1) /\ i # m + 1
      BY <2>4
    <3>2. new[r[i]]["next"] = At(q, i)
      <4>1. node[q[i - 1]]["next"] = At(q, i - 1 + 1)
        BY <3>1 DEF SLinked, IsChain
      <4> QED BY <1>4, <3>1, <4>1
    <3>3. At(r, i + 1) = At(q, i)
      <4>1. CASE i = Len(q) + 1
        <5>1. i \notin 1..Len(q) /\ i + 1 \notin 1..Len(r)
          BY <4>1
        <5> QED BY <1>3, <5>1
      <4>2. CASE i # Len(q) + 1
        <5>1. i \in 1..Len(q) /\ i + 1 \in 1..Len(r) /\ ~(i + 1 < m + 1) /\ i + 1 # m + 1
              /\ i + 1 - 1 = i
          BY <3>1, <4>2
        <5>2. At(r, i + 1) = r[i + 1] /\ At(q, i) = q[i]
          BY <1>3, <5>1
        <5>3. r[i + 1] = q[i + 1 - 1]
          BY <5>1
        <5> QED BY <5>1, <5>2, <5>3
      <4> QED BY <4>1, <4>2
    <3> QED BY <3>2, <3>3
  <2> QED BY <2>1, <2>2, <2>3, <2>4
<1>7. top = At(r, 1)
  <2>1. CASE m = 0
    BY <1>1, <1>2, <1>3, <2>1
  <2>2. CASE m # 0
    <3>1. m \in 1..Len(q) /\ 1 \in 1..Len(q) /\ 1 \in 1..Len(r) /\ 1 < m + 1
      BY <1>1, <1>2, <2>2
    <3>2. head = At(q, 1)
      BY DEF SLinked, IsChain
    <3> QED BY <1>1, <1>2, <1>3, <3>1, <3>2
  <2> QED BY <2>1, <2>2
<1>8. IsChain(r, top, new, "next")
  BY <1>2, <1>6, <1>7 DEF IsChain
<1>9. ASSUME x \in Data PROVE SLinked(r, top, new)
  <2>1. At(q, m + 1) \in Blocks \cup {Null}
    BY <1>1, AtFacts
  <2>2. new[b] \in SNodes
    BY <1>4, <1>9, <2>1 DEF SNodes
  <2>3. ASSUME NEW c \in Blocks, c # b
        PROVE  new[c] \in SNodes \cup {NoNode} /\ (new[c] # NoNode <=> node[c] # NoNode)
    <3>1. new[c] = IF c = At(q, m) THEN [node[c] EXCEPT !.next = b] ELSE node[c]
      BY <2>3 DEF SInserted
    <3>2. node[c] \in SNodes \cup {NoNode}
      BY DEF SLinked
    <3>3. CASE c = At(q, m)
      <4>1. node[c] \in SNodes
        BY <1>1, <1>3, <3>3, NullFacts
      <4>2. [node[c] EXCEPT !.next = b] \in SNodes
        BY <4>1 DEF SNodes
      <4> QED BY <1>1, <3>1, <3>3, <4>1, <4>2
    <3>4. CASE c # At(q, m)
      BY <3>1, <3>2, <3>4
    <3> QED BY <3>3, <3>4
  <2>4. new = [c \in Blocks |-> new[c]]
    BY DEF SInserted
  <2>5. new \in [Blocks -> SNodes \cup {NoNode}]
    BY <2>2, <2>3, <2>4
  <2>6. ToSet(r) = {c \in Blocks : new[c] # NoNode}
    <3>1. ToSet(q) = {c \in Blocks : node[c] # NoNode}
      BY DEF SLinked
    <3> QED BY <1>1, <1>2, <2>2, <2>3, <3>1
  <2> QED BY <1>8, <2>5, <2>6 DEF SLinked
<1>10. new[b].data = x
  BY <1>4
<1>11. DataOf(r, new) = InsertAt(DataOf(q, node), m + 1, x)
  <2>1. q \in Seq(Blocks) /\ IsInjective(q)
    BY <1>1
  <2>2. DataOf(r, new) = InsertAt(DataOf(q, node), m + 1, new[b].data)
    BY <1>5, <2>1, InsertedData
  <2> QED BY <1>10, <2>2
<1> QED BY <1>8, <1>9, <1>11

-----------------------------------------------------------------------------
(* Removing while walking: what stays and what is gone.                        *)

(* The first of several.                                                       *)
LEMMA FirstRemoved ==
  ASSUME NEW s, NEW x, NEW j \in 1..Len(s), Len(s) \in Nat, s[j] = x,
         \A i \in 1..(j - 1) : s[i] # x
  PROVE  RemoveFirst(s, x) = RemoveAt(s, j)
<1> DEFINE I == {i \in 1..Len(s) : s[i] = x}
<1>1. j \in I /\ \A i \in I : j <= i
  OBVIOUS
<1>2. Min(I) = j
  <2>1. \A k \in I : (\A i \in I : k <= i) => k = j
    BY <1>1
  <2> HIDE DEF I
  <2> QED BY <1>1, <2>1 DEF Min
<1>3. SelectInSeq(s, LAMBDA v : v = x) = j
  BY <1>1, <1>2 DEF SelectInSeq
<1>4. \E i \in 1..Len(s) : s[i] = x
  OBVIOUS
<1> QED BY <1>3, <1>4 DEF RemoveFirst

(* What is not there is not removed.                                           *)
LEMMA NoneRemoved ==
  ASSUME NEW s, NEW x, \A i \in 1..Len(s) : s[i] # x
  PROVE  RemoveFirst(s, x) = s
BY DEF RemoveFirst

(* The function of which Without is the last value.                            *)
Sifts(f, s, x) ==
  f[0] = <<>> /\ \A m \in 1..Len(s) : f[m] = IF s[m] = x THEN f[m - 1] ELSE Append(f[m - 1], s[m])

(* The function in Without exists.                                             *)
LEMMA WithoutFacts ==
  ASSUME NEW T, NEW s \in Seq(T), NEW x
  PROVE  \E f \in [0..Len(s) -> Seq(T)] : Sifts(f, s, x) /\ Without(s, x) = f[Len(s)]
<1> DEFINE N == Len(s)
           to(f) == f = [m \in 0..N |-> IF m = 0 THEN <<>>
                                        ELSE IF s[m] = x THEN f[m - 1] ELSE Append(f[m - 1], s[m])]
           base == <<>>
           step == [p \in (1..N) \X Seq(T) |-> IF s[p[1]] = x THEN p[2] ELSE Append(p[2], s[p[1]])]
           X == Seq(T)
           w == CHOOSE f : to(f)
<1>1. N \in Nat /\ \A m \in 1..N : s[m] \in T
  OBVIOUS
<1>2. base \in X /\ step \in [(1..N) \X X -> X]
  BY <1>1
<1>3. \A m \in 1..N, e \in X : step[<<m, e>>] = IF s[m] = x THEN e ELSE Append(e, s[m])
  OBVIOUS
<1> HIDE DEF X, step, base
<1>4. PICK f \in [0..N -> X] : Unfolds(f, base, step, N)
  BY <1>1, <1>2, Recursion
<1>5. \A m \in 0..N : f[m] = IF m = 0 THEN base
                             ELSE IF s[m] = x THEN f[m - 1] ELSE Append(f[m - 1], s[m])
  <2> TAKE m \in 0..N
  <2>1. CASE m = 0
    BY <1>4, <2>1 DEF Unfolds
  <2>2. CASE m # 0
    <3>1. m \in 1..N /\ f[m - 1] \in X
      BY <1>1, <1>4, <2>2
    <3> QED BY <1>3, <1>4, <2>2, <3>1 DEF Unfolds
  <2> QED BY <2>1, <2>2
<1>6. f = [m \in 0..N |-> f[m]]
  <2>1. f \in [0..N -> X]
    BY <1>4
  <2> QED BY ONLY <2>1
<1>7. to(f)
  BY <1>5, <1>6, Zenon DEF base
<1>8. to(w)
  BY <1>7
<1>9. Without(s, x) = w[N]
  BY DEF Without
<1> HIDE DEF w
<1>10. \A m \in 0..N : w[m] = IF m = 0 THEN <<>>
                              ELSE IF s[m] = x THEN w[m - 1] ELSE Append(w[m - 1], s[m])
  <2> TAKE m \in 0..N
  <2> QED BY <1>8
<1>10a. \A m \in 1..N : m \in 0..N /\ m # 0
  BY <1>1
<1>11. Sifts(w, s, x)
  <2>1. w[0] = <<>>
    BY <1>1, <1>10
  <2>2. \A m \in 1..N : w[m] = IF s[m] = x THEN w[m - 1] ELSE Append(w[m - 1], s[m])
    BY <1>10, <1>10a
  <2> QED BY <2>1, <2>2 DEF Sifts
<1>12. w \in [0..N -> X]
  <2> DEFINE Good == {m \in 0..N : w[m] \in X}
  <2>1. 0 \in Good
    <3>1. w[0] = <<>> /\ 0 \in 0..N
      BY <1>1, <1>10
    <3>2. <<>> \in X
      BY DEF X
    <3> QED BY <3>1, <3>2
  <2>2. ASSUME NEW n \in 0..(N - 1), n \in Good PROVE n + 1 \in Good
    <3>1. n + 1 \in 0..N /\ n + 1 # 0 /\ n + 1 - 1 = n /\ s[n + 1] \in T
      BY <1>1
    <3>2. w[n + 1] = IF s[n + 1] = x THEN w[n] ELSE Append(w[n], s[n + 1])
      BY <1>10, <3>1
    <3>3. \A e \in X : Append(e, s[n + 1]) \in X
      BY <3>1 DEF X
    <3> QED BY <2>2, <3>1, <3>2, <3>3
  <2> HIDE DEF Good
  <2>3. \A m \in 0..N : m \in Good
    BY <1>1, <2>1, <2>2, Upwards
  <2> USE DEF Good
  <2>4. w = [m \in 0..N |-> w[m]]
    BY <1>8
  <2> QED BY <2>3, <2>4
<1> QED BY <1>9, <1>11, <1>12 DEF X

-----------------------------------------------------------------------------
(* A walk along q that has seen its first n nodes: r are the nodes that are    *)
(* still linked, and gone those that are not.                                  *)
Scanned(q, n, r, gone) ==
  /\ r \in Seq(Blocks) /\ IsInjective(r) /\ gone \in Seq(Blocks) /\ IsInjective(gone)
  /\ n \in 0..Len(q) /\ Len(gone) \in 0..n /\ Len(r) = Len(q) - Len(gone)
  /\ ToSet(r) \cap ToSet(gone) = {} /\ ToSet(r) \cup ToSet(gone) = ToSet(q)
  /\ \A i \in (n + 1)..Len(q) : r[i - Len(gone)] = q[i]

(* Before the walk nothing is gone.                                            *)
LEMMA ScanStart ==
  ASSUME NEW q \in Seq(Blocks), IsInjective(q)
  PROVE  Scanned(q, 0, q, <<>>)
<1>1. <<>> \in Seq(Blocks) /\ IsInjective(<<>>) /\ ToSet(<<>>) = {} /\ Len(<<>>) = 0 /\ Len(q) \in Nat
  BY DEF ToSet, IsInjective
<1> QED BY <1>1 DEF Scanned

(* The walk passes a node.                                                     *)
LEMMA ScanPass ==
  ASSUME NEW q \in Seq(Blocks), NEW n \in 0..(Len(q) - 1), NEW r, NEW gone, Scanned(q, n, r, gone)
  PROVE  Scanned(q, n + 1, r, gone)
<1>1. Len(q) \in Nat /\ Len(gone) \in 0..n /\ n + 1 \in 0..Len(q) /\ Len(gone) \in 0..(n + 1)
  BY DEF Scanned
<1>2. \A i \in (n + 1 + 1)..Len(q) : i \in (n + 1)..Len(q)
  BY <1>1
<1> QED BY <1>1, <1>2 DEF Scanned

NextAt(q, n, r, k) ==
  /\ k \in 1..Len(r) /\ r[k] = q[n + 1]
  /\ n + 1 \in 1..Len(q) /\ q[n + 1] \in ToSet(q) /\ q[n + 1] \in Blocks

(* The place, in what is left, of the node the walk visits next.               *)
LEMMA ScanNext ==
  ASSUME NEW q \in Seq(Blocks), NEW n \in 0..(Len(q) - 1), NEW r, NEW gone, Scanned(q, n, r, gone)
  PROVE  NextAt(q, n, r, n + 1 - Len(gone))
<1>1. Len(q) \in Nat /\ Len(gone) \in 0..n /\ n + 1 \in (n + 1)..Len(q) /\ n + 1 \in 1..Len(q)
      /\ Len(r) = Len(q) - Len(gone)
  BY DEF Scanned
<1>2. r[n + 1 - Len(gone)] = q[n + 1]
  BY <1>1 DEF Scanned
<1> QED BY <1>1, <1>2, ElementFacts DEF NextAt

(* A sequence of blocks with one more.                                         *)
LEMMA AppendFacts ==
  ASSUME NEW g \in Seq(Blocks), NEW b \in Blocks
  PROVE  /\ Append(g, b) \in Seq(Blocks) /\ Len(Append(g, b)) = Len(g) + 1
         /\ \A i \in 1..(Len(g) + 1) : Append(g, b)[i] = IF i <= Len(g) THEN g[i] ELSE b
         /\ ToSet(Append(g, b)) = ToSet(g) \cup {b}
         /\ IsInjective(g) /\ b \notin ToSet(g) => IsInjective(Append(g, b))
<1> DEFINE h == Append(g, b)
<1>1. /\ h \in Seq(Blocks) /\ Len(h) = Len(g) + 1 /\ Len(g) \in Nat
      /\ \A i \in 1..(Len(g) + 1) : h[i] = IF i <= Len(g) THEN g[i] ELSE b
  OBVIOUS
<1> HIDE DEF h
<1>2. ToSet(h) = ToSet(g) \cup {b}
  <2>1. ASSUME NEW x \in ToSet(h) PROVE x \in ToSet(g) \cup {b}
    <3>1. PICK i \in 1..(Len(g) + 1) : x = h[i]
      BY <1>1, ElementFacts
    <3>2. CASE i <= Len(g)
      <4>1. i \in 1..Len(g) /\ x = g[i]
        BY <1>1, <3>1, <3>2
      <4> QED BY <4>1, ElementFacts
    <3>3. CASE ~(i <= Len(g))
      BY <1>1, <3>1, <3>3
    <3> QED BY <3>2, <3>3
  <2>2. ASSUME NEW x \in ToSet(g) PROVE x \in ToSet(h)
    <3>1. PICK i \in 1..Len(g) : x = g[i]
      BY ElementFacts
    <3>2. i \in 1..Len(h) /\ x = h[i]
      BY <1>1, <3>1
    <3> QED BY <1>1, <3>2, ElementFacts
  <2>3. b \in ToSet(h)
    <3>1. Len(g) + 1 \in 1..Len(h) /\ h[Len(g) + 1] = b
      BY <1>1
    <3> QED BY <1>1, <3>1, ElementFacts
  <2> QED BY <2>1, <2>2, <2>3
<1>3. ASSUME IsInjective(g), b \notin ToSet(g) PROVE IsInjective(h)
  <2>1. /\ \A i, j \in 1..Len(g) : g[i] = g[j] => i = j
        /\ \A i \in 1..Len(g) : g[i] # b
    BY <1>3, ElementFacts
  <2>2. \A i, j \in 1..Len(h) : h[i] = h[j] => i = j
    BY <1>1, <2>1
  <2> QED BY <1>1, <2>2, ElementFacts
<1> QED BY <1>1, <1>2, <1>3 DEF h

(* The walk unlinks a node.                                                    *)
LEMMA ScanUnlink ==
  ASSUME NEW q \in Seq(Blocks), NEW n \in 0..(Len(q) - 1), NEW r, NEW gone, Scanned(q, n, r, gone),
         NEW t, t = RemoveAt(r, n + 1 - Len(gone))
  PROVE  /\ Scanned(q, n + 1, t, Append(gone, q[n + 1]))
         /\ \A i \in 1..(n - Len(gone)) : t[i] = r[i]
<1> DEFINE g == Len(gone)
           k == n + 1 - g
           b == q[n + 1]
           h == Append(gone, b)
<1>1. /\ r \in Seq(Blocks) /\ IsInjective(r) /\ gone \in Seq(Blocks) /\ IsInjective(gone)
      /\ Len(q) \in Nat /\ g \in 0..n /\ Len(r) = Len(q) - g
      /\ ToSet(r) \cap ToSet(gone) = {} /\ ToSet(r) \cup ToSet(gone) = ToSet(q)
      /\ \A i \in (n + 1)..Len(q) : r[i - g] = q[i]
  BY DEF Scanned
<1>2. k \in 1..Len(r) /\ r[k] = b /\ b \in Blocks /\ n + 1 \in 1..Len(q)
  <2>1. NextAt(q, n, r, n + 1 - Len(gone))
    BY ScanNext
  <2> QED BY <2>1 DEF NextAt
<1>3. b \in ToSet(r) /\ b \notin ToSet(gone)
  BY <1>1, <1>2, ElementFacts
<1> HIDE DEF b, h
<1>4. /\ h \in Seq(Blocks) /\ Len(h) = g + 1 /\ ToSet(h) = ToSet(gone) \cup {b} /\ IsInjective(h)
  BY <1>1, <1>2, <1>3, AppendFacts DEF h
<1>5. t = RemoveAt(r, k)
  OBVIOUS
<1> HIDE DEF k, g
<1>6. /\ t \in Seq(Blocks) /\ IsInjective(t) /\ Len(t) = Len(r) - 1 /\ ToSet(t) = ToSet(r) \ {b}
      /\ \A i \in 1..(Len(r) - 1) : t[i] = IF i < k THEN r[i] ELSE r[i + 1]
  <2>1. r \in Seq(Blocks) /\ IsInjective(r) /\ k \in 1..Len(r) /\ t = RemoveAt(r, k)
    BY <1>1, <1>2, <1>5
  <2>2. Dropped(r, k, t)
    BY ONLY <2>1, RemovedChain
  <2> QED BY <1>2, <2>2 DEF Dropped
<1>7. \A i \in (n + 1 + 1)..Len(q) : t[i - Len(h)] = q[i]
  <2> TAKE i \in (n + 1 + 1)..Len(q)
  <2>1. /\ i - (g + 1) \in 1..(Len(r) - 1) /\ ~(i - (g + 1) < k) /\ i - (g + 1) + 1 = i - g
        /\ i \in (n + 1)..Len(q)
    BY <1>1 DEF k
  <2> QED BY <1>1, <1>4, <1>6, <2>1
<1>8. \A i \in 1..(n - g) : t[i] = r[i]
  <2> TAKE i \in 1..(n - g)
  <2>1. i \in 1..(Len(r) - 1) /\ i < k
    BY <1>1 DEF k
  <2> QED BY <1>6, <2>1
<1>9. Scanned(q, n + 1, t, h)
  <2>1. n + 1 \in 0..Len(q) /\ Len(h) \in 0..(n + 1) /\ Len(t) = Len(q) - Len(h)
    <3>1. Len(h) = g + 1 /\ Len(t) = Len(r) - 1 /\ Len(r) = Len(q) - g
      BY <1>1, <1>4, <1>6
    <3>2. n + 1 \in 0..Len(q) /\ g + 1 \in 0..(n + 1) /\ g \in Int /\ Len(q) \in Int
      BY <1>1, <1>2
    <3> QED BY <3>1, <3>2
  <2>2. ToSet(t) \cap ToSet(h) = {} /\ ToSet(t) \cup ToSet(h) = ToSet(q)
    BY <1>1, <1>3, <1>4, <1>6
  <2> QED BY <1>4, <1>6, <1>7, <2>1, <2>2 DEF Scanned
<1> QED BY <1>8, <1>9 DEF h, b, g

(* The walk removes x everywhere: what is left so far is what Without leaves.  *)
Sifted(f, node, n, r, gone) ==
  /\ Len(f[n]) = n - Len(gone)
  /\ \A i \in 1..(n - Len(gone)) : f[n][i] = node[r[i]].data

(* The walk removes x once.                                                    *)
Holds(q, node, x, i) == node[q[i]].data = x

Once(q, node, x, n, r, gone) ==
  \/ gone = <<>> /\ r = q /\ \A i \in 1..n : ~Holds(q, node, x, i)
  \/ \E j \in 1..n : /\ Holds(q, node, x, j) /\ \A i \in 1..(j - 1) : ~Holds(q, node, x, i)
                     /\ r = RemoveAt(q, j) /\ gone = <<q[j]>>

Progress(q, node, x, everywhere, n, r, gone) ==
  /\ Scanned(q, n, r, gone)
  /\ everywhere => \E f \in [0..Len(q) -> Seq(Data)] :
                     /\ Sifts(f, DataOf(q, node), x) /\ Without(DataOf(q, node), x) = f[Len(q)]
                     /\ Sifted(f, node, n, r, gone)
  /\ ~everywhere => Once(q, node, x, n, r, gone)

(* What the lemmas assume of the list q.                                       *)
Listed(q, node) ==
  q \in Seq(Blocks) /\ IsInjective(q) /\ \A c \in ToSet(q) : node[c].data \in Data

(* The data of such a list.                                                    *)
LEMMA ListedFacts ==
  ASSUME NEW q, NEW node, Listed(q, node)
  PROVE  /\ q \in Seq(Blocks) /\ IsInjective(q) /\ Len(q) \in Nat
         /\ DataOf(q, node) \in Seq(Data) /\ Len(DataOf(q, node)) = Len(q)
         /\ \A i \in 1..Len(q) : DataOf(q, node)[i] = node[q[i]].data /\ node[q[i]].data \in Data
<1>1. q \in Seq(Blocks) /\ IsInjective(q) /\ \A c \in ToSet(q) : node[c].data \in Data
  BY DEF Listed
<1>2. /\ DataOf(q, node) \in Seq(Data) /\ Len(DataOf(q, node)) = Len(q)
      /\ \A i \in 1..Len(q) : DataOf(q, node)[i] = node[q[i]].data
  BY <1>1, DataFacts
<1>3. \A i \in 1..Len(q) : q[i] \in ToSet(q)
  BY <1>1, ElementFacts
<1> QED BY <1>1, <1>2, <1>3

(* The data at the start of the walk,                                          *)
LEMMA VisitStart ==
  ASSUME NEW q, NEW node, Listed(q, node), NEW x, NEW everywhere \in BOOLEAN
  PROVE  Progress(q, node, x, everywhere, 0, q, <<>>)
<1> DEFINE d == DataOf(q, node)
<1>1. q \in Seq(Blocks) /\ IsInjective(q) /\ d \in Seq(Data) /\ Len(d) = Len(q)
  BY ListedFacts
<1>2. Scanned(q, 0, q, <<>>)
  BY <1>1, ScanStart
<1> HIDE DEF d
<1>3. PICK f \in [0..Len(d) -> Seq(Data)] : Sifts(f, d, x) /\ Without(d, x) = f[Len(d)]
  BY <1>1, WithoutFacts
<1>4. Sifted(f, node, 0, q, <<>>)
  <2>1. f[0] = <<>> /\ Len(<<>>) = 0 /\ 0 - 0 = 0 /\ 1..0 = {}
    BY <1>3 DEF Sifts
  <2> QED BY <2>1 DEF Sifted
<1>5. Once(q, node, x, 0, q, <<>>)
  BY DEF Once
<1> QED BY <1>1, <1>2, <1>3, <1>4, <1>5 DEF Progress, d

(* when it passes a node,                                                      *)
LEMMA VisitPass ==
  ASSUME NEW q, NEW node, Listed(q, node), NEW x, NEW everywhere \in BOOLEAN,
         NEW n \in 0..(Len(q) - 1), NEW r, NEW gone, Progress(q, node, x, everywhere, n, r, gone),
         ~(node[q[n + 1]].data = x /\ (everywhere \/ gone = <<>>))
  PROVE  Progress(q, node, x, everywhere, n + 1, r, gone)
<1> DEFINE d == DataOf(q, node)
<1>1. /\ q \in Seq(Blocks) /\ d \in Seq(Data) /\ Len(d) = Len(q) /\ Len(q) \in Nat
      /\ \A i \in 1..Len(q) : d[i] = node[q[i]].data
  BY ListedFacts
<1>2. Scanned(q, n, r, gone)
  BY DEF Progress
<1>3. Scanned(q, n + 1, r, gone)
  BY <1>1, <1>2, ScanPass
<1>4. /\ n + 1 - Len(gone) \in 1..Len(r) /\ r[n + 1 - Len(gone)] = q[n + 1] /\ n + 1 \in 1..Len(q)
      /\ Len(gone) \in 0..n
  BY <1>1, <1>2, ScanNext DEF Scanned, NextAt
<1> HIDE DEF d
<1>5. ASSUME everywhere,
             NEW f \in [0..Len(q) -> Seq(Data)], Sifts(f, d, x), Sifted(f, node, n, r, gone)
      PROVE  Sifted(f, node, n + 1, r, gone)
  <2> DEFINE s == f[n]
             a == node[q[n + 1]].data
  <2>1. f[n + 1] = Append(s, a)
    <3>1. d[n + 1] = a /\ a # x /\ n + 1 - 1 = n
      BY <1>1, <1>4, <1>5
    <3>2. f[n + 1] = IF d[n + 1] = x THEN f[n + 1 - 1] ELSE Append(f[n + 1 - 1], d[n + 1])
      BY <1>1, <1>4, <1>5 DEF Sifts
    <3> QED BY <3>1, <3>2
  <2>2. s \in Seq(Data) /\ a \in Data
    BY <1>1, <1>4, <1>5, ListedFacts
  <2>3. Len(s) = n - Len(gone) /\ \A i \in 1..(n - Len(gone)) : s[i] = node[r[i]].data
    BY <1>5 DEF Sifted
  <2>4. r[n + 1 - Len(gone)] = q[n + 1]
    BY <1>4
  <2>5. node[r[n + 1 - Len(gone)]].data = a
    BY <2>4
  <2> HIDE DEF s, a
  <2>6. /\ Len(Append(s, a)) = Len(s) + 1
        /\ \A i \in 1..(Len(s) + 1) : Append(s, a)[i] = IF i = Len(s) + 1 THEN a ELSE s[i]
    BY <2>2
  <2>7. n - Len(gone) + 1 = n + 1 - Len(gone) /\ Len(s) \in Nat
    BY <1>4, <2>2
  <2>8. Len(f[n + 1]) = n + 1 - Len(gone)
    BY <2>1, <2>3, <2>6, <2>7
  <2>9. \A i \in 1..(n + 1 - Len(gone)) : f[n + 1][i] = node[r[i]].data
    <3> TAKE i \in 1..(n + 1 - Len(gone))
    <3>1. i = Len(s) + 1 \/ i \in 1..Len(s)
      <4>1. i \in 1..(Len(s) + 1)
        BY <2>3, <2>7
      <4> QED BY <2>7, <4>1
    <3>2. i \in 1..(Len(s) + 1)
      BY <2>3, <2>7
    <3>3. CASE i = Len(s) + 1
      BY <2>1, <2>3, <2>5, <2>6, <2>7, <3>2, <3>3
    <3>4. CASE i # Len(s) + 1
      BY <2>1, <2>3, <2>6, <3>1, <3>2, <3>4
    <3> QED BY <3>3, <3>4
  <2> QED BY <2>8, <2>9 DEF Sifted
<1>6. ASSUME ~everywhere PROVE Once(q, node, x, n + 1, r, gone)
  <2>1. Once(q, node, x, n, r, gone)
    BY <1>6 DEF Progress
  <2>2. CASE gone = <<>> /\ r = q /\ \A i \in 1..n : ~Holds(q, node, x, i)
    <3>1. ~Holds(q, node, x, n + 1)
      BY <2>2 DEF Holds
    <3>2. \A i \in 1..(n + 1) : i \in 1..n \/ i = n + 1
      BY <1>4
    <3>3. \A i \in 1..(n + 1) : ~Holds(q, node, x, i)
      BY <2>2, <3>1, <3>2
    <3> QED BY <2>2, <3>3 DEF Once
  <2>3. CASE \E j \in 1..n : /\ Holds(q, node, x, j) /\ \A i \in 1..(j - 1) : ~Holds(q, node, x, i)
                             /\ r = RemoveAt(q, j) /\ gone = <<q[j]>>
    <3>1. 1..n \subseteq 1..(n + 1)
      BY <1>4
    <3> QED BY <2>3, <3>1 DEF Once
  <2> QED BY <2>1, <2>2, <2>3 DEF Once
<1>7. everywhere => \E f \in [0..Len(q) -> Seq(Data)] :
                      /\ Sifts(f, d, x) /\ Without(d, x) = f[Len(q)]
                      /\ Sifted(f, node, n + 1, r, gone)
  BY <1>5 DEF Progress, d
<1> QED BY <1>3, <1>6, <1>7 DEF Progress, d

(* when it unlinks one,                                                        *)
LEMMA VisitUnlink ==
  ASSUME NEW q, NEW node, Listed(q, node), NEW x, NEW everywhere \in BOOLEAN,
         NEW n \in 0..(Len(q) - 1), NEW r, NEW gone, Progress(q, node, x, everywhere, n, r, gone),
         node[q[n + 1]].data = x /\ (everywhere \/ gone = <<>>),
         NEW t, t = RemoveAt(r, n + 1 - Len(gone))
  PROVE  Progress(q, node, x, everywhere, n + 1, t, Append(gone, q[n + 1]))
<1> DEFINE d == DataOf(q, node)
           h == Append(gone, q[n + 1])
<1>1. /\ q \in Seq(Blocks) /\ d \in Seq(Data) /\ Len(d) = Len(q) /\ Len(q) \in Nat
      /\ \A i \in 1..Len(q) : d[i] = node[q[i]].data
  BY ListedFacts
<1>2. Scanned(q, n, r, gone)
  BY DEF Progress
<1>3. Scanned(q, n + 1, t, h) /\ \A i \in 1..(n - Len(gone)) : t[i] = r[i]
  BY <1>1, <1>2, ScanUnlink
<1>4. /\ n + 1 \in 1..Len(q) /\ q[n + 1] \in Blocks /\ Len(gone) \in 0..n /\ gone \in Seq(Blocks)
  BY <1>1, <1>2, ScanNext DEF Scanned, NextAt
<1>5. Len(h) = Len(gone) + 1 /\ n + 1 - Len(h) = n - Len(gone)
  <2>1. Len(h) = Len(gone) + 1
    BY <1>4, AppendFacts
  <2> QED BY <1>4, <2>1
<1> HIDE DEF d, h
<1>6. ASSUME everywhere,
             NEW f \in [0..Len(q) -> Seq(Data)], Sifts(f, d, x), Sifted(f, node, n, r, gone)
      PROVE  Sifted(f, node, n + 1, t, h)
  <2>1. f[n + 1] = f[n]
    <3>1. d[n + 1] = x /\ n + 1 - 1 = n
      BY <1>1, <1>4
    <3>2. f[n + 1] = IF d[n + 1] = x THEN f[n + 1 - 1] ELSE Append(f[n + 1 - 1], d[n + 1])
      BY <1>1, <1>4, <1>6 DEF Sifts
    <3> QED BY <3>1, <3>2
  <2>2. Len(f[n]) = n - Len(gone) /\ \A i \in 1..(n - Len(gone)) : f[n][i] = node[r[i]].data
    BY <1>6 DEF Sifted
  <2>3. \A i \in 1..(n - Len(gone)) : f[n][i] = node[t[i]].data
    BY <1>3, <2>2
  <2>4. Len(f[n + 1]) = n + 1 - Len(h)
        /\ \A i \in 1..(n + 1 - Len(h)) : f[n + 1][i] = node[t[i]].data
    BY <1>5, <2>1, <2>2, <2>3
  <2> QED BY <2>4 DEF Sifted
<1>7. ASSUME ~everywhere PROVE Once(q, node, x, n + 1, t, h)
  <2>1. gone = <<>> /\ Len(gone) = 0 /\ Once(q, node, x, n, r, gone)
    BY <1>7 DEF Progress
  <2>2. r = q /\ \A i \in 1..n : ~Holds(q, node, x, i)
    BY <2>1 DEF Once
  <2>3. n + 1 \in 1..(n + 1) /\ n + 1 - 1 = n /\ n + 1 - Len(gone) = n + 1
    BY <1>4, <2>1
  <2>4. t = RemoveAt(q, n + 1) /\ h = <<q[n + 1]>>
    BY <2>1, <2>2, <2>3 DEF h
  <2>5. Holds(q, node, x, n + 1)
    BY DEF Holds
  <2> QED BY <2>2, <2>3, <2>4, <2>5 DEF Once
<1>8. everywhere => \E f \in [0..Len(q) -> Seq(Data)] :
                      /\ Sifts(f, d, x) /\ Without(d, x) = f[Len(q)]
                      /\ Sifted(f, node, n + 1, t, h)
  BY <1>6 DEF Progress, d
<1> QED BY <1>3, <1>7, <1>8 DEF Progress, d, h

(* The walk has come to the end.                                               *)
(* What is left of the data once x is gone, the first or every one.            *)
Rid(d, x, everywhere) == IF everywhere THEN Without(d, x) ELSE RemoveFirst(d, x)

(* and at its end: x is gone, once or everywhere.                              *)
LEMMA VisitEnd ==
  ASSUME NEW q, NEW node, Listed(q, node), NEW x, NEW everywhere \in BOOLEAN, NEW r, NEW gone,
         Progress(q, node, x, everywhere, Len(q), r, gone)
  PROVE  DataOf(r, node) = Rid(DataOf(q, node), x, everywhere)
<1> DEFINE d == DataOf(q, node)
           e == DataOf(r, node)
<1>1. /\ q \in Seq(Blocks) /\ IsInjective(q) /\ d \in Seq(Data) /\ Len(d) = Len(q) /\ Len(q) \in Nat
      /\ \A i \in 1..Len(q) : d[i] = node[q[i]].data
  BY ListedFacts
<1>2. /\ r \in Seq(Blocks) /\ ToSet(r) \subseteq ToSet(q) /\ Len(r) = Len(q) - Len(gone)
  BY DEF Progress, Scanned
<1>3. \A c \in ToSet(r) : node[c].data \in Data
  BY <1>2 DEF Listed
<1>4. e \in Seq(Data) /\ Len(e) = Len(r) /\ \A i \in 1..Len(r) : e[i] = node[r[i]].data
  BY <1>2, <1>3, DataFacts
<1> HIDE DEF d, e
<1>5. ASSUME everywhere PROVE e = Without(d, x)
  <2>1. PICK f \in [0..Len(q) -> Seq(Data)] :
          /\ Sifts(f, d, x) /\ Without(d, x) = f[Len(q)] /\ Sifted(f, node, Len(q), r, gone)
    BY <1>5 DEF Progress, d
  <2> DEFINE s == f[Len(q)]
  <2>2. s \in Seq(Data)
    BY <1>1
  <2>3. Len(s) = Len(r) /\ \A i \in 1..Len(r) : s[i] = node[r[i]].data
    BY <1>2, <2>1 DEF Sifted
  <2> HIDE DEF s
  <2>4. Len(e) = Len(s) /\ \A i \in 1..Len(e) : e[i] = s[i]
    BY <1>4, <2>3
  <2>5. e = s
    BY <1>4, <2>2, <2>4, SameSeq
  <2> QED BY <2>1, <2>5 DEF s
<1>6. ASSUME ~everywhere PROVE e = RemoveFirst(d, x)
  <2>1. Once(q, node, x, Len(q), r, gone)
    BY <1>6 DEF Progress
  <2>2. CASE r = q /\ \A i \in 1..Len(q) : ~Holds(q, node, x, i)
    <3>1. \A i \in 1..Len(d) : d[i] # x
      BY <1>1, <2>2 DEF Holds
    <3> QED BY <2>2, <3>1, NoneRemoved DEF d, e
  <2>3. ASSUME NEW j \in 1..Len(q), Holds(q, node, x, j), \A i \in 1..(j - 1) : ~Holds(q, node, x, i),
               r = RemoveAt(q, j)
        PROVE  e = RemoveFirst(d, x)
    <3>1. DataOf(RemoveAt(q, j), node) = RemoveAt(DataOf(q, node), j)
      BY <1>1, RemovedData
    <3>2. e = RemoveAt(d, j)
      BY <2>3, <3>1 DEF d, e
    <3>3. \A i \in 1..(j - 1) : i \in 1..Len(q)
      BY <1>1
    <3>4. j \in 1..Len(d) /\ Len(d) \in Nat /\ d[j] = x /\ \A i \in 1..(j - 1) : d[i] # x
      BY <1>1, <2>3, <3>3 DEF Holds
    <3> QED BY <3>2, <3>4, FirstRemoved
  <2> QED BY <2>1, <2>2, <2>3 DEF Once
<1> QED BY <1>5, <1>6 DEF Rid, d, e

-----------------------------------------------------------------------------
(* The walks of hev-slist.c.                                                   *)

(* What a walk through the list q of hev-slist.c may be: its nodes keep their  *)
(* data and point at nodes of q.                                               *)
SWalks(q) ==
  {w \in [node : [Blocks -> SNodes \cup {NoNode}], head : ToSet(q) \cup {Null},
          prev : ToSet(q) \cup {Null}, gone : Seq(Blocks)] :
     /\ \A c \in ToSet(q) : /\ w.node[c] \in SNodes /\ w.node[c].next \in ToSet(q) \cup {Null}
                            /\ w.node[c].data = snode[c].data
     /\ \A c \in Blocks \ ToSet(q) : w.node[c] = NoNode}

(* The parts of a walk.                                                        *)
LEMMA SWalkParts ==
  ASSUME NEW q, NEW w \in SWalks(q)
  PROVE  /\ w.node \in [Blocks -> SNodes \cup {NoNode}] /\ w.head \in ToSet(q) \cup {Null}
         /\ w.prev \in ToSet(q) \cup {Null} /\ w.gone \in Seq(Blocks)
         /\ \A c \in ToSet(q) : /\ w.node[c] \in SNodes /\ w.node[c].next \in ToSet(q) \cup {Null}
                                /\ w.node[c].data = snode[c].data
         /\ \A c \in Blocks \ ToSet(q) : w.node[c] = NoNode
BY DEF SWalks

(* What SUnlink does to them.                                                  *)
LEMMA SUnlinkParts ==
  ASSUME NEW q \in Seq(Blocks), NEW w \in SWalks(q), NEW b \in ToSet(q), NEW v, v = SUnlink(w, b)
  PROVE  /\ v \in SWalks(q) /\ v.gone = Append(w.gone, b) /\ v.prev = w.prev
         /\ w.prev = Null => v.head = w.node[b].next /\ v.node = w.node
         /\ w.prev # Null => /\ v.head = w.head /\ v.node[w.prev].next = w.node[b].next
                             /\ \A c \in Blocks \ {w.prev} : v.node[c] = w.node[c]
<1>1. ToSet(q) \subseteq Blocks /\ b \in Blocks /\ Null \notin Blocks
  BY AtFacts, NullFacts
<1> DEFINE g == Append(w.gone, b)
           to == w.node[b].next
<1>2. /\ w.node \in [Blocks -> SNodes \cup {NoNode}] /\ w.head \in ToSet(q) \cup {Null}
      /\ w.prev \in ToSet(q) \cup {Null} /\ w.gone \in Seq(Blocks)
      /\ \A c \in ToSet(q) : /\ w.node[c] \in SNodes /\ w.node[c].next \in ToSet(q) \cup {Null}
                             /\ w.node[c].data = snode[c].data
      /\ \A c \in Blocks \ ToSet(q) : w.node[c] = NoNode
  BY SWalkParts
<1>3. w = [node |-> w.node, head |-> w.head, prev |-> w.prev, gone |-> w.gone]
  BY DEF SWalks
<1>4. g \in Seq(Blocks) /\ to \in ToSet(q) \cup {Null}
  BY <1>1, <1>2
<1>5. CASE w.prev = Null
  <2>1. v = [node |-> w.node, head |-> to, prev |-> w.prev, gone |-> g]
    <3>1. v = [[w EXCEPT !.gone = g] EXCEPT !.head = to]
      BY <1>5 DEF SUnlink
    <3> HIDE DEF g, to
    <3> QED BY <1>3, <3>1
  <2>2. v.node = w.node /\ v.head = to /\ v.prev = w.prev /\ v.gone = g
    BY <2>1
  <2> HIDE DEF g, to
  <2>3. v \in SWalks(q)
    BY <1>2, <1>4, <2>1, <2>2 DEF SWalks
  <2> QED BY <1>5, <2>2, <2>3 DEF g, to
<1>6. CASE w.prev # Null
  <2> DEFINE p == w.prev
             new == [w.node EXCEPT ![p] = [w.node[p] EXCEPT !.next = to]]
  <2>1. v = [node |-> new, head |-> w.head, prev |-> w.prev, gone |-> g]
    <3>1. v = [[w EXCEPT !.gone = g] EXCEPT !.node[p].next = to]
      BY <1>6 DEF SUnlink
    <3>2. [[w EXCEPT !.gone = g] EXCEPT !.node[p].next = to] = [[w EXCEPT !.gone = g] EXCEPT !.node = new]
      <4> HIDE DEF g, to
      <4> QED BY <1>3
    <3> HIDE DEF g, to, new
    <3> QED BY <1>3, <3>1, <3>2
  <2>2. p \in ToSet(q) /\ p \in Blocks /\ w.node[p] \in SNodes
    BY <1>1, <1>2, <1>6
  <2>3. /\ [w.node[p] EXCEPT !.next = to] \in SNodes
        /\ [w.node[p] EXCEPT !.next = to].next = to
        /\ [w.node[p] EXCEPT !.next = to].data = w.node[p].data
    <3>1. to \in Blocks \cup {Null}
      BY <1>1, <1>4
    <3> HIDE DEF to, p
    <3> QED BY <2>2, <3>1 DEF SNodes
  <2>4. /\ new[p] = [w.node[p] EXCEPT !.next = to]
        /\ \A c \in Blocks \ {p} : new[c] = w.node[c]
        /\ new \in [Blocks -> SNodes \cup {NoNode}]
    <3> HIDE DEF to, p
    <3> QED BY <1>2, <2>2, <2>3
  <2>5. v.node = new /\ v.head = w.head /\ v.prev = w.prev /\ v.gone = g
    BY <2>1
  <2> HIDE DEF g, to, new, p
  <2>6. /\ \A c \in ToSet(q) : /\ new[c] \in SNodes /\ new[c].next \in ToSet(q) \cup {Null}
                               /\ new[c].data = snode[c].data
        /\ \A c \in Blocks \ ToSet(q) : new[c] = NoNode
    <3>1. ASSUME NEW c \in ToSet(q)
          PROVE  new[c] \in SNodes /\ new[c].next \in ToSet(q) \cup {Null} /\ new[c].data = snode[c].data
      <4>1. CASE c = p
        BY <1>2, <1>4, <2>2, <2>3, <2>4, <4>1
      <4>2. CASE c # p
        BY <1>1, <1>2, <2>4, <4>2
      <4> QED BY <4>1, <4>2
    <3> QED BY <1>2, <2>2, <2>4, <3>1
  <2>7. v \in SWalks(q)
    BY <1>2, <1>4, <2>1, <2>4, <2>5, <2>6 DEF SWalks
  <2> QED BY <1>6, <2>3, <2>4, <2>5, <2>7 DEF g, to, p
<1> QED BY <1>5, <1>6

(* Node r[k] leaves the chain r of the walk w.                                 *)
LEMMA SUnlinkFacts ==
  ASSUME NEW q \in Seq(Blocks), NEW w \in SWalks(q), NEW r, IsChain(r, w.head, w.node, "next"),
         ToSet(r) \subseteq ToSet(q), NEW k \in 1..Len(r), w.prev = At(r, k - 1),
         NEW v, v = SUnlink(w, r[k]), NEW t, t = RemoveAt(r, k)
  PROVE  /\ v \in SWalks(q) /\ v.gone = Append(w.gone, r[k])
         /\ IsChain(t, v.head, v.node, "next") /\ v.prev = At(t, k - 1)
<1> DEFINE b == r[k]
           p == w.prev
<1>1. /\ r \in Seq(Blocks) /\ IsInjective(r) /\ w.head = At(r, 1) /\ Len(r) \in Nat
      /\ \A n \in 1..Len(r) : w.node[r[n]].next = At(r, n + 1)
  BY DEF IsChain
<1>2. /\ b \in ToSet(q) /\ \A n \in 1..Len(r) : r[n] \in ToSet(q) /\ r[n] \in Blocks
      /\ \A m, n \in 1..Len(r) : r[m] = r[n] => m = n
  BY <1>1, ElementFacts
<1>3. /\ v \in SWalks(q) /\ v.gone = Append(w.gone, b) /\ v.prev = w.prev
      /\ w.prev = Null => v.head = w.node[b].next /\ v.node = w.node
      /\ w.prev # Null => /\ v.head = w.head /\ v.node[w.prev].next = w.node[b].next
                          /\ \A c \in Blocks \ {w.prev} : v.node[c] = w.node[c]
  BY <1>2, SUnlinkParts
<1>4. /\ t \in Seq(Blocks) /\ IsInjective(t) /\ Len(t) = Len(r) - 1
      /\ ToSet(t) = ToSet(r) \ {r[k]}
      /\ \A i \in 1..(Len(r) - 1) : t[i] = IF i < k THEN r[i] ELSE r[i + 1]
  <2>1. r \in Seq(Blocks) /\ IsInjective(r)
    BY <1>1
  <2>2. t = RemoveAt(r, k) /\ k \in 1..Len(r)
    OBVIOUS
  <2>3. Dropped(r, k, t)
    BY <2>1, <2>2, RemovedChain
  <2> QED BY <2>3 DEF Dropped
<1>5. /\ \A i \in 1..Len(r) : At(r, i) = r[i] /\ r[i] # Null
      /\ \A i : i \notin 1..Len(r) => At(r, i) = Null
      /\ \A i \in 1..Len(t) : At(t, i) = t[i] /\ t[i] # Null
      /\ \A i : i \notin 1..Len(t) => At(t, i) = Null
  BY <1>1, <1>4, AtFacts, NullFacts
<1>6. w.node[b].next = At(r, k + 1)
  BY <1>1
<1>7. v.prev = At(t, k - 1)
  <2>1. CASE k = 1
    BY <1>3, <1>5, <2>1
  <2>2. CASE k # 1
    <3>1. k - 1 \in 1..Len(r) /\ k - 1 \in 1..Len(t) /\ k - 1 < k /\ k - 1 \in 1..(Len(r) - 1)
      BY <1>1, <1>4, <2>2
    <3>2. At(t, k - 1) = r[k - 1]
      BY <1>4, <1>5, <3>1
    <3> QED BY <1>3, <1>5, <3>1, <3>2
  <2> QED BY <2>1, <2>2
<1>8. \A i \in 1..Len(r) : i > k => At(t, i - 1) = r[i]
  <2> TAKE i \in 1..Len(r)
  <2> HAVE i > k
  <2>1. i - 1 \in 1..(Len(r) - 1) /\ ~(i - 1 < k) /\ i - 1 + 1 = i /\ i - 1 \in 1..Len(t)
    BY <1>1, <1>4
  <2> QED BY <1>4, <1>5, <2>1
<1>8a. At(t, k) = At(r, k + 1)
  <2>1. CASE k = Len(r)
    <3>1. k \notin 1..Len(t) /\ k + 1 \notin 1..Len(r)
      BY <1>1, <1>4, <2>1
    <3> QED BY <1>5, <3>1
  <2>2. CASE k # Len(r)
    <3>1. k + 1 \in 1..Len(r) /\ k + 1 > k /\ k + 1 - 1 = k
      BY <1>1, <2>2
    <3> QED BY <1>5, <1>8, <3>1
  <2> QED BY <2>1, <2>2
<1>9. v.head = At(t, 1)
  <2>1. CASE k = 1
    <3>1. w.prev = Null /\ v.head = At(r, k + 1)
      BY <1>3, <1>5, <1>6, <2>1
    <3> QED BY <1>8a, <2>1, <3>1
  <2>2. CASE k # 1
    <3>1. k - 1 \in 1..Len(r) /\ 1 \in 1..(Len(r) - 1) /\ 1 < k /\ 1 \in 1..Len(r)
          /\ 1 \in 1..Len(t)
      BY <1>1, <1>4, <2>2
    <3>2. w.prev # Null
      BY <1>5, <3>1
    <3>3. v.head = r[1]
      BY <1>1, <1>3, <1>5, <3>1, <3>2
    <3> QED BY <1>4, <1>5, <3>1, <3>3
  <2> QED BY <2>1, <2>2
<1>10. ASSUME NEW i \in 1..Len(t) PROVE v.node[t[i]].next = At(t, i + 1)
  <2>1. i \in 1..(Len(r) - 1) /\ i \in 1..Len(r) /\ i + 1 \in 1..Len(r)
    BY <1>1, <1>4
  <2>2. CASE i < k - 1
    <3>1. i + 1 < k /\ i < k /\ i + 1 \in 1..(Len(r) - 1) /\ i + 1 \in 1..Len(t) /\ i # k - 1
      BY <1>1, <1>4, <2>1, <2>2
    <3>2. At(t, i + 1) = r[i + 1] /\ t[i] = r[i]
      BY <1>4, <1>5, <2>1, <3>1
    <3>3. w.node[r[i]].next = r[i + 1]
      BY <1>1, <1>5, <2>1
    <3>4. v.node[r[i]] = w.node[r[i]]
      <4>1. k - 1 \in 1..Len(r) /\ w.prev = r[k - 1] /\ w.prev # Null
        BY <1>5, <2>1, <2>2
      <4>2. r[i] # w.prev
        BY <1>2, <2>1, <3>1, <4>1
      <4> QED BY <1>2, <1>3, <2>1, <4>1, <4>2
    <3> QED BY <3>2, <3>3, <3>4
  <2>3. CASE i = k - 1
    <3>1. i < k /\ i + 1 = k
      BY <2>3
    <3>2. t[i] = r[i] /\ w.prev = r[i] /\ w.prev # Null
      BY <1>4, <1>5, <2>1, <2>3, <3>1
    <3>3. v.node[r[i]].next = At(r, k + 1)
      BY <1>3, <1>6, <3>2
    <3> QED BY <1>8a, <3>1, <3>2, <3>3
  <2>4. CASE i > k - 1
    <3>1. ~(i < k) /\ i + 1 > k /\ i + 1 - 1 = i
      BY <2>1, <2>4
    <3>2. t[i] = r[i + 1]
      BY <1>4, <2>1, <3>1
    <3>3. w.node[r[i + 1]].next = At(r, i + 1 + 1)
      BY <1>1, <2>1
    <3>4. At(t, i + 1) = At(r, i + 1 + 1)
      <4>1. CASE i + 1 = Len(r)
        <5>1. i + 1 \notin 1..Len(t) /\ i + 1 + 1 \notin 1..Len(r)
          BY <1>1, <1>4, <4>1
        <5>2. At(t, i + 1) = Null
          BY <1>5, <5>1
        <5>3. At(r, i + 1 + 1) = Null
          BY <1>5, <5>1
        <5> QED BY <5>2, <5>3
      <4>2. CASE i + 1 # Len(r)
        <5>1. i + 1 + 1 \in 1..Len(r) /\ i + 1 + 1 > k /\ i + 1 + 1 - 1 = i + 1
          BY <1>1, <2>1, <3>1, <4>2
        <5>2. At(t, i + 1 + 1 - 1) = r[i + 1 + 1] /\ At(r, i + 1 + 1) = r[i + 1 + 1]
          BY <1>5, <1>8, <5>1
        <5> QED BY <5>1, <5>2
      <4> QED BY <4>1, <4>2
    <3>5. v.node[r[i + 1]] = w.node[r[i + 1]]
      <4>1. CASE w.prev = Null
        BY <1>3, <4>1
      <4>2. CASE w.prev # Null
        <5>1. k - 1 \in 1..Len(r) /\ w.prev = r[k - 1] /\ k - 1 # i + 1
          BY <1>5, <2>1, <3>1, <4>2
        <5>2. r[i + 1] # w.prev
          BY <1>2, <2>1, <5>1
        <5> QED BY <1>2, <1>3, <2>1, <4>2, <5>2
      <4> QED BY <4>1, <4>2
    <3> QED BY <3>2, <3>3, <3>4, <3>5
  <2> QED BY <2>1, <2>2, <2>3, <2>4
<1>11. IsChain(t, v.head, v.node, "next")
  BY <1>4, <1>9, <1>10 DEF IsChain
<1> QED BY <1>3, <1>7, <1>11

(* A walk starts with the list as it is.                                       *)
LEMMA SWalkStarts ==
  ASSUME NEW q, SLinked(q, slist, snode), NEW p \in ToSet(q) \cup {Null}
  PROVE  /\ SWalk \in SWalks(q) /\ SPass(SWalk, p) \in SWalks(q)
         /\ SWalk.node = snode /\ SWalk.head = slist /\ SWalk.prev = Null /\ SWalk.gone = <<>>
         /\ SPass(SWalk, p).node = snode /\ SPass(SWalk, p).head = slist
         /\ SPass(SWalk, p).prev = p /\ SPass(SWalk, p).gone = <<>>
<1>1. SWalk.node = snode /\ SWalk.head = slist /\ SWalk.prev = Null /\ SWalk.gone = <<>>
  BY DEF SWalk
<1>2. SPass(SWalk, p) = [node |-> snode, head |-> slist, prev |-> p, gone |-> <<>>]
  BY DEF SWalk, SPass
<1>3. /\ snode \in [Blocks -> SNodes \cup {NoNode}] /\ <<>> \in Seq(Blocks)
      /\ \A c \in Blocks \ ToSet(q) : snode[c] = NoNode
  BY DEF SLinked
<1>4. q \in Seq(Blocks) /\ slist = At(q, 1) /\ \A n \in 1..Len(q) : snode[q[n]].next = At(q, n + 1)
  BY DEF SLinked, IsChain
<1>5. \A n : At(q, n) \in ToSet(q) \cup {Null}
  BY <1>4, ElementFacts DEF At
<1>6. \A c \in ToSet(q) : snode[c] \in SNodes /\ snode[c].next \in ToSet(q) \cup {Null}
  BY <1>4, <1>5, ElementFacts, SNodeFacts
<1>7. SPass(SWalk, p) \in SWalks(q)
  BY <1>2, <1>3, <1>4, <1>5, <1>6 DEF SWalks
<1>8. SWalk \in SWalks(q)
  BY <1>3, <1>4, <1>5, <1>6 DEF SWalks, SWalk
<1> QED BY <1>1, <1>2, <1>7, <1>8

(* What SPass does to the walk.                                                *)
LEMMA SPassParts ==
  ASSUME NEW q \in Seq(Blocks), NEW w \in SWalks(q), NEW b \in ToSet(q)
  PROVE  /\ SPass(w, b) \in SWalks(q) /\ SPass(w, b).node = w.node /\ SPass(w, b).head = w.head
         /\ SPass(w, b).gone = w.gone /\ SPass(w, b).prev = b
<1>1. /\ w.node \in [Blocks -> SNodes \cup {NoNode}] /\ w.head \in ToSet(q) \cup {Null}
      /\ w.prev \in ToSet(q) \cup {Null} /\ w.gone \in Seq(Blocks)
      /\ \A c \in ToSet(q) : /\ w.node[c] \in SNodes /\ w.node[c].next \in ToSet(q) \cup {Null}
                             /\ w.node[c].data = snode[c].data
      /\ \A c \in Blocks \ ToSet(q) : w.node[c] = NoNode
  BY SWalkParts
<1>2. w = [node |-> w.node, head |-> w.head, prev |-> w.prev, gone |-> w.gone]
  BY DEF SWalks
<1>3. SPass(w, b) = [node |-> w.node, head |-> w.head, prev |-> b, gone |-> w.gone]
  BY <1>2 DEF SPass
<1>4. SPass(w, b) \in SWalks(q)
  BY <1>1, <1>3 DEF SWalks
<1> QED BY <1>3, <1>4

(* A walk stays one of the list.                                               *)
LEMMA SVisitType ==
  ASSUME NEW q \in Seq(Blocks), NEW w \in SWalks(q), NEW b \in ToSet(q), NEW x, NEW everywhere
  PROVE  SVisit(w, b, x, everywhere) \in SWalks(q)
<1>1. SPass(w, b) \in SWalks(q)
  BY SPassParts
<1>2. SUnlink(w, b) \in SWalks(q)
  BY SUnlinkParts
<1> QED BY <1>1, <1>2 DEF SVisit

(* The walk w over q has seen n nodes, and r is linked now.                    *)
SWalked(q, x, everywhere, n, w, r) ==
  /\ w \in SWalks(q) /\ IsChain(r, w.head, w.node, "next")
  /\ w.prev = At(r, n - Len(w.gone))
  /\ Progress(q, snode, x, everywhere, n, r, w.gone)

(* One step of the walk of hev_slist_remove and hev_slist_remove_all.          *)
LEMMA SVisitFacts ==
  ASSUME NEW q, Listed(q, snode), NEW x, NEW everywhere \in BOOLEAN, NEW n \in 0..(Len(q) - 1),
         NEW w, NEW r, SWalked(q, x, everywhere, n, w, r),
         NEW v, v = SVisit(w, q[n + 1], x, everywhere)
  PROVE  \E t : SWalked(q, x, everywhere, n + 1, v, t)
<1> DEFINE b == q[n + 1]
           g == Len(w.gone)
           k == n + 1 - g
<1>1. /\ w \in SWalks(q) /\ IsChain(r, w.head, w.node, "next") /\ w.prev = At(r, n - g)
      /\ Progress(q, snode, x, everywhere, n, r, w.gone) /\ q \in Seq(Blocks)
  BY DEF SWalked, Listed
<1>2. /\ r \in Seq(Blocks) /\ ToSet(r) \subseteq ToSet(q) /\ g \in 0..n /\ w.gone \in Seq(Blocks)
      /\ Scanned(q, n, r, w.gone)
  BY <1>1 DEF Progress, Scanned
<1>3. k \in 1..Len(r) /\ r[k] = b /\ b \in ToSet(q) /\ b \in Blocks
  <2>1. NextAt(q, n, r, n + 1 - Len(w.gone))
    BY <1>1, <1>2, ScanNext
  <2> QED BY <2>1 DEF NextAt
<1>4. k - 1 = n - g /\ n - g \in Nat
  BY <1>2
<1>5. CASE snode[b].data = x /\ (everywhere \/ w.gone = <<>>)
  <2> DEFINE t == RemoveAt(r, k)
  <2>1. v = SUnlink(w, b)
    BY <1>5 DEF SVisit
  <2>2. Progress(q, snode, x, everywhere, n + 1, t, Append(w.gone, b))
    BY <1>1, <1>5, VisitUnlink
  <2>3. t = RemoveAt(r, k) /\ v = SUnlink(w, r[k]) /\ w.prev = At(r, k - 1)
    BY <1>1, <1>3, <1>4, <2>1
  <2> HIDE DEF t, k, g
  <2>4. /\ v \in SWalks(q) /\ v.gone = Append(w.gone, r[k])
        /\ IsChain(t, v.head, v.node, "next") /\ v.prev = At(t, k - 1)
    BY <1>1, <1>2, <1>3, <2>3, SUnlinkFacts
  <2>5. Len(v.gone) = g + 1
    BY <1>2, <1>3, <2>4, AppendFacts DEF g
  <2>6. k - 1 = (n + 1) - Len(v.gone)
    BY <1>2, <2>5 DEF k, g
  <2>7. v.prev = At(t, (n + 1) - Len(v.gone)) /\ Progress(q, snode, x, everywhere, n + 1, t, v.gone)
    BY <1>3, <2>2, <2>4, <2>6
  <2>8. SWalked(q, x, everywhere, n + 1, v, t)
    BY <2>4, <2>7 DEF SWalked
  <2> QED BY <2>8
<1>6. CASE ~(snode[b].data = x /\ (everywhere \/ w.gone = <<>>))
  <2>1. v = SPass(w, b)
    BY <1>6 DEF SVisit
  <2>2. Progress(q, snode, x, everywhere, n + 1, r, w.gone)
    BY <1>1, <1>6, VisitPass
  <2>3. /\ v \in SWalks(q) /\ v.node = w.node /\ v.head = w.head
        /\ v.gone = w.gone /\ v.prev = b
    BY <1>1, <1>3, <2>1, SPassParts
  <2>4. v.prev = At(r, (n + 1) - g)
    <3>1. k = (n + 1) - g
      BY <1>2
    <3>2. At(r, k) = b
      <4> HIDE DEF k
      <4> QED BY <1>2, <1>3, AtFacts
    <3> QED BY <2>3, <3>1, <3>2
  <2>5. /\ v \in SWalks(q) /\ IsChain(r, v.head, v.node, "next") /\ v.prev = At(r, (n + 1) - Len(v.gone))
        /\ Progress(q, snode, x, everywhere, n + 1, r, v.gone)
    BY <1>1, <2>2, <2>3, <2>4
  <2>6. SWalked(q, x, everywhere, n + 1, v, r)
    BY <2>5 DEF SWalked
  <2> QED BY <2>6
<1> QED BY <1>5, <1>6

(* The list of hev-slist.c is listed.                                          *)
LEMMA SListed ==
  ASSUME NEW q, NEW head, NEW node, SLinked(q, head, node)
  PROVE  Listed(q, node)
BY SNodeFacts DEF Listed

SScanTo(f, q, x, everywhere) ==
  f = [n \in 0..Len(q) |-> IF n = 0 THEN SWalk ELSE SVisit(f[n - 1], q[n], x, everywhere)]

(* The function in SScan exists.                                               *)
LEMMA SScanExists ==
  ASSUME NEW q, SLinked(q, slist, snode), NEW x, NEW everywhere
  PROVE  \E f : SScanTo(f, q, x, everywhere)
<1> DEFINE N == Len(q)
           X == SWalks(q)
           base == SWalk
           step == [p \in (1..N) \X X |-> SVisit(p[2], q[p[1]], x, everywhere)]
<1>1. N \in Nat /\ \A m \in 1..N : q[m] \in ToSet(q)
  BY SNodeFacts
<1>2. base \in X
  BY SWalkStarts
<1>3. q \in Seq(Blocks)
  BY SNodeFacts
<1>4. \A w \in X, b \in ToSet(q) : SVisit(w, b, x, everywhere) \in X
  BY <1>3, SVisitType
<1> HIDE DEF N, X, base
<1>5. step \in [(1..N) \X X -> X]
  BY <1>1, <1>4
<1>6. \A m \in 1..N, w \in X : step[<<m, w>>] = SVisit(w, q[m], x, everywhere)
  OBVIOUS
<1> HIDE DEF step
<1>7. PICK f \in [0..N -> X] : Unfolds(f, base, step, N)
  BY <1>1, <1>2, <1>5, Recursion
<1>8. \A m \in 0..N : f[m] = IF m = 0 THEN base ELSE SVisit(f[m - 1], q[m], x, everywhere)
  <2> TAKE m \in 0..N
  <2>1. CASE m = 0
    BY <1>7, <2>1 DEF Unfolds
  <2>2. CASE m # 0
    <3>1. m \in 1..N /\ f[m - 1] \in X
      BY <1>1, <1>7, <2>2
    <3> QED BY <1>6, <1>7, <2>2, <3>1 DEF Unfolds
  <2> QED BY <2>1, <2>2
<1>9. f = [m \in 0..N |-> f[m]]
  BY <1>7
<1>10. f = [m \in 0..N |-> IF m = 0 THEN base ELSE SVisit(f[m - 1], q[m], x, everywhere)]
  BY <1>8, <1>9
<1> QED BY <1>10 DEF SScanTo, N, base

(* The whole walk of hev_slist_remove and hev_slist_remove_all.                *)
LEMMA SScanFacts ==
  ASSUME NEW q, SLinked(q, slist, snode), NEW x, NEW everywhere \in BOOLEAN,
         NEW w, w = SScan(q, x, everywhere)
  PROVE  \E r : SWalked(q, x, everywhere, Len(q), w, r)
<1> DEFINE N == Len(q)
           f == CHOOSE f : SScanTo(f, q, x, everywhere)
           Good == {n \in 0..N : \E r : SWalked(q, x, everywhere, n, f[n], r)}
<1>1. N \in Nat /\ q \in Seq(Blocks) /\ IsInjective(q) /\ Listed(q, snode)
  BY SNodeFacts, SListed
<1>2. SScanTo(f, q, x, everywhere)
  BY SScanExists
<1>3. w = f[N]
  BY DEF SScan, SScanTo
<1> HIDE DEF f
<1>4. f = [n \in 0..N |-> IF n = 0 THEN SWalk ELSE SVisit(f[n - 1], q[n], x, everywhere)]
  BY <1>2 DEF SScanTo
<1> HIDE DEF N
<1>5. 0 \in Good
  <2>1. f[0] = SWalk /\ 0 \in 0..N
    BY <1>1, <1>4
  <2>2. Progress(q, snode, x, everywhere, 0, q, <<>>)
    BY <1>1, VisitStart
  <2>3. /\ SWalk \in SWalks(q) /\ SWalk.node = snode /\ SWalk.head = slist /\ SWalk.prev = Null
        /\ SWalk.gone = <<>>
    BY SWalkStarts
  <2>4. IsChain(q, slist, snode, "next")
    BY DEF SLinked
  <2>5. Null = At(q, 0 - Len(<<>>))
    BY <1>1, AtFacts
  <2>6. SWalked(q, x, everywhere, 0, SWalk, q)
    BY <2>2, <2>3, <2>4, <2>5 DEF SWalked
  <2> QED BY <2>1, <2>6
<1>6. ASSUME NEW n \in 0..(N - 1), n \in Good PROVE n + 1 \in Good
  <2>1. n + 1 \in 0..N /\ n + 1 # 0 /\ (n + 1) - 1 = n
    BY <1>1
  <2>2. f[n + 1] = SVisit(f[n], q[n + 1], x, everywhere)
    <3>1. f[n + 1] = IF n + 1 = 0 THEN SWalk ELSE SVisit(f[(n + 1) - 1], q[n + 1], x, everywhere)
      BY <1>4, <2>1
    <3> QED BY <2>1, <3>1
  <2>3. PICK r : SWalked(q, x, everywhere, n, f[n], r)
    BY <1>6
  <2>4. \E t : SWalked(q, x, everywhere, n + 1, f[n + 1], t)
    BY <1>1, <2>2, <2>3, SVisitFacts DEF N
  <2> QED BY <2>1, <2>4
<1> HIDE DEF Good
<1>7. N \in Good
  <2>1. \A n \in 0..N : n \in Good
    BY <1>1, <1>5, <1>6, Upwards
  <2> QED BY <1>1, <2>1
<1> QED BY <1>3, <1>7 DEF Good, N

(* What is left when the nodes the walk unlinked are freed.                    *)
LEMMA SRemovedFacts ==
  ASSUME NEW q \in Seq(Blocks), NEW w \in SWalks(q), NEW r, IsChain(r, w.head, w.node, "next"),
         ToSet(r) \cap ToSet(w.gone) = {}, ToSet(r) \cup ToSet(w.gone) = ToSet(q),
         NEW new, new = [b \in Blocks |-> IF b \in ToSet(w.gone) THEN NoNode ELSE w.node[b]]
  PROVE  SLinked(r, w.head, new) /\ DataOf(r, new) = DataOf(r, snode)
<1>1. /\ w.node \in [Blocks -> SNodes \cup {NoNode}]
      /\ \A c \in ToSet(q) : w.node[c] \in SNodes /\ w.node[c].data = snode[c].data
      /\ \A c \in Blocks \ ToSet(q) : w.node[c] = NoNode
  BY SWalkParts
<1>2. /\ r \in Seq(Blocks) /\ IsInjective(r) /\ w.head = At(r, 1)
      /\ \A n \in 1..Len(r) : w.node[r[n]]["next"] = At(r, n + 1)
  BY DEF IsChain
<1>3. ToSet(r) \subseteq Blocks /\ ToSet(q) \subseteq Blocks
      /\ \A n \in 1..Len(r) : r[n] \in ToSet(r)
  BY <1>2, AtFacts, ElementFacts
<1>4. \A c \in ToSet(r) : new[c] = w.node[c]
  BY <1>3
<1>5. IsChain(r, w.head, new, "next")
  BY <1>2, <1>3, <1>4 DEF IsChain
<1>6. new \in [Blocks -> SNodes \cup {NoNode}]
  BY <1>1
<1>7. ToSet(r) = {b \in Blocks : new[b] # NoNode}
  BY <1>1, <1>3, <1>4, SListAssumption
<1>8. DataOf(r, new) = DataOf(r, snode)
  <2>1. DOMAIN r = 1..Len(r) /\ \A n \in 1..Len(r) : new[r[n]].data = snode[r[n]].data
    BY <1>1, <1>2, <1>3, <1>4
  <2> QED BY <2>1 DEF DataOf
<1> QED BY <1>5, <1>6, <1>7, <1>8 DEF SLinked

(* The first element goes.                                                     *)
LEMMA TailFacts ==
  ASSUME NEW T, NEW s \in Seq(T), Len(s) # 0
  PROVE  Tail(s) = RemoveAt(s, 1) /\ RemoveFirst(s, s[1]) = Tail(s)
<1>1. /\ Len(s) \in Nat /\ 1 \in 1..Len(s) /\ 1..(1 - 1) = {}
      /\ Tail(s) \in Seq(T) /\ Len(Tail(s)) = Len(s) - 1
      /\ \A i \in 1..(Len(s) - 1) : Tail(s)[i] = s[i + 1]
  OBVIOUS
<1>2. /\ RemoveAt(s, 1) \in Seq(T) /\ Len(RemoveAt(s, 1)) = Len(s) - 1
      /\ \A i \in 1..(Len(s) - 1) : RemoveAt(s, 1)[i] = IF i < 1 THEN s[i] ELSE s[i + 1]
  BY <1>1, RemoveAtFacts
<1>3. \A i \in 1..(Len(s) - 1) : ~(i < 1)
  BY <1>1
<1>4. Tail(s) = RemoveAt(s, 1)
  BY <1>1, <1>2, <1>3, SameSeq
<1>5. RemoveFirst(s, s[1]) = RemoveAt(s, 1)
  BY <1>1, FirstRemoved
<1> QED BY <1>4, <1>5

-----------------------------------------------------------------------------
(* hev-list.c: the list, its first node and what hev_list_free visits.         *)

(* The list of hev-list.c whose nodes are q.                                   *)
LChained(q, node) ==
  IsChain(q, At(q, 1), node, "next") /\ \A n \in 1..Len(q) : node[q[n]]["prev"] = At(q, n - 1)

LLinked(q, node) ==
  /\ LChained(q, node)
  /\ node \in [Blocks -> LNodes \cup {NoNode}]
  /\ ToSet(q) = {b \in Blocks : node[b] # NoNode}

(* Node b is in the list, or the list is empty.                                *)
HeldIn(q, b) == b \in ToSet(q) \/ (q = <<>> /\ b = Null)

(* The nodes of a list of hev-list.c.                                          *)
LEMMA LNodeFacts ==
  ASSUME NEW q, NEW node, LLinked(q, node)
  PROVE  /\ q \in Seq(Blocks) /\ IsInjective(q) /\ Len(q) \in Nat
         /\ \A c \in ToSet(q) : c \in Blocks /\ node[c] \in LNodes
         /\ \A i \in 1..Len(q) : q[i] \in ToSet(q) /\ At(q, i) = q[i] /\ q[i] # Null
         /\ \A c \in LNodes : /\ c.data \in Data /\ c.prev \in Blocks \cup {Null}
                              /\ c.next \in Blocks \cup {Null} /\ c # NoNode
<1>1. q \in Seq(Blocks) /\ IsInjective(q)
  BY DEF LLinked, LChained, IsChain
<1>2. \A c \in ToSet(q) : c \in Blocks /\ node[c] \in LNodes
  BY DEF LLinked
<1>3. \A i \in 1..Len(q) : q[i] \in ToSet(q) /\ At(q, i) = q[i] /\ q[i] # Null
  BY <1>1, AtFacts, ElementFacts, NullFacts
<1>4. \A c \in LNodes : /\ c.data \in Data /\ c.prev \in Blocks \cup {Null}
                        /\ c.next \in Blocks \cup {Null} /\ c # NoNode
  BY ListAssumption DEF LNodes
<1> QED BY <1>1, <1>2, <1>3, <1>4

(* The way back from a node of the list to its first, and the way on.          *)
Back(q, m) == [i \in 1..m |-> q[(m + 1) - i]]

(* A walk backwards from the m-th node.                                        *)
LEMMA BackFacts ==
  ASSUME NEW q, NEW node, LChained(q, node), NEW m \in 1..Len(q)
  PROVE  /\ Walk(q[m], node, "prev") = Back(q, m)
         /\ Back(q, m) \in Seq(Blocks) /\ IsInjective(Back(q, m))
         /\ ToSet(Back(q, m)) = {q[i] : i \in 1..m} /\ LastOf(Back(q, m)) = At(q, 1)
<1> DEFINE r == Back(q, m)
<1>1. /\ q \in Seq(Blocks) /\ IsInjective(q) /\ Len(q) \in Nat
      /\ \A n \in 1..Len(q) : node[q[n]]["prev"] = At(q, n - 1)
  BY DEF LChained, IsChain
<1>2. \A i, j \in 1..Len(q) : q[i] = q[j] => i = j
  BY <1>1, ElementFacts
<1>3. \A i \in 1..m : (m + 1) - i \in 1..m /\ (m + 1) - i \in 1..Len(q)
  BY <1>1
<1>4. r \in [1..m -> Blocks] /\ \A i \in 1..m : r[i] = q[(m + 1) - i]
  BY <1>1, <1>3 DEF Back
<1> HIDE DEF r
<1>5. r \in Seq(Blocks) /\ Len(r) = m
  BY <1>1, <1>4
<1>6. IsInjective(r)
  <2>1. ASSUME NEW i \in 1..m, NEW j \in 1..m, r[i] = r[j] PROVE i = j
    <3>1. (m + 1) - i = (m + 1) - j
      BY <1>2, <1>3, <1>4, <2>1
    <3> QED BY <1>1, <3>1
  <2> QED BY <1>5, <2>1, ElementFacts
<1>7. ToSet(r) = {q[i] : i \in 1..m}
  <2>1. ASSUME NEW x \in ToSet(r) PROVE x \in {q[i] : i \in 1..m}
    <3>1. PICK i \in 1..m : x = r[i]
      BY <1>5, ElementFacts
    <3> QED BY <1>3, <1>4, <3>1
  <2>2. ASSUME NEW i \in 1..m PROVE q[i] \in ToSet(r)
    <3>1. (m + 1) - i \in 1..m /\ (m + 1) - ((m + 1) - i) = i
      BY <1>1
    <3>2. r[(m + 1) - i] = q[i]
      BY <1>4, <3>1
    <3> QED BY <1>5, <3>1, <3>2, ElementFacts
  <2> QED BY <2>1, <2>2
<1>8. \A i \in 1..Len(q) : At(q, i) = q[i]
  BY <1>1, AtFacts
<1>9. \A i : i \notin 1..Len(q) => At(q, i) = Null
  BY <1>1, AtFacts
<1>10. /\ \A i \in 1..m : At(r, i) = r[i]
       /\ \A i : i \notin 1..m => At(r, i) = Null
  BY <1>5, AtFacts
<1>11. LastOf(r) = At(q, 1)
  <2>1. m \in 1..m /\ (m + 1) - m = 1 /\ 1 \in 1..Len(q)
    BY <1>1
  <2>2. LastOf(r) = At(r, m)
    BY <1>5, AtFacts
  <2> QED BY <1>4, <1>8, <1>10, <2>1, <2>2
<1>12. ASSUME NEW i \in 1..m PROVE node[r[i]]["prev"] = At(r, i + 1)
  <2>1. node[r[i]]["prev"] = At(q, ((m + 1) - i) - 1)
    BY <1>1, <1>3, <1>4
  <2>2. CASE i = m
    <3>1. i + 1 \notin 1..m /\ ((m + 1) - i) - 1 \notin 1..Len(q)
      BY <1>1, <2>2
    <3>2. At(r, i + 1) = Null
      BY <1>10, <3>1
    <3>3. At(q, ((m + 1) - i) - 1) = Null
      BY <1>9, <3>1
    <3> QED BY <2>1, <3>2, <3>3
  <2>3. CASE i # m
    <3>1. i + 1 \in 1..m /\ ((m + 1) - i) - 1 = (m + 1) - (i + 1) /\ ((m + 1) - i) - 1 \in 1..Len(q)
      BY <1>1, <2>3
    <3>2. At(r, i + 1) = q[(m + 1) - (i + 1)]
      BY <1>4, <1>10, <3>1
    <3>3. At(q, ((m + 1) - i) - 1) = q[(m + 1) - (i + 1)]
      BY <1>8, <3>1
    <3> QED BY <2>1, <3>2, <3>3
  <2> QED BY <2>2, <2>3
<1>13. q[m] = At(r, 1)
  <2>1. 1 \in 1..m /\ (m + 1) - 1 = m
    BY <1>1
  <2> QED BY <1>4, <1>10, <2>1
<1>14. IsChain(r, q[m], node, "prev")
  BY <1>5, <1>6, <1>12, <1>13 DEF IsChain
<1>15. Walk(q[m], node, "prev") = r
  BY <1>14, WalkIsChain
<1> QED BY <1>5, <1>6, <1>7, <1>11, <1>15 DEF r

Onward(q, m) == SubSeq(q, m + 1, Len(q))

(* A walk onwards from behind the m-th node.                                   *)
LEMMA OnwardFacts ==
  ASSUME NEW q, NEW node, LChained(q, node), NEW m \in 0..Len(q)
  PROVE  /\ Walk(At(q, m + 1), node, "next") = Onward(q, m)
         /\ Onward(q, m) \in Seq(Blocks) /\ IsInjective(Onward(q, m))
         /\ ToSet(Onward(q, m)) = {q[i] : i \in (m + 1)..Len(q)}
<1> DEFINE r == Onward(q, m)
           N == Len(q) - m
<1>1. /\ q \in Seq(Blocks) /\ IsInjective(q) /\ Len(q) \in Nat
      /\ \A n \in 1..Len(q) : node[q[n]]["next"] = At(q, n + 1)
  BY DEF LChained, IsChain
<1>2. \A i, j \in 1..Len(q) : q[i] = q[j] => i = j
  BY <1>1, ElementFacts
<1>3. N \in Nat /\ \A i \in 1..N : m + i \in 1..Len(q) /\ m + i \in (m + 1)..Len(q)
  BY <1>1
<1>4. r \in Seq(Blocks) /\ Len(r) = N /\ \A i \in 1..N : r[i] = q[m + i]
  BY <1>1 DEF Onward
<1> HIDE DEF r, N
<1>5. IsInjective(r)
  <2>1. ASSUME NEW i \in 1..N, NEW j \in 1..N, r[i] = r[j] PROVE i = j
    <3>1. m + i = m + j
      BY <1>2, <1>3, <1>4, <2>1
    <3> QED BY <1>3, <3>1
  <2> QED BY <1>4, <2>1, ElementFacts
<1>6. ToSet(r) = {q[i] : i \in (m + 1)..Len(q)}
  <2>1. ASSUME NEW x \in ToSet(r) PROVE x \in {q[i] : i \in (m + 1)..Len(q)}
    <3>1. PICK i \in 1..N : x = r[i]
      BY <1>4, ElementFacts
    <3> QED BY <1>3, <1>4, <3>1
  <2>2. ASSUME NEW i \in (m + 1)..Len(q) PROVE q[i] \in ToSet(r)
    <3>1. i - m \in 1..N /\ m + (i - m) = i
      BY <1>1 DEF N
    <3>2. r[i - m] = q[i]
      BY <1>4, <3>1
    <3> QED BY <1>4, <3>1, <3>2, ElementFacts
  <2> QED BY <2>1, <2>2
<1>7. /\ \A i \in 1..Len(q) : At(q, i) = q[i]
      /\ \A i : i \notin 1..Len(q) => At(q, i) = Null
      /\ \A i \in 1..N : At(r, i) = r[i]
      /\ \A i : i \notin 1..N => At(r, i) = Null
  BY <1>1, <1>4, AtFacts
<1>8. \A i \in Nat : i > 0 => At(r, i) = At(q, m + i)
  <2> TAKE i \in Nat
  <2> HAVE i > 0
  <2>1. CASE i \in 1..N
    <3>1. At(r, i) = r[i]
      BY <1>7, <2>1
    <3>2. At(q, m + i) = q[m + i]
      BY <1>3, <1>7, <2>1
    <3> QED BY <1>4, <2>1, <3>1, <3>2
  <2>2. CASE i \notin 1..N
    <3>1. m + i \notin 1..Len(q)
      BY <1>1, <2>2 DEF N
    <3>2. At(q, m + i) = Null
      BY <1>7, <3>1
    <3>3. At(r, i) = Null
      BY <1>7, <2>2
    <3> QED BY <3>2, <3>3
  <2> QED BY <2>1, <2>2
<1>9. ASSUME NEW i \in 1..N PROVE node[r[i]]["next"] = At(r, i + 1)
  <2>1. node[q[m + i]]["next"] = At(q, (m + i) + 1)
    BY <1>1, <1>3
  <2>2. i + 1 \in Nat /\ i + 1 > 0 /\ (m + i) + 1 = m + (i + 1)
    BY <1>3
  <2>3. At(r, i + 1) = At(q, m + (i + 1))
    BY <1>8, <2>2
  <2> QED BY <1>4, <2>1, <2>2, <2>3
<1>10. At(q, m + 1) = At(r, 1)
  BY <1>8
<1>11. IsChain(r, At(q, m + 1), node, "next")
  BY <1>4, <1>5, <1>9, <1>10 DEF IsChain
<1>12. Walk(At(q, m + 1), node, "next") = r
  BY <1>11, WalkIsChain
<1> QED BY <1>4, <1>5, <1>6, <1>12 DEF r

(* From any node of the list hev_list_first finds its first one.               *)
LEMMA FirstFacts ==
  ASSUME NEW q, NEW node, LChained(q, node), NEW b, HeldIn(q, b)
  PROVE  /\ LastOf(Walk(b, node, "prev")) = At(q, 1)
         /\ Walk(At(q, 1), node, "next") = q
<1>1. q \in Seq(Blocks) /\ IsChain(q, At(q, 1), node, "next")
  BY DEF LChained, IsChain
<1>2. Walk(At(q, 1), node, "next") = q
  BY <1>1, WalkIsChain
<1>3. CASE b \in ToSet(q)
  <2>1. PICK m \in 1..Len(q) : b = q[m]
    BY <1>1, <1>3, ElementFacts
  <2> QED BY <1>2, <2>1, BackFacts
<1>4. CASE q = <<>> /\ b = Null
  <2>1. IsChain(q, Null, node, "prev")
    <3>1. Len(q) = 0 /\ IsInjective(q)
      BY <1>4 DEF IsInjective
    <3>2. At(q, 1) = Null
      BY <3>1 DEF At
    <3> QED BY <1>1, <3>1, <3>2 DEF IsChain
  <2>2. Walk(b, node, "prev") = <<>>
    BY <1>4, <2>1, WalkIsChain
  <2>3. At(q, 1) = Null
    BY <1>4 DEF At
  <2> QED BY <1>2, <2>2, <2>3 DEF LastOf
<1> QED BY <1>3, <1>4 DEF HeldIn

(* The blocks bs are the nodes of q, each of them once.                        *)
Enumerates(bs, q) == bs \in Seq(Blocks) /\ IsInjective(bs) /\ ToSet(bs) = ToSet(q)

(* hev_list_free frees each node once.                                         *)
LEMMA FreeOrderFacts ==
  ASSUME NEW q, NEW node, LChained(q, node), NEW b \in ToSet(q),
         NEW bs, bs = Walk(node[b]["next"], node, "next") \o Walk(b, node, "prev")
  PROVE  Enumerates(bs, q)
<1>1. /\ q \in Seq(Blocks) /\ IsInjective(q) /\ Len(q) \in Nat
      /\ \A n \in 1..Len(q) : node[q[n]]["next"] = At(q, n + 1)
  BY DEF LChained, IsChain
<1>2. PICK m \in 1..Len(q) : b = q[m]
  BY <1>1, ElementFacts
<1> DEFINE s == Onward(q, m)
           t == Back(q, m)
<1>3. m \in 0..Len(q)
  BY <1>1
<1>4. /\ Walk(At(q, m + 1), node, "next") = s
      /\ s \in Seq(Blocks) /\ IsInjective(s) /\ ToSet(s) = {q[i] : i \in (m + 1)..Len(q)}
  BY <1>3, OnwardFacts
<1>5. /\ Walk(q[m], node, "prev") = t
      /\ t \in Seq(Blocks) /\ IsInjective(t) /\ ToSet(t) = {q[i] : i \in 1..m}
  BY BackFacts
<1>6. bs = s \o t
  BY <1>1, <1>2, <1>4, <1>5
<1> HIDE DEF s, t
<1>6a. s \in Seq(Blocks) /\ t \in Seq(Blocks) /\ Len(s) \in Nat /\ Len(t) \in Nat
  BY <1>4, <1>5
<1>7. ToSet(q) = {q[i] : i \in 1..Len(q)}
  <2>1. DOMAIN q = 1..Len(q)
    BY <1>1
  <2> QED BY <2>1 DEF ToSet
<1>8. ToSet(s) \cup ToSet(t) = ToSet(q)
  <2>1. 1..Len(q) = 1..m \cup (m + 1)..Len(q)
    BY <1>1
  <2> QED BY <1>4, <1>5, <1>7, <2>1
<1>9. ToSet(s) \cap ToSet(t) = {}
  <2>1. \A i, j \in 1..Len(q) : q[i] = q[j] => i = j
    BY <1>1, ElementFacts
  <2>2. \A i \in (m + 1)..Len(q), j \in 1..m : i \in 1..Len(q) /\ j \in 1..Len(q) /\ i # j
    BY <1>1
  <2>3. \A i \in (m + 1)..Len(q), j \in 1..m : q[i] # q[j]
    BY <2>1, <2>2
  <2> QED BY <1>4, <1>5, <2>3
<1>10. /\ bs \in Seq(Blocks) /\ Len(bs) = Len(s) + Len(t) /\ Len(s) \in Nat /\ Len(t) \in Nat
       /\ \A i \in 1..(Len(s) + Len(t)) : bs[i] = IF i <= Len(s) THEN s[i] ELSE t[i - Len(s)]
  <2>1. /\ s \o t \in Seq(Blocks) /\ Len(s \o t) = Len(s) + Len(t)
        /\ \A i \in 1..(Len(s) + Len(t)) : (s \o t)[i] = IF i <= Len(s) THEN s[i] ELSE t[i - Len(s)]
    BY <1>6a, JoinFacts
  <2> QED BY <1>6, <1>6a, <2>1
<1>11. ToSet(bs) = ToSet(s) \cup ToSet(t)
  <2>1. ASSUME NEW x \in ToSet(bs) PROVE x \in ToSet(s) \cup ToSet(t)
    <3>1. PICK i \in 1..(Len(s) + Len(t)) : x = bs[i]
      <4>1. bs \in Seq(Blocks) /\ Len(bs) = Len(s) + Len(t)
        BY <1>10
      <4>2. \A y \in ToSet(bs) : \E i \in 1..Len(bs) : y = bs[i]
        BY ONLY <4>1, ElementFacts
      <4> QED BY <2>1, <4>1, <4>2
    <3>2. CASE i <= Len(s)
      <4>1. i \in 1..Len(s) /\ x = s[i]
        BY <1>10, <3>1, <3>2
      <4> QED BY <1>4, <4>1, ElementFacts
    <3>3. CASE ~(i <= Len(s))
      <4>1. i - Len(s) \in 1..Len(t) /\ x = t[i - Len(s)]
        BY <1>10, <3>1, <3>3
      <4> QED BY <1>5, <4>1, ElementFacts
    <3> QED BY <3>2, <3>3
  <2>2. ASSUME NEW x \in ToSet(s) PROVE x \in ToSet(bs)
    <3>1. PICK i \in 1..Len(s) : x = s[i]
      BY <1>6a, ElementFacts
    <3>2. i \in 1..Len(bs) /\ x = bs[i]
      BY <1>10, <3>1
    <3> QED BY <1>10, <3>2, ElementFacts
  <2>3. ASSUME NEW x \in ToSet(t) PROVE x \in ToSet(bs)
    <3>1. PICK i \in 1..Len(t) : x = t[i]
      BY <1>6a, ElementFacts
    <3>2. /\ i + Len(s) \in 1..Len(bs) /\ i + Len(s) \in 1..(Len(s) + Len(t))
          /\ ~(i + Len(s) <= Len(s)) /\ (i + Len(s)) - Len(s) = i
      BY <1>10
    <3>3. x = bs[i + Len(s)]
      BY <1>10, <3>1, <3>2
    <3> QED BY <1>10, <3>2, <3>3, ElementFacts
  <2> QED BY <2>1, <2>2, <2>3
<1>12. IsInjective(bs)
  <2>1. /\ \A i, j \in 1..Len(s) : s[i] = s[j] => i = j
        /\ \A i, j \in 1..Len(t) : t[i] = t[j] => i = j
        /\ \A i \in 1..Len(s), j \in 1..Len(t) : s[i] # t[j]
    BY <1>4, <1>5, <1>9, ElementFacts
  <2>2. ASSUME NEW i \in 1..Len(bs), NEW j \in 1..Len(bs), bs[i] = bs[j] PROVE i = j
    <3>0. \A k \in 1..Len(bs) :
            /\ k <= Len(s) => k \in 1..Len(s) /\ bs[k] = s[k]
            /\ ~(k <= Len(s)) => k - Len(s) \in 1..Len(t) /\ bs[k] = t[k - Len(s)]
      <4> TAKE k \in 1..Len(bs)
      <4>1. CASE k <= Len(s)
        BY <1>10, <4>1
      <4>2. CASE ~(k <= Len(s))
        BY <1>10, <4>2
      <4> QED BY <4>1, <4>2
    <3>1. CASE i <= Len(s) /\ j <= Len(s)
      BY <2>1, <2>2, <3>0, <3>1
    <3>2. CASE i <= Len(s) /\ ~(j <= Len(s))
      <4>1. i \in 1..Len(s) /\ j - Len(s) \in 1..Len(t) /\ bs[i] = s[i] /\ bs[j] = t[j - Len(s)]
        BY <3>0, <3>2
      <4> QED BY <2>1, <2>2, <4>1
    <3>3. CASE ~(i <= Len(s)) /\ j <= Len(s)
      <4>1. j \in 1..Len(s) /\ i - Len(s) \in 1..Len(t) /\ bs[j] = s[j] /\ bs[i] = t[i - Len(s)]
        BY <3>0, <3>3
      <4> QED BY <2>1, <2>2, <4>1
    <3>4. CASE ~(i <= Len(s)) /\ ~(j <= Len(s))
      <4>1. /\ i - Len(s) \in 1..Len(t) /\ bs[i] = t[i - Len(s)]
            /\ j - Len(s) \in 1..Len(t) /\ bs[j] = t[j - Len(s)]
        BY <3>0, <3>4
      <4>2. i - Len(s) = j - Len(s)
        BY <2>1, <2>2, <4>1
      <4> QED BY <1>10, <4>2
    <3> QED BY <3>1, <3>2, <3>3, <3>4
  <2> QED BY <1>10, <2>2, ElementFacts
<1> QED BY <1>8, <1>10, <1>11, <1>12 DEF Enumerates

-----------------------------------------------------------------------------
(* An insertion of hev-list.c.                                                 *)

(* The n-th node of a chain with one node more, or one less.                   *)
LEMMA InsertedAt ==
  ASSUME NEW q \in Seq(Blocks), IsInjective(q), NEW m \in 0..Len(q),
         NEW b \in Blocks, b \notin ToSet(q), NEW r, r = InsertAt(q, m + 1, b)
  PROVE  \A i \in Nat : At(r, i) = IF i < m + 1 THEN At(q, i) ELSE IF i = m + 1 THEN b ELSE At(q, i - 1)
<1>1. /\ r \in Seq(Blocks) /\ IsInjective(r) /\ Len(r) = Len(q) + 1 /\ Len(q) \in Nat
      /\ ToSet(r) = ToSet(q) \cup {b}
      /\ \A i \in 1..(Len(q) + 1) :
           r[i] = IF i < m + 1 THEN q[i] ELSE IF i = m + 1 THEN b ELSE q[i - 1]
  BY InsertedChain
<1>2. /\ \A i \in 1..Len(q) : At(q, i) = q[i]
      /\ \A i : i \notin 1..Len(q) => At(q, i) = Null
      /\ \A i \in 1..Len(r) : At(r, i) = r[i]
      /\ \A i : i \notin 1..Len(r) => At(r, i) = Null
  BY <1>1, AtFacts
<1> TAKE i \in Nat
<1>3. CASE i \in 1..(Len(q) + 1)
  <2>1. At(r, i) = IF i < m + 1 THEN q[i] ELSE IF i = m + 1 THEN b ELSE q[i - 1]
    BY <1>1, <1>2, <1>3
  <2>2. CASE i < m + 1
    <3>1. i \in 1..Len(q)
      BY <1>1, <1>3, <2>2
    <3> QED BY <1>2, <2>1, <2>2, <3>1
  <2>3. CASE i > m + 1
    <3>1. i - 1 \in 1..Len(q) /\ ~(i < m + 1) /\ i # m + 1
      BY <1>1, <1>3, <2>3
    <3>2. At(q, i - 1) = q[i - 1]
      BY <1>2, <3>1
    <3> QED BY <2>1, <3>1, <3>2
  <2>4. CASE i = m + 1
    BY <2>1, <2>4
  <2> QED BY <2>2, <2>3, <2>4
<1>4. CASE i \notin 1..(Len(q) + 1)
  <2>1. At(r, i) = Null
    BY <1>1, <1>2, <1>4
  <2>2. CASE i = 0
    <3>1. i < m + 1 /\ i \notin 1..Len(q)
      BY <2>2
    <3> QED BY <1>2, <2>1, <3>1
  <2>3. CASE i # 0
    <3>1. ~(i < m + 1) /\ i # m + 1 /\ i - 1 \notin 1..Len(q)
      BY <1>1, <1>4, <2>3
    <3>2. At(q, i - 1) = Null
      BY <1>2, <3>1
    <3> QED BY <2>1, <3>1, <3>2
  <2> QED BY <2>2, <2>3
<1> QED BY <1>3, <1>4

(* The same of a chain without its k-th node.                                  *)
LEMMA RemovedAt ==
  ASSUME NEW q \in Seq(Blocks), IsInjective(q), NEW k \in 1..Len(q), NEW t, t = RemoveAt(q, k)
  PROVE  \A i \in Nat : At(t, i) = IF i < k THEN At(q, i) ELSE At(q, i + 1)
<1>1. /\ t \in Seq(Blocks) /\ IsInjective(t) /\ Len(t) = Len(q) - 1 /\ Len(q) \in Nat
      /\ ToSet(t) = ToSet(q) \ {q[k]}
      /\ \A i \in 1..(Len(q) - 1) : t[i] = IF i < k THEN q[i] ELSE q[i + 1]
  <2>1. Dropped(q, k, t)
    BY RemovedChain
  <2> QED BY <2>1 DEF Dropped
<1>2. /\ \A i \in 1..Len(q) : At(q, i) = q[i]
      /\ \A i : i \notin 1..Len(q) => At(q, i) = Null
      /\ \A i \in 1..Len(t) : At(t, i) = t[i]
      /\ \A i : i \notin 1..Len(t) => At(t, i) = Null
  BY <1>1, AtFacts
<1> TAKE i \in Nat
<1>3. CASE i \in 1..(Len(q) - 1)
  <2>1. At(t, i) = IF i < k THEN q[i] ELSE q[i + 1]
    BY <1>1, <1>2, <1>3
  <2>2. i \in 1..Len(q) /\ i + 1 \in 1..Len(q)
    BY <1>1, <1>3
  <2>3. At(q, i) = q[i] /\ At(q, i + 1) = q[i + 1]
    BY <1>2, <2>2
  <2> QED BY <2>1, <2>3
<1>4. CASE i \notin 1..(Len(q) - 1)
  <2>1. At(t, i) = Null
    BY <1>1, <1>2, <1>4
  <2>2. CASE i = 0
    <3>1. i < k /\ i \notin 1..Len(q)
      BY <2>2
    <3> QED BY <1>2, <2>1, <3>1
  <2>3. CASE i # 0
    <3>1. ~(i < k) /\ i + 1 \notin 1..Len(q)
      BY <1>1, <1>4, <2>3
    <3>2. At(q, i + 1) = Null
      BY <1>2, <3>1
    <3> QED BY <2>1, <3>1, <3>2
  <2> QED BY <2>2, <2>3
<1> QED BY <1>3, <1>4

-----------------------------------------------------------------------------
LInserted(node, x, b, prev, next) ==
  [c \in Blocks |-> IF c = b THEN [data |-> x, prev |-> prev, next |-> next]
                    ELSE IF c = prev THEN [node[c] EXCEPT !.next = b]
                    ELSE IF c = next THEN [node[c] EXCEPT !.prev = b]
                    ELSE node[c]]

(* LInsert links the new node behind the m-th one, both ways.                  *)
LEMMA LInsertedFacts ==
  ASSUME NEW q, NEW node, LLinked(q, node), NEW m \in 0..Len(q),
         NEW b \in Blocks, b \notin ToSet(q), NEW x,
         NEW new, new = LInserted(node, x, b, At(q, m), At(q, m + 1)),
         NEW r, r = InsertAt(q, m + 1, b)
  PROVE  /\ LChained(r, new) /\ (x \in Data => LLinked(r, new))
         /\ DataOf(r, new) = InsertAt(DataOf(q, node), m + 1, x)
         /\ ToSet(r) = ToSet(q) \cup {b}
<1>1. /\ q \in Seq(Blocks) /\ IsInjective(q) /\ Len(q) \in Nat
      /\ \A c \in ToSet(q) : c \in Blocks /\ node[c] \in LNodes
      /\ \A i \in 1..Len(q) : q[i] \in ToSet(q) /\ At(q, i) = q[i] /\ q[i] # Null
      /\ \A c \in LNodes : /\ c.data \in Data /\ c.prev \in Blocks \cup {Null}
                           /\ c.next \in Blocks \cup {Null} /\ c # NoNode
  BY LNodeFacts
<1>2. \A i \in 1..Len(q) : node[q[i]]["next"] = At(q, i + 1) /\ node[q[i]]["prev"] = At(q, i - 1)
  BY DEF LLinked, LChained, IsChain
<1>3. /\ r \in Seq(Blocks) /\ IsInjective(r) /\ Len(r) = Len(q) + 1
      /\ ToSet(r) = ToSet(q) \cup {b}
      /\ \A i \in 1..(Len(q) + 1) :
           r[i] = IF i < m + 1 THEN q[i] ELSE IF i = m + 1 THEN b ELSE q[i - 1]
  BY <1>1, InsertedChain
<1>4. \A i \in Nat : At(r, i) = IF i < m + 1 THEN At(q, i) ELSE IF i = m + 1 THEN b ELSE At(q, i - 1)
  <2>1. q \in Seq(Blocks) /\ IsInjective(q)
    BY <1>1
  <2> QED BY <2>1, InsertedAt
<1>5. \A i : At(q, i) \in Blocks \cup {Null} /\ (At(q, i) = Null <=> i \notin 1..Len(q))
  BY <1>1, AtFacts
<1>6. \A i, j \in 1..Len(q) : q[i] = q[j] => i = j
  BY <1>1, ElementFacts
<1>7. /\ new[b] = [data |-> x, prev |-> At(q, m), next |-> At(q, m + 1)]
      /\ \A c \in Blocks : c # b => new[c] = IF c = At(q, m) THEN [node[c] EXCEPT !.next = b]
                                             ELSE IF c = At(q, m + 1) THEN [node[c] EXCEPT !.prev = b]
                                             ELSE node[c]
  BY DEF LInserted
<1>8. ASSUME NEW i \in 1..Len(q)
      PROVE  /\ new[q[i]].data = node[q[i]].data /\ new[q[i]] \in LNodes
             /\ new[q[i]].next = IF i = m THEN b ELSE At(q, i + 1)
             /\ new[q[i]].prev = IF i = m + 1 THEN b ELSE At(q, i - 1)
  <2> DEFINE c == q[i]
  <2>1. /\ c \in Blocks /\ c # b /\ node[c] \in LNodes /\ c = At(q, i) /\ c # Null
        /\ node[c].next = At(q, i + 1) /\ node[c].prev = At(q, i - 1)
    BY <1>1, <1>2
  <2>2. c = At(q, m) <=> i = m
    <3>1. CASE m \in 1..Len(q)
      BY <1>1, <1>6, <3>1
    <3>2. CASE m \notin 1..Len(q)
      BY <1>5, <2>1, <3>2
    <3> QED BY <3>1, <3>2
  <2>3. c = At(q, m + 1) <=> i = m + 1
    <3>1. CASE m + 1 \in 1..Len(q)
      <4>1. At(q, m + 1) = q[m + 1]
        BY <1>1, <3>1
      <4> QED BY <1>6, <3>1, <4>1
    <3>2. CASE m + 1 \notin 1..Len(q)
      <4>1. At(q, m + 1) = Null
        BY <1>5, <3>2
      <4> QED BY <2>1, <3>2, <4>1
    <3> QED BY <3>1, <3>2
  <2> HIDE DEF c
  <2>4. new[c] = IF i = m THEN [node[c] EXCEPT !.next = b]
                 ELSE IF i = m + 1 THEN [node[c] EXCEPT !.prev = b] ELSE node[c]
    BY <1>7, <2>1, <2>2, <2>3
  <2>5. i = m => i # m + 1
    OBVIOUS
  <2>6. /\ [node[c] EXCEPT !.next = b] \in LNodes /\ [node[c] EXCEPT !.next = b].next = b
        /\ [node[c] EXCEPT !.next = b].prev = node[c].prev
        /\ [node[c] EXCEPT !.next = b].data = node[c].data
        /\ [node[c] EXCEPT !.prev = b] \in LNodes /\ [node[c] EXCEPT !.prev = b].prev = b
        /\ [node[c] EXCEPT !.prev = b].next = node[c].next
        /\ [node[c] EXCEPT !.prev = b].data = node[c].data
    BY <2>1 DEF LNodes
  <2>7. /\ new[c].data = node[c].data /\ new[c] \in LNodes
        /\ new[c].next = IF i = m THEN b ELSE node[c].next
        /\ new[c].prev = IF i = m + 1 THEN b ELSE node[c].prev
    BY <2>1, <2>4, <2>5, <2>6
  <2> QED BY <2>1, <2>7 DEF c
<1>9. ASSUME NEW i \in 1..Len(r)
      PROVE  new[r[i]]["next"] = At(r, i + 1) /\ new[r[i]]["prev"] = At(r, i - 1)
  <2>1. i + 1 \in Nat /\ i - 1 \in Nat /\ i \in 1..(Len(q) + 1)
    BY <1>1, <1>3
  <2>2. CASE i < m + 1
    <3>1. i \in 1..Len(q) /\ i # m + 1 /\ i - 1 < m + 1 /\ (i + 1 < m + 1 <=> i # m)
          /\ (i + 1 = m + 1 <=> i = m)
      BY <1>1, <2>1, <2>2
    <3>2. r[i] = q[i] /\ At(r, i - 1) = At(q, i - 1)
      BY <1>3, <1>4, <2>1, <2>2, <3>1
    <3>3. At(r, i + 1) = IF i = m THEN b ELSE At(q, i + 1)
      BY <1>4, <2>1, <3>1
    <3>4. new[q[i]].next = IF i = m THEN b ELSE At(q, i + 1)
      BY <1>8, <3>1
    <3>5. new[q[i]].prev = At(q, i - 1)
      BY <1>8, <3>1
    <3> QED BY <3>2, <3>3, <3>4, <3>5
  <2>3. CASE i = m + 1
    <3>1. r[i] = b
      BY <1>3, <2>1, <2>3
    <3>2. ~(i + 1 < m + 1) /\ i + 1 # m + 1 /\ i - 1 < m + 1 /\ i - 1 = m /\ (i + 1) - 1 = m + 1
      BY <2>3
    <3>3. At(r, i + 1) = At(q, (i + 1) - 1)
      BY <1>4, <2>1, <3>2
    <3>4. At(r, i - 1) = At(q, i - 1)
      BY <1>4, <2>1, <3>2
    <3> QED BY <1>7, <3>1, <3>2, <3>3, <3>4
  <2>4. CASE i > m + 1
    <3>1. /\ i - 1 \in 1..Len(q) /\ i - 1 # m /\ (i - 1 = m + 1 <=> ~(i - 1 # m + 1))
          /\ ~(i + 1 < m + 1) /\ i + 1 # m + 1 /\ (i + 1) - 1 = i /\ (i - 1) + 1 = i
          /\ ~(i - 1 < m + 1) /\ ~(i < m + 1) /\ i # m + 1
      BY <1>1, <2>1, <2>4
    <3>2. r[i] = q[i - 1]
      BY <1>3, <2>1, <3>1
    <3>3. At(r, i + 1) = At(q, (i + 1) - 1)
      BY <1>4, <2>1, <3>1
    <3>4. At(r, i - 1) = IF i - 1 = m + 1 THEN b ELSE At(q, (i - 1) - 1)
      BY <1>4, <2>1, <3>1
    <3>5. /\ new[q[i - 1]].next = IF i - 1 = m THEN b ELSE At(q, (i - 1) + 1)
          /\ new[q[i - 1]].prev = IF i - 1 = m + 1 THEN b ELSE At(q, (i - 1) - 1)
      BY <1>8, <3>1
    <3> QED BY <3>1, <3>2, <3>3, <3>4, <3>5
  <2> QED BY <2>1, <2>2, <2>3, <2>4
<1>10. LChained(r, new)
  BY <1>3, <1>9 DEF LChained, IsChain
<1>11. \A c \in ToSet(q) : new[c].data = node[c].data /\ new[c] \in LNodes
  <2> TAKE c \in ToSet(q)
  <2>1. PICK i \in 1..Len(q) : c = q[i]
    BY <1>1, ElementFacts
  <2> QED BY <1>8, <2>1
<1>12. DataOf(r, new) = InsertAt(DataOf(q, node), m + 1, x)
  <2>1. q \in Seq(Blocks) /\ IsInjective(q) /\ new[b].data = x /\ m + 1 \in 1..(Len(q) + 1)
    BY <1>1, <1>7
  <2>2. \A c \in ToSet(q) : new[c].data = node[c].data
    BY <1>11
  <2>3. DataOf(r, new) = InsertAt(DataOf(q, node), m + 1, new[b].data)
    BY <2>1, <2>2, InsertedData
  <2> QED BY <2>1, <2>3
<1>13. ASSUME x \in Data PROVE LLinked(r, new)
  <2>1. new[b] \in LNodes
    BY <1>5, <1>7, <1>13 DEF LNodes
  <2>2. node \in [Blocks -> LNodes \cup {NoNode}] /\ ToSet(q) = {c \in Blocks : node[c] # NoNode}
    BY DEF LLinked
  <2>3. \A c \in Blocks : c \notin ToSet(q) /\ c # b => new[c] = NoNode
    <3> TAKE c \in Blocks
    <3> HAVE c \notin ToSet(q) /\ c # b
    <3>1. c # At(q, m) /\ c # At(q, m + 1)
      BY <1>1, <1>5, NullFacts
    <3> QED BY <1>7, <2>2, <3>1
  <2>4. new = [c \in Blocks |-> new[c]]
    BY DEF LInserted
  <2>5. \A c \in Blocks : new[c] \in LNodes \cup {NoNode}
    BY <1>11, <2>1, <2>3
  <2>6. new \in [Blocks -> LNodes \cup {NoNode}]
    BY <2>4, <2>5
  <2>7. ToSet(r) = {c \in Blocks : new[c] # NoNode}
    BY <1>1, <1>3, <1>11, <2>1, <2>3
  <2> QED BY <1>10, <2>6, <2>7 DEF LLinked
<1> QED BY <1>3, <1>10, <1>12, <1>13

-----------------------------------------------------------------------------
(* The walks of hev-list.c.                                                    *)

(* What a walk through the list q of hev-list.c may be.                        *)
LWalks(q) ==
  {w \in [node : [Blocks -> LNodes \cup {NoNode}], first : ToSet(q) \cup {Null}, gone : Seq(Blocks)] :
     /\ \A c \in ToSet(q) : /\ w.node[c] \in LNodes /\ w.node[c].next \in ToSet(q) \cup {Null}
                            /\ w.node[c].prev \in ToSet(q) \cup {Null}
                            /\ w.node[c].data = lnode[c].data
     /\ \A c \in Blocks \ ToSet(q) : w.node[c] = NoNode}

(* The parts of a walk.                                                        *)
LEMMA LWalkParts ==
  ASSUME NEW q, NEW w \in LWalks(q)
  PROVE  /\ w.node \in [Blocks -> LNodes \cup {NoNode}] /\ w.first \in ToSet(q) \cup {Null}
         /\ w.gone \in Seq(Blocks)
         /\ \A c \in ToSet(q) : /\ w.node[c] \in LNodes /\ w.node[c].next \in ToSet(q) \cup {Null}
                                /\ w.node[c].prev \in ToSet(q) \cup {Null}
                                /\ w.node[c].data = lnode[c].data
         /\ \A c \in Blocks \ ToSet(q) : w.node[c] = NoNode
BY DEF LWalks

(* The nodes before and after prev and next of a node point past it.           *)
LUnlinked(node, prev, next) ==
  [c \in Blocks |-> IF c = prev THEN [node[c] EXCEPT !.next = next]
                    ELSE IF c = next THEN [node[c] EXCEPT !.prev = prev] ELSE node[c]]

(* What LUnlink does to them.                                                  *)
LEMMA LUnlinkParts ==
  ASSUME NEW q \in Seq(Blocks), NEW w \in LWalks(q), NEW b \in ToSet(q), NEW v, v = LUnlink(w, b)
  PROVE  /\ v \in LWalks(q) /\ v.gone = Append(w.gone, b)
         /\ v.first = IF w.node[b].prev = Null THEN w.node[b].next ELSE w.first
         /\ v.node = LUnlinked(w.node, w.node[b].prev, w.node[b].next)
<1>1. ToSet(q) \subseteq Blocks /\ b \in Blocks /\ Null \notin Blocks
  BY AtFacts, NullFacts
<1> DEFINE g == Append(w.gone, b)
           prev == w.node[b].prev
           next == w.node[b].next
           node == w.node
           new == LUnlinked(node, prev, next)
           top == IF prev = Null THEN next ELSE w.first
<1>2. /\ node \in [Blocks -> LNodes \cup {NoNode}] /\ w.first \in ToSet(q) \cup {Null}
      /\ w.gone \in Seq(Blocks)
      /\ \A c \in ToSet(q) : /\ node[c] \in LNodes /\ node[c].next \in ToSet(q) \cup {Null}
                             /\ node[c].prev \in ToSet(q) \cup {Null}
                             /\ node[c].data = lnode[c].data
      /\ \A c \in Blocks \ ToSet(q) : node[c] = NoNode
  BY LWalkParts
<1>3. v = [node |-> new, first |-> top, gone |-> g]
  BY DEF LUnlink, LUnlinked
<1>4. g \in Seq(Blocks) /\ prev \in ToSet(q) \cup {Null} /\ next \in ToSet(q) \cup {Null}
  BY <1>1, <1>2
<1>5. v.node = new /\ v.first = top /\ v.gone = g
  BY <1>3
<1> HIDE DEF g, prev, next, node, new
<1>6. top \in ToSet(q) \cup {Null}
  BY <1>2, <1>4
<1> HIDE DEF top
<1>7. \A c \in Blocks : new[c] = IF c = prev THEN [node[c] EXCEPT !.next = next]
                                 ELSE IF c = next THEN [node[c] EXCEPT !.prev = prev] ELSE node[c]
  BY DEF new, LUnlinked
<1>8. ASSUME NEW c \in ToSet(q)
      PROVE  /\ new[c] \in LNodes /\ new[c].next \in ToSet(q) \cup {Null}
             /\ new[c].prev \in ToSet(q) \cup {Null} /\ new[c].data = lnode[c].data
  <2>1. node[c] \in LNodes /\ c \in Blocks /\ prev \in Blocks \cup {Null}
        /\ next \in Blocks \cup {Null}
    BY <1>1, <1>2, <1>4
  <2>2. /\ [node[c] EXCEPT !.next = next] \in LNodes /\ [node[c] EXCEPT !.next = next].next = next
        /\ [node[c] EXCEPT !.next = next].prev = node[c].prev
        /\ [node[c] EXCEPT !.next = next].data = node[c].data
        /\ [node[c] EXCEPT !.prev = prev] \in LNodes /\ [node[c] EXCEPT !.prev = prev].prev = prev
        /\ [node[c] EXCEPT !.prev = prev].next = node[c].next
        /\ [node[c] EXCEPT !.prev = prev].data = node[c].data
    BY <2>1 DEF LNodes
  <2> QED BY <1>2, <1>4, <1>7, <2>1, <2>2
<1>9. ASSUME NEW c \in Blocks \ ToSet(q) PROVE new[c] = NoNode
  <2>1. c # prev /\ c # next /\ node[c] = NoNode
    BY <1>1, <1>2, <1>4
  <2> QED BY <1>7, <2>1
<1>10. new \in [Blocks -> LNodes \cup {NoNode}]
  <2>1. new = [c \in Blocks |-> new[c]]
    BY DEF new, LUnlinked
  <2>2. \A c \in Blocks : new[c] \in LNodes \cup {NoNode}
    BY <1>8, <1>9
  <2> QED BY <2>1, <2>2
<1>11. v \in LWalks(q)
  BY <1>3, <1>4, <1>5, <1>6, <1>8, <1>9, <1>10 DEF LWalks
<1> QED BY <1>5, <1>11 DEF g, new, top, prev, next, node

(* Node r[k] leaves the list r of the walk w.                                  *)
LEMMA LUnlinkFacts ==
  ASSUME NEW q \in Seq(Blocks), NEW w \in LWalks(q), NEW r, LChained(r, w.node), w.first = At(r, 1),
         ToSet(r) \subseteq ToSet(q), NEW k \in 1..Len(r),
         NEW v, v = LUnlink(w, r[k]), NEW t, t = RemoveAt(r, k)
  PROVE  /\ v \in LWalks(q) /\ v.gone = Append(w.gone, r[k])
         /\ LChained(t, v.node) /\ v.first = At(t, 1)
<1> DEFINE node == w.node
           new == v.node
           b == r[k]
<1>1. /\ r \in Seq(Blocks) /\ IsInjective(r) /\ Len(r) \in Nat
      /\ \A i \in 1..Len(r) : node[r[i]]["next"] = At(r, i + 1) /\ node[r[i]]["prev"] = At(r, i - 1)
  BY DEF LChained, IsChain
<1>2. /\ b \in ToSet(q) /\ \A i \in 1..Len(r) : r[i] \in ToSet(q) /\ r[i] \in Blocks
      /\ \A i, j \in 1..Len(r) : r[i] = r[j] => i = j
  <2>1. /\ \A i \in 1..Len(r) : r[i] \in ToSet(r)
        /\ \A i, j \in 1..Len(r) : r[i] = r[j] => i = j
    BY <1>1, ElementFacts
  <2>2. \A i \in 1..Len(r) : r[i] \in Blocks
    BY <1>1
  <2> QED BY <2>1, <2>2
<1>3. /\ v \in LWalks(q) /\ v.gone = Append(w.gone, b)
      /\ v.first = IF At(r, k - 1) = Null THEN At(r, k + 1) ELSE w.first
      /\ new = LUnlinked(node, At(r, k - 1), At(r, k + 1))
  <2>1. node[b].next = At(r, k + 1) /\ node[b].prev = At(r, k - 1)
    BY <1>1
  <2>2. /\ v \in LWalks(q) /\ v.gone = Append(w.gone, b)
        /\ v.first = IF node[b].prev = Null THEN node[b].next ELSE w.first
        /\ new = LUnlinked(node, node[b].prev, node[b].next)
    BY <1>2, LUnlinkParts
  <2> QED BY <2>1, <2>2
<1>4. /\ t \in Seq(Blocks) /\ IsInjective(t) /\ Len(t) = Len(r) - 1
      /\ ToSet(t) = ToSet(r) \ {r[k]}
      /\ \A i \in 1..(Len(r) - 1) : t[i] = IF i < k THEN r[i] ELSE r[i + 1]
  <2>1. r \in Seq(Blocks) /\ IsInjective(r) /\ k \in 1..Len(r) /\ t = RemoveAt(r, k)
    BY <1>1
  <2>2. Dropped(r, k, t)
    BY ONLY <2>1, RemovedChain
  <2> QED BY <2>2 DEF Dropped
<1>5. \A i \in Nat : At(t, i) = IF i < k THEN At(r, i) ELSE At(r, i + 1)
  <2>1. r \in Seq(Blocks) /\ IsInjective(r)
    BY <1>1
  <2> QED BY <2>1, RemovedAt
<1>6. /\ \A i : At(r, i) \in Blocks \cup {Null} /\ (At(r, i) = Null <=> i \notin 1..Len(r))
      /\ \A i \in 1..Len(r) : At(r, i) = r[i] /\ r[i] # Null
  BY <1>1, <1>2, AtFacts, NullFacts
<1>7. \A c \in Blocks : new[c] = IF c = At(r, k - 1) THEN [node[c] EXCEPT !.next = At(r, k + 1)]
                                 ELSE IF c = At(r, k + 1) THEN [node[c] EXCEPT !.prev = At(r, k - 1)]
                                 ELSE node[c]
  BY <1>3 DEF LUnlinked
<1>8. ASSUME NEW i \in 1..Len(r), i # k
      PROVE  /\ new[r[i]].next = IF i = k - 1 THEN At(r, k + 1) ELSE At(r, i + 1)
             /\ new[r[i]].prev = IF i = k + 1 THEN At(r, k - 1) ELSE At(r, i - 1)
  <2> DEFINE c == r[i]
  <2>1. /\ c \in Blocks /\ node[c] \in LNodes /\ c = At(r, i) /\ c # Null
        /\ node[c].next = At(r, i + 1) /\ node[c].prev = At(r, i - 1)
    BY <1>1, <1>2, <1>6, LWalkParts
  <2>2. c = At(r, k - 1) <=> i = k - 1
    <3>1. CASE k - 1 \in 1..Len(r)
      <4>1. At(r, k - 1) = r[k - 1]
        BY <1>6, <3>1
      <4> QED BY <1>2, <3>1, <4>1
    <3>2. CASE k - 1 \notin 1..Len(r)
      <4>1. At(r, k - 1) = Null
        BY <1>6, <3>2
      <4> QED BY <2>1, <3>2, <4>1
    <3> QED BY <3>1, <3>2
  <2>3. c = At(r, k + 1) <=> i = k + 1
    <3>1. CASE k + 1 \in 1..Len(r)
      <4>1. At(r, k + 1) = r[k + 1]
        BY <1>6, <3>1
      <4> QED BY <1>2, <3>1, <4>1
    <3>2. CASE k + 1 \notin 1..Len(r)
      <4>1. At(r, k + 1) = Null
        BY <1>6, <3>2
      <4> QED BY <2>1, <3>2, <4>1
    <3> QED BY <3>1, <3>2
  <2> DEFINE prev == At(r, k - 1)
             next == At(r, k + 1)
  <2> HIDE DEF c, node, new
  <2>4. new[c] = IF i = k - 1 THEN [node[c] EXCEPT !.next = next]
                 ELSE IF i = k + 1 THEN [node[c] EXCEPT !.prev = prev] ELSE node[c]
    BY <1>7, <2>1, <2>2, <2>3
  <2> HIDE DEF prev, next
  <2>5. i = k - 1 => i # k + 1
    BY <1>1
  <2>6. /\ [node[c] EXCEPT !.next = next].next = next
        /\ [node[c] EXCEPT !.next = next].prev = node[c].prev
        /\ [node[c] EXCEPT !.prev = prev].prev = prev
        /\ [node[c] EXCEPT !.prev = prev].next = node[c].next
    BY <2>1 DEF LNodes
  <2>7. /\ new[c].next = IF i = k - 1 THEN next ELSE node[c].next
        /\ new[c].prev = IF i = k + 1 THEN prev ELSE node[c].prev
    BY <2>4, <2>5, <2>6
  <2> QED BY <2>1, <2>7 DEF c, prev, next
<1> HIDE DEF node, new
<1>9. ASSUME NEW i \in 1..Len(t)
      PROVE  new[t[i]]["next"] = At(t, i + 1) /\ new[t[i]]["prev"] = At(t, i - 1)
  <2>1. i \in 1..(Len(r) - 1) /\ i \in 1..Len(r) /\ i + 1 \in 1..Len(r) /\ i + 1 \in Nat
        /\ i - 1 \in Nat
    BY <1>1, <1>4
  <2>2. CASE i < k
    <3>1. i # k /\ i # k + 1 /\ i - 1 < k /\ (i + 1 < k <=> i # k - 1)
          /\ (i = k - 1 => (i + 1) + 1 = k + 1)
      BY <2>1, <2>2
    <3>2. t[i] = r[i] /\ At(t, i - 1) = At(r, i - 1)
      BY <1>4, <1>5, <2>1, <2>2, <3>1
    <3>3. At(t, i + 1) = IF i + 1 < k THEN At(r, i + 1) ELSE At(r, (i + 1) + 1)
      BY <1>5, <2>1
    <3>4. /\ new[r[i]].next = IF i = k - 1 THEN At(r, k + 1) ELSE At(r, i + 1)
          /\ new[r[i]].prev = IF i = k + 1 THEN At(r, k - 1) ELSE At(r, i - 1)
      BY <1>8, <2>1, <3>1
    <3> QED BY <3>1, <3>2, <3>3, <3>4
  <2>3. CASE ~(i < k)
    <3>1. /\ i + 1 # k /\ i + 1 # k - 1 /\ ~(i + 1 < k) /\ (i - 1 < k <=> i + 1 = k + 1)
          /\ (i + 1 = k + 1 => i - 1 = k - 1) /\ (i - 1) + 1 = i /\ (i + 1) - 1 = i
      BY <2>1, <2>3
    <3>2. t[i] = r[i + 1] /\ At(t, i + 1) = At(r, (i + 1) + 1)
      BY <1>4, <1>5, <2>1, <2>3, <3>1
    <3>3. At(t, i - 1) = IF i - 1 < k THEN At(r, i - 1) ELSE At(r, (i - 1) + 1)
      BY <1>5, <2>1
    <3>4. /\ new[r[i + 1]].next = IF i + 1 = k - 1 THEN At(r, k + 1) ELSE At(r, (i + 1) + 1)
          /\ new[r[i + 1]].prev = IF i + 1 = k + 1 THEN At(r, k - 1) ELSE At(r, (i + 1) - 1)
      BY <1>8, <2>1, <3>1
    <3> QED BY <3>1, <3>2, <3>3, <3>4
  <2> QED BY <2>2, <2>3
<1>10. At(t, 1) = v.first
  <2>1. At(t, 1) = IF 1 < k THEN At(r, 1) ELSE At(r, 1 + 1)
    BY <1>5
  <2>2. At(r, k - 1) = Null <=> ~(1 < k)
    <3>1. k - 1 \notin 1..Len(r) <=> ~(1 < k)
      BY <1>1
    <3> QED BY <1>6, <3>1
  <2>3. ~(1 < k) => 1 + 1 = k + 1
    BY <1>1
  <2> QED BY <1>3, <2>1, <2>2, <2>3
<1>11. LChained(t, new)
  BY <1>4, <1>9 DEF LChained, IsChain
<1> QED BY <1>3, <1>10, <1>11 DEF new

(* The list of hev-list.c is listed.                                           *)
LEMMA LListed ==
  ASSUME NEW q, NEW node, LLinked(q, node)
  PROVE  Listed(q, node)
BY LNodeFacts DEF Listed

(* A walk starts with the list as it is.                                       *)
LEMMA LWalkStarts ==
  ASSUME NEW q, LLinked(q, lnode), HeldIn(q, list)
  PROVE  /\ LWalk \in LWalks(q)
         /\ LWalk.node = lnode /\ LWalk.first = At(q, 1) /\ LWalk.gone = <<>>
<1>1. LWalk = [node |-> lnode, first |-> LFirst, gone |-> <<>>]
  BY DEF LWalk
<1>2. LFirst = At(q, 1)
  <2>1. LChained(q, lnode)
    BY DEF LLinked
  <2> QED BY <2>1, FirstFacts DEF LFirst
<1>3. /\ lnode \in [Blocks -> LNodes \cup {NoNode}] /\ <<>> \in Seq(Blocks)
      /\ \A c \in Blocks \ ToSet(q) : lnode[c] = NoNode
  BY DEF LLinked
<1>4. /\ q \in Seq(Blocks)
      /\ \A n \in 1..Len(q) : lnode[q[n]].next = At(q, n + 1) /\ lnode[q[n]].prev = At(q, n - 1)
  BY DEF LLinked, LChained, IsChain
<1>5. \A n : At(q, n) \in ToSet(q) \cup {Null}
  BY <1>4, ElementFacts DEF At
<1>6. \A c \in ToSet(q) : /\ lnode[c] \in LNodes /\ lnode[c].next \in ToSet(q) \cup {Null}
                          /\ lnode[c].prev \in ToSet(q) \cup {Null}
  <2> TAKE c \in ToSet(q)
  <2>1. PICK n \in 1..Len(q) : c = q[n]
    BY <1>4, ElementFacts
  <2>2. lnode[c] \in LNodes
    BY LNodeFacts
  <2>3. lnode[c].next = At(q, n + 1) /\ lnode[c].prev = At(q, n - 1)
    BY <1>4, <2>1
  <2> QED BY <1>5, <2>2, <2>3
<1>7. LWalk \in LWalks(q)
  BY <1>1, <1>2, <1>3, <1>5, <1>6 DEF LWalks
<1> QED BY <1>1, <1>2, <1>7

(* A walk stays one of the list.                                               *)
LEMMA LVisitType ==
  ASSUME NEW q \in Seq(Blocks), NEW w \in LWalks(q), NEW b \in ToSet(q), NEW x, NEW everywhere
  PROVE  LVisit(w, b, x, everywhere) \in LWalks(q)
<1>1. LUnlink(w, b) \in LWalks(q)
  BY LUnlinkParts
<1> QED BY <1>1 DEF LVisit

(* The walk w over q has seen n nodes, and r is linked now.                    *)
LWalked(q, x, everywhere, n, w, r) ==
  /\ w \in LWalks(q) /\ LChained(r, w.node) /\ w.first = At(r, 1)
  /\ Progress(q, lnode, x, everywhere, n, r, w.gone)

(* One step of the walk of hev_list_remove and hev_list_remove_all.            *)
LEMMA LVisitFacts ==
  ASSUME NEW q, Listed(q, lnode), NEW x, NEW everywhere \in BOOLEAN, NEW n \in 0..(Len(q) - 1),
         NEW w, NEW r, LWalked(q, x, everywhere, n, w, r),
         NEW v, v = LVisit(w, q[n + 1], x, everywhere)
  PROVE  \E t : LWalked(q, x, everywhere, n + 1, v, t)
<1> DEFINE b == q[n + 1]
           g == Len(w.gone)
           k == n + 1 - g
<1>1. /\ w \in LWalks(q) /\ LChained(r, w.node) /\ w.first = At(r, 1)
      /\ Progress(q, lnode, x, everywhere, n, r, w.gone) /\ q \in Seq(Blocks)
  BY DEF LWalked, Listed
<1>2. /\ r \in Seq(Blocks) /\ ToSet(r) \subseteq ToSet(q) /\ g \in 0..n /\ w.gone \in Seq(Blocks)
      /\ Scanned(q, n, r, w.gone)
  BY <1>1 DEF Progress, Scanned
<1>3. k \in 1..Len(r) /\ r[k] = b /\ b \in ToSet(q) /\ b \in Blocks
  <2>1. NextAt(q, n, r, n + 1 - Len(w.gone))
    BY <1>1, <1>2, ScanNext
  <2> QED BY <2>1 DEF NextAt
<1>4. CASE lnode[b].data = x /\ (everywhere \/ w.gone = <<>>)
  <2> DEFINE t == RemoveAt(r, k)
  <2>1. v = LUnlink(w, b)
    BY <1>4 DEF LVisit
  <2>2. Progress(q, lnode, x, everywhere, n + 1, t, Append(w.gone, b))
    BY <1>1, <1>4, VisitUnlink
  <2>3. t = RemoveAt(r, k) /\ v = LUnlink(w, r[k])
    BY <1>3, <2>1
  <2> HIDE DEF t, k, g
  <2>4. /\ v \in LWalks(q) /\ v.gone = Append(w.gone, r[k])
        /\ LChained(t, v.node) /\ v.first = At(t, 1)
    BY <1>1, <1>2, <1>3, <2>3, LUnlinkFacts
  <2>5. LWalked(q, x, everywhere, n + 1, v, t)
    BY <1>3, <2>2, <2>4 DEF LWalked
  <2> QED BY <2>5
<1>5. CASE ~(lnode[b].data = x /\ (everywhere \/ w.gone = <<>>))
  <2>1. v = w
    BY <1>5 DEF LVisit
  <2>2. Progress(q, lnode, x, everywhere, n + 1, r, w.gone)
    BY <1>1, <1>5, VisitPass
  <2>3. LWalked(q, x, everywhere, n + 1, v, r)
    BY <1>1, <2>1, <2>2 DEF LWalked
  <2> QED BY <2>3
<1> QED BY <1>4, <1>5

LScanTo(f, q, x, everywhere) ==
  f = [n \in 0..Len(q) |-> IF n = 0 THEN LWalk ELSE LVisit(f[n - 1], q[n], x, everywhere)]

(* The function in LScan exists.                                               *)
LEMMA LScanExists ==
  ASSUME NEW q, LLinked(q, lnode), HeldIn(q, list), NEW x, NEW everywhere
  PROVE  \E f : LScanTo(f, q, x, everywhere)
<1> DEFINE N == Len(q)
           X == LWalks(q)
           base == LWalk
           step == [p \in (1..N) \X X |-> LVisit(p[2], q[p[1]], x, everywhere)]
<1>1. N \in Nat /\ \A m \in 1..N : q[m] \in ToSet(q)
  BY LNodeFacts
<1>2. base \in X
  BY LWalkStarts
<1>3. q \in Seq(Blocks)
  BY LNodeFacts
<1>4. \A w \in X, b \in ToSet(q) : LVisit(w, b, x, everywhere) \in X
  BY <1>3, LVisitType
<1> HIDE DEF N, X, base
<1>5. step \in [(1..N) \X X -> X]
  BY <1>1, <1>4
<1>6. \A m \in 1..N, w \in X : step[<<m, w>>] = LVisit(w, q[m], x, everywhere)
  OBVIOUS
<1> HIDE DEF step
<1>7. PICK f \in [0..N -> X] : Unfolds(f, base, step, N)
  BY <1>1, <1>2, <1>5, Recursion
<1>8. \A m \in 0..N : f[m] = IF m = 0 THEN base ELSE LVisit(f[m - 1], q[m], x, everywhere)
  <2> TAKE m \in 0..N
  <2>1. CASE m = 0
    BY <1>7, <2>1 DEF Unfolds
  <2>2. CASE m # 0
    <3>1. m \in 1..N /\ f[m - 1] \in X
      BY <1>1, <1>7, <2>2
    <3> QED BY <1>6, <1>7, <2>2, <3>1 DEF Unfolds
  <2> QED BY <2>1, <2>2
<1>9. f = [m \in 0..N |-> f[m]]
  BY <1>7
<1>10. f = [m \in 0..N |-> IF m = 0 THEN base ELSE LVisit(f[m - 1], q[m], x, everywhere)]
  BY <1>8, <1>9
<1> QED BY <1>10 DEF LScanTo, N, base

(* The whole walk of hev_list_remove and hev_list_remove_all.                  *)
LEMMA LScanFacts ==
  ASSUME NEW q, LLinked(q, lnode), HeldIn(q, list), NEW x, NEW everywhere \in BOOLEAN,
         NEW w, w = LScan(q, x, everywhere)
  PROVE  \E r : LWalked(q, x, everywhere, Len(q), w, r)
<1> DEFINE N == Len(q)
           f == CHOOSE f : LScanTo(f, q, x, everywhere)
           Good == {n \in 0..N : \E r : LWalked(q, x, everywhere, n, f[n], r)}
<1>1. N \in Nat /\ q \in Seq(Blocks) /\ IsInjective(q) /\ Listed(q, lnode)
  BY LNodeFacts, LListed
<1>2. LScanTo(f, q, x, everywhere)
  BY LScanExists
<1>3. w = f[N]
  BY DEF LScan, LScanTo
<1> HIDE DEF f
<1>4. f = [n \in 0..N |-> IF n = 0 THEN LWalk ELSE LVisit(f[n - 1], q[n], x, everywhere)]
  BY <1>2 DEF LScanTo
<1> HIDE DEF N
<1>5. 0 \in Good
  <2>1. f[0] = LWalk /\ 0 \in 0..N
    BY <1>1, <1>4
  <2>2. Progress(q, lnode, x, everywhere, 0, q, <<>>)
    BY <1>1, VisitStart
  <2>3. LWalk \in LWalks(q) /\ LWalk.node = lnode /\ LWalk.first = At(q, 1) /\ LWalk.gone = <<>>
    BY LWalkStarts
  <2>4. LChained(q, lnode)
    BY DEF LLinked
  <2>5. LWalked(q, x, everywhere, 0, LWalk, q)
    BY <2>2, <2>3, <2>4 DEF LWalked
  <2> QED BY <2>1, <2>5
<1>6. ASSUME NEW n \in 0..(N - 1), n \in Good PROVE n + 1 \in Good
  <2>1. n + 1 \in 0..N /\ n + 1 # 0 /\ (n + 1) - 1 = n
    BY <1>1
  <2>2. f[n + 1] = LVisit(f[n], q[n + 1], x, everywhere)
    <3>1. f[n + 1] = IF n + 1 = 0 THEN LWalk ELSE LVisit(f[(n + 1) - 1], q[n + 1], x, everywhere)
      BY <1>4, <2>1
    <3> QED BY <2>1, <3>1
  <2>3. PICK r : LWalked(q, x, everywhere, n, f[n], r)
    BY <1>6
  <2>4. \E t : LWalked(q, x, everywhere, n + 1, f[n + 1], t)
    BY <1>1, <2>2, <2>3, LVisitFacts DEF N
  <2> QED BY <2>1, <2>4
<1> HIDE DEF Good
<1>7. N \in Good
  <2>1. \A n \in 0..N : n \in Good
    BY <1>1, <1>5, <1>6, Upwards
  <2> QED BY <1>1, <2>1
<1> QED BY <1>3, <1>7 DEF Good, N

(* What is left when the nodes the walk unlinked are freed.                    *)
LEMMA LRemovedFacts ==
  ASSUME NEW q \in Seq(Blocks), NEW w \in LWalks(q), NEW r, LChained(r, w.node),
         ToSet(r) \cap ToSet(w.gone) = {}, ToSet(r) \cup ToSet(w.gone) = ToSet(q),
         NEW new, new = [b \in Blocks |-> IF b \in ToSet(w.gone) THEN NoNode ELSE w.node[b]]
  PROVE  LLinked(r, new) /\ DataOf(r, new) = DataOf(r, lnode)
<1>1. /\ w.node \in [Blocks -> LNodes \cup {NoNode}]
      /\ \A c \in ToSet(q) : w.node[c] \in LNodes /\ w.node[c].data = lnode[c].data
      /\ \A c \in Blocks \ ToSet(q) : w.node[c] = NoNode
  BY LWalkParts
<1>2. /\ r \in Seq(Blocks) /\ IsInjective(r)
      /\ \A n \in 1..Len(r) : w.node[r[n]]["next"] = At(r, n + 1) /\ w.node[r[n]]["prev"] = At(r, n - 1)
  BY DEF LChained, IsChain
<1>3. ToSet(r) \subseteq Blocks /\ ToSet(q) \subseteq Blocks
      /\ \A n \in 1..Len(r) : r[n] \in ToSet(r)
  BY <1>2, AtFacts, ElementFacts
<1>4. \A c \in ToSet(r) : new[c] = w.node[c]
  BY <1>3
<1>5. LChained(r, new)
  BY <1>2, <1>3, <1>4 DEF LChained, IsChain
<1>6. new \in [Blocks -> LNodes \cup {NoNode}]
  BY <1>1
<1>7. ToSet(r) = {b \in Blocks : new[b] # NoNode}
  BY <1>1, <1>3, <1>4, ListAssumption
<1>8. DataOf(r, new) = DataOf(r, lnode)
  <2>1. DOMAIN r = 1..Len(r) /\ \A n \in 1..Len(r) : new[r[n]].data = lnode[r[n]].data
    BY <1>1, <1>2, <1>3, <1>4
  <2> QED BY <2>1 DEF DataOf
<1> QED BY <1>5, <1>6, <1>7, <1>8 DEF LLinked

-----------------------------------------------------------------------------
(* The invariant.                                                              *)

SInv ==
  /\ slist \in Blocks \cup {Null, Wild}
  /\ \A b \in Blocks : snode[b] # NoNode => live[b] = "slist"
  /\ slist # Wild => SLinked(SChain, slist, snode)

LInv ==
  /\ \A b \in Blocks : lnode[b] # NoNode => live[b] = "list"
  /\ LLinked(LChain, lnode) /\ HeldIn(LChain, list)

MInv == AInv /\ SInv /\ LInv

(* The blocks that are nodes of the one list, or of the other, stay in use.    *)
SKept == \A b \in Blocks : snode[b] # NoNode => live'[b] = live[b]
LKept == \A b \in Blocks : lnode[b] # NoNode => live'[b] = live[b]

(* Nodes of the two lists have different sizes.                                *)
LEMMA SizeFacts == "slist" \in AllSizes /\ "list" \in AllSizes /\ NotLive \notin AllSizes
  /\ "slist" # "list" /\ "slist" # NotLive /\ "list" # NotLive
BY NodesAssumption, SizesAssumption DEF AllSizes, NotLive

(* What the list of hev-slist.c is after a step that leaves the chain q.       *)
LEMMA SChainNext ==
  ASSUME slist' # Wild, NEW q, IsChain(q, slist', snode', "next")
  PROVE  SChain' = q /\ SItems' = DataOf(q, snode')
<1>1. Walk(slist', snode', "next") = q
  BY WalkIsChain
<1>2. SChain' = q
  BY <1>1 DEF SChain
<1>3. SItems' = DataOf(SChain', snode')
  BY DEF SItems, DataOf
<1> QED BY <1>2, <1>3

(* What the list of hev-list.c is after a step that leaves the chain q.        *)
LEMMA LChainNext ==
  ASSUME NEW q, LChained(q, lnode'), HeldIn(q, list')
  PROVE  LChain' = q /\ LItems' = DataOf(q, lnode')
<1>1. LastOf(Walk(list', lnode', "prev")) = At(q, 1) /\ Walk(At(q, 1), lnode', "next") = q
  BY FirstFacts
<1>2. LFirst' = At(q, 1)
  BY <1>1 DEF LFirst
<1>3. LChain' = q
  BY <1>1, <1>2 DEF LChain
<1>4. LItems' = DataOf(LChain', lnode')
  BY DEF LItems, DataOf
<1> QED BY <1>3, <1>4

(* A step that leaves a well linked chain keeps the invariant.                 *)
LEMMA SInvNext ==
  ASSUME slist' # Wild, NEW q, SLinked(q, slist', snode'),
         \A b \in Blocks : snode'[b] # NoNode => live'[b] = "slist"
  PROVE  SInv'
<1>1. IsChain(q, slist', snode', "next")
  BY DEF SLinked
<1>2. SChain' = q
  BY <1>1, SChainNext
<1>3. slist' \in Blocks \cup {Null}
  <2>1. q \in Seq(Blocks) /\ slist' = At(q, 1)
    BY <1>1 DEF IsChain
  <2> QED BY <2>1, AtFacts
<1>4. SLinked(SChain, slist, snode)'
  BY <1>2 DEF SLinked, IsChain, At, ToSet, IsInjective
<1> QED BY <1>3, <1>4 DEF SInv

(* The same of hev-list.c.                                                     *)
LEMMA LInvNext ==
  ASSUME NEW q, LLinked(q, lnode'), HeldIn(q, list'),
         \A b \in Blocks : lnode'[b] # NoNode => live'[b] = "list"
  PROVE  LInv'
<1>1. LChained(q, lnode')
  BY DEF LLinked
<1>2. LChain' = q
  BY <1>1, LChainNext
<1>3. LLinked(LChain, lnode)' /\ HeldIn(LChain, list)'
  BY <1>2 DEF LLinked, LChained, IsChain, At, ToSet, IsInjective, HeldIn
<1> QED BY <1>3 DEF LInv

(* A step that leaves the nodes alone keeps the invariant.                     *)
LEMMA SUnchanged ==
  ASSUME SInv, UNCHANGED slist_vars, SKept
  PROVE  SInv'
<1>1. slist' = slist /\ snode' = snode
  BY DEF slist_vars
<1>2. \A b \in Blocks : snode'[b] # NoNode => live'[b] = "slist"
  BY <1>1 DEF SInv, SKept
<1>3. CASE slist # Wild
  <2>1. SLinked(SChain, slist', snode')
    BY <1>1, <1>3 DEF SInv
  <2> QED BY <1>1, <1>2, <1>3, <2>1, SInvNext
<1>4. CASE slist = Wild
  BY <1>1, <1>2, <1>4 DEF SInv
<1> QED BY <1>3, <1>4

(* The same of hev-list.c.                                                     *)
LEMMA LUnchanged ==
  ASSUME LInv, UNCHANGED list_vars, LKept
  PROVE  LInv'
<1>1. list' = list /\ lnode' = lnode
  BY DEF list_vars
<1>2. \A b \in Blocks : lnode'[b] # NoNode => live'[b] = "list"
  BY <1>1 DEF LInv, LKept
<1>3. LLinked(LChain, lnode') /\ HeldIn(LChain, list')
  BY <1>1 DEF LInv
<1> QED BY <1>2, <1>3, LInvNext

-----------------------------------------------------------------------------
(* What the calls of hev-slist.c do, said of the chain.                        *)

(* The list of hev-slist.c while it is not lost.                               *)
LEMMA SListFacts ==
  ASSUME SInv, slist # Wild
  PROVE  /\ SLinked(SChain, slist, snode) /\ IsChain(SChain, slist, snode, "next")
         /\ SChain \in Seq(Blocks) /\ IsInjective(SChain) /\ Len(SChain) \in Nat
         /\ ToSet(SChain) = {b \in Blocks : snode[b] # NoNode}
         /\ ToSet(SChain) \subseteq Live
         /\ slist = At(SChain, 1) /\ \A n \in 1..Len(SChain) : snode[SChain[n]].next = At(SChain, n + 1)
<1>1. SLinked(SChain, slist, snode)
  BY DEF SInv
<1>2. ToSet(SChain) = {b \in Blocks : snode[b] # NoNode} /\ IsChain(SChain, slist, snode, "next")
  BY <1>1 DEF SLinked
<1>3. ToSet(SChain) \subseteq Live
  BY <1>2, SizeFacts DEF SInv, Live
<1>4. SChain \in Seq(Blocks) /\ IsInjective(SChain) /\ Len(SChain) \in Nat
  BY <1>1, SNodeFacts
<1>5. slist = At(SChain, 1) /\ \A n \in 1..Len(SChain) : snode[SChain[n]].next = At(SChain, n + 1)
  BY <1>2 DEF IsChain
<1> QED BY <1>1, <1>2, <1>3, <1>4, <1>5

(* An insertion behind the m-th node.                                          *)
LEMMA SInsertStep ==
  ASSUME MInv, NEW x, NEW b, NEW m \in 0..Len(SChain),
         SInsert(x, b, At(SChain, m), At(SChain, m + 1))
  PROVE  /\ SItems' = InsertAt(SItems, m + 1, x)
         /\ AInv' /\ LKept /\ (x \in Data => SInv')
<1> DEFINE q == SChain
           r == InsertAt(q, m + 1, b)
           new == SInserted(snode, x, b, At(q, m), At(q, m + 1))
           top == IF At(q, m) = Null THEN b ELSE slist
<1>1. AInv /\ SInv /\ LInv /\ slist # Wild /\ Alloc("slist", b)
  BY DEF MInv, SInsert
<1>2. AInv' /\ b \in Blocks \ Live /\ live' = [live EXCEPT ![b] = "slist"]
  BY <1>1, SizeFacts, AllocFacts
<1>3. live \in [Blocks -> AllSizes \cup {NotLive}]
  BY <1>1 DEF AInv, TypeOK
<1>4. /\ SLinked(q, slist, snode) /\ ToSet(q) \subseteq Live
      /\ q \in Seq(Blocks) /\ ToSet(q) = {c \in Blocks : snode[c] # NoNode}
  BY <1>1, SListFacts
<1>5. b \in Blocks /\ b \notin ToSet(q)
  BY <1>2, <1>4
<1>6. snode' = new /\ slist' = top
  BY DEF SInsert, SInserted
<1>7. LKept
  BY <1>1, <1>2, <1>3, SizeFacts DEF LKept, LInv, Live
<1> HIDE DEF q, new, top, r
<1>8. /\ IsChain(r, top, new, "next")
      /\ x \in Data => SLinked(r, top, new)
      /\ DataOf(r, new) = InsertAt(DataOf(q, snode), m + 1, x)
  <2>1. m \in 0..Len(q)
    BY DEF q
  <2>2. new = SInserted(snode, x, b, At(q, m), At(q, m + 1)) /\ r = InsertAt(q, m + 1, b)
    BY DEF new, r
  <2>3. top = IF At(q, m) = Null THEN b ELSE slist
    BY DEF top
  <2>4. /\ SLinked(q, slist, snode) /\ m \in 0..Len(q) /\ b \in Blocks /\ b \notin ToSet(q)
        /\ new = SInserted(snode, x, b, At(q, m), At(q, m + 1))
        /\ top = (IF At(q, m) = Null THEN b ELSE slist) /\ r = InsertAt(q, m + 1, b)
    BY <1>4, <1>5, <2>1, <2>2, <2>3
  <2> QED BY ONLY <2>4, SInsertedFacts
<1>9. slist' # Wild
  BY <1>1, <1>5, <1>6, SListAssumption DEF top
<1>10. SItems' = InsertAt(SItems, m + 1, x)
  <2>1. SItems' = DataOf(r, snode')
    BY <1>6, <1>8, <1>9, SChainNext
  <2> QED BY <1>6, <1>8, <2>1 DEF SItems, q
<1>11. ASSUME x \in Data PROVE SInv'
  <2>1. SLinked(r, slist', snode')
    BY <1>6, <1>8, <1>11
  <2>2. \A c \in Blocks : snode'[c] # NoNode => live'[c] = "slist"
    <3>1. ToSet(r) = {c \in Blocks : snode'[c] # NoNode} /\ ToSet(r) = ToSet(q) \cup {b}
      <4>1. q \in Seq(Blocks) /\ IsInjective(q) /\ m \in 0..Len(q)
        BY <1>4, SNodeFacts DEF q
      <4>2. r = InsertAt(q, m + 1, b)
        BY DEF r
      <4>3. ToSet(r) = ToSet(q) \cup {b}
        BY ONLY <1>5, <4>1, <4>2, InsertedChain
      <4> QED BY <2>1, <4>3 DEF SLinked
    <3>2. \A c \in ToSet(q) : live[c] = "slist"
      BY <1>1, <1>4 DEF SInv
    <3> QED BY <1>2, <1>3, <3>1, <3>2
  <2> QED BY <1>9, <2>1, <2>2, SInvNext
<1> QED BY <1>2, <1>7, <1>10, <1>11

-----------------------------------------------------------------------------
(* The steps of hev-slist.c.                                                   *)

(* Freeing nodes of the one list keeps the other list's.                       *)
LEMMA SFreed ==
  ASSUME MInv, slist # Wild, NEW bs \in Seq(Blocks), IsInjective(bs), ToSet(bs) \subseteq ToSet(SChain),
         FreeEach(bs)
  PROVE  /\ AInv' /\ LKept
         /\ \A c \in ToSet(SChain) \ ToSet(bs) : live'[c] = "slist"
<1>1. AInv /\ SInv /\ LInv
  BY DEF MInv
<1>2. ToSet(SChain) = {c \in Blocks : snode[c] # NoNode} /\ ToSet(SChain) \subseteq Live
  BY <1>1, SListFacts
<1>3. ToSet(bs) \subseteq Live
  BY <1>2
<1>4. AInv'
  BY <1>1, <1>3, FreeEachFacts
<1>5. \A c \in Blocks : live'[c] = IF c \in ToSet(bs) THEN NotLive ELSE live[c]
  BY DEF FreeEach
<1>6. \A c \in ToSet(SChain) : c \in Blocks /\ live[c] = "slist"
  BY <1>1, <1>2 DEF SInv
<1>7. LKept
  <2>1. SUFFICES ASSUME NEW c \in Blocks, lnode[c] # NoNode PROVE live'[c] = live[c]
    BY DEF LKept
  <2>2. live[c] = "list"
    BY <1>1, <2>1 DEF LInv
  <2>3. c \notin ToSet(bs)
    BY <1>6, <2>2, SizeFacts
  <2> QED BY <1>5, <2>3
<1> QED BY <1>4, <1>5, <1>6, <1>7

(* A walk that removed nodes leaves a list of the others.                      *)
LEMMA SRemovedStep ==
  ASSUME MInv, NEW w \in SWalks(SChain), NEW r, IsChain(r, w.head, w.node, "next"),
         ToSet(r) \cap ToSet(w.gone) = {}, ToSet(r) \cup ToSet(w.gone) = ToSet(SChain),
         IsInjective(w.gone), SRemoved(w)
  PROVE  AInv' /\ LKept /\ SInv' /\ SItems' = DataOf(r, snode)
<1>1. slist # Wild /\ FreeEach(w.gone) /\ slist' = w.head
      /\ snode' = [b \in Blocks |-> IF b \in ToSet(w.gone) THEN NoNode ELSE w.node[b]]
  BY DEF SRemoved
<1>2. SChain \in Seq(Blocks)
  BY <1>1, SListFacts DEF MInv
<1>3. w.gone \in Seq(Blocks) /\ w.head \in ToSet(SChain) \cup {Null}
  BY SWalkParts
<1>4. AInv' /\ LKept /\ \A c \in ToSet(SChain) \ ToSet(w.gone) : live'[c] = "slist"
  <2>1. ToSet(w.gone) \subseteq ToSet(SChain)
    OBVIOUS
  <2> QED BY <1>1, <1>3, <2>1, SFreed
<1>5. SLinked(r, w.head, snode') /\ DataOf(r, snode') = DataOf(r, snode)
  BY <1>1, <1>2, SRemovedFacts
<1>6. slist' # Wild
  BY <1>1, <1>2, <1>3, AtFacts, SListAssumption
<1>7. SLinked(r, slist', snode') /\ IsChain(r, slist', snode', "next")
  BY <1>1, <1>5 DEF SLinked
<1>8. \A b \in Blocks : snode'[b] # NoNode => live'[b] = "slist"
  <2>1. ToSet(r) = {b \in Blocks : snode'[b] # NoNode}
    BY <1>7 DEF SLinked
  <2>2. ToSet(r) \subseteq ToSet(SChain) \ ToSet(w.gone)
    OBVIOUS
  <2> QED BY <1>4, <2>1, <2>2
<1>9. SInv'
  BY <1>6, <1>7, <1>8, SInvNext
<1>10. SItems' = DataOf(r, snode')
  BY <1>6, <1>7, SChainNext
<1> QED BY <1>4, <1>5, <1>9, <1>10

(* A whole walk that removes x, once or everywhere.                            *)
LEMMA SScanStep ==
  ASSUME MInv, NEW x, NEW everywhere \in BOOLEAN, SRemoved(SScan(SChain, x, everywhere))
  PROVE  /\ AInv' /\ LKept /\ SInv'
         /\ SItems' = Rid(SItems, x, everywhere)
<1> DEFINE q == SChain
           w == SScan(q, x, everywhere)
<1>1. slist # Wild
  BY DEF SRemoved
<1>2. SLinked(q, slist, snode)
  BY <1>1, SListFacts DEF MInv
<1>3. SRemoved(w)
  OBVIOUS
<1> HIDE DEF w, q
<1>4. PICK r : SWalked(q, x, everywhere, Len(q), w, r)
  <2>1. SLinked(q, slist, snode) /\ w = SScan(q, x, everywhere)
    BY <1>2 DEF w
  <2>2. \E r : SWalked(q, x, everywhere, Len(q), w, r)
    BY <2>1, SScanFacts
  <2> QED BY <2>2
<1>5. /\ w \in SWalks(q) /\ IsChain(r, w.head, w.node, "next")
      /\ Progress(q, snode, x, everywhere, Len(q), r, w.gone)
  BY <1>4 DEF SWalked
<1>6. ToSet(r) \cap ToSet(w.gone) = {} /\ ToSet(r) \cup ToSet(w.gone) = ToSet(q)
      /\ IsInjective(w.gone)
  BY <1>5 DEF Progress, Scanned
<1>7. AInv' /\ LKept /\ SInv' /\ SItems' = DataOf(r, snode)
  BY <1>3, <1>5, <1>6, SRemovedStep DEF q
<1>8. Listed(q, snode)
  BY <1>2, SListed
<1>9. DataOf(r, snode) = Rid(DataOf(q, snode), x, everywhere)
  BY <1>5, <1>8, VisitEnd
<1> QED BY <1>7, <1>9 DEF SItems, q

(* hev_slist_remove.                                                           *)
LEMMA SRemoveStep ==
  ASSUME MInv, NEW x, SListRemove(x)
  PROVE  AInv' /\ LKept /\ SInv' /\ SItems' = RemoveFirst(SItems, x)
BY SScanStep DEF SListRemove, Rid

(* hev_slist_remove_all.                                                       *)
LEMMA SRemoveAllStep ==
  ASSUME MInv, NEW x, SListRemoveAll(x)
  PROVE  AInv' /\ LKept /\ SInv' /\ SItems' = Without(SItems, x)
BY SScanStep DEF SListRemoveAll, Rid

(* The data of the list of hev-slist.c.                                        *)
LEMMA SItemsFacts ==
  ASSUME SInv, slist # Wild
  PROVE  /\ SItems \in Seq(Data) /\ Len(SItems) = Len(SChain) /\ DOMAIN SItems = 1..Len(SChain)
         /\ \A i \in 1..Len(SChain) : SItems[i] = snode[SChain[i]].data
         /\ \A b \in ToSet(SChain) : \E n \in 1..Len(SChain) : b = SChain[n]
<1>1. Listed(SChain, snode) /\ SChain \in Seq(Blocks)
  BY SListFacts, SListed
<1>2. /\ DataOf(SChain, snode) \in Seq(Data) /\ Len(DataOf(SChain, snode)) = Len(SChain)
      /\ \A i \in 1..Len(SChain) : DataOf(SChain, snode)[i] = snode[SChain[i]].data
  BY <1>1, ListedFacts
<1>3. \A b \in ToSet(SChain) : \E n \in 1..Len(SChain) : b = SChain[n]
  BY <1>1, ElementFacts
<1>4. DOMAIN DataOf(SChain, snode) = 1..Len(DataOf(SChain, snode))
  BY <1>2
<1> QED BY <1>2, <1>3, <1>4 DEF SItems

(* hev_queue_pop.                                                              *)
LEMMA QueuePopStep ==
  ASSUME MInv, QueuePop
  PROVE  AInv' /\ LKept /\ SInv' /\ SItems' = Tail(SItems)
<1>1. slist \notin {Null, Wild} /\ SListRemove(snode[slist].data) /\ SInv
  BY DEF QueuePop, MInv
<1>2. SChain \in Seq(Blocks) /\ slist = At(SChain, 1) /\ Len(SChain) \in Nat
  BY <1>1, SListFacts
<1>3. 1 \in 1..Len(SChain) /\ slist = SChain[1]
  BY <1>1, <1>2, AtFacts
<1>4. SItems \in Seq(Data) /\ Len(SItems) # 0 /\ SItems[1] = snode[slist].data
  BY <1>1, <1>2, <1>3, SItemsFacts
<1>5. RemoveFirst(SItems, SItems[1]) = Tail(SItems)
  BY <1>4, TailFacts
<1>6. AInv' /\ LKept /\ SInv' /\ SItems' = RemoveFirst(SItems, snode[slist].data)
  BY <1>1, SRemoveStep
<1> QED BY <1>4, <1>5, <1>6

(* hev_slist_remove_next with a sibling.                                       *)
LEMMA SRemoveNextStep ==
  ASSUME MInv, NEW c, SListRemoveNext(c)
  PROVE  /\ AInv' /\ LKept /\ SInv'
         /\ \A n \in 1..Len(SChain) : c = SChain[n] => SItems' = RemoveAt(SItems, n + 1)
<1> DEFINE q == SChain
<1>1. slist # Wild /\ c \in ToSet(q) /\ snode[c].next # Null
  BY DEF SListRemoveNext, SRemoved
<1>2. /\ SLinked(q, slist, snode) /\ q \in Seq(Blocks) /\ IsInjective(q) /\ Len(q) \in Nat
      /\ \A n \in 1..Len(q) : snode[q[n]].next = At(q, n + 1)
      /\ IsChain(q, slist, snode, "next")
  BY <1>1, SListFacts DEF MInv
<1>3. PICK n \in 1..Len(q) : c = q[n]
  BY <1>1, <1>2, ElementFacts
<1> DEFINE k == n + 1
           w == SPass(SWalk, c)
           v == SUnlink(w, q[k])
           t == RemoveAt(q, k)
<1>4. k \in 1..Len(q) /\ snode[c].next = q[k]
  BY <1>1, <1>2, <1>3, AtFacts
<1>5. SRemoved(v)
  BY <1>4 DEF SListRemoveNext
<1>6. w \in SWalks(q) /\ w.node = snode /\ w.head = slist /\ w.prev = c /\ w.gone = <<>>
  BY <1>1, <1>2, SWalkStarts
<1>7. c = At(q, k - 1)
  BY <1>2, <1>3, AtFacts
<1> HIDE DEF q, w, v, t, k
<1>8. /\ v \in SWalks(q) /\ v.gone = Append(w.gone, q[k])
      /\ IsChain(t, v.head, v.node, "next")
  <2>1. /\ q \in Seq(Blocks) /\ w \in SWalks(q) /\ IsChain(q, w.head, w.node, "next")
        /\ ToSet(q) \subseteq ToSet(q) /\ k \in 1..Len(q) /\ w.prev = At(q, k - 1)
        /\ v = SUnlink(w, q[k]) /\ t = RemoveAt(q, k)
    BY <1>2, <1>4, <1>6, <1>7 DEF v, t
  <2> QED BY ONLY <2>1, SUnlinkFacts
<1>9. q[k] \in Blocks /\ q[k] \in ToSet(q)
      /\ <<>> \in Seq(Blocks) /\ ToSet(<<>>) = {} /\ IsInjective(<<>>)
  BY <1>2, <1>4, ElementFacts DEF ToSet, IsInjective
<1>10. ToSet(v.gone) = {q[k]} /\ IsInjective(v.gone)
  <2>1. ToSet(Append(<<>>, q[k])) = ToSet(<<>>) \cup {q[k]} /\ IsInjective(Append(<<>>, q[k]))
    BY <1>9, AppendFacts
  <2> QED BY <1>6, <1>8, <1>9, <2>1
<1>11. t \in Seq(Blocks) /\ IsInjective(t) /\ Len(t) = Len(q) - 1 /\ ToSet(t) = ToSet(q) \ {q[k]}
  <2>1. q \in Seq(Blocks) /\ IsInjective(q) /\ k \in 1..Len(q) /\ t = RemoveAt(q, k)
    BY <1>2, <1>4 DEF t
  <2>2. Dropped(q, k, t)
    BY ONLY <2>1, RemovedChain
  <2> QED BY <2>2 DEF Dropped
<1>12. AInv' /\ LKept /\ SInv' /\ SItems' = DataOf(t, snode)
  <2>1. ToSet(t) \cap ToSet(v.gone) = {} /\ ToSet(t) \cup ToSet(v.gone) = ToSet(q)
    BY <1>9, <1>10, <1>11
  <2> QED BY <1>5, <1>8, <1>10, <2>1, SRemovedStep DEF q
<1>13. DataOf(t, snode) = RemoveAt(DataOf(q, snode), k)
  BY <1>2, <1>4, RemovedData DEF t
<1>14. ASSUME NEW m \in 1..Len(SChain), c = SChain[m] PROVE m = n
  <2>1. \A i, j \in 1..Len(q) : q[i] = q[j] => i = j
    BY <1>2, ElementFacts
  <2> QED BY <1>3, <1>14, <2>1 DEF q
<1> QED BY <1>12, <1>13, <1>14 DEF SItems, q, k

(* hev_slist_remove_next without one: the list is lost only with its block.    *)
LEMMA SRemoveHeadStep ==
  ASSUME MInv, SListRemoveHead
  PROVE  /\ AInv' /\ LKept /\ SInv'
         /\ slist' # Wild => SItems' = Tail(SItems)
         /\ slist \in heap'.taken => slist' # Wild
         /\ \A b \in Blocks : snode[b] # NoNode /\ snode'[b] = NoNode => b = slist
<1> DEFINE q == SChain
           v == SUnlink(SWalk, q[1])
           t == RemoveAt(q, 1)
<1>1. /\ slist \notin {Null, Wild} /\ FreeEach(<<slist>>) /\ snode' = [snode EXCEPT ![slist] = NoNode]
      /\ slist' = snode[slist].next \/ (slist \notin heap'.taken /\ slist' = Wild)
  BY DEF SListRemoveHead
<1>2. /\ SLinked(q, slist, snode) /\ q \in Seq(Blocks) /\ IsInjective(q) /\ Len(q) \in Nat
      /\ IsChain(q, slist, snode, "next") /\ slist = At(q, 1)
      /\ \A n \in 1..Len(q) : snode[q[n]].next = At(q, n + 1)
      /\ ToSet(q) = {c \in Blocks : snode[c] # NoNode}
  BY <1>1, SListFacts DEF MInv
<1>3. 1 \in 1..Len(q) /\ slist = q[1] /\ slist \in ToSet(q) /\ slist \in Blocks
  BY <1>1, <1>2, AtFacts, ElementFacts
<1>4. snode \in [Blocks -> SNodes \cup {NoNode}]
  BY <1>2 DEF SLinked
<1>5. \A b \in Blocks : snode'[b] = IF b = slist THEN NoNode ELSE snode[b]
  BY <1>1, <1>4
<1>6. snode[slist].next \in Blocks \cup {Null}
  BY <1>2, <1>3, AtFacts
<1>7. snode[slist].next # Wild
  BY <1>6, SListAssumption
<1>8. SWalk \in SWalks(q) /\ SWalk.node = snode /\ SWalk.head = slist /\ SWalk.prev = Null
      /\ SWalk.gone = <<>>
  BY <1>2, SWalkStarts
<1>9. /\ v \in SWalks(q) /\ v.gone = Append(<<>>, slist)
      /\ v.head = snode[slist].next /\ v.node = snode
  <2>1. q \in Seq(Blocks) /\ SWalk \in SWalks(q) /\ q[1] \in ToSet(q) /\ v = SUnlink(SWalk, q[1])
    BY <1>2, <1>3, <1>8
  <2>2. /\ v \in SWalks(q) /\ v.gone = Append(SWalk.gone, q[1]) /\ v.prev = SWalk.prev
        /\ SWalk.prev = Null => v.head = SWalk.node[q[1]].next /\ v.node = SWalk.node
    BY ONLY <2>1, SUnlinkParts
  <2> QED BY <1>3, <1>8, <2>2
<1>10. <<slist>> = Append(<<>>, slist)
  OBVIOUS
<1>11. <<>> \in Seq(Blocks) /\ ToSet(<<>>) = {} /\ IsInjective(<<>>)
  BY DEF ToSet, IsInjective
<1>12. /\ ToSet(<<slist>>) = {slist} /\ IsInjective(<<slist>>) /\ <<slist>> \in Seq(Blocks)
  <2>1. /\ Append(<<>>, slist) \in Seq(Blocks) /\ ToSet(Append(<<>>, slist)) = ToSet(<<>>) \cup {slist}
        /\ IsInjective(Append(<<>>, slist))
    BY <1>3, <1>11, AppendFacts
  <2> QED BY <1>10, <1>11, <2>1
<1>13. AInv' /\ LKept /\ \A c \in ToSet(q) \ ToSet(<<slist>>) : live'[c] = "slist"
  BY <1>1, <1>3, <1>12, SFreed
<1>14. t \in Seq(Blocks) /\ IsInjective(t) /\ ToSet(t) = ToSet(q) \ {slist}
  <2>1. Dropped(q, 1, t)
    BY <1>2, <1>3, RemovedChain
  <2> QED BY <1>3, <2>1 DEF Dropped
<1>15. IsChain(t, v.head, v.node, "next")
  <2>1. /\ q \in Seq(Blocks) /\ SWalk \in SWalks(q) /\ IsChain(q, SWalk.head, SWalk.node, "next")
        /\ ToSet(q) \subseteq ToSet(q) /\ 1 \in 1..Len(q) /\ SWalk.prev = At(q, 1 - 1)
        /\ v = SUnlink(SWalk, q[1]) /\ t = RemoveAt(q, 1)
    BY <1>2, <1>3, <1>8, AtFacts
  <2> HIDE DEF q, v, t
  <2> QED BY ONLY <2>1, SUnlinkFacts
<1> HIDE DEF q, v, t
<1>16. CASE slist' = snode[slist].next
  <2>1. SRemoved(v)
    <3>1. FreeEach(v.gone)
      BY <1>1, <1>9, <1>10
    <3>2. snode' = [b \in Blocks |-> IF b \in ToSet(v.gone) THEN NoNode ELSE v.node[b]]
      BY <1>1, <1>4, <1>9, <1>10, <1>12
    <3> QED BY <1>1, <1>9, <1>16, <3>1, <3>2 DEF SRemoved
  <2>2. /\ ToSet(t) \cap ToSet(v.gone) = {} /\ ToSet(t) \cup ToSet(v.gone) = ToSet(q)
        /\ IsInjective(v.gone)
    BY <1>3, <1>9, <1>10, <1>12, <1>14
  <2>3. SInv' /\ SItems' = DataOf(t, snode)
    BY <1>9, <1>15, <2>1, <2>2, SRemovedStep DEF q
  <2>4. DataOf(t, snode) = RemoveAt(DataOf(q, snode), 1)
    BY <1>2, <1>3, RemovedData DEF t
  <2>5. SItems \in Seq(Data) /\ Len(SItems) # 0
    BY <1>1, <1>3, SItemsFacts DEF q, MInv
  <2>6. Tail(SItems) = RemoveAt(SItems, 1)
    BY <2>5, TailFacts
  <2> QED BY <1>5, <1>7, <1>13, <1>16, <2>3, <2>4, <2>6 DEF SItems, q
<1>17. CASE slist \notin heap'.taken /\ slist' = Wild
  <2>1. \A b \in Blocks : snode'[b] # NoNode => live'[b] = "slist"
    BY <1>2, <1>5, <1>12, <1>13
  <2>2. SInv'
    BY <1>17, <2>1 DEF SInv
  <2> QED BY <1>5, <1>13, <1>17, <2>2
<1> QED BY <1>1, <1>16, <1>17

(* hev_slist_free.                                                             *)
LEMMA SFreeStep ==
  ASSUME MInv, SListFree
  PROVE  AInv' /\ LKept /\ SInv'
<1>1. /\ slist # Wild /\ FreeEach(SChain) /\ slist' = Null
      /\ snode' = [b \in Blocks |-> IF b \in ToSet(SChain) THEN NoNode ELSE snode[b]]
  BY DEF SListFree
<1>2. /\ SChain \in Seq(Blocks) /\ IsInjective(SChain)
      /\ ToSet(SChain) = {c \in Blocks : snode[c] # NoNode}
  BY <1>1, SListFacts DEF MInv
<1>3. AInv' /\ LKept
  BY <1>1, <1>2, SFreed
<1>4. \A b \in Blocks : snode'[b] = NoNode
  BY <1>1, <1>2
<1>5. snode' \in [Blocks -> SNodes \cup {NoNode}]
  BY <1>1, <1>2
<1>6. SLinked(<<>>, slist', snode')
  <2>1. IsChain(<<>>, slist', snode', "next")
    BY <1>1 DEF IsChain, IsInjective, At
  <2>2. ToSet(<<>>) = {}
    BY DEF ToSet
  <2> QED BY <1>4, <1>5, <2>1, <2>2 DEF SLinked
<1>7. slist' # Wild
  BY <1>1, SListAssumption
<1>8. SInv'
  BY <1>4, <1>6, <1>7, SInvNext
<1> QED BY <1>3, <1>8

(* The allocator does nothing while a program only touches nodes.              *)
LEMMA AllocatorStays ==
  ASSUME AInv, UNCHANGED allocator_vars
  PROVE  AInv' /\ LKept /\ SKept
<1>1. AInv'
  BY AllocatorStep
<1>2. live' = live
  BY DEF allocator_vars
<1> QED BY <1>1, <1>2 DEF LKept, SKept

(* hev_slist_set_data.                                                         *)
LEMMA SSetDataStep ==
  ASSUME MInv, NEW x \in Data, NEW b, SListSetData(b, x)
  PROVE  AInv' /\ LKept /\ SInv'
<1>1. b \in ToSet(SChain) /\ snode' = [snode EXCEPT ![b].data = x] /\ slist' = slist
      /\ UNCHANGED allocator_vars
  BY DEF SListSetData
<1>2. AInv' /\ LKept /\ SKept
  BY <1>1, AllocatorStays DEF MInv
<1>3. slist # Wild
  <2>1. ToSet(<<>>) = {}
    BY DEF ToSet
  <2> QED BY <1>1, <2>1 DEF SChain
<1>4. /\ SLinked(SChain, slist, snode) /\ SChain \in Seq(Blocks) /\ IsInjective(SChain)
      /\ ToSet(SChain) = {c \in Blocks : snode[c] # NoNode} /\ Len(SChain) \in Nat
      /\ slist = At(SChain, 1) /\ \A n \in 1..Len(SChain) : snode[SChain[n]].next = At(SChain, n + 1)
  BY <1>3, SListFacts DEF MInv
<1>5. /\ snode \in [Blocks -> SNodes \cup {NoNode}] /\ b \in Blocks /\ snode[b] \in SNodes
  BY <1>1, <1>4, SNodeFacts DEF SLinked
<1>6. /\ snode'[b] = [snode[b] EXCEPT !.data = x]
      /\ \A c \in Blocks : c # b => snode'[c] = snode[c]
      /\ DOMAIN snode' = Blocks /\ snode' = [c \in Blocks |-> snode'[c]]
  BY <1>1, <1>5
<1>7. snode'[b] \in SNodes /\ snode'[b].next = snode[b].next
  BY <1>5, <1>6 DEF SNodes
<1>8. snode' \in [Blocks -> SNodes \cup {NoNode}]
  BY <1>5, <1>6, <1>7
<1>9. \A c \in Blocks : /\ snode'[c] # NoNode <=> snode[c] # NoNode
                        /\ snode'[c].next = snode[c].next
  BY <1>5, <1>6, <1>7, SListAssumption
<1>10. SLinked(SChain, slist', snode')
  <2>1. \A n \in 1..Len(SChain) : snode'[SChain[n]].next = At(SChain, n + 1)
    BY <1>4, <1>9
  <2> QED BY <1>1, <1>4, <1>8, <1>9, <2>1 DEF SLinked, IsChain
<1>11. \A c \in Blocks : snode'[c] # NoNode => live'[c] = "slist"
  BY <1>2, <1>9 DEF SKept, MInv, SInv
<1>12. SInv'
  BY <1>1, <1>3, <1>10, <1>11, SInvNext
<1> QED BY <1>2, <1>12

-----------------------------------------------------------------------------
(* The calls that insert.                                                      *)
LEMMA EndsFacts ==
  ASSUME NEW T, NEW s \in Seq(T), NEW x
  PROVE  InsertAt(s, Len(s) + 1, x) = Append(s, x) /\ InsertAt(s, 1, x) = <<x>> \o s
<1> DEFINE U == T \cup {x}
           a == InsertAt(s, Len(s) + 1, x)
           p == InsertAt(s, 1, x)
<1>1. s \in Seq(U) /\ x \in U /\ Len(s) \in Nat
  OBVIOUS
<1> HIDE DEF U
<1>2. /\ a \in Seq(U) /\ Len(a) = Len(s) + 1
      /\ \A i \in 1..(Len(s) + 1) :
           a[i] = IF i < Len(s) + 1 THEN s[i] ELSE IF i = Len(s) + 1 THEN x ELSE s[i - 1]
  <2> DEFINE n == Len(s) + 1
  <2>1. s \in Seq(U) /\ x \in U /\ n \in 1..(Len(s) + 1)
    BY <1>1
  <2> HIDE DEF n
  <2>2. /\ InsertAt(s, n, x) \in Seq(U) /\ Len(InsertAt(s, n, x)) = Len(s) + 1
        /\ \A i \in 1..(Len(s) + 1) :
             InsertAt(s, n, x)[i] = IF i < n THEN s[i] ELSE IF i = n THEN x ELSE s[i - 1]
    BY ONLY <2>1, InsertAtFacts
  <2> QED BY <2>2 DEF n
<1>3. /\ p \in Seq(U) /\ Len(p) = Len(s) + 1
      /\ \A i \in 1..(Len(s) + 1) : p[i] = IF i < 1 THEN s[i] ELSE IF i = 1 THEN x ELSE s[i - 1]
  <2>1. s \in Seq(U) /\ x \in U /\ 1 \in 1..(Len(s) + 1)
    BY <1>1
  <2> QED BY ONLY <2>1, InsertAtFacts
<1> HIDE DEF a, p
<1>4. a = Append(s, x)
  <2>1. /\ Append(s, x) \in Seq(U) /\ Len(Append(s, x)) = Len(s) + 1
        /\ \A i \in 1..(Len(s) + 1) : Append(s, x)[i] = IF i <= Len(s) THEN s[i] ELSE x
    BY <1>1
  <2>2. \A i \in 1..Len(a) : a[i] = Append(s, x)[i]
    BY <1>1, <1>2, <2>1
  <2> QED BY <1>2, <2>1, <2>2, SameSeq
<1>5. p = <<x>> \o s
  <2>1. <<x>> \in Seq(U) /\ Len(<<x>>) = 1 /\ <<x>>[1] = x
    BY <1>1
  <2>2. /\ <<x>> \o s \in Seq(U) /\ Len(<<x>> \o s) = 1 + Len(s)
        /\ \A i \in 1..(1 + Len(s)) : (<<x>> \o s)[i] = IF i <= 1 THEN <<x>>[i] ELSE s[i - 1]
    BY <1>1, <2>1, JoinFacts
  <2>3. \A i \in 1..Len(p) : p[i] = (<<x>> \o s)[i]
    BY <1>1, <1>3, <2>1, <2>2
  <2> QED BY <1>1, <1>3, <2>2, <2>3, SameSeq
<1> QED BY <1>4, <1>5 DEF a, p

(* The smaller of two numbers.                                                 *)
LEMMA MinFacts ==
  ASSUME NEW m \in Nat, NEW n \in Nat
  PROVE  Min({m, n}) \in 0..n /\ (m \in 0..n => Min({m, n}) = m)
<1>1. \E k \in {m, n} : \A l \in {m, n} : k <= l
  OBVIOUS
<1>2. Min({m, n}) \in {m, n} /\ \A l \in {m, n} : Min({m, n}) <= l
  BY <1>1 DEF Min
<1> QED BY <1>2

(* The place of a node of the chain.                                           *)
LEMMA PlaceFacts ==
  ASSUME NEW q \in Seq(Blocks), IsInjective(q), NEW c \in ToSet(q)
  PROVE  /\ Place(q, c) \in 1..Len(q) /\ q[Place(q, c)] = c
         /\ \A n \in 1..Len(q) : c = q[n] => n = Place(q, c)
<1>1. \E n \in 1..Len(q) : q[n] = c
  BY ElementFacts
<1>2. Place(q, c) \in 1..Len(q) /\ q[Place(q, c)] = c
  BY <1>1 DEF Place
<1> QED BY <1>2, ElementFacts

(* hev_slist_append.                                                           *)
LEMMA SAppendStep ==
  ASSUME MInv, NEW x, NEW b, SListAppend(x, b)
  PROVE  /\ AInv' /\ LKept /\ (x \in Data => SInv')
         /\ SItems' = Append(SItems, x)
<1>1. slist # Wild /\ SInv
  BY DEF SListAppend, SInsert, MInv
<1>2. SChain \in Seq(Blocks) /\ Len(SChain) \in Nat /\ SItems \in Seq(Data)
      /\ Len(SItems) = Len(SChain)
  BY <1>1, SListFacts, SItemsFacts
<1> DEFINE m == Len(SChain)
<1>3. m \in 0..Len(SChain) /\ LastOf(SChain) = At(SChain, m) /\ At(SChain, m + 1) = Null
  BY <1>2, AtFacts
<1>4. SInsert(x, b, At(SChain, m), At(SChain, m + 1))
  BY <1>3 DEF SListAppend
<1> HIDE DEF m
<1>5. SItems' = InsertAt(SItems, m + 1, x) /\ AInv' /\ LKept /\ (x \in Data => SInv')
  BY <1>3, <1>4, SInsertStep
<1>6. InsertAt(SItems, Len(SItems) + 1, x) = Append(SItems, x)
  BY <1>2, EndsFacts
<1> QED BY <1>2, <1>5, <1>6 DEF m

(* hev_slist_prepend.                                                          *)
LEMMA SPrependStep ==
  ASSUME MInv, NEW x, NEW b, SListPrepend(x, b)
  PROVE  /\ AInv' /\ LKept /\ (x \in Data => SInv')
         /\ SItems' = <<x>> \o SItems
<1>1. slist # Wild /\ SInv
  BY DEF SListPrepend, SInsert, MInv
<1>2. /\ SChain \in Seq(Blocks) /\ Len(SChain) \in Nat /\ SItems \in Seq(Data)
      /\ slist = At(SChain, 1)
  BY <1>1, SListFacts, SItemsFacts
<1> DEFINE m == 0
<1>3. m \in 0..Len(SChain) /\ Null = At(SChain, m) /\ At(SChain, m + 1) = slist /\ m + 1 = 1
  BY <1>2, AtFacts
<1>4. SInsert(x, b, At(SChain, m), At(SChain, m + 1))
  BY <1>3 DEF SListPrepend
<1> HIDE DEF m
<1>5. SItems' = InsertAt(SItems, m + 1, x) /\ AInv' /\ LKept /\ (x \in Data => SInv')
  BY <1>3, <1>4, SInsertStep
<1>6. InsertAt(SItems, 1, x) = <<x>> \o SItems
  BY <1>2, EndsFacts
<1> QED BY <1>3, <1>5, <1>6

(* An insertion at place n.                                                    *)
LEMMA SInsertAtStep ==
  ASSUME MInv, NEW x, NEW b, NEW n \in 1..(Len(SChain) + 1), SInsertAt(x, b, n)
  PROVE  /\ AInv' /\ LKept /\ (x \in Data => SInv')
         /\ SItems' = InsertAt(SItems, n, x)
<1>1. slist # Wild /\ SInv
  BY DEF SInsertAt, SInsert, MInv
<1>2. Len(SChain) \in Nat
  BY <1>1, SListFacts
<1> DEFINE m == n - 1
<1>3. m \in 0..Len(SChain) /\ m + 1 = n
  BY <1>2
<1>4. SInsert(x, b, At(SChain, m), At(SChain, m + 1))
  BY <1>3 DEF SInsertAt
<1> HIDE DEF m
<1>5. SItems' = InsertAt(SItems, m + 1, x) /\ AInv' /\ LKept /\ (x \in Data => SInv')
  BY <1>3, <1>4, SInsertStep
<1> QED BY <1>3, <1>5

(* hev_slist_insert.                                                           *)
LEMMA SInsertPositionStep ==
  ASSUME MInv, NEW x, NEW b, NEW n \in Nat, SListInsert(x, b, n)
  PROVE  /\ AInv' /\ LKept /\ (x \in Data => SInv')
         /\ n \in 0..Len(SChain) => SItems' = InsertAt(SItems, n + 1, x)
<1>1. slist # Wild /\ SInv
  BY DEF SListInsert, SInsertAt, SInsert, MInv
<1>2. Len(SChain) \in Nat
  BY <1>1, SListFacts
<1> DEFINE k == Min({n, Len(SChain)}) + 1
<1>3. k \in 1..(Len(SChain) + 1) /\ (n \in 0..Len(SChain) => k = n + 1)
  <2>1. Min({n, Len(SChain)}) \in 0..Len(SChain)
        /\ (n \in 0..Len(SChain) => Min({n, Len(SChain)}) = n)
    BY <1>2, MinFacts
  <2> QED BY <1>2, <2>1
<1>4. SInsertAt(x, b, k)
  BY DEF SListInsert
<1> HIDE DEF k
<1>5. AInv' /\ LKept /\ (x \in Data => SInv') /\ SItems' = InsertAt(SItems, k, x)
  BY <1>3, <1>4, SInsertAtStep
<1> QED BY <1>3, <1>5

(* hev_slist_insert_before.                                                    *)
LEMMA SInsertBeforeStep ==
  ASSUME MInv, NEW x, NEW b, NEW c \in ToSet(SChain), SListInsertBefore(x, b, c)
  PROVE  /\ AInv' /\ LKept /\ (x \in Data => SInv')
         /\ \A n \in 1..Len(SChain) : c = SChain[n] => SItems' = InsertAt(SItems, n, x)
<1>1. slist # Wild /\ SInv
  BY DEF SListInsertBefore, SInsertAt, SInsert, MInv
<1>2. SChain \in Seq(Blocks) /\ IsInjective(SChain) /\ Len(SChain) \in Nat
  BY <1>1, SListFacts
<1> DEFINE k == Place(SChain, c)
<1>3. k \in 1..Len(SChain) /\ \A n \in 1..Len(SChain) : c = SChain[n] => n = k
  BY <1>2, PlaceFacts
<1>4. k \in 1..(Len(SChain) + 1)
  BY <1>2, <1>3
<1>5. SInsertAt(x, b, k)
  BY DEF SListInsertBefore
<1> HIDE DEF k
<1>6. AInv' /\ LKept /\ (x \in Data => SInv') /\ SItems' = InsertAt(SItems, k, x)
  BY <1>4, <1>5, SInsertAtStep
<1> QED BY <1>3, <1>6

(* hev_slist_insert_after.                                                     *)
LEMMA SInsertAfterStep ==
  ASSUME MInv, NEW x, NEW b, NEW c \in ToSet(SChain) \cup {Null}, SListInsertAfter(x, b, c)
  PROVE  /\ AInv' /\ LKept /\ (x \in Data => SInv')
         /\ \A n \in 1..Len(SChain) : c = SChain[n] => SItems' = InsertAt(SItems, n + 1, x)
<1>1. slist # Wild /\ SInv
  BY DEF SListInsertAfter, SInsert, MInv
<1>2. /\ SChain \in Seq(Blocks) /\ IsInjective(SChain) /\ Len(SChain) \in Nat
      /\ slist = At(SChain, 1) /\ \A n \in 1..Len(SChain) : snode[SChain[n]].next = At(SChain, n + 1)
  BY <1>1, SListFacts
<1>3. CASE c = Null
  <2>1. SListPrepend(x, b)
    BY <1>3 DEF SListInsertAfter, SListPrepend
  <2>2. AInv' /\ LKept /\ (x \in Data => SInv')
    BY <2>1, SPrependStep
  <2>3. \A n \in 1..Len(SChain) : c # SChain[n]
    BY <1>2, <1>3, AtFacts
  <2> QED BY <2>2, <2>3
<1>4. CASE c \in ToSet(SChain)
  <2>1. PICK k \in 1..Len(SChain) : c = SChain[k]
    BY <1>2, <1>4, ElementFacts
  <2>2. c # Null /\ c = At(SChain, k) /\ snode[c].next = At(SChain, k + 1)
    BY <1>2, <2>1, AtFacts, NullFacts
  <2>3. SInsert(x, b, At(SChain, k), At(SChain, k + 1))
    BY <2>2 DEF SListInsertAfter
  <2>4. k \in 0..Len(SChain)
    BY <1>2
  <2>5. SItems' = InsertAt(SItems, k + 1, x) /\ AInv' /\ LKept /\ (x \in Data => SInv')
    BY <2>3, <2>4, SInsertStep
  <2>6. ASSUME NEW n \in 1..Len(SChain), c = SChain[n] PROVE n = k
    <3>1. \A i, j \in 1..Len(SChain) : SChain[i] = SChain[j] => i = j
      BY <1>2, ElementFacts
    <3> QED BY <2>1, <2>6, <3>1
  <2> QED BY <2>5, <2>6
<1> QED BY <1>3, <1>4

(* Every call of hev-slist.c and hev-queue.c.                                  *)
LEMMA SListStep ==
  ASSUME MInv, SListNext, UNCHANGED list_vars
  PROVE  MInv'
<1>1. AInv' /\ LKept /\ SInv'
  <2>1. CASE SListRemoveHead
    BY <2>1, SRemoveHeadStep
  <2>2. CASE SListFree
    BY <2>2, SFreeStep
  <2>3. CASE QueuePop
    BY <2>3, QueuePopStep
  <2>4. ASSUME NEW x \in Data, SListRemove(x) PROVE AInv' /\ LKept /\ SInv'
    BY <2>4, SRemoveStep
  <2>5. ASSUME NEW x \in Data, SListRemoveAll(x) PROVE AInv' /\ LKept /\ SInv'
    BY <2>5, SRemoveAllStep
  <2>6. ASSUME NEW x \in Data, NEW b, SListAppend(x, b) PROVE AInv' /\ LKept /\ SInv'
    BY <2>6, SAppendStep
  <2>7. ASSUME NEW x \in Data, NEW b, SListPrepend(x, b) PROVE AInv' /\ LKept /\ SInv'
    BY <2>7, SPrependStep
  <2>8. ASSUME NEW x \in Data, NEW b, SListSetData(b, x) PROVE AInv' /\ LKept /\ SInv'
    BY <2>8, SSetDataStep
  <2>9. ASSUME NEW x \in Data, NEW b, NEW n \in 0..Cardinality(Blocks), SListInsert(x, b, n)
        PROVE  AInv' /\ LKept /\ SInv'
    <3>1. n \in Nat
      BY NullFacts
    <3> QED BY <2>9, <3>1, SInsertPositionStep
  <2>10. ASSUME NEW x \in Data, NEW b, NEW c \in ToSet(SChain), SListInsertBefore(x, b, c)
         PROVE  AInv' /\ LKept /\ SInv'
    BY <2>10, SInsertBeforeStep
  <2>11. ASSUME NEW x \in Data, NEW b, NEW c \in ToSet(SChain) \cup {Null}, SListInsertAfter(x, b, c)
         PROVE  AInv' /\ LKept /\ SInv'
    BY <2>11, SInsertAfterStep
  <2>12. ASSUME NEW b, SListRemoveNext(b) PROVE AInv' /\ LKept /\ SInv'
    BY <2>12, SRemoveNextStep
  <2> QED BY <2>1, <2>2, <2>3, <2>4, <2>5, <2>6, <2>7, <2>8, <2>9, <2>10, <2>11, <2>12 DEF SListNext
<1>2. LInv'
  BY <1>1, LUnchanged DEF MInv
<1> QED BY <1>1, <1>2 DEF MInv

-----------------------------------------------------------------------------
(* The steps of hev-list.c.                                                    *)

(* What the calls of hev-list.c do, said of the chain.                         *)
LEMMA LListFacts ==
  ASSUME LInv
  PROVE  /\ LLinked(LChain, lnode) /\ LChained(LChain, lnode) /\ HeldIn(LChain, list)
         /\ LChain \in Seq(Blocks) /\ IsInjective(LChain) /\ Len(LChain) \in Nat
         /\ ToSet(LChain) = {b \in Blocks : lnode[b] # NoNode}
         /\ ToSet(LChain) \subseteq Live
         /\ LFirst = At(LChain, 1)
         /\ \A c \in ToSet(LChain) : c \in Blocks /\ lnode[c] \in LNodes
         /\ \A b \in ToSet(LChain) : \E n \in 1..Len(LChain) : b = LChain[n]
<1>1. LLinked(LChain, lnode) /\ HeldIn(LChain, list)
  BY DEF LInv
<1>2. ToSet(LChain) = {b \in Blocks : lnode[b] # NoNode} /\ LChained(LChain, lnode)
  BY <1>1 DEF LLinked
<1>3. ToSet(LChain) \subseteq Live
  BY <1>2, SizeFacts DEF LInv, Live
<1>4. LChain \in Seq(Blocks) /\ IsInjective(LChain) /\ Len(LChain) \in Nat
      /\ \A c \in ToSet(LChain) : c \in Blocks /\ lnode[c] \in LNodes
  BY <1>1, LNodeFacts
<1>5. LFirst = At(LChain, 1)
  BY <1>1, <1>2, FirstFacts DEF LFirst
<1>6. \A b \in ToSet(LChain) : \E n \in 1..Len(LChain) : b = LChain[n]
  BY <1>4, ElementFacts
<1> QED BY <1>1, <1>2, <1>3, <1>4, <1>5, <1>6

(* An insertion behind the m-th node.                                          *)
LEMMA LInsertStep ==
  ASSUME MInv, NEW x, NEW b, NEW m \in 0..Len(LChain), NEW head,
         head = b \/ head \in ToSet(LChain),
         LInsert(x, b, At(LChain, m), At(LChain, m + 1), head)
  PROVE  /\ LItems' = InsertAt(LItems, m + 1, x)
         /\ AInv' /\ SKept /\ (x \in Data => LInv')
<1> DEFINE q == LChain
           r == InsertAt(q, m + 1, b)
           new == LInserted(lnode, x, b, At(q, m), At(q, m + 1))
<1>1. AInv /\ SInv /\ LInv /\ Alloc("list", b) /\ list' = head
  BY DEF MInv, LInsert
<1>2. AInv' /\ b \in Blocks \ Live /\ live' = [live EXCEPT ![b] = "list"]
  BY <1>1, SizeFacts, AllocFacts
<1>3. live \in [Blocks -> AllSizes \cup {NotLive}]
  BY <1>1 DEF AInv, TypeOK
<1>4. /\ LLinked(q, lnode) /\ ToSet(q) \subseteq Live
      /\ q \in Seq(Blocks) /\ ToSet(q) = {c \in Blocks : lnode[c] # NoNode}
  BY <1>1, LListFacts
<1>5. b \in Blocks /\ b \notin ToSet(q)
  BY <1>2, <1>4
<1>6. lnode' = new
  BY DEF LInsert, LInserted
<1>7. SKept
  BY <1>1, <1>2, <1>3, SizeFacts DEF SKept, SInv, Live
<1>8. m \in 0..Len(q) /\ (head = b \/ head \in ToSet(q))
  OBVIOUS
<1> HIDE DEF q, new, r
<1>9. /\ LChained(r, new) /\ (x \in Data => LLinked(r, new))
      /\ DataOf(r, new) = InsertAt(DataOf(q, lnode), m + 1, x)
      /\ ToSet(r) = ToSet(q) \cup {b}
  <2>1. /\ LLinked(q, lnode) /\ m \in 0..Len(q) /\ b \in Blocks /\ b \notin ToSet(q)
        /\ new = LInserted(lnode, x, b, At(q, m), At(q, m + 1)) /\ r = InsertAt(q, m + 1, b)
    BY <1>4, <1>5, <1>8 DEF new, r
  <2> QED BY ONLY <2>1, LInsertedFacts
<1>10. HeldIn(r, list')
  BY <1>1, <1>8, <1>9 DEF HeldIn
<1>11. LItems' = InsertAt(LItems, m + 1, x)
  <2>1. LItems' = DataOf(r, lnode')
    BY <1>6, <1>9, <1>10, LChainNext
  <2> QED BY <1>6, <1>9, <2>1 DEF LItems, q
<1>12. ASSUME x \in Data PROVE LInv'
  <2>1. LLinked(r, lnode')
    BY <1>6, <1>9, <1>12
  <2>2. \A c \in Blocks : lnode'[c] # NoNode => live'[c] = "list"
    <3>1. ToSet(r) = {c \in Blocks : lnode'[c] # NoNode}
      BY <2>1 DEF LLinked
    <3>2. \A c \in ToSet(q) : live[c] = "list"
      BY <1>1, <1>4 DEF LInv
    <3> QED BY <1>2, <1>3, <1>9, <3>1, <3>2
  <2> QED BY <1>10, <2>1, <2>2, LInvNext
<1> QED BY <1>2, <1>7, <1>11, <1>12

(* Freeing nodes of the one list keeps the other list's.                       *)
LEMMA LFreed ==
  ASSUME MInv, NEW bs \in Seq(Blocks), IsInjective(bs), ToSet(bs) \subseteq ToSet(LChain),
         FreeEach(bs)
  PROVE  /\ AInv' /\ SKept
         /\ \A c \in ToSet(LChain) \ ToSet(bs) : live'[c] = "list"
<1>1. AInv /\ SInv /\ LInv
  BY DEF MInv
<1>2. ToSet(LChain) = {c \in Blocks : lnode[c] # NoNode} /\ ToSet(LChain) \subseteq Live
  BY <1>1, LListFacts
<1>3. ToSet(bs) \subseteq Live
  BY <1>2
<1>4. AInv'
  BY <1>1, <1>3, FreeEachFacts
<1>5. \A c \in Blocks : live'[c] = IF c \in ToSet(bs) THEN NotLive ELSE live[c]
  BY DEF FreeEach
<1>6. \A c \in ToSet(LChain) : c \in Blocks /\ live[c] = "list"
  BY <1>1, <1>2 DEF LInv
<1>7. SKept
  <2>1. SUFFICES ASSUME NEW c \in Blocks, snode[c] # NoNode PROVE live'[c] = live[c]
    BY DEF SKept
  <2>2. live[c] = "slist"
    BY <1>1, <2>1 DEF SInv
  <2>3. c \notin ToSet(bs)
    BY <1>6, <2>2, SizeFacts
  <2> QED BY <1>5, <2>3
<1> QED BY <1>4, <1>5, <1>6, <1>7

(* A walk that removed nodes leaves a list of the others.                      *)
LEMMA LRemovedStep ==
  ASSUME MInv, NEW w \in LWalks(LChain), NEW r, LChained(r, w.node), w.first = At(r, 1),
         ToSet(r) \cap ToSet(w.gone) = {}, ToSet(r) \cup ToSet(w.gone) = ToSet(LChain),
         IsInjective(w.gone), LRemoved(w)
  PROVE  AInv' /\ SKept /\ LInv' /\ LItems' = DataOf(r, lnode)
<1>1. /\ FreeEach(w.gone) /\ list' = w.first
      /\ lnode' = [b \in Blocks |-> IF b \in ToSet(w.gone) THEN NoNode ELSE w.node[b]]
  BY DEF LRemoved
<1>2. LChain \in Seq(Blocks)
  BY LListFacts DEF MInv
<1>3. w.gone \in Seq(Blocks)
  BY LWalkParts
<1>4. AInv' /\ SKept /\ \A c \in ToSet(LChain) \ ToSet(w.gone) : live'[c] = "list"
  <2>1. ToSet(w.gone) \subseteq ToSet(LChain)
    OBVIOUS
  <2> QED BY <1>1, <1>3, <2>1, LFreed
<1>5. LLinked(r, lnode') /\ DataOf(r, lnode') = DataOf(r, lnode)
  BY <1>1, <1>2, LRemovedFacts
<1>6. LChained(r, lnode') /\ ToSet(r) = {b \in Blocks : lnode'[b] # NoNode}
  BY <1>5 DEF LLinked
<1>7. HeldIn(r, list')
  <2>1. r \in Seq(Blocks) /\ Len(r) \in Nat
    BY <1>5, LNodeFacts
  <2>2. CASE r = <<>>
    BY <1>1, <2>2 DEF HeldIn, At
  <2>3. CASE r # <<>>
    <3>1. 1 \in 1..Len(r)
      BY <2>1, <2>3
    <3> QED BY <1>1, <2>1, <3>1, ElementFacts DEF HeldIn, At
  <2> QED BY <2>2, <2>3
<1>8. \A b \in Blocks : lnode'[b] # NoNode => live'[b] = "list"
  <2>1. ToSet(r) \subseteq ToSet(LChain) \ ToSet(w.gone)
    OBVIOUS
  <2> QED BY <1>4, <1>6, <2>1
<1>9. LInv'
  BY <1>5, <1>7, <1>8, LInvNext
<1>10. LItems' = DataOf(r, lnode')
  BY <1>6, <1>7, LChainNext
<1> QED BY <1>4, <1>5, <1>9, <1>10

(* A whole walk that removes x, once or everywhere.                            *)
LEMMA LScanStep ==
  ASSUME MInv, NEW x, NEW everywhere \in BOOLEAN, LRemoved(LScan(LChain, x, everywhere))
  PROVE  AInv' /\ SKept /\ LInv' /\ LItems' = Rid(LItems, x, everywhere)
<1> DEFINE q == LChain
           w == LScan(q, x, everywhere)
<1>1. LLinked(q, lnode) /\ HeldIn(q, list)
  BY LListFacts DEF MInv
<1>2. LRemoved(w)
  OBVIOUS
<1> HIDE DEF w, q
<1>3. PICK r : LWalked(q, x, everywhere, Len(q), w, r)
  <2>1. LLinked(q, lnode) /\ HeldIn(q, list) /\ w = LScan(q, x, everywhere)
    BY <1>1 DEF w
  <2>2. \E r : LWalked(q, x, everywhere, Len(q), w, r)
    BY <2>1, LScanFacts
  <2> QED BY <2>2
<1>4. /\ w \in LWalks(q) /\ LChained(r, w.node) /\ w.first = At(r, 1)
      /\ Progress(q, lnode, x, everywhere, Len(q), r, w.gone)
  BY <1>3 DEF LWalked
<1>5. ToSet(r) \cap ToSet(w.gone) = {} /\ ToSet(r) \cup ToSet(w.gone) = ToSet(q)
      /\ IsInjective(w.gone)
  BY <1>4 DEF Progress, Scanned
<1>6. AInv' /\ SKept /\ LInv' /\ LItems' = DataOf(r, lnode)
  BY <1>2, <1>4, <1>5, LRemovedStep DEF q
<1>7. Listed(q, lnode)
  BY <1>1, LListed
<1>8. DataOf(r, lnode) = Rid(DataOf(q, lnode), x, everywhere)
  BY <1>4, <1>7, VisitEnd
<1> QED BY <1>6, <1>8 DEF LItems, q

(* hev_list_remove.                                                            *)
LEMMA LRemoveStep ==
  ASSUME MInv, NEW x, ListRemove(x)
  PROVE  AInv' /\ SKept /\ LInv' /\ LItems' = RemoveFirst(LItems, x)
BY LScanStep DEF ListRemove, Rid

(* hev_list_remove_all.                                                        *)
LEMMA LRemoveAllStep ==
  ASSUME MInv, NEW x, ListRemoveAll(x)
  PROVE  AInv' /\ SKept /\ LInv' /\ LItems' = Without(LItems, x)
BY LScanStep DEF ListRemoveAll, Rid

(* The data of the list of hev-list.c.                                         *)
LEMMA LItemsFacts ==
  ASSUME LInv
  PROVE  LItems \in Seq(Data) /\ Len(LItems) = Len(LChain) /\ DOMAIN LItems = 1..Len(LChain)
<1>1. Listed(LChain, lnode)
  BY LListFacts, LListed
<1>2. DataOf(LChain, lnode) \in Seq(Data) /\ Len(DataOf(LChain, lnode)) = Len(LChain)
  BY <1>1, ListedFacts
<1> QED BY <1>2 DEF LItems

(* hev_list_append.                                                            *)
LEMMA LAppendStep ==
  ASSUME MInv, NEW x, NEW b, ListAppend(x, b)
  PROVE  /\ AInv' /\ SKept /\ (x \in Data => LInv')
         /\ LItems' = Append(LItems, x)
<1>1. LInv
  BY DEF MInv
<1>2. /\ LChain \in Seq(Blocks) /\ Len(LChain) \in Nat /\ LItems \in Seq(Data)
      /\ Len(LItems) = Len(LChain) /\ HeldIn(LChain, list)
  BY <1>1, LListFacts, LItemsFacts
<1> DEFINE m == Len(LChain)
           head == IF list = Null THEN b ELSE list
<1>3. m \in 0..Len(LChain) /\ LastOf(LChain) = At(LChain, m) /\ At(LChain, m + 1) = Null
  BY <1>2, AtFacts
<1>4. head = b \/ head \in ToSet(LChain)
  BY <1>2 DEF HeldIn
<1>5. LInsert(x, b, At(LChain, m), At(LChain, m + 1), head)
  BY <1>3 DEF ListAppend
<1> HIDE DEF m, head
<1>6. LItems' = InsertAt(LItems, m + 1, x) /\ AInv' /\ SKept /\ (x \in Data => LInv')
  BY <1>3, <1>4, <1>5, LInsertStep
<1>7. InsertAt(LItems, Len(LItems) + 1, x) = Append(LItems, x)
  BY <1>2, EndsFacts
<1> QED BY <1>2, <1>6, <1>7 DEF m

(* hev_list_prepend.                                                           *)
LEMMA LPrependStep ==
  ASSUME MInv, NEW x, NEW b, ListPrepend(x, b)
  PROVE  /\ AInv' /\ SKept /\ (x \in Data => LInv')
         /\ LItems' = <<x>> \o LItems
<1>1. LInv
  BY DEF MInv
<1>2. /\ LChain \in Seq(Blocks) /\ Len(LChain) \in Nat /\ LItems \in Seq(Data)
      /\ LFirst = At(LChain, 1)
  BY <1>1, LListFacts, LItemsFacts
<1> DEFINE m == 0
<1>3. m \in 0..Len(LChain) /\ Null = At(LChain, m) /\ At(LChain, m + 1) = LFirst /\ m + 1 = 1
  BY <1>2, AtFacts
<1>4. LInsert(x, b, At(LChain, m), At(LChain, m + 1), b)
  BY <1>3 DEF ListPrepend
<1> HIDE DEF m
<1>5. LItems' = InsertAt(LItems, m + 1, x) /\ AInv' /\ SKept /\ (x \in Data => LInv')
  BY <1>3, <1>4, LInsertStep
<1>6. InsertAt(LItems, 1, x) = <<x>> \o LItems
  BY <1>2, EndsFacts
<1> QED BY <1>3, <1>5, <1>6

(* An insertion at place n.                                                    *)
LEMMA LInsertAtStep ==
  ASSUME MInv, NEW x, NEW b, NEW n \in 1..(Len(LChain) + 1), LInsertAt(x, b, n)
  PROVE  /\ AInv' /\ SKept /\ (x \in Data => LInv')
         /\ LItems' = InsertAt(LItems, n, x)
<1>1. LInv
  BY DEF MInv
<1>2. LChain \in Seq(Blocks) /\ Len(LChain) \in Nat /\ LFirst = At(LChain, 1)
  BY <1>1, LListFacts
<1> DEFINE m == n - 1
           head == IF n = 1 THEN b ELSE LFirst
<1>3. m \in 0..Len(LChain) /\ m + 1 = n
  BY <1>2
<1>4. head = b \/ head \in ToSet(LChain)
  <2>1. n # 1 => 1 \in 1..Len(LChain)
    BY <1>2
  <2> QED BY <1>2, <2>1, AtFacts, ElementFacts
<1>5. LInsert(x, b, At(LChain, m), At(LChain, m + 1), head)
  BY <1>3 DEF LInsertAt
<1> HIDE DEF m, head
<1>6. LItems' = InsertAt(LItems, m + 1, x) /\ AInv' /\ SKept /\ (x \in Data => LInv')
  BY <1>3, <1>4, <1>5, LInsertStep
<1> QED BY <1>3, <1>6

(* hev_list_insert.                                                            *)
LEMMA LInsertPositionStep ==
  ASSUME MInv, NEW x, NEW b, NEW n \in Nat, ListInsert(x, b, n)
  PROVE  /\ AInv' /\ SKept /\ (x \in Data => LInv')
         /\ n \in 0..Len(LChain) => LItems' = InsertAt(LItems, n + 1, x)
<1>1. Len(LChain) \in Nat
  BY LListFacts DEF MInv
<1> DEFINE k == Min({n, Len(LChain)}) + 1
<1>2. k \in 1..(Len(LChain) + 1) /\ (n \in 0..Len(LChain) => k = n + 1)
  <2>1. Min({n, Len(LChain)}) \in 0..Len(LChain)
        /\ (n \in 0..Len(LChain) => Min({n, Len(LChain)}) = n)
    BY <1>1, MinFacts
  <2> QED BY <1>1, <2>1
<1>3. LInsertAt(x, b, k)
  BY DEF ListInsert
<1> HIDE DEF k
<1>4. AInv' /\ SKept /\ (x \in Data => LInv') /\ LItems' = InsertAt(LItems, k, x)
  BY <1>2, <1>3, LInsertAtStep
<1> QED BY <1>2, <1>4

(* hev_list_insert_before.                                                     *)
LEMMA LInsertBeforeStep ==
  ASSUME MInv, NEW x, NEW b, NEW c \in ToSet(LChain), ListInsertBefore(x, b, c)
  PROVE  /\ AInv' /\ SKept /\ (x \in Data => LInv')
         /\ \A n \in 1..Len(LChain) : c = LChain[n] => LItems' = InsertAt(LItems, n, x)
<1>1. LChain \in Seq(Blocks) /\ IsInjective(LChain) /\ Len(LChain) \in Nat
  BY LListFacts DEF MInv
<1> DEFINE k == Place(LChain, c)
<1>2. k \in 1..Len(LChain) /\ \A n \in 1..Len(LChain) : c = LChain[n] => n = k
  BY <1>1, PlaceFacts
<1>3. k \in 1..(Len(LChain) + 1)
  BY <1>1, <1>2
<1>4. LInsertAt(x, b, k)
  BY DEF ListInsertBefore
<1> HIDE DEF k
<1>5. AInv' /\ SKept /\ (x \in Data => LInv') /\ LItems' = InsertAt(LItems, k, x)
  BY <1>3, <1>4, LInsertAtStep
<1> QED BY <1>2, <1>5

(* hev_list_free.                                                              *)
LEMMA LFreeStep ==
  ASSUME MInv, ListFree
  PROVE  AInv' /\ SKept /\ LInv'
<1> DEFINE bs == FreeOrder(list)
<1>1. /\ list # Null /\ FreeEach(bs) /\ list' = Null
      /\ lnode' = [b \in Blocks |-> IF b \in ToSet(bs) THEN NoNode ELSE lnode[b]]
  BY DEF ListFree
<1>2. /\ LChained(LChain, lnode) /\ HeldIn(LChain, list)
      /\ ToSet(LChain) = {c \in Blocks : lnode[c] # NoNode}
  BY LListFacts DEF MInv
<1>3. list \in ToSet(LChain)
  BY <1>1, <1>2 DEF HeldIn
<1>4. bs = Walk(lnode[list]["next"], lnode, "next") \o Walk(list, lnode, "prev")
  BY DEF FreeOrder, Following
<1> HIDE DEF bs
<1>5. bs \in Seq(Blocks) /\ IsInjective(bs) /\ ToSet(bs) = ToSet(LChain)
  <2>1. LChained(LChain, lnode) /\ list \in ToSet(LChain)
        /\ bs = Walk(lnode[list]["next"], lnode, "next") \o Walk(list, lnode, "prev")
    BY <1>2, <1>3, <1>4
  <2>2. Enumerates(bs, LChain)
    BY ONLY <2>1, FreeOrderFacts
  <2> QED BY <2>2 DEF Enumerates
<1>6. AInv' /\ SKept
  BY <1>1, <1>5, LFreed
<1>7. \A b \in Blocks : lnode'[b] = NoNode
  BY <1>1, <1>2, <1>5
<1>8. lnode' \in [Blocks -> LNodes \cup {NoNode}]
  <2>1. lnode' = [b \in Blocks |-> lnode'[b]]
    BY <1>1
  <2> QED BY <1>7, <2>1
<1>9. LLinked(<<>>, lnode') /\ HeldIn(<<>>, list')
  <2>1. LChained(<<>>, lnode')
    BY DEF LChained, IsChain, IsInjective, At
  <2>2. ToSet(<<>>) = {}
    BY DEF ToSet
  <2> QED BY <1>1, <1>7, <1>8, <2>1, <2>2 DEF LLinked, HeldIn
<1>10. LInv'
  BY <1>7, <1>9, LInvNext
<1> QED BY <1>6, <1>10

(* hev_list_next and hev_list_previous.                                        *)
LEMMA LMoveStep ==
  ASSUME MInv, ListMove
  PROVE  AInv' /\ SKept /\ LInv' /\ LItems' = LItems
<1>1. /\ list # Null /\ UNCHANGED <<lnode, allocator_vars>>
      /\ list' \in {Following(list), Previous(list)} /\ list' # Null
  BY DEF ListMove
<1>2. AInv' /\ LKept /\ SKept
  BY <1>1, AllocatorStays DEF MInv
<1>3. /\ LLinked(LChain, lnode) /\ LChained(LChain, lnode) /\ HeldIn(LChain, list)
      /\ LChain \in Seq(Blocks) /\ Len(LChain) \in Nat
  BY LListFacts DEF MInv
<1>4. PICK n \in 1..Len(LChain) : list = LChain[n]
  BY <1>1, <1>3, LListFacts DEF HeldIn, MInv
<1>5. Following(list) = At(LChain, n + 1) /\ Previous(list) = At(LChain, n - 1)
  BY <1>3, <1>4 DEF LChained, IsChain, Following, Previous
<1>6. PICK m \in 1..Len(LChain) : list' = LChain[m]
  BY <1>1, <1>3, <1>5, AtFacts
<1>7. HeldIn(LChain, list')
  BY <1>3, <1>6, ElementFacts DEF HeldIn
<1>8. LLinked(LChain, lnode') /\ LChained(LChain, lnode')
  BY <1>1, <1>3
<1>9. \A b \in Blocks : lnode'[b] # NoNode => live'[b] = "list"
  BY <1>1, <1>2 DEF LKept, MInv, LInv
<1>10. LInv'
  BY <1>7, <1>8, <1>9, LInvNext
<1>11. LItems' = DataOf(LChain, lnode')
  BY <1>7, <1>8, LChainNext
<1> QED BY <1>1, <1>2, <1>10, <1>11 DEF LItems

(* hev_list_set_data.                                                          *)
LEMMA LSetDataStep ==
  ASSUME MInv, NEW x \in Data, NEW b, ListSetData(b, x)
  PROVE  AInv' /\ SKept /\ LInv'
<1>1. b \in ToSet(LChain) /\ lnode' = [lnode EXCEPT ![b].data = x] /\ list' = list
      /\ UNCHANGED allocator_vars
  BY DEF ListSetData
<1>2. AInv' /\ LKept /\ SKept
  BY <1>1, AllocatorStays DEF MInv
<1>3. /\ LLinked(LChain, lnode) /\ LChained(LChain, lnode) /\ HeldIn(LChain, list)
      /\ ToSet(LChain) = {c \in Blocks : lnode[c] # NoNode}
      /\ LChain \in Seq(Blocks) /\ b \in Blocks /\ lnode[b] \in LNodes
  BY <1>1, LListFacts DEF MInv
<1>4. lnode \in [Blocks -> LNodes \cup {NoNode}]
  BY <1>3 DEF LLinked
<1>5. /\ lnode'[b] = [lnode[b] EXCEPT !.data = x]
      /\ \A c \in Blocks : c # b => lnode'[c] = lnode[c]
      /\ DOMAIN lnode' = Blocks /\ lnode' = [c \in Blocks |-> lnode'[c]]
  BY <1>1, <1>3, <1>4
<1>6. /\ lnode'[b] \in LNodes /\ lnode'[b].next = lnode[b].next /\ lnode'[b].prev = lnode[b].prev
  BY <1>3, <1>5 DEF LNodes
<1>7. lnode' \in [Blocks -> LNodes \cup {NoNode}]
  BY <1>4, <1>5, <1>6
<1>8. \A c \in Blocks : /\ lnode'[c] # NoNode <=> lnode[c] # NoNode
                        /\ lnode'[c].next = lnode[c].next /\ lnode'[c].prev = lnode[c].prev
  BY <1>3, <1>5, <1>6, ListAssumption
<1>9. LChained(LChain, lnode')
  <2>1. \A n \in 1..Len(LChain) : LChain[n] \in Blocks
    BY <1>3, AtFacts
  <2> QED BY <1>3, <1>8, <2>1 DEF LChained, IsChain
<1>10. LLinked(LChain, lnode') /\ HeldIn(LChain, list')
  BY <1>1, <1>3, <1>7, <1>8, <1>9 DEF LLinked
<1>11. \A c \in Blocks : lnode'[c] # NoNode => live'[c] = "list"
  BY <1>2, <1>8 DEF LKept, MInv, LInv
<1>12. LInv'
  BY <1>10, <1>11, LInvNext
<1> QED BY <1>2, <1>12

(* Every call of hev-list.c.                                                   *)
LEMMA ListStep ==
  ASSUME MInv, ListNext, UNCHANGED slist_vars
  PROVE  MInv'
<1>1. AInv' /\ SKept /\ LInv'
  <2>1. CASE ListFree
    BY <2>1, LFreeStep
  <2>2. CASE ListMove
    BY <2>2, LMoveStep
  <2>3. ASSUME NEW x \in Data, ListRemove(x) PROVE AInv' /\ SKept /\ LInv'
    BY <2>3, LRemoveStep
  <2>4. ASSUME NEW x \in Data, ListRemoveAll(x) PROVE AInv' /\ SKept /\ LInv'
    BY <2>4, LRemoveAllStep
  <2>5. ASSUME NEW x \in Data, NEW b, ListAppend(x, b) PROVE AInv' /\ SKept /\ LInv'
    BY <2>5, LAppendStep
  <2>6. ASSUME NEW x \in Data, NEW b, ListPrepend(x, b) PROVE AInv' /\ SKept /\ LInv'
    BY <2>6, LPrependStep
  <2>7. ASSUME NEW x \in Data, NEW b, ListSetData(b, x) PROVE AInv' /\ SKept /\ LInv'
    BY <2>7, LSetDataStep
  <2>8. ASSUME NEW x \in Data, NEW b, NEW n \in 0..Cardinality(Blocks), ListInsert(x, b, n)
        PROVE  AInv' /\ SKept /\ LInv'
    <3>1. n \in Nat
      BY NullFacts
    <3> QED BY <2>8, <3>1, LInsertPositionStep
  <2>9. ASSUME NEW x \in Data, NEW b, NEW c \in ToSet(LChain), ListInsertBefore(x, b, c)
        PROVE  AInv' /\ SKept /\ LInv'
    BY <2>9, LInsertBeforeStep
  <2> QED BY <2>1, <2>2, <2>3, <2>4, <2>5, <2>6, <2>7, <2>8, <2>9 DEF ListNext
<1>2. SInv'
  BY <1>1, SUnchanged DEF MInv
<1> QED BY <1>1, <1>2 DEF MInv

-----------------------------------------------------------------------------
(* The invariant of the specification, and the theorems.                       *)

(* What the program does with its other blocks leaves the nodes alone.         *)
LEMMA OtherStep ==
  ASSUME MInv, OtherNext, UNCHANGED <<slist_vars, list_vars>>
  PROVE  MInv'
<1>1. AInv /\ SInv /\ LInv
  BY DEF MInv
<1>2. AllocatorNext
  BY DEF OtherNext, AllocatorNext
<1>3. AInv'
  BY <1>1, <1>2, AllocatorStep
<1>4. ASSUME NEW c \in Blocks, IsNode(c) PROVE live'[c] = live[c]
  <2>1. live \in [Blocks -> AllSizes \cup {NotLive}] /\ c \in Live
    BY <1>1, <1>4, SizeFacts DEF AInv, TypeOK, IsNode, SInv, LInv, Live
  <2>2. ASSUME NEW a \in Slices, SliceNew(a) \/ AllocatorRef(a) \/ AllocatorUnref(a)
        PROVE  live' = live
    BY <2>2 DEF SliceNew, AllocatorRef, AllocatorUnref
  <2>3. ASSUME NEW d, SetDefault(d) PROVE live' = live
    BY <2>3 DEF SetDefault
  <2>4. ASSUME NEW b \in Blocks, ~IsNode(b), Free(b) PROVE live'[c] = live[c]
    BY <1>4, <2>1, <2>4 DEF Free
  <2>5. ASSUME NEW s \in AllSizes, NEW b, Alloc(s, b) PROVE live'[c] = live[c]
    <3>1. b \in Blocks \ Live /\ live' = [live EXCEPT ![b] = s]
      BY <1>1, <2>5, AllocFacts
    <3> QED BY <2>1, <3>1
  <2> QED BY <2>2, <2>3, <2>4, <2>5 DEF OtherNext
<1>5. SKept /\ LKept
  BY <1>4 DEF SKept, LKept, IsNode
<1>6. SInv' /\ LInv'
  BY <1>1, <1>5, SUnchanged, LUnchanged
<1> QED BY <1>3, <1>6 DEF MInv

(* The invariant holds at the start,                                           *)
LEMMA MemoryStart == MemoryInit => MInv
<1>1. SUFFICES ASSUME MemoryInit PROVE MInv
  OBVIOUS
<1>2. AInv
  BY <1>1, AllocatorInit DEF MemoryInit
<1>3. /\ slist = Null /\ list = Null
      /\ snode = [b \in Blocks |-> NoNode] /\ lnode = [b \in Blocks |-> NoNode]
  BY <1>1 DEF MemoryInit, SListInit, ListInit
<1>4. ToSet(<<>>) = {} /\ IsInjective(<<>>)
  BY DEF ToSet, IsInjective
<1>5. IsChain(<<>>, Null, snode, "next") /\ LChained(<<>>, lnode) /\ HeldIn(<<>>, list)
  BY <1>3, <1>4 DEF IsChain, LChained, At, HeldIn
<1>6. SInv
  <2>1. Walk(Null, snode, "next") = <<>>
    BY <1>5, WalkIsChain
  <2>2. SChain = <<>> /\ slist # Wild
    BY <1>3, <2>1, SListAssumption DEF SChain
  <2>3. SLinked(<<>>, slist, snode)
    BY <1>3, <1>4, <1>5 DEF SLinked
  <2> QED BY <1>3, <2>2, <2>3 DEF SInv
<1>7. LInv
  <2>1. LastOf(Walk(list, lnode, "prev")) = At(<<>>, 1) /\ Walk(At(<<>>, 1), lnode, "next") = <<>>
    BY <1>5, FirstFacts
  <2>2. LChain = <<>>
    BY <2>1 DEF LChain, LFirst
  <2>3. LLinked(<<>>, lnode)
    BY <1>3, <1>4, <1>5 DEF LLinked
  <2> QED BY <1>3, <1>5, <2>2, <2>3 DEF LInv
<1> QED BY <1>2, <1>6, <1>7 DEF MInv

(* every step keeps it,                                                        *)
LEMMA MemoryStep == MInv /\ [MemoryNext]_vars => MInv'
<1>1. SUFFICES ASSUME MInv, [MemoryNext]_vars PROVE MInv'
  OBVIOUS
<1>2. CASE OtherNext /\ UNCHANGED <<slist_vars, list_vars>>
  BY <1>1, <1>2, OtherStep
<1>3. CASE SListNext /\ UNCHANGED list_vars
  BY <1>1, <1>3, SListStep
<1>4. CASE ListNext /\ UNCHANGED slist_vars
  BY <1>1, <1>4, ListStep
<1>5. CASE UNCHANGED vars
  <2>1. UNCHANGED allocator_vars /\ UNCHANGED slist_vars /\ UNCHANGED list_vars
    BY <1>5 DEF vars
  <2>2. AInv' /\ LKept /\ SKept
    BY <1>1, <2>1, AllocatorStays DEF MInv
  <2> QED BY <1>1, <2>1, <2>2, SUnchanged, LUnchanged DEF MInv
<1> QED BY <1>1, <1>2, <1>3, <1>4, <1>5 DEF MemoryNext

(* and so it always holds.                                                     *)
LEMMA MemoryInvariant == MemorySpec => []MInv
BY MemoryStart, MemoryStep, PTL DEF MemorySpec

(* The calls of hev-slist.c, hev-queue.c and hev-list.c use the default        *)
(* allocator as any program does, several frees in a call included.            *)
THEOREM ListsKeepTypes == MemorySpec => []TypeOK
<1>1. MInv => TypeOK
  BY DEF MInv, AInv
<1> QED BY <1>1, MemoryInvariant, PTL

(* No call of the lists loses a block or gives one back twice.                 *)
THEOREM ListsLoseNothing == MemorySpec => []NothingLost
<1>1. MInv => NothingLost
  BY DEF MInv, AInv
<1> QED BY <1>1, MemoryInvariant, PTL

(* The bound and the count of a slice allocator are right when a list call     *)
(* frees several nodes at once, until a block goes through another allocator.  *)
THEOREM ListsCountExactly == MemorySpec => []CachedExact
<1>1. MInv => CachedExact
  BY DEF MInv, AInv
<1> QED BY <1>1, MemoryInvariant, PTL

(* A node that a list frees will go to a free list of its own size.            *)
THEOREM NodesGoBack == MemorySpec => []GoesBack
<1>1. MInv => GoesBack
  BY DEF MInv, AInv
<1> QED BY <1>1, MemoryInvariant, PTL

(* hev-slist.c and hev-list.c: the nodes in use are those of the two chains,   *)
(* each in one of them.                                                        *)
THEOREM ChainsOwnTheirNodes == MemorySpec => []NodesOwned
<1>1. MInv => NodesOwned
  <2>1. SUFFICES ASSUME MInv, slist # Wild
                 PROVE  /\ ToSet(SChain) = {b \in Blocks : snode[b] # NoNode}
                        /\ ToSet(LChain) = {b \in Blocks : lnode[b] # NoNode}
                        /\ ToSet(SChain) \cap ToSet(LChain) = {}
                        /\ \A b \in ToSet(SChain) : live[b] = "slist" /\ snode[b] \in SNodes
                        /\ \A b \in ToSet(LChain) : live[b] = "list" /\ lnode[b] \in LNodes
    BY DEF NodesOwned
  <2>2. SInv /\ LInv
    BY <2>1 DEF MInv
  <2>3. ToSet(SChain) = {b \in Blocks : snode[b] # NoNode} /\ SLinked(SChain, slist, snode)
    BY <2>1, <2>2, SListFacts
  <2>4. ToSet(LChain) = {b \in Blocks : lnode[b] # NoNode}
        /\ \A c \in ToSet(LChain) : lnode[c] \in LNodes
    BY <2>2, LListFacts
  <2>5. /\ \A b \in ToSet(SChain) : live[b] = "slist"
        /\ \A b \in ToSet(LChain) : live[b] = "list"
    BY <2>2, <2>3, <2>4 DEF SInv, LInv
  <2>6. \A b \in ToSet(SChain) : snode[b] \in SNodes
    BY <2>3, SNodeFacts
  <2> QED BY <2>3, <2>4, <2>5, <2>6, SizeFacts
<1> QED BY <1>1, MemoryInvariant, PTL

(* hev-list.c: prev and next of the nodes are inverse.                         *)
THEOREM LinksAreInverse == MemorySpec => []LinksInverse
<1>1. MInv => LinksInverse
  <2>1. SUFFICES ASSUME MInv, NEW b \in ToSet(LChain)
                 PROVE  /\ {Previous(b), Following(b)} \subseteq ToSet(LChain) \cup {Null}
                        /\ \A c \in ToSet(LChain) : Previous(c) = b <=> Following(b) = c
    BY DEF LinksInverse
  <2>2. /\ LChain \in Seq(Blocks) /\ Len(LChain) \in Nat /\ IsInjective(LChain)
        /\ \A c \in ToSet(LChain) : \E n \in 1..Len(LChain) : c = LChain[n]
        /\ LChained(LChain, lnode)
    BY <2>1, LListFacts DEF MInv
  <2>3. \A n \in 1..Len(LChain) : /\ Following(LChain[n]) = At(LChain, n + 1)
                                  /\ Previous(LChain[n]) = At(LChain, n - 1)
    BY <2>2 DEF LChained, IsChain, Following, Previous
  <2>4. \A n \in Int : At(LChain, n) \in ToSet(LChain) \cup {Null}
    BY <2>2, ElementFacts DEF At
  <2>5. PICK n \in 1..Len(LChain) : b = LChain[n]
    BY <2>1, <2>2
  <2>6. {Previous(b), Following(b)} \subseteq ToSet(LChain) \cup {Null}
    BY <2>2, <2>3, <2>4, <2>5
  <2>7. ASSUME NEW c \in ToSet(LChain) PROVE Previous(c) = b <=> Following(b) = c
    <3>1. PICK m \in 1..Len(LChain) : c = LChain[m]
      BY <2>2
    <3>2. Previous(c) = At(LChain, m - 1) /\ Following(b) = At(LChain, n + 1)
      BY <2>3, <2>5, <3>1
    <3>3. \A i \in Int : (At(LChain, i) = b => (i = n)) /\ (At(LChain, i) = c => (i = m))
      <4> TAKE i \in Int
      <4>1. b # Null /\ c # Null
        BY <2>2, <2>5, <3>1, AtFacts, NullFacts
      <4>2. i \notin 1..Len(LChain) => At(LChain, i) = Null
        BY DEF At
      <4>3. i \in 1..Len(LChain) => At(LChain, i) = LChain[i]
        BY DEF At
      <4>4. \A k, l \in 1..Len(LChain) : LChain[k] = LChain[l] => k = l
        BY <2>2, ElementFacts
      <4> QED BY <2>5, <3>1, <4>1, <4>2, <4>3, <4>4
    <3>4. At(LChain, n) = b /\ At(LChain, m) = c
      BY <2>5, <3>1 DEF At
    <3>5. (Previous(c) = b) <=> (m - 1 = n)
      <4>1. m - 1 \in Int /\ Previous(c) = At(LChain, m - 1)
        BY <2>2, <3>2
      <4>2. At(LChain, m - 1) = b => (m - 1 = n)
        BY ONLY <3>3, <4>1
      <4> QED BY <3>4, <4>1, <4>2
    <3>6. (Following(b) = c) <=> (n + 1 = m)
      <4>1. n + 1 \in Int /\ Following(b) = At(LChain, n + 1)
        BY <2>2, <3>2
      <4>2. At(LChain, n + 1) = c => (n + 1 = m)
        BY ONLY <3>3, <4>1
      <4> QED BY <3>4, <4>1, <4>2
    <3> QED BY <2>2, <3>5, <3>6
  <2> QED BY <2>6, <2>7
<1> QED BY <1>1, MemoryInvariant, PTL

(* Each call of hev-slist.c does to the data what its name says.               *)
THEOREM SListActsAsSequence == MemorySpec => SListIsSequence
<1>1. MInv => SListCalls
  <2>1. SUFFICES ASSUME MInv, slist # Wild, NEW b \in Blocks
        PROVE  /\ LET x == snode'[b].data IN
                  /\ SListAppend(x, b) => SItems' = Append(SItems, x)
                  /\ SListPrepend(x, b) => SItems' = <<x>> \o SItems
                  /\ \A n \in 0..Len(SItems) :
                       SListInsert(x, b, n) => SItems' = InsertAt(SItems, n + 1, x)
                  /\ \A n \in DOMAIN SItems :
                       /\ SListInsertBefore(x, b, SChain[n]) => SItems' = InsertAt(SItems, n, x)
                       /\ SListInsertAfter(x, b, SChain[n]) => SItems' = InsertAt(SItems, n + 1, x)
               /\ snode[b] # NoNode /\ snode'[b] = NoNode =>
                  LET x == snode[b].data IN
                  /\ SListRemove(x) => SItems' = RemoveFirst(SItems, x)
                  /\ SListRemoveAll(x) => SItems' = Without(SItems, x)
                  /\ QueuePop => SItems' = Tail(SItems)
                  /\ SListRemoveHead /\ (b \in heap'.taken) => SItems' = Tail(SItems)
                  /\ \A n \in DOMAIN SItems :
                       SListRemoveNext(SChain[n]) => SItems' = RemoveAt(SItems, n + 1)
    BY DEF SListCalls, SListAppend, SListPrepend, SListInsert, SListInsertBefore, SListInsertAfter,
           SInsertAt, SInsert, SListRemove, SListRemoveAll, SListRemoveNext, SRemoved, QueuePop,
           SListRemoveHead
  <2>2. /\ Len(SItems) = Len(SChain) /\ DOMAIN SItems = 1..Len(SChain) /\ Len(SChain) \in Nat
        /\ SChain \in Seq(Blocks)
    BY <2>1, SListFacts, SItemsFacts DEF MInv
  <2>3. \A n \in 1..Len(SChain) : SChain[n] \in ToSet(SChain)
    BY <2>2, ElementFacts
  <2>4. ASSUME NEW x
        PROVE  /\ SListAppend(x, b) => SItems' = Append(SItems, x)
               /\ SListPrepend(x, b) => SItems' = <<x>> \o SItems
               /\ \A n \in 0..Len(SItems) :
                    SListInsert(x, b, n) => SItems' = InsertAt(SItems, n + 1, x)
               /\ \A n \in DOMAIN SItems :
                    /\ SListInsertBefore(x, b, SChain[n]) => SItems' = InsertAt(SItems, n, x)
                    /\ SListInsertAfter(x, b, SChain[n]) => SItems' = InsertAt(SItems, n + 1, x)
    <3>1. SListAppend(x, b) => SItems' = Append(SItems, x)
      BY <2>1, SAppendStep
    <3>2. SListPrepend(x, b) => SItems' = <<x>> \o SItems
      BY <2>1, SPrependStep
    <3>3. ASSUME NEW n \in 0..Len(SItems), SListInsert(x, b, n)
          PROVE  SItems' = InsertAt(SItems, n + 1, x)
      <4>1. n \in Nat /\ n \in 0..Len(SChain)
        BY <2>2
      <4> QED BY <2>1, <3>3, <4>1, SInsertPositionStep
    <3>4. ASSUME NEW n \in DOMAIN SItems, SListInsertBefore(x, b, SChain[n])
          PROVE  SItems' = InsertAt(SItems, n, x)
      <4>1. n \in 1..Len(SChain) /\ SChain[n] \in ToSet(SChain)
        BY <2>2, <2>3
      <4> QED BY <2>1, <3>4, <4>1, SInsertBeforeStep
    <3>5. ASSUME NEW n \in DOMAIN SItems, SListInsertAfter(x, b, SChain[n])
          PROVE  SItems' = InsertAt(SItems, n + 1, x)
      <4>1. n \in 1..Len(SChain) /\ SChain[n] \in ToSet(SChain) \cup {Null}
        BY <2>2, <2>3
      <4> QED BY <2>1, <3>5, <4>1, SInsertAfterStep
    <3> QED BY <3>1, <3>2, <3>3, <3>4, <3>5
  <2>5. ASSUME NEW x
        PROVE  /\ SListRemove(x) => SItems' = RemoveFirst(SItems, x)
               /\ SListRemoveAll(x) => SItems' = Without(SItems, x)
    BY <2>1, SRemoveStep, SRemoveAllStep
  <2>6. QueuePop => SItems' = Tail(SItems)
    BY <2>1, QueuePopStep
  <2>7. ASSUME SListRemoveHead, b \in heap'.taken, snode[b] # NoNode, snode'[b] = NoNode
        PROVE  SItems' = Tail(SItems)
    BY <2>1, <2>7, SRemoveHeadStep
  <2>8. ASSUME NEW n \in DOMAIN SItems, SListRemoveNext(SChain[n])
        PROVE  SItems' = RemoveAt(SItems, n + 1)
    BY <2>1, <2>2, <2>8, SRemoveNextStep
  <2> QED BY <2>4, <2>5, <2>6, <2>7, <2>8
<1>2. MInv => [SListCalls]_slist_vars
  BY <1>1
<1> QED BY <1>2, MemoryInvariant, PTL DEF SListIsSequence

(* Each call of hev-list.c does to the data what its name says.                *)
THEOREM ListActsAsSequence == MemorySpec => ListIsSequence
<1>1. MInv => ListCalls
  <2>1. SUFFICES ASSUME MInv
        PROVE  /\ ListMove => UNCHANGED LItems
               /\ \A x, b :
                    /\ ListAppend(x, b) => LItems' = Append(LItems, x)
                    /\ ListPrepend(x, b) => LItems' = <<x>> \o LItems
                    /\ \A n \in 0..Len(LItems) :
                         ListInsert(x, b, n) => LItems' = InsertAt(LItems, n + 1, x)
                    /\ \A n \in DOMAIN LItems :
                         ListInsertBefore(x, b, LChain[n]) => LItems' = InsertAt(LItems, n, x)
                    /\ ListRemove(x) => LItems' = RemoveFirst(LItems, x)
                    /\ ListRemoveAll(x) => LItems' = Without(LItems, x)
    BY DEF ListCalls
  <2>2. /\ Len(LItems) = Len(LChain) /\ DOMAIN LItems = 1..Len(LChain) /\ Len(LChain) \in Nat
        /\ LChain \in Seq(Blocks)
    BY <2>1, LListFacts, LItemsFacts DEF MInv
  <2>3. \A n \in 1..Len(LChain) : LChain[n] \in ToSet(LChain)
    BY <2>2, ElementFacts
  <2>4. ListMove => UNCHANGED LItems
    BY <2>1, LMoveStep
  <2>5. ASSUME NEW x, NEW b
        PROVE  /\ ListAppend(x, b) => LItems' = Append(LItems, x)
               /\ ListPrepend(x, b) => LItems' = <<x>> \o LItems
               /\ ListRemove(x) => LItems' = RemoveFirst(LItems, x)
               /\ ListRemoveAll(x) => LItems' = Without(LItems, x)
    BY <2>1, LAppendStep, LPrependStep, LRemoveStep, LRemoveAllStep
  <2>6. ASSUME NEW x, NEW b, NEW n \in 0..Len(LItems), ListInsert(x, b, n)
        PROVE  LItems' = InsertAt(LItems, n + 1, x)
    <3>1. n \in Nat /\ n \in 0..Len(LChain)
      BY <2>2
    <3> QED BY <2>1, <2>6, <3>1, LInsertPositionStep
  <2>7. ASSUME NEW x, NEW b, NEW n \in DOMAIN LItems, ListInsertBefore(x, b, LChain[n])
        PROVE  LItems' = InsertAt(LItems, n, x)
    <3>1. n \in 1..Len(LChain) /\ LChain[n] \in ToSet(LChain)
      BY <2>2, <2>3
    <3> QED BY <2>1, <2>7, <3>1, LInsertBeforeStep
  <2> QED BY <2>4, <2>5, <2>6, <2>7
<1>2. MInv => [ListCalls]_list_vars
  BY <1>1
<1> QED BY <1>2, MemoryInvariant, PTL DEF ListIsSequence

=============================================================================
