---------------------------- MODULE ServersProofs ----------------------------
(* Theorems about Servers, for any clients, sessions and sizes: no edge that   *)
(* epoll reports once is forgotten by the handler of either server, and        *)
(* connections, sockets and places in the loop live and end together.  The     *)
(* inductive invariant says where every edge went that was not dealt with:     *)
(* into revents of a queued descriptor object, into session->revents, or it is *)
(* still to come, as the kernel knows of a writer that found no room.          *)
EXTENDS Servers, FiniteSetTheorems, TLAPS

-----------------------------------------------------------------------------
(* Sequences.                                                                *)

(* A set of numbers has a least element.                                     *)
LEMMA Least ==
  ASSUME NEW T \in SUBSET Nat, T # {}
  PROVE  \E n \in T : \A m \in T : n <= m
<1> DEFINE R == OpToRel(<, Nat)
<1>1. IsWellFoundedOn(R, Nat)
  BY NatLessThanWellFounded
<1>2. \A x, y \in Nat : <<x, y>> \in R <=> x < y
  BY DEF OpToRel
<1> HIDE DEF R
<1>3. PICK n \in T : \A m \in T : ~(<<m, n>> \in R)
  BY <1>1, WFMin
<1>4. \A m \in T : m \in Nat /\ n \in Nat /\ ~(m < n)
  BY <1>2, <1>3
<1> QED BY <1>4

(* Induction up to N, for a set S of numbers.                                  *)
LEMMA Upwards ==
  ASSUME NEW N \in Nat, NEW S, 0 \in S, \A n \in 0..(N - 1) : n \in S => n + 1 \in S
  PROVE  \A n \in 0..N : n \in S
<1> DEFINE Bad == {n \in 0..N : n \notin S}
<1> SUFFICES ASSUME Bad # {} PROVE FALSE
  OBVIOUS
<1>0. Bad \in SUBSET Nat
  OBVIOUS
<1> HIDE DEF Bad
<1>1. PICK n \in Bad : \A m \in Bad : n <= m
  BY <1>0, Least
<1> USE DEF Bad
<1>2. n \in Nat /\ n # 0 /\ n - 1 \in 0..(N - 1) /\ n - 1 \notin Bad
  BY <1>1
<1> QED BY <1>1, <1>2

(* hev_slist_append adds one item.                                           *)
LEMMA AppendFacts ==
  ASSUME NEW T, NEW s \in Seq(T), NEW e \in T
  PROVE  /\ Append(s, e) \in Seq(T) /\ ToSet(Append(s, e)) = ToSet(s) \cup {e}
         /\ IsInjective(s) /\ e \notin ToSet(s) => IsInjective(Append(s, e))
<1> DEFINE a == Append(s, e)
           n == Len(s)
<1>1. /\ n \in Nat /\ a \in Seq(T) /\ DOMAIN s = 1..n /\ DOMAIN a = 1..(n + 1)
      /\ \A i \in 1..n : a[i] = s[i]
      /\ a[n + 1] = e
  OBVIOUS
<1> HIDE DEF a, n
<1>2. ToSet(a) = ToSet(s) \cup {e}
  <2>1. \A i \in 1..(n + 1) : i \in 1..n \/ i = n + 1
    BY <1>1
  <2>2. 1..n \subseteq 1..(n + 1) /\ n + 1 \in 1..(n + 1)
    BY <1>1
  <2> QED BY <1>1, <2>1, <2>2 DEF ToSet
<1>3. ASSUME IsInjective(s), e \notin ToSet(s) PROVE IsInjective(a)
  <2>1. \A i \in 1..n : s[i] # e
    BY <1>1, <1>3 DEF ToSet
  <2>2. \A i, j \in 1..n : s[i] = s[j] => i = j
    BY <1>1, <1>3 DEF IsInjective
  <2>3. \A i \in 1..(n + 1) : i \in 1..n \/ i = n + 1
    BY <1>1
  <2> QED BY <1>1, <2>1, <2>2, <2>3 DEF IsInjective
<1> QED BY <1>1, <1>2, <1>3 DEF a

(* Two sequences without a common element make one without repetition.       *)
LEMMA ConcatFacts ==
  ASSUME NEW T, NEW s \in Seq(T), NEW t \in Seq(T)
  PROVE  /\ s \o t \in Seq(T) /\ ToSet(s \o t) = ToSet(s) \cup ToSet(t)
         /\ IsInjective(s) /\ IsInjective(t) /\ ToSet(s) \cap ToSet(t) = {} => IsInjective(s \o t)
<1> DEFINE a == s \o t
           m == Len(s)
           n == Len(t)
<1>1. /\ m \in Nat /\ n \in Nat /\ a \in Seq(T)
      /\ DOMAIN s = 1..m /\ DOMAIN t = 1..n /\ DOMAIN a = 1..(m + n)
      /\ \A i \in 1..(m + n) : a[i] = IF i <= m THEN s[i] ELSE t[i - m]
  OBVIOUS
<1> HIDE DEF a, m, n
<1>2. \A i \in 1..(m + n) : IF i <= m THEN i \in 1..m /\ a[i] = s[i]
                                     ELSE i - m \in 1..n /\ a[i] = t[i - m]
  BY <1>1
<1>3. ToSet(a) \subseteq ToSet(s) \cup ToSet(t)
  BY <1>1, <1>2 DEF ToSet
<1>4. ToSet(s) \subseteq ToSet(a)
  <2>1. \A i \in 1..m : i \in 1..(m + n) /\ a[i] = s[i]
    BY <1>1
  <2> QED BY <1>1, <2>1 DEF ToSet
<1>5. ASSUME NEW x \in ToSet(t) PROVE x \in ToSet(a)
  <2>1. PICK i \in 1..n : x = t[i]
    BY <1>1 DEF ToSet
  <2>2. m + i \in 1..(m + n) /\ a[m + i] = x
    BY <1>1, <2>1
  <2> QED BY <1>1, <2>2 DEF ToSet
<1>6. ASSUME IsInjective(s), IsInjective(t), ToSet(s) \cap ToSet(t) = {} PROVE IsInjective(a)
  <2> SUFFICES ASSUME NEW i \in 1..(m + n), NEW j \in 1..(m + n), a[i] = a[j] PROVE i = j
    BY <1>1 DEF IsInjective
  <2>1. \A k \in 1..m, l \in 1..n : s[k] # t[l]
    BY <1>1, <1>6 DEF ToSet
  <2>2. \A k, l \in 1..m : s[k] = s[l] => k = l
    BY <1>1, <1>6 DEF IsInjective
  <2>3. \A k, l \in 1..n : t[k] = t[l] => k = l
    BY <1>1, <1>6 DEF IsInjective
  <2>4. CASE i <= m /\ j <= m
    BY <1>2, <2>2, <2>4
  <2>5. CASE ~(i <= m) /\ ~(j <= m)
    <3>1. i - m = j - m
      BY <1>2, <2>3, <2>5
    <3> QED BY <1>1, <3>1
  <2>6. CASE (i <= m) # (j <= m)
    BY <1>2, <2>1, <2>6
  <2> QED BY <2>4, <2>5, <2>6
<1> QED BY <1>1, <1>3, <1>4, <1>5, <1>6 DEF a

(* The head leaves the queue, as it holds it once.                           *)
LEMMA TailFacts ==
  ASSUME NEW T, NEW q \in Seq(T), q # <<>>, IsInjective(q)
  PROVE  /\ Head(q) \in ToSet(q) /\ Tail(q) \in Seq(T) /\ ToSet(Tail(q)) = ToSet(q) \ {Head(q)}
         /\ IsInjective(Tail(q))
<1> DEFINE a == Tail(q)
           n == Len(q)
<1>1. /\ a \in Seq(T) /\ n \in Nat \ {0} /\ DOMAIN q = 1..n /\ DOMAIN a = 1..(n - 1)
      /\ Head(q) = q[1] /\ \A i \in 1..(n - 1) : a[i] = q[i + 1]
  OBVIOUS
<1> HIDE DEF a, n
<1>2. \A i, j \in 1..n : q[i] = q[j] => i = j
  BY <1>1 DEF IsInjective
<1>3. \A i \in 1..(n - 1) : i + 1 \in 1..n /\ i + 1 # 1
  BY <1>1
<1>4. \A i \in 1..n : i # 1 => i - 1 \in 1..(n - 1) /\ a[i - 1] = q[i]
  BY <1>1
<1>5. 1 \in 1..n /\ Head(q) \in ToSet(q)
  BY <1>1 DEF ToSet
<1>6. ToSet(a) = ToSet(q) \ {Head(q)}
  <2>1. ASSUME NEW e \in ToSet(a) PROVE e \in ToSet(q) \ {Head(q)}
    <3>1. PICK i \in 1..(n - 1) : e = a[i]
      BY <1>1 DEF ToSet
    <3>2. i + 1 \in 1..n /\ e = q[i + 1] /\ e # Head(q)
      BY <1>1, <1>2, <1>3, <1>5, <3>1
    <3> QED BY <1>1, <3>2 DEF ToSet
  <2>2. ASSUME NEW e \in ToSet(q), e # Head(q) PROVE e \in ToSet(a)
    <3>1. PICK i \in 1..n : e = q[i]
      BY <1>1 DEF ToSet
    <3>2. i - 1 \in 1..(n - 1) /\ a[i - 1] = e
      BY <1>1, <1>4, <2>2, <3>1
    <3> QED BY <1>1, <3>2 DEF ToSet
  <2> QED BY <2>1, <2>2
<1>7. IsInjective(a)
  <2> SUFFICES ASSUME NEW i \in 1..(n - 1), NEW j \in 1..(n - 1), a[i] = a[j] PROVE i = j
    BY <1>1 DEF IsInjective
  <2>1. i + 1 = j + 1
    BY <1>1, <1>2, <1>3
  <2> QED BY <1>1, <2>1
<1> QED BY <1>1, <1>5, <1>6, <1>7 DEF a

-----------------------------------------------------------------------------
(* The recursion of Only is well defined and goes from element to element.   *)
OnlyTo(f, q, S, n) ==
  f = [m \in 0..n |-> IF m = 0 THEN <<>>
                      ELSE IF q[m] \in S THEN Append(f[m - 1], q[m]) ELSE f[m - 1]]

(* There is such a function, for every length.                               *)
LEMMA OnlyExists ==
  ASSUME NEW q, NEW S, NEW N \in Nat
  PROVE  \E f : OnlyTo(f, q, S, N)
<1> DEFINE Done == {n \in 0..N : \E f : OnlyTo(f, q, S, n)}
<1>1. 0 \in Done
  <2> DEFINE f == [m \in 0..0 |-> <<>>]
  <2>1. OnlyTo(f, q, S, 0)
    BY DEF OnlyTo
  <2> QED BY <2>1
<1>2. ASSUME NEW n \in 0..(N - 1), n \in Done PROVE n + 1 \in Done
  <2>1. PICK f : OnlyTo(f, q, S, n)
    BY <1>2
  <2> DEFINE next(m, before) == IF q[m] \in S THEN Append(before, q[m]) ELSE before
             g == [m \in 0..(n + 1) |-> IF m = n + 1 THEN next(m, f[n]) ELSE f[m]]
  <2>2. \A m \in 0..n : g[m] = f[m]
    OBVIOUS
  <2>3. g[n + 1] = next(n + 1, f[n])
    OBVIOUS
  <2> HIDE DEF next
  <2>4. f = [m \in 0..n |-> IF m = 0 THEN <<>> ELSE next(m, f[m - 1])]
    BY <2>1 DEF OnlyTo, next
  <2>5. \A m \in 0..(n + 1) : g[m] = IF m = 0 THEN <<>> ELSE next(m, g[m - 1])
    <3> TAKE m \in 0..(n + 1)
    <3>1. CASE m = 0
      <4>1. m \in 0..n
        BY <3>1
      <4> QED BY <2>2, <2>4, <3>1, <4>1
    <3>2. CASE m = n + 1
      <4>1. m - 1 = n /\ m # 0 /\ n \in 0..n
        BY <3>2
      <4> QED BY <2>2, <2>3, <3>2, <4>1
    <3>3. CASE m \in 1..n
      <4>1. m \in 0..n /\ m - 1 \in 0..n /\ m # 0
        BY <3>3
      <4>2. f[m] = next(m, f[m - 1])
        BY <2>4, <4>1
      <4> QED BY <2>2, <4>1, <4>2
    <3> QED BY <3>1, <3>2, <3>3
  <2>6. g = [m \in 0..(n + 1) |-> g[m]]
    OBVIOUS
  <2> HIDE DEF g
  <2>7. OnlyTo(g, q, S, n + 1)
    BY <2>5, <2>6 DEF OnlyTo, next
  <2> QED BY <2>7
<1> HIDE DEF Done
<1>3. \A n \in 0..N : n \in Done
  BY <1>1, <1>2, Upwards
<1> QED BY <1>3 DEF Done

(* Only keeps what is in S, and nothing twice.                               *)
LEMMA OnlyFacts ==
  ASSUME NEW T, NEW q \in Seq(T), NEW S
  PROVE  /\ Only(q, S) \in Seq(T) /\ ToSet(Only(q, S)) = ToSet(q) \cap S
         /\ IsInjective(q) => IsInjective(Only(q, S))
<1> DEFINE N == Len(q)
           first(n) == {q[i] : i \in 1..n}
           f == CHOOSE f : OnlyTo(f, q, S, N)
           Good == {n \in 0..N : /\ f[n] \in Seq(T) /\ ToSet(f[n]) = first(n) \cap S
                                 /\ IsInjective(q) => IsInjective(f[n])}
<1>1. N \in Nat /\ DOMAIN q = 1..N /\ \A i \in 1..N : q[i] \in T
  OBVIOUS
<1>2. Only(q, S) = f[N]
  BY DEF Only, OnlyTo
<1>3. OnlyTo(f, q, S, N)
  BY <1>1, OnlyExists
<1> HIDE DEF f, N
<1>4. 0 \in Good
  <2>1. f[0] = <<>>
    BY <1>1, <1>3 DEF OnlyTo
  <2>2. <<>> \in Seq(T) /\ ToSet(<<>>) = {} /\ IsInjective(<<>>)
    BY DEF ToSet, IsInjective
  <2>3. first(0) = {}
    OBVIOUS
  <2> HIDE DEF f, first
  <2>4. 0 \in 0..N /\ {} = {} \cap S
    BY <1>1
  <2> QED BY <2>1, <2>2, <2>3, <2>4
<1>5. ASSUME NEW n \in 0..(N - 1), n \in Good PROVE n + 1 \in Good
  <2>1. n + 1 \in 1..N /\ n + 1 \in 0..N /\ n + 1 # 0 /\ (n + 1) - 1 = n
    BY <1>1
  <2>2. f[n + 1] = IF q[n + 1] \in S THEN Append(f[n], q[n + 1]) ELSE f[n]
    BY <1>3, <2>1 DEF OnlyTo
  <2>3. first(n + 1) = first(n) \cup {q[n + 1]}
    <3>1. 1..(n + 1) = 1..n \cup {n + 1}
      BY <1>1
    <3> QED BY <3>1
  <2>4. q[n + 1] \in T
    BY <1>1, <2>1
  <2>5. IsInjective(q) => q[n + 1] \notin first(n)
    <3>1. \A i \in 1..n : i \in 1..N /\ i # n + 1
      BY <1>1
    <3> QED BY <1>1, <2>1, <3>1 DEF IsInjective
  <2> HIDE DEF first, f
  <2>6. f[n] \in Seq(T) /\ ToSet(f[n]) = first(n) \cap S /\ (IsInjective(q) => IsInjective(f[n]))
    BY <1>5
  <2>7. CASE q[n + 1] \in S
    <3>1. f[n + 1] \in Seq(T) /\ ToSet(f[n + 1]) = ToSet(f[n]) \cup {q[n + 1]}
      BY <2>2, <2>4, <2>6, <2>7, AppendFacts
    <3>2. IsInjective(q) => IsInjective(f[n + 1])
      BY <2>2, <2>4, <2>5, <2>6, <2>7, AppendFacts
    <3>3. ToSet(f[n + 1]) = first(n + 1) \cap S
      BY <2>3, <2>6, <2>7, <3>1
    <3> QED BY <2>1, <3>1, <3>2, <3>3
  <2>8. CASE q[n + 1] \notin S
    BY <2>1, <2>2, <2>3, <2>6, <2>8
  <2> QED BY <2>7, <2>8
<1> HIDE DEF Good
<1>6. N \in Good
  <2>1. \A n \in 0..N : n \in Good
    BY <1>1, <1>4, <1>5, Upwards
  <2> QED BY <1>1, <2>1
<1>7. first(N) = ToSet(q)
  BY <1>1 DEF ToSet
<1> QED BY <1>2, <1>6, <1>7 DEF Good

-----------------------------------------------------------------------------
(* The queue of the loop and the lists.                                      *)

Priorities(prio) == \A k \in Descriptors : prio[k] \in Int

(* insert_event_source_fd_sorted adds a descriptor and keeps the others.       *)
LEMMA InsertedFacts ==
  ASSUME NEW q \in Seq(Descriptors), IsInjective(q), NEW k \in Descriptors, k \notin ToSet(q),
         NEW prio, Priorities(prio)
  PROVE  /\ Inserted(q, k, prio) \in Seq(Descriptors) /\ IsInjective(Inserted(q, k, prio))
         /\ ToSet(Inserted(q, k, prio)) = ToSet(q) \cup {k}
<1> DEFINE High == {l \in Descriptors : prio[l] >= prio[k]}
           Low == {l \in Descriptors : prio[l] < prio[k]}
           a == Only(q, High)
           b == Only(q, Low)
           one == <<k>>
<1>1. /\ a \in Seq(Descriptors) /\ ToSet(a) = ToSet(q) \cap High /\ IsInjective(a)
      /\ b \in Seq(Descriptors) /\ ToSet(b) = ToSet(q) \cap Low /\ IsInjective(b)
  BY OnlyFacts
<1>2. one \in Seq(Descriptors) /\ ToSet(one) = {k} /\ IsInjective(one)
  BY DEF ToSet, IsInjective
<1>3. ToSet(q) \subseteq Descriptors
  BY DEF ToSet
<1>4. High \cap Low = {} /\ High \cup Low = Descriptors
  BY DEF Priorities
<1>5. Inserted(q, k, prio) = a \o one \o b
  BY DEF Inserted
<1> HIDE DEF a, b, one, High, Low
<1> DEFINE c == a \o one
<1>6. c \in Seq(Descriptors) /\ ToSet(c) = ToSet(a) \cup {k} /\ IsInjective(c)
  BY <1>1, <1>2, ConcatFacts
<1> HIDE DEF c
<1>7. ToSet(c) \cap ToSet(b) = {}
  BY <1>1, <1>4, <1>6
<1>8. /\ c \o b \in Seq(Descriptors) /\ IsInjective(c \o b)
      /\ ToSet(c \o b) = ToSet(c) \cup ToSet(b)
  BY <1>1, <1>6, <1>7, ConcatFacts
<1>9. ToSet(c) \cup ToSet(b) = ToSet(q) \cup {k}
  BY <1>1, <1>3, <1>4, <1>6
<1>10. Inserted(q, k, prio) = c \o b
  BY <1>5 DEF c
<1> QED BY <1>8, <1>9, <1>10

(* The recursion of InsertedAll is well defined.                               *)
InsertedTo(f, queue, q, prio, n) ==
  f = [m \in 0..n |-> IF m = 0 THEN queue ELSE Inserted(f[m - 1], q[m], prio)]

(* There is such a function, for every length.                               *)
LEMMA InsertedExists ==
  ASSUME NEW queue, NEW q, NEW prio, NEW N \in Nat
  PROVE  \E f : InsertedTo(f, queue, q, prio, N)
<1> DEFINE Done == {n \in 0..N : \E f : InsertedTo(f, queue, q, prio, n)}
<1>1. 0 \in Done
  <2> DEFINE f == [m \in 0..0 |-> queue]
  <2>1. InsertedTo(f, queue, q, prio, 0)
    BY DEF InsertedTo
  <2> QED BY <2>1
<1>2. ASSUME NEW n \in 0..(N - 1), n \in Done PROVE n + 1 \in Done
  <2>1. PICK f : InsertedTo(f, queue, q, prio, n)
    BY <1>2
  <2> DEFINE g == [m \in 0..(n + 1) |-> IF m = n + 1 THEN Inserted(f[n], q[m], prio) ELSE f[m]]
  <2>2. \A m \in 0..n : g[m] = f[m]
    OBVIOUS
  <2>3. g[n + 1] = Inserted(f[n], q[n + 1], prio)
    OBVIOUS
  <2>4. f = [m \in 0..n |-> IF m = 0 THEN queue ELSE Inserted(f[m - 1], q[m], prio)]
    BY <2>1 DEF InsertedTo
  <2>5. \A m \in 0..(n + 1) : g[m] = IF m = 0 THEN queue ELSE Inserted(g[m - 1], q[m], prio)
    <3> TAKE m \in 0..(n + 1)
    <3>1. CASE m = 0
      <4>1. m \in 0..n
        BY <3>1
      <4> QED BY <2>2, <2>4, <3>1, <4>1
    <3>2. CASE m = n + 1
      <4>1. m - 1 = n /\ m # 0 /\ n \in 0..n
        BY <3>2
      <4> QED BY <2>2, <2>3, <3>2, <4>1
    <3>3. CASE m \in 1..n
      <4>1. m \in 0..n /\ m - 1 \in 0..n /\ m # 0
        BY <3>3
      <4>2. f[m] = Inserted(f[m - 1], q[m], prio)
        BY <2>4, <4>1
      <4> QED BY <2>2, <4>1, <4>2
    <3> QED BY <3>1, <3>2, <3>3
  <2>6. g = [m \in 0..(n + 1) |-> g[m]]
    OBVIOUS
  <2> HIDE DEF g
  <2>7. InsertedTo(g, queue, q, prio, n + 1)
    BY <2>5, <2>6 DEF InsertedTo
  <2> QED BY <2>7
<1> HIDE DEF Done
<1>3. \A n \in 0..N : n \in Done
  BY <1>1, <1>2, Upwards
<1> QED BY <1>3 DEF Done

(* The loop over the events of epoll_wait queues each of them once.            *)
LEMMA InsertedAllFacts ==
  ASSUME NEW queue \in Seq(Descriptors), IsInjective(queue),
         NEW q \in Seq(Descriptors), IsInjective(q), ToSet(q) \cap ToSet(queue) = {},
         NEW prio, Priorities(prio)
  PROVE  /\ InsertedAll(queue, q, prio) \in Seq(Descriptors) /\ IsInjective(InsertedAll(queue, q, prio))
         /\ ToSet(InsertedAll(queue, q, prio)) = ToSet(queue) \cup ToSet(q)
<1> DEFINE N == Len(q)
           first(n) == {q[i] : i \in 1..n}
           f == CHOOSE f : InsertedTo(f, queue, q, prio, N)
           Good == {n \in 0..N : /\ f[n] \in Seq(Descriptors) /\ IsInjective(f[n])
                                 /\ ToSet(f[n]) = ToSet(queue) \cup first(n)}
<1>1. N \in Nat /\ DOMAIN q = 1..N /\ \A i \in 1..N : q[i] \in Descriptors
  OBVIOUS
<1>2. InsertedAll(queue, q, prio) = f[N]
  BY DEF InsertedAll, InsertedTo
<1>3. InsertedTo(f, queue, q, prio, N)
  BY <1>1, InsertedExists
<1> HIDE DEF f, N
<1>4. 0 \in Good
  <2>1. f[0] = queue
    BY <1>1, <1>3 DEF InsertedTo
  <2>2. first(0) = {}
    OBVIOUS
  <2> HIDE DEF first
  <2>3. 0 \in 0..N
    BY <1>1
  <2> QED BY <2>1, <2>2, <2>3
<1>5. ASSUME NEW n \in 0..(N - 1), n \in Good PROVE n + 1 \in Good
  <2>1. n + 1 \in 1..N /\ n + 1 \in 0..N /\ n + 1 # 0 /\ (n + 1) - 1 = n
    BY <1>1
  <2>2. f[n + 1] = Inserted(f[n], q[n + 1], prio)
    BY <1>3, <2>1 DEF InsertedTo
  <2>3. first(n + 1) = first(n) \cup {q[n + 1]}
    <3>1. 1..(n + 1) = 1..n \cup {n + 1}
      BY <1>1
    <3> QED BY <3>1
  <2>4. q[n + 1] \in Descriptors /\ q[n + 1] \in ToSet(q)
    BY <1>1, <2>1 DEF ToSet
  <2>5. q[n + 1] \notin first(n)
    <3>1. \A i \in 1..n : i \in 1..N /\ i # n + 1
      BY <1>1
    <3> QED BY <1>1, <2>1, <3>1 DEF IsInjective
  <2> HIDE DEF first
  <2>6. f[n] \in Seq(Descriptors) /\ IsInjective(f[n]) /\ ToSet(f[n]) = ToSet(queue) \cup first(n)
    BY <1>5
  <2>7. q[n + 1] \notin ToSet(f[n])
    BY <2>4, <2>5, <2>6
  <2>8. /\ f[n + 1] \in Seq(Descriptors) /\ IsInjective(f[n + 1])
        /\ ToSet(f[n + 1]) = ToSet(f[n]) \cup {q[n + 1]}
    BY <2>2, <2>4, <2>6, <2>7, InsertedFacts
  <2>9. ToSet(f[n + 1]) = ToSet(queue) \cup first(n + 1)
    BY <2>3, <2>6, <2>8
  <2> QED BY <2>1, <2>8, <2>9
<1> HIDE DEF Good
<1>6. N \in Good
  <2>1. \A n \in 0..N : n \in Good
    BY <1>1, <1>4, <1>5, Upwards
  <2> QED BY <1>1, <2>1
<1>7. first(N) = ToSet(q)
  BY <1>1 DEF ToSet
<1> QED BY <1>2, <1>6, <1>7 DEF Good

(* The orders in which a set can be inserted.                                  *)
LEMMA OrderFacts ==
  ASSUME NEW S, IsFiniteSet(S), NEW q \in SetToSeqs(S)
  PROVE  q \in Seq(S) /\ IsInjective(q) /\ ToSet(q) = S
<1> DEFINE n == Cardinality(S)
<1>1. n \in Nat /\ IsFiniteSet(1..n) /\ Cardinality(1..n) = n
  BY FS_CardinalityType, FS_Interval
<1>2. q \in [1..n -> S] /\ \A i, j \in 1..n : i # j => q[i] # q[j]
  BY DEF SetToSeqs
<1> HIDE DEF n
<1>3. q \in Seq(S)
  BY <1>1, <1>2
<1>4. IsInjective(q) /\ q \in Injection(1..n, S)
  BY <1>2 DEF IsInjective, Injection
<1>5. q \in Surjection(1..n, S)
  BY <1>1, <1>4, FS_Injection DEF n
<1>6. ToSet(q) = S
  BY <1>2, <1>5 DEF ToSet, Surjection
<1> QED BY <1>3, <1>4, <1>6

(* remove_session and hev_slist_remove take one item out.                      *)
LEMMA RemoveFirstFacts ==
  ASSUME NEW T, NEW q \in Seq(T), IsInjective(q), NEW e
  PROVE  /\ RemoveFirst(q, e) \in Seq(T) /\ IsInjective(RemoveFirst(q, e))
         /\ ToSet(RemoveFirst(q, e)) = ToSet(q) \ {e}
<1> DEFINE n == Len(q)
           I == {i \in 1..n : q[i] = e}
           r == RemoveFirst(q, e)
<1>1. n \in Nat /\ DOMAIN q = 1..n /\ \A i \in 1..n : q[i] \in T
  OBVIOUS
<1>2. \A i, j \in 1..n : q[i] = q[j] => i = j
  BY <1>1 DEF IsInjective
<1>3. CASE I = {}
  <2>1. r = q
    BY <1>3 DEF RemoveFirst
  <2>2. e \notin ToSet(q)
    BY <1>1, <1>3 DEF ToSet
  <2> QED BY <2>1, <2>2
<1>4. CASE I # {}
  <2>1. PICK i \in 1..n : q[i] = e
    BY <1>4
  <2>2. I = {i}
    BY <1>2, <2>1
  <2>3. Min(I) = i
    BY <2>2 DEF Min
  <2>4. SelectInSeq(q, LAMBDA v : v = e) = i
    BY <1>4, <2>3 DEF SelectInSeq
  <2> DEFINE a == SubSeq(q, 1, i - 1)
             b == SubSeq(q, i + 1, n)
  <2>5. r = a \o b
    BY <2>1, <2>4 DEF RemoveFirst, RemoveAt
  <2>6. /\ a \in Seq(T) /\ DOMAIN a = 1..(i - 1) /\ \A j \in 1..(i - 1) : a[j] = q[j]
        /\ b \in Seq(T) /\ DOMAIN b = 1..(n - i) /\ \A j \in 1..(n - i) : b[j] = q[i + j]
    OBVIOUS
  <2> HIDE DEF a, b, n
  <2>7. IsInjective(a) /\ IsInjective(b)
    <3>1. \A j \in 1..(i - 1) : j \in 1..n
      BY <1>1
    <3>2. \A j \in 1..(n - i) : i + j \in 1..n
      BY <1>1
    <3>3. IsInjective(a)
      BY <1>2, <2>6, <3>1 DEF IsInjective
    <3>4. ASSUME NEW j \in 1..(n - i), NEW k \in 1..(n - i), b[j] = b[k] PROVE j = k
      <4>1. i + j = i + k
        BY <1>2, <2>6, <3>2, <3>4
      <4> QED BY <4>1
    <3> QED BY <2>6, <3>3, <3>4 DEF IsInjective
  <2>8. ToSet(a) \cap ToSet(b) = {}
    <3>1. \A j \in 1..(i - 1), k \in 1..(n - i) : j \in 1..n /\ i + k \in 1..n /\ j # i + k
      BY <1>1
    <3>2. \A j \in 1..(i - 1), k \in 1..(n - i) : a[j] # b[k]
      BY <1>2, <2>6, <3>1
    <3> QED BY <2>6, <3>2 DEF ToSet
  <2>9. ToSet(a) \cup ToSet(b) = ToSet(q) \ {e}
    <3>1. \A j \in 1..(i - 1) : j \in 1..n /\ j # i
      BY <1>1
    <3>2. \A k \in 1..(n - i) : i + k \in 1..n /\ i + k # i
      BY <1>1
    <3>3. ToSet(a) \cup ToSet(b) \subseteq ToSet(q) \ {e}
      <4>1. \A j \in 1..(i - 1) : a[j] = q[j] /\ q[j] # e
        BY <1>2, <2>1, <2>6, <3>1
      <4>2. \A k \in 1..(n - i) : b[k] = q[i + k] /\ q[i + k] # e
        BY <1>2, <2>1, <2>6, <3>2
      <4>3. ASSUME NEW x \in ToSet(a) PROVE x \in ToSet(q) \ {e}
        <5>1. PICK j \in 1..(i - 1) : x = a[j]
          BY <2>6 DEF ToSet
        <5>2. j \in 1..n /\ x = q[j] /\ x # e
          BY <3>1, <4>1, <5>1
        <5> QED BY <1>1, <5>2 DEF ToSet
      <4>4. ASSUME NEW x \in ToSet(b) PROVE x \in ToSet(q) \ {e}
        <5>1. PICK k \in 1..(n - i) : x = b[k]
          BY <2>6 DEF ToSet
        <5>2. i + k \in 1..n /\ x = q[i + k] /\ x # e
          BY <3>2, <4>2, <5>1
        <5> QED BY <1>1, <5>2 DEF ToSet
      <4> QED BY <4>3, <4>4
    <3>4. ASSUME NEW x \in ToSet(q), x # e PROVE x \in ToSet(a) \cup ToSet(b)
      <4>1. PICK j \in 1..n : x = q[j]
        BY <1>1 DEF ToSet
      <4>2. j \in 1..(i - 1) \/ (j - i \in 1..(n - i) /\ i + (j - i) = j)
        BY <1>1, <2>1, <3>4, <4>1
      <4> QED BY <2>6, <4>1, <4>2 DEF ToSet
    <3> QED BY <3>3, <3>4
  <2> HIDE DEF r
  <2>10. r \in Seq(T) /\ IsInjective(r) /\ ToSet(r) = ToSet(q) \ {e}
    BY <2>5, <2>6, <2>7, <2>8, <2>9, ConcatFacts
  <2> QED BY <2>10 DEF r
<1> QED BY <1>3, <1>4

-----------------------------------------------------------------------------
(* Reading and writing.                                                      *)

Peers == {"none", "connecting", "open", "eof", "reset"}
SockType == [peer : Peers, in : 0..MaxIn, out : 0..SendBuf, nospace : BOOLEAN]

(* The sizes are positive numbers.                                           *)
LEMMA SizeFacts ==
  /\ MaxIn \in Nat /\ MaxIn > 0 /\ SendBuf \in Nat /\ SendBuf > 0 /\ EchoRing \in Nat /\ EchoRing > 0
  /\ SpliceRing \in Nat /\ SpliceRing > 0 /\ MaxBacklog \in Nat /\ MaxBacklog > 0
BY SizesAssumption

(* The minimum and the maximum of two numbers.                               *)
LEMMA MinMaxFacts ==
  ASSUME NEW a \in Int, NEW b \in Int
  PROVE  /\ Min({a, b}) = IF a <= b THEN a ELSE b
         /\ Max({a, b}) = IF a >= b THEN a ELSE b
<1>1. \E x \in {a, b} : \A y \in {a, b} : x <= y
  OBVIOUS
<1>2. \E x \in {a, b} : \A y \in {a, b} : x >= y
  OBVIOUS
<1>3. Min({a, b}) \in {a, b} /\ \A y \in {a, b} : Min({a, b}) <= y
  BY <1>1 DEF Min
<1>4. Max({a, b}) \in {a, b} /\ \A y \in {a, b} : Max({a, b}) >= y
  BY <1>2 DEF Max
<1> QED BY <1>3, <1>4

(* read_data and write_data move nothing when the size they return is        *)
(* negative.                                                                 *)
LEMMA IncFacts ==
  ASSUME NEW n \in Int
  PROVE  Max({0, n}) = IF n >= 0 THEN n ELSE 0
<1>1. 0 \in Int
  OBVIOUS
<1>2. Max({0, n}) = IF 0 >= n THEN 0 ELSE n
  BY <1>1, MinMaxFacts
<1> QED BY <1>2

(* What read_data did, by the size it returned.                                *)
LEMMA ReadFacts ==
  ASSUME NEW s \in SockType, NEW len \in Nat, len > 0, NEW used \in 0..len
  PROVE  LET a == ReadData(s, used, len) IN
         /\ a.sock \in SockType /\ a.used \in 0..len
         /\ a.sock.peer = s.peer /\ a.sock.out = s.out /\ a.sock.nospace = s.nospace
         /\ \/ a.size = NoIov /\ used = len /\ a.used = used /\ a.sock.in = s.in
            \/ a.size = Failed /\ s.in = 0 /\ s.peer = "reset" /\ used < len
            \/ a.size = 0 /\ s.in = 0 /\ s.peer = "eof" /\ used < len
            \/ /\ a.size = Again /\ s.in = 0 /\ s.peer \notin {"eof", "reset"} /\ used < len
               /\ a.used = used /\ a.sock.in = s.in
            \/ /\ a.size \in Nat /\ a.size > 0 /\ s.in > 0 /\ a.used > used /\ a.sock.in < s.in
               /\ a.used = len \/ a.sock.in = 0
<1> DEFINE a == ReadData(s, used, len)
           inc == Max({0, a.size})
<1>1. s.in \in Nat /\ s.in <= MaxIn /\ MaxIn \in Nat
  BY SizeFacts DEF SockType
<1>2. a.size = IF used = len THEN NoIov ELSE Received(s, len - used)
  BY DEF ReadData
<1>3. /\ a.used = used + inc /\ a.sock = [s EXCEPT !.in = s.in - inc]
  BY DEF ReadData
<1>4. /\ a.sock.peer = s.peer /\ a.sock.out = s.out /\ a.sock.nospace = s.nospace
      /\ a.sock.in = s.in - inc
  BY <1>3 DEF SockType
<1>5. ASSUME s.in - inc \in 0..MaxIn PROVE a.sock \in SockType
  BY <1>3, <1>5 DEF SockType
<1> HIDE DEF a
<1>6. CASE used = len
  <2>1. a.size = NoIov
    BY <1>2, <1>6
  <2>2. inc = 0
    BY <2>1, MinMaxFacts DEF NoIov
  <2> QED BY <1>1, <1>3, <1>4, <1>5, <1>6, <2>1, <2>2 DEF a
<1>7. CASE used # len /\ s.in > 0
  <2>1. a.size = IF len - used <= s.in THEN len - used ELSE s.in
    BY <1>1, <1>2, <1>7, MinMaxFacts DEF Received
  <2>2. a.size \in Nat /\ a.size > 0
    BY <1>1, <1>7, <2>1
  <2>3. inc = a.size
    BY <2>2, IncFacts
  <2> HIDE DEF inc
  <2> QED BY <1>1, <1>3, <1>4, <1>5, <1>7, <2>1, <2>2, <2>3 DEF a
<1>8. CASE used # len /\ ~(s.in > 0)
  <2>1. a.size = IF s.peer = "eof" THEN 0 ELSE IF s.peer = "reset" THEN Failed ELSE Again
    BY <1>2, <1>8 DEF Received
  <2>2. a.size \in Int /\ ~(a.size > 0)
    BY <2>1 DEF Failed, Again
  <2>3. inc = 0
    BY <2>2, IncFacts
  <2> HIDE DEF inc
  <2> QED BY <1>1, <1>3, <1>4, <1>5, <1>8, <2>1, <2>3 DEF a
<1> QED BY <1>6, <1>7, <1>8

(* What write_data did, by the size it returned.                               *)
LEMMA WriteFacts ==
  ASSUME NEW s \in SockType, NEW len \in Nat, NEW used \in 0..len
  PROVE  LET a == WriteData(s, used) IN
         /\ a.sock \in SockType /\ a.used \in 0..len
         /\ a.sock.peer = s.peer /\ a.sock.in = s.in
         /\ \/ a.size = NoIov /\ used = 0 /\ a.used = used /\ a.sock.out = s.out /\ a.sock.nospace = s.nospace
            \/ a.size = Failed /\ s.peer = "reset" /\ used > 0
            \/ /\ a.size = Again /\ used > 0 /\ ~Writable(s) /\ s.peer # "reset"
               /\ a.used = used /\ a.sock.out = s.out /\ a.sock.nospace
            \/ /\ a.size \in Nat /\ a.size > 0 /\ used > 0 /\ Writable(s)
               /\ a.used < used /\ a.sock.out > s.out
               /\ a.used = 0 \/ a.sock.out = SendBuf
               /\ s.nospace \/ a.used > 0 => a.sock.nospace
<1> DEFINE a == WriteData(s, used)
           inc == Max({0, a.size})
           ns == s.nospace \/ (a.size >= Again /\ inc < used)
<1>1. s.out \in Nat /\ s.out <= SendBuf /\ SendBuf \in Nat
  BY SizeFacts DEF SockType
<1>2. a.size = IF used = 0 THEN NoIov ELSE Sent(s, used)
  BY DEF WriteData
<1>3. a.used = used - inc /\ a.sock = [s EXCEPT !.out = s.out + inc, !.nospace = ns]
  BY DEF WriteData
<1> HIDE DEF a
<1>4. /\ a.sock.peer = s.peer /\ a.sock.in = s.in /\ a.sock.nospace = ns
      /\ a.sock.out = s.out + inc
  BY <1>3 DEF SockType
<1>5. ASSUME s.out + inc \in 0..SendBuf PROVE a.sock \in SockType
  <2>1. ns \in BOOLEAN
    BY DEF SockType
  <2> HIDE DEF ns, inc
  <2> QED BY <1>3, <1>5, <2>1 DEF SockType
<1>6. CASE used = 0
  <2>1. a.size = NoIov
    BY <1>2, <1>6
  <2>2. inc = 0 /\ ~(a.size >= Again)
    BY <2>1, MinMaxFacts DEF NoIov, Again
  <2>3. a.sock.nospace = s.nospace
    BY <1>4, <2>2 DEF SockType
  <2> QED BY <1>1, <1>3, <1>4, <1>5, <1>6, <2>1, <2>2, <2>3 DEF a
<1>7. CASE used # 0 /\ s.peer = "reset"
  <2>1. a.size = Failed
    BY <1>2, <1>7 DEF Sent
  <2>2. inc = 0
    BY <2>1, MinMaxFacts DEF Failed
  <2> QED BY <1>1, <1>3, <1>4, <1>5, <1>7, <2>1, <2>2 DEF a
<1>8. CASE used # 0 /\ s.peer # "reset" /\ Writable(s)
  <2>1. s.out < SendBuf
    BY <1>8 DEF Writable
  <2>2. a.size = IF used <= SendBuf - s.out THEN used ELSE SendBuf - s.out
    BY <1>1, <1>2, <1>8, MinMaxFacts DEF Sent
  <2>3. a.size \in Nat /\ a.size > 0
    BY <1>1, <1>8, <2>1, <2>2
  <2>4. inc = a.size
    BY <2>3, IncFacts
  <2>5. ASSUME s.nospace \/ inc < used PROVE a.sock.nospace
    <3>1. a.size >= Again
      BY <2>3 DEF Again
    <3>2. ns = TRUE
      BY <2>5, <3>1
    <3> QED BY <1>4, <3>2
  <2> HIDE DEF inc
  <2> QED BY <1>1, <1>3, <1>4, <1>5, <1>8, <2>2, <2>3, <2>4, <2>5 DEF a
<1>9. CASE used # 0 /\ s.peer # "reset" /\ ~Writable(s)
  <2>1. a.size = Again
    BY <1>2, <1>9 DEF Sent
  <2>2. inc = 0
    BY <2>1, MinMaxFacts DEF Again
  <2>3. a.size >= Again /\ inc < used
    BY <1>9, <2>1, <2>2 DEF Again
  <2>4. ns = TRUE
    BY <2>3
  <2>5. a.sock.nospace
    BY <1>4, <2>4
  <2> QED BY <1>1, <1>3, <1>4, <1>5, <1>9, <2>1, <2>2, <2>5 DEF a
<1> QED BY <1>6, <1>7, <1>8, <1>9

-----------------------------------------------------------------------------
(* The calls of the splicer's handler.                                       *)

Events == {"IN", "OUT", "ERR"}

WorkType ==
  [sock : [Sides -> SockType], rev : [Sides -> SUBSET Events], buf : [Sides -> 0..SpliceRing],
   dead : BOOLEAN, want : SUBSET (Sides \X Interest)]

(* What a call leaves alone: of the direction that begins at d, or ends there. *)
SameIn(w, v, d) ==
  /\ v.sock[d].peer = w.sock[d].peer /\ v.sock[d].in = w.sock[d].in
  /\ <<d, "IN">> \in v.want <=> <<d, "IN">> \in w.want
  /\ "IN" \in v.rev[d] <=> "IN" \in w.rev[d]

SameOut(w, v, d) ==
  /\ v.sock[d].peer = w.sock[d].peer /\ v.sock[d].out = w.sock[d].out
  /\ v.sock[d].nospace = w.sock[d].nospace
  /\ <<d, "OUT">> \in v.want <=> <<d, "OUT">> \in w.want
  /\ "OUT" \in v.rev[d] <=> "OUT" \in w.rev[d]

SameBuf(w, v, d) == v.buf[d] = w.buf[d]

SameErr(w, v) == \A d \in Sides : "ERR" \in v.rev[d] <=> "ERR" \in w.rev[d]

(* What write_data to side d did.                                              *)
Put(w, v, d) ==
  /\ v.sock[d].peer = w.sock[d].peer
  /\ \/ <<d, "OUT">> \notin w.want /\ SameOut(w, v, d) /\ SameBuf(w, v, d)
     \/ /\ <<d, "OUT">> \in w.want /\ <<d, "OUT">> \in v.want /\ "OUT" \notin v.rev[d]
        /\ w.buf[d] = 0 /\ SameBuf(w, v, d)
        /\ v.sock[d].out = w.sock[d].out /\ v.sock[d].nospace = w.sock[d].nospace
     \/ /\ <<d, "OUT">> \in w.want /\ <<d, "OUT">> \in v.want
        /\ "OUT" \in v.rev[d] <=> "OUT" \in w.rev[d]
        /\ Writable(w.sock[d]) /\ v.buf[d] < w.buf[d] /\ v.sock[d].out > w.sock[d].out
        /\ v.buf[d] = 0 \/ v.sock[d].out = SendBuf
        /\ w.sock[d].nospace \/ v.buf[d] > 0 => v.sock[d].nospace
     \/ /\ <<d, "OUT">> \in w.want /\ <<d, "OUT">> \notin v.want /\ "OUT" \notin v.rev[d]
        /\ ~Writable(w.sock[d]) /\ w.buf[d] > 0 /\ SameBuf(w, v, d)
        /\ v.sock[d].out = w.sock[d].out /\ v.sock[d].nospace

(* What read_data from side d did.                                             *)
Got(w, v, d) ==
  /\ v.sock[d].peer = w.sock[d].peer
  /\ \/ <<d, "IN">> \notin w.want /\ SameIn(w, v, d) /\ SameBuf(w, v, Other(d))
     \/ /\ <<d, "IN">> \in w.want /\ <<d, "IN">> \in v.want /\ "IN" \notin v.rev[d]
        /\ w.buf[Other(d)] = SpliceRing /\ SameBuf(w, v, Other(d)) /\ v.sock[d].in = w.sock[d].in
     \/ /\ <<d, "IN">> \in w.want /\ <<d, "IN">> \in v.want
        /\ "IN" \in v.rev[d] <=> "IN" \in w.rev[d]
        /\ w.sock[d].in > 0 /\ v.buf[Other(d)] > w.buf[Other(d)] /\ v.sock[d].in < w.sock[d].in
        /\ v.buf[Other(d)] = SpliceRing \/ v.sock[d].in = 0
     \/ /\ <<d, "IN">> \in w.want /\ <<d, "IN">> \notin v.want /\ "IN" \notin v.rev[d]
        /\ ~Readable(w.sock[d]) /\ SameBuf(w, v, Other(d)) /\ v.sock[d].in = w.sock[d].in

(* There are two sides.                                                      *)
LEMMA SideFacts ==
  /\ Sides = {"client", "remote"}
  /\ \A d \in Sides : Other(d) \in Sides /\ Other(d) # d /\ Other(Other(d)) = d
  /\ \A d, e \in Sides : e = d \/ e = Other(d)
BY DEF Sides, Other

(* What the answer to a call of size bytes changed.                            *)
IsAnswer(u, d, e, size, v) ==
  /\ v \in WorkType /\ v.sock = u.sock /\ v.buf = u.buf
  /\ v.dead <=> size = Failed \/ (e = "IN" /\ size = 0)
  /\ v.want = IF size = Again THEN u.want \ {<<d, e>>} ELSE u.want
  /\ v.rev[d] = IF size \in {Again, NoIov} THEN u.rev[d] \ {e} ELSE u.rev[d]
  /\ v.rev[Other(d)] = u.rev[Other(d)]

(* What a session becomes by the size a call returned.                       *)
LEMMA AnswerFacts ==
  ASSUME NEW u \in WorkType, NEW d \in Sides, NEW e \in Interest, NEW size \in Int
  PROVE  IsAnswer(u, d, e, size, Answered(u, d, e, size))
<1> DEFINE v == Answered(u, d, e, size)
           dead == size = Failed \/ (e = "IN" /\ size = 0)
           want == IF size = Again THEN u.want \ {<<d, e>>} ELSE u.want
           one == IF size \in {Again, NoIov} THEN u.rev[d] \ {e} ELSE u.rev[d]
           rev == [u.rev EXCEPT ![d] = one]
<1>1. /\ DOMAIN u = {"sock", "rev", "buf", "dead", "want"}
      /\ u.sock \in [Sides -> SockType] /\ u.rev \in [Sides -> SUBSET Events]
      /\ u.buf \in [Sides -> 0..SpliceRing] /\ u.want \subseteq Sides \X Interest
  BY DEF WorkType
<1>2. v = [u EXCEPT !.dead = dead, !.want = want, !.rev = rev]
  BY <1>1 DEF Answered
<1>3. dead \in BOOLEAN /\ want \subseteq Sides \X Interest /\ one \subseteq Events
  BY <1>1
<1> HIDE DEF dead, want, one
<1>4. rev \in [Sides -> SUBSET Events] /\ rev[d] = one /\ rev[Other(d)] = u.rev[Other(d)]
  BY <1>1, <1>3, SideFacts
<1> HIDE DEF rev, v
<1>5. /\ v.sock = u.sock /\ v.buf = u.buf /\ v.dead = dead /\ v.want = want /\ v.rev = rev
      /\ v \in WorkType
  BY <1>1, <1>2, <1>3, <1>4 DEF WorkType
<1> QED BY <1>4, <1>5 DEF dead, want, one, v, IsAnswer

(* A session whose ring and socket a call changed.                             *)
Touched(w, d, s, to, n) == [w EXCEPT !.sock[d] = s, !.buf[to] = n]

IsTouched(w, d, s, to, n, u) ==
  /\ u \in WorkType /\ u.rev = w.rev /\ u.want = w.want
  /\ u.sock[d] = s /\ u.sock[Other(d)] = w.sock[Other(d)]
  /\ u.buf[to] = n /\ u.buf[Other(to)] = w.buf[Other(to)]

(* The other socket and the other ring stay as they were.                    *)
LEMMA TouchedFacts ==
  ASSUME NEW w \in WorkType, NEW d \in Sides, NEW s \in SockType, NEW to \in Sides, NEW n \in 0..SpliceRing
  PROVE  IsTouched(w, d, s, to, n, Touched(w, d, s, to, n))
<1> DEFINE u == Touched(w, d, s, to, n)
           sk == [w.sock EXCEPT ![d] = s]
           bf == [w.buf EXCEPT ![to] = n]
<1>1. /\ DOMAIN w = {"sock", "rev", "buf", "dead", "want"}
      /\ w.sock \in [Sides -> SockType] /\ w.rev \in [Sides -> SUBSET Events]
      /\ w.buf \in [Sides -> 0..SpliceRing] /\ w.want \subseteq Sides \X Interest
      /\ w.dead \in BOOLEAN
  BY DEF WorkType
<1>2. u = [w EXCEPT !.sock = sk, !.buf = bf]
  BY <1>1 DEF Touched
<1>3. /\ sk \in [Sides -> SockType] /\ sk[d] = s /\ sk[Other(d)] = w.sock[Other(d)]
      /\ bf \in [Sides -> 0..SpliceRing] /\ bf[to] = n /\ bf[Other(to)] = w.buf[Other(to)]
  BY <1>1, SideFacts
<1> HIDE DEF sk, bf, u
<1>4. /\ u.sock = sk /\ u.buf = bf /\ u.rev = w.rev /\ u.want = w.want
      /\ u \in WorkType
  BY <1>1, <1>2, <1>3 DEF WorkType
<1> QED BY <1>3, <1>4 DEF u, IsTouched

(* A call of write_data in the splicer, if it did not end the session.       *)
LEMMA PutFacts ==
  ASSUME NEW w \in WorkType, NEW d \in Sides
  PROVE  LET v == Call(w, d, "OUT") IN
         /\ v \in WorkType
         /\ ~v.dead => /\ ~w.dead /\ Put(w, v, d) /\ SameIn(w, v, d) /\ SameIn(w, v, Other(d))
                       /\ SameOut(w, v, Other(d)) /\ SameBuf(w, v, Other(d)) /\ SameErr(w, v)
<1> DEFINE v == Call(w, d, "OUT")
           a == WriteData(w.sock[d], w.buf[d])
           u == Touched(w, d, a.sock, d, a.used)
           o == Other(d)
<1>1. CASE w.dead \/ <<d, "OUT">> \notin w.want
  <2>1. v = w
    BY <1>1 DEF Call
  <2> QED BY <1>1, <2>1 DEF Put, SameIn, SameOut, SameBuf, SameErr
<1>2. CASE ~w.dead /\ <<d, "OUT">> \in w.want
  <2>1. v = Answered(u, d, "OUT", a.size)
    BY <1>2 DEF Call, Touched
  <2>2. w.sock[d] \in SockType /\ w.buf[d] \in 0..SpliceRing /\ SpliceRing \in Nat
    BY SizeFacts DEF WorkType
  <2> DEFINE s == w.sock[d]
             used == w.buf[d]
  <2>3. /\ a.sock \in SockType /\ a.used \in 0..SpliceRing
        /\ a.sock.peer = s.peer /\ a.sock.in = s.in
        /\ \/ a.size = NoIov /\ used = 0 /\ a.used = used /\ a.sock.out = s.out /\ a.sock.nospace = s.nospace
           \/ a.size = Failed /\ s.peer = "reset" /\ used > 0
           \/ /\ a.size = Again /\ used > 0 /\ ~Writable(s) /\ s.peer # "reset"
              /\ a.used = used /\ a.sock.out = s.out /\ a.sock.nospace
           \/ /\ a.size \in Nat /\ a.size > 0 /\ used > 0 /\ Writable(s)
              /\ a.used < used /\ a.sock.out > s.out
              /\ a.used = 0 \/ a.sock.out = SendBuf
              /\ s.nospace \/ a.used > 0 => a.sock.nospace
    BY <2>2, WriteFacts
  <2>4. a.size \in Int
    BY <2>3 DEF NoIov, Failed, Again
  <2> HIDE DEF a
  <2>5. /\ u \in WorkType /\ u.rev = w.rev /\ u.want = w.want
        /\ u.sock[d] = a.sock /\ u.sock[o] = w.sock[o]
        /\ u.buf[d] = a.used /\ u.buf[o] = w.buf[o]
    <3>1. IsTouched(w, d, a.sock, d, a.used, u)
      BY <2>3, TouchedFacts
    <3> QED BY <3>1 DEF IsTouched
  <2> HIDE DEF u
  <2>6. "OUT" \in Interest
    BY DEF Interest
  <2>7. /\ v \in WorkType /\ v.sock = u.sock /\ v.buf = u.buf
        /\ v.dead <=> a.size = Failed
        /\ v.want = IF a.size = Again THEN u.want \ {<<d, "OUT">>} ELSE u.want
        /\ v.rev[d] = IF a.size \in {Again, NoIov} THEN u.rev[d] \ {"OUT"} ELSE u.rev[d]
        /\ v.rev[o] = u.rev[o]
    <3>1. IsAnswer(u, d, "OUT", a.size, v)
      BY <2>1, <2>4, <2>5, <2>6, AnswerFacts
    <3> HIDE DEF v
    <3> QED BY <3>1 DEF IsAnswer
  <2> HIDE DEF v
  <2>8. SUFFICES ASSUME ~v.dead
                 PROVE  /\ Put(w, v, d) /\ SameIn(w, v, d) /\ SameIn(w, v, o)
                        /\ SameOut(w, v, o) /\ SameBuf(w, v, o) /\ SameErr(w, v)
    BY <1>2, <2>7 DEF v
  <2>9. SameIn(w, v, d) /\ SameIn(w, v, o) /\ SameOut(w, v, o) /\ SameBuf(w, v, o)
    BY <2>3, <2>5, <2>7, SideFacts DEF SameIn, SameOut, SameBuf
  <2>10. SameErr(w, v)
    BY <2>5, <2>7, SideFacts DEF SameErr
  <2>11. Put(w, v, d)
    <3>1. CASE a.size = NoIov
      BY <1>2, <2>3, <2>5, <2>7, <3>1 DEF Put, SameBuf, NoIov, Failed, Again
    <3>2. CASE a.size = Again
      BY <1>2, <2>3, <2>5, <2>7, <3>2 DEF Put, SameBuf, NoIov, Failed, Again
    <3>3. CASE a.size \in Nat /\ a.size > 0
      BY <1>2, <2>3, <2>5, <2>7, <3>3 DEF Put, NoIov, Failed, Again
    <3> QED BY <2>3, <2>7, <2>8, <3>1, <3>2, <3>3
  <2> QED BY <2>9, <2>10, <2>11
<1> QED BY <1>1, <1>2

(* A call of read_data in the splicer, if it did not end the session.        *)
LEMMA GetFacts ==
  ASSUME NEW w \in WorkType, NEW d \in Sides
  PROVE  LET v == Call(w, d, "IN") IN
         /\ v \in WorkType
         /\ ~v.dead => /\ ~w.dead /\ Got(w, v, d) /\ SameOut(w, v, d) /\ SameOut(w, v, Other(d))
                       /\ SameIn(w, v, Other(d)) /\ SameBuf(w, v, d) /\ SameErr(w, v)
<1> DEFINE v == Call(w, d, "IN")
           o == Other(d)
           a == ReadData(w.sock[d], w.buf[o], SpliceRing)
           u == Touched(w, d, a.sock, o, a.used)
<1>1. CASE w.dead \/ <<d, "IN">> \notin w.want
  <2>1. v = w
    BY <1>1 DEF Call
  <2> QED BY <1>1, <2>1 DEF Got, SameIn, SameOut, SameBuf, SameErr
<1>2. CASE ~w.dead /\ <<d, "IN">> \in w.want
  <2>1. v = Answered(u, d, "IN", a.size)
    BY <1>2 DEF Call, Touched
  <2>2. /\ w.sock[d] \in SockType /\ w.buf[o] \in 0..SpliceRing /\ SpliceRing \in Nat
        /\ SpliceRing > 0 /\ o \in Sides /\ Other(o) = d
    BY SizeFacts, SideFacts DEF WorkType
  <2> DEFINE s == w.sock[d]
             used == w.buf[o]
             len == SpliceRing
  <2>3. /\ a.sock \in SockType /\ a.used \in 0..len
        /\ a.sock.peer = s.peer /\ a.sock.out = s.out /\ a.sock.nospace = s.nospace
        /\ \/ a.size = NoIov /\ used = len /\ a.used = used /\ a.sock.in = s.in
           \/ a.size = Failed /\ s.in = 0 /\ s.peer = "reset" /\ used < len
           \/ a.size = 0 /\ s.in = 0 /\ s.peer = "eof" /\ used < len
           \/ /\ a.size = Again /\ s.in = 0 /\ s.peer \notin {"eof", "reset"} /\ used < len
              /\ a.used = used /\ a.sock.in = s.in
           \/ /\ a.size \in Nat /\ a.size > 0 /\ s.in > 0 /\ a.used > used /\ a.sock.in < s.in
              /\ a.used = len \/ a.sock.in = 0
    BY <2>2, ReadFacts
  <2>4. a.size \in Int
    BY <2>3 DEF NoIov, Failed, Again
  <2> HIDE DEF a
  <2>5. /\ u \in WorkType /\ u.rev = w.rev /\ u.want = w.want
        /\ u.sock[d] = a.sock /\ u.sock[o] = w.sock[o]
        /\ u.buf[o] = a.used /\ u.buf[d] = w.buf[d]
    <3>1. IsTouched(w, d, a.sock, o, a.used, u)
      BY <2>2, <2>3, TouchedFacts
    <3> HIDE DEF u, o
    <3> QED BY <2>2, <3>1 DEF IsTouched, o
  <2> HIDE DEF u
  <2>6. "IN" \in Interest
    BY DEF Interest
  <2>7. /\ v \in WorkType /\ v.sock = u.sock /\ v.buf = u.buf
        /\ v.dead <=> a.size = Failed \/ a.size = 0
        /\ v.want = IF a.size = Again THEN u.want \ {<<d, "IN">>} ELSE u.want
        /\ v.rev[d] = IF a.size \in {Again, NoIov} THEN u.rev[d] \ {"IN"} ELSE u.rev[d]
        /\ v.rev[o] = u.rev[o]
    <3>1. IsAnswer(u, d, "IN", a.size, v)
      BY <2>1, <2>4, <2>5, <2>6, AnswerFacts
    <3> HIDE DEF v
    <3> QED BY <3>1 DEF IsAnswer
  <2> HIDE DEF v
  <2>8. SUFFICES ASSUME ~v.dead
                 PROVE  /\ Got(w, v, d) /\ SameOut(w, v, d) /\ SameOut(w, v, o)
                        /\ SameIn(w, v, o) /\ SameBuf(w, v, d) /\ SameErr(w, v)
    BY <1>2, <2>7 DEF v
  <2>9. SameOut(w, v, d) /\ SameOut(w, v, o) /\ SameIn(w, v, o) /\ SameBuf(w, v, d)
    BY <2>2, <2>3, <2>5, <2>7, SideFacts DEF SameIn, SameOut, SameBuf
  <2>10. SameErr(w, v)
    BY <2>5, <2>7, SideFacts DEF SameErr
  <2>11. Got(w, v, d)
    <3>1. CASE a.size = NoIov
      BY <1>2, <2>3, <2>5, <2>7, <3>1 DEF Got, SameBuf, NoIov, Failed, Again
    <3>2. CASE a.size = Again
      BY <1>2, <2>3, <2>5, <2>7, <3>2 DEF Got, SameBuf, NoIov, Failed, Again, Readable
    <3>3. CASE a.size \in Nat /\ a.size > 0
      BY <1>2, <2>3, <2>5, <2>7, <3>3 DEF Got, NoIov, Failed, Again
    <3> QED BY <2>3, <2>7, <2>8, <3>1, <3>2, <3>3
  <2> QED BY <2>9, <2>10, <2>11
<1> QED BY <1>1, <1>2

-----------------------------------------------------------------------------
(* The invariant.                                                            *)

(* Events that were reported and not dealt with yet, and those a session       *)
(* remembers.                                                                  *)
Queued(k) == k \in ToSet(fd_list)
Reads(k) == Queued(k) /\ "IN" \in revents[k]
Writes(k) == Queued(k) /\ "OUT" \in revents[k]
WantsIn(c, d) == <<d, "IN">> \in conn[c].want
WantsOut(c, d) == <<d, "OUT">> \in conn[c].want
Full(k) == sock[k].out = SendBuf

(* A closed socket left nothing behind, and one that was reset is going to be. *)
SockOK(k) ==
  /\ sock[k].peer = "none" => sock[k] = NoSock /\ revents[k] = {}
  /\ sock[k].peer = "reset" => /\ sock[k].out = 0
                               /\ k \in edge \/ (Queued(k) /\ "ERR" \in revents[k])

ConnOK(c) == sock[<<c, "remote">>].peer # "none" <=> conn[c].live /\ program = "splicer"

(* The splicer, from side d to the other.                                      *)
FlowOK(c, d) ==
  LET k == <<c, d>>
      l == <<c, Other(d)>>
      buf == conn[c].buf[Other(d)]
  IN /\ Readable(sock[k]) => k \in edge \/ Reads(k) \/ WantsIn(c, d)
     /\ Writable(sock[l]) => l \in edge \/ Writes(l) \/ WantsOut(c, Other(d))
     /\ WantsIn(c, d) /\ ~Reads(k) =>
          /\ buf > 0
          /\ WantsOut(c, Other(d)) => Writes(l)
          /\ Readable(sock[k]) => \/ k \in edge \/ buf = SpliceRing
                                  \/ Writes(l) /\ sock[k].in = 0
     /\ WantsOut(c, Other(d)) /\ Writable(sock[l]) /\ buf > 0 => Writes(l) \/ Reads(k) \/ l \in edge
     /\ buf > 0 /\ Full(l) => sock[l].nospace \/ Writes(l) \/ Reads(k)
     /\ Full(l) => sock[l].nospace \/ WantsOut(c, Other(d))

(* The echo server.                                                            *)
EchoOK(c) ==
  LET k == <<c, "client">> IN
  /\ Readable(sock[k]) => k \in edge \/ Reads(k)
  /\ Writable(sock[k]) /\ conn[c].buf["client"] > 0 => k \in edge \/ Reads(k) \/ Writes(k)
  /\ Full(k) /\ conn[c].buf["client"] > 0 => sock[k].nospace \/ Reads(k) \/ Writes(k)
  /\ Queued(k) => revents[k] # {}
  /\ conn[c].buf["remote"] = 0

MovesOn(c) ==
  conn[c].live => IF program = "echo" THEN EchoOK(c) ELSE \A d \in Sides : FlowOK(c, d)

IInv ==
  /\ TypeOK /\ ListedOnce
  /\ \A k \in Socks : SockOK(k)
  /\ \A c \in Conns : ConnOK(c) /\ MovesOn(c)

(* A step that does not concern the connection c.                              *)
Apart(c) ==
  /\ program' = program
  /\ conn'[c].live = conn[c].live /\ conn'[c].buf = conn[c].buf /\ conn'[c].want = conn[c].want
  /\ \A d \in Sides :
       /\ sock'[<<c, d>>] = sock[<<c, d>>] /\ revents'[<<c, d>>] = revents[<<c, d>>]
       /\ <<c, d>> \in edge' <=> <<c, d>> \in edge
       /\ Queued(<<c, d>>)' <=> Queued(<<c, d>>)

(* It leaves what the invariant says of that connection.                     *)
LEMMA ApartFacts ==
  ASSUME NEW c \in Conns, Apart(c), MovesOn(c)
  PROVE  MovesOn(c)'
<1>1. SUFFICES ASSUME conn[c].live
               PROVE  (IF program = "echo" THEN EchoOK(c) ELSE \A d \in Sides : FlowOK(c, d))'
  BY DEF MovesOn, Apart
<1>2. CASE program = "echo"
  <2>1. EchoOK(c)
    BY <1>1, <1>2 DEF MovesOn
  <2>2. "client" \in Sides
    BY SideFacts
  <2>3. EchoOK(c)'
    BY <2>1, <2>2 DEF EchoOK, Apart, Reads, Writes, Full
  <2> QED BY <1>2, <2>3 DEF Apart
<1>3. CASE program # "echo"
  <2>1. ASSUME NEW d \in Sides PROVE FlowOK(c, d)'
    <3>1. FlowOK(c, d) /\ Other(d) \in Sides
      BY <1>1, <1>3, SideFacts DEF MovesOn
    <3> QED BY <3>1 DEF FlowOK, Apart, Reads, Writes, Full, WantsIn, WantsOut
  <2> QED BY <1>3, <2>1 DEF Apart
<1> QED BY <1>2, <1>3

(* Sockets and what else the loop watches.                                   *)
LEMMA TypeFacts ==
  ASSUME TypeOK
  PROVE  /\ sock \in [Socks -> SockType] /\ revents \in [Socks -> SUBSET Events]
         /\ \A c \in Conns, d \in Sides : <<c, d>> \in Socks
         /\ \A k \in Socks : k = <<k[1], k[2]>> /\ k[1] \in Conns /\ k[2] \in Sides
         /\ Socks \subseteq Descriptors /\ Listener \notin Socks /\ Timer \notin Socks
         /\ Listener \in Descriptors /\ Timer \in Descriptors /\ Listener # Timer
BY DEF TypeOK, SockType, Peers, Events, Socks, Descriptors, Listener, Timer, Sides

(* Only sockets of connections that live are reported and queued.            *)
LEMMA LiveFacts ==
  ASSUME IInv, NEW c \in Conns, NEW d \in Sides, <<c, d>> \in edge \/ Queued(<<c, d>>)
  PROVE  conn[c].live
<1>1. <<c, d>> \in Socks
  BY TypeFacts DEF IInv
<1>2. sock[<<c, d>>].peer # "none"
  BY <1>1 DEF IInv, ListedOnce, Queued
<1>3. d = "client" \/ d = "remote"
  BY DEF Sides
<1> QED BY <1>2, <1>3 DEF IInv, ListedOnce, ConnOK

(* What a step may do to one socket k, apart from its edge.                    *)
Sets(k, s) ==
  /\ sock' = [sock EXCEPT ![k] = s] /\ edge' \in {edge, edge \cup {k}}
  /\ UNCHANGED <<backlog, revents, fd_list, conn_vars, program, run>>

(* It leaves the list, the other sockets and the other connections.          *)
LEMMA SockStep ==
  ASSUME IInv, NEW k \in Socks, NEW s \in SockType, sock[k].peer # "none", s.peer # "none",
         Sets(k, s)
  PROVE  /\ TypeOK' /\ ListedOnce' /\ \A l \in Socks : l # k => SockOK(l)'
         /\ \A c \in Conns : ConnOK(c)' /\ (c # k[1] => MovesOn(c)')
<1> USE DEF Sets
<1>1. /\ sock \in [Socks -> SockType]
      /\ \A l \in Socks : l = <<l[1], l[2]>> /\ l[1] \in Conns /\ l[2] \in Sides
      /\ \A c \in Conns, d \in Sides : <<c, d>> \in Socks
      /\ Socks \subseteq Descriptors
  BY TypeFacts DEF IInv
<1>2. sock'[k] = s /\ \A l \in Socks : l # k => sock'[l] = sock[l]
  BY <1>1
<1>3. sock' \in [Socks -> SockType]
  BY <1>1
<1>4. TypeOK'
  <2>1. edge' \subseteq Descriptors
    BY <1>1 DEF IInv, TypeOK
  <2>2. sock' \in [Socks -> [peer : {"none", "connecting", "open", "eof", "reset"},
                             in : 0..MaxIn, out : 0..SendBuf, nospace : BOOLEAN]]
    BY <1>3 DEF SockType, Peers
  <2> QED BY <2>1, <2>2 DEF IInv, TypeOK, conn_vars, RingSize
<1>5. \A l \in Socks : (sock'[l].peer = "none") <=> (sock[l].peer = "none")
  BY <1>2
<1>6. ListedOnce'
  <2>1. \A l \in Socks : sock'[l].peer = "none" => l \notin edge' \cup ToSet(fd_list')
    BY <1>5 DEF IInv, ListedOnce, conn_vars
  <2>2. \A c \in Conns : <<c, "client">> \in Socks
    BY <1>1, SideFacts
  <2>3. IsInjective(conn_list') /\ ToSet(conn_list') = {c \in Conns : conn'[c].live}
    BY DEF IInv, ListedOnce, conn_vars
  <2>4. \A c \in Conns : conn'[c].live <=> sock'[<<c, "client">>].peer # "none"
    BY <1>5, <2>2 DEF IInv, ListedOnce, conn_vars
  <2> QED BY <2>1, <2>3, <2>4 DEF ListedOnce
<1>7. ASSUME NEW l \in Socks, l # k PROVE SockOK(l)'
  BY <1>2, <1>7 DEF IInv, SockOK, Queued
<1>8. ASSUME NEW c \in Conns PROVE ConnOK(c)'
  <2>1. <<c, "remote">> \in Socks
    BY <1>1, SideFacts
  <2> QED BY <1>5, <2>1 DEF IInv, ConnOK, conn_vars
<1>9. ASSUME NEW c \in Conns, c # k[1] PROVE MovesOn(c)'
  <2>1. \A d \in Sides : <<c, d>> \in Socks /\ <<c, d>> # k
    BY <1>1, <1>9
  <2>2. Apart(c)
    BY <1>2, <2>1 DEF Apart, Queued, conn_vars
  <2> QED BY <2>2, ApartFacts DEF IInv
<1> QED BY <1>4, <1>6, <1>7, <1>8, <1>9

-----------------------------------------------------------------------------
(* The kernel and the peers.                                                 *)

(* An edge: whatever happened to the socket, epoll is going to report it.    *)
LEMMA HappensStep ==
  ASSUME IInv, NEW k \in Socks, NEW s \in SockType, sock[k].peer # "none", s.peer # "none",
         Happens(k, s), UNCHANGED <<program, run>>,
         \/ s.out = 0
         \/ s.out = sock[k].out /\ s.nospace = sock[k].nospace,
         s.peer = "reset" => s.out = 0
  PROVE  IInv'
<1> DEFINE b == k[1]
           e == k[2]
<1>1. /\ sock' = [sock EXCEPT ![k] = s] /\ edge' = edge \cup {k}
      /\ UNCHANGED <<backlog, revents, fd_list, conn_vars>>
  BY DEF Happens
<1>2. /\ TypeOK' /\ ListedOnce' /\ \A l \in Socks : l # k => SockOK(l)'
      /\ \A c \in Conns : ConnOK(c)' /\ (c # b => MovesOn(c)')
  <2>1. Sets(k, s)
    BY <1>1 DEF Sets
  <2> QED BY <2>1, SockStep
<1>3. k = <<b, e>> /\ b \in Conns /\ e \in Sides
  BY TypeFacts DEF IInv
<1>4. sock'[k] = s /\ \A l \in Socks : l # k => sock'[l] = sock[l]
  BY <1>1, TypeFacts DEF IInv
<1>5. SockOK(k)'
  BY <1>1, <1>4 DEF SockOK
<1>6. k \in edge' /\ \A l \in Socks : l \in edge => l \in edge'
  BY <1>1
<1>7. /\ program' = program /\ conn' = conn /\ revents' = revents /\ fd_list' = fd_list
  BY <1>1 DEF conn_vars
<1>8. SendBuf > 0 /\ SendBuf \in Nat
  BY SizeFacts
<1> HIDE DEF b, e
<1>9. MovesOn(b)'
  <2> SUFFICES ASSUME conn[b].live
               PROVE  (IF program = "echo" THEN EchoOK(b) ELSE \A d \in Sides : FlowOK(b, d))'
    BY <1>7 DEF MovesOn
  <2>1. CASE program = "echo"
    <3>1. EchoOK(b)
      BY <1>3, <2>1 DEF IInv, MovesOn
    <3>2. e = "client"
      BY <1>3, <2>1 DEF IInv, ConnOK, Sides
    <3>3. Full(k)' => Full(k) /\ sock'[k].nospace = sock[k].nospace
      BY <1>4, <1>8 DEF Full
    <3>4. EchoOK(b)'
      BY <1>3, <1>6, <1>7, <3>1, <3>2, <3>3 DEF EchoOK, Reads, Writes, Queued
    <3> QED BY <1>7, <2>1, <3>4
  <2>2. CASE program # "echo"
    <3>1. ASSUME NEW d \in Sides PROVE FlowOK(b, d)'
      <4>1. FlowOK(b, d) /\ Other(d) \in Sides /\ Other(d) # d
        BY <1>3, <2>2, SideFacts DEF IInv, MovesOn
      <4>2. <<b, d>> \in Socks /\ <<b, Other(d)>> \in Socks
        BY <1>3, <4>1 DEF Socks
      <4>3. CASE d = e
        <5>1. <<b, d>> = k /\ <<b, Other(d)>> # k
          BY <1>3, <4>1, <4>3
        <5>2. sock'[<<b, Other(d)>>] = sock[<<b, Other(d)>>]
          BY <1>4, <4>2, <5>1
        <5> QED BY <1>6, <1>7, <4>1, <4>2, <5>1, <5>2
                DEF FlowOK, Reads, Writes, Queued, WantsIn, WantsOut, Full
      <4>4. CASE d # e
        <5>1. <<b, d>> # k /\ <<b, Other(d)>> = k
          BY <1>3, <4>1, <4>4, SideFacts
        <5>2. sock'[<<b, d>>] = sock[<<b, d>>]
          BY <1>4, <4>2, <5>1
        <5>3. Full(k)' => Full(k) /\ sock'[k].nospace = sock[k].nospace
          BY <1>4, <1>8 DEF Full
        <5> QED BY <1>6, <1>7, <4>1, <4>2, <5>1, <5>2, <5>3
                DEF FlowOK, Reads, Writes, Queued, WantsIn, WantsOut
      <4> QED BY <4>3, <4>4
    <3> QED BY <1>7, <2>2, <3>1
  <2> QED BY <2>1, <2>2
<1> QED BY <1>2, <1>3, <1>5, <1>9 DEF IInv, b

(* The peer made room.  If nobody is told, nobody had found the socket       *)
(* full: the writer still remembers or is going to see that it can write.    *)
LEMMA PeerReadsStep ==
  ASSUME IInv, NEW k \in Socks, PeerReads(k), UNCHANGED <<program, run>>
  PROVE  IInv'
<1> DEFINE b == k[1]
           e == k[2]
           s == [sock[k] EXCEPT !.out = 0, !.nospace = FALSE]
<1>1. sock[k] \in SockType /\ sock \in [Socks -> SockType]
  BY TypeFacts DEF IInv
<1>2. /\ s \in SockType /\ s.peer = sock[k].peer /\ s.in = sock[k].in /\ s.out = 0
      /\ s.nospace = FALSE
  <2>1. s.peer = sock[k].peer /\ s.in = sock[k].in /\ s.out = 0 /\ s.nospace = FALSE
    BY <1>1 DEF SockType
  <2>2. 0 \in 0..SendBuf
    BY SizeFacts
  <2>3. s \in SockType
    BY <1>1, <2>2 DEF SockType
  <2> QED BY <2>1, <2>3
<1>3. sock' = [sock EXCEPT ![k] = s]
  BY <1>1 DEF PeerReads
<1>4. /\ sock[k].out > 0 /\ edge' = IF sock[k].nospace THEN edge \cup {k} ELSE edge
      /\ UNCHANGED <<backlog, revents, fd_list, conn_vars>>
  BY DEF PeerReads
<1>5. sock[k].peer # "none" /\ sock[k].peer # "reset"
  <2>1. NoSock.out = 0
    BY DEF NoSock
  <2> QED BY <1>4, <2>1 DEF IInv, SockOK
<1> HIDE DEF s
<1>6. /\ TypeOK' /\ ListedOnce' /\ \A l \in Socks : l # k => SockOK(l)'
      /\ \A c \in Conns : ConnOK(c)' /\ (c # b => MovesOn(c)')
  <2>1. Sets(k, s)
    BY <1>3, <1>4 DEF Sets
  <2> QED BY <1>2, <1>5, <2>1, SockStep
<1>7. k = <<b, e>> /\ b \in Conns /\ e \in Sides
  BY TypeFacts DEF IInv
<1>8. sock'[k] = s /\ \A l \in Socks : l # k => sock'[l] = sock[l]
  BY <1>1, <1>3
<1>9. SockOK(k)'
  BY <1>2, <1>5, <1>8 DEF SockOK
<1>10. (sock[k].nospace => k \in edge') /\ \A l \in Socks : l \in edge => l \in edge'
  BY <1>4
<1>11. program' = program /\ conn' = conn /\ revents' = revents /\ fd_list' = fd_list
  BY <1>4 DEF conn_vars
<1>12. SendBuf > 0 /\ SendBuf \in Nat /\ sock[k].out \in 0..SendBuf
  BY <1>1, SizeFacts DEF SockType
<1>13. ~Full(k)' /\ (Writable(sock[k]) \/ Full(k) \/ ~Writable(sock'[k]))
  BY <1>2, <1>8, <1>12 DEF Full, Writable
<1>14. Readable(sock'[k]) <=> Readable(sock[k])
  BY <1>2, <1>8 DEF Readable
<1> HIDE DEF b, e
<1>15. MovesOn(b)'
  <2> SUFFICES ASSUME conn[b].live
               PROVE  (IF program = "echo" THEN EchoOK(b) ELSE \A d \in Sides : FlowOK(b, d))'
    BY <1>11 DEF MovesOn
  <2>1. CASE program = "echo"
    <3>1. EchoOK(b)
      BY <1>7, <2>1 DEF IInv, MovesOn
    <3>2. e = "client"
      BY <1>5, <1>7, <2>1 DEF IInv, ConnOK, Sides
    <3>3. EchoOK(b)'
      BY <1>7, <1>10, <1>11, <1>13, <1>14, <3>1, <3>2 DEF EchoOK, Reads, Writes, Queued
    <3> QED BY <1>11, <2>1, <3>3
  <2>2. CASE program # "echo"
    <3>1. ASSUME NEW d \in Sides PROVE FlowOK(b, d)'
      <4>1. FlowOK(b, d) /\ Other(d) \in Sides /\ Other(d) # d
        BY <1>7, <2>2, SideFacts DEF IInv, MovesOn
      <4>2. <<b, d>> \in Socks /\ <<b, Other(d)>> \in Socks
        BY <1>7, <4>1 DEF Socks
      <4>3. CASE d = e
        <5>1. <<b, d>> = k /\ <<b, Other(d)>> # k
          BY <1>7, <4>1, <4>3
        <5>2. sock'[<<b, Other(d)>>] = sock[<<b, Other(d)>>] /\ sock'[k].in = sock[k].in
          BY <1>2, <1>8, <4>2, <5>1
        <5> QED BY <1>10, <1>11, <1>14, <4>1, <4>2, <5>1, <5>2
                DEF FlowOK, Reads, Writes, Queued, WantsIn, WantsOut, Full
      <4>4. CASE d # e
        <5>1. <<b, d>> # k /\ <<b, Other(d)>> = k
          BY <1>7, <4>1, <4>4, SideFacts
        <5>2. sock'[<<b, d>>] = sock[<<b, d>>]
          BY <1>8, <4>2, <5>1
        <5> QED BY <1>10, <1>11, <1>13, <4>1, <4>2, <5>1, <5>2
                DEF FlowOK, Reads, Writes, Queued, WantsIn, WantsOut
      <4> QED BY <4>3, <4>4
    <3> QED BY <1>11, <2>2, <3>1
  <2> QED BY <2>1, <2>2
<1> QED BY <1>6, <1>7, <1>9, <1>15 DEF IInv, b

(* A step that touches neither sockets nor connections.                        *)
Elsewhere ==
  /\ UNCHANGED <<sock, revents, conn, conn_list, program, run>>
  /\ backlog' \in 0..MaxBacklog /\ edge' \subseteq Descriptors
  /\ fd_list' \in Seq(Descriptors) /\ IsInjective(fd_list')
  /\ \A k \in Socks : (k \in edge' <=> k \in edge) /\ (Queued(k)' <=> Queued(k))

(* Such a step keeps the invariant.                                          *)
LEMMA ElsewhereStep ==
  ASSUME IInv, Elsewhere
  PROVE  IInv'
<1>1. TypeOK'
  BY DEF IInv, TypeOK, Elsewhere, RingSize
<1>2. ListedOnce'
  BY DEF IInv, ListedOnce, Elsewhere, Queued
<1>3. ASSUME NEW k \in Socks PROVE SockOK(k)'
  BY <1>3 DEF IInv, SockOK, Elsewhere
<1>4. ASSUME NEW c \in Conns PROVE ConnOK(c)' /\ MovesOn(c)'
  <2>1. ConnOK(c) /\ MovesOn(c)
    BY DEF IInv
  <2>2. ConnOK(c)'
    BY <2>1 DEF ConnOK, Elsewhere
  <2>3. \A d \in Sides : <<c, d>> \in Socks
    BY DEF Socks
  <2>4. Apart(c)
    BY <2>3 DEF Elsewhere, Apart
  <2> QED BY <2>1, <2>2, <2>4, ApartFacts
<1> QED BY <1>1, <1>2, <1>3, <1>4 DEF IInv

(* Every step of the kernel and the peers keeps the invariant.               *)
LEMMA WorldStep ==
  ASSUME IInv, NEW cs, WorldNext(cs), UNCHANGED <<program, run>>
  PROVE  IInv'
<1>1. /\ fd_list \in Seq(Descriptors) /\ IsInjective(fd_list) /\ backlog \in 0..MaxBacklog
      /\ edge \subseteq Descriptors
      /\ Listener \in Descriptors \ Socks /\ Timer \in Descriptors \ Socks
  BY TypeFacts DEF IInv, TypeOK
<1>2. CASE PeerConnects(cs)
  <2>1. backlog' \in 0..MaxBacklog
    BY <1>1, <1>2, SizeFacts DEF PeerConnects
  <2>2. Elsewhere
    BY <1>1, <1>2, <2>1 DEF PeerConnects, Elsewhere, conn_vars, Queued
  <2> QED BY <2>2, ElsewhereStep
<1>3. CASE TimerExpires
  <2>1. Elsewhere
    BY <1>1, <1>3 DEF TimerExpires, Elsewhere, conn_vars, Queued
  <2> QED BY <2>1, ElsewhereStep
<1>4. ASSUME NEW k \in Socks,
             Connected(k) \/ PeerResets(k) \/ PeerCloses(k) \/ PeerSends(k)
      PROVE  IInv'
  <2>1. sock[k] \in SockType
    BY TypeFacts DEF IInv
  <2>2. sock[k].peer # "none"
    BY <1>4 DEF Connected, PeerResets, PeerCloses, PeerSends, Open
  <2>3. CASE Connected(k)
    <3> DEFINE s == [sock[k] EXCEPT !.peer = "open"]
    <3>1. s \in SockType /\ s.peer = "open" /\ s.out = sock[k].out /\ s.nospace = sock[k].nospace
      BY <2>1 DEF SockType, Peers
    <3>2. Happens(k, s)
      BY <2>3 DEF Connected
    <3> HIDE DEF s
    <3> QED BY <2>2, <3>1, <3>2, HappensStep
  <2>4. CASE PeerResets(k)
    <3> DEFINE s == [sock[k] EXCEPT !.peer = "reset", !.out = 0, !.nospace = FALSE]
    <3>1. s.peer = "reset" /\ s.out = 0
      BY <2>1 DEF SockType
    <3>2. s \in SockType
      <4>1. 0 \in 0..SendBuf
        BY SizeFacts
      <4> QED BY <2>1, <4>1 DEF SockType, Peers
    <3>3. Happens(k, s)
      BY <2>4 DEF PeerResets
    <3> HIDE DEF s
    <3> QED BY <2>2, <3>1, <3>2, <3>3, HappensStep
  <2>5. CASE PeerCloses(k)
    <3> DEFINE s == [sock[k] EXCEPT !.peer = "eof"]
    <3>1. s \in SockType /\ s.peer = "eof" /\ s.out = sock[k].out /\ s.nospace = sock[k].nospace
      BY <2>1 DEF SockType, Peers
    <3>2. Happens(k, s)
      BY <2>5 DEF PeerCloses
    <3> HIDE DEF s
    <3> QED BY <2>2, <3>1, <3>2, HappensStep
  <2>6. CASE PeerSends(k)
    <3> DEFINE s == [sock[k] EXCEPT !.in = sock[k].in + 1]
    <3>1. s.peer = sock[k].peer /\ s.out = sock[k].out /\ s.nospace = sock[k].nospace
      BY <2>1 DEF SockType
    <3>2. sock[k].in + 1 \in 0..MaxIn /\ sock[k].peer = "open"
      BY <2>1, <2>6, SizeFacts DEF SockType, PeerSends
    <3>3. s \in SockType
      BY <2>1, <3>2 DEF SockType
    <3>4. Happens(k, s)
      BY <2>6 DEF PeerSends
    <3> HIDE DEF s
    <3> QED BY <3>1, <3>2, <3>3, <3>4, HappensStep
  <2> QED BY <1>4, <2>3, <2>4, <2>5, <2>6
<1>5. ASSUME NEW k \in Socks, PeerReads(k) PROVE IInv'
  BY <1>5, PeerReadsStep
<1> QED BY <1>2, <1>3, <1>4, <1>5 DEF WorldNext

(* What epoll_wait reports.                                                  *)
LEMMA LevelFacts ==
  ASSUME NEW s \in SockType
  PROVE  /\ Level(s) \subseteq Events
         /\ "IN" \in Level(s) <=> Readable(s)
         /\ "OUT" \in Level(s) <=> Writable(s) \/ s.peer = "reset"
         /\ "ERR" \in Level(s) <=> s.peer = "reset"
BY DEF Level, Events

(* There are finitely many descriptors, so that what arrived can be          *)
(* ordered.                                                                  *)
LEMMA DescriptorsFinite == IsFiniteSet(Descriptors)
<1>1. IsFiniteSet(Conns)
  BY SizesAssumption, FS_Union DEF Conns
<1>2. IsFiniteSet(Sides)
  <2>1. IsFiniteSet({"client"}) /\ IsFiniteSet({"remote"})
    BY FS_Singleton
  <2>2. Sides = {"client"} \cup {"remote"}
    BY DEF Sides
  <2> QED BY <2>1, <2>2, FS_Union
<1>3. IsFiniteSet(Socks)
  BY <1>1, <1>2, FS_Product DEF Socks
<1>4. IsFiniteSet({Listener}) /\ IsFiniteSet({Timer})
  BY FS_Singleton
<1>5. IsFiniteSet(Socks \cup {Listener})
  BY <1>3, <1>4, FS_Union
<1>6. IsFiniteSet((Socks \cup {Listener}) \cup {Timer})
  BY <1>4, <1>5, FS_Union
<1>7. Descriptors = (Socks \cup {Listener}) \cup {Timer}
  BY DEF Descriptors
<1> QED BY <1>6, <1>7

(* Priorities are numbers.                                                   *)
LEMMA PrioFacts == Priorities(Prio)
BY DEF Priorities, Prio, EchoPrio, SplicerPrio

(* epoll_wait: no edge is pending any more, but each that matters is now an  *)
(* event in revents of a queued descriptor object.                           *)
LEMMA WaitStep ==
  ASSUME IInv, Wait(Prio), UNCHANGED <<program, run>>
  PROVE  IInv'
<1>1. /\ fd_list \in Seq(Descriptors) /\ IsInjective(fd_list) /\ edge \subseteq Descriptors
      /\ sock \in [Socks -> SockType] /\ revents \in [Socks -> SUBSET Events]
      /\ Socks \subseteq Descriptors
  BY TypeFacts DEF IInv, TypeOK
<1>2. PICK q \in SetToSeqs(Arriving) : fd_list' = InsertedAll(fd_list, q, Prio)
  BY DEF Wait
<1>3. Arriving \subseteq Descriptors /\ Arriving \cap ToSet(fd_list) = {} /\ IsFiniteSet(Arriving)
  <2>1. Arriving \subseteq Descriptors /\ Arriving \cap ToSet(fd_list) = {}
    BY <1>1 DEF Arriving
  <2> QED BY <2>1, DescriptorsFinite, FS_Subset
<1>4. q \in Seq(Descriptors) /\ IsInjective(q) /\ ToSet(q) = Arriving
  <2>1. q \in Seq(Arriving) /\ IsInjective(q) /\ ToSet(q) = Arriving
    BY <1>3, OrderFacts
  <2>2. q \in Seq(Descriptors)
    BY <1>3, <2>1
  <2> QED BY <2>1, <2>2
<1>5. /\ fd_list' \in Seq(Descriptors) /\ IsInjective(fd_list')
      /\ ToSet(fd_list') = ToSet(fd_list) \cup Arriving
  BY <1>1, <1>2, <1>3, <1>4, PrioFacts, InsertedAllFacts
<1>6. /\ edge' = {} /\ UNCHANGED <<sock, backlog, conn, conn_list, program, run>>
      /\ revents' = [k \in Socks |-> IF k \in edge THEN revents[k] \cup Reported(k) ELSE revents[k]]
  BY DEF Wait, conn_vars
<1>7. \A k \in Socks : Reported(k) = Level(sock[k]) /\ sock[k] \in SockType
  BY <1>1 DEF Reported
<1>8. ASSUME NEW k \in Socks
      PROVE  /\ Queued(k) => Queued(k)'
             /\ ~(k \in edge) => (Queued(k)' => Queued(k)) /\ revents'[k] = revents[k]
             /\ k \in edge => revents'[k] = revents[k] \cup Level(sock[k])
             /\ k \in edge /\ Level(sock[k]) # {} => Queued(k)'
  BY <1>5, <1>6, <1>7 DEF Arriving, Queued
<1>9. ASSUME NEW k \in Socks
      PROVE  /\ Reads(k) => Reads(k)'
             /\ Writes(k) => Writes(k)'
             /\ k \in edge /\ Readable(sock[k]) => Reads(k)'
             /\ k \in edge /\ Writable(sock[k]) => Writes(k)'
  BY <1>7, <1>8, LevelFacts DEF Reads, Writes
<1>10. TypeOK'
  <2>1. revents' \in [Socks -> SUBSET {"IN", "OUT", "ERR"}]
    BY <1>1, <1>6, <1>7, LevelFacts DEF Events
  <2> QED BY <1>5, <1>6, <2>1 DEF IInv, TypeOK, RingSize
<1>11. ListedOnce'
  <2>1. \A k \in Socks : sock[k].peer = "none" => k \notin ToSet(fd_list) /\ k \notin edge
    BY DEF IInv, ListedOnce
  <2>2. \A k \in Socks : sock'[k].peer = "none" => k \notin edge' \cup ToSet(fd_list')
    BY <1>5, <1>6, <2>1 DEF Arriving
  <2> QED BY <1>6, <2>2 DEF IInv, ListedOnce
<1>12. ASSUME NEW k \in Socks PROVE SockOK(k)'
  <2>1. SockOK(k)
    BY DEF IInv
  <2>2. CASE sock[k].peer = "none"
    <3>1. k \notin edge
      BY <2>2 DEF IInv, ListedOnce
    <3> QED BY <1>6, <1>8, <2>1, <2>2, <3>1 DEF SockOK
  <2>3. CASE sock[k].peer = "reset"
    <3>1. "ERR" \in Level(sock[k])
      BY <1>7, <2>3, LevelFacts
    <3>2. Queued(k)' /\ "ERR" \in revents'[k]
      BY <1>8, <2>1, <2>3, <3>1 DEF SockOK
    <3> QED BY <1>6, <2>1, <2>3, <3>2 DEF SockOK
  <2>4. CASE sock[k].peer \notin {"none", "reset"}
    BY <1>6, <2>4 DEF SockOK
  <2> QED BY <2>2, <2>3, <2>4
<1>13. ASSUME NEW c \in Conns PROVE ConnOK(c)' /\ MovesOn(c)'
  <2>1. ConnOK(c) /\ MovesOn(c)
    BY DEF IInv
  <2>2. ConnOK(c)'
    BY <1>6, <2>1 DEF ConnOK
  <2>3. SUFFICES ASSUME conn[c].live
                 PROVE  (IF program = "echo" THEN EchoOK(c) ELSE \A d \in Sides : FlowOK(c, d))'
    BY <1>6, <2>2 DEF MovesOn
  <2>4. CASE program = "echo"
    <3>1. EchoOK(c) /\ <<c, "client">> \in Socks
      BY <2>1, <2>3, <2>4, SideFacts DEF MovesOn, Socks
    <3>2. Queued(<<c, "client">>)' => revents'[<<c, "client">>] # {}
      <4> DEFINE k == <<c, "client">>
      <4>1. CASE k \notin edge
        BY <1>8, <3>1, <4>1 DEF EchoOK
      <4>2. CASE k \in edge /\ Level(sock[k]) # {}
        BY <1>8, <3>1, <4>2
      <4>3. CASE k \in edge /\ Level(sock[k]) = {}
        <5>1. Queued(k)' => Queued(k)
          BY <1>5, <1>7, <3>1, <4>3 DEF Arriving, Queued
        <5> QED BY <1>8, <3>1, <4>3, <5>1 DEF EchoOK
      <4> QED BY <4>1, <4>2, <4>3
    <3>3. EchoOK(c)'
      BY <1>6, <1>9, <3>1, <3>2 DEF EchoOK, Full
    <3> QED BY <1>6, <2>4, <3>3
  <2>5. CASE program # "echo"
    <3>1. ASSUME NEW d \in Sides PROVE FlowOK(c, d)'
      <4>1. FlowOK(c, d) /\ <<c, d>> \in Socks /\ <<c, Other(d)>> \in Socks
        BY <2>1, <2>3, <2>5, SideFacts DEF MovesOn, Socks
      <4> QED BY <1>6, <1>9, <4>1 DEF FlowOK, WantsIn, WantsOut, Full
    <3> QED BY <1>6, <2>5, <3>1
  <2> QED BY <2>2, <2>4, <2>5
<1> QED BY <1>10, <1>11, <1>12, <1>13 DEF IInv

-----------------------------------------------------------------------------
(* Connections end.                                                          *)

(* What is left of a closed socket and of a released connection.             *)
LEMMA NoConnFacts ==
  /\ NoConn.live = FALSE /\ NoConn.want = {} /\ NoConn.idle = FALSE
  /\ \A d \in Sides : NoConn.buf[d] = 0
  /\ NoConn.buf \in [Sides -> {0}]
  /\ NoSock.peer = "none" /\ NoSock.in = 0 /\ NoSock.out = 0 /\ NoSock.nospace = FALSE
  /\ NoSock \in SockType
<1>1. 0 \in 0..MaxIn /\ 0 \in 0..SendBuf
  BY SizeFacts
<1> QED BY <1>1 DEF NoConn, NoSock, SockType, Peers

ConnType ==
  [live : BOOLEAN, buf : [Sides -> 0..RingSize], want : SUBSET (Sides \X Interest), idle : BOOLEAN]

(* Connections have their type.                                              *)
LEMMA RingFacts ==
  ASSUME TypeOK
  PROVE  /\ RingSize \in Nat /\ RingSize > 0 /\ conn \in [Conns -> ConnType]
         /\ NoConn \in ConnType /\ NewConn \in ConnType
         /\ NewConn.live = TRUE /\ NewConn.want = {} /\ NewConn.buf = NoConn.buf
<1>1. RingSize \in Nat /\ RingSize > 0
  BY SizeFacts DEF RingSize
<1>2. 0 \in 0..RingSize
  BY <1>1
<1>3. [d \in Sides |-> 0] \in [Sides -> 0..RingSize]
  BY <1>2
<1>4. NoConn \in ConnType
  BY <1>3 DEF NoConn, ConnType
<1>5. NewConn.live = TRUE /\ NewConn.want = {} /\ NewConn.buf = NoConn.buf
  BY DEF NewConn, NoConn
<1>6. NewConn \in ConnType
  BY <1>3 DEF NewConn, NoConn, ConnType
<1> QED BY <1>1, <1>4, <1>5, <1>6 DEF TypeOK, ConnType

(* The ends of connections: what is released is gone from the kernel, from the *)
(* queue and from the list.                                                    *)
LEMMA FreeStep ==
  ASSUME IInv, NEW cs \in SUBSET Conns, NEW queue \in Seq(Descriptors), IsInjective(queue),
         Free(cs, queue), \A k \in Socks : k \in ToSet(queue) <=> Queued(k),
         program' = program, run' \in BOOLEAN, conn' \in [Conns -> ConnType],
         \A c \in cs : conn'[c] = NoConn,
         \A c \in Conns \ cs :
           /\ conn'[c].live = conn[c].live
           /\ conn[c].live => conn'[c].buf = conn[c].buf /\ conn'[c].want = conn[c].want,
         conn_list' \in Seq(Conns), IsInjective(conn_list'),
         ToSet(conn_list') = ToSet(conn_list) \ cs
  PROVE  IInv'
<1>1. /\ sock \in [Socks -> SockType] /\ revents \in [Socks -> SUBSET Events]
      /\ \A k \in Socks : k = <<k[1], k[2]>> /\ k[1] \in Conns /\ k[2] \in Sides
      /\ \A c \in Conns, d \in Sides : <<c, d>> \in Socks
      /\ Socks \subseteq Descriptors /\ edge \subseteq Descriptors
  BY TypeFacts DEF IInv, TypeOK
<1>2. /\ sock' = [k \in Socks |-> IF k[1] \in cs THEN NoSock ELSE sock[k]]
      /\ edge' = {k \in edge : k[1] \notin cs}
      /\ revents' = [k \in Socks |-> IF k[1] \in cs THEN {} ELSE revents[k]]
      /\ fd_list' = Only(queue, {k \in Descriptors : k[1] \notin cs})
      /\ backlog' = backlog
  BY DEF Free
<1>3. /\ fd_list' \in Seq(Descriptors) /\ IsInjective(fd_list')
      /\ ToSet(fd_list') = ToSet(queue) \cap {k \in Descriptors : k[1] \notin cs}
  BY <1>2, OnlyFacts
<1>4. \A k \in Socks : Queued(k)' <=> Queued(k) /\ k[1] \notin cs
  BY <1>1, <1>3 DEF Queued
<1>5. TypeOK'
  <2>1. sock' \in [Socks -> [peer : {"none", "connecting", "open", "eof", "reset"},
                             in : 0..MaxIn, out : 0..SendBuf, nospace : BOOLEAN]]
    BY <1>1, <1>2, NoConnFacts DEF SockType, Peers
  <2>2. revents' \in [Socks -> SUBSET {"IN", "OUT", "ERR"}]
    BY <1>1, <1>2 DEF Events
  <2>3. edge' \subseteq Descriptors
    BY <1>1, <1>2
  <2>4. RingSize' = RingSize
    BY DEF RingSize
  <2> QED BY <1>2, <1>3, <2>1, <2>2, <2>3, <2>4 DEF IInv, TypeOK, ConnType
<1>6. \A c \in Conns : conn'[c].live <=> conn[c].live /\ c \notin cs
  BY NoConnFacts
<1>7. \A k \in Socks : IF k[1] \in cs THEN sock'[k] = NoSock /\ revents'[k] = {}
                                      ELSE sock'[k] = sock[k] /\ revents'[k] = revents[k]
  BY <1>2
<1>8. \A c \in Conns, d \in Sides : <<c, d>> \in Socks /\ <<c, d>>[1] = c
  BY <1>1
<1>9. ListedOnce'
  <2>1. ToSet(conn_list') = {c \in Conns : conn'[c].live}
    BY <1>6 DEF IInv, ListedOnce
  <2>2. ASSUME NEW c \in Conns PROVE conn'[c].live <=> sock'[<<c, "client">>].peer # "none"
    <3>1. conn[c].live <=> sock[<<c, "client">>].peer # "none"
      BY DEF IInv, ListedOnce
    <3>2. <<c, "client">> \in Socks /\ <<c, "client">>[1] = c
      BY <1>8, SideFacts
    <3>3. CASE c \in cs
      <4>1. sock'[<<c, "client">>] = NoSock
        BY <1>7, <3>2, <3>3
      <4> QED BY <1>6, <3>3, <4>1, NoConnFacts
    <3>4. CASE c \notin cs
      <4>1. sock'[<<c, "client">>] = sock[<<c, "client">>]
        BY <1>7, <3>2, <3>4
      <4> QED BY <1>6, <3>1, <3>4, <4>1
    <3> QED BY <3>3, <3>4
  <2>3. ASSUME NEW k \in Socks, sock'[k].peer = "none" PROVE k \notin edge' \cup ToSet(fd_list')
    <3>1. CASE k[1] \in cs
      BY <1>2, <1>3, <3>1
    <3>2. CASE k[1] \notin cs
      <4>1. k \notin edge /\ ~Queued(k)
        BY <1>7, <2>3, <3>2 DEF IInv, ListedOnce, Queued
      <4> QED BY <1>2, <1>4, <4>1 DEF Queued
    <3> QED BY <3>1, <3>2
  <2> QED BY <2>1, <2>2, <2>3 DEF ListedOnce
<1>10. ASSUME NEW k \in Socks PROVE SockOK(k)'
  <2>1. SockOK(k)
    BY DEF IInv
  <2>2. CASE k[1] \in cs
    BY <1>7, <2>2, NoConnFacts DEF SockOK
  <2>3. CASE k[1] \notin cs
    BY <1>2, <1>4, <1>7, <2>1, <2>3 DEF SockOK
  <2> QED BY <2>2, <2>3
<1>11. ASSUME NEW c \in Conns PROVE ConnOK(c)' /\ MovesOn(c)'
  <2>1. ConnOK(c) /\ MovesOn(c)
    BY DEF IInv
  <2>2. CASE c \in cs
    <3>1. sock'[<<c, "remote">>] = NoSock
      BY <1>7, <1>8, <2>2, SideFacts
    <3> QED BY <1>6, <2>2, <3>1, NoConnFacts DEF ConnOK, MovesOn
  <2>3. CASE c \notin cs
    <3>1. sock'[<<c, "remote">>] = sock[<<c, "remote">>]
      BY <1>7, <1>8, <2>3, SideFacts
    <3>2. ConnOK(c)'
      BY <1>6, <2>1, <2>3, <3>1 DEF ConnOK
    <3>3. CASE conn[c].live
      <4>1. Apart(c)
        BY <1>2, <1>4, <1>7, <1>8, <2>3, <3>3 DEF Apart
      <4> QED BY <2>1, <3>2, <4>1, ApartFacts
    <3>4. CASE ~conn[c].live
      BY <1>6, <3>2, <3>4 DEF MovesOn
    <3> QED BY <3>3, <3>4
  <2> QED BY <2>2, <2>3
<1> QED BY <1>5, <1>9, <1>10, <1>11 DEF IInv

(* remove_session and remove_client.                                         *)
LEMMA EndConnStep ==
  ASSUME IInv, NEW c \in Conns, EndConn(c), UNCHANGED <<program, run>>
  PROVE  IInv'
<1>1. /\ fd_list \in Seq(Descriptors) /\ IsInjective(fd_list) /\ run \in BOOLEAN
      /\ conn \in [Conns -> ConnType] /\ NoConn \in ConnType
      /\ conn_list \in Seq(Conns) /\ IsInjective(conn_list)
  BY RingFacts DEF IInv, TypeOK, ListedOnce
<1>2. Free({c}, fd_list) /\ conn' = [conn EXCEPT ![c] = NoConn] /\ conn_list' = RemoveFirst(conn_list, c)
  BY DEF EndConn
<1>3. /\ conn_list' \in Seq(Conns) /\ IsInjective(conn_list')
      /\ ToSet(conn_list') = ToSet(conn_list) \ {c}
  BY <1>1, <1>2, RemoveFirstFacts
<1>4. /\ conn' \in [Conns -> ConnType] /\ conn'[c] = NoConn
      /\ \A b \in Conns \ {c} : conn'[b] = conn[b]
  BY <1>1, <1>2
<1>5. \A k \in Socks : k \in ToSet(fd_list) <=> Queued(k)
  BY DEF Queued
<1>6. {c} \in SUBSET Conns /\ run' \in BOOLEAN /\ program' = program
  BY <1>1
<1> QED BY <1>1, <1>2, <1>3, <1>4, <1>5, <1>6, FreeStep

(* timeout_handler: those released leave the list together, the others are   *)
(* only marked.                                                              *)
LEMMA TimeoutStep ==
  ASSUME IInv, TimeoutHandler, UNCHANGED <<program, run>>
  PROVE  IInv'
<1>1. /\ fd_list \in Seq(Descriptors) /\ IsInjective(fd_list) /\ run \in BOOLEAN
      /\ conn \in [Conns -> ConnType] /\ NoConn \in ConnType
      /\ conn_list \in Seq(Conns) /\ IsInjective(conn_list)
      /\ ToSet(conn_list) = {c \in Conns : conn[c].live}
  BY RingFacts DEF IInv, TypeOK, ListedOnce
<1> DEFINE cs == Silent
<1>2. /\ fd_list # <<>> /\ Head(fd_list) = Timer /\ Free(cs, Tail(fd_list))
      /\ conn' = [c \in Conns |-> IF c \in cs THEN NoConn
                                  ELSE [conn[c] EXCEPT !.idle = c \in ToSet(conn_list)]]
      /\ conn_list' = Purged(cs)
  BY DEF TimeoutHandler, IsHead
<1>3. cs \subseteq Conns
  BY <1>1 DEF Silent
<1> HIDE DEF cs
<1>4. /\ Tail(fd_list) \in Seq(Descriptors) /\ IsInjective(Tail(fd_list))
      /\ \A k \in Socks : k \in ToSet(Tail(fd_list)) <=> Queued(k)
  <2>1. Timer \notin Socks
    BY TypeFacts DEF IInv
  <2>2. ToSet(Tail(fd_list)) = ToSet(fd_list) \ {Timer}
    BY <1>1, <1>2, TailFacts
  <2> QED BY <1>1, <1>2, <2>1, <2>2, TailFacts DEF Queued
<1>5. /\ conn_list' \in Seq(Conns) /\ IsInjective(conn_list')
      /\ ToSet(conn_list') = ToSet(conn_list) \ cs
  <2>1. ToSet(conn_list) \cap (Conns \ cs) = ToSet(conn_list) \ cs
    BY <1>1
  <2> QED BY <1>1, <1>2, <2>1, OnlyFacts DEF Purged
<1>6. ASSUME NEW c \in Conns, c \notin cs
      PROVE  /\ conn'[c] \in ConnType
             /\ conn'[c].live = conn[c].live /\ conn'[c].buf = conn[c].buf /\ conn'[c].want = conn[c].want
  <2> DEFINE i == c \in ToSet(conn_list)
  <2>1. conn'[c] = [conn[c] EXCEPT !.idle = i] /\ conn[c] \in ConnType /\ i \in BOOLEAN
    BY <1>1, <1>2, <1>6
  <2> HIDE DEF i
  <2> QED BY <2>1 DEF ConnType
<1>7. conn' \in [Conns -> ConnType] /\ \A c \in cs : conn'[c] = NoConn
  <2>1. \A c \in Conns : conn'[c] \in ConnType
    BY <1>1, <1>2, <1>6
  <2> QED BY <1>2, <1>3, <2>1
<1> QED BY <1>1, <1>2, <1>3, <1>4, <1>5, <1>6, <1>7, FreeStep

(* The end of main.                                                          *)
LEMMA QuitStep ==
  ASSUME IInv, Quit, program' = program
  PROVE  IInv'
<1>1. /\ fd_list \in Seq(Descriptors) /\ IsInjective(fd_list)
      /\ conn \in [Conns -> ConnType] /\ NoConn \in ConnType
      /\ ToSet(conn_list) = {c \in Conns : conn[c].live}
  BY RingFacts DEF IInv, TypeOK, ListedOnce
<1> DEFINE cs == ToSet(conn_list)
<1>2. run' = FALSE /\ Free(cs, fd_list) /\ conn' = [c \in Conns |-> NoConn] /\ conn_list' = <<>>
  BY DEF Quit
<1>3. <<>> \in Seq(Conns) /\ IsInjective(<<>>) /\ ToSet(<<>>) = {}
  BY DEF ToSet, IsInjective
<1>4. \A c \in Conns \ cs : ~conn[c].live /\ conn[c].live = FALSE
  BY <1>1 DEF ConnType
<1>5. cs \subseteq Conns
  BY <1>1
<1>6. \A k \in Socks : k \in ToSet(fd_list) <=> Queued(k)
  BY DEF Queued
<1> HIDE DEF cs
<1>7. ToSet(conn_list) \ cs = {}
  BY DEF cs
<1>8. conn' \in [Conns -> ConnType] /\ \A c \in Conns : conn'[c] = NoConn
  BY <1>1, <1>2
<1>9. \A c \in Conns \ cs :
        /\ conn'[c].live = conn[c].live
        /\ conn[c].live => conn'[c].buf = conn[c].buf /\ conn'[c].want = conn[c].want
  BY <1>4, <1>8, NoConnFacts
<1> QED BY <1>1, <1>2, <1>3, <1>5, <1>6, <1>7, <1>8, <1>9, FreeStep

(* accept has nothing left.                                                  *)
LEMMA AcceptAgainStep ==
  ASSUME IInv, AcceptAgain, UNCHANGED <<program, run>>
  PROVE  IInv'
<1>1. /\ fd_list \in Seq(Descriptors) /\ IsInjective(fd_list) /\ backlog \in 0..MaxBacklog
      /\ edge \subseteq Descriptors /\ Listener \notin Socks
  BY TypeFacts DEF IInv, TypeOK
<1>2. fd_list # <<>> /\ Head(fd_list) = Listener /\ fd_list' = Tail(fd_list)
  BY DEF AcceptAgain, IsHead
<1>3. /\ fd_list' \in Seq(Descriptors) /\ IsInjective(fd_list')
      /\ ToSet(fd_list') = ToSet(fd_list) \ {Listener}
  BY <1>1, <1>2, TailFacts
<1>4. Elsewhere
  BY <1>1, <1>3 DEF AcceptAgain, Elsewhere, kernel_vars, conn_vars, Queued
<1> QED BY <1>4, ElsewhereStep

-----------------------------------------------------------------------------
(* Connections begin.                                                        *)

(* A session whose connect fails at once is no session.                      *)
LEMMA ConnectFailedStep ==
  ASSUME IInv, NEW c \in Sessions, ConnectFailed(c), UNCHANGED <<program, run>>
  PROVE  IInv'
<1>1. /\ fd_list \in Seq(Descriptors) /\ IsInjective(fd_list) /\ backlog \in 0..MaxBacklog
      /\ edge \subseteq Descriptors /\ MaxBacklog \in Nat
  BY SizeFacts DEF IInv, TypeOK
<1>2. backlog' \in 0..MaxBacklog
  BY <1>1 DEF ConnectFailed
<1>3. Elsewhere
  BY <1>1, <1>2 DEF ConnectFailed, Elsewhere, conn_vars, Queued
<1> QED BY <1>3, ElsewhereStep

(* A new connection c, with its sockets open.                                  *)
Accepted(c, open) ==
  /\ backlog > 0 /\ ~conn[c].live /\ open \subseteq Sides
  /\ \A k \in Socks : IF k[1] = c /\ k[2] \in open
                        THEN sock'[k] \in {NewSock("open"), NewSock("connecting")}
                        ELSE sock'[k] = sock[k]
  /\ sock' \in [Socks -> SockType]
  /\ edge' = edge \cup {<<c, d>> : d \in open} /\ backlog' = backlog - 1
  /\ conn' = [conn EXCEPT ![c] = NewConn] /\ conn_list' = Append(conn_list, c)
  /\ UNCHANGED <<revents, fd_list, program, run>>

(* A socket that accept or socket returned.                                  *)
LEMMA NewSockFacts ==
  ASSUME NEW s \in {NewSock("open"), NewSock("connecting")}
  PROVE  /\ s \in SockType /\ s.peer \in {"open", "connecting"} /\ s.in = 0 /\ s.out = 0
         /\ s.nospace = FALSE
<1>1. 0 \in 0..MaxIn /\ 0 \in 0..SendBuf
  BY SizeFacts
<1> QED BY <1>1 DEF NewSock, NoSock, SockType, Peers

(* The edge that a new descriptor causes covers both directions.             *)
LEMMA AcceptedStep ==
  ASSUME IInv, NEW c \in Conns, NEW open, Accepted(c, open),
         open = IF program = "echo" THEN {"client"} ELSE Sides
  PROVE  IInv'
<1> USE DEF Accepted
<1>1. /\ sock \in [Socks -> SockType] /\ revents \in [Socks -> SUBSET Events]
      /\ \A k \in Socks : k = <<k[1], k[2]>> /\ k[1] \in Conns /\ k[2] \in Sides
      /\ \A b \in Conns, d \in Sides : <<b, d>> \in Socks
      /\ Socks \subseteq Descriptors /\ edge \subseteq Descriptors
      /\ conn \in [Conns -> ConnType] /\ NewConn \in ConnType
      /\ conn_list \in Seq(Conns) /\ IsInjective(conn_list)
      /\ backlog \in 0..MaxBacklog /\ MaxBacklog \in Nat
  BY TypeFacts, RingFacts, SizeFacts DEF IInv, TypeOK, ListedOnce
<1>2. ToSet(conn_list) = {b \in Conns : conn[b].live}
  BY DEF IInv, ListedOnce
<1>3. /\ conn_list' \in Seq(Conns) /\ IsInjective(conn_list')
      /\ ToSet(conn_list') = ToSet(conn_list) \cup {c}
  BY <1>1, <1>2, AppendFacts
<1>4. /\ conn' \in [Conns -> ConnType] /\ conn'[c] = NewConn
      /\ \A b \in Conns \ {c} : conn'[b] = conn[b]
  BY <1>1
<1>5. \A b \in Conns : conn'[b].live <=> conn[b].live \/ b = c
  BY <1>4, RingFacts DEF IInv
<1>6. \A k \in Socks : k \in edge' <=> k \in edge \/ (k[1] = c /\ k[2] \in open)
  <2> SUFFICES ASSUME NEW k \in Socks PROVE (\E d \in open : k = <<c, d>>) <=> k[1] = c /\ k[2] \in open
    OBVIOUS
  <2> QED BY <1>1
<1>7. edge' \subseteq Descriptors
  BY <1>1
<1>8. TypeOK'
  <2>1. backlog' \in 0..MaxBacklog
    BY <1>1
  <2>2. RingSize' = RingSize
    BY DEF RingSize
  <2> QED BY <1>3, <1>4, <1>7, <2>1, <2>2 DEF IInv, TypeOK, SockType, Peers, ConnType
<1>9. \A d \in Sides : sock[<<c, d>>].peer = "none" /\ revents[<<c, d>>] = {}
                       /\ ~Queued(<<c, d>>)
  <2>1. sock[<<c, "client">>].peer = "none" /\ sock[<<c, "remote">>].peer = "none"
    BY DEF IInv, ListedOnce, ConnOK
  <2>2. \A d \in Sides : sock[<<c, d>>].peer = "none" /\ <<c, d>> \in Socks
    BY <1>1, <2>1 DEF Sides
  <2> QED BY <2>2 DEF IInv, ListedOnce, SockOK, Queued
<1>10. \A k \in Socks : k[1] = c /\ k[2] \in open => sock'[k].peer \in {"open", "connecting"}
  BY NewSockFacts
<1>11. ListedOnce'
  <2>1. ToSet(conn_list') = {b \in Conns : conn'[b].live}
    BY <1>2, <1>3, <1>5
  <2>2. ASSUME NEW b \in Conns PROVE conn'[b].live <=> sock'[<<b, "client">>].peer # "none"
    <3>1. <<b, "client">> \in Socks /\ <<b, "client">>[1] = b /\ <<b, "client">>[2] = "client"
      BY <1>1, SideFacts
    <3>2. "client" \in open
      BY SideFacts
    <3>3. CASE b = c
      BY <1>5, <1>10, <3>1, <3>2, <3>3
    <3>4. CASE b # c
      <4>1. sock'[<<b, "client">>] = sock[<<b, "client">>]
        BY <3>1, <3>4
      <4>2. conn[b].live <=> sock[<<b, "client">>].peer # "none"
        BY DEF IInv, ListedOnce
      <4> QED BY <1>5, <3>4, <4>1, <4>2
    <3> QED BY <3>3, <3>4
  <2>3. ASSUME NEW k \in Socks, sock'[k].peer = "none" PROVE k \notin edge' \cup ToSet(fd_list')
    <3>1. ~(k[1] = c /\ k[2] \in open)
      BY <1>10, <2>3
    <3>2. sock[k].peer = "none"
      BY <2>3, <3>1
    <3>3. k \notin edge /\ k \notin ToSet(fd_list)
      BY <3>2 DEF IInv, ListedOnce
    <3> QED BY <1>6, <3>1, <3>3
  <2> QED BY <1>3, <2>1, <2>2, <2>3 DEF ListedOnce
<1>12. ASSUME NEW k \in Socks PROVE SockOK(k)'
  <2>1. SockOK(k)
    BY DEF IInv
  <2>2. CASE k[1] = c /\ k[2] \in open
    BY <1>10, <2>2 DEF SockOK
  <2>3. CASE ~(k[1] = c /\ k[2] \in open)
    BY <1>6, <2>1, <2>3 DEF SockOK, Queued
  <2> QED BY <2>2, <2>3
<1>13. ASSUME NEW b \in Conns, b # c PROVE ConnOK(b)' /\ MovesOn(b)'
  <2>1. ConnOK(b) /\ MovesOn(b)
    BY DEF IInv
  <2>2. \A d \in Sides : <<b, d>> \in Socks /\ sock'[<<b, d>>] = sock[<<b, d>>]
    BY <1>1, <1>13
  <2>3. ConnOK(b)'
    BY <1>4, <1>13, <2>1, <2>2, SideFacts DEF ConnOK
  <2>4. Apart(b)
    BY <1>4, <1>6, <1>13, <2>2 DEF Apart, Queued
  <2> QED BY <2>1, <2>3, <2>4, ApartFacts
<1>14. ConnOK(c)'
  <2>1. <<c, "remote">> \in Socks /\ <<c, "remote">>[1] = c /\ <<c, "remote">>[2] = "remote"
    BY <1>1, SideFacts
  <2>2. CASE program = "echo"
    <3>1. sock'[<<c, "remote">>] = sock[<<c, "remote">>]
      BY <2>1, <2>2
    <3> QED BY <1>9, <2>2, <3>1, SideFacts DEF ConnOK
  <2>3. CASE program # "echo"
    <3>1. program = "splicer" /\ "remote" \in open
      BY <2>3, SideFacts DEF IInv, TypeOK
    <3> QED BY <1>5, <1>10, <2>1, <3>1 DEF ConnOK
  <2> QED BY <2>2, <2>3
<1>15. MovesOn(c)'
  <2>1. \A d \in Sides : /\ conn'[c].buf[d] = 0 /\ ~WantsIn(c, d)' /\ ~WantsOut(c, d)'
                         /\ ~Queued(<<c, d>>)'
    BY <1>4, <1>9, RingFacts, NoConnFacts DEF IInv, WantsIn, WantsOut, Queued
  <2>2. ASSUME NEW d \in open
        PROVE  <<c, d>> \in edge' /\ sock'[<<c, d>>].out = 0
    <3>1. <<c, d>> \in Socks /\ <<c, d>>[1] = c /\ <<c, d>>[2] = d
      BY <1>1
    <3> QED BY <1>6, <3>1, NewSockFacts
  <2>3. SendBuf > 0
    BY SizeFacts
  <2>4. CASE program = "echo"
    <3>1. EchoOK(c)'
      BY <2>1, <2>2, <2>3, <2>4, SideFacts DEF EchoOK, Full
    <3> QED BY <2>4, <3>1 DEF MovesOn
  <2>5. CASE program # "echo"
    <3>1. ASSUME NEW d \in Sides PROVE FlowOK(c, d)'
      <4> HIDE DEF Accepted
      <4>1. PICK o \in Sides : o = Other(d)
        BY SideFacts
      <4>2. <<c, d>> \in edge' /\ <<c, o>> \in edge' /\ sock'[<<c, o>>].out = 0
        BY <2>2, <2>5
      <4>3. ~Full(<<c, o>>)'
        BY <2>3, <4>2 DEF Full
      <4>4. conn'[c].buf[o] = 0
        BY <2>1
      <4>5. ~(conn'[c].buf[o] > 0)
        BY <4>4
      <4>6. ~WantsIn(c, d)' /\ ~WantsOut(c, o)'
        BY <2>1
      <4> QED BY <4>1, <4>2, <4>3, <4>5, <4>6 DEF FlowOK
    <3> QED BY <2>5, <3>1 DEF MovesOn
  <2> QED BY <2>4, <2>5
<1>16. \A b \in Conns : ConnOK(b)' /\ MovesOn(b)'
  BY <1>13, <1>14, <1>15
<1> QED BY <1>8, <1>11, <1>12, <1>16 DEF IInv

(* listener_source_handler of the splicer.                                   *)
LEMMA SessionAcceptedStep ==
  ASSUME IInv, NEW c \in Sessions, SessionAccepted(c), UNCHANGED <<program, run>>, program # "echo"
  PROVE  IInv'
<1>1. sock \in [Socks -> SockType] /\ c \in Conns
  BY TypeFacts DEF IInv, Conns
<1>2. sock' = [sock EXCEPT ![<<c, "client">>] = NewSock("open"),
                           ![<<c, "remote">>] = NewSock("connecting")]
  BY DEF SessionAccepted
<1>3. \A k \in Socks : k = <<c, "client">> \/ k = <<c, "remote">> <=> k[1] = c /\ k[2] \in Sides
  BY DEF Socks, Sides
<1>4. \A k \in Socks : IF k[1] = c /\ k[2] \in Sides
                         THEN sock'[k] \in {NewSock("open"), NewSock("connecting")}
                         ELSE sock'[k] = sock[k]
  BY <1>1, <1>2, <1>3
<1>5. sock' \in [Socks -> SockType]
  BY <1>1, <1>2, NewSockFacts
<1>6. Accepted(c, Sides)
  BY <1>4, <1>5 DEF SessionAccepted, Accepted
<1> QED BY <1>1, <1>6, AcceptedStep

(* listener_source_handler of the echo server.                               *)
LEMMA ClientAcceptedStep ==
  ASSUME IInv, NEW c \in Clients, ClientAccepted(c), UNCHANGED <<program, run>>, program = "echo"
  PROVE  IInv'
<1>1. sock \in [Socks -> SockType] /\ c \in Conns
  BY TypeFacts DEF IInv, Conns
<1>2. sock' = [sock EXCEPT ![<<c, "client">>] = NewSock("open")]
  BY DEF ClientAccepted
<1>3. \A k \in Socks : k = <<c, "client">> <=> k[1] = c /\ k[2] \in {"client"}
  BY DEF Socks, Sides
<1>4. \A k \in Socks : IF k[1] = c /\ k[2] \in {"client"}
                         THEN sock'[k] \in {NewSock("open"), NewSock("connecting")}
                         ELSE sock'[k] = sock[k]
  BY <1>1, <1>2, <1>3
<1>5. sock' \in [Socks -> SockType]
  BY <1>1, <1>2, NewSockFacts
<1>6. edge' = edge \cup {<<c, d>> : d \in {"client"}}
  BY DEF ClientAccepted
<1>7. {"client"} \subseteq Sides
  BY DEF Sides
<1>8. Accepted(c, {"client"})
  BY <1>4, <1>5, <1>6, <1>7 DEF ClientAccepted, Accepted
<1> QED BY <1>1, <1>8, AcceptedStep

-----------------------------------------------------------------------------
(* The handler of the splicer.                                               *)

(* What the calls did to the direction that begins at side d.                  *)
SameFlow(w, v, d) == SameIn(w, v, d) /\ SameOut(w, v, Other(d)) /\ SameBuf(w, v, Other(d))

Through(w, m, v, d) ==
  /\ Put(w, m, Other(d)) /\ SameIn(w, m, d)
  /\ Got(m, v, d) /\ SameOut(m, v, Other(d))

(* The four calls of session_source_handler.                                   *)
Handled(w) ==
  LET w2 == Call(Call(w, "client", "OUT"), "remote", "OUT") IN
  Call(Call(w2, "client", "IN"), "remote", "IN")

(* When none of the calls ended the session, each direction saw write_data to  *)
(* its end and then read_data from its beginning, and no other call touched it.*)
LEMMA ThroughFacts ==
  ASSUME NEW w \in WorkType, ~Handled(w).dead
  PROVE  LET v == Handled(w) IN
         /\ v \in WorkType /\ ~w.dead /\ SameErr(w, v)
         /\ \A d \in Sides : \E m \in WorkType : Through(w, m, v, d)
<1> DEFINE C == "client"
           R == "remote"
           w1 == Call(w, C, "OUT")
           w2 == Call(w1, R, "OUT")
           w3 == Call(w2, C, "IN")
           w4 == Call(w3, R, "IN")
<1>0. C \in Sides /\ R \in Sides /\ Other(C) = R /\ Other(R) = C
  BY SideFacts DEF Other
<1>1. w1 \in WorkType /\ w2 \in WorkType /\ w3 \in WorkType /\ w4 \in WorkType
  <2>1. w1 \in WorkType
    BY <1>0, PutFacts
  <2> HIDE DEF w1
  <2>2. w2 \in WorkType
    BY <1>0, <2>1, PutFacts
  <2> HIDE DEF w2
  <2>3. w3 \in WorkType
    BY <1>0, <2>2, GetFacts
  <2> HIDE DEF w3
  <2>4. w4 \in WorkType
    BY <1>0, <2>3, GetFacts
  <2> QED BY <2>1, <2>2, <2>3, <2>4
<1>2. /\ ~w3.dead /\ Got(w3, w4, R) /\ SameOut(w3, w4, R) /\ SameOut(w3, w4, C)
      /\ SameIn(w3, w4, C) /\ SameBuf(w3, w4, R) /\ SameErr(w3, w4)
  <2>1. ~w4.dead
    BY DEF Handled
  <2> HIDE DEF w3
  <2> QED BY <1>0, <1>1, <2>1, GetFacts
<1>3. /\ ~w2.dead /\ Got(w2, w3, C) /\ SameOut(w2, w3, C) /\ SameOut(w2, w3, R)
      /\ SameIn(w2, w3, R) /\ SameBuf(w2, w3, C) /\ SameErr(w2, w3)
  <2> HIDE DEF w2
  <2> QED BY <1>0, <1>1, <1>2, GetFacts
<1>4. /\ ~w1.dead /\ Put(w1, w2, R) /\ SameIn(w1, w2, R) /\ SameIn(w1, w2, C)
      /\ SameOut(w1, w2, C) /\ SameBuf(w1, w2, C) /\ SameErr(w1, w2)
  <2> HIDE DEF w1
  <2> QED BY <1>0, <1>1, <1>3, PutFacts
<1>5. /\ ~w.dead /\ Put(w, w1, C) /\ SameIn(w, w1, C) /\ SameIn(w, w1, R)
      /\ SameOut(w, w1, R) /\ SameBuf(w, w1, R) /\ SameErr(w, w1)
  BY <1>0, <1>1, <1>4, PutFacts
<1> HIDE DEF w1, w2, w3, w4
<1>6. SameErr(w, w4)
  BY <1>2, <1>3, <1>4, <1>5 DEF SameErr
<1>7. Through(w, w2, w4, C)
  <2>1. Put(w, w2, R)
    BY <1>4, <1>5 DEF Put, SameOut, SameBuf, Writable
  <2>2. SameIn(w, w2, C)
    BY <1>4, <1>5 DEF SameIn
  <2>3. Got(w2, w4, C)
    BY <1>0, <1>2, <1>3 DEF Got, SameIn, SameBuf
  <2>4. SameOut(w2, w4, R)
    BY <1>2, <1>3 DEF SameOut
  <2> QED BY <1>0, <2>1, <2>2, <2>3, <2>4 DEF Through
<1>8. Through(w, w1, w4, R)
  <2>1. SameIn(w1, w3, R) /\ SameBuf(w1, w3, C)
    BY <1>3, <1>4 DEF SameIn, SameBuf
  <2>2. Got(w1, w4, R)
    BY <1>0, <1>2, <2>1 DEF Got, SameIn, SameBuf, Readable
  <2>3. SameOut(w1, w4, C)
    BY <1>2, <1>3, <1>4 DEF SameOut
  <2> QED BY <1>0, <1>5, <2>2, <2>3 DEF Through
<1>9. \A d \in Sides : d = C \/ d = R
  BY DEF Sides
<1>10. Handled(w) = w4
  BY DEF Handled, w1, w2, w3, w4
<1> QED BY <1>1, <1>2, <1>5, <1>6, <1>7, <1>8, <1>9, <1>10

(* The state after a handler that does not end the connection.                 *)
WorkedOn(c, v) ==
  /\ \A e \in Sides : sock'[<<c, e>>] = v.sock[e] /\ revents'[<<c, e>>] = v.rev[e]
  /\ conn'[c].buf = v.buf /\ conn'[c].want = v.want /\ edge' = edge
  /\ \A e \in Sides : v.rev[e] \cap Interest # {} => (Queued(<<c, e>>)' <=> Queued(<<c, e>>))

(* The handler of a session keeps what the invariant says of a direction,    *)
(* whichever of its two descriptors was reported.  By cases on what          *)
(* write_data and then read_data returned.                                   *)
LEMMA FlowStep ==
  ASSUME NEW c \in Conns, NEW b \in Sides, Queued(<<c, b>>), Working(c, b) \in WorkType,
         NEW d \in Sides, NEW m \in WorkType, NEW v \in WorkType,
         Through(Working(c, b), m, v, d), FlowOK(c, d), WorkedOn(c, v)
  PROVE  FlowOK(c, d)'
<1> DEFINE w == Working(c, b)
<1>1. PICK o \in Sides : o = Other(d) /\ (b = d \/ b = o) /\ d # o
  BY SideFacts
<1> DEFINE k == <<c, d>>
           l == <<c, o>>
<1>2. /\ \A e \in Sides : w.sock[e] = sock[<<c, e>>] /\ w.rev[e] = revents[<<c, e>>]
      /\ w.buf = conn[c].buf
      /\ w.want = conn[c].want \cup ({b} \X (revents[<<c, b>>] \cap Interest))
  BY DEF Working
<1>3. "IN" \in Interest /\ "OUT" \in Interest
  BY DEF Interest
<1>4. /\ <<d, "IN">> \in w.want <=> WantsIn(c, d) \/ (b = d /\ Reads(k))
      /\ <<o, "OUT">> \in w.want <=> WantsOut(c, o) \/ (b = o /\ Writes(l))
      /\ Reads(k) <=> Queued(k) /\ "IN" \in w.rev[d]
      /\ Writes(l) <=> Queued(l) /\ "OUT" \in w.rev[o]
  BY <1>2, <1>3 DEF WantsIn, WantsOut, Reads, Writes
<1>5. /\ WantsIn(c, d)' <=> <<d, "IN">> \in v.want
      /\ WantsOut(c, o)' <=> <<o, "OUT">> \in v.want
      /\ Reads(k)' <=> Queued(k) /\ "IN" \in v.rev[d]
      /\ Writes(l)' <=> Queued(l) /\ "OUT" \in v.rev[o]
  BY <1>3 DEF WorkedOn, WantsIn, WantsOut, Reads, Writes
<1>6. Put(w, m, o) /\ SameIn(w, m, d) /\ Got(m, v, d) /\ SameOut(m, v, o)
  BY <1>1 DEF Through
<1>7. /\ w.sock[d] = sock[k] /\ w.sock[o] = sock[l] /\ w.buf[o] = conn[c].buf[o]
      /\ v.sock[d] = sock'[k] /\ v.sock[o] = sock'[l] /\ v.buf[o] = conn'[c].buf[o]
      /\ edge' = edge
  BY <1>2 DEF WorkedOn
<1>8. /\ \A x \in {w, m, v} : /\ x.sock[d].in \in Nat
                              /\ x.sock[o].out \in 0..SendBuf /\ x.buf[o] \in 0..SpliceRing
      /\ SendBuf \in Nat /\ SpliceRing \in Nat /\ SpliceRing > 0 /\ MaxIn \in Nat
  BY SizeFacts DEF WorkType, SockType
<1>9. /\ Readable(w.sock[d]) => k \in edge \/ Reads(k) \/ WantsIn(c, d)
      /\ Writable(w.sock[o]) => l \in edge \/ Writes(l) \/ WantsOut(c, o)
      /\ WantsIn(c, d) /\ ~Reads(k) =>
           /\ w.buf[o] > 0
           /\ WantsOut(c, o) => Writes(l)
           /\ Readable(w.sock[d]) => \/ k \in edge \/ w.buf[o] = SpliceRing
                                     \/ Writes(l) /\ w.sock[d].in = 0
      /\ WantsOut(c, o) /\ Writable(w.sock[o]) /\ w.buf[o] > 0 => Writes(l) \/ Reads(k) \/ l \in edge
      /\ w.buf[o] > 0 /\ w.sock[o].out = SendBuf => w.sock[o].nospace \/ Writes(l) \/ Reads(k)
      /\ w.sock[o].out = SendBuf => w.sock[o].nospace \/ WantsOut(c, o)
  BY <1>1, <1>7 DEF FlowOK, Full
<1>10. SUFFICES
      /\ Readable(v.sock[d]) => k \in edge \/ Reads(k)' \/ WantsIn(c, d)'
      /\ Writable(v.sock[o]) => l \in edge \/ Writes(l)' \/ WantsOut(c, o)'
      /\ WantsIn(c, d)' /\ ~Reads(k)' =>
           /\ v.buf[o] > 0
           /\ WantsOut(c, o)' => Writes(l)'
           /\ Readable(v.sock[d]) => \/ k \in edge \/ v.buf[o] = SpliceRing
                                     \/ Writes(l)' /\ v.sock[d].in = 0
      /\ WantsOut(c, o)' /\ Writable(v.sock[o]) /\ v.buf[o] > 0 => Writes(l)' \/ Reads(k)' \/ l \in edge
      /\ v.buf[o] > 0 /\ v.sock[o].out = SendBuf => v.sock[o].nospace \/ Writes(l)' \/ Reads(k)'
      /\ v.sock[o].out = SendBuf => v.sock[o].nospace \/ WantsOut(c, o)'
  BY <1>1, <1>7 DEF FlowOK, Full
<1>11. Queued(<<c, b>>)
  OBVIOUS
<1> HIDE DEF w
<1>12. /\ Readable(v.sock[d]) => k \in edge \/ Reads(k)' \/ WantsIn(c, d)'
  BY <1>1, <1>4, <1>5, <1>6, <1>8, <1>9, <1>11 DEF Put, Got, SameIn, SameOut, SameBuf, Readable
<1>13. Writable(v.sock[o]) => l \in edge \/ Writes(l)' \/ WantsOut(c, o)'
  BY <1>1, <1>4, <1>5, <1>6, <1>8, <1>9, <1>11 DEF Put, Got, SameIn, SameOut, SameBuf, Writable
<1>14. ASSUME WantsIn(c, d)' /\ ~Reads(k)'
       PROVE  /\ v.buf[o] > 0
              /\ WantsOut(c, o)' => Writes(l)'
              /\ Readable(v.sock[d]) => \/ k \in edge \/ v.buf[o] = SpliceRing
                                        \/ Writes(l)' /\ v.sock[d].in = 0
  BY <1>1, <1>4, <1>5, <1>6, <1>8, <1>9, <1>11, <1>14
  DEF Put, Got, SameIn, SameOut, SameBuf, Readable, Writable
<1>15. WantsOut(c, o)' /\ Writable(v.sock[o]) /\ v.buf[o] > 0 => Writes(l)' \/ Reads(k)' \/ l \in edge
  BY <1>1, <1>4, <1>5, <1>6, <1>8, <1>9, <1>11 DEF Put, Got, SameIn, SameOut, SameBuf, Writable
<1>16. v.buf[o] > 0 /\ v.sock[o].out = SendBuf => v.sock[o].nospace \/ Writes(l)' \/ Reads(k)'
  BY <1>1, <1>4, <1>5, <1>6, <1>8, <1>9, <1>11 DEF Put, Got, SameIn, SameOut, SameBuf, Writable
<1>17. v.sock[o].out = SendBuf => v.sock[o].nospace \/ WantsOut(c, o)'
  BY <1>1, <1>4, <1>5, <1>6, <1>8, <1>9, <1>11 DEF Put, Got, SameIn, SameOut, SameBuf, Writable
<1> QED BY <1>12, <1>13, <1>14, <1>15, <1>16, <1>17

(* The descriptor object at the head is requeued while events are left.        *)
LEMMA RequeuedFacts ==
  ASSUME IInv, NEW k \in Socks, IsHead(k), NEW es, fd_list' = Requeued(es)
  PROVE  /\ fd_list' \in Seq(Descriptors) /\ IsInjective(fd_list') /\ Queued(k)
         /\ \A l \in Socks : l # k => (Queued(l)' <=> Queued(l))
         /\ Queued(k)' <=> es \cap Interest # {}
<1>1. fd_list \in Seq(Descriptors) /\ IsInjective(fd_list) /\ fd_list # <<>> /\ Head(fd_list) = k
  BY DEF IInv, TypeOK, IsHead
<1>2. /\ Tail(fd_list) \in Seq(Descriptors) /\ IsInjective(Tail(fd_list)) /\ k \in ToSet(fd_list)
      /\ ToSet(Tail(fd_list)) = ToSet(fd_list) \ {k}
  BY <1>1, TailFacts
<1>3. fd_list' = IF es \cap Interest = {} THEN Tail(fd_list) ELSE fd_list
  BY DEF Requeued
<1> QED BY <1>1, <1>2, <1>3 DEF Queued

(* What a handler that keeps its connection c leaves of everything but the     *)
(* flows of c.                                                                 *)
Kept(c, k, es) ==
  /\ \A d \in Sides : /\ sock'[<<c, d>>].peer = sock[<<c, d>>].peer
                      /\ sock[<<c, d>>].peer = "reset" => sock'[<<c, d>>].out = sock[<<c, d>>].out
                      /\ "ERR" \in revents[<<c, d>>] => <<c, d>> # k /\ "ERR" \in revents'[<<c, d>>]
                      /\ sock[<<c, d>>].peer = "none" =>
                           sock'[<<c, d>>] = sock[<<c, d>>] /\ revents'[<<c, d>>] = revents[<<c, d>>]
  /\ \A l \in Socks : l[1] # c => sock'[l] = sock[l] /\ revents'[l] = revents[l]
  /\ sock' \in [Socks -> SockType] /\ revents' \in [Socks -> SUBSET Events]
  /\ conn' \in [Conns -> ConnType] /\ conn'[c].live = conn[c].live
  /\ \A b \in Conns \ {c} : conn'[b] = conn[b]
  /\ fd_list' = Requeued(es) /\ UNCHANGED <<backlog, edge, conn_list, program, run>>

(* Such a handler keeps the invariant if it does so for its own connection.  *)
LEMMA KeptStep ==
  ASSUME IInv, NEW c \in Conns, NEW e \in Sides, IsHead(<<c, e>>), NEW es, Kept(c, <<c, e>>, es),
         MovesOn(c)'
  PROVE  IInv'
<1> DEFINE k == <<c, e>>
<1>1. /\ \A l \in Socks : l = <<l[1], l[2]>> /\ l[1] \in Conns /\ l[2] \in Sides
      /\ \A b \in Conns, d \in Sides : <<b, d>> \in Socks /\ <<b, d>>[1] = b
  BY TypeFacts DEF IInv
<1>2. /\ fd_list' \in Seq(Descriptors) /\ IsInjective(fd_list') /\ Queued(k)
      /\ \A l \in Socks : l # k => (Queued(l)' <=> Queued(l))
  BY <1>1, RequeuedFacts DEF Kept
<1>3. TypeOK'
  <2>1. RingSize' = RingSize
    BY DEF RingSize, Kept
  <2> QED BY <1>2, <2>1 DEF IInv, TypeOK, Kept, SockType, Peers, Events, ConnType
<1>4. \A l \in Socks : sock'[l].peer = sock[l].peer
  <2> SUFFICES ASSUME NEW l \in Socks PROVE sock'[l].peer = sock[l].peer
    OBVIOUS
  <2>1. CASE l[1] = c
    BY <1>1, <2>1 DEF Kept
  <2>2. CASE l[1] # c
    BY <2>2 DEF Kept
  <2> QED BY <2>1, <2>2
<1>5. \A l \in Socks : Queued(l)' => Queued(l)
  BY <1>2
<1>6. ListedOnce'
  <2>1. IsInjective(conn_list') /\ ToSet(conn_list') = {b \in Conns : conn'[b].live}
    BY DEF IInv, ListedOnce, Kept
  <2>2. ASSUME NEW b \in Conns PROVE conn'[b].live <=> sock'[<<b, "client">>].peer # "none"
    <3>1. <<b, "client">> \in Socks /\ conn'[b].live = conn[b].live
      BY <1>1, SideFacts DEF Kept
    <3> QED BY <1>4, <3>1 DEF IInv, ListedOnce
  <2>3. ASSUME NEW l \in Socks, sock'[l].peer = "none" PROVE l \notin edge' \cup ToSet(fd_list')
    <3>1. l \notin edge /\ ~Queued(l)
      BY <1>4, <2>3 DEF IInv, ListedOnce, Queued
    <3> QED BY <1>5, <3>1 DEF Queued, Kept
  <2> QED BY <2>1, <2>2, <2>3 DEF ListedOnce
<1>7. ASSUME NEW l \in Socks PROVE SockOK(l)'
  <2>1. SockOK(l) /\ edge' = edge
    BY DEF IInv, Kept
  <2>2. CASE l[1] # c
    <3>1. l # k /\ sock'[l] = sock[l] /\ revents'[l] = revents[l]
      BY <2>2 DEF Kept
    <3> QED BY <1>2, <2>1, <3>1 DEF SockOK
  <2>3. CASE l[1] = c
    <3>1. PICK d \in Sides : l = <<c, d>>
      BY <1>1, <2>3
    <3>2. CASE sock[l].peer = "none"
      BY <2>1, <3>1, <3>2 DEF SockOK, Kept
    <3>3. CASE sock[l].peer = "reset"
      BY <1>2, <1>4, <2>1, <3>1, <3>3 DEF SockOK, Kept
    <3>4. CASE sock[l].peer \notin {"none", "reset"}
      BY <1>4, <3>4 DEF SockOK
    <3> QED BY <3>2, <3>3, <3>4
  <2> QED BY <2>2, <2>3
<1>8. ASSUME NEW b \in Conns PROVE ConnOK(b)'
  <2>1. <<b, "remote">> \in Socks /\ conn'[b].live = conn[b].live /\ program' = program
    BY <1>1, SideFacts DEF Kept
  <2> QED BY <1>4, <2>1 DEF IInv, ConnOK
<1>9. ASSUME NEW b \in Conns, b # c PROVE MovesOn(b)'
  <2>1. \A d \in Sides : <<b, d>> \in Socks /\ <<b, d>> # k /\ <<b, d>>[1] = b
    BY <1>1, <1>9
  <2>2. Apart(b)
    BY <1>2, <1>9, <2>1 DEF Apart, Kept
  <2> QED BY <2>2, ApartFacts DEF IInv
<1> QED BY <1>3, <1>6, <1>7, <1>8, <1>9 DEF IInv

(* session_source_handler keeps the invariant.                               *)
LEMMA SessionHandlerStep ==
  ASSUME IInv, NEW c \in Sessions, NEW b \in Sides, SessionHandler(c, b),
         UNCHANGED <<program, run>>, program = "splicer"
  PROVE  IInv'
<1> DEFINE w == Working(c, b)
           v == Handled(w)
           k == <<c, b>>
<1>1. /\ c \in Conns /\ k \in Socks /\ IsHead(k)
      /\ \A e \in Sides : <<c, e>> \in Socks
  BY TypeFacts DEF IInv, Conns, SessionHandler
<1>2. Worked(c, v)
  BY DEF SessionHandler, Handled
<1>3. /\ conn \in [Conns -> ConnType] /\ RingSize = SpliceRing
      /\ sock \in [Socks -> SockType] /\ revents \in [Socks -> SUBSET Events]
  BY TypeFacts, RingFacts DEF IInv, RingSize
<1>4. w \in WorkType
  <2>1. /\ [e \in Sides |-> sock[<<c, e>>]] \in [Sides -> SockType]
        /\ [e \in Sides |-> revents[<<c, e>>]] \in [Sides -> SUBSET Events]
    BY <1>1, <1>3
  <2>2. conn[c].buf \in [Sides -> 0..SpliceRing] /\ conn[c].want \subseteq Sides \X Interest
    BY <1>1, <1>3 DEF ConnType
  <2>3. conn[c].want \cup ({b} \X (revents[<<c, b>>] \cap Interest)) \subseteq Sides \X Interest
    BY <2>2
  <2> QED BY <2>1, <2>2, <2>3 DEF Working, WorkType
<1>5. CASE v.dead /\ EndConn(c)
  BY <1>1, <1>5, EndConnStep
<1>6. CASE ~v.dead
  <2>1. /\ v \in WorkType /\ ~w.dead /\ SameErr(w, v)
        /\ \A d \in Sides : \E m \in WorkType : Through(w, m, v, d)
    <3> HIDE DEF w
    <3> QED BY <1>4, <1>6, ThroughFacts
  <2>2. /\ \A e \in Sides : w.sock[e] = sock[<<c, e>>] /\ w.rev[e] = revents[<<c, e>>]
        /\ ~("ERR" \in revents[k])
    BY <2>1 DEF Working
  <2> HIDE DEF v
  <2>3. /\ sock' = [l \in Socks |-> IF l[1] = c THEN v.sock[l[2]] ELSE sock[l]]
        /\ revents' = [l \in Socks |-> IF l[1] = c THEN v.rev[l[2]] ELSE revents[l]]
        /\ conn' = [conn EXCEPT ![c].buf = v.buf, ![c].want = v.want, ![c].idle = FALSE]
        /\ fd_list' = Requeued(revents'[Head(fd_list)])
        /\ UNCHANGED <<backlog, edge, conn_list>>
    BY <1>2, <1>6 DEF Worked
  <2>4. \A e \in Sides : sock'[<<c, e>>] = v.sock[e] /\ revents'[<<c, e>>] = v.rev[e]
    BY <1>1, <2>3
  <2>5. Head(fd_list) = k /\ fd_list' = Requeued(v.rev[b])
    BY <1>1, <2>3, <2>4 DEF IsHead
  <2>6. /\ conn'[c].buf = v.buf /\ conn'[c].want = v.want /\ conn'[c].live = conn[c].live
        /\ conn' \in [Conns -> ConnType] /\ \A a \in Conns \ {c} : conn'[a] = conn[a]
    <3> DEFINE n == [conn[c] EXCEPT !.buf = v.buf, !.want = v.want, !.idle = FALSE]
    <3>1. /\ v.buf \in [Sides -> 0..RingSize] /\ v.want \subseteq Sides \X Interest
      BY <1>3, <2>1 DEF WorkType
    <3>2. conn[c] \in ConnType
      BY <1>1, <1>3
    <3>3. n \in ConnType /\ n.buf = v.buf /\ n.want = v.want /\ n.live = conn[c].live
      BY <3>1, <3>2 DEF ConnType
    <3>4. conn' = [conn EXCEPT ![c] = n]
      BY <1>1, <1>3, <2>3
    <3> HIDE DEF n
    <3> QED BY <1>1, <1>3, <3>3, <3>4
  <2>7. sock' \in [Socks -> SockType] /\ revents' \in [Socks -> SUBSET Events]
    <3>1. \A l \in Socks : l[2] \in Sides
      BY TypeFacts DEF IInv
    <3>2. v.sock \in [Sides -> SockType] /\ v.rev \in [Sides -> SUBSET Events]
      BY <2>1 DEF WorkType
    <3> QED BY <1>3, <2>3, <3>1, <3>2
  <2>8. conn[c].live /\ \A e \in Sides : sock[<<c, e>>].peer # "none"
    <3>1. Queued(k)
      BY <1>1, <2>5, RequeuedFacts
    <3>2. conn[c].live
      BY <1>1, <3>1, LiveFacts
    <3> QED BY <1>1, <3>2 DEF IInv, ListedOnce, ConnOK, Sides
  <2>9. \A e \in Sides : /\ v.sock[e].peer = w.sock[e].peer
                         /\ w.sock[e].peer = "reset" => v.sock[e].out = w.sock[e].out
    <3> SUFFICES ASSUME NEW e \in Sides
                 PROVE  /\ v.sock[e].peer = w.sock[e].peer
                        /\ w.sock[e].peer = "reset" => v.sock[e].out = w.sock[e].out
      OBVIOUS
    <3> HIDE DEF w
    <3>1. Other(e) \in Sides /\ Other(Other(e)) = e
      BY SideFacts
    <3>2. PICK m \in WorkType : Through(w, m, v, Other(e))
      BY <2>1, <3>1
    <3>3. Put(w, m, e) /\ SameOut(m, v, e)
      BY <3>1, <3>2 DEF Through
    <3>4. w.sock[e].peer = "reset" => ~Writable(w.sock[e])
      BY DEF Writable, Open
    <3> QED BY <3>3, <3>4 DEF Put, SameOut
  <2>10. \A e \in Sides : "ERR" \in revents[<<c, e>>] => <<c, e>> # k /\ "ERR" \in revents'[<<c, e>>]
    BY <2>1, <2>2, <2>4 DEF SameErr
  <2>11. \A l \in Socks : l[1] # c => sock'[l] = sock[l] /\ revents'[l] = revents[l]
    BY <2>3
  <2>12. Kept(c, k, v.rev[b])
    <3> HIDE DEF w
    <3>1. \A e \in Sides : /\ sock'[<<c, e>>].peer = sock[<<c, e>>].peer
                           /\ sock[<<c, e>>].peer = "reset" => sock'[<<c, e>>].out = sock[<<c, e>>].out
      BY <2>2, <2>4, <2>9
    <3>2. UNCHANGED <<backlog, edge, conn_list, program, run>>
      BY <2>3
    <3> HIDE DEF k
    <3> QED BY <2>5, <2>6, <2>7, <2>8, <2>10, <2>11, <3>1, <3>2 DEF Kept
  <2>13. MovesOn(c)'
    <3>1. /\ Queued(k) /\ \A l \in Socks : l # k => (Queued(l)' <=> Queued(l))
          /\ Queued(k)' <=> v.rev[b] \cap Interest # {}
      BY <1>1, <2>5, RequeuedFacts
    <3>2. \A e \in Sides : v.rev[e] \cap Interest # {} => (Queued(<<c, e>>)' <=> Queued(<<c, e>>))
      <4> SUFFICES ASSUME NEW e \in Sides, v.rev[e] \cap Interest # {}
                   PROVE  Queued(<<c, e>>)' <=> Queued(<<c, e>>)
        OBVIOUS
      <4>1. CASE e = b
        BY <3>1, <4>1
      <4>2. CASE e # b
        BY <1>1, <3>1, <4>2
      <4> QED BY <4>1, <4>2
    <3>3. WorkedOn(c, v)
      BY <2>3, <2>4, <2>6, <3>2 DEF WorkedOn
    <3>4. ASSUME NEW d \in Sides PROVE FlowOK(c, d)'
      <4>1. FlowOK(c, d)
        BY <1>1, <2>8 DEF IInv, MovesOn
      <4>2. PICK m \in WorkType : Through(Working(c, b), m, v, d)
        BY <2>1
      <4> QED BY <1>1, <1>4, <2>1, <3>1, <3>3, <4>1, <4>2, FlowStep
    <3> QED BY <3>4 DEF MovesOn
  <2> QED BY <1>1, <2>12, <2>13, KeptStep
<1> QED BY <1>2, <1>5, <1>6 DEF Worked

-----------------------------------------------------------------------------
(* The handler of the echo server.                                           *)

(* client_source_handler: what is readable still keeps EPOLLIN, and bytes    *)
(* that are left mean that the socket is full and the kernel knows of it.    *)
LEMMA EchoedFacts ==
  ASSUME NEW s \in SockType, NEW used \in 0..EchoRing, NEW es \in SUBSET Events,
         es # {}, ~Echoed(s, used, es).dead
  PROVE  LET w == Echoed(s, used, es) IN
         /\ w.sock \in SockType /\ w.used \in 0..EchoRing /\ w.rev \subseteq es /\ "ERR" \notin es
         /\ w.sock.peer = s.peer /\ (s.peer = "reset" => w.sock.out = s.out)
         /\ Readable(w.sock) => "IN" \in w.rev \/ ("IN" \notin es /\ Readable(s))
         /\ Writable(w.sock) => w.used = 0
         /\ w.sock.out = SendBuf /\ w.used > 0 => w.sock.nospace
<1> DEFINE w == Echoed(s, used, es)
           r == IF "IN" \in es THEN ReadData(s, used, EchoRing)
                ELSE [size |-> NoIov, sock |-> s, used |-> used]
           a == WriteData(r.sock, r.used)
           p == IF es \cap Interest # {} THEN a
                ELSE [size |-> NoIov, sock |-> r.sock, used |-> r.used]
<1>1. EchoRing \in Nat /\ EchoRing > 0 /\ SendBuf \in Nat
  BY SizeFacts
<1>2. /\ w.sock = p.sock /\ w.used = p.used /\ w.rev = LeftOf(es, r.size, p.size)
      /\ w.dead <=> "ERR" \in es \/ r.size \in {0, Failed} \/ p.size = Failed
  BY DEF Echoed
<1>3. "ERR" \notin es /\ r.size \notin {0, Failed} /\ p.size # Failed
  BY <1>2
<1>4. p = a
  BY <1>3 DEF Events, Interest
<1>5. /\ r.sock \in SockType /\ r.used \in 0..EchoRing /\ r.sock.peer = s.peer /\ r.sock.out = s.out
      /\ IF "IN" \in es THEN Readable(r.sock) => r.size # Again
                        ELSE r.sock = s
  <2>1. CASE "IN" \in es
    <3> DEFINE g == ReadData(s, used, EchoRing)
    <3>1. r = g
      BY <2>1
    <3>2. /\ g.sock \in SockType /\ g.used \in 0..EchoRing
          /\ g.sock.peer = s.peer /\ g.sock.out = s.out
          /\ \/ g.size = NoIov
             \/ g.size = Failed
             \/ g.size = 0
             \/ g.size = Again /\ s.in = 0 /\ s.peer \notin {"eof", "reset"} /\ g.sock.in = s.in
             \/ g.size \in Nat
      BY <1>1, ReadFacts
    <3> HIDE DEF g, r
    <3> QED BY <2>1, <3>1, <3>2 DEF NoIov, Failed, Again, Readable
  <2>2. CASE "IN" \notin es
    <3>1. r = [size |-> NoIov, sock |-> s, used |-> used]
      BY <2>2
    <3> HIDE DEF r
    <3> QED BY <2>2, <3>1
  <2> QED BY <2>1, <2>2
<1> HIDE DEF r
<1>6. LET t == r.sock
          n == r.used
      IN /\ a.sock \in SockType /\ a.used \in 0..EchoRing /\ a.sock.peer = t.peer /\ a.sock.in = t.in
         /\ \/ a.size = NoIov /\ n = 0 /\ a.used = n /\ a.sock.out = t.out /\ a.sock.nospace = t.nospace
            \/ a.size = Failed /\ t.peer = "reset" /\ n > 0
            \/ /\ a.size = Again /\ n > 0 /\ ~Writable(t) /\ t.peer # "reset"
               /\ a.used = n /\ a.sock.out = t.out /\ a.sock.nospace
            \/ /\ a.size \in Nat /\ a.size > 0 /\ n > 0 /\ Writable(t)
               /\ a.used < n /\ a.sock.out > t.out
               /\ a.used = 0 \/ a.sock.out = SendBuf
               /\ t.nospace \/ a.used > 0 => a.sock.nospace
  BY <1>1, <1>5, WriteFacts
<1> HIDE DEF a
<1>7. w.sock = a.sock /\ w.used = a.used /\ w.rev = LeftOf(es, r.size, a.size) /\ a.size # Failed
  BY <1>2, <1>3, <1>4
<1> HIDE DEF w
<1>8. w.rev \subseteq es /\ ("IN" \in es /\ r.size # Again => "IN" \in w.rev)
  BY <1>7 DEF LeftOf
<1>9. Readable(w.sock) <=> Readable(r.sock)
  BY <1>6, <1>7 DEF Readable
<1>10. Readable(w.sock) => "IN" \in w.rev \/ ("IN" \notin es /\ Readable(s))
  BY <1>5, <1>8, <1>9
<1>11. Writable(w.sock) => w.used = 0
  BY <1>1, <1>5, <1>6, <1>7 DEF Writable, SockType
<1>12. w.sock.out = SendBuf /\ w.used > 0 => w.sock.nospace
  BY <1>1, <1>5, <1>6, <1>7
<1>13. s.peer = "reset" => w.sock.out = s.out
  BY <1>5, <1>6, <1>7 DEF Writable, Open
<1> QED BY <1>3, <1>5, <1>6, <1>7, <1>8, <1>10, <1>11, <1>12, <1>13 DEF w

(* client_source_handler keeps the invariant.                                *)
LEMMA ClientHandlerStep ==
  ASSUME IInv, NEW c \in Clients, ClientHandler(c), UNCHANGED <<program, run>>, program = "echo"
  PROVE  IInv'
<1> DEFINE k == <<c, "client">>
           w == Echoed(sock[k], conn[c].buf["client"], revents[k])
<1>1. /\ c \in Conns /\ k \in Socks /\ IsHead(k) /\ "client" \in Sides /\ "remote" \in Sides
      /\ \A e \in Sides : <<c, e>> \in Socks
      /\ \A l \in Socks : l = <<l[1], l[2]>> /\ l[1] \in Conns /\ l[2] \in Sides
  BY TypeFacts, SideFacts DEF IInv, Conns, ClientHandler
<1>2. /\ conn \in [Conns -> ConnType] /\ RingSize = EchoRing
      /\ sock \in [Socks -> SockType] /\ revents \in [Socks -> SUBSET Events]
  BY TypeFacts, RingFacts DEF IInv, RingSize
<1>3. CASE w.dead /\ EndConn(c)
  BY <1>1, <1>3, EndConnStep
<1>4. CASE /\ ~w.dead
           /\ sock' = [sock EXCEPT ![k] = w.sock]
           /\ revents' = [revents EXCEPT ![k] = w.rev]
           /\ conn' = [conn EXCEPT ![c].buf["client"] = w.used, ![c].idle = FALSE]
           /\ fd_list' = Requeued(w.rev)
           /\ UNCHANGED <<backlog, edge, conn_list>>
  <2>1. /\ fd_list' \in Seq(Descriptors) /\ IsInjective(fd_list') /\ Queued(k)
        /\ \A l \in Socks : l # k => (Queued(l)' <=> Queued(l))
        /\ Queued(k)' <=> w.rev \cap Interest # {}
    BY <1>1, <1>4, RequeuedFacts
  <2>2. conn[c].live
    BY <1>1, <2>1, LiveFacts
  <2>3. EchoOK(c)
    BY <1>1, <2>2 DEF IInv, MovesOn
  <2>4. /\ sock[k] \in SockType /\ conn[c].buf["client"] \in 0..EchoRing /\ revents[k] \in SUBSET Events
        /\ revents[k] # {}
    BY <1>1, <1>2, <2>1, <2>3 DEF ConnType, EchoOK
  <2>5. /\ w.sock \in SockType /\ w.used \in 0..EchoRing /\ w.rev \subseteq revents[k]
        /\ "ERR" \notin revents[k]
        /\ w.sock.peer = sock[k].peer /\ (sock[k].peer = "reset" => w.sock.out = sock[k].out)
        /\ Readable(w.sock) => "IN" \in w.rev \/ ("IN" \notin revents[k] /\ Readable(sock[k]))
        /\ Writable(w.sock) => w.used = 0
        /\ w.sock.out = SendBuf /\ w.used > 0 => w.sock.nospace
    BY <1>4, <2>4, EchoedFacts
  <2> HIDE DEF w
  <2>6. /\ sock'[k] = w.sock /\ revents'[k] = w.rev
        /\ \A l \in Socks : l # k => sock'[l] = sock[l] /\ revents'[l] = revents[l]
        /\ sock' \in [Socks -> SockType]
    BY <1>1, <1>2, <1>4, <2>5
  <2>7. revents' \in [Socks -> SUBSET Events]
    BY <1>1, <1>2, <1>4, <2>4, <2>5
  <2>8. /\ conn' \in [Conns -> ConnType] /\ conn'[c].live = conn[c].live
        /\ conn'[c].buf["client"] = w.used /\ conn'[c].buf["remote"] = conn[c].buf["remote"]
        /\ \A b \in Conns \ {c} : conn'[b] = conn[b]
    <3> DEFINE f == [conn[c].buf EXCEPT !["client"] = w.used]
               n == [conn[c] EXCEPT !.buf = f, !.idle = FALSE]
    <3>1. conn[c] \in ConnType /\ conn[c].buf \in [Sides -> 0..EchoRing]
      BY <1>1, <1>2 DEF ConnType
    <3>2. f \in [Sides -> 0..EchoRing] /\ f["client"] = w.used /\ f["remote"] = conn[c].buf["remote"]
      BY <1>1, <2>5, <3>1
    <3> HIDE DEF f
    <3>3. n \in ConnType /\ n.live = conn[c].live /\ n.buf = f
      BY <1>2, <3>1, <3>2 DEF ConnType
    <3>4. conn' = [conn EXCEPT ![c] = n]
      BY <1>1, <1>2, <1>4, <3>1 DEF f, ConnType
    <3> HIDE DEF n
    <3> QED BY <1>1, <1>2, <3>2, <3>3, <3>4
  <2>9. sock[k].peer # "none" /\ sock[<<c, "remote">>].peer = "none"
    BY <1>1, <2>2 DEF IInv, ListedOnce, ConnOK
  <2>10. Kept(c, k, w.rev)
    <3>1. ASSUME NEW e \in Sides
          PROVE  /\ sock'[<<c, e>>].peer = sock[<<c, e>>].peer
                 /\ sock[<<c, e>>].peer = "reset" => sock'[<<c, e>>].out = sock[<<c, e>>].out
                 /\ "ERR" \in revents[<<c, e>>] => <<c, e>> # k /\ "ERR" \in revents'[<<c, e>>]
                 /\ sock[<<c, e>>].peer = "none" =>
                      sock'[<<c, e>>] = sock[<<c, e>>] /\ revents'[<<c, e>>] = revents[<<c, e>>]
      <4>1. CASE e = "client"
        BY <2>5, <2>6, <2>9, <4>1
      <4>2. CASE e # "client"
        BY <1>1, <2>6, <4>2
      <4> QED BY <4>1, <4>2
    <3>2. \A l \in Socks : l[1] # c => sock'[l] = sock[l] /\ revents'[l] = revents[l]
      BY <2>6
    <3>3. fd_list' = Requeued(w.rev) /\ UNCHANGED <<backlog, edge, conn_list, program, run>>
      BY <1>4
    <3> HIDE DEF k
    <3> QED BY <2>6, <2>7, <2>8, <3>1, <3>2, <3>3 DEF Kept
  <2>11. EchoOK(c)'
    <3>1. Reads(k)' <=> "IN" \in w.rev
      BY <2>1, <2>6 DEF Reads, Interest
    <3>2. Readable(sock[k]) => k \in edge \/ "IN" \in revents[k]
      BY <2>3 DEF EchoOK, Reads
    <3>3. Readable(w.sock) => k \in edge' \/ Reads(k)'
      BY <1>4, <2>5, <3>1, <3>2
    <3>4. Writable(w.sock) => ~(w.used > 0)
      BY <2>5
    <3>5. Queued(k)' => w.rev # {}
      BY <2>1
    <3>6. conn'[c].buf["remote"] = 0
      BY <2>3, <2>8 DEF EchoOK
    <3> QED BY <2>5, <2>6, <2>8, <3>3, <3>4, <3>5, <3>6 DEF EchoOK, Full
  <2>12. MovesOn(c)'
    BY <2>11 DEF MovesOn
  <2> HIDE DEF k
  <2>13. k = <<c, "client">>
    BY DEF k
  <2> QED BY <1>1, <2>10, <2>12, <2>13, KeptStep
<1>5. \/ w.dead /\ EndConn(c)
      \/ /\ ~w.dead
         /\ sock' = [sock EXCEPT ![k] = w.sock]
         /\ revents' = [revents EXCEPT ![k] = w.rev]
         /\ conn' = [conn EXCEPT ![c].buf["client"] = w.used, ![c].idle = FALSE]
         /\ fd_list' = Requeued(w.rev)
         /\ UNCHANGED <<backlog, edge, conn_list>>
  BY DEF ClientHandler
<1> QED BY <1>3, <1>4, <1>5

-----------------------------------------------------------------------------
(* The theorems.                                                             *)

(* The invariant holds at first.                                             *)
LEMMA InitIInv == ServersInit => IInv
<1> SUFFICES ASSUME ServersInit PROVE IInv
  OBVIOUS
<1>1. /\ sock = [k \in Socks |-> NoSock] /\ backlog = 0 /\ edge = {}
      /\ revents = [k \in Socks |-> {}] /\ fd_list = <<>>
      /\ conn = [c \in Conns |-> NoConn] /\ conn_list = <<>>
      /\ program \in {"echo", "splicer"} /\ run = TRUE
  BY DEF ServersInit, Init
<1>2. <<>> \in Seq(Conns) /\ <<>> \in Seq(Descriptors) /\ IsInjective(<<>>) /\ ToSet(<<>>) = {}
  BY DEF ToSet, IsInjective
<1>3. 0 \in 0..MaxBacklog /\ RingSize \in Nat
  BY SizeFacts DEF RingSize
<1>4. NoConn \in ConnType
  <2>1. 0 \in 0..RingSize
    BY <1>3
  <2> QED BY <2>1 DEF NoConn, ConnType
<1>5. TypeOK
  <2>1. sock \in [Socks -> [peer : {"none", "connecting", "open", "eof", "reset"},
                            in : 0..MaxIn, out : 0..SendBuf, nospace : BOOLEAN]]
    BY <1>1, NoConnFacts DEF SockType, Peers
  <2>2. conn \in [Conns -> [live : BOOLEAN, buf : [Sides -> 0..RingSize],
                            want : SUBSET (Sides \X Interest), idle : BOOLEAN]]
    BY <1>1, <1>4 DEF ConnType
  <2> QED BY <1>1, <1>2, <1>3, <2>1, <2>2 DEF TypeOK
<1>6. \A c \in Conns, d \in Sides : <<c, d>> \in Socks
  BY DEF Socks
<1>7. ListedOnce
  BY <1>1, <1>2, <1>6, NoConnFacts, SideFacts DEF ListedOnce
<1>8. \A k \in Socks : SockOK(k)
  BY <1>1, NoConnFacts DEF SockOK
<1>9. \A c \in Conns : ConnOK(c) /\ MovesOn(c)
  BY <1>1, <1>6, NoConnFacts, SideFacts DEF ConnOK, MovesOn
<1> QED BY <1>5, <1>7, <1>8, <1>9 DEF IInv

(* Every step keeps the invariant.                                           *)
LEMMA NextIInv == IInv /\ [ServersNext]_vars => IInv'
<1> SUFFICES ASSUME IInv, [ServersNext]_vars PROVE IInv'
  OBVIOUS
<1>1. CASE UNCHANGED vars
  <2>1. /\ UNCHANGED <<sock, revents, conn, conn_list, program, run, backlog, edge, fd_list>>
    BY <1>1 DEF vars, all_vars, kernel_vars, conn_vars
  <2>2. Elsewhere
    BY <2>1 DEF Elsewhere, IInv, TypeOK, Queued
  <2> QED BY <2>2, ElsewhereStep
<1>2. CASE WorldNext(Memory) /\ UNCHANGED <<program, run>>
  BY <1>2, WorldStep
<1>3. CASE Wait(Prio) /\ UNCHANGED <<program, run>>
  BY <1>3, WaitStep
<1>4. CASE ServerStep /\ UNCHANGED <<program, run>>
  <2>1. CASE AcceptAgain
    BY <1>4, <2>1, AcceptAgainStep
  <2>2. CASE TimeoutHandler
    BY <1>4, <2>2, TimeoutStep
  <2>3. CASE program = "echo"
    <3>1. EchoStep
      BY <1>4, <2>3 DEF ServerStep
    <3>2. ASSUME NEW c \in Clients, ClientAccepted(c) PROVE IInv'
      BY <1>4, <2>3, <3>2, ClientAcceptedStep
    <3>3. ASSUME NEW c \in Clients, ClientHandler(c) PROVE IInv'
      BY <1>4, <2>3, <3>3, ClientHandlerStep
    <3> QED BY <2>1, <2>2, <3>1, <3>2, <3>3 DEF EchoStep
  <2>4. CASE program # "echo"
    <3>1. SplicerStep /\ program = "splicer"
      BY <1>4, <2>4 DEF ServerStep, IInv, TypeOK
    <3>2. ASSUME NEW c \in Sessions, SessionAccepted(c) PROVE IInv'
      BY <1>4, <2>4, <3>2, SessionAcceptedStep
    <3>3. ASSUME NEW c \in Sessions, ConnectFailed(c) PROVE IInv'
      BY <1>4, <3>3, ConnectFailedStep
    <3>4. ASSUME NEW c \in Sessions, NEW d \in Sides, SessionHandler(c, d) PROVE IInv'
      BY <1>4, <3>1, <3>4, SessionHandlerStep
    <3> QED BY <2>1, <2>2, <3>1, <3>2, <3>3, <3>4 DEF SplicerStep
  <2> QED BY <2>3, <2>4
<1>5. CASE Quit /\ UNCHANGED program
  BY <1>5, QuitStep
<1> QED BY <1>1, <1>2, <1>3, <1>4, <1>5 DEF ServersNext

(* Every variable keeps its type: in particular the queue holds no           *)
(* descriptor twice, rings and send buffers are never overfull.              *)
THEOREM TypeCorrect == ServersSpec => []TypeOK
<1>1. IInv => TypeOK
  BY DEF IInv
<1> QED BY <1>1, InitIInv, NextIInv, PTL DEF ServersSpec

(* ListedOnce: connections, the list of them, their sockets and their        *)
(* places in the loop go together, through accept, failures, timeouts and    *)
(* the end of main.                                                          *)
THEOREM NothingLeaks == ServersSpec => []ListedOnce
<1>1. IInv => ListedOnce
  BY DEF IInv
<1> QED BY <1>1, InitIInv, NextIInv, PTL DEF ServersSpec

(* With no event pending or queued, the invariant leaves no byte that could  *)
(* move.                                                                     *)
LEMMA AtRest ==
  ASSUME IInv, NEW c \in Conns, conn[c].live, Resting(c), NEW d \in Sides
  PROVE  /\ ~CanRead(c, d) /\ ~CanWrite(c, d)
         /\ conn[c].buf[d] > 0 => sock[<<c, d>>].nospace \/ sock[<<c, d>>].peer = "connecting"
         /\ sock[<<c, d>>].peer # "reset"
<1>1. /\ \A e \in Sides : <<c, e>> \in Socks /\ <<c, e>> \notin edge /\ ~Queued(<<c, e>>)
      /\ sock \in [Socks -> SockType] /\ conn[c] \in ConnType
  BY TypeFacts, RingFacts DEF IInv, Resting, Queued
<1>2. \A e \in Sides : sock[<<c, e>>].peer # "reset"
  BY <1>1 DEF IInv, SockOK
<1>3. /\ sock[<<c, d>>] \in SockType /\ conn[c].buf \in [Sides -> 0..RingSize]
      /\ SendBuf \in Nat /\ RingSize \in Nat
  BY <1>1, SizeFacts, RingFacts DEF ConnType, IInv
<1>4. \A e \in Sides : ~Reads(<<c, e>>) /\ ~Writes(<<c, e>>)
  BY <1>1 DEF Reads, Writes
<1>5. CASE program = "echo"
  <2>1. EchoOK(c)
    BY <1>5 DEF IInv, MovesOn
  <2>2. CASE d = "client"
    <3>1. ~Readable(sock[<<c, d>>])
      BY <1>1, <1>4, <2>1, <2>2 DEF EchoOK
    <3>2. ~CanWrite(c, d)
      BY <1>1, <1>4, <2>1, <2>2 DEF EchoOK, CanWrite
    <3>3. ASSUME conn[c].buf[d] > 0, sock[<<c, d>>].peer # "connecting" PROVE sock[<<c, d>>].nospace
      <4>1. sock[<<c, d>>].peer # "none"
        BY <2>2 DEF IInv, ListedOnce
      <4>2. sock[<<c, d>>].peer \in Open
        BY <1>2, <1>3, <3>3, <4>1 DEF SockType, Peers, Open
      <4>3. Full(<<c, d>>)
        BY <1>3, <3>2, <3>3, <4>2 DEF CanWrite, Writable, SockType, Full
      <4> QED BY <1>4, <2>1, <2>2, <3>3, <4>3 DEF EchoOK
    <3> QED BY <1>2, <3>1, <3>2, <3>3 DEF CanRead
  <2>3. CASE d # "client"
    <3>1. d = "remote"
      BY <2>3 DEF Sides
    <3>2. sock[<<c, d>>].peer = "none"
      BY <1>5, <3>1 DEF IInv, ConnOK
    <3>3. sock[<<c, d>>].in = 0
      BY <1>1, <3>2, NoConnFacts DEF IInv, SockOK
    <3>4. conn[c].buf[d] = 0
      BY <2>1, <3>1 DEF EchoOK
    <3> QED BY <3>2, <3>3, <3>4 DEF CanRead, CanWrite, Readable
  <2> QED BY <2>2, <2>3
<1>6. CASE program # "echo"
  <2>1. PICK o \in Sides : o = Other(d) /\ d = Other(o)
    BY SideFacts
  <2>2. FlowOK(c, d) /\ FlowOK(c, o)
    BY <1>6 DEF IInv, MovesOn
  <2>3. RingSize = SpliceRing /\ Dest(d) = o
    BY <1>6, <2>1 DEF RingSize, Dest
  <2>4. ~CanRead(c, d)
    <3> SUFFICES ASSUME Readable(sock[<<c, d>>]), conn[c].buf[o] < SpliceRing PROVE FALSE
      BY <2>3 DEF CanRead
    <3>1. WantsIn(c, d)
      BY <1>1, <1>4, <2>2 DEF FlowOK
    <3>2. conn[c].buf[o] = SpliceRing
      BY <1>1, <1>4, <2>1, <2>2, <3>1 DEF FlowOK
    <3> QED BY <1>3, <2>3, <3>2
  <2>5. ~CanWrite(c, d)
    <3> SUFFICES ASSUME Writable(sock[<<c, d>>]), conn[c].buf[d] > 0 PROVE FALSE
      BY DEF CanWrite
    <3>1. WantsOut(c, d)
      BY <1>1, <1>4, <2>1, <2>2 DEF FlowOK
    <3> QED BY <1>1, <1>4, <2>1, <2>2, <3>1 DEF FlowOK
  <2>6. ASSUME conn[c].buf[d] > 0, sock[<<c, d>>].peer # "connecting" PROVE sock[<<c, d>>].nospace
    <3>1. program = "splicer"
      BY <1>6 DEF IInv, TypeOK
    <3>2. sock[<<c, d>>].peer # "none"
      BY <3>1 DEF IInv, ListedOnce, ConnOK, Sides
    <3>3. sock[<<c, d>>].peer \in Open
      BY <1>2, <1>3, <2>6, <3>2 DEF SockType, Peers, Open
    <3>4. Full(<<c, d>>)
      BY <1>3, <2>5, <2>6, <3>3 DEF CanWrite, Writable, SockType, Full
    <3> QED BY <1>4, <2>1, <2>2, <2>6, <3>4 DEF FlowOK
  <2> QED BY <1>2, <2>4, <2>5, <2>6
<1> QED BY <1>5, <1>6

(* NeverStalls: although epoll reports every edge only once, neither server  *)
(* forgets one.  At rest, bytes wait only where there is no room, and the    *)
(* kernel knows of it.                                                       *)
THEOREM ConnectionsNeverStall == ServersSpec => []NeverStalls
<1>1. IInv => NeverStalls
  BY AtRest DEF NeverStalls
<1> QED BY <1>1, InitIInv, NextIInv, PTL DEF ServersSpec

=============================================================================
