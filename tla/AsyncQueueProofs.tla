--------------------------- MODULE AsyncQueueProofs ---------------------------
(* For every finite set of threads and every set of items: the counters of   *)
(* the queue are exact, and no wakeup is lost but for a NULL in the queue.   *)
EXTENDS AsyncQueue, FiniteSetTheorems, SequenceTheorems, TLAPS

InPop == At("asleep") \cup At("woken")

(* ref_count counts the holders, and a thread inside pop is one of them.      *)
RefsHeld ==
  /\ ref_count = Cardinality(holders)
  /\ At("asleep") \cup At("woken") \subseteq holders

QInv == TypeOK /\ WaitingExact /\ RefsHeld

LEMMA AtFinite ==
  ASSUME NEW p PROVE At(p) \subseteq Threads /\ IsFiniteSet(At(p)) /\ Cardinality(At(p)) \in Nat
<1>1. At(p) \subseteq Threads
  BY DEF At
<1> QED BY <1>1, FS_Subset, FS_CardinalityType, ThreadsAssumption

LEMMA InPopFinite ==
  InPop \subseteq Threads /\ IsFiniteSet(InPop) /\ Cardinality(InPop) \in Nat
<1>1. InPop \subseteq Threads
  BY DEF At, InPop
<1> QED BY <1>1, FS_Subset, FS_CardinalityType, ThreadsAssumption

(* A signal or a spurious wakeup moves one thread, and keeps it inside pop.   *)
LEMMA Wakes ==
  ASSUME TypeOK, NEW t \in At("asleep"), pc' = [pc EXCEPT ![t] = "woken"]
  PROVE  /\ t \in Threads /\ InPop' = InPop
         /\ At("asleep")' = At("asleep") \ {t}
         /\ At("woken")' = At("woken") \cup {t} /\ t \notin At("woken")
         /\ pc' \in [Threads -> {"outside", "asleep", "woken"}]
<1>1. t \in Threads /\ pc[t] = "asleep"
  BY DEF At
<1>2. At("asleep")' = At("asleep") \ {t} /\ At("woken")' = At("woken") \cup {t}
  BY <1>1 DEF TypeOK, At
<1>3. t \notin At("woken")
  BY <1>1 DEF At
<1>4. pc' \in [Threads -> {"outside", "asleep", "woken"}]
  BY <1>1 DEF TypeOK
<1> QED BY <1>1, <1>2, <1>3, <1>4 DEF InPop

(* hev_async_queue_push lets nobody in or out of hev_async_queue_pop.        *)
LEMMA SignalKeeps ==
  ASSUME TypeOK, SignalWaiting
  PROVE  InPop' = InPop /\ pc' \in [Threads -> {"outside", "asleep", "woken"}]
<1>1. CASE UNCHANGED pc
  BY <1>1 DEF InPop, At, TypeOK
<1>2. CASE \E t \in At("asleep") : pc' = [pc EXCEPT ![t] = "woken"]
  BY <1>2, Wakes
<1> QED BY <1>1, <1>2 DEF SignalWaiting, Signal

(* A turn of the loop, by a thread that w counts when it is not inside yet.  *)
LEMMA TurnFacts ==
  ASSUME TypeOK, WaitingExact, NEW t \in Threads, NEW w, TakeTurn(t, w),
         \/ pc[t] = "outside" /\ w = waiting_threads + 1
         \/ pc[t] = "woken" /\ w = waiting_threads
  PROVE  /\ WaitingExact' /\ waiting_threads' \in Nat
         /\ queue' \in Seq(Items) /\ InPop' \subseteq InPop \cup {t}
         /\ pc' \in [Threads -> {"outside", "asleep", "woken"}] /\ skipped' \in BOOLEAN
<1>1. /\ IsFiniteSet(InPop) /\ Cardinality(InPop) \in Nat
      /\ waiting_threads = Cardinality(InPop)
  BY InPopFinite DEF WaitingExact, InPop
<1>2. pc' \in [Threads -> {"outside", "asleep", "woken"}] /\ skipped' \in BOOLEAN
  BY DEF TakeTurn, TypeOK
<1>3. queue' \in Seq(Items)
  <2>1. CASE UNCHANGED queue
    BY <2>1 DEF TypeOK
  <2>2. CASE queue # <<>> /\ queue' = Tail(queue)
    BY <2>2, HeadTailProperties DEF TypeOK
  <2> QED BY <2>1, <2>2 DEF TakeTurn
<1>4. CASE pc' = [pc EXCEPT ![t] = "outside"] /\ waiting_threads' = w - 1
  <2>1. InPop' = InPop \ {t}
    <3>1. At("asleep")' = At("asleep") \ {t} /\ At("woken")' = At("woken") \ {t}
      BY <1>4 DEF TypeOK, At
    <3> QED BY <3>1 DEF InPop
  <2>2. CASE pc[t] = "outside" /\ w = waiting_threads + 1
    <3>1. t \notin InPop
      BY <2>2 DEF InPop, At
    <3>2. InPop' = InPop /\ waiting_threads' = waiting_threads
      BY <1>1, <1>4, <2>1, <2>2, <3>1
    <3> QED BY <1>1, <1>2, <1>3, <3>2 DEF WaitingExact, InPop
  <2>3. CASE pc[t] = "woken" /\ w = waiting_threads
    <3>1. t \in InPop
      BY <2>3 DEF InPop, At
    <3>2. Cardinality(InPop \ {t}) = Cardinality(InPop) - 1
      BY <1>1, <3>1, FS_RemoveElement
    <3>3. Cardinality(InPop') = waiting_threads'
      BY <1>1, <1>4, <2>1, <2>3, <3>2
    <3>4. Cardinality(InPop \ {t}) \in Nat
      BY <1>1, FS_RemoveElement, FS_CardinalityType
    <3>5. waiting_threads' \in Nat
      BY <2>1, <3>3, <3>4
    <3> QED BY <1>2, <1>3, <2>1, <3>3, <3>5 DEF WaitingExact, InPop
  <2> QED BY <2>2, <2>3
<1>5. CASE pc' = [pc EXCEPT ![t] = "asleep"] /\ waiting_threads' = w
  <2>1. InPop' = InPop \cup {t}
    <3>1. At("asleep")' = At("asleep") \cup {t} /\ At("woken")' = At("woken") \ {t}
      BY <1>5 DEF TypeOK, At
    <3> QED BY <3>1 DEF InPop
  <2>2. CASE pc[t] = "outside" /\ w = waiting_threads + 1
    <3>1. t \notin InPop
      BY <2>2 DEF InPop, At
    <3>2. Cardinality(InPop \cup {t}) = Cardinality(InPop) + 1
      BY <1>1, <3>1, FS_AddElement
    <3>3. Cardinality(InPop') = waiting_threads' /\ waiting_threads' \in Nat
      BY <1>1, <1>5, <2>1, <2>2, <3>2
    <3> QED BY <1>2, <1>3, <2>1, <3>3 DEF WaitingExact, InPop
  <2>3. CASE pc[t] = "woken" /\ w = waiting_threads
    <3>1. t \in InPop
      BY <2>3 DEF InPop, At
    <3>2. InPop' = InPop /\ waiting_threads' = waiting_threads
      BY <1>5, <2>1, <2>3, <3>1
    <3> QED BY <1>1, <1>2, <1>3, <3>2 DEF WaitingExact, InPop
  <2> QED BY <2>2, <2>3
<1> QED BY <1>4, <1>5 DEF TakeTurn

LEMMA QInit == Init => QInv
<1> SUFFICES ASSUME Init PROVE QInv
  OBVIOUS
<1>1. At("asleep") = {} /\ At("woken") = {}
  BY DEF Init, At
<1>2. WaitingExact
  BY <1>1, FS_EmptySet DEF Init, WaitingExact
<1>3. PICK t \in Threads : holders = {t}
  BY DEF Init
<1>4. RefsHeld
  BY <1>1, <1>3, FS_Singleton DEF Init, RefsHeld
<1>5. TypeOK
  <2>1. queue \in Seq(Items) /\ holders \in SUBSET Threads
    BY <1>3, EmptySeq DEF Init
  <2> QED BY <2>1 DEF Init, TypeOK
<1> QED BY <1>2, <1>4, <1>5 DEF QInv

LEMMA RefInv ==
  ASSUME QInv, NEW t \in Threads, NEW u \in Threads, Ref(t, u) PROVE QInv'
<1>1. InPop' = InPop
  BY DEF Ref, InPop, At
<1>2. IsFiniteSet(holders) /\ u \notin holders /\ holders' = holders \cup {u}
  BY ThreadsAssumption, FS_Subset DEF Ref, QInv, TypeOK
<1>3. Cardinality(holders') = Cardinality(holders) + 1
  BY <1>2, FS_AddElement
<1>4. TypeOK'
  BY <1>2 DEF Ref, QInv, TypeOK
<1>5. RefsHeld'
  BY <1>1, <1>2, <1>3 DEF Ref, QInv, RefsHeld, InPop
<1>6. WaitingExact'
  BY <1>1 DEF Ref, QInv, WaitingExact, InPop
<1> QED BY <1>4, <1>5, <1>6 DEF QInv

LEMMA UnrefInv == ASSUME QInv, NEW t \in Threads, Unref(t) PROVE QInv'
<1>1. InPop' = InPop
  BY DEF Unref, InPop, At
<1>2. IsFiniteSet(holders) /\ t \in holders /\ holders' = holders \ {t}
  BY ThreadsAssumption, FS_Subset DEF Unref, MayCall, QInv, TypeOK
<1>3. /\ Cardinality(holders') = Cardinality(holders) - 1
      /\ Cardinality(holders') \in Nat
  BY <1>2, FS_RemoveElement, FS_CardinalityType
<1>4. TypeOK'
  <2>1. ref_count' \in Nat
    BY <1>3 DEF Unref, QInv, RefsHeld
  <2>2. queue' \in Seq(Items)
    BY EmptySeq DEF Unref, QInv, TypeOK
  <2> QED BY <1>2, <2>1, <2>2 DEF Unref, QInv, TypeOK
<1>5. RefsHeld'
  <2>1. t \notin InPop
    BY DEF Unref, MayCall, InPop, At
  <2>2. InPop' \subseteq holders'
    BY <1>1, <1>2, <2>1 DEF QInv, RefsHeld, InPop
  <2>3. ref_count' = Cardinality(holders')
    BY <1>3 DEF Unref, QInv, RefsHeld
  <2> QED BY <2>2, <2>3 DEF RefsHeld, InPop
<1>6. WaitingExact'
  BY <1>1 DEF Unref, QInv, WaitingExact, InPop
<1> QED BY <1>4, <1>5, <1>6 DEF QInv

LEMMA PushInv ==
  ASSUME QInv, NEW t \in Threads, NEW x \in Items, Push(t, x) PROVE QInv'
<1>1. InPop' = InPop /\ pc' \in [Threads -> {"outside", "asleep", "woken"}]
  BY SignalKeeps DEF Push, QInv
<1>2. queue' \in Seq(Items)
  BY AppendProperties DEF Push, QInv, TypeOK
<1>3. TypeOK'
  BY <1>1, <1>2 DEF Push, QInv, TypeOK
<1>4. WaitingExact' /\ RefsHeld'
  BY <1>1 DEF Push, QInv, WaitingExact, RefsHeld, InPop
<1> QED BY <1>3, <1>4 DEF QInv

LEMMA TurnInv ==
  ASSUME QInv, NEW t \in Threads, Pop(t) \/ Resume(t) PROVE QInv'
<1>1. /\ WaitingExact' /\ waiting_threads' \in Nat
      /\ queue' \in Seq(Items) /\ InPop' \subseteq InPop \cup {t}
      /\ pc' \in [Threads -> {"outside", "asleep", "woken"}] /\ skipped' \in BOOLEAN
  <2>1. CASE Pop(t)
    BY <2>1, TurnFacts DEF Pop, MayCall, QInv
  <2>2. CASE Resume(t)
    BY <2>2, TurnFacts DEF Resume, QInv
  <2> QED BY <2>1, <2>2
<1>2. t \in holders
  <2>1. CASE Pop(t)
    BY <2>1 DEF Pop, MayCall
  <2>2. CASE Resume(t)
    BY <2>2 DEF Resume, QInv, RefsHeld, At
  <2> QED BY <2>1, <2>2
<1>3. UNCHANGED <<ref_count, holders>>
  BY DEF Pop, Resume
<1>4. TypeOK'
  BY <1>1, <1>3 DEF QInv, TypeOK
<1>5. RefsHeld'
  BY <1>1, <1>2, <1>3 DEF QInv, RefsHeld, InPop
<1> QED BY <1>1, <1>4, <1>5 DEF QInv

LEMMA SpuriousInv ==
  ASSUME QInv, NEW t \in Threads, SpuriousWakeup(t) PROVE QInv'
<1>1. t \in At("asleep") /\ pc' = [pc EXCEPT ![t] = "woken"]
  BY DEF SpuriousWakeup, At
<1>2. InPop' = InPop /\ pc' \in [Threads -> {"outside", "asleep", "woken"}]
  BY <1>1, Wakes DEF QInv
<1> QED BY <1>2
       DEF SpuriousWakeup, QInv, TypeOK, WaitingExact, RefsHeld, InPop

LEMMA QNext == ASSUME QInv, [Next]_vars PROVE QInv'
<1>1. CASE UNCHANGED vars
  BY <1>1 DEF vars, QInv, TypeOK, WaitingExact, RefsHeld, At
<1>2. CASE Next
  BY <1>2, RefInv, UnrefInv, PushInv, TurnInv, SpuriousInv DEF Next
<1> QED BY <1>1, <1>2

THEOREM QInvariance == Spec => []QInv
<1>1. QInv /\ [Next]_vars => QInv'
  BY QNext
<1> QED BY QInit, <1>1, PTL DEF Spec

(* The counters never wrap below zero.                                       *)
THEOREM QueueTypeCorrect == Spec => []TypeOK
<1>1. QInv => TypeOK
  BY DEF QInv
<1> QED BY QInvariance, <1>1, PTL

(* waiting_threads is exactly the number of threads inside pop.              *)
THEOREM QueueWaitingExact == Spec => []WaitingExact
<1>1. QInv => WaitingExact
  BY DEF QInv
<1> QED BY QInvariance, <1>1, PTL

-----------------------------------------------------------------------------
(* No lost wakeup, but for the items behind a NULL that a pop dropped.        *)
LEMMA TurnWakeup ==
  ASSUME QInv, NoLostWakeup, NEW t \in Threads, NEW w, TakeTurn(t, w),
         pc[t] \in {"outside", "woken"}
  PROVE  NoLostWakeup'
<1>1. \A p : IsFiniteSet(At(p)) /\ Cardinality(At(p)) \in Nat
  BY AtFinite
<1>2. CASE /\ queue # <<>> /\ queue' = Tail(queue) /\ pc' = [pc EXCEPT ![t] = "outside"]
           /\ skipped' = (skipped /\ queue' # <<>>)
  <2>1. At("asleep")' = At("asleep") \ {t} /\ At("woken")' = At("woken") \ {t}
    BY <1>2 DEF QInv, TypeOK, At
  <2>2. Len(queue') = Len(queue) - 1 /\ Len(queue) \in Nat
    BY <1>2, HeadTailProperties, LenProperties DEF QInv, TypeOK
  <2>3. Cardinality(At("woken") \ {t}) >= Cardinality(At("woken")) - 1
    BY <1>1, FS_RemoveElement
  <2>4. Cardinality(At("woken") \ {t}) \in Nat
    BY <1>1, FS_RemoveElement, FS_CardinalityType
  <2>5. ASSUME ~skipped, At("asleep")' # {}
        PROVE  Len(queue') <= Cardinality(At("woken")')
    <3>1. Len(queue) <= Cardinality(At("woken")) /\ Cardinality(At("woken")) \in Nat
      BY <1>1, <2>1, <2>5 DEF NoLostWakeup
    <3>2. Len(queue') <= Cardinality(At("woken") \ {t})
      BY <2>2, <2>3, <2>4, <3>1
    <3> QED BY <2>1, <3>2
  <2>6. ASSUME queue' = <<>> PROVE Len(queue') <= Cardinality(At("woken")')
    <3>1. Len(queue') = 0
      BY <2>6, EmptySeq
    <3>2. Len(queue') <= Cardinality(At("woken") \ {t})
      BY <2>4, <3>1
    <3> QED BY <2>1, <3>2
  <2> QED BY <1>2, <2>5, <2>6 DEF NoLostWakeup
<1>3. CASE pc' = [pc EXCEPT ![t] = "asleep"] /\ queue' = <<>>
  <2>1. At("woken")' = At("woken") \ {t}
    BY <1>3 DEF QInv, TypeOK, At
  <2>2. Cardinality(At("woken") \ {t}) \in Nat
    BY <1>1, FS_RemoveElement, FS_CardinalityType
  <2>3. Len(queue') = 0
    BY <1>3, EmptySeq
  <2>4. Len(queue') <= Cardinality(At("woken") \ {t})
    BY <2>2, <2>3
  <2> QED BY <2>1, <2>4 DEF NoLostWakeup
<1>4. CASE skipped' /\ queue' # <<>>
  BY <1>4 DEF NoLostWakeup
<1> QED BY <1>2, <1>3, <1>4 DEF TakeTurn

LEMMA PushWakeup ==
  ASSUME QInv, NoLostWakeup, NEW t \in Threads, NEW x \in Items, Push(t, x)
  PROVE  NoLostWakeup'
<1>1. SUFFICES ASSUME ~skipped', At("asleep")' # {}
               PROVE Len(queue') <= Cardinality(At("woken")')
  BY DEF NoLostWakeup
<1>0. ~skipped
  BY <1>1 DEF Push
<1>2. Len(queue') = Len(queue) + 1 /\ Len(queue) \in Nat
  BY AppendProperties, LenProperties DEF Push, QInv, TypeOK
<1>3. At("asleep") # {}
  <2>1. CASE UNCHANGED pc
    BY <1>1, <2>1 DEF At
  <2>2. CASE \E u \in At("asleep") : pc' = [pc EXCEPT ![u] = "woken"]
    BY <2>2
  <2> QED BY <2>1, <2>2 DEF Push, SignalWaiting, Signal
<1>4. waiting_threads > 0
  <2>1. InPop # {} /\ IsFiniteSet(InPop) /\ Cardinality(InPop) \in Nat
    BY <1>3, InPopFinite DEF InPop
  <2>2. Cardinality(InPop) # 0
    BY <2>1, FS_EmptySet
  <2> QED BY <2>1, <2>2 DEF QInv, WaitingExact, InPop
<1>5. PICK u \in At("asleep") : pc' = [pc EXCEPT ![u] = "woken"]
  BY <1>3, <1>4 DEF Push, SignalWaiting, Signal
<1>6. At("woken")' = At("woken") \cup {u} /\ u \notin At("woken")
  BY <1>5, Wakes DEF QInv
<1>7. IsFiniteSet(At("woken")) /\ Cardinality(At("woken")) \in Nat
  BY AtFinite
<1>8. Cardinality(At("woken") \cup {u}) = Cardinality(At("woken")) + 1
  BY <1>6, <1>7, FS_AddElement
<1>9. Len(queue) <= Cardinality(At("woken"))
  BY <1>0, <1>3 DEF NoLostWakeup
<1>10. Len(queue') <= Cardinality(At("woken") \cup {u})
  BY <1>2, <1>7, <1>8, <1>9
<1> QED BY <1>6, <1>10

LEMMA SpuriousWakeupKeeps ==
  ASSUME QInv, NoLostWakeup, NEW t \in Threads, SpuriousWakeup(t)
  PROVE  NoLostWakeup'
<1> SUFFICES ASSUME ~skipped PROVE NoLostWakeup'
  BY DEF SpuriousWakeup, NoLostWakeup
<1>1. t \in At("asleep") /\ pc' = [pc EXCEPT ![t] = "woken"] /\ queue' = queue
  BY DEF SpuriousWakeup, At
<1>2. At("woken")' = At("woken") \cup {t} /\ t \notin At("woken")
  BY <1>1, Wakes DEF QInv
<1>3. /\ IsFiniteSet(At("woken")) /\ Cardinality(At("woken")) \in Nat
      /\ Cardinality(At("woken") \cup {t}) = Cardinality(At("woken")) + 1
  BY <1>2, AtFinite, FS_AddElement
<1>4. Len(queue) \in Nat /\ Len(queue) <= Cardinality(At("woken"))
  BY <1>1, LenProperties DEF QInv, TypeOK, NoLostWakeup
<1>5. Len(queue) <= Cardinality(At("woken") \cup {t})
  BY <1>3, <1>4
<1> QED BY <1>1, <1>2, <1>5 DEF NoLostWakeup

(* While a thread sleeps, every queued item has a woken thread coming for    *)
(* it: the signal of hev_async_queue_push is never lost, however many        *)
(* threads push, pop, steal and wake by themselves; only items behind a NULL *)
(* that a pop dropped may wait for another signal.                           *)
THEOREM WakeupsKept == Spec => []NoLostWakeup
<1>1. Init => NoLostWakeup
  <2> SUFFICES ASSUME Init PROVE NoLostWakeup
    OBVIOUS
  <2>1. At("asleep") = {}
    BY DEF Init, At
  <2> QED BY <2>1 DEF NoLostWakeup
<1>2. QInv /\ NoLostWakeup /\ [Next]_vars => NoLostWakeup'
  <2> SUFFICES ASSUME QInv, NoLostWakeup, [Next]_vars PROVE NoLostWakeup'
    OBVIOUS
  <2>1. CASE UNCHANGED vars
    BY <2>1 DEF vars, NoLostWakeup, At
  <2>2. ASSUME NEW t \in Threads, NEW u \in Threads, Ref(t, u) PROVE NoLostWakeup'
    BY <2>2 DEF Ref, NoLostWakeup, At
  <2>3. ASSUME NEW t \in Threads, Unref(t) PROVE NoLostWakeup'
    <3>1. \/ queue' = queue /\ (skipped' => skipped) /\ (skipped => skipped' \/ queue' = <<>>)
          \/ queue' = <<>>
      BY <2>3 DEF Unref
    <3>2. At("asleep")' = At("asleep") /\ At("woken")' = At("woken")
      BY <2>3 DEF Unref, At
    <3>3. Cardinality(At("woken")) \in Nat /\ Len(<<>>) = 0
      BY AtFinite, EmptySeq
    <3> QED BY <3>1, <3>2, <3>3 DEF NoLostWakeup
  <2>4. ASSUME NEW t \in Threads, Pop(t) PROVE NoLostWakeup'
    BY <2>4, TurnWakeup DEF Pop, MayCall
  <2>5. ASSUME NEW t \in Threads, Resume(t) PROVE NoLostWakeup'
    BY <2>5, TurnWakeup DEF Resume
  <2>6. ASSUME NEW t \in Threads, SpuriousWakeup(t) PROVE NoLostWakeup'
    BY <2>6, SpuriousWakeupKeeps
  <2>7. ASSUME NEW t \in Threads, NEW x \in Items, Push(t, x) PROVE NoLostWakeup'
    BY <2>7, PushWakeup
  <2> QED BY <2>1, <2>2, <2>3, <2>4, <2>5, <2>6, <2>7 DEF Next
<1> QED BY <1>1, <1>2, QInvariance, PTL DEF Spec

=============================================================================
