------------------------------ MODULE AsyncQueue ------------------------------
(* hev-async-queue.c over hev-queue.c: a queue threads push to and pop from, *)
(* with a mutex and a condition variable.  The mutex is held from the start  *)
(* of every call to its end or to pthread_cond_wait, so what a thread does   *)
(* between two of these points is one step.                                  *)
EXTENDS Integers, Sequences, FiniteSets

CONSTANTS
  Threads,
  Items,     \* the data pointers the program pushes
  Null,      \* the NULL pointer: pushed when Null \in Items
  MaxLen     \* bound: items the program has queued at a time

ASSUME ThreadsAssumption == IsFiniteSet(Threads)
ASSUME LenAssumption == MaxLen \in Nat

VARIABLES
  queue, waiting_threads, ref_count,   \* struct _HevAsyncQueue
  pc,        \* pc[t]: t is outside, asleep in pthread_cond_wait, or woken there
  holders,   \* the threads that hold a reference (one each)
  skipped    \* some items were behind a NULL that a pop dropped before it
             \* went to sleep beside them (not in the code)

vars == <<queue, waiting_threads, ref_count, pc, holders, skipped>>

(* hev_async_queue_new, called by some thread.                               *)
Init ==
  /\ queue = <<>> /\ waiting_threads = 0 /\ ref_count = 1
  /\ pc = [t \in Threads |-> "outside"]
  /\ holders \in {{t} : t \in Threads} /\ skipped = FALSE

At(p) == {t \in Threads : pc[t] = p}

(* Every caller holds a reference.                                           *)
MayCall(t) == t \in holders /\ pc[t] = "outside"

(* hev_async_queue_ref, for a thread the queue is passed on to.              *)
Ref(t, u) ==
  /\ MayCall(t) /\ u \notin holders
  /\ ref_count' = ref_count + 1 /\ holders' = holders \cup {u}
  /\ UNCHANGED <<queue, waiting_threads, pc, skipped>>

(* hev_async_queue_unref: the last reference frees the queue, and forgets    *)
(* the items it still holds.                                                 *)
Unref(t) ==
  /\ MayCall(t)
  /\ ref_count' = ref_count - 1 /\ holders' = holders \ {t}
  /\ queue' = IF ref_count = 1 THEN <<>> ELSE queue
  /\ skipped' = (skipped /\ queue' # <<>>)
  /\ UNCHANGED <<waiting_threads, pc>>

(* pthread_cond_signal wakes one of the threads asleep, if there is one.     *)
Signal ==
  \/ At("asleep") = {} /\ UNCHANGED pc
  \/ \E t \in At("asleep") : pc' = [pc EXCEPT ![t] = "woken"]

(* hev_async_queue_push.                                                     *)
SignalFirst ==
  IF waiting_threads > 0 /\ queue = <<>> THEN Signal ELSE UNCHANGED pc

SignalWaiting == IF waiting_threads > 0 THEN Signal ELSE UNCHANGED pc

Push(t, x) ==
  /\ MayCall(t) /\ Len(queue) < MaxLen
  /\ queue' = Append(queue, x)
  /\ SignalWaiting
  /\ UNCHANGED <<waiting_threads, ref_count, holders, skipped>>

(* One turn of the loop of hev_async_queue_pop, with w threads counted as    *)
(* waiting: the queue answers NULL when it is empty and when its head is a   *)
(* NULL somebody pushed, which is dropped.                                   *)
TakeTurn(t, w) ==
  \/ /\ queue # <<>> /\ Head(queue) # Null
     /\ queue' = Tail(queue) /\ skipped' = (skipped /\ queue' # <<>>)
     /\ pc' = [pc EXCEPT ![t] = "outside"] /\ waiting_threads' = w - 1
  \/ /\ \/ queue = <<>> /\ UNCHANGED <<queue, skipped>>
        \/ /\ queue # <<>> /\ Head(queue) = Null
           /\ queue' = Tail(queue) /\ skipped' = (queue' # <<>>)
     /\ pc' = [pc EXCEPT ![t] = "asleep"] /\ waiting_threads' = w

(* hev_async_queue_pop, up to its first pthread_cond_wait.                   *)
PopUncounted(t) ==
  /\ MayCall(t)
  /\ TakeTurn(t, waiting_threads)
  /\ UNCHANGED <<ref_count, holders>>

Pop(t) ==
  /\ MayCall(t)
  /\ TakeTurn(t, waiting_threads + 1)
  /\ UNCHANGED <<ref_count, holders>>

(* pthread_cond_wait returns, with the mutex.                                *)
Resume(t) ==
  /\ pc[t] = "woken"
  /\ TakeTurn(t, waiting_threads)
  /\ UNCHANGED <<ref_count, holders>>

(* A wait may end without a signal.                                          *)
SpuriousWakeup(t) ==
  /\ pc[t] = "asleep"
  /\ pc' = [pc EXCEPT ![t] = "woken"]
  /\ UNCHANGED <<queue, waiting_threads, ref_count, holders, skipped>>

Next ==
  \E t \in Threads :
    \/ Unref(t) \/ Pop(t) \/ Resume(t) \/ SpuriousWakeup(t)
    \/ \E u \in Threads : Ref(t, u)
    \/ \E x \in Items : Push(t, x)

Spec == Init /\ [][Next]_vars

(* A woken thread gets the mutex; a thread may sleep for ever otherwise.     *)
FairSpec == Spec /\ \A t \in Threads : WF_vars(Resume(t))

-----------------------------------------------------------------------------
(* Properties.                                                               *)

(* Every variable has its type: waiting_threads and ref_count, unsigned in   *)
(* the code, never go below zero.                                            *)
TypeOK ==
  /\ queue \in Seq(Items)
  /\ waiting_threads \in Nat /\ ref_count \in Nat
  /\ pc \in [Threads -> {"outside", "asleep", "woken"}]
  /\ holders \in SUBSET Threads /\ skipped \in BOOLEAN

(* waiting_threads counts the threads inside hev_async_queue_pop, whatever   *)
(* mix of signals, wakeups and steals: push signals exactly when it must.    *)
WaitingExact == waiting_threads = Cardinality(At("asleep") \cup At("woken"))

(* No lost wakeup: while a thread sleeps, every item of the queue has a      *)
(* woken thread on its way to it, although threads that never slept may take *)
(* items before the woken ones run.  The items behind a NULL that a pop      *)
(* dropped are the exception, until the queue is empty again.                *)
NoLostWakeup ==
  ~skipped /\ At("asleep") # {} => Len(queue) <= Cardinality(At("woken"))

(* An item and a thread that waits cannot stay side by side for ever: one    *)
(* of the waiting threads takes something, with the same exception.          *)
NeverStuck ==
  <>[](~skipped /\ queue # <<>> /\ waiting_threads > 0)
    => []<><<Len(queue') < Len(queue)>>_vars

=============================================================================
