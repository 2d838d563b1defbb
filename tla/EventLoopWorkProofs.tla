------------------------- MODULE EventLoopWorkProofs -------------------------
(* What the loop owes to its sources, for any number of sources,           *)
(* descriptor objects and descriptors: no event is lost, no timer          *)
(* forgotten, no sleep on work, nothing left behind when all is over, and  *)
(* the entries of fd_list in order of priority.                            *)
EXTENDS EventLoopProofs

(* The descriptor object of a source watches what it was made for.         *)
WiredTo(f, s) == IF Kind[s] = "fds" THEN f \in UserFds ELSE f = OwnFd[s]

Wired ==
  \A d \in Efds : efd[d].source # NoSource => WiredTo(efd[d].fd, efd[d].source)

(* When fd_list is empty.                                                  *)
Drained ==
  /\ pc = "freed" => sources = {} /\ fd_list = <<>>
  /\ pc = "wait" /\ timeout = -1 => fd_list = <<>>
  /\ pc = "user" /\ run => fd_list = <<>>

(* A running timer belongs to a timeout source that is alive.              *)
TimersOwned ==
  \A f \in armed : \E s \in Sources :
    Kind[s] = "timeout" /\ f = OwnFd[s] /\ src[s].ref > 0

WInv == IInv /\ Wired /\ Drained /\ TimersOwned /\ NoLostReadiness /\ Rearmed

-----------------------------------------------------------------------------
(* What a step does to the heap.                                           *)

(* An object that keeps its source after Released keeps the rest.          *)
LEMMA ReleasedKeeps ==
  ASSUME NEW h, NEW U, NEW F, NEW d \in Efds, Released(h, U, F)[d].source # NoSource
  PROVE  /\ Released(h, U, F)[d].source = h[d].source
         /\ Released(h, U, F)[d].fd = h[d].fd
         /\ Released(h, U, F)[d].revents = h[d].revents
<1> DEFINE g == Released(h, U, F)
           r == h[d].ref - (IF d \in U THEN 1 ELSE 0) - (IF d \in F THEN 1 ELSE 0)
<1>1. g[d] = IF d \notin U \cup F THEN h[d]
             ELSE IF Frees(r, d \in F) THEN FreeEfd
             ELSE Kept(h[d], r, d \in U, d \in F)
  BY DEF Released
<1> HIDE DEF g, r
<1>2. CASE d \notin U \cup F
  BY <1>1, <1>2 DEF g
<1>3. CASE g[d] = FreeEfd
  BY <1>3 DEF FreeEfd, g
<1>4. CASE g[d] = Kept(h[d], r, d \in U, d \in F)
  <2>1. /\ g[d].source = (IF d \in U THEN NoSource ELSE h[d].source)
        /\ g[d].fd = h[d].fd /\ g[d].revents = h[d].revents
    BY <1>4 DEF Kept
  <2> QED BY <2>1 DEF g
<1> QED BY <1>1, <1>2, <1>3, <1>4

(* The heap a callback or the check before it leaves to dispatch_events.   *)
Relabelled(h, d) ==
  h = efd \/ h = Consumed(d) \/ h = [efd EXCEPT ![d].revents = {}]

(* Consuming events leaves the source and the descriptor of an object.     *)
LEMMA ConsumedKeeps ==
  ASSUME IInv, NEW d, NEW h,
         Relabelled(h, d),
         NEW e \in Efds
  PROVE  /\ h[e].source = efd[e].source /\ h[e].fd = efd[e].fd
         /\ e # d => h[e] = efd[e]
<1>1. efd \in [Efds -> EfdRecord] /\ efd[e] \in EfdRecord
  BY DEF IInv, TypeOK
<1>2. CASE h = Consumed(d)
  BY <1>1, <1>2 DEF Consumed, EfdRecord
<1>3. CASE h = [efd EXCEPT ![d].revents = {}]
  BY <1>1, <1>3 DEF EfdRecord
<1> QED BY <1>2, <1>3 DEF Relabelled

(* A step that makes no object: those that keep a source keep it, and the  *)
(* descriptor.                                                             *)
Same(d) ==
  efd'[d].source # NoSource => efd'[d].source = efd[d].source /\ efd'[d].fd = efd[d].fd

(* A step that makes the object d for the source s, out of a free cell.    *)
Made(d, s, f) ==
  /\ efd[d].ref = 0
  /\ efd' = [efd EXCEPT ![d] = NewEfd(f, s)]
  /\ WiredTo(f, s)

LEMMA SameReleased ==
  ASSUME IInv, NEW d, NEW h,
         Relabelled(h, d),
         NEW U, NEW F, efd' = Released(h, U, F)
  PROVE  \A e \in Efds : Same(e)
<1> TAKE e \in Efds
<1>1. h[e].source = efd[e].source /\ h[e].fd = efd[e].fd
  BY ConsumedKeeps
<1>2. efd'[e].source # NoSource => efd'[e].source = h[e].source /\ efd'[e].fd = h[e].fd
  <2> DEFINE g == Released(h, U, F)
  <2>1. g[e].source # NoSource => g[e].source = h[e].source /\ g[e].fd = h[e].fd
    BY ReleasedKeeps
  <2>2. efd' = g
    OBVIOUS
  <2> HIDE DEF g
  <2> QED BY <2>1, <2>2
<1> QED BY <1>1, <1>2 DEF Same

LEMMA SameFinished ==
  ASSUME IInv, NEW d, NEW h, Relabelled(h, d), NEW q, FinishHead(h, q)
  PROVE  \A e \in Efds : Same(e)
<1>1. efd' = h \/ efd' = Released(h, {}, {q})
  BY DEF FinishHead
<1>2. CASE efd' = h
  <2> TAKE e \in Efds
  <2>1. h[e].source = efd[e].source /\ h[e].fd = efd[e].fd
    BY ConsumedKeeps
  <2> QED BY <1>2, <2>1 DEF Same
<1>3. CASE efd' = Released(h, {}, {q})
  BY <1>3, SameReleased
<1> QED BY <1>1, <1>2, <1>3

LEMMA ConsumedSource ==
  ASSUME IInv, NEW d, NEW e \in Efds
  PROVE  /\ Consumed(d)[e].source = efd[e].source
         /\ Consumed(d)[e].fd = efd[e].fd
         /\ e # d => Consumed(d)[e] = efd[e]
<1> DEFINE h == Consumed(d)
<1>1. Relabelled(h, d)
  BY DEF Relabelled
<1> HIDE DEF h
<1>2. h[e].source = efd[e].source /\ h[e].fd = efd[e].fd /\ (e # d => h[e] = efd[e])
  BY <1>1, ConsumedKeeps
<1> QED BY <1>2 DEF h

LEMMA SameConsumed ==
  ASSUME IInv, NEW d, efd' = Consumed(d)
  PROVE  \A e \in Efds : Same(e)
<1> TAKE e \in Efds
<1>1. Consumed(d)[e].source = efd[e].source /\ Consumed(d)[e].fd = efd[e].fd
  BY ConsumedSource
<1> QED BY <1>1 DEF Same

(* What a source lists is an object, and del_fd drops one it lists.        *)
LEMMA ListedFacts ==
  ASSUME IInv, NEW s \in Sources PROVE FdsOf(s) \subseteq Efds
<1>1. src[s].fds \in Lists
  BY DEF IInv, TypeOK, SourceRecord
<1> QED BY <1>1, ListHolds DEF FdsOf

LEMMA DelFdFacts ==
  ASSUME IInv, NEW s \in Sources, NEW f, DelFd(s, f)
  PROVE  /\ Kind[s] = "fds"
         /\ \E d \in FdsOf(s) : efd[d].fd = f /\ efd' = Released(efd, {d}, {})
<1>1. src[s].fds \in Lists
  BY DEF IInv, TypeOK, SourceRecord
<1>2. \A i \in DOMAIN src[s].fds : src[s].fds[i] \in FdsOf(s)
  BY <1>1, ListHolds DEF FdsOf
<1> QED BY <1>2 DEF DelFd

(* add_fd and del_fd change nothing else of a source.                      *)
LEMMA OnlyTheList ==
  ASSUME IInv, NEW s \in Sources, NEW f, AddFd(s, f) \/ DelFd(s, f)
  PROVE  \A t \in Sources : /\ src'[t].ref = src[t].ref
                            /\ src'[t].prio = src[t].prio
<1>1. PICK l, w : LET o == [src[s] EXCEPT !.fds = l, !.wild = w]
                  IN src' = [src EXCEPT ![s] = o]
  <2>1. CASE AddFd(s, f)
    <3>1. PICK d \in Efds : src' = [src EXCEPT ![s].fds = <<d>> \o @]
      BY <2>1 DEF AddFd
    <3> DEFINE l == <<d>> \o src[s].fds
               o == [src[s] EXCEPT !.fds = l]
               q == [src[s] EXCEPT !.fds = l, !.wild = src[s].wild]
    <3>2. src' = [src EXCEPT ![s] = o]
      BY <3>1
    <3>3. o = q
      <4> HIDE DEF l
      <4> QED BY DEF IInv, TypeOK, SourceRecord
    <3> HIDE DEF l, o
    <3>4. src' = [src EXCEPT ![s] = q]
      BY <3>2, <3>3
    <3> QED BY <3>4
  <2>2. CASE DelFd(s, f)
    <3>1. PICK i, w : src' = [src EXCEPT ![s].fds = RemoveAt(@, i), ![s].wild = w]
      BY <2>2 DEF DelFd
    <3> DEFINE l == RemoveAt(src[s].fds, i)
               o == [src[s] EXCEPT !.fds = l, !.wild = w]
    <3>2. src' = [src EXCEPT ![s] = o]
      BY <3>1
    <3> HIDE DEF l
    <3> QED BY <3>2
  <2> QED BY <2>1, <2>2
<1> DEFINE o == [src[s] EXCEPT !.fds = l, !.wild = w]
<1>2. src' = [src EXCEPT ![s] = o] /\ src \in [Sources -> SourceRecord]
  BY <1>1 DEF IInv, TypeOK
<1>3. o.ref = src[s].ref /\ o.prio = src[s].prio
  BY <1>2 DEF SourceRecord
<1> HIDE DEF o
<1> QED BY <1>2, <1>3

(* The object whose callback runs, and its source.                         *)
LEMMA CurFacts ==
  ASSUME IInv, pc = "callback"
  PROVE  /\ cur \in Efds /\ efd[cur].ref > 0 /\ efd[cur].dispatched
         /\ fd_list # <<>> /\ cur = Head(fd_list)
         /\ efd[cur].source # NoSource =>
              /\ efd[cur].source \in Sources
              /\ src[efd[cur].source].ref > 0
              /\ src[efd[cur].source].loop = TRUE
<1>1. fd_list # <<>> /\ cur = Head(fd_list)
  BY DEF IInv, QueueExact
<1>2. cur \in Efds /\ efd[cur].ref > 0 /\ efd[cur].dispatched
  BY <1>1, HeadFacts
<1>3. ASSUME efd[cur].source # NoSource
      PROVE  /\ efd[cur].source \in Sources
             /\ src[efd[cur].source].ref > 0
             /\ src[efd[cur].source].loop = TRUE
  <2>1. efd[cur].source \in Sources
    BY <1>2, <1>3 DEF IInv, TypeOK, EfdRecord
  <2>2. cur \in FdsOf(efd[cur].source)
    BY <1>2, <2>1 DEF IInv, Linked
  <2>3. src[efd[cur].source].ref # 0
    BY <2>1, <2>2, EmptyList DEF IInv, FreedClean, FreeSrc, FdsOf
  <2>4. src[efd[cur].source].ref \in Nat
    BY <2>1 DEF IInv, TypeOK, SourceRecord
  <2>5. src[efd[cur].source].loop = TRUE
    BY <1>2, <1>3 DEF IInv, InLoop
  <2> QED BY <2>1, <2>3, <2>4, <2>5
<1> QED BY <1>1, <1>2, <1>3

LEMMA Objects ==
  ASSUME AfterRemoval = {}, IInv, [Next]_vars
  PROVE  \/ \A d \in Efds : Same(d)
         \/ \E s \in Sources, f \in Fds, d \in Efds : Made(d, s, f)
<1> USE ConstantsAssumption
<1> DEFINE Goal == \/ \A d \in Efds : Same(d)
                   \/ \E s \in Sources, f \in Fds, d \in Efds : Made(d, s, f)
<1>1. CASE efd' = efd
  BY <1>1 DEF Same
<1> SUFFICES ASSUME Next, efd' # efd PROVE Goal
  BY <1>1 DEF vars
<1>2. CASE SourceCall
  <2>1. PICK s \in Sources :
          \/ SourceNew(s) \/ SourceUnref(s) \/ DelSource(s)
          \/ \E f \in Fds : AddFd(s, f) \/ DelFd(s, f)
    BY <1>2 DEF SourceCall, SourceRef, AddSource, SetPriority
  <2>2. CASE SourceNew(s)
    <3>1. Kind[s] # "fds"
      BY <2>2 DEF SourceNew
    <3>2. PICK d \in Efds : Made(d, s, OwnFd[s])
      BY <2>2, <3>1 DEF SourceNew, Made, WiredTo
    <3> QED BY <3>2
  <2>3. CASE \E f \in Fds : AddFd(s, f)
    <3>1. PICK f \in Fds : AddFd(s, f)
      BY <2>3
    <3>2. PICK d \in Efds : Made(d, s, f)
      BY <3>1 DEF AddFd, Made, WiredTo
    <3> QED BY <3>2
  <2>4. CASE SourceUnref(s) \/ DelSource(s) \/ \E f \in Fds : DelFd(s, f)
    <3>1. \E U, F : efd' = Released(efd, U, F)
      BY <2>4 DEF SourceUnref, DelSource, DeleteSource, UnrefSource, DelFd
    <3> QED BY <3>1, SameReleased DEF Relabelled
  <2> QED BY <2>1, <2>2, <2>3, <2>4
<1>3. CASE LoopCall
  <2>1. \E U, F : efd' = Released(efd, U, F)
    BY <1>3 DEF LoopCall, Quit, LoopRef, LoopUnref, Run, CloseFd, heap
  <2> QED BY <2>1, SameReleased DEF Relabelled
<1>4. CASE LoopStep
  <2>1. DispatchSkip \/ DispatchCallback \/ \E d \in Efds : QueueEvent(d)
    BY <1>4 DEF LoopStep, EpollWait, WaitInterrupted, QueueDone, DispatchNothing, heap
  <2>2. CASE DispatchSkip
    <3> DEFINE d == Head(fd_list)
    <3>1. FinishHead(efd, d) \/ FinishHead(Consumed(d), d)
      BY <2>2 DEF DispatchSkip
    <3>2. CASE FinishHead(efd, d)
      BY <3>2, SameFinished DEF Relabelled
    <3>3. CASE FinishHead(Consumed(d), d)
      BY <3>3, SameFinished DEF Relabelled
    <3> QED BY <3>1, <3>2, <3>3
  <2>3. CASE DispatchCallback
    <3>1. efd' = Consumed(Head(fd_list))
      BY <2>3 DEF DispatchCallback
    <3> QED BY <3>1, SameConsumed
  <2>4. CASE \E d \in Efds : QueueEvent(d)
    <3>1. PICK d \in Efds : QueueEvent(d)
      BY <2>4
    <3>2. efd \in [Efds -> EfdRecord] /\ efd[d] \in EfdRecord
      BY DEF IInv, TypeOK
    <3>3. efd' = [efd EXCEPT ![d].revents = @ \cup batch[d]] \/ efd' = [efd EXCEPT ![d] = Dispatched(d)]
      BY <3>1 DEF QueueEvent
    <3>4. \A e \in Efds : e # d => efd'[e] = efd[e]
      BY <3>2, <3>3
    <3>5. efd'[d].source = efd[d].source /\ efd'[d].fd = efd[d].fd
      <4>1. CASE efd' = [efd EXCEPT ![d].revents = @ \cup batch[d]]
        BY <3>2, <4>1 DEF EfdRecord
      <4>2. CASE efd' = [efd EXCEPT ![d] = Dispatched(d)]
        <5>1. efd'[d] = Dispatched(d)
          BY <3>2, <4>2
        <5> QED BY <3>2, <5>1 DEF Dispatched, EfdRecord
      <4> QED BY <3>3, <4>1, <4>2
    <3> QED BY <3>4, <3>5 DEF Same
  <2> QED BY <2>1, <2>2, <2>3, <2>4
<1>5. CASE Callback
  <2>1. CASE ReadFd
    <3>1. efd' = Consumed(cur)
      BY <2>1 DEF ReadFd
    <3> QED BY <3>1, SameConsumed
  <2>2. CASE ReturnTrue
    BY <2>2, SameFinished DEF Relabelled, ReturnTrue
  <2>3. CASE ReturnFalse
    <3>1. CASE FinishHead(efd, cur)
      BY <3>1, SameFinished DEF Relabelled
    <3>2. CASE ~FinishHead(efd, cur)
      <4>1. \E U, F : efd' = Released([efd EXCEPT ![cur].revents = {}], U, F)
        BY <2>3, <3>2 DEF ReturnFalse, DeleteSource, UnrefSource
      <4> QED BY <4>1, SameReleased DEF Relabelled
    <3> QED BY <3>1, <3>2
  <2> QED BY <1>5, <2>1, <2>2, <2>3 DEF Callback
<1>6. CASE World
  BY <1>6 DEF World, Arrive, HangUp, Expire, Happens, heap
<1> QED BY <1>2, <1>3, <1>4, <1>5, <1>6 DEF Next

-----------------------------------------------------------------------------
(* Each part of WInv, step by step.                                        *)
LEMMA WiredStep ==
  ASSUME AfterRemoval = {}, IInv, Wired, [Next]_vars
  PROVE  Wired'
<1> USE ConstantsAssumption
<1>1. CASE \A d \in Efds : Same(d)
  BY <1>1 DEF Same, Wired
<1>2. CASE \E s \in Sources, f \in Fds, d \in Efds : Made(d, s, f)
  <2>1. PICK s \in Sources, f \in Fds, d \in Efds : Made(d, s, f)
    BY <1>2
  <2>2. efd \in [Efds -> EfdRecord]
    BY DEF IInv, TypeOK
  <2>3. /\ \A e \in Efds : e # d => efd'[e] = efd[e]
        /\ efd'[d].source = s /\ efd'[d].fd = f
    BY <2>1, <2>2 DEF Made, NewEfd
  <2>4. WiredTo(f, s)
    BY <2>1 DEF Made
  <2> QED BY <2>3, <2>4 DEF Wired
<1> QED BY <1>1, <1>2, Objects

(* The end of dispatch_events asks for no sleep.                           *)
LEMMA DrainedFinish ==
  ASSUME timeout' = 0, NextIteration, run' = run
  PROVE  Drained'
BY DEF Drained, NextIteration

LEMMA DrainedStep ==
  ASSUME IInv, Drained, [Next]_vars
  PROVE  Drained'
<1>1. CASE UNCHANGED <<pc, timeout, fd_list, sources, run>>
  BY <1>1 DEF Drained
<1> SUFFICES ASSUME Next, ~UNCHANGED <<pc, timeout, fd_list, sources, run>>
             PROVE  Drained'
  BY <1>1 DEF vars
<1>2. CASE SourceCall
  <2>1. PICK s \in Sources : AddSource(s) \/ DelSource(s)
    BY <1>2 DEF SourceCall, SourceNew, SourceRef, SourceUnref, SetPriority,
         AddFd, DelFd, control
  <2>2. UNCHANGED <<pc, timeout, fd_list, run>> /\ pc # "freed"
    BY <2>1 DEF AddSource, DelSource, control, UserTurn
  <2> QED BY <2>2 DEF Drained
<1>3. CASE LoopCall
  <2>1. Quit \/ LoopUnref \/ Run
    BY <1>3 DEF LoopCall, LoopRef, CloseFd, control
  <2>2. CASE Quit
    BY <2>2 DEF Quit, control, Drained
  <2>3. CASE LoopUnref
    BY <2>3 DEF LoopUnref, Drained
  <2>4. CASE Run
    BY <2>4 DEF Run, Drained
  <2> QED BY <2>1, <2>2, <2>3, <2>4
<1>4. CASE LoopStep
  <2>1. CASE DispatchSkip
    BY <2>1, DrainedFinish DEF DispatchSkip, FinishHead
  <2>2. CASE DispatchNothing
    BY <2>2 DEF DispatchNothing, NextIteration, Drained
  <2>3. CASE ~DispatchSkip /\ ~DispatchNothing
    <3>1. pc' \in {"queue", "dispatch", "callback"}
      BY <1>4, <2>3 DEF LoopStep, EpollWait, WaitInterrupted, QueueEvent, QueueDone,
           DispatchCallback
    <3> QED BY <3>1 DEF Drained
  <2> QED BY <2>1, <2>2, <2>3
<1>5. CASE Callback
  <2>1. ReturnTrue \/ ReturnFalse
    BY <1>5 DEF Callback, ReadFd, control
  <2>2. timeout' = 0 /\ NextIteration /\ run' = run
    BY <2>1 DEF ReturnTrue, ReturnFalse, FinishHead
  <2> QED BY <2>2, DrainedFinish
<1>6. CASE World
  BY <1>6 DEF World, Arrive, HangUp, Expire, Happens, control
<1> QED BY <1>2, <1>3, <1>4, <1>5, <1>6 DEF Next

(* A running timer outlives no reference that was not its source's last.   *)
LEMMA TimersUnref ==
  ASSUME IInv, TimersOwned, NEW s \in Sources, NEW h, NEW F, src[s].ref > 0,
         UnrefSource(s, h, F)
  PROVE  TimersOwned'
<1> SUFFICES ASSUME NEW f \in armed'
             PROVE  \E t \in Sources : Kind[t] = "timeout" /\ f = OwnFd[t] /\ src'[t].ref > 0
  BY DEF TimersOwned
<1>1. f \in armed /\ (LastRef(s) => f \notin OwnFds(s))
  BY DEF UnrefSource, CloseFds
<1>2. PICK t \in Sources : Kind[t] = "timeout" /\ f = OwnFd[t] /\ src[t].ref > 0
  BY <1>1 DEF TimersOwned
<1>3. src \in [Sources -> SourceRecord] /\ src[s] \in SourceRecord
  BY DEF IInv, TypeOK
<1>4. CASE t # s
  <2>1. src'[t] = src[t]
    BY <1>3, <1>4 DEF UnrefSource
  <2> QED BY <1>2, <2>1
<1>5. CASE t = s
  <2>1. ~LastRef(s)
    BY <1>1, <1>2, <1>5 DEF OwnFds
  <2>2. src'[s] = OneLess(s)
    BY <1>3, <2>1 DEF UnrefSource
  <2>3. OneLess(s).ref = src[s].ref - 1 /\ src[s].ref \in Nat
    BY <1>3 DEF OneLess, SourceRecord
  <2>4. src'[s].ref > 0
    BY <2>1, <2>2, <2>3 DEF LastRef
  <2> QED BY <1>2, <1>5, <2>4
<1> QED BY <1>4, <1>5

(* Preparing the source s starts at most its own timer.                    *)
LEMMA TimersPrepare ==
  ASSUME TimersOwned, NEW s \in Sources, armed' = PreparedArmed(s),
         src'[s].ref > 0, \A t \in Sources : src[t].ref > 0 => src'[t].ref > 0
  PROVE  TimersOwned'
<1> SUFFICES ASSUME NEW f \in armed'
             PROVE  \E t \in Sources : Kind[t] = "timeout" /\ f = OwnFd[t] /\ src'[t].ref > 0
  BY DEF TimersOwned
<1>1. CASE f \in armed
  BY <1>1 DEF TimersOwned
<1>2. CASE f \notin armed
  BY <1>2 DEF PreparedArmed, OwnFds
<1> QED BY <1>1, <1>2

LEMMA TimersStep ==
  ASSUME AfterRemoval = {}, IInv, TimersOwned, [Next]_vars
  PROVE  TimersOwned'
<1> USE ConstantsAssumption
<1>0. src \in [Sources -> SourceRecord] /\ \A s \in Sources : src[s].ref \in Nat
  BY DEF IInv, TypeOK, SourceRecord
<1>1. CASE armed' \subseteq armed /\ \A s \in Sources : src[s].ref > 0 => src'[s].ref > 0
  BY <1>1 DEF TimersOwned
<1> SUFFICES ASSUME Next,
                    ~(armed' \subseteq armed
                      /\ \A s \in Sources : src[s].ref > 0 => src'[s].ref > 0)
             PROVE  TimersOwned'
  BY <1>1 DEF vars
<1>2. CASE SourceCall
  <2>1. PICK s \in Sources :
            \/ SourceNew(s) \/ SourceRef(s) \/ SourceUnref(s)
            \/ AddSource(s) \/ DelSource(s)
            \/ \E p \in Prios : SetPriority(s, p)
            \/ \E f \in Fds : AddFd(s, f) \/ DelFd(s, f)
    BY <1>2 DEF SourceCall
  <2>2. CASE SourceUnref(s) \/ DelSource(s)
    <3>1. src[s].ref > 0 /\ UnrefSource(s, efd, {})
      BY <2>2 DEF SourceUnref, DelSource, DeleteSource, CanUse
    <3> QED BY <3>1, TimersUnref
  <2>3. CASE AddSource(s)
    <3>1. /\ armed' = PreparedArmed(s) /\ src[s].ref > 0
          /\ src' = [src EXCEPT ![s].loop = TRUE, ![s].ref = @ + 1]
      BY <2>3 DEF AddSource, CanUse
    <3>2. /\ src'[s].ref = src[s].ref + 1
          /\ \A t \in Sources : t # s => src'[t] = src[t]
      BY <1>0, <3>1 DEF SourceRecord
    <3> QED BY <1>0, <3>1, <3>2, TimersPrepare
  <2>4. CASE SourceNew(s)
    <3>1. armed' = armed /\ src[s].ref = 0 /\ \A t \in Sources : t # s => src'[t] = src[t]
      BY <1>0, <2>4 DEF SourceNew, kernel
    <3> QED BY <3>1
  <2>5. CASE SourceRef(s) \/ (\E p \in Prios : SetPriority(s, p))
             \/ \E f \in Fds : AddFd(s, f) \/ DelFd(s, f)
    <3>1. ASSUME SourceRef(s) \/ \E p \in Prios : SetPriority(s, p)
          PROVE  \A t \in Sources : src[t].ref > 0 => src'[t].ref > 0
      <4>1. \/ src' = [src EXCEPT ![s].ref = @ + 1]
            \/ \E p \in Prios : src' = [src EXCEPT ![s].prio = p]
        BY <3>1 DEF SourceRef, SetPriority
      <4> QED BY <1>0, <4>1 DEF SourceRecord
    <3>2. \A t \in Sources : src[t].ref > 0 => src'[t].ref > 0
      BY <2>5, <3>1, OnlyTheList
    <3>3. armed' = armed
      BY <2>5 DEF SourceRef, SetPriority, AddFd, DelFd, kernel
    <3> QED BY <3>2, <3>3
  <2> QED BY <2>1, <2>2, <2>3, <2>4, <2>5
<1>3. CASE LoopCall
  <2>1. LoopUnref
    BY <1>3 DEF LoopCall, Quit, LoopRef, Run, CloseFd, CloseFds, heap, kernel
  <2> DEFINE gone == {s \in sources : LastRef(s)}
  <2>2. /\ src' = [s \in Sources |->
                     IF s \in gone THEN FreeSrc
                     ELSE IF s \in sources THEN OneLess(s) ELSE src[s]]
        /\ armed' = armed \ UNION {OwnFds(s) : s \in gone}
    BY <2>1 DEF LoopUnref, CloseFds, heap, kernel
  <2>3. ASSUME NEW f \in armed'
        PROVE  \E t \in Sources : Kind[t] = "timeout" /\ f = OwnFd[t] /\ src'[t].ref > 0
    <3>1. PICK t \in Sources : Kind[t] = "timeout" /\ f = OwnFd[t] /\ src[t].ref > 0
      BY <2>2, <2>3 DEF TimersOwned
    <3>2. t \notin gone
      BY <2>2, <2>3, <3>1 DEF OwnFds
    <3>3. t \in sources => src[t].ref # 1
      BY <3>2 DEF LastRef
    <3> HIDE DEF gone
    <3>4. src'[t] = IF t \in sources THEN OneLess(t) ELSE src[t]
      BY <2>2, <3>2
    <3>5. OneLess(t).ref = src[t].ref - 1
      BY <1>0 DEF OneLess, SourceRecord
    <3>6. src'[t].ref > 0
      BY <1>0, <3>1, <3>3, <3>4, <3>5
    <3> QED BY <3>1, <3>6
  <2> QED BY <2>3 DEF TimersOwned
<1>4. CASE LoopStep
  BY <1>4 DEF LoopStep, EpollWait, WaitInterrupted, QueueEvent, QueueDone,
       DispatchNothing, DispatchSkip, DispatchCallback, heap, kernel
<1>5. CASE Callback
  <2> DEFINE s == efd[cur].source
  <2>1. CASE ReadFd
    BY <2>1 DEF ReadFd
  <2>2. CASE ReturnTrue
    <3>1. src' = src /\ Prepare(s) /\ s # NoSource
      BY <2>2 DEF ReturnTrue
    <3>2. s \in Sources /\ src[s].ref > 0
      BY <2>2, <3>1, CurFacts DEF ReturnTrue
    <3> QED BY <3>1, <3>2, TimersPrepare DEF Prepare
  <2>3. CASE ReturnFalse
    <3>1. s # NoSource /\ UnrefSource(s, [efd EXCEPT ![cur].revents = {}], {cur})
      BY <2>3 DEF ReturnFalse, DeleteSource, kernel
    <3>2. s \in Sources /\ src[s].ref > 0
      BY <2>3, <3>1, CurFacts DEF ReturnFalse
    <3> QED BY <3>1, <3>2, TimersUnref
  <2> QED BY <1>5, <2>1, <2>2, <2>3 DEF Callback
<1>6. CASE World
  BY <1>6 DEF World, Arrive, HangUp, Expire, Happens, heap
<1> QED BY <1>2, <1>3, <1>4, <1>5, <1>6 DEF Next

-----------------------------------------------------------------------------
(* Rearmed.                                                                *)
Clock(t) ==
  \/ OwnFd[t] \in armed
  \/ "IN" \in level[OwnFd[t]]
  \/ pc = "callback" /\ efd[cur].source = t

(* The descriptors sources open for themselves are their own.              *)
LEMMA OwnApart ==
  ASSUME NEW t \in Sources, Kind[t] # "fds"
  PROVE  /\ OwnFd[t] \in Fds /\ OwnFd[t] \in OwnFds(t) /\ OwnFd[t] \notin UserFds
         /\ \A s \in Sources : s # t => OwnFd[t] \notin OwnFds(s)
BY ConstantsAssumption DEF OwnFds, UserFds

LEMMA RearmedFrame ==
  ASSUME IInv, Rearmed, sources' \subseteq sources,
         \A t \in sources' : Kind[t] # "fds" /\ Clock(t) => Clock(t)'
  PROVE  Rearmed'
BY DEF Rearmed, Clock

(* A step that touches no clock: the running callback keeps its source.    *)
LEMMA RearmedQuiet ==
  ASSUME IInv, Rearmed, sources' \subseteq sources,
         UNCHANGED <<level, armed>>,
         pc = "callback" => /\ pc' = "callback" /\ cur' = cur
                            /\ \/ efd'[cur].source = efd[cur].source
                               \/ Kind[efd[cur].source] = "fds"
  PROVE  Rearmed'
BY RearmedFrame DEF Clock

(* The source s loses a reference; if it was the last, s is not or no      *)
(* longer in the loop.                                                     *)
LEMMA RearmedUnref ==
  ASSUME IInv, Intact, Rearmed, NEW s \in Sources, src[s].ref > 0,
         UnrefSource(s, efd, {}), UNCHANGED <<pc, cur>>,
         sources' \subseteq sources, LastRef(s) => s \notin sources'
  PROVE  Rearmed'
<1> USE ConstantsAssumption
<1>1. \A d \in Efds : efd'[d].source # efd[d].source => efd[d].source = s /\ src[s].ref = 1
  <2> DEFINE F == {}
  <2>1. F \in SUBSET Efds /\ (\A d \in F : efd[d].dispatched) /\ UnrefSource(s, efd, F)
    OBVIOUS
  <2>2. HeapOK(efd) /\ SameLinks(efd)
    BY SameFacts
  <2> HIDE DEF F
  <2>3. Unreferenced(s, F)
    BY <2>1, <2>2, UnrefFacts
  <2> QED BY <2>3 DEF Unreferenced
<1>2. level \in [Fds -> SUBSET Events]
  BY DEF IInv, TypeOK
<1>3. ASSUME NEW t \in sources', Kind[t] # "fds", Clock(t) PROVE Clock(t)'
  <2>1. t \in Sources /\ (LastRef(s) => t # s)
    BY <1>3 DEF IInv, TypeOK
  <2>2. /\ OwnFd[t] \in armed => OwnFd[t] \in armed'
        /\ level'[OwnFd[t]] = level[OwnFd[t]]
    BY <1>2, <1>3, <2>1, OwnApart DEF UnrefSource, CloseFds
  <2>3. pc = "callback" /\ efd[cur].source = t => efd'[cur].source = t
    BY <1>1, <2>1, CurFacts DEF LastRef
  <2> QED BY <1>3, <2>2, <2>3 DEF Clock
<1> QED BY <1>3, RearmedFrame

(* Preparing s starts its clock, and stops no other.                       *)
LEMMA RearmedPrepare ==
  ASSUME IInv, Rearmed, NEW s \in Sources,
         level' = PreparedLevel(s), armed' = PreparedArmed(s),
         sources' = sources \cup {s},
         \A t \in sources : t # s /\ pc = "callback" /\ efd[cur].source = t =>
                              pc' = "callback" /\ efd'[cur'].source = t
  PROVE  Rearmed'
<1> USE ConstantsAssumption
<1>1. level \in [Fds -> SUBSET Events] /\ sources \subseteq Sources
  BY DEF IInv, TypeOK
<1> SUFFICES ASSUME NEW t \in sources',
                    Kind[t] = "idle" \/ (Kind[t] = "timeout" /\ Interval[t] > 0)
             PROVE  Clock(t)'
  BY DEF Rearmed, Clock
<1>2. t \in Sources /\ Kind[t] # "fds" /\ OwnFd[t] \in Fds /\ OwnFd[t] \in OwnFds(t)
  BY <1>1, OwnApart
<1>3. CASE t = s
  BY <1>2, <1>3 DEF PreparedLevel, PreparedArmed, Clock
<1>4. CASE t # s
  <2>1. OwnFd[t] \notin OwnFds(s)
    BY <1>2, <1>4, OwnApart
  <2>2. level'[OwnFd[t]] = level[OwnFd[t]]
    BY <1>2, <2>1 DEF PreparedLevel
  <2>3. OwnFd[t] \in armed => OwnFd[t] \in armed'
    BY <1>2, <2>1 DEF PreparedArmed
  <2>4. Clock(t)
    BY <1>4 DEF Rearmed, Clock
  <2> QED BY <1>4, <2>2, <2>3, <2>4 DEF Clock
<1> QED BY <1>3, <1>4

LEMMA RearmedCalls ==
  ASSUME AfterRemoval = {}, IInv, Intact, Rearmed, SourceCall
  PROVE  Rearmed'
<1> USE ConstantsAssumption
<1>1. PICK s \in Sources :
            \/ SourceNew(s) \/ SourceRef(s) \/ SourceUnref(s)
            \/ AddSource(s) \/ DelSource(s)
            \/ \E p \in Prios : SetPriority(s, p)
            \/ \E f \in Fds : AddFd(s, f) \/ DelFd(s, f)
  BY DEF SourceCall
<1>2. src[s] \in SourceRecord /\ efd \in [Efds -> EfdRecord]
  BY DEF IInv, TypeOK
<1>3. UNCHANGED <<pc, cur>>
  BY <1>1 DEF SourceNew, SourceRef, SourceUnref, AddSource, DelSource, SetPriority,
       AddFd, DelFd, control
<1>4. CASE SourceNew(s) \/ SourceRef(s) \/ (\E p \in Prios : SetPriority(s, p))
           \/ \E f \in Fds : AddFd(s, f) \/ DelFd(s, f)
  <2>1. UNCHANGED <<level, armed, sources>>
    BY <1>4 DEF SourceNew, SourceRef, SetPriority, AddFd, DelFd, kernel
  <2>2. ASSUME pc = "callback"
        PROVE  efd'[cur].source = efd[cur].source \/ Kind[efd[cur].source] = "fds"
    <3>1. cur \in Efds /\ efd[cur].ref > 0
      BY <2>2, CurFacts
    <3>2. CASE SourceNew(s) \/ \E f \in Fds : AddFd(s, f)
      <4>1. efd' = efd \/ \E d \in Efds : \E o : efd[d].ref = 0 /\ efd' = [efd EXCEPT ![d] = o]
        BY <3>2 DEF SourceNew, AddFd
      <4> QED BY <1>2, <3>1, <4>1
    <3>3. CASE SourceRef(s) \/ \E p \in Prios : SetPriority(s, p)
      BY <3>3 DEF SourceRef, SetPriority
    <3>4. CASE \E f \in Fds : DelFd(s, f)
      <4>1. PICK d \in FdsOf(s) : Kind[s] = "fds" /\ efd' = Released(efd, {d}, {})
        BY <3>4, DelFdFacts
      <4>2. CASE cur = d
        <5>1. efd[cur].source = s
          BY <3>1, <4>1, <4>2 DEF IInv, Linked
        <5> QED BY <4>1, <5>1
      <4>3. CASE cur # d
        BY <3>1, <4>1, <4>3 DEF Released
      <4> QED BY <4>2, <4>3
    <3> QED BY <1>4, <3>2, <3>3, <3>4
  <2> QED BY <1>3, <2>1, <2>2, RearmedQuiet
<1>5. CASE SourceUnref(s)
  <2>1. src[s].ref > 0 /\ UnrefSource(s, efd, {}) /\ sources' = sources /\ uref[s] > 0
    BY <1>5 DEF SourceUnref
  <2>2. LastRef(s) => s \notin sources
    <3>1. src[s].ref = uref[s] + (IF s \in sources THEN 1 ELSE 0) /\ uref[s] \in Nat
      BY DEF IInv, CountsExact, TypeOK
    <3> QED BY <2>1, <3>1 DEF LastRef
  <2> QED BY <1>3, <2>1, <2>2, RearmedUnref
<1>6. CASE DelSource(s)
  <2>1. src[s].ref > 0 /\ UnrefSource(s, efd, {}) /\ sources' = sources \ {s}
    BY <1>6 DEF DelSource, DeleteSource, CanUse
  <2> QED BY <1>3, <2>1, RearmedUnref
<1>7. CASE AddSource(s)
  <2>1. /\ level' = PreparedLevel(s) /\ armed' = PreparedArmed(s)
        /\ sources' = sources \cup {s} /\ efd' = efd
    BY <1>7 DEF AddSource
  <2> QED BY <1>3, <2>1, RearmedPrepare
<1> QED BY <1>1, <1>4, <1>5, <1>6, <1>7

LEMMA RearmedReturnFalse ==
  ASSUME AfterRemoval = {}, IInv, Intact, Rearmed, ReturnFalse
  PROVE  Rearmed'
<1> USE ConstantsAssumption
<1> DEFINE s == efd[cur].source
<1>1. level \in [Fds -> SUBSET Events] /\ sources \subseteq Sources
  BY DEF IInv, TypeOK
<1>2. pc = "callback" /\ (s # NoSource => s \in Sources)
  BY CurFacts DEF ReturnFalse
<1>3. ASSUME NEW t \in sources', Kind[t] # "fds", Clock(t)
      PROVE  t \in sources /\ Clock(t)'
  <2>1. CASE s = NoSource
    <3>1. UNCHANGED <<sources, level, armed>>
      BY <2>1 DEF ReturnFalse, kernel
    <3> QED BY <1>1, <1>3, <2>1, <3>1 DEF Clock
  <2>2. CASE s # NoSource
    <3>1. sources' = sources \ {s} /\ CloseFds(IF LastRef(s) THEN OwnFds(s) ELSE {})
      BY <2>2 DEF ReturnFalse, DeleteSource, UnrefSource
    <3>2. t \in Sources /\ t # s /\ t \in sources
      BY <1>1, <1>3, <3>1
    <3>3. OwnFd[t] \notin OwnFds(s) /\ OwnFd[t] \in Fds
      BY <1>2, <1>3, <2>2, <3>2, OwnApart
    <3>4. /\ OwnFd[t] \in armed => OwnFd[t] \in armed'
          /\ level'[OwnFd[t]] = level[OwnFd[t]]
      BY <3>1, <3>3 DEF CloseFds
    <3> QED BY <1>3, <3>2, <3>4 DEF Clock
  <2> QED BY <2>1, <2>2
<1>4. sources' \subseteq sources
  BY DEF ReturnFalse, DeleteSource
<1> QED BY <1>3, <1>4, RearmedFrame

LEMMA RearmedStep ==
  ASSUME AfterRemoval = {}, IInv, Wired, Rearmed, [Next]_vars
  PROVE  Rearmed'
<1> USE ConstantsAssumption
<1>1. CASE UNCHANGED vars
  BY <1>1, RearmedQuiet DEF vars
<1> SUFFICES ASSUME Next PROVE Rearmed'
  BY <1>1
<1>2. /\ Intact /\ level \in [Fds -> SUBSET Events] /\ sources \subseteq Sources
      /\ \A t \in sources : src[t].loop = TRUE
  BY DEF Next, IInv, TypeOK, InLoop
<1>3. CASE SourceCall
  BY <1>2, <1>3, RearmedCalls
<1>4. CASE LoopCall
  <2>1. CASE Quit \/ LoopRef \/ Run
    <3>1. UNCHANGED <<sources, level, armed, efd, cur>> /\ (pc = "callback" => pc' = pc)
      BY <2>1 DEF Quit, LoopRef, Run, heap, control, kernel
    <3> QED BY <3>1, RearmedQuiet
  <2>2. CASE LoopUnref
    <3>1. CASE lref > 1
      <4>1. UNCHANGED <<sources, level, armed>> /\ pc # "callback"
        BY <2>2, <3>1 DEF LoopUnref, heap, kernel
      <4> QED BY <4>1, RearmedQuiet
    <3>2. CASE ~(lref > 1)
      <4>1. sources' = {}
        BY <2>2, <3>2 DEF LoopUnref
      <4> QED BY <4>1 DEF Rearmed
    <3> QED BY <3>1, <3>2
  <2>3. CASE \E f \in Fds : CloseFd(f)
    <3>1. PICK f \in UserFds :
            CloseFds({f}) /\ UNCHANGED <<sources, pc, cur, efd>>
      BY <2>3 DEF CloseFd, heap, control
    <3>2. ASSUME NEW t \in sources', Kind[t] # "fds", Clock(t) PROVE Clock(t)'
      <4>1. t \in Sources
        BY <1>2, <3>1
      <4>2. OwnFd[t] \in Fds /\ OwnFd[t] # f
        BY <3>1, <3>2, <4>1, OwnApart
      <4> QED BY <3>1, <3>2, <4>2 DEF Clock, CloseFds
    <3> QED BY <3>1, <3>2, RearmedFrame
  <2> QED BY <1>4, <2>1, <2>2, <2>3 DEF LoopCall
<1>5. CASE LoopStep
  <2>1. CASE DispatchCallback
    <3> DEFINE d == Head(fd_list)
               s == efd[d].source
               read == [level EXCEPT ![efd[d].fd] = @ \ {"IN"}]
    <3>1. /\ pc = "dispatch" /\ pc' = "callback" /\ cur' = d /\ fd_list # <<>>
          /\ UNCHANGED <<sources, armed>> /\ Dispatchable(d)
          /\ level' \in {level, read} /\ (efd' = efd \/ efd' = Consumed(d))
          /\ Kind[s] = "fds" => level' = level
      BY <2>1 DEF DispatchCallback
    <3>2. d \in Efds /\ s \in Sources /\ efd'[d].source = s
      <4>1. d \in Efds
        BY <3>1, HeadFacts
      <4>2. s \in Sources
        BY <3>1, <4>1 DEF Dispatchable, IInv, TypeOK, EfdRecord
      <4>3. efd'[d].source = s
        <5> HIDE DEF d
        <5>1. Consumed(d)[d].source = efd[d].source
          BY <4>1, ConsumedSource
        <5> QED BY <3>1, <4>1, <5>1
      <4> QED BY <4>1, <4>2, <4>3
    <3>3. ASSUME NEW t \in sources', Kind[t] # "fds", Clock(t) PROVE Clock(t)'
      <4>1. CASE t = s
        BY <3>1, <3>2, <4>1 DEF Clock
      <4>2. CASE t # s
        <5>1. t \in Sources
          BY <1>2, <3>1
        <5>2. Kind[s] # "fds" => OwnFd[t] # efd[d].fd
          BY <3>1, <3>2, <3>3, <4>2, <5>1, OwnApart DEF Wired, WiredTo, Dispatchable
        <5>3. level'[OwnFd[t]] = level[OwnFd[t]]
          <6>1. CASE Kind[s] = "fds"
            BY <3>1, <6>1
          <6>2. CASE Kind[s] # "fds"
            BY <1>2, <3>1, <5>1, <5>2, <6>2
          <6> QED BY <6>1, <6>2
        <5> QED BY <3>1, <3>3, <5>3 DEF Clock
      <4> QED BY <4>1, <4>2
    <3> QED BY <3>1, <3>3, RearmedFrame
  <2>2. CASE ~DispatchCallback
    <3>1. UNCHANGED <<sources, level, armed>> /\ pc # "callback"
      BY <1>5, <2>2 DEF LoopStep, EpollWait, WaitInterrupted, QueueEvent, QueueDone,
           DispatchNothing, DispatchSkip, heap, kernel
    <3> QED BY <3>1, RearmedQuiet
  <2> QED BY <2>1, <2>2
<1>6. CASE Callback
  <2>1. CASE ReadFd
    <3> DEFINE f == efd[cur].fd
    <3>1. /\ pc = "callback" /\ UNCHANGED <<sources, armed, pc, cur>>
          /\ Kind[efd[cur].source] = "fds" /\ efd[cur].source # NoSource
          /\ level' \in {level, [level EXCEPT ![f] = @ \ {"IN"}]}
          /\ efd' = efd \/ efd' = Consumed(cur)
      BY <2>1 DEF ReadFd, control
    <3>2. cur \in Efds /\ f \in UserFds
      BY <3>1, CurFacts DEF Wired, WiredTo
    <3>3. ASSUME NEW t \in sources', Kind[t] # "fds", Clock(t) PROVE Clock(t)'
      <4>1. t \in Sources
        BY <1>2, <3>1
      <4>2. OwnFd[t] # f /\ efd[cur].source # t
        BY <3>1, <3>2, <3>3, <4>1, OwnApart
      <4>3. level'[OwnFd[t]] = level[OwnFd[t]]
        <5> HIDE DEF f
        <5> QED BY <1>2, <3>1, <4>1, <4>2
      <4> QED BY <3>1, <3>3, <4>2, <4>3 DEF Clock
    <3> QED BY <3>1, <3>3, RearmedFrame
  <2>2. CASE ReturnTrue
    <3> DEFINE s == efd[cur].source
    <3>1. pc = "callback" /\ sources' = sources
      BY <2>2 DEF ReturnTrue
    <3>2. CASE s \in sources
      <4>1. s \in Sources /\ s # NoSource /\ src[s].loop = TRUE
        BY <1>2, <3>2
      <4>2. Prepare(s)
        BY <2>2, <4>1 DEF ReturnTrue
      <4>3. sources' = sources \cup {s}
        BY <3>1, <3>2
      <4> QED BY <4>1, <4>2, <4>3, RearmedPrepare DEF Prepare
    <3>3. CASE s \notin sources
      <4>1. CASE s # NoSource /\ src[s].loop
        <5>1. s \in Sources /\ Prepare(s)
          BY <2>2, <3>1, <4>1, CurFacts DEF ReturnTrue
        <5>2. ASSUME NEW t \in sources', Kind[t] # "fds", Clock(t) PROVE Clock(t)'
          <6>1. t \in Sources /\ t # s
            BY <1>2, <3>1, <3>3, <5>2
          <6>2. OwnFd[t] \notin OwnFds(s) /\ OwnFd[t] \in Fds
            BY <5>1, <5>2, <6>1, OwnApart
          <6>3. level'[OwnFd[t]] = level[OwnFd[t]]
            BY <5>1, <6>2 DEF Prepare, PreparedLevel
          <6>4. OwnFd[t] \in armed => OwnFd[t] \in armed'
            BY <5>1, <6>2 DEF Prepare, PreparedArmed
          <6> QED BY <5>2, <6>1, <6>3, <6>4 DEF Clock
        <5> QED BY <3>1, <5>2, RearmedFrame
      <4>2. CASE ~(s # NoSource /\ src[s].loop)
        <5>1. UNCHANGED <<level, armed>>
          BY <2>2, <4>2 DEF ReturnTrue
        <5>2. \A t \in sources' : Clock(t) => Clock(t)'
          BY <3>1, <3>3, <5>1 DEF Clock
        <5> QED BY <3>1, <5>2, RearmedFrame
      <4> QED BY <4>1, <4>2
    <3> QED BY <3>2, <3>3
  <2>3. CASE ReturnFalse
    BY <1>2, <2>3, RearmedReturnFalse
  <2> QED BY <1>6, <2>1, <2>2, <2>3 DEF Callback
<1>7. CASE World
  <2>1. PICK f \in Fds : Arrive(f) \/ HangUp(f) \/ Expire(f)
    BY <1>7 DEF World
  <2>2. /\ UNCHANGED <<sources, pc, cur, efd>>
        /\ \A g \in Fds : level[g] \subseteq level'[g]
        /\ \A g \in armed : g \in armed' \/ (g \in Fds /\ "IN" \in level'[g])
    BY <1>2, <2>1 DEF Arrive, HangUp, Expire, Happens, heap, control
  <2>3. \A t \in sources' : OwnFd[t] \in Fds
    BY <1>2, <2>2
  <2>4. \A t \in sources' : Clock(t) => Clock(t)'
    BY <2>2, <2>3 DEF Clock
  <2> QED BY <2>2, <2>4, RearmedFrame
<1> QED BY <1>3, <1>4, <1>5, <1>6, <1>7 DEF Next

-----------------------------------------------------------------------------
(* NoLostReadiness.                                                        *)
Seen(f) ==
  \/ edge[f]
  \/ "IN" \in batch[reg[f]]
  \/ "IN" \in efd[reg[f]].revents /\ Queued(reg[f])

(* What can be read after the step could before, and was seen.             *)
LEMMA ReadyFrame ==
  ASSUME NoLostReadiness,
         \A f \in Fds : reg'[f] # NoEfd /\ "IN" \in level'[f] /\ ~edge'[f] =>
           /\ reg'[f] = reg[f] /\ "IN" \in level[f]
           /\ Seen(f) => Seen(f)'
  PROVE  NoLostReadiness'
BY DEF NoLostReadiness, Seen

(* What the kernel watches.                                                *)
LEMMA Watched ==
  ASSUME IInv, NEW f \in Fds, reg[f] # NoEfd
  PROVE  LET d == reg[f]
             t == efd[d].source
         IN /\ d \in Efds /\ efd[d].fd = f /\ efd[d].ref > 0
            /\ t \in sources /\ t \in Sources /\ t # NoSource
            /\ src[t].loop = TRUE /\ d \in FdsOf(t)
<1> DEFINE d == reg[f]
           t == efd[d].source
<1>1. /\ d \in Efds /\ efd[d].fd = f
      /\ t \in sources /\ t \in Sources /\ t # NoSource
  BY RegFacts
<1>2. d \in FdsOf(t) /\ efd[d].ref > 0
  BY <1>1 DEF IInv, Linked
<1>3. src[t].loop = TRUE
  BY <1>1 DEF IInv, InLoop
<1> QED BY <1>1, <1>2, <1>3

LEMMA WatchedCell ==
  ASSUME IInv
  PROVE  \A f \in Fds : reg[f] # NoEfd => reg[f] \in Efds /\ efd[reg[f]].ref # 0
<1> SUFFICES ASSUME NEW f \in Fds, reg[f] # NoEfd
             PROVE  reg[f] \in Efds /\ efd[reg[f]].ref # 0
  OBVIOUS
<1>1. reg[f] \in Efds /\ efd[reg[f]].ref > 0
  BY Watched
<1> QED BY <1>1

(* The descriptor of s's own is watched for s only.                        *)
LEMMA WatchedOwn ==
  ASSUME IInv, Wired, NEW s \in Sources, NEW f \in OwnFds(s), reg[f] # NoEfd
  PROVE  efd[reg[f]].source = s
<1>1. Kind[s] # "fds" /\ f = OwnFd[s] /\ f \in Fds
  BY ConstantsAssumption DEF OwnFds
<1>2. LET t == efd[reg[f]].source
      IN reg[f] \in Efds /\ efd[reg[f]].fd = f /\ t \in Sources /\ t # NoSource
  BY <1>1, Watched
<1>3. WiredTo(f, efd[reg[f]].source)
  BY <1>2 DEF Wired
<1> QED BY <1>1, <1>2, <1>3, OwnApart DEF WiredTo, OwnFds

(* The kernel forgets the descriptors of G; the objects it still points to *)
(* do not change.                                                          *)
LEMMA ReadyForget ==
  ASSUME IInv, NoLostReadiness, NEW G, LoopDelFds(G),
         \A f \in Fds : level'[f] \subseteq level[f],
         UNCHANGED <<batch, fd_list>>,
         \A f \in Fds : f \notin G /\ reg[f] # NoEfd => efd'[reg[f]] = efd[reg[f]]
  PROVE  NoLostReadiness'
<1> SUFFICES ASSUME NEW f \in Fds, reg'[f] # NoEfd, "IN" \in level'[f], ~edge'[f]
             PROVE  /\ reg'[f] = reg[f] /\ "IN" \in level[f]
                    /\ Seen(f) => Seen(f)'
  BY ReadyFrame
<1>1. f \notin G /\ reg'[f] = reg[f] /\ edge'[f] = edge[f] /\ reg[f] # NoEfd
  <2>1. edge[f] \in BOOLEAN
    BY DEF IInv, TypeOK
  <2> QED BY <2>1 DEF LoopDelFds
<1>2. efd'[reg[f]] = efd[reg[f]] /\ "IN" \in level[f]
  BY <1>1
<1> QED BY <1>1, <1>2 DEF Seen, Queued

LEMMA LevelShrinks ==
  ASSUME IInv, NEW G, CloseFds(G)
  PROVE  \A f \in Fds : level'[f] \subseteq level[f]
BY DEF IInv, TypeOK, CloseFds

LEMMA ReleasedSame ==
  ASSUME NEW h, NEW U, NEW F, NEW d \in Efds, d \notin U, d \notin F
  PROVE  Released(h, U, F)[d] = h[d]
BY DEF Released

LEMMA ReadyCalls ==
  ASSUME AfterRemoval = {}, IInv, Intact, Wired, NoLostReadiness, SourceCall
  PROVE  NoLostReadiness'
<1> USE ConstantsAssumption
<1>1. PICK s \in Sources :
            \/ SourceNew(s) \/ SourceRef(s) \/ SourceUnref(s)
            \/ AddSource(s) \/ DelSource(s)
            \/ \E p \in Prios : SetPriority(s, p)
            \/ \E f \in Fds : AddFd(s, f) \/ DelFd(s, f)
  BY DEF SourceCall
<1>2. /\ efd \in [Efds -> EfdRecord] /\ level \in [Fds -> SUBSET Events]
      /\ edge \in [Fds -> BOOLEAN] /\ reg \in [Fds -> Efds \cup {NoEfd}]
  BY DEF IInv, TypeOK
<1>3. CASE SourceRef(s) \/ \E p \in Prios : SetPriority(s, p)
  <2>1. UNCHANGED <<efd, fd_list, batch, level, edge, reg>>
    BY <1>3 DEF SourceRef, SetPriority, control, kernel
  <2> QED BY <2>1 DEF NoLostReadiness, Queued
<1>4. CASE SourceNew(s)
  <2>1. UNCHANGED <<fd_list, batch, level, edge, reg>>
    BY <1>4 DEF SourceNew, control, kernel
  <2>2. efd' = efd \/ \E d \in Efds : \E o : efd[d].ref = 0 /\ efd' = [efd EXCEPT ![d] = o]
    BY <1>4 DEF SourceNew
  <2>3. \A f \in Fds : reg[f] # NoEfd => efd'[reg[f]] = efd[reg[f]]
    BY <1>2, <2>2, WatchedCell
  <2> QED BY <2>1, <2>3 DEF NoLostReadiness, Queued
<1>5. CASE \E f \in Fds : AddFd(s, f)
  <2>1. PICK f \in Fds : AddFd(s, f)
    BY <1>5
  <2>2. PICK d \in Efds :
          /\ efd[d].ref = 0
          /\ efd' = efd \/ \E o : efd' = [efd EXCEPT ![d] = o]
          /\ LoopAddFd(f, d) \/ UNCHANGED <<reg, edge>>
    BY <2>1 DEF AddFd
  <2>3. UNCHANGED <<fd_list, batch, level>>
    BY <2>1 DEF AddFd, control
  <2>4. \A g \in Fds : reg[g] # NoEfd => efd'[reg[g]] = efd[reg[g]]
    BY <1>2, <2>2, WatchedCell
  <2>5. \A g \in Fds : g # f => reg'[g] = reg[g] /\ edge'[g] = edge[g]
    BY <1>2, <2>2 DEF LoopAddFd
  <2>6. edge'[f] = (level[f] # {}) \/ (reg'[f] = reg[f] /\ edge'[f] = edge[f])
    BY <1>2, <2>2 DEF LoopAddFd
  <2> SUFFICES ASSUME NEW g \in Fds, reg'[g] # NoEfd, "IN" \in level'[g], ~edge'[g]
               PROVE  /\ reg'[g] = reg[g] /\ "IN" \in level[g]
                      /\ Seen(g) => Seen(g)'
    BY ReadyFrame
  <2>7. reg'[g] = reg[g] /\ edge'[g] = edge[g]
    BY <2>3, <2>5, <2>6
  <2>8. efd'[reg[g]] = efd[reg[g]]
    BY <2>4, <2>7
  <2> QED BY <2>3, <2>7, <2>8 DEF Seen, Queued
<1>6. CASE SourceUnref(s)
  <2> DEFINE G == IF LastRef(s) THEN OwnFds(s) ELSE {}
             U == IF LastRef(s) THEN FdsOf(s) ELSE {}
  <2>1. /\ LoopDelFds(G) /\ UNCHANGED <<fd_list, batch>>
        /\ CloseFds(G) /\ efd' = Released(efd, U, {}) /\ uref[s] > 0
    BY <1>6 DEF SourceUnref, UnrefSource, control
  <2>2. ASSUME NEW f \in Fds, reg[f] # NoEfd PROVE efd'[reg[f]] = efd[reg[f]]
    <3>1. LET t == efd[reg[f]].source
          IN reg[f] \in Efds /\ t \in sources /\ t \in Sources
      BY <2>2, Watched
    <3>2. LastRef(s) => s \notin sources
      <4>1. src[s].ref = uref[s] + (IF s \in sources THEN 1 ELSE 0) /\ uref[s] \in Nat
        BY DEF IInv, CountsExact, TypeOK
      <4> QED BY <2>1, <4>1 DEF LastRef
    <3>3. reg[f] \in FdsOf(s) => efd[reg[f]].source = s
      BY <3>1 DEF IInv, Linked, Intact
    <3>4. reg[f] \notin U
      BY <3>1, <3>2, <3>3
    <3> QED BY <2>1, <3>1, <3>4, ReleasedSame
  <2> HIDE DEF G
  <2> QED BY <2>1, <2>2, ReadyForget, LevelShrinks
<1>7. CASE DelSource(s)
  <2> DEFINE U == IF LastRef(s) THEN FdsOf(s) ELSE {}
  <2>1. /\ LoopDelFds(FdNums(s)) /\ UNCHANGED <<fd_list, batch>>
        /\ \E G : CloseFds(G)
        /\ efd' = Released(efd, U, {})
    BY <1>7 DEF DelSource, DeleteSource, UnrefSource, control
  <2>2. ASSUME NEW f \in Fds, f \notin FdNums(s), reg[f] # NoEfd
        PROVE  efd'[reg[f]] = efd[reg[f]]
    <3>1. reg[f] \in Efds /\ efd[reg[f]].fd = f
      BY <2>2, Watched
    <3>2. reg[f] \notin U
      BY <2>2, <3>1 DEF FdNums
    <3> QED BY <2>1, <3>1, <3>2, ReleasedSame
  <2> QED BY <2>1, <2>2, ReadyForget, LevelShrinks
<1>8. CASE \E f \in Fds : DelFd(s, f)
  <2>1. PICK f \in Fds : DelFd(s, f)
    BY <1>8
  <2> DEFINE G == IF src[s].loop THEN {f} ELSE {}
  <2>2. PICK d \in FdsOf(s) : efd[d].fd = f /\ efd' = Released(efd, {d}, {})
    BY <2>1, DelFdFacts
  <2>3. LoopDelFds(G) /\ UNCHANGED <<fd_list, batch, level>>
    BY <2>1 DEF DelFd, control
  <2>4. ASSUME NEW g \in Fds, g \notin G, reg[g] # NoEfd PROVE efd'[reg[g]] = efd[reg[g]]
    <3>1. LET t == efd[reg[g]].source
          IN reg[g] \in Efds /\ efd[reg[g]].fd = g /\ src[t].loop = TRUE
      BY <2>4, Watched
    <3>2. d \in Efds /\ efd[d].ref > 0
      BY <2>2, ListedFacts DEF Intact
    <3>3. efd[d].source = s
      BY <2>2, <3>2 DEF IInv, Linked
    <3>4. reg[g] # d
      BY <2>2, <2>4, <3>1, <3>3
    <3> QED BY <2>2, <3>1, <3>4, ReleasedSame
  <2> HIDE DEF G
  <2> QED BY <2>3, <2>4, ReadyForget
<1>9. CASE AddSource(s)
  <2>1. PICK R \in SUBSET FdsOf(s) :
          LET accepted == {efd[d].fd : d \in R}
          IN /\ reg' = [f \in Fds |-> IF f \in accepted
                                        THEN CHOOSE d \in R : efd[d].fd = f
                                        ELSE reg[f]]
             /\ edge' = [f \in Fds |-> IF f \in accepted
                                         THEN PreparedLevel(s)[f] # {} ELSE edge[f]]
    BY <1>9 DEF AddSource
  <2>2. /\ level' = PreparedLevel(s) /\ UNCHANGED <<efd, fd_list, batch>>
        /\ ~src[s].loop
    BY <1>9 DEF AddSource, control
  <2> SUFFICES ASSUME NEW f \in Fds, reg'[f] # NoEfd, "IN" \in level'[f], ~edge'[f]
               PROVE  /\ reg'[f] = reg[f] /\ "IN" \in level[f]
                      /\ Seen(f) => Seen(f)'
    BY ReadyFrame
  <2>3. f \notin {efd[d].fd : d \in R}
    <3> DEFINE accepted == {efd[d].fd : d \in R}
    <3>1. f \in accepted => edge'[f] = (level'[f] # {})
      BY <2>1, <2>2
    <3>2. f \notin accepted
      <4> HIDE DEF accepted
      <4> QED BY <3>1
    <3> QED BY <3>2
  <2>4. reg'[f] = reg[f] /\ edge'[f] = edge[f] /\ reg[f] # NoEfd
    BY <2>1, <2>3
  <2>5. f \notin OwnFds(s)
    BY <2>2, <2>4, Watched, WatchedOwn
  <2>6. level'[f] = level[f]
    BY <2>2, <2>5 DEF PreparedLevel
  <2> QED BY <2>2, <2>4, <2>6 DEF Seen, Queued
<1> QED BY <1>1, <1>3, <1>4, <1>5, <1>6, <1>7, <1>8, <1>9

(* Only the head leaves fd_list.                                           *)
LEMMA TailQueued ==
  ASSUME IInv, fd_list # <<>>, fd_list' = Tail(fd_list)
  PROVE  \A e : e # Head(fd_list) => (Queued(e) <=> Queued(e)')
<1>1. \A e : (\E i \in 1..Len(Tail(fd_list)) : Tail(fd_list)[i] = e)
               <=> e # Head(fd_list) /\ \E i \in 1..Len(fd_list) : fd_list[i] = e
  BY TailFacts DEF IInv, TypeOK, QueueExact
<1> QED BY <1>1 DEF Queued

(* The end of dispatch_events, for the heap h the callback or the check    *)
(* left: an entry leaves only when its descriptor has nothing to read.     *)
LEMMA ReadyFinish ==
  ASSUME IInv, NoLostReadiness, fd_list # <<>>,
         NEW h, NEW d, d = Head(fd_list), FinishHead(h, d),
         \A e \in Efds : e # d => h[e] = efd[e],
         h[d].source = efd[d].source,
         UNCHANGED <<batch, reg>>,
         \A f \in Fds : reg[f] # NoEfd /\ "IN" \in level'[f] /\ ~edge'[f] =>
           /\ "IN" \in level[f] /\ edge'[f] = edge[f]
           /\ reg[f] = d => h[d] = efd[d]
  PROVE  NoLostReadiness'
<1> SUFFICES ASSUME NEW f \in Fds, reg'[f] # NoEfd, "IN" \in level'[f], ~edge'[f],
                    Seen(f)
             PROVE  Seen(f)'
  BY ReadyFrame
<1> DEFINE e == reg[f]
<1>1. /\ e \in Efds /\ efd[e].source # NoSource
  BY Watched
<1>2. h[e] = efd[e]
  BY <1>1
<1>3. "IN" \in batch[e] \/ ("IN" \in efd[e].revents /\ Queued(e))
  BY DEF Seen
<1>4. CASE "IN" \in batch[e]
  BY <1>4 DEF Seen
<1>5. CASE "IN" \in efd[e].revents /\ Queued(e)
  <2>1. CASE StillReady(h, d)
    BY <1>2, <1>5, <2>1 DEF FinishHead, Seen, Queued
  <2>2. CASE ~StillReady(h, d)
    <3>1. efd' = Released(h, {}, {d}) /\ fd_list' = Tail(fd_list)
      BY <2>2 DEF FinishHead
    <3>2. e # d
      BY <1>1, <1>2, <1>5, <2>2 DEF StillReady, Interest
    <3>3. efd'[e] = efd[e]
      BY <1>1, <1>2, <3>1, <3>2, ReleasedSame
    <3>4. Queued(e)'
      BY <1>5, <3>1, <3>2, TailQueued
    <3> QED BY <1>5, <3>3, <3>4 DEF Seen
  <2> QED BY <2>1, <2>2
<1> QED BY <1>3, <1>4, <1>5

LEMMA ReadyCallback ==
  ASSUME AfterRemoval = {}, IInv, Intact, Wired, NoLostReadiness, Callback
  PROVE  NoLostReadiness'
<1> USE ConstantsAssumption
<1>1. /\ efd \in [Efds -> EfdRecord] /\ level \in [Fds -> SUBSET Events]
      /\ edge \in [Fds -> BOOLEAN]
  BY DEF IInv, TypeOK
<1>2. /\ pc = "callback" /\ cur \in Efds /\ fd_list # <<>> /\ cur = Head(fd_list)
      /\ efd[cur].source # NoSource => efd[cur].source \in Sources
  BY CurFacts DEF Callback, ReadFd, ReturnTrue, ReturnFalse
<1>3. CASE ReadFd
  <2> DEFINE f == efd[cur].fd
  <2>1. UNCHANGED <<fd_list, batch, edge, reg>>
    BY <1>3 DEF ReadFd, control
  <2>2. \/ level' = [level EXCEPT ![f] = @ \ {"IN"}] /\ efd' = efd
        \/ "IN" \notin level[f] /\ efd' = Consumed(cur) /\ level' = level
    BY <1>3 DEF ReadFd
  <2> SUFFICES ASSUME NEW g \in Fds, reg[g] # NoEfd, "IN" \in level'[g]
               PROVE  "IN" \in level[g] /\ efd'[reg[g]] = efd[reg[g]]
    BY <2>1, ReadyFrame DEF Seen, Queued
  <2>3. reg[g] \in Efds /\ efd[reg[g]].fd = g
    BY Watched
  <2>4. CASE level' = [level EXCEPT ![f] = @ \ {"IN"}] /\ efd' = efd
    <3> HIDE DEF f
    <3> QED BY <1>1, <2>4
  <2>5. CASE "IN" \notin level[f] /\ efd' = Consumed(cur) /\ level' = level
    <3>1. reg[g] # cur
      BY <2>3, <2>5
    <3> QED BY <2>3, <2>5, <3>1, ConsumedSource
  <2> QED BY <2>2, <2>4, <2>5
<1>4. CASE ReturnTrue
  <2> DEFINE s == efd[cur].source
  <2>1. FinishHead(efd, cur) /\ UNCHANGED <<batch, reg>>
    BY <1>4 DEF ReturnTrue
  <2>2. ASSUME NEW f \in Fds, reg[f] # NoEfd, "IN" \in level'[f], ~edge'[f]
        PROVE  "IN" \in level[f] /\ edge'[f] = edge[f]
    <3>1. CASE Prepare(s)
      <4>1. Kind[s] = "idle" => f \notin OwnFds(s)
        BY <2>2, <3>1 DEF Prepare
      <4>2. f \in OwnFds(s) => Kind[s] # "timeout"
        BY <2>2, <3>1 DEF Prepare, PreparedLevel
      <4>3. level'[f] = level[f]
        BY <3>1, <4>1, <4>2 DEF Prepare, PreparedLevel
      <4>4. edge'[f] = edge[f]
        BY <3>1, <4>1 DEF Prepare
      <4> QED BY <2>2, <4>3, <4>4
    <3>2. CASE UNCHANGED <<level, edge>>
      BY <2>2, <3>2
    <3> QED BY <1>4, <3>1, <3>2 DEF ReturnTrue
  <2> QED BY <1>2, <2>1, <2>2, ReadyFinish
<1>5. CASE ReturnFalse /\ efd[cur].source = NoSource
  <2>1. FinishHead(efd, cur) /\ UNCHANGED <<batch, reg, level, edge>>
    BY <1>5 DEF ReturnFalse, kernel
  <2> QED BY <1>2, <2>1, ReadyFinish
<1>6. CASE ReturnFalse /\ efd[cur].source # NoSource
  <2> DEFINE s == efd[cur].source
             h == [efd EXCEPT ![cur].revents = {}]
             U == IF LastRef(s) THEN FdsOf(s) ELSE {}
  <2>1. /\ LoopDelFds(FdNums(s)) /\ efd' = Released(h, U, {cur})
        /\ fd_list' = Tail(fd_list) /\ batch' = batch
        /\ \E G : CloseFds(G)
    BY <1>6 DEF ReturnFalse, DeleteSource, UnrefSource
  <2>2. \A f \in Fds : level'[f] \subseteq level[f]
    BY <2>1, LevelShrinks
  <2>3. cur \in FdsOf(s)
    BY <1>2, <1>6, CurFacts DEF IInv, Linked
  <2> SUFFICES ASSUME NEW f \in Fds, reg'[f] # NoEfd, "IN" \in level'[f], ~edge'[f]
               PROVE  /\ reg'[f] = reg[f] /\ "IN" \in level[f]
                      /\ Seen(f) => Seen(f)'
    BY ReadyFrame
  <2>4. f \notin FdNums(s) /\ reg'[f] = reg[f] /\ edge'[f] = edge[f] /\ reg[f] # NoEfd
    BY <1>1, <2>1 DEF LoopDelFds
  <2>5. reg[f] \in Efds /\ efd[reg[f]].fd = f
    BY <2>4, Watched
  <2>6. reg[f] \notin FdsOf(s)
    BY <2>4, <2>5 DEF FdNums
  <2>7. reg[f] # cur /\ reg[f] \notin U
    BY <2>3, <2>6
  <2>8. h[reg[f]] = efd[reg[f]]
    BY <1>1, <2>5, <2>7
  <2>9. efd'[reg[f]] = efd[reg[f]]
    <3> HIDE DEF h, U
    <3> QED BY <2>1, <2>5, <2>7, <2>8, ReleasedSame
  <2>10. Queued(reg[f]) => Queued(reg[f])'
    <3>1. reg[f] # Head(fd_list)
      BY <1>2, <2>7
    <3> QED BY <1>2, <2>1, <2>4, <3>1, TailQueued
  <2> QED BY <2>1, <2>2, <2>4, <2>9, <2>10 DEF Seen
<1> QED BY <1>3, <1>4, <1>5, <1>6 DEF Callback

LEMMA ReadyLoop ==
  ASSUME IInv, Intact, Wired, NoLostReadiness, LoopStep
  PROVE  NoLostReadiness'
<1> USE ConstantsAssumption
<1>1. /\ efd \in [Efds -> EfdRecord] /\ level \in [Fds -> SUBSET Events]
      /\ edge \in [Fds -> BOOLEAN] /\ batch \in [Efds -> SUBSET Events]
      /\ fd_list \in Seq(Efds)
  BY DEF IInv, TypeOK
<1>2. CASE WaitInterrupted \/ QueueDone \/ DispatchNothing
  <2>1. UNCHANGED <<efd, fd_list, batch, level, edge, reg>>
    BY <1>2 DEF WaitInterrupted, QueueDone, DispatchNothing, heap, kernel
  <2> QED BY <2>1 DEF NoLostReadiness, Queued
<1>3. CASE EpollWait
  <2>1. pc = "wait" /\ UNCHANGED <<efd, fd_list, level, reg>>
    BY <1>3 DEF EpollWait, heap
  <2>2. PICK R \in SUBSET Ready :
          /\ batch' = [d \in Efds |-> UNION {level[f] : f \in {g \in R : reg[g] = d}}]
          /\ edge' = [f \in Fds |-> f \in Ready \ R]
    BY <1>3 DEF EpollWait
  <2>3. \A d \in Efds : batch[d] = {}
    BY <2>1 DEF IInv, KernelPointers
  <2>4. ASSUME NEW f \in Fds, reg[f] # NoEfd, "IN" \in level[f], ~edge'[f]
        PROVE  Seen(f)'
    <3>1. reg[f] \in Efds
      BY <2>4, Watched
    <3>2. CASE f \in R
      <4>1. level[f] \subseteq batch'[reg[f]]
        BY <2>2, <3>1, <3>2
      <4> QED BY <2>1, <2>4, <4>1 DEF Seen
    <3>3. CASE f \notin R
      <4>1. ~edge[f]
        BY <2>2, <2>4, <3>3 DEF Ready
      <4>2. "IN" \in efd[reg[f]].revents /\ Queued(reg[f])
        BY <2>3, <2>4, <3>1, <4>1 DEF NoLostReadiness
      <4> QED BY <2>1, <4>2 DEF Seen, Queued
    <3> QED BY <3>2, <3>3
  <2> QED BY <2>1, <2>4, ReadyFrame
<1>4. CASE \E d \in Efds : QueueEvent(d)
  <2>1. PICK d \in Efds : QueueEvent(d)
    BY <1>4
  <2>2. /\ UNCHANGED <<level, edge, reg>> /\ batch' = [batch EXCEPT ![d] = {}]
        /\ \/ /\ efd[d].dispatched /\ UNCHANGED fd_list
              /\ efd' = [efd EXCEPT ![d].revents = @ \cup batch[d]]
           \/ /\ ~efd[d].dispatched /\ fd_list' = InsertSorted(d)
              /\ efd' = [efd EXCEPT ![d] = Dispatched(d)]
    BY <2>1 DEF QueueEvent, kernel
  <2>3. \A e \in Efds : e # d => efd'[e] = efd[e] /\ batch'[e] = batch[e]
    BY <1>1, <2>2
  <2>4. efd'[d].revents = efd[d].revents \cup batch[d]
    <3>1. CASE efd' = [efd EXCEPT ![d].revents = @ \cup batch[d]]
      BY <1>1, <3>1 DEF EfdRecord
    <3>2. CASE efd' = [efd EXCEPT ![d] = Dispatched(d)]
      <4>1. efd'[d] = Dispatched(d) /\ efd[d] \in EfdRecord
        BY <1>1, <3>2
      <4> QED BY <4>1 DEF Dispatched, EfdRecord
    <3> QED BY <2>2, <3>1, <3>2
  <2>5. Queued(d)' /\ \A e \in Efds : Queued(e) => Queued(e)'
    <3>1. CASE efd[d].dispatched /\ UNCHANGED fd_list
      BY <3>1 DEF IInv, QueueExact, Queued
    <3>2. CASE ~efd[d].dispatched /\ fd_list' = InsertSorted(d)
      <4>1. /\ ~Queued(d)
            /\ \A i, j \in 1..Len(fd_list) : fd_list[i] = fd_list[j] => i = j
        BY <3>2 DEF IInv, QueueExact
      <4>2. \A e : (\E i \in 1..Len(fd_list') : fd_list'[i] = e) <=> e = d \/ Queued(e)
        BY <1>1, <3>2, <4>1, InsertFacts
      <4> QED BY <4>2 DEF Queued
    <3> QED BY <2>2, <3>1, <3>2
  <2> SUFFICES ASSUME NEW f \in Fds, reg[f] # NoEfd, Seen(f) PROVE Seen(f)'
    BY <2>2, ReadyFrame
  <2>6. reg[f] \in Efds
    BY Watched
  <2>7. CASE reg[f] = d
    BY <2>2, <2>4, <2>5, <2>7 DEF Seen
  <2>8. CASE reg[f] # d
    BY <2>2, <2>3, <2>5, <2>6, <2>8 DEF Seen
  <2> QED BY <2>7, <2>8
<1>5. CASE DispatchSkip
  <2> DEFINE d == Head(fd_list)
  <2>1. fd_list # <<>> /\ UNCHANGED <<batch, level, edge, reg>> /\ d \in Efds
    BY <1>5, HeadFacts DEF DispatchSkip, kernel
  <2>2. CASE FinishHead(efd, d)
    BY <2>1, <2>2, ReadyFinish
  <2>3. CASE FinishHead(Consumed(d), d) /\ "IN" \notin level[efd[d].fd]
    <3> DEFINE h == Consumed(d)
    <3>1. (\A e \in Efds : e # d => h[e] = efd[e]) /\ h[d].source = efd[d].source
      <4> HIDE DEF d
      <4> QED BY <2>1, ConsumedSource
    <3>2. \A f \in Fds : reg[f] # NoEfd /\ "IN" \in level[f] => reg[f] # d
      BY <2>3, Watched
    <3> HIDE DEF h, d
    <3> QED BY <2>1, <2>3, <3>1, <3>2, ReadyFinish DEF h, d
  <2> QED BY <1>5, <2>2, <2>3 DEF DispatchSkip
<1>6. CASE DispatchCallback
  <2> DEFINE d == Head(fd_list)
             f == efd[d].fd
  <2>1. /\ d \in Efds /\ UNCHANGED <<fd_list, batch, edge, reg>>
    BY <1>6, HeadFacts DEF DispatchCallback
  <2>2. \/ efd' = efd /\ level' \in {level, [level EXCEPT ![f] = @ \ {"IN"}]}
        \/ efd' = Consumed(d) /\ level' = [level EXCEPT ![f] = @ \ {"IN"}]
    BY <1>6 DEF DispatchCallback
  <2> SUFFICES ASSUME NEW g \in Fds, reg[g] # NoEfd, "IN" \in level'[g]
               PROVE  "IN" \in level[g] /\ efd'[reg[g]] = efd[reg[g]]
    BY <2>1, ReadyFrame DEF Seen, Queued
  <2>3. reg[g] \in Efds /\ efd[reg[g]].fd = g
    BY Watched
  <2>4. "IN" \in level[g] /\ (level' # level => g # f)
    <3> HIDE DEF f
    <3> QED BY <1>1, <2>2
  <2>5. efd'[reg[g]] = efd[reg[g]]
    <3>1. CASE efd' = efd
      BY <3>1
    <3>2. CASE efd' = Consumed(d) /\ level' = [level EXCEPT ![f] = @ \ {"IN"}]
      <4>1. g # f
        <5> HIDE DEF f
        <5> QED BY <1>1, <3>2
      <4>2. reg[g] # d
        BY <2>3, <4>1
      <4> HIDE DEF d, f
      <4> QED BY <2>3, <3>2, <4>2, ConsumedSource
    <3> QED BY <2>2, <3>1, <3>2
  <2> QED BY <2>4, <2>5
<1> QED BY <1>2, <1>3, <1>4, <1>5, <1>6 DEF LoopStep

LEMMA ReadyStep ==
  ASSUME AfterRemoval = {}, IInv, Wired, NoLostReadiness, [Next]_vars
  PROVE  NoLostReadiness'
<1> USE ConstantsAssumption
<1>1. CASE UNCHANGED vars
  BY <1>1 DEF vars, NoLostReadiness, Queued
<1> SUFFICES ASSUME Next PROVE NoLostReadiness'
  BY <1>1
<1>2. /\ Intact /\ level \in [Fds -> SUBSET Events] /\ edge \in [Fds -> BOOLEAN]
  BY DEF Next, IInv, TypeOK
<1>3. CASE SourceCall
  BY <1>2, <1>3, ReadyCalls
<1>4. CASE LoopCall
  <2>1. CASE Quit \/ LoopRef \/ Run \/ (LoopUnref /\ lref > 1)
    <3>1. UNCHANGED <<efd, fd_list, batch, level, edge, reg>>
      BY <2>1 DEF Quit, LoopRef, Run, LoopUnref, heap, control, kernel
    <3> QED BY <3>1 DEF NoLostReadiness, Queued
  <2>2. CASE LoopUnref /\ ~(lref > 1)
    <3>1. LoopDelFds(Fds)
      BY <2>2 DEF LoopUnref
    <3> QED BY <3>1 DEF LoopDelFds, NoLostReadiness
  <2>3. CASE \E f \in Fds : CloseFd(f)
    <3>1. PICK f \in Fds : CloseFds({f}) /\ LoopDelFds({f}) /\ UNCHANGED <<efd, fd_list, batch>>
      BY <2>3 DEF CloseFd, heap, control
    <3> QED BY <3>1, ReadyForget, LevelShrinks
  <2> QED BY <1>4, <2>1, <2>2, <2>3 DEF LoopCall
<1>5. CASE LoopStep
  BY <1>2, <1>5, ReadyLoop
<1>6. CASE Callback
  BY <1>2, <1>6, ReadyCallback
<1>7. CASE World
  <2>1. PICK f \in Fds, E \in SUBSET Events : Happens(f, E)
    <3>1. {"IN"} \in SUBSET Events /\ {"HUP"} \in SUBSET Events
          /\ {"IN", "HUP"} \in SUBSET Events
      BY DEF Events
    <3> QED BY <1>7, <3>1 DEF World, Arrive, HangUp, Expire
  <2>2. /\ UNCHANGED <<efd, fd_list, batch, reg>>
        /\ reg[f] # NoEfd => edge'[f]
        /\ \A g \in Fds : g # f => level'[g] = level[g] /\ edge'[g] = edge[g]
    BY <1>2, <2>1 DEF Happens, heap, control
  <2> QED BY <2>2 DEF NoLostReadiness, Queued
<1> QED BY <1>3, <1>4, <1>5, <1>6, <1>7 DEF Next

-----------------------------------------------------------------------------
(* HighestFirst, for a program that does not change the priority of a      *)
(* source while one of its descriptors is queued.                          *)
PrioBounded == \A s \in Sources : src[s].prio <= MaxPrio

LEMMA PrioNumbers == MinPrio \in Int /\ MaxPrio \in Int /\ 0 <= MaxPrio /\ MinPrio <= MaxPrio
  BY SMT DEF MinPrio, MaxPrio

(* A priority changes when its source is made or freed, or by the call.    *)
LEMMA Priorities ==
  ASSUME AfterRemoval = {}, IInv, [Next]_vars
  PROVE  \A s \in Sources :
           \/ src'[s].prio = src[s].prio
           \/ src'[s] = FreeSrc
           \/ src[s].ref = 0 /\ src'[s].prio \in {0, MinPrio}
           \/ \E p \in Prios : SetPriority(s, p) /\ src'[s].prio = p
<1> DEFINE Step(t) == \/ src'[t].prio = src[t].prio
                      \/ src'[t] = FreeSrc
                      \/ src[t].ref = 0 /\ src'[t].prio \in {0, MinPrio}
                      \/ \E p \in Prios : SetPriority(t, p) /\ src'[t].prio = p
<1>1. src \in [Sources -> SourceRecord] /\ \A s \in Sources : src[s] \in SourceRecord
  BY DEF IInv, TypeOK
<1>2. ASSUME NEW s \in Sources, NEW h, NEW F, UnrefSource(s, h, F)
      PROVE  \A t \in Sources : Step(t)
  <2>1. src' = [src EXCEPT ![s] = IF LastRef(s) THEN FreeSrc ELSE OneLess(s)]
    BY <1>2 DEF UnrefSource
  <2>2. OneLess(s).prio = src[s].prio
    BY <1>1 DEF OneLess, SourceRecord
  <2> QED BY <1>1, <2>1, <2>2
<1>3. CASE src' = src
  BY <1>3
<1> SUFFICES ASSUME Next, src' # src PROVE \A t \in Sources : Step(t)
  BY <1>3 DEF vars
<1>4. CASE SourceCall
  <2>1. PICK s \in Sources :
            \/ SourceNew(s) \/ SourceRef(s) \/ SourceUnref(s)
            \/ AddSource(s) \/ DelSource(s)
            \/ \E p \in Prios : SetPriority(s, p)
            \/ \E f \in Fds : AddFd(s, f) \/ DelFd(s, f)
    BY <1>4 DEF SourceCall
  <2>2. CASE SourceNew(s)
    <3>1. \E p \in {0, MinPrio} : \E l : src' = [src EXCEPT ![s] = NewSrc(p, l)]
      BY <2>2 DEF SourceNew
    <3>2. src[s].ref = 0
      BY <2>2 DEF SourceNew
    <3> QED BY <1>1, <3>1, <3>2 DEF NewSrc
  <2>3. CASE SourceUnref(s) \/ DelSource(s)
    BY <1>2, <2>3 DEF SourceUnref, DelSource, DeleteSource
  <2>4. CASE SourceRef(s) \/ \E f \in Fds : AddFd(s, f) \/ DelFd(s, f)
    <3>1. CASE SourceRef(s)
      <4>1. src' = [src EXCEPT ![s].ref = @ + 1]
        BY <3>1 DEF SourceRef
      <4> QED BY <1>1, <4>1 DEF SourceRecord
    <3>2. CASE \E f \in Fds : AddFd(s, f) \/ DelFd(s, f)
      BY <3>2, OnlyTheList
    <3> QED BY <2>4, <3>1, <3>2
  <2>5. CASE AddSource(s)
    <3>1. src' = [src EXCEPT ![s].loop = TRUE, ![s].ref = @ + 1]
      BY <2>5 DEF AddSource
    <3> QED BY <1>1, <3>1 DEF SourceRecord
  <2>6. CASE \E p \in Prios : SetPriority(s, p)
    <3>1. PICK p \in Prios : SetPriority(s, p) /\ src' = [src EXCEPT ![s].prio = p]
      BY <2>6 DEF SetPriority
    <3>2. src'[s].prio = p /\ \A t \in Sources : t # s => src'[t] = src[t]
      BY <1>1, <3>1 DEF SourceRecord
    <3> QED BY <3>1, <3>2
  <2> QED BY <2>1, <2>2, <2>3, <2>4, <2>5, <2>6
<1>5. CASE LoopCall
  <2>1. \A s \in Sources : src'[s] \in {FreeSrc, OneLess(s), src[s]}
    BY <1>5 DEF LoopCall, Quit, LoopRef, LoopUnref, Run, CloseFd, heap
  <2>2. \A s \in Sources : OneLess(s).prio = src[s].prio
    BY <1>1 DEF OneLess, SourceRecord
  <2> QED BY <2>1, <2>2
<1>6. CASE LoopStep
  BY <1>6 DEF LoopStep, EpollWait, WaitInterrupted, QueueEvent, QueueDone,
       DispatchNothing, DispatchSkip, DispatchCallback, heap
<1>7. CASE Callback
  <2>1. ReturnFalse /\ efd[cur].source # NoSource
    BY <1>7 DEF Callback, ReadFd, ReturnTrue, ReturnFalse
  <2>2. efd[cur].source \in Sources
    BY <2>1, CurFacts DEF ReturnFalse
  <2> QED BY <1>2, <2>1, <2>2 DEF ReturnFalse, DeleteSource
<1>8. CASE World
  BY <1>8 DEF World, Arrive, HangUp, Expire, Happens, heap
<1> QED BY <1>4, <1>5, <1>6, <1>7, <1>8 DEF Next

LEMMA PrioBoundedStep ==
  ASSUME AfterRemoval = {}, IInv, PrioBounded, [Next]_vars
  PROVE  PrioBounded'
<1> SUFFICES ASSUME NEW s \in Sources PROVE src'[s].prio <= MaxPrio
  BY DEF PrioBounded
<1>1. src[s].prio <= MaxPrio
  BY DEF PrioBounded
<1>2. FreeSrc.prio = 0
  BY DEF FreeSrc
<1>3. src'[s].prio \in {src[s].prio, 0, MinPrio} \cup Prios
  BY <1>2, Priorities
<1> QED BY <1>1, <1>3, PriorityAssumption, PrioNumbers

(* An entry that keeps its source keeps its priority.                      *)
LEMMA EntriesKeep ==
  ASSUME AfterRemoval = {}, LatePriority = FALSE, IInv, IInv', [Next]_vars,
         NEW d \in Efds, Queued(d), efd'[d].source # NoSource
  PROVE  /\ efd'[d].source = efd[d].source
         /\ src'[efd[d].source].prio = src[efd[d].source].prio
<1> USE ConstantsAssumption
<1> DEFINE s == efd[d].source
<1>1. efd[d].dispatched /\ efd[d].ref # 0
  <2>1. efd[d].dispatched
    BY DEF IInv, QueueExact
  <2> QED BY <2>1 DEF IInv, FreedClean, FreeEfd
<1>2. efd \in [Efds -> EfdRecord] /\ efd' \in [Efds -> EfdRecord]
  BY DEF IInv, TypeOK
<1>3. efd'[d].source = s
  <2>1. CASE \A e \in Efds : Same(e)
    BY <2>1 DEF Same
  <2>2. CASE \E t \in Sources, f \in Fds, e \in Efds : Made(e, t, f)
    <3>1. PICK e \in Efds : \E o : efd[e].ref = 0 /\ efd' = [efd EXCEPT ![e] = o]
      BY <2>2 DEF Made
    <3> QED BY <1>1, <1>2, <3>1
  <2> QED BY <2>1, <2>2, Objects
<1>4. s \in Sources /\ d \in FdsOf(s) /\ d \in ToSet(src'[s].fds)
  <2>1. s \in Sources
    BY <1>2, <1>3 DEF EfdRecord
  <2>2. d \in FdsOf(s)
    BY <2>1 DEF IInv, Linked
  <2>3. d \in ToSet(src'[s].fds)
    BY <1>3, <2>1 DEF IInv, Linked, FdsOf
  <2> QED BY <2>1, <2>2, <2>3
<1>5. src'[s] # FreeSrc /\ src[s].ref # 0
  BY <1>4, EmptyList DEF IInv, FreedClean, FreeSrc, FdsOf
<1>6. \A p \in Prios : ~SetPriority(s, p)
  BY <1>4 DEF SetPriority
<1> QED BY <1>3, <1>4, <1>5, <1>6, Priorities

(* The priority of the object e after the step.                            *)
PriorityNext(e) ==
  IF efd'[e].source = NoSource THEN MaxPrio ELSE src'[efd'[e].source].prio

LEMMA SortedNext ==
  ASSUME \A i, j \in 1..Len(fd_list') :
           i < j /\ efd'[fd_list'[i]].source # NoSource
                 /\ efd'[fd_list'[j]].source # NoSource
             => PriorityNext(fd_list'[i]) >= PriorityNext(fd_list'[j])
  PROVE  HighestFirst'
BY DEF HighestFirst, Priority, PriorityNext

LEMMA SortedFrame ==
  ASSUME IInv, HighestFirst, fd_list' \in {fd_list, <<>>} \/ (fd_list # <<>> /\ fd_list' = Tail(fd_list)),
         \A d \in Efds : Queued(d) /\ efd'[d].source # NoSource =>
           /\ efd'[d].source = efd[d].source
           /\ src'[efd[d].source].prio = src[efd[d].source].prio
  PROVE  HighestFirst'
<1>1. fd_list \in Seq(Efds) /\ Len(fd_list) \in Nat
  BY DEF IInv, TypeOK
<1>2. PICK k \in {0, 1} : /\ Len(fd_list') \in Nat /\ Len(fd_list') + k <= Len(fd_list)
                          /\ \A i \in 1..Len(fd_list') : fd_list'[i] = fd_list[i + k]
  <2>1. CASE fd_list' = fd_list
    BY <1>1, <2>1
  <2>2. CASE fd_list' = <<>>
    <3>1. Len(fd_list') = 0
      BY <2>2
    <3> QED BY <1>1, <3>1
  <2>3. CASE fd_list # <<>> /\ fd_list' = Tail(fd_list)
    <3>1. /\ Len(fd_list') = Len(fd_list) - 1 /\ Len(fd_list) # 0
          /\ \A i \in 1..Len(fd_list') : fd_list'[i] = fd_list[i + 1]
      BY <1>1, <2>3, HeadTailProperties, EmptySeq
    <3> QED BY <1>1, <3>1
  <2> QED BY <2>1, <2>2, <2>3
<1> SUFFICES ASSUME NEW i \in 1..Len(fd_list'), NEW j \in 1..Len(fd_list'), i < j,
                    efd'[fd_list'[i]].source # NoSource,
                    efd'[fd_list'[j]].source # NoSource
             PROVE  PriorityNext(fd_list'[i]) >= PriorityNext(fd_list'[j])
  BY SortedNext
<1> DEFINE a == fd_list[i + k]
           b == fd_list[j + k]
<1>3. /\ i + k \in 1..Len(fd_list) /\ j + k \in 1..Len(fd_list) /\ i + k < j + k
      /\ fd_list'[i] = a /\ fd_list'[j] = b
  <2>1. fd_list'[i] = a /\ fd_list'[j] = b
    BY <1>2
  <2>2. PICK m \in Nat, n \in Nat :
          m = Len(fd_list') /\ n = Len(fd_list) /\ m + k <= n
    BY <1>1, <1>2
  <2>3. i \in 1..m /\ j \in 1..m
    BY <2>2
  <2>4. i + k \in 1..n /\ j + k \in 1..n /\ i + k < j + k
    BY <2>2, <2>3
  <2> QED BY <2>1, <2>2, <2>4
<1>4. a \in Efds /\ b \in Efds /\ Queued(a) /\ Queued(b)
  BY <1>1, <1>3 DEF Queued
<1>5. /\ efd'[a].source = efd[a].source /\ efd'[b].source = efd[b].source
      /\ efd[a].source # NoSource /\ efd[b].source # NoSource
      /\ src'[efd[a].source].prio = src[efd[a].source].prio
      /\ src'[efd[b].source].prio = src[efd[b].source].prio
  <2>1. efd'[a].source # NoSource /\ efd'[b].source # NoSource
    BY <1>3
  <2> HIDE DEF a, b
  <2> QED BY <1>4, <2>1
<1>6. Priority(a) >= Priority(b)
  BY <1>3, <1>5 DEF HighestFirst
<1> QED BY <1>3, <1>5, <1>6 DEF Priority, PriorityNext

(* The scan stops in front of an entry that has a source: a dead one has   *)
(* the highest priority there is.                                          *)
LEMMA SortedInsert ==
  ASSUME IInv, HighestFirst, PrioBounded, NEW d \in Efds, efd[d].source # NoSource
  PROVE  LET l == InsertSorted(d)
         IN \A i, j \in 1..Len(l) :
              i < j /\ efd[l[i]].source # NoSource /\ efd[l[j]].source # NoSource
                => Priority(l[i]) >= Priority(l[j])
<1> USE ConstantsAssumption
<1> DEFINE n == Len(fd_list)
           l == InsertSorted(d)
<1>1. n \in Nat /\ fd_list \in Seq(Efds) /\ \A i \in 1..n : fd_list[i] \in Efds
  BY DEF IInv, TypeOK
<1>2. PICK at \in 0..n :
        /\ l = [i \in 1..(n + 1) |-> IF i <= at THEN fd_list[i]
                                     ELSE IF i = at + 1 THEN d ELSE fd_list[i - 1]]
        /\ \A i \in 1..at : Priority(fd_list[i]) >= Priority(d)
        /\ at < n => ~(Priority(fd_list[at + 1]) >= Priority(d))
  BY <1>1, InsertPlace
<1>3. \A e \in Efds : Priority(e) \in Int /\ Priority(e) <= MaxPrio
  <2> TAKE e \in Efds
  <2>1. CASE efd[e].source = NoSource
    BY <2>1, PrioNumbers DEF Priority
  <2>2. CASE efd[e].source # NoSource
    <3>1. efd[e].source \in Sources
      BY <2>2 DEF IInv, TypeOK, EfdRecord
    <3>2. src[efd[e].source].prio \in Int
      BY <3>1 DEF IInv, TypeOK, SourceRecord
    <3> QED BY <2>2, <3>1, <3>2 DEF Priority, PrioBounded
  <2> QED BY <2>1, <2>2
<1>4. at < n => efd[fd_list[at + 1]].source # NoSource
                /\ Priority(fd_list[at + 1]) < Priority(d)
  <2> SUFFICES ASSUME at < n
               PROVE  efd[fd_list[at + 1]].source # NoSource
                      /\ Priority(fd_list[at + 1]) < Priority(d)
    OBVIOUS
  <2>1. fd_list[at + 1] \in Efds
    BY <1>1, <1>2
  <2>2. Priority(fd_list[at + 1]) < Priority(d)
    BY <1>2, <1>3, <2>1
  <2>3. Priority(fd_list[at + 1]) # MaxPrio
    BY <1>3, <2>1, <2>2, PrioNumbers
  <2> QED BY <2>2, <2>3 DEF Priority
<1>5. \A i, j \in 1..n :
        i < j /\ efd[fd_list[i]].source # NoSource /\ efd[fd_list[j]].source # NoSource
          => Priority(fd_list[i]) >= Priority(fd_list[j])
  BY DEF HighestFirst
<1>6. \A k \in (at + 1)..n : efd[fd_list[k]].source # NoSource
                               => Priority(d) >= Priority(fd_list[k])
  <2> SUFFICES ASSUME NEW k \in (at + 1)..n, efd[fd_list[k]].source # NoSource
               PROVE  Priority(d) >= Priority(fd_list[k])
    OBVIOUS
  <2>1. at < n /\ at + 1 \in 1..n /\ k \in 1..n
    BY <1>1, <1>2
  <2>2. k = at + 1 \/ at + 1 < k
    BY <1>1, <1>2
  <2>3. k = at + 1 \/ Priority(fd_list[at + 1]) >= Priority(fd_list[k])
    BY <1>4, <1>5, <2>1, <2>2
  <2>4. /\ Priority(d) \in Int /\ Priority(fd_list[at + 1]) \in Int
        /\ Priority(fd_list[k]) \in Int /\ Priority(fd_list[at + 1]) < Priority(d)
    BY <1>1, <1>3, <1>4, <2>1
  <2> QED BY <2>3, <2>4
<1> HIDE DEF l
<1>7. Len(l) = n + 1
  BY <1>1, <1>2
<1> SUFFICES ASSUME NEW i \in 1..(n + 1), NEW j \in 1..(n + 1), i < j,
                    efd[l[i]].source # NoSource, efd[l[j]].source # NoSource
             PROVE  Priority(l[i]) >= Priority(l[j])
  BY <1>7 DEF l
<1>8. /\ l[i] = IF i <= at THEN fd_list[i] ELSE IF i = at + 1 THEN d ELSE fd_list[i - 1]
      /\ l[j] = IF j <= at THEN fd_list[j] ELSE IF j = at + 1 THEN d ELSE fd_list[j - 1]
  BY <1>2
<1>9. CASE i <= at /\ j <= at
  <2>1. i \in 1..n /\ j \in 1..n /\ l[i] = fd_list[i] /\ l[j] = fd_list[j]
    BY <1>1, <1>2, <1>8, <1>9
  <2> QED BY <1>5, <2>1
<1>10. CASE i <= at /\ j = at + 1
  <2>1. i \in 1..at /\ l[i] = fd_list[i] /\ l[j] = d
    BY <1>1, <1>2, <1>8, <1>10
  <2> QED BY <1>2, <2>1
<1>11. CASE i <= at /\ j > at + 1
  <2>1. /\ i \in 1..n /\ j - 1 \in 1..n /\ i < j - 1
        /\ l[i] = fd_list[i] /\ l[j] = fd_list[j - 1]
    BY <1>1, <1>2, <1>8, <1>11
  <2> QED BY <1>5, <2>1
<1>12. CASE i = at + 1
  <2>1. j - 1 \in (at + 1)..n /\ l[i] = d /\ l[j] = fd_list[j - 1]
    BY <1>1, <1>2, <1>8, <1>12
  <2> QED BY <1>6, <2>1
<1>13. CASE i > at + 1
  <2>1. /\ i - 1 \in 1..n /\ j - 1 \in 1..n /\ i - 1 < j - 1
        /\ l[i] = fd_list[i - 1] /\ l[j] = fd_list[j - 1]
    BY <1>1, <1>2, <1>8, <1>13
  <2> QED BY <1>5, <2>1
<1> QED BY <1>1, <1>2, <1>9, <1>10, <1>11, <1>12, <1>13

LEMMA SortedStep ==
  ASSUME AfterRemoval = {}, LatePriority = FALSE, IInv, IInv', PrioBounded,
         HighestFirst, [Next]_vars
  PROVE  HighestFirst'
<1> USE ConstantsAssumption
<1>1. \A d \in Efds : Queued(d) /\ efd'[d].source # NoSource =>
           /\ efd'[d].source = efd[d].source
           /\ src'[efd[d].source].prio = src[efd[d].source].prio
  BY EntriesKeep
<1>2. CASE \E d \in Efds : QueueEvent(d) /\ fd_list' # fd_list
  <2>1. PICK d \in Efds : QueueEvent(d) /\ fd_list' # fd_list
    BY <1>2
  <2>2. /\ pc = "queue" /\ batch[d] # {} /\ src' = src
        /\ ~efd[d].dispatched /\ fd_list' = InsertSorted(d)
        /\ efd' = [efd EXCEPT ![d] = Dispatched(d)]
    BY <2>1 DEF QueueEvent
  <2>3. efd \in [Efds -> EfdRecord] /\ efd[d] \in EfdRecord /\ fd_list' \in Seq(Efds)
    BY DEF IInv, TypeOK
  <2>4. efd[d].source # NoSource
    <3>1. efd[d].fd # NoFd /\ reg[efd[d].fd] = d
      BY <2>2 DEF IInv, KernelPointers
    <3>2. efd[d].fd \in Fds /\ d # NoEfd
      BY <2>3, <3>1 DEF EfdRecord
    <3> QED BY <3>1, <3>2, Watched
  <2>5. \A e \in Efds : efd'[e].source = efd[e].source
    <3>1. Dispatched(d).source = efd[d].source
      BY <2>3 DEF Dispatched, EfdRecord
    <3> QED BY <2>2, <2>3, <3>1
  <2>6. \A e \in Efds : PriorityNext(e) = Priority(e)
    BY <2>2, <2>5 DEF Priority, PriorityNext
  <2>7. \A i, j \in 1..Len(fd_list') :
              i < j /\ efd[fd_list'[i]].source # NoSource /\ efd[fd_list'[j]].source # NoSource
                => Priority(fd_list'[i]) >= Priority(fd_list'[j])
    BY <2>2, <2>4, SortedInsert
  <2>8. \A i \in 1..Len(fd_list') : fd_list'[i] \in Efds
    BY <2>3
  <2>9. \A i \in 1..Len(fd_list') :
          /\ efd'[fd_list'[i]].source = efd[fd_list'[i]].source
          /\ PriorityNext(fd_list'[i]) = Priority(fd_list'[i])
    BY <2>5, <2>6, <2>8
  <2> QED BY <2>7, <2>9, SortedNext
<1>3. CASE ~\E d \in Efds : QueueEvent(d) /\ fd_list' # fd_list
  <2>1. fd_list' \in {fd_list, <<>>} \/ (fd_list # <<>> /\ fd_list' = Tail(fd_list))
    <3>1. CASE SourceCall \/ LoopCall \/ World
      BY <3>1 DEF SourceCall, SourceNew, SourceRef, SourceUnref, AddSource, DelSource,
           SetPriority, AddFd, DelFd, LoopCall, Quit, LoopRef, LoopUnref, Run, CloseFd,
           World, Arrive, HangUp, Expire, Happens
    <3>2. CASE LoopStep
      BY <1>3, <3>2 DEF LoopStep, EpollWait, WaitInterrupted, QueueDone,
           DispatchNothing, DispatchSkip, DispatchCallback, FinishHead
    <3>3. CASE Callback
      <4>1. fd_list # <<>>
        BY <3>3, CurFacts DEF Callback, ReadFd, ReturnTrue, ReturnFalse
      <4> QED BY <3>3, <4>1 DEF Callback, ReadFd, ReturnTrue, ReturnFalse, FinishHead
    <3> QED BY <3>1, <3>2, <3>3 DEF Next, vars
  <2> QED BY <1>1, <2>1, SortedFrame
<1> QED BY <1>2, <1>3

-----------------------------------------------------------------------------
(* The theorems.                                                           *)
LEMMA WorkInit == Init => WInv /\ PrioBounded /\ HighestFirst
<1> SUFFICES ASSUME Init PROVE WInv /\ PrioBounded /\ HighestFirst
  OBVIOUS
<1>1. Wired /\ Drained /\ TimersOwned
  BY DEF Init, Wired, Drained, TimersOwned, FreeEfd
<1>2. NoLostReadiness /\ Rearmed
  BY DEF Init, NoLostReadiness, Rearmed
<1>3. PrioBounded
  BY PrioNumbers DEF Init, PrioBounded, FreeSrc
<1>4. HighestFirst
  BY EmptySeq DEF Init, HighestFirst
<1> QED BY <1>1, <1>2, <1>3, <1>4, InitInv DEF WInv

(* WInv is inductive: the loop's debts, on top of its invariant.           *)
THEOREM WorkInvariance == ASSUME AfterRemoval = {} PROVE Spec => []WInv
<1>1. Init => WInv
  BY WorkInit
<1>2. WInv /\ [Next]_vars => WInv'
  BY NextInv, WiredStep, DrainedStep, TimersStep, ReadyStep, RearmedStep DEF WInv
<1> QED BY <1>1, <1>2, PTL DEF Spec

(* Edge triggered, yet nothing is lost: what can be read is on the kernel's *)
(* ready list, in the array of events, or queued with IN recorded.         *)
THEOREM ReadinessKept == ASSUME AfterRemoval = {} PROVE Spec => []NoLostReadiness
<1>1. Spec => []WInv
  BY WorkInvariance
<1>2. WInv => NoLostReadiness
  BY DEF WInv
<1> QED BY <1>1, <1>2, PTL

(* epoll_wait is called without a timeout only when nothing is queued and  *)
(* every readable descriptor will end the wait.                            *)
THEOREM SleepsOnNoWork == ASSUME AfterRemoval = {} PROVE Spec => []NeverSleepsOnWork
<1>1. Spec => []WInv
  BY WorkInvariance
<1>2. WInv => NeverSleepsOnWork
  <2> SUFFICES ASSUME WInv, pc = "wait", timeout = -1
               PROVE  /\ fd_list = <<>>
                      /\ \A f \in Fds : reg[f] # NoEfd /\ "IN" \in level[f] => edge[f]
    BY DEF NeverSleepsOnWork
  <2>1. fd_list = <<>>
    BY DEF WInv, Drained
  <2>2. \A d : ~Queued(d)
    BY <2>1, EmptySeq DEF Queued
  <2>3. \A f \in Fds : reg[f] # NoEfd => batch[reg[f]] = {}
    BY WatchedCell DEF WInv, IInv, KernelPointers
  <2> QED BY <2>1, <2>2, <2>3 DEF WInv, NoLostReadiness
<1> QED BY <1>1, <1>2, PTL

(* A timeout or idle source in the loop has its clock running, its event   *)
(* pending, or its callback on the way to rearm it.                        *)
THEOREM AlwaysRearmed == ASSUME AfterRemoval = {} PROVE Spec => []Rearmed
<1>1. Spec => []WInv
  BY WorkInvariance
<1>2. WInv => Rearmed
  BY DEF WInv
<1> QED BY <1>1, <1>2, PTL

(* When the loop is gone and the program let go of every source, nothing   *)
(* is left: no source, no descriptor object, no timer; unless the list of  *)
(* a source was no longer Intact, so that it could not be finalized.       *)
THEOREM NothingLeaks == ASSUME AfterRemoval = {} PROVE Spec => []NoLeak
<1>1. Spec => []WInv
  BY WorkInvariance
<1>2. WInv => NoLeak
  <2> SUFFICES ASSUME WInv, pc = "freed", \A s \in Sources : uref[s] = 0
               PROVE  /\ \A s \in Sources : src[s] = FreeSrc
                      /\ \A d \in Efds : efd[d] = FreeEfd
                      /\ armed = {}
    BY DEF NoLeak
  <2>1. sources = {} /\ fd_list = <<>>
    BY DEF WInv, Drained
  <2>2. \A s \in Sources : src[s].ref = 0 /\ src[s] = FreeSrc
    <3>1. \A s \in Sources : src[s].ref = 0
      BY <2>1 DEF WInv, IInv, CountsExact
    <3> QED BY <3>1 DEF WInv, IInv, FreedClean
  <2>3. \A d \in Efds : efd[d] = FreeEfd
    <3> TAKE d \in Efds
    <3>1. ~efd[d].dispatched
      BY <2>1, EmptySeq DEF WInv, IInv, QueueExact, Queued
    <3>2. efd[d].source = NoSource
      <4>1. efd[d].source \in Sources => d \in FdsOf(efd[d].source)
        BY DEF WInv, IInv, Linked
      <4>2. efd[d].source \in Sources \cup {NoSource}
        BY DEF WInv, IInv, TypeOK, EfdRecord
      <4> QED BY <2>2, <4>1, <4>2, EmptyList DEF FreeSrc, FdsOf
    <3>3. efd[d].ref = 0
      BY <3>1, <3>2 DEF WInv, IInv, CountsExact
    <3> QED BY <3>3 DEF WInv, IInv, FreedClean
  <2>4. armed = {}
    BY <2>2 DEF WInv, TimersOwned
  <2> QED BY <2>2, <2>3, <2>4
<1> QED BY <1>1, <1>2, PTL

(* The head of fd_list has the highest priority of all entries that still  *)
(* have a source, if no priority changes under an entry.                   *)
THEOREM HighestIsFirst ==
  ASSUME AfterRemoval = {}, LatePriority = FALSE PROVE Spec => []HighestFirst
<1> DEFINE SInv == IInv /\ PrioBounded /\ HighestFirst
<1>1. Init => SInv
  BY WorkInit, InitInv
<1>2. SInv /\ [Next]_vars => SInv'
  BY NextInv, PrioBoundedStep, SortedStep
<1>3. SInv => HighestFirst
  OBVIOUS
<1> HIDE DEF SInv
<1> QED BY <1>1, <1>2, <1>3, PTL DEF Spec

=============================================================================
