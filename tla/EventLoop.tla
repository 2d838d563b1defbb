------------------------------ MODULE EventLoop ------------------------------
(***************************************************************************)
(* The event loop of hev-lib: hev-event-loop.c together with the objects   *)
(* it drives, the event sources (hev-event-source.c and the fds, timeout,  *)
(* signal and idle sources) and their descriptor objects                   *)
(* (hev-event-source-fd.h), on top of an edge triggered epoll instance.    *)
(*                                                                         *)
(* The library is single threaded.  "pc" says who has the processor: the   *)
(* program outside hev_event_loop_run ("user"), the loop in one of its     *)
(* phases, or a user callback the loop is dispatching ("callback").  User  *)
(* code may call the library in "user" and in "callback".  The kernel acts *)
(* at any time.                                                            *)
(***************************************************************************)
EXTENDS Integers, Sequences, FiniteSets, SequencesExt

CONSTANTS
  Sources,      \* HevEventSource objects
  Efds,         \* HevEventSourceFD objects (heap cells, reused once freed)
  Fds,          \* file descriptor numbers
  Kind,         \* Kind[s] \in {"fds", "timeout", "signal", "idle"}
  OwnFd,        \* OwnFd[s]: the timerfd, signalfd or eventfd s opens for itself
  Interval,     \* Interval[s]: interval of a timeout source, in milliseconds
  Prios,        \* priorities the program uses
  MaxEvents,    \* size of the array given to epoll_wait (256 in the code)
  MayRefuse,    \* TRUE: EPOLL_CTL_ADD may fail (ENOSPC, ENOMEM)
  MaxRefs,      \* bound: references the program takes on a source or the loop
  AfterRemoval, \* calls made on a source that already left the loop
  LatePriority, \* TRUE: priorities may change while a source is queued
  NoSource, NoEfd, NoFd   \* NULL pointers and "no descriptor"

Events == {"IN", "HUP"}

(* The events asked for with hev_event_source_add_fd; the kernel reports   *)
(* a hang-up whether asked or not.                                         *)
Interest == {"IN"}

UserFds == Fds \ {OwnFd[s] : s \in {t \in Sources : Kind[t] # "fds"}}

ASSUME ConstantsAssumption ==
  /\ Kind \in [Sources -> {"fds", "timeout", "signal", "idle"}]
  /\ OwnFd \in [Sources -> Fds]
  /\ \A s, t \in Sources : Kind[s] # "fds" /\ Kind[t] # "fds" /\ s # t
                              => OwnFd[s] # OwnFd[t]
  /\ Interval \in [Sources -> Nat]
  /\ Prios \subseteq Int /\ 0 \in Prios
  /\ MaxEvents \in Nat \ {0} /\ MayRefuse \in BOOLEAN /\ MaxRefs \in Nat \ {0}
  /\ AfterRemoval \subseteq {"del_source", "return_false", "add_fd"}
  /\ LatePriority \in BOOLEAN
  /\ NoSource \notin Sources /\ NoEfd \notin Efds /\ NoFd \notin Fds

(* INT32_MIN, the priority an idle source gives itself, and INT32_MAX, the *)
(* priority hev_event_source_get_priority reads from a NULL source.        *)
MinPrio == -2147483647 - 1
MaxPrio == 2147483647

(* A priority is an int.                                                   *)
ASSUME PriorityAssumption == \A p \in Prios : p <= MaxPrio

VARIABLES
  src,      \* src[s]: the fields of struct _HevEventSource the loop reads
  efd,      \* efd[d]: struct _HevEventSourceFD
  uref,     \* uref[s]: references on s the program holds
  run, sources, fd_list, lref,   \* struct _HevEventLoop (lref: ref_count)
  pc, timeout, batch, cur,       \* control state and locals of the loop
  level,    \* level[f]: what poll(f) would report now
  edge,     \* edge[f]: f is on the ready list of the epoll instance
  reg,      \* reg[f]: the data.ptr the kernel holds for f
  armed     \* timer descriptors whose timer is running

heap == <<src, efd, uref>>
kernel == <<level, edge, reg, armed>>
control == <<pc, timeout, batch, cur>>
vars == <<src, efd, uref, run, sources, fd_list, lref,
          pc, timeout, batch, cur, level, edge, reg, armed>>

(* fds is the list of descriptor objects, the newest first; wild says that *)
(* the pointer to it was read from a node given back, and may be anything. *)
FreeSrc == [ref |-> 0, loop |-> FALSE, prio |-> 0, fds |-> <<>>, wild |-> FALSE]
FreeEfd == [ref |-> 0, fd |-> NoFd, revents |-> {}, dispatched |-> FALSE,
            source |-> NoSource]

(* hev_event_source_new and _hev_event_source_fd_new.                      *)
NewSrc(p, l) == [ref |-> 1, loop |-> FALSE, prio |-> p, fds |-> l, wild |-> FALSE]
NewEfd(f, s) == [ref |-> 1, fd |-> f, revents |-> {}, dispatched |-> FALSE,
                 source |-> s]

Init ==
  /\ src = [s \in Sources |-> FreeSrc]
  /\ efd = [d \in Efds |-> FreeEfd]
  /\ uref = [s \in Sources |-> 0]
  /\ run = TRUE /\ sources = {} /\ fd_list = <<>> /\ lref = 1
  /\ pc = "user" /\ timeout = -1 /\ cur = NoEfd
  /\ batch = [d \in Efds |-> {}]
  /\ level = [f \in Fds |-> {}]
  /\ edge = [f \in Fds |-> FALSE]
  /\ reg = [f \in Fds |-> NoEfd]
  /\ armed = {}

-----------------------------------------------------------------------------
(* Who may call what.                                                      *)

UserTurn == pc \in {"user", "callback"}

(* A pointer the program may use: it holds a reference, or it knows the    *)
(* loop holds one (demos/echo-server.c gives its reference up at once).    *)
CanUse(s) == src[s].ref > 0 /\ (uref[s] > 0 \/ s \in sources)

(* The program took s out of the loop and still uses it.                   *)
Removed(s) == src[s].loop /\ s \notin sources

Queued(d) == \E i \in 1..Len(fd_list) : fd_list[i] = d

OwnFds(s) == IF Kind[s] = "fds" THEN {} ELSE {OwnFd[s]}
FdsOf(s) == ToSet(src[s].fds)
FdNums(s) == {efd[d].fd : d \in FdsOf(s)}

-----------------------------------------------------------------------------
(* The calls into epoll, the timer and the eventfd.                        *)

(* EPOLL_CTL_ADD: a descriptor that is already ready goes on the ready     *)
(* list at once.                                                           *)
LoopAddFd(f, d) ==
  /\ reg' = [reg EXCEPT ![f] = d]
  /\ edge' = [edge EXCEPT ![f] = level[f] # {}]

(* EPOLL_CTL_DEL, or close() of the descriptors themselves.                *)
LoopForgetFds(F) ==
  /\ UNCHANGED reg
  /\ edge' = [f \in Fds |-> f \notin F /\ edge[f]]

LoopDelFds(F) ==
  /\ reg' = [f \in Fds |-> IF f \in F THEN NoEfd ELSE reg[f]]
  /\ edge' = [f \in Fds |-> f \notin F /\ edge[f]]

CloseFds(F) ==
  /\ level' = [f \in Fds |-> IF f \in F THEN {} ELSE level[f]]
  /\ armed' = armed \ F

(* source->funcs.prepare: the idle source writes its eventfd, the timeout  *)
(* source restarts its timer, which forgets an expiration nobody read; an  *)
(* interval of zero disarms it.                                            *)
LevelUnprepared(s) == level

PreparedLevel(s) ==
  [f \in Fds |-> IF f \notin OwnFds(s) THEN level[f]
                 ELSE CASE Kind[s] = "idle" -> {"IN"}
                        [] Kind[s] = "timeout" -> {}
                        [] OTHER -> level[f]]

ArmedOnce(s) == IF pc = "callback" THEN armed ELSE armed \cup OwnFds(s)

PreparedArmed(s) ==
  IF Kind[s] # "timeout" THEN armed
  ELSE IF Interval[s] > 0 THEN armed \cup OwnFds(s) ELSE armed \ OwnFds(s)

Prepare(s) ==
  /\ level' = PreparedLevel(s)
  /\ armed' = PreparedArmed(s)
  /\ edge' = [f \in Fds |-> IF Kind[s] = "idle" /\ f \in OwnFds(s)
                             THEN reg[f] # NoEfd ELSE edge[f]]

-----------------------------------------------------------------------------
(* Reference counts of the objects.                                        *)

(* _hev_event_source_fd_unref frees the object with its last reference,    *)
(* whether its source or fd_list (f) held it.                              *)
FreesOfSource(r, f) == r = 0 /\ ~f

Frees(r, f) == r = 0

(* The object o with r references left after its source (u) or fd_list (f) *)
(* let it go.                                                              *)
KeptSource(o, r, u, f) ==
  [ref |-> r, fd |-> o.fd, revents |-> o.revents,
   dispatched |-> IF f THEN FALSE ELSE o.dispatched, source |-> o.source]

KeptMark(o, r, u, f) ==
  [ref |-> r, fd |-> o.fd, revents |-> o.revents,
   dispatched |-> o.dispatched, source |-> IF u THEN NoSource ELSE o.source]

Kept(o, r, u, f) ==
  [ref |-> r, fd |-> o.fd, revents |-> o.revents,
   dispatched |-> IF f THEN FALSE ELSE o.dispatched,
   source |-> IF u THEN NoSource ELSE o.source]

(* The descriptor objects of heap h after those in U lost their source     *)
(* (clear_source and the source's reference) and those in F left fd_list   *)
(* (dispatch_finish).  An object is freed with its last reference.         *)
Released(h, U, F) ==
  [d \in Efds |->
     LET r == h[d].ref - (IF d \in U THEN 1 ELSE 0) - (IF d \in F THEN 1 ELSE 0)
     IN IF d \notin U \cup F THEN h[d]
        ELSE IF Frees(r, d \in F) THEN FreeEfd
        ELSE Kept(h[d], r, d \in U, d \in F)]

(* hev_event_source_unref, with the descriptor objects F leaving fd_list   *)
(* in the same step: the last reference finalizes the source, which closes *)
(* its own descriptor, and lets go of its descriptor objects.              *)
LastRef(s) == src[s].ref = 1
OneLess(s) == [src[s] EXCEPT !.ref = @ - 1]

UnrefSource(s, h, F) ==
  /\ src' = [src EXCEPT ![s] = IF LastRef(s) THEN FreeSrc ELSE OneLess(s)]
  /\ efd' = Released(h, IF LastRef(s) THEN FdsOf(s) ELSE {}, F)
  /\ CloseFds(IF LastRef(s) THEN OwnFds(s) ELSE {})

-----------------------------------------------------------------------------
(* Sources: the calls of the program.                                      *)

(* hev_event_source_{fds,timeout,signal,idle}_new.                         *)
SourceNew(s) ==
  /\ UserTurn \/ pc = "freed"
  /\ src[s].ref = 0
  /\ uref' = [uref EXCEPT ![s] = 1]
  /\ \/ /\ Kind[s] = "fds"
        /\ src' = [src EXCEPT ![s] = NewSrc(0, <<>>)]
        /\ UNCHANGED efd
     \/ /\ Kind[s] # "fds"
        /\ \E d \in Efds :
             /\ efd[d].ref = 0
             /\ efd' = [efd EXCEPT ![d] = NewEfd(OwnFd[s], s)]
             /\ src' = [src EXCEPT ![s] =
                          NewSrc(IF Kind[s] = "idle" THEN MinPrio ELSE 0, <<d>>)]
  /\ UNCHANGED <<run, sources, fd_list, lref, control, kernel>>

SourceRef(s) ==
  /\ UserTurn \/ pc = "freed"
  /\ CanUse(s) /\ uref[s] < MaxRefs
  /\ src' = [src EXCEPT ![s].ref = @ + 1]
  /\ uref' = [uref EXCEPT ![s] = @ + 1]
  /\ UNCHANGED <<efd, run, sources, fd_list, lref, control, kernel>>

SourceUnref(s) ==
  /\ UserTurn \/ pc = "freed"
  /\ src[s].ref > 0 /\ uref[s] > 0
  /\ uref' = [uref EXCEPT ![s] = @ - 1]
  /\ UnrefSource(s, efd, {})
  /\ LoopDelFds(IF LastRef(s) THEN OwnFds(s) ELSE {})
  /\ UNCHANGED <<run, sources, fd_list, lref, control>>

SetPriority(s, p) ==
  /\ UserTurn /\ CanUse(s)
  /\ LatePriority \/ \A d \in FdsOf(s) : ~Queued(d)
  /\ src' = [src EXCEPT ![s].prio = p]
  /\ UNCHANGED <<efd, uref, run, sources, fd_list, lref, control, kernel>>

(* hev_event_source_add_fd.  A watch the kernel refuses frees the object   *)
(* but leaves it on source->fds.                                           *)
AddFd(s, f) ==
  /\ UserTurn /\ CanUse(s) /\ Kind[s] = "fds" /\ f \in UserFds
  /\ Removed(s) => "add_fd" \in AfterRemoval
  /\ \A t \in Sources : f \notin FdNums(t)
  /\ \E d \in Efds :
       /\ efd[d].ref = 0
       /\ src' = [src EXCEPT ![s].fds = <<d>> \o @]
       /\ \/ /\ src[s].loop => reg[f] = NoEfd
             /\ efd' = [efd EXCEPT ![d] = NewEfd(f, s)]
             /\ IF src[s].loop THEN LoopAddFd(f, d) ELSE UNCHANGED <<reg, edge>>
          \/ /\ src[s].loop /\ (MayRefuse \/ reg[f] # NoEfd)
             /\ UNCHANGED <<efd, reg, edge>>
  /\ UNCHANGED <<uref, run, sources, fd_list, lref, control, level, armed>>

(* hev_event_source_del_fd; the object lives on while it is queued.  At the *)
(* head of the list hev_slist_remove_next frees the node before it reads   *)
(* the next one from it: malloc, the default, may have changed that word.  *)
DelFd(s, f) ==
  /\ UserTurn /\ CanUse(s) /\ Kind[s] = "fds"
  /\ \E i \in DOMAIN src[s].fds, overwritten \in BOOLEAN :
       LET d == src[s].fds[i]
       IN /\ efd[d].fd = f
          /\ overwritten => i = 1
          /\ src' = [src EXCEPT ![s].fds = RemoveAt(@, i), ![s].wild = overwritten]
          /\ efd' = Released(efd, {d}, {})
  /\ LoopDelFds(IF src[s].loop THEN {f} ELSE {})
  /\ UNCHANGED <<uref, run, sources, fd_list, lref, control, level, armed>>

(* The program closes a descriptor, as the demos do before del_fd: the     *)
(* kernel forgets it, and the number may stand for another file later.     *)
CloseFd(f) ==
  /\ UserTurn /\ f \in UserFds
  /\ reg[f] # NoEfd
  /\ CloseFds({f}) /\ LoopDelFds({f})
  /\ UNCHANGED <<heap, run, sources, fd_list, lref, control>>

-----------------------------------------------------------------------------
(* The loop: the calls of the program.                                     *)

(* hev_event_loop_add_source.  A watch the kernel refuses is ignored: R    *)
(* are the descriptor objects it accepts.                                  *)
AddSource(s) ==
  /\ UserTurn /\ CanUse(s) /\ ~src[s].loop
  /\ src' = [src EXCEPT ![s].loop = TRUE, ![s].ref = @ + 1]
  /\ sources' = sources \cup {s}
  /\ \E R \in SUBSET FdsOf(s) :
       LET accepted == {efd[d].fd : d \in R}
       IN /\ \A f \in accepted : reg[f] = NoEfd
          /\ MayRefuse \/ \A d \in FdsOf(s) \ R : reg[efd[d].fd] # NoEfd
          /\ reg' = [f \in Fds |-> IF f \in accepted
                                     THEN CHOOSE d \in R : efd[d].fd = f
                                     ELSE reg[f]]
          /\ edge' = [f \in Fds |-> IF f \in accepted
                                      THEN PreparedLevel(s)[f] # {} ELSE edge[f]]
  /\ level' = PreparedLevel(s)
  /\ armed' = PreparedArmed(s)
  /\ UNCHANGED <<efd, uref, run, fd_list, lref, control>>

(* hev_event_loop_del_source, with the heap h the caller leaves and the    *)
(* descriptor objects F that leave fd_list in the same step.  The call     *)
(* _hev_event_source_set_loop (source, NULL) has no effect: that function  *)
(* only ever stores a loop in a source that has none.                      *)
DeleteSource(s, h, F) ==
  /\ sources' = sources \ {s}
  /\ LoopDelFds(FdNums(s))
  /\ UnrefSource(s, h, F)

DelSource(s) ==
  /\ UserTurn /\ CanUse(s) /\ src[s].loop
  /\ Removed(s) => "del_source" \in AfterRemoval
  /\ DeleteSource(s, efd, {})
  /\ UNCHANGED <<uref, run, fd_list, lref, control>>

Quit ==
  /\ UserTurn
  /\ run' = FALSE
  /\ UNCHANGED <<heap, sources, fd_list, lref, control, kernel>>

LoopRef ==
  /\ UserTurn /\ lref < MaxRefs
  /\ lref' = lref + 1
  /\ UNCHANGED <<heap, run, sources, fd_list, control, kernel>>

(* hev_event_loop_unref: the last reference finishes every queued object,  *)
(* drops the loop's reference on every source and closes the epoll         *)
(* instance.  The sources keep their loop pointer, as in DeleteSource.     *)
LoopUnref ==
  /\ pc = "user"
  /\ lref' = lref - 1
  /\ \/ /\ lref > 1
        /\ UNCHANGED <<heap, sources, fd_list, pc, kernel>>
     \/ /\ lref = 1
        /\ LET gone == {s \in sources : LastRef(s)}
               own == UNION {OwnFds(s) : s \in gone}
           IN /\ src' = [s \in Sources |->
                           IF s \in gone THEN FreeSrc
                           ELSE IF s \in sources THEN OneLess(s) ELSE src[s]]
              /\ efd' = Released(efd, UNION {FdsOf(s) : s \in gone},
                                 {d \in Efds : Queued(d)})
              /\ CloseFds(own)
        /\ LoopDelFds(Fds)
        /\ sources' = {} /\ fd_list' = <<>> /\ pc' = "freed"
        /\ UNCHANGED uref
  /\ UNCHANGED <<run, timeout, batch, cur>>

-----------------------------------------------------------------------------
(* hev_event_loop_run.                                                     *)

Run ==
  /\ pc = "user" /\ run
  /\ pc' = "wait" /\ timeout' = -1
  /\ UNCHANGED <<heap, run, sources, fd_list, lref, batch, cur, kernel>>

Ready == {f \in Fds : edge[f] /\ level[f] # {}}

(* epoll_wait returns at most MaxEvents descriptors of the ready list; edge *)
(* triggered, they leave that list until something new happens to them.    *)
EpollWait ==
  /\ pc = "wait"
  /\ timeout = 0 \/ Ready # {}
  /\ \E R \in SUBSET Ready :
       /\ IF Cardinality(Ready) <= MaxEvents THEN R = Ready
                                             ELSE Cardinality(R) = MaxEvents
       /\ batch' = [d \in Efds |-> UNION {level[f] : f \in {g \in R : reg[g] = d}}]
       /\ edge' = [f \in Fds |-> f \in Ready \ R]
  /\ pc' = "queue"
  /\ UNCHANGED <<heap, run, sources, fd_list, lref, timeout, cur, level, reg, armed>>

(* A signal handler interrupts a wait that sleeps: EINTR is no event.      *)
WaitInterrupted ==
  /\ pc = "wait" /\ timeout = -1 /\ Ready = {}
  /\ pc' = "dispatch"
  /\ UNCHANGED <<heap, run, sources, fd_list, lref, timeout, batch, cur, kernel>>

(* hev_event_source_get_priority of the source of d.                       *)
Priority(d) ==
  IF efd[d].source = NoSource THEN MaxPrio ELSE src[efd[d].source].prio

(* insert_event_source_fd_sorted: before the first entry with a strictly   *)
(* lower priority.                                                         *)
AppendUnsorted(d) == Append(fd_list, d)

InsertSorted(d) ==
  LET n == Len(fd_list)
      passed(k) == \A i \in 1..k : Priority(fd_list[i]) >= Priority(d)
      at == CHOOSE k \in 0..n : passed(k) /\ (k < n => ~passed(k + 1))
  IN [i \in 1..(n + 1) |-> IF i <= at THEN fd_list[i]
                           ELSE IF i = at + 1 THEN d ELSE fd_list[i - 1]]

(* _hev_event_source_fd_dispatch: fd_list holds a reference.               *)
DispatchedNoRef(d) ==
  [efd[d] EXCEPT !.revents = @ \cup batch[d], !.dispatched = TRUE]

Dispatched(d) ==
  [efd[d] EXCEPT !.revents = @ \cup batch[d], !.dispatched = TRUE, !.ref = @ + 1]

(* One turn of the loop over the events epoll_wait returned.               *)
QueueEvent(d) ==
  /\ pc = "queue" /\ batch[d] # {}
  /\ batch' = [batch EXCEPT ![d] = {}]
  /\ \/ /\ efd[d].dispatched
        /\ efd' = [efd EXCEPT ![d].revents = @ \cup batch[d]]
        /\ UNCHANGED fd_list
     \/ /\ ~efd[d].dispatched
        /\ efd' = [efd EXCEPT ![d] = Dispatched(d)]
        /\ fd_list' = InsertSorted(d)
  /\ UNCHANGED <<src, uref, run, sources, lref, pc, timeout, cur, kernel>>

QueueDone ==
  /\ pc = "queue" /\ \A d \in Efds : batch[d] = {}
  /\ pc' = "dispatch"
  /\ UNCHANGED <<heap, run, sources, fd_list, lref, timeout, batch, cur, kernel>>

-----------------------------------------------------------------------------
(* dispatch_events.                                                        *)

NextIteration == pc' = IF run THEN "wait" ELSE "user"

DispatchNothing ==
  /\ pc = "dispatch" /\ fd_list = <<>>
  /\ timeout' = -1 /\ NextIteration
  /\ UNCHANGED <<heap, run, sources, fd_list, lref, batch, cur, kernel>>

(* The end of dispatch_events, with the heap h the callback left: the head *)
(* stays on fd_list while it has a source and events nobody consumed.      *)
NeverReady(h, d) == FALSE

OnlyInReady(h, d) == h[d].revents = Interest /\ h[d].source # NoSource

StillReady(h, d) == Interest \cap h[d].revents # {} /\ h[d].source # NoSource

FinishAndBlock(h, d) ==
  /\ efd' = (IF StillReady(h, d) THEN h ELSE Released(h, {}, {d}))
  /\ fd_list' = (IF StillReady(h, d) THEN fd_list ELSE Tail(fd_list))
  /\ timeout' = -1 /\ NextIteration

FinishHead(h, d) ==
  /\ IF StillReady(h, d)
       THEN efd' = h /\ UNCHANGED fd_list
       ELSE efd' = Released(h, {}, {d}) /\ fd_list' = Tail(fd_list)
  /\ timeout' = 0 /\ NextIteration

Dispatchable(d) == efd[d].source # NoSource /\ src[efd[d].source].loop

Consumed(d) == [efd EXCEPT ![d].revents = @ \ {"IN"}]

(* source->funcs.check says no: the descriptor had nothing to read (EAGAIN *)
(* clears IN), or the kernel reported something else than IN.              *)
DispatchSkip ==
  /\ pc = "dispatch" /\ fd_list # <<>>
  /\ LET d == Head(fd_list)
         s == efd[d].source
     IN \/ /\ ~Dispatchable(d)
           /\ FinishHead(efd, d)
        \/ /\ Dispatchable(d) /\ Kind[s] # "fds"
           /\ "IN" \notin efd[d].revents
           /\ FinishHead(efd, d)
        \/ /\ Dispatchable(d) /\ Kind[s] \in {"timeout", "signal"}
           /\ "IN" \in efd[d].revents /\ "IN" \notin level[efd[d].fd]
           /\ FinishHead(Consumed(d), d)
  /\ UNCHANGED <<src, uref, run, sources, lref, batch, cur, kernel>>

(* source->funcs.check says yes, and source->funcs.dispatch enters the     *)
(* callback.  Every fds event passes; idle empties its eventfd and clears  *)
(* IN; timeout and signal read once and leave IN set, and another signal   *)
(* may be pending behind the one just read.                                *)
DispatchCallback ==
  /\ pc = "dispatch" /\ fd_list # <<>>
  /\ LET d == Head(fd_list)
         s == efd[d].source
         read == [level EXCEPT ![efd[d].fd] = @ \ {"IN"}]
     IN /\ Dispatchable(d)
        /\ cur' = d
        /\ \/ Kind[s] = "fds" /\ UNCHANGED <<efd, level>>
           \/ /\ Kind[s] = "idle" /\ "IN" \in efd[d].revents
              /\ efd' = Consumed(d) /\ level' = read
           \/ /\ Kind[s] \in {"timeout", "signal"}
              /\ "IN" \in efd[d].revents \cap level[efd[d].fd]
              /\ level' \in {read} \cup (IF Kind[s] = "signal" THEN {level} ELSE {})
              /\ UNCHANGED efd
  /\ pc' = "callback"
  /\ UNCHANGED <<src, uref, run, sources, fd_list, lref, timeout, batch,
                 edge, reg, armed>>

(* The callback of an fds source reads its descriptor, as the demos do:    *)
(* it drains it, or finds it empty (EAGAIN) and only then clears IN.  A    *)
(* descriptor that hung up reads as its end forever, which drains nothing. *)
ReadFd ==
  /\ pc = "callback" /\ efd[cur].source # NoSource
  /\ Kind[efd[cur].source] = "fds" /\ "IN" \in efd[cur].revents
  /\ LET f == efd[cur].fd
     IN \/ /\ level[f] = {"IN"}
           /\ level' = [level EXCEPT ![f] = @ \ {"IN"}]
           /\ UNCHANGED efd
        \/ /\ "IN" \notin level[f]
           /\ efd' = Consumed(cur)
           /\ UNCHANGED level
  /\ UNCHANGED <<src, uref, run, sources, fd_list, lref, control,
                 edge, reg, armed>>

(* The callback returns true.                                              *)
ReturnTrue ==
  /\ pc = "callback"
  /\ LET s == efd[cur].source
     IN IF s # NoSource /\ src[s].loop
          THEN Prepare(s)
          ELSE UNCHANGED <<level, armed, edge>>
  /\ FinishHead(efd, cur)
  /\ UNCHANGED <<src, uref, run, sources, lref, batch, cur, reg>>

(* The callback returns false: the entry leaves fd_list, whatever is left  *)
(* to read, and the source leaves its loop.                                *)
ReturnFalse ==
  /\ pc = "callback"
  /\ LET s == efd[cur].source
     IN \/ /\ s = NoSource
           /\ FinishHead(efd, cur)
           /\ UNCHANGED <<src, sources, kernel>>
        \/ /\ s # NoSource
           /\ Removed(s) => "return_false" \in AfterRemoval
           /\ DeleteSource(s, [efd EXCEPT ![cur].revents = {}], {cur})
           /\ fd_list' = Tail(fd_list) /\ timeout' = 0 /\ NextIteration
  /\ UNCHANGED <<uref, run, lref, batch, cur>>

-----------------------------------------------------------------------------
(* The world outside: peers, signals and timers.                           *)

InputFds == UserFds \cup {OwnFd[s] : s \in {t \in Sources : Kind[t] = "signal"}}

Happens(f, E) ==
  /\ level' = [level EXCEPT ![f] = @ \cup E]
  /\ edge' = [edge EXCEPT ![f] = reg[f] # NoEfd]
  /\ UNCHANGED <<heap, run, sources, fd_list, lref, control, reg>>

(* A signalfd exists as long as its source.                                *)
Arrive(f) ==
  /\ f \in InputFds
  /\ \A s \in Sources : f \in OwnFds(s) => src[s].ref > 0
  /\ Happens(f, {"IN"}) /\ UNCHANGED armed

(* The peer of a descriptor is gone: what it reads now is its end, or (the *)
(* writing end of a pipe) it only reports the error.                       *)
HangUp(f) ==
  /\ f \in UserFds
  /\ Happens(f, {"HUP"}) \/ Happens(f, {"IN", "HUP"})
  /\ UNCHANGED armed

Expire(f) ==
  /\ f \in armed
  /\ Happens(f, {"IN"}) /\ armed' = armed \ {f}

-----------------------------------------------------------------------------
(* AddFd frees the object it just linked when the kernel refuses to watch  *)
(* the descriptor, and DelFd may leave a pointer that leads anywhere; the  *)
(* next walk of source->fds reads freed memory, and the model ends there.  *)
Intact ==
  \A s \in Sources : ~src[s].wild /\ \A d \in FdsOf(s) : efd[d].ref > 0

SourceCall ==
  \E s \in Sources :
    \/ SourceNew(s) \/ SourceRef(s) \/ SourceUnref(s)
    \/ AddSource(s) \/ DelSource(s)
    \/ \E p \in Prios : SetPriority(s, p)
    \/ \E f \in Fds : AddFd(s, f) \/ DelFd(s, f)

LoopCall == Quit \/ LoopRef \/ LoopUnref \/ Run \/ \E f \in Fds : CloseFd(f)

LoopStep ==
  \/ EpollWait \/ WaitInterrupted \/ \E d \in Efds : QueueEvent(d)
  \/ QueueDone \/ DispatchNothing \/ DispatchSkip \/ DispatchCallback

Callback == ReadFd \/ ReturnTrue \/ ReturnFalse

World == \E f \in Fds : Arrive(f) \/ HangUp(f) \/ Expire(f)

Next == Intact /\ (SourceCall \/ LoopCall \/ LoopStep \/ Callback \/ World)

Spec == Init /\ [][Next]_vars

-----------------------------------------------------------------------------
(* Properties.                                                             *)

Lists == {l \in Seq(Efds) : IsInjective(l)}
SourceRecord == [ref : Nat, loop : BOOLEAN, prio : Int, fds : Lists, wild : BOOLEAN]
EfdRecord == [ref : Nat, fd : Fds \cup {NoFd}, revents : SUBSET Events,
              dispatched : BOOLEAN, source : Sources \cup {NoSource}]

(* Every variable has its type: in particular no reference count goes      *)
(* below zero (hev_event_source_unref, _hev_event_source_fd_unref).        *)
TypeOK ==
  /\ src \in [Sources -> SourceRecord]
  /\ efd \in [Efds -> EfdRecord]
  /\ uref \in [Sources -> Nat]
  /\ run \in BOOLEAN /\ sources \in SUBSET Sources
  /\ fd_list \in Seq(Efds) /\ lref \in Nat
  /\ pc \in {"user", "wait", "queue", "dispatch", "callback", "freed"}
  /\ timeout \in {-1, 0} /\ batch \in [Efds -> SUBSET Events]
  /\ cur \in Efds \cup {NoEfd}
  /\ level \in [Fds -> SUBSET Events] /\ edge \in [Fds -> BOOLEAN]
  /\ reg \in [Fds -> Efds \cup {NoEfd}] /\ armed \in SUBSET Fds

(* The reference counts are exact: a source is held by the program and by  *)
(* the loop it is in, a descriptor object by its source and by fd_list,    *)
(* through every order of removal, release and dispatch.                   *)
CountsExact ==
  /\ \A s \in Sources : src[s].ref = uref[s] + (IF s \in sources THEN 1 ELSE 0)
  /\ \A d \in Efds : efd[d].ref = (IF efd[d].source = NoSource THEN 0 ELSE 1)
                                  + (IF efd[d].dispatched THEN 1 ELSE 0)

(* fd_list holds exactly the objects marked as dispatched, each once, and  *)
(* the object whose callback runs is still its head: no call a callback    *)
(* makes moves or frees the entry dispatch_events finishes afterwards.     *)
QueueExact ==
  /\ \A d \in Efds : efd[d].dispatched <=> Queued(d)
  /\ \A i, j \in 1..Len(fd_list) : fd_list[i] = fd_list[j] => i = j
  /\ pc = "callback" => fd_list # <<>> /\ cur = Head(fd_list)

(* What epoll_wait can return points to an allocated object, of that       *)
(* descriptor, of a source still in the loop; so do the events of the      *)
(* array epoll_wait filled.                                                *)
KernelPointers ==
  /\ \A f \in Fds : reg[f] # NoEfd =>
       efd[reg[f]].fd = f /\ efd[reg[f]].source \in sources
  /\ \A f \in Fds : edge[f] => reg[f] # NoEfd
  /\ \A d \in Efds : batch[d] # {} =>
       pc = "queue" /\ efd[d].fd # NoFd /\ reg[efd[d].fd] = d

(* Edge triggered, yet nothing is lost: a watched descriptor that can be   *)
(* read is on the ready list, in the array of events, or queued with IN    *)
(* still recorded.  An event already consumed cannot hide a later one.     *)
NoLostReadiness ==
  \A f \in Fds : reg[f] # NoEfd /\ "IN" \in level[f] =>
    \/ edge[f]
    \/ "IN" \in batch[reg[f]]
    \/ "IN" \in efd[reg[f]].revents /\ Queued(reg[f])

(* The loop sleeps without a timeout only when nothing is queued and every *)
(* readable descriptor will wake it.                                       *)
NeverSleepsOnWork ==
  pc = "wait" /\ timeout = -1 =>
    /\ fd_list = <<>>
    /\ \A f \in Fds : reg[f] # NoEfd /\ "IN" \in level[f] => edge[f]

(* The entries of fd_list that still have a source are in order of         *)
(* priority, whatever died between them: the head is the highest.          *)
HighestFirst ==
  \A i, j \in 1..Len(fd_list) :
    i < j /\ efd[fd_list[i]].source # NoSource /\ efd[fd_list[j]].source # NoSource
      => Priority(fd_list[i]) >= Priority(fd_list[j])

(* A timeout or idle source in the loop is never forgotten: its timer runs *)
(* or has expired, its eventfd is readable, or its callback is running.    *)
Rearmed ==
  \A s \in sources :
    Kind[s] = "idle" \/ (Kind[s] = "timeout" /\ Interval[s] > 0) =>
      \/ OwnFd[s] \in armed
      \/ "IN" \in level[OwnFd[s]]
      \/ pc = "callback" /\ efd[cur].source = s

(* Once the loop is gone and the program holds no reference, every source, *)
(* descriptor object and timer is released.                                *)
NoLeak ==
  pc = "freed" /\ (\A s \in Sources : uref[s] = 0) =>
    /\ \A s \in Sources : src[s] = FreeSrc
    /\ \A d \in Efds : efd[d] = FreeEfd
    /\ armed = {}

(* A reference the program holds keeps its source alive, the purpose of    *)
(* hev_event_source_ref.                                                   *)
UserRefKeepsAlive == \A s \in Sources : uref[s] <= src[s].ref

(* A callback is entered only for a source that is in the loop: the recheck *)
(* of dispatch_events is there because a callback may remove sources.      *)
OnlyMembersCalled ==
  [][pc = "dispatch" /\ pc' = "callback" => efd[cur'].source \in sources]_vars

=============================================================================
