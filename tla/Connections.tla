----------------------------- MODULE Connections -----------------------------
(* What the demo servers demos/echo-server.c and demos/splicer.c share: the   *)
(* kernel's sockets, the loop as their callbacks see it, the connections they *)
(* keep in a list, and read_data and write_data between a socket and a ring   *)
(* buffer.  Of the bytes only their number counts (BoundedFifo says that a    *)
(* ring keeps them in order).  EventLoop models the loop itself; here it is a *)
(* queue of descriptors, and a descriptor whose source is gone, which takes   *)
(* one turn without effect, leaves it at once.                                *)
EXTENDS Integers, SequencesExt

CONSTANTS
  Clients,    \* the connections there is memory for in the echo server
  Sessions,   \* and in the splicer
  MaxIn,      \* bound: bytes that wait in the receive buffer of a socket
  SendBuf,    \* the bytes a send buffer takes
  EchoRing, SpliceRing,   \* the sizes they give to hev_ring_buffer_new
  MaxBacklog  \* bound: connections not accepted yet

ASSUME SizesAssumption ==
  /\ {MaxIn, SendBuf, EchoRing, SpliceRing, MaxBacklog} \subseteq Nat \ {0}
  /\ IsFiniteSet(Clients) /\ IsFiniteSet(Sessions)

VARIABLES
  sock,       \* sock[k]: what the kernel has of the socket k
  backlog,    \* connections the listening socket has to accept
  edge,       \* descriptors epoll_wait is going to report
  revents,    \* fd->revents of the sockets
  fd_list,    \* the queue of the loop
  conn,       \* conn[c]: struct _Client or struct _Session
  conn_list   \* client_list or session_list

kernel_vars == <<sock, backlog, edge>>
conn_vars == <<conn, conn_list>>
all_vars == <<kernel_vars, revents, fd_list, conn_vars>>

Conns == Clients \cup Sessions
Sides == {"client", "remote"}
Other(d) == IF d = "client" THEN "remote" ELSE "client"

Socks == Conns \X Sides
Listener == <<"server", "listener">>
Timer == <<"server", "timer">>
Descriptors == Socks \cup {Listener, Timer}

(* EPOLLIN | EPOLLOUT; EPOLLERR and EPOLLHUP, here "ERR", come unasked.       *)
Interest == {"IN", "OUT"}

NoSock == [peer |-> "none", in |-> 0, out |-> 0, nospace |-> FALSE]
NewSock(p) == [NoSock EXCEPT !.peer = p]

(* buf[d]: the bytes on their way to side d (backward_buffer is buf["client"] *)
(* and forward_buffer buf["remote"]; the echo server has the first only).     *)
(* want is session->revents.                                                  *)
NoConn == [live |-> FALSE, buf |-> [d \in Sides |-> 0], want |-> {}, idle |-> FALSE]
NewConn == [NoConn EXCEPT !.live = TRUE]

Init ==
  /\ sock = [k \in Socks |-> NoSock] /\ backlog = 0 /\ edge = {}
  /\ revents = [k \in Socks |-> {}] /\ fd_list = <<>>
  /\ conn = [c \in Conns |-> NoConn] /\ conn_list = <<>>

-----------------------------------------------------------------------------
(* The kernel and the peers.                                                  *)

Open == {"open", "eof"}

Readable(s) == s.in > 0 \/ s.peer \in {"eof", "reset"}
Writable(s) == s.peer \in Open /\ s.out < SendBuf

(* What epoll_wait reports of a socket now.                                   *)
Level(s) ==
  {e \in {"IN", "OUT", "ERR"} :
     \/ e = "IN" /\ Readable(s)
     \/ e = "OUT" /\ (Writable(s) \/ s.peer = "reset")
     \/ e = "ERR" /\ s.peer = "reset"}

Happens(k, s) ==
  /\ sock' = [sock EXCEPT ![k] = s]
  /\ edge' = edge \cup {k}
  /\ UNCHANGED <<backlog, revents, fd_list, conn_vars>>

Connected(k) == sock[k].peer = "connecting" /\ Happens(k, [sock[k] EXCEPT !.peer = "open"])

(* A refused connection, or a reset one: what was to be sent is dropped.      *)
PeerResets(k) ==
  /\ sock[k].peer \in Open \cup {"connecting"}
  /\ Happens(k, [sock[k] EXCEPT !.peer = "reset", !.out = 0, !.nospace = FALSE])

PeerCloses(k) == sock[k].peer = "open" /\ Happens(k, [sock[k] EXCEPT !.peer = "eof"])

PeerSends(k) ==
  /\ sock[k].peer = "open" /\ sock[k].in < MaxIn
  /\ Happens(k, [sock[k] EXCEPT !.in = @ + 1])

(* The kernel wakes a writer that found no room, nobody else.                 *)
PeerReads(k) ==
  /\ sock[k].out > 0
  /\ sock' = [sock EXCEPT ![k].out = 0, ![k].nospace = FALSE]
  /\ edge' = IF sock[k].nospace THEN edge \cup {k} ELSE edge
  /\ UNCHANGED <<backlog, revents, fd_list, conn_vars>>

(* More connect only while there is memory for their connections.             *)
PeerConnects(cs) ==
  /\ backlog < MaxBacklog /\ backlog + Len(conn_list) < Cardinality(cs)
  /\ backlog' = backlog + 1 /\ edge' = edge \cup {Listener}
  /\ UNCHANGED <<sock, revents, fd_list, conn_vars>>

(* The timer runs again when its callback was called.                         *)
TimerExpires ==
  /\ Timer \notin edge \cup ToSet(fd_list)
  /\ edge' = edge \cup {Timer}
  /\ UNCHANGED <<sock, backlog, revents, fd_list, conn_vars>>

WorldNext(cs) ==
  \/ PeerConnects(cs) \/ TimerExpires
  \/ \E k \in Socks :
       Connected(k) \/ PeerResets(k) \/ PeerCloses(k) \/ PeerSends(k) \/ PeerReads(k)

-----------------------------------------------------------------------------
(* The loop.                                                                  *)

(* What of the queue or list q is in S, in order.                             *)
Only(q, S) ==
  LET only[n \in 0..Len(q)] ==
        IF n = 0 THEN <<>>
        ELSE IF q[n] \in S THEN Append(only[n - 1], q[n]) ELSE only[n - 1]
  IN only[Len(q)]

Inserted(q, k, prio) ==
  Only(q, {l \in Descriptors : prio[l] >= prio[k]}) \o <<k>>
    \o Only(q, {l \in Descriptors : prio[l] < prio[k]})

(* The queue when those of q were inserted, one after the other.              *)
InsertedAll(queue, q, prio) ==
  LET inserted[n \in 0..Len(q)] ==
        IF n = 0 THEN queue ELSE Inserted(inserted[n - 1], q[n], prio)
  IN inserted[Len(q)]

Reported(k) == IF k \in Socks THEN Level(sock[k]) ELSE {"IN"}

(* What goes into the queue: what is not in it yet and has events still.      *)
ReportedAgain == {k \in edge : Reported(k) # {}}
Arriving == {k \in edge \ ToSet(fd_list) : Reported(k) # {}}

(* epoll_wait and the insertions, in any order.                               *)
Wait(prio) ==
  /\ edge # {} /\ edge' = {}
  /\ revents' = [k \in Socks |-> IF k \in edge THEN revents[k] \cup Reported(k) ELSE revents[k]]
  /\ \E q \in SetToSeqs(Arriving) : fd_list' = InsertedAll(fd_list, q, prio)
  /\ UNCHANGED <<sock, backlog, conn_vars>>

IsHead(k) == fd_list # <<>> /\ Head(fd_list) = k

(* fd_list when the callback of its head has returned and left it the events  *)
(* es.                                                                        *)
Requeued(es) == IF es \cap Interest = {} THEN Tail(fd_list) ELSE fd_list

-----------------------------------------------------------------------------
(* The calls of the servers.                                                  *)

(* What recvmsg and sendmsg return: a number of bytes, or -1 with EAGAIN or   *)
(* with another error; read_data and write_data return NoIov when the ring,   *)
(* of len bytes with used in it, is full or empty.                            *)
Again == -1
NoIov == -2
Failed == -3

Received(s, n) ==
  IF s.in > 0 THEN Min({n, s.in})
  ELSE IF s.peer = "eof" THEN 0
  ELSE IF s.peer = "reset" THEN Failed ELSE Again

Sent(s, n) ==
  IF s.peer = "reset" THEN Failed
  ELSE IF Writable(s) THEN Min({n, SendBuf - s.out}) ELSE Again

ReadData(s, used, len) ==
  LET size == IF used = len THEN NoIov ELSE Received(s, len - used)
      inc == Max({0, size}) IN
  [size |-> size, sock |-> [s EXCEPT !.in = @ - inc], used |-> used + inc]

WriteData(s, used) ==
  LET size == IF used = 0 THEN NoIov ELSE Sent(s, used)
      inc == Max({0, size}) IN
  [size |-> size, used |-> used - inc,
   sock |-> [s EXCEPT !.out = @ + inc, !.nospace = @ \/ (size >= Again /\ inc < used)]]

(* session_free or client_free of the connections cs: closed descriptors      *)
(* leave epoll, and the queue as their objects lose their source.             *)
Free(cs, queue) ==
  /\ sock' = [k \in Socks |-> IF k[1] \in cs THEN NoSock ELSE sock[k]]
  /\ edge' = {k \in edge : k[1] \notin cs}
  /\ revents' = [k \in Socks |-> IF k[1] \in cs THEN {} ELSE revents[k]]
  /\ fd_list' = Only(queue, {k \in Descriptors : k[1] \notin cs})
  /\ UNCHANGED backlog

(* remove_session and remove_client, at the end of the handlers.              *)
EndConn(c) ==
  /\ Free({c}, fd_list)
  /\ conn' = [conn EXCEPT ![c] = NoConn]
  /\ conn_list' = RemoveFirst(conn_list, c)

(* The callback of the listening socket when accept has nothing left.         *)
AcceptAgain ==
  /\ IsHead(Listener) /\ backlog = 0
  /\ fd_list' = Tail(fd_list)
  /\ UNCHANGED <<kernel_vars, revents, conn_vars>>

(* The connections that timeout_handler releases.                             *)
IdleAndEmpty == {c \in ToSet(conn_list) : conn[c].idle /\ \A d \in Sides : conn[c].buf[d] = 0}
Silent == {c \in ToSet(conn_list) : conn[c].idle}

(* The list after hev_slist_set_data of those and hev_slist_remove_all.       *)
KeptInList(cs) == conn_list
Purged(cs) == Only(conn_list, Conns \ cs)

(* timeout_handler: what was idle all the time is released, the rest marked.  *)
TimeoutHandler ==
  LET cs == Silent IN
  /\ IsHead(Timer)
  /\ Free(cs, Tail(fd_list))
  /\ conn' = [c \in Conns |-> IF c \in cs THEN NoConn
                              ELSE [conn[c] EXCEPT !.idle = c \in ToSet(conn_list)]]
  /\ conn_list' = Purged(cs)

=============================================================================
