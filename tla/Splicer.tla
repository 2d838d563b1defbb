------------------------------- MODULE Splicer -------------------------------
(* demos/splicer.c: a session relays between a client and the remote host     *)
(* over two rings.  The events of both descriptors are remembered in the      *)
(* session until EAGAIN, so that the callback of either moves what it can in  *)
(* both directions.                                                           *)
EXTENDS Connections

(* The priorities main gives the sources.                                     *)
SplicerPrio == [k \in Descriptors |-> IF k = Listener THEN 2 ELSE IF k = Timer THEN -1 ELSE 0]

(* A session while its handler works: its sockets, what their descriptor      *)
(* objects report, its fields, and whether to remove it.                      *)
Working(c, d) ==
  [sock |-> [e \in Sides |-> sock[<<c, e>>]], rev |-> [e \in Sides |-> revents[<<c, e>>]],
   buf |-> conn[c].buf, dead |-> "ERR" \in revents[<<c, d>>],
   want |-> conn[c].want \cup ({d} \X (revents[<<c, d>>] \cap Interest))]

(* What the handler makes of the size that read_data or write_data returned.  *)
ForgetFull(w, d, e, size) ==
  [w EXCEPT !.dead = size = Failed \/ (e = "IN" /\ size = 0),
            !.want = IF size \in {Again, NoIov} THEN @ \ {<<d, e>>} ELSE @,
            !.rev[d] = IF size \in {Again, NoIov} THEN @ \ {e} ELSE @]

Answered(w, d, e, size) ==
  [w EXCEPT !.dead = size = Failed \/ (e = "IN" /\ size = 0),
            !.want = IF size = Again THEN @ \ {<<d, e>>} ELSE @,
            !.rev[d] = IF size \in {Again, NoIov} THEN @ \ {e} ELSE @]

(* One of the four calls, if the events remembered ask for it.                *)
Call(w, d, e) ==
  LET to == IF e = "OUT" THEN d ELSE Other(d)
      a == IF e = "OUT" THEN WriteData(w.sock[d], w.buf[to]) ELSE ReadData(w.sock[d], w.buf[to], SpliceRing) IN
  IF w.dead \/ <<d, e>> \notin w.want THEN w
  ELSE Answered([w EXCEPT !.sock[d] = a.sock, !.buf[to] = a.used], d, e, a.size)

(* session_source_handler.                                                    *)
Worked(c, w) ==
  \/ w.dead /\ EndConn(c)
  \/ /\ ~w.dead
     /\ sock' = [k \in Socks |-> IF k[1] = c THEN w.sock[k[2]] ELSE sock[k]]
     /\ revents' = [k \in Socks |-> IF k[1] = c THEN w.rev[k[2]] ELSE revents[k]]
     /\ conn' = [conn EXCEPT ![c].buf = w.buf, ![c].want = w.want, ![c].idle = FALSE]
     /\ fd_list' = Requeued(revents'[Head(fd_list)])
     /\ UNCHANGED <<backlog, edge, conn_list>>

SessionHandler(c, d) ==
  /\ IsHead(<<c, d>>)
  /\ \E w1 \in {Call(Working(c, d), "client", "OUT")} :
     \E w2 \in {Call(w1, "remote", "OUT")} :
     \E w3 \in {Call(w2, "client", "IN")} :
     \E w4 \in {Call(w3, "remote", "IN")} : Worked(c, w4)

(* listener_source_handler: a new session, whose connect may fail at once.    *)
SessionAccepted(c) ==
  /\ IsHead(Listener) /\ backlog > 0 /\ ~conn[c].live
  /\ sock' = [sock EXCEPT ![<<c, "client">>] = NewSock("open"),
                          ![<<c, "remote">>] = NewSock("connecting")]
  /\ edge' = edge \cup {<<c, d>> : d \in Sides} /\ backlog' = backlog - 1
  /\ conn' = [conn EXCEPT ![c] = NewConn] /\ conn_list' = Append(conn_list, c)
  /\ UNCHANGED <<revents, fd_list>>

ConnectFailed(c) ==
  /\ IsHead(Listener) /\ backlog > 0 /\ ~conn[c].live
  /\ backlog' = backlog - 1
  /\ UNCHANGED <<sock, edge, revents, fd_list, conn_vars>>

SplicerStep ==
  \/ AcceptAgain \/ TimeoutHandler
  \/ \E c \in Sessions :
       \/ SessionAccepted(c) \/ ConnectFailed(c)
       \/ \E d \in Sides : SessionHandler(c, d)

=============================================================================
