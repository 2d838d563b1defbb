------------------------------ MODULE EchoServer ------------------------------
(* demos/echo-server.c: what a client sends goes through its ring back to it. *)
EXTENDS Connections

(* The priorities main gives the sources.                                     *)
EchoPrio == [k \in Descriptors |-> IF k = Listener THEN 2 ELSE IF k = Timer THEN 1 ELSE 0]

(* fd->revents after read_data and write_data returned these sizes.           *)
KeepsIn(es, got, put) == es \ {e \in {"OUT"} : put = NoIov}
LeftOf(es, got, put) == es \ ({e \in {"IN"} : got = Again} \cup {e \in {"OUT"} : put = NoIov})

(* client_source_handler.  Bytes that wait for the socket keep an EPOLLOUT    *)
(* that was reported: the handler is called again and again.                  *)
Echoed(s, used, es) ==
  LET r == IF "IN" \in es THEN ReadData(s, used, EchoRing)
           ELSE [size |-> NoIov, sock |-> s, used |-> used]
      w == IF es \cap Interest # {} THEN WriteData(r.sock, r.used)
           ELSE [size |-> NoIov, sock |-> r.sock, used |-> r.used] IN
  [sock |-> w.sock, used |-> w.used, rev |-> LeftOf(es, r.size, w.size),
   dead |-> "ERR" \in es \/ r.size \in {0, Failed} \/ w.size = Failed]

ClientHandler(c) ==
  LET k == <<c, "client">> IN
  IsHead(k) /\ \E w \in {Echoed(sock[k], conn[c].buf["client"], revents[k])} :
     \/ w.dead /\ EndConn(c)
     \/ /\ ~w.dead
        /\ sock' = [sock EXCEPT ![k] = w.sock]
        /\ revents' = [revents EXCEPT ![k] = w.rev]
        /\ conn' = [conn EXCEPT ![c].buf["client"] = w.used, ![c].idle = FALSE]
        /\ fd_list' = Requeued(w.rev)
        /\ UNCHANGED <<backlog, edge, conn_list>>

(* Such a call changes nothing while the client does not read.                *)
Spins(c) ==
  LET k == <<c, "client">> IN
  /\ IsHead(k) /\ ~conn[c].idle
  /\ Echoed(sock[k], conn[c].buf["client"], revents[k])
       = [sock |-> sock[k], used |-> conn[c].buf["client"], rev |-> revents[k], dead |-> FALSE]

(* listener_source_handler.                                                   *)
ClientAccepted(c) ==
  /\ IsHead(Listener) /\ backlog > 0 /\ ~conn[c].live
  /\ sock' = [sock EXCEPT ![<<c, "client">>] = NewSock("open")]
  /\ edge' = edge \cup {<<c, "client">>} /\ backlog' = backlog - 1
  /\ conn' = [conn EXCEPT ![c] = NewConn] /\ conn_list' = Append(conn_list, c)
  /\ UNCHANGED <<revents, fd_list>>

EchoStep ==
  \/ AcceptAgain \/ TimeoutHandler
  \/ \E c \in Clients : ClientAccepted(c) \/ ClientHandler(c)

=============================================================================
