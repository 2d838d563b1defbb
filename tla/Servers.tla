------------------------------- MODULE Servers -------------------------------
(* Either demo server at work: the kernel and the peers act at any time, the  *)
(* loop reports what happened and calls the handler of the head of its queue. *)
EXTENDS Splicer, EchoServer

VARIABLES
  program,   \* which of the two runs
  run        \* loop->run

vars == <<all_vars, program, run>>

Prio == IF program = "echo" THEN EchoPrio ELSE SplicerPrio

(* signal_int_handler and the end of main: every connection is released.      *)
Quit ==
  /\ run' = FALSE
  /\ Free(ToSet(conn_list), fd_list)
  /\ conn' = [c \in Conns |-> NoConn] /\ conn_list' = <<>>

RingSize == IF program = "echo" THEN EchoRing ELSE SpliceRing
Memory == IF program = "echo" THEN Clients ELSE Sessions

ServerStep == IF program = "echo" THEN EchoStep ELSE SplicerStep

Spinning == program = "echo" /\ \E c \in Clients : Spins(c)

ServersInit == Init /\ program \in {"echo", "splicer"} /\ run = TRUE

ServersNext ==
  /\ run /\ UNCHANGED program
  /\ \/ (WorldNext(Memory) \/ Wait(Prio) \/ ServerStep) /\ UNCHANGED run
     \/ Quit

(* The loop is one thread: it waits for events between two callbacks, and goes*)
(* on with the head of its queue.  The second conjunct is                     *)
(* WF_vars(ServerStep) with its enabling condition spelled out: the head has  *)
(* a handler that changes something.                                          *)
ServersSpec ==
  /\ ServersInit /\ [][ServersNext]_vars
  /\ WF_vars(run /\ UNCHANGED <<program, run>> /\ Wait(Prio))
  /\ []<>(~run \/ fd_list = <<>> \/ Spinning) \/ []<><<ServerStep>>_vars

-----------------------------------------------------------------------------
(* Properties.                                                                *)

(* Every variable has its type.                                               *)
TypeOK ==
  /\ sock \in [Socks -> [peer : {"none", "connecting", "open", "eof", "reset"},
                         in : 0..MaxIn, out : 0..SendBuf, nospace : BOOLEAN]]
  /\ backlog \in 0..MaxBacklog /\ edge \subseteq Descriptors
  /\ revents \in [Socks -> SUBSET {"IN", "OUT", "ERR"}]
  /\ fd_list \in Seq(Descriptors) /\ IsInjective(fd_list)
  /\ conn \in [Conns -> [live : BOOLEAN, buf : [Sides -> 0..RingSize],
                         want : SUBSET (Sides \X Interest), idle : BOOLEAN]]
  /\ conn_list \in Seq(Conns) /\ program \in {"echo", "splicer"} /\ run \in BOOLEAN

(* Of a connection: nothing more will happen until the kernel reports it.     *)
Resting(c) == \A d \in Sides : <<c, d>> \notin edge \cup ToSet(fd_list)

(* Where the bytes that side d sent go.                                       *)
Dest(d) == IF program = "echo" THEN d ELSE Other(d)

CanRead(c, d) == Readable(sock[<<c, d>>]) /\ conn[c].buf[Dest(d)] < RingSize
CanWrite(c, d) == Writable(sock[<<c, d>>]) /\ conn[c].buf[d] > 0

(* An edge that was seen is never forgotten: when neither descriptor of a     *)
(* connection is queued nor about to be reported, no byte that waits in a     *)
(* socket or a ring has room where it goes, and for one that has none the     *)
(* kernel knows whom to wake.                                                 *)
NeverStalls ==
  \A c \in Conns : conn[c].live /\ Resting(c) =>
    \A d \in Sides :
      /\ ~CanRead(c, d) /\ ~CanWrite(c, d)
      /\ conn[c].buf[d] > 0 => sock[<<c, d>>].nospace \/ sock[<<c, d>>].peer = "connecting"
      /\ sock[<<c, d>>].peer # "reset"

(* The list holds each connection that lives once, and just those have open   *)
(* sockets and a place in the loop: none leaks, none is used after its free.  *)
ListedOnce ==
  /\ IsInjective(conn_list) /\ ToSet(conn_list) = {c \in Conns : conn[c].live}
  /\ \A c \in Conns : conn[c].live <=> sock[<<c, "client">>].peer # "none"
  /\ \A k \in Socks : sock[k].peer = "none" => k \notin edge \cup ToSet(fd_list)

(* As long as every peer reads what it is sent, the bytes that can move go on *)
(* moving: no connection holds the loop up, however slow the timer is.        *)
HasWork(c) == conn[c].live /\ \E d \in Sides : CanRead(c, d) \/ CanWrite(c, d)

Moves == ServerStep /\ (sock' # sock)

BytesMove ==
  (\A k \in Socks : []<>(sock[k].out < SendBuf)) =>
     []<>(\A c \in Conns : ~HasWork(c)) \/ []<><<Moves>>_vars

(* When the timer expires again and again, a connection that timeout_handler  *)
(* marked idle is active again or released before long.                       *)
IdleEnds ==
  []<>(Timer \in edge \cup ToSet(fd_list)) => \A c \in Conns : conn[c].idle ~> ~conn[c].idle

=============================================================================
