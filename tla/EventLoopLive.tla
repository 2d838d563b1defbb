---------------------------- MODULE EventLoopLive ----------------------------
(* The event loop under fair scheduling: a program sets its sources up,    *)
(* runs the loop and reads in its callbacks.  The loop is a sequential     *)
(* program, so its steps are weakly fair; a callback returns, and one that *)
(* is entered again and again reads its descriptor (all the demos read in  *)
(* every call).  Traffic is bounded: a descriptor that never runs dry      *)
(* keeps the head of fd_list, by design of the priority queue.             *)
EXTENDS EventLoop

CONSTANT MaxArrivals    \* bound: events the world produces
ASSUME MaxArrivals \in Nat

VARIABLE arrivals       \* events produced so far

liveVars == <<vars, arrivals>>

LiveInit == Init /\ arrivals = 0

Setup ==
  /\ pc = "user" /\ run
  /\ \E s \in Sources : SourceNew(s) \/ AddSource(s) \/ \E f \in Fds : AddFd(s, f)

Starting == Setup \/ Run \/ (pc = "callback" /\ Quit)

Traffic ==
  /\ arrivals < MaxArrivals /\ arrivals' = arrivals + 1
  /\ \E f \in Fds : Arrive(f) \/ Expire(f)

LiveNext ==
  \/ Traffic
  \/ UNCHANGED arrivals /\ Intact /\ (Starting \/ LoopStep \/ Callback)

LiveSpec ==
  /\ LiveInit /\ [][LiveNext]_liveVars
  /\ WF_vars(LoopStep) /\ WF_vars(ReturnTrue) /\ SF_vars(ReadFd)

-----------------------------------------------------------------------------
InCallback(f) == pc = "callback" /\ cur = reg[f]

(* Every watched descriptor that can be read while the loop runs gets its  *)
(* callback, unless the program drops it or quits: edge triggering, the    *)
(* priorities and the events left unread never starve it for good.         *)
ReadyServed ==
  \A f \in Fds :
    pc # "user" /\ reg[f] # NoEfd /\ "IN" \in level[f]
      ~> InCallback(f) \/ reg[f] = NoEfd \/ ~run

(* An idle source of a running loop gets its callback over and over, even  *)
(* though its priority is the lowest and it disarms itself at every call.  *)
IdleRuns ==
  \A s \in Sources :
    Kind[s] = "idle" /\ s \in sources /\ pc # "user"
      ~> (pc = "callback" /\ efd[cur].source = s) \/ s \notin sources \/ ~run

=============================================================================
