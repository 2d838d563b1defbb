--------------------------- MODULE MCEventLoopLive ---------------------------
(* An fds source with two descriptors and an idle source, for EventLoopLive. *)
EXTENDS EventLoopLive

CONSTANTS s1, s2, f1, f2, f3

OwnFds2 == [s \in Sources |-> IF s = s1 THEN f1 ELSE f2]
OneMs == [s \in Sources |-> 1]
FdsAndIdle == [s \in Sources |-> IF s = s1 THEN "fds" ELSE "idle"]

=============================================================================
