----------------------------- MODULE MCEventLoop -----------------------------
(* Small instances of EventLoop for TLC.  A configuration names the sources *)
(* and picks one of the kinds below for them.                              *)
EXTENDS EventLoop, TLC

CONSTANTS s1, s2, s3, f1, f2, f3

Symmetric == Permutations(Efds)

OwnFds2 == [s \in Sources |-> IF s = s1 THEN f1 ELSE IF s = s2 THEN f2 ELSE f3]
Owners == [s \in Sources |-> IF s = s1 THEN "timeout" ELSE IF s = s2 THEN "idle" ELSE "signal"]
OneMs == [s \in Sources |-> 1]

OnlyFds == [s \in Sources |-> "fds"]
FdsAndTimeout == [s \in Sources |-> IF s = s1 THEN "fds" ELSE "timeout"]

=============================================================================
