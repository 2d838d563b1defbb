SPECIFICATION Spec
CONSTANTS
  s1 = s1
  s2 = s2
  s3 = s3
  f1 = f1
  f2 = f2
  f3 = f3
  Sources = {s1, s2, s3}
  Efds = {d1, d2, d3}
  Fds = {f1, f2, f3}
  Kind <- Owners
  OwnFd <- OwnFds2
  Interval <- OneMs
  Prios = {0}
  MaxEvents = 1
  MayRefuse = TRUE
  MaxRefs = 1
  AfterRemoval = {}
  LatePriority = FALSE
  NoSource = NoSource
  NoEfd = NoEfd
  NoFd = NoFd
SYMMETRY Symmetric
INVARIANTS NoLostReadiness Rearmed NeverSleepsOnWork
CHECK_DEADLOCK FALSE
