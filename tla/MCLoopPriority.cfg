SPECIFICATION Spec
CONSTANTS
  s1 = s1
  s2 = s2
  s3 = s3
  f1 = f1
  f2 = f2
  f3 = f3
  Sources = {s1, s2}
  Efds = {d1, d2}
  Fds = {f1, f2}
  Kind <- OnlyFds
  OwnFd <- OwnFds2
  Interval <- OneMs
  Prios = {0, 1}
  MaxEvents = 2
  MayRefuse = FALSE
  MaxRefs = 1
  AfterRemoval = {}
  LatePriority = TRUE
  NoSource = NoSource
  NoEfd = NoEfd
  NoFd = NoFd
SYMMETRY Symmetric
INVARIANT HighestFirst
CHECK_DEADLOCK FALSE
