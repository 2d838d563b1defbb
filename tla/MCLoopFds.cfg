SPECIFICATION Spec
CONSTANTS
  s1 = s1
  s2 = s2
  s3 = s3
  f1 = f1
  f2 = f2
  f3 = f3
  Sources = {s1}
  Efds = {d1, d2, d3}
  Fds = {f1, f2}
  Kind <- OnlyFds
  OwnFd <- OwnFds2
  Interval <- OneMs
  Prios = {0}
  MaxEvents = 1
  MayRefuse = TRUE
  MaxRefs = 2
  AfterRemoval = {}
  LatePriority = FALSE
  NoSource = NoSource
  NoEfd = NoEfd
  NoFd = NoFd
SYMMETRY Symmetric
INVARIANTS QueueExact KernelPointers NoLostReadiness
CHECK_DEADLOCK FALSE
