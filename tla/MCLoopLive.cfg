SPECIFICATION LiveSpec
CONSTANTS
  MaxArrivals = 2
  s1 = s1
  s2 = s2
  f1 = f1
  f2 = f2
  f3 = f3
  Sources = {s1, s2}
  Efds = {d1, d2, d3}
  Fds = {f1, f2, f3}
  Kind <- FdsAndIdle
  OwnFd <- OwnFds2
  Interval <- OneMs
  Prios = {0}
  MaxEvents = 3
  MayRefuse = FALSE
  MaxRefs = 1
  AfterRemoval = {}
  LatePriority = FALSE
  NoSource = NoSource
  NoEfd = NoEfd
  NoFd = NoFd
PROPERTIES ReadyServed IdleRuns
CHECK_DEADLOCK FALSE
