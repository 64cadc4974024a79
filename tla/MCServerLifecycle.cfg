SPECIFICATION FairSpec
\* All servers may have exited.
CHECK_DEADLOCK FALSE
CONSTANTS
  Server = {s1, s2}
  Client = {c1, c2, c3}
  NoServer = NoServer
  NoClient = NoClient
  PortArgument = {40000, 105536}
  Backlog = 1
  MayBeKilled = {s1, c1}
INVARIANTS
  IInv
  UnservedForACause
PROPERTIES
  RestartGetsPort
  NoClientHangs
