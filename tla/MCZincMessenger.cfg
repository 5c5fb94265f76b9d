\* Two plugins, three messages, every schedule of the loop and its threads.
\* CHECK_DEADLOCK FALSE: a process that has died stays dead.
SPECIFICATION Spec
CONSTANTS
  Plugin = {p1, p2}
  Server = Server
  NoCallback = NoCallback
  Script <- Packets
INVARIANTS
  TypeOK
  TasksExact
  HandledOnce
  RepliesMatch
  OneSenderServed
PROPERTIES
  WorkEndsProcess
  ServedUnlessTorn
CHECK_DEADLOCK FALSE
