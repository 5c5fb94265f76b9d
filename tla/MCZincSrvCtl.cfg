\* Two peers, six streams, every way to cut them into arrivals.
\* CHECK_DEADLOCK FALSE: a server that has lost all its descriptors stops.
SPECIFICATION Spec
CONSTANTS
  f1 = f1
  f2 = f2
  Fd = {f1, f2}
  Streams <- PeerStreams
  Header = 2
  Word = 8
INVARIANTS
  TypeOK
  OnePerCallback
  HandledOnce
  SuccessOnce
  TableOpen
CHECK_DEADLOCK FALSE
