\* One frame, cut anywhere.
\* CHECK_DEADLOCK FALSE: the peer stops after MaxFrames frames.
SPECIFICATION Spec
CONSTANTS
  Base = 4
  Length = {3}
  MaxFrames = 1
INVARIANT PartialFrameWaits
CHECK_DEADLOCK FALSE
