\* Three frames, cut anywhere: one turns encryption on, a later one waits.
\* CHECK_DEADLOCK FALSE: the peer stops after MaxFrames frames.
SPECIFICATION Spec
CONSTANTS
  Base = 4
  Length = {3}
  MaxFrames = 3
INVARIANT WaitedFrameSurvives
CHECK_DEADLOCK FALSE
