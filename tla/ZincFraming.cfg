\* Three frames with one- and two-byte prefixes (a digit has four values, so 4
\* and 5 are the scaled 128 and 129), cut at every byte;
\* encryption may start after any frame but the first.
\* CHECK_DEADLOCK FALSE: the peer stops after MaxFrames frames.
SPECIFICATION Spec
CONSTANTS
  Base = 4
  Length = {1, 3, 4, 5, 7}
  MaxFrames = 3
INVARIANTS
  TypeOK
  BytesAccounted
  ShortByPrefixAtMost
PROPERTY
  HandshakeContinues
CHECK_DEADLOCK FALSE
