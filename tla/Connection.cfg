\* Prefixes of two bytes can be split; lengths of zero, the maximum and one above it.
SPECIFICATION Spec
CONSTANTS
  PrefixLen = 2
  MAX_FRAME_LEN = 2
  Lengths = {0, 2, 3}
  MaxFrames = 2
INVARIANTS FramesInOrder OneInDoubt BufferBounded
PROPERTIES ArrivedIsAnswered Ends
\* The connection ends.
CHECK_DEADLOCK FALSE
