\* Five slots, two values, every interleaving of the two clocks.
SPECIFICATION FairSpec
CONSTANTS
  BUFFER_DEPTH = 5
  Value = {0, 1}
PROPERTIES Implements Drains Reopens
