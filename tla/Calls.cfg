SPECIFICATION MCSpec
CONSTANTS
  Roms <- MCRoms
  Limits <- MCLimits
  Pages = 8
  NarrowPages = 4
  ByteBits = 2
  SequenceBits = 4
  MaxSequences = 3
  MaxBits = 10
  Sizes = {4, 5, 7}
  MaxStream = 4
  ChipBits = 3
CHECK_DEADLOCK FALSE
INVARIANTS StreamKept WalkFaithful WalkBounded
