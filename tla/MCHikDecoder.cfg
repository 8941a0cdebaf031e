SPECIFICATION DecoderSpec
CONSTANTS
  Base = 4
  Dollar = 3
  Interleave = 1
  Header = 1
  MaxChunk = 3
  MaxFed = 8
INVARIANT CutsDoNotMatter
INVARIANT BufferBounded
CHECK_DEADLOCK FALSE
