SPECIFICATION MCSpec
\* All values have been read, or a read or write_vlong() does not end.
CHECK_DEADLOCK FALSE
CONSTANTS
  a = a  b = b  r1 = r1  r2 = r2
  Byte <- MCByte
  Readers <- MCReaders
  EOF = EOF
  None = None
  Junk = Junk
  BUFFER_SIZE = 2
  RAM_BUFFER_SIZE = 2
  IntMax = 2
  RAMLength = 4
  Setups <- MCSetups
  Flag = 8
  IntBytes = 2
  BitOr <- MCBitOr
  Ints <- MCInts
  Longs <- MCLongs
  Strings <- MCStrings
  Maps <- MCMaps
  Null = Null
  COPY_BUFFER_SIZE = 5
  MaxValues = 2
  MCParts <- OnlyCodec
\* index_output.h:61-63 against the loop of write_vlong().
INVARIANT VlongIsShort
