CONSTANTS
  MaxPage = 3
  MaxData = 6
  Bytes = {0, 1}
  Zero = 0
  PageSize = 4
  Spaces = {2, 3, 4}
  Longest = 6
  Size = 3
  MaxLen = 5
  Careful = TRUE
  A = A
  B1 = B1
  k = k
  m = m
  Sections = {A, B1}
  Keys = {k, m}
  Type <- MCType
  NL = NL
  Sign = Sign
  Hex = Hex
  Missing = Missing
  Bits = 4
  Data <- MCData
  Buffer = 9
  Files <- MCFiles
SPECIFICATION Spec
INVARIANTS ActsAsSet BytesAreKept BufferIsFile FileIsMap LinesAreWhole
