\* Two buffers, that are sent, relayed, stacked and read.
SPECIFICATION Spec
CONSTANTS
  Buffers = {b1, b2}
  HeaderSize = 3
  Bytes = {0, 1}
  Opaque = z
  Items <- SomeItems
  Tags = {t1}
  NoTag = t0
  ZipSizes = {2}
  MaxCalls = 4
  MaxZips = 1
SYMMETRY Symmetry
INVARIANTS
  TypeOK
  Announced
  RoundTrip
  StackFits
CHECK_DEADLOCK FALSE
