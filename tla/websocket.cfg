\* A handshake cut in any way, two frames of the browser, and one of the library.
SPECIFICATION Spec
CONSTANTS
  Requests <- SomeRequests
  MaxAnswers = 2
  Lengths = {0, 6, 126}
  MaxFrames = 2
  Asks = {2, 4}
  Garbage = {5}
  Sizes = {125, 126, 257, 65535}
INVARIANTS
  TypeOK
  AnswersKey
  DataIntact
  SizesRead
CHECK_DEADLOCK FALSE
