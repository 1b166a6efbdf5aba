\* Two descriptors, and a program that asks only about sockets it has not touched.
SPECIFICATION Spec
CONSTANTS
  Sockets = {3, 5}
  Timeouts = {0, 1}
  Careful = TRUE
INVARIANTS
  TypeOK
  SelectSeesAll
  HandlerOwns
PROPERTIES
  ReportsLastSelect
  ImplementsMonitor
  EventuallyReported
