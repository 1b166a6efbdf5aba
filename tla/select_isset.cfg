\* A program that asks about every open socket.
SPECIFICATION Safe
CONSTANTS
  Sockets = {3, 5}
  Timeouts = {0, 1}
  Careful = FALSE
PROPERTIES
  ReportsLastSelect
