\* A client, a listener whose accepts may fail, two connections it may accept, and
\* descriptors for all of them.
SPECIFICATION Spec
CONSTANTS
  Fds = {f1, f2, f3, f4}
  Clients = {cl}
  Listeners = {ls}
  TLS = {ls}
  Accepted = {a1, a2}
  Free = free
  None = none
SYMMETRY Symmetry
INVARIANTS
  OwnDescriptor
  LeaksHaveCause
