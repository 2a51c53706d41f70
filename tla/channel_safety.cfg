\* Eight windows of two sequence numbers: they wrap at sixteen, and two windows can
\* be missing when the next one is sent.
SPECIFICATION Spec
CONSTANTS
  WINDOWS = 8
  WINDOW_SIZE = 2
  FREE_WINDOWS = 4
  MaxLag = 10
  MaxSent = 18
  MaxQueued = 1
INVARIANTS
  BooksRight
  NeverStuck
PROPERTIES
  FifoSpec
CHECK_DEADLOCK FALSE
