\* Two values of a byte; an extrabuf both smaller and larger than the writable
\* part can be.
CONSTANTS
  Bytes = {0, 1}
  Zero = 0
  Strings <- MCStrings
  kCheapPrepend = 2
  kInitialSize = 3
  ExtraSize = 2
  MaxHeld = 5
SPECIFICATION Spec
INVARIANTS TypeOK BoundedWaste
PROPERTY ImplementsByteQueue
