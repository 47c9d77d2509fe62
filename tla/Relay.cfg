SPECIFICATION RSpec
CONSTANTS
  MaxRows = 4
  MaxInt64 = 12
  MaxUint64 = 25
  MaxBodyBytes = 4
  MaxDeviceIDLen = 2
  MaxPageLimit = 3
  MaxBytes = 3
  Grain = 8
  Limits <- MCLimits
  Texts <- MCTexts
  Revs <- MCRevs
  Junk <- MCJunk
INVARIANTS TypeOK PageContract
PROPERTIES CatchesUp OutboxDrains
\* When the client has caught up and the log is full nothing more happens.
CHECK_DEADLOCK FALSE
