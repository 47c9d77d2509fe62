\* A process dies holding the lock, and two callers find it stale.
SPECIFICATION Spec
CONSTANTS
  r1 = r1  r2 = r2  o1 = o1
  Redeemers = {r1, r2}
  Openers = {o1}
  MaxAttempts = 2
  MaxCodes = 2
  MaxCrashes = 1
INVARIANT Exclusive
