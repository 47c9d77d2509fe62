\* A process may die holding the lock; two callers may find it stale.
SPECIFICATION FairSpec
CONSTANTS
  r1 = r1  r2 = r2  o1 = o1
  Redeemers = {r1, r2}
  Openers = {o1}
  MaxAttempts = 2
  MaxCodes = 1
  MaxCrashes = 1
INVARIANTS TypeOK ExclusiveUnlessStolen SingleUse Budget
PROPERTIES ClosedStaysClosed LockFreed
