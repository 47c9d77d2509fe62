SPECIFICATION Spec
CONSTANTS
  d1 = d1  d2 = d2  m1 = m1  m2 = m2  m3 = m3
  Devices = {d1, d2}
  Memories = {m1, m2, m3}
  Author <- MCAuthor
  BatchLimit = 2
  PageLimit = 2
  MaxEpochs = 2
  MaxLate = 1
INVARIANTS TypeOK NothingSkipped StampedIsStored NoDuplicates
