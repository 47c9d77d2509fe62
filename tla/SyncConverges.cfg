SPECIFICATION FairSpec
CONSTANTS
  d1 = d1  d2 = d2  m1 = m1  m2 = m2  m3 = m3
  Devices = {d1, d2}
  Memories = {m1, m3}
  Author <- MCAuthor
  BatchLimit = 1
  PageLimit = 1
  MaxEpochs = 2
  MaxLate = 1
PROPERTY Converges
