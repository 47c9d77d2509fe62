SPECIFICATION FairSpec
CONSTANTS
  s1 = s1  s2 = s2  c1 = c1
  Serves = {s1, s2}
  Clis = {c1}
  Pids = {1, 2}
  MaxKeys = 5
  MaxRotations = 1
  MaxFaults = 1
INVARIANTS TypeOK SettledLockStands PairedStaysPaired
PROPERTY HubComesBack
