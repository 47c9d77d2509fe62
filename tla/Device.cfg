SPECIFICATION Spec
CONSTANTS
  c1 = c1  c2 = c2  h1 = h1  p1 = p1  r1 = r1  r2 = r2  r3 = r3  r4 = r4
  Connects = {c1, c2}
  Hubs = {h1}
  Projects = {p1}
  Rows = {r1, r2, r3, r4}
  Foreign = {r4}
  Baseline = {r1, r2}
  Project <- MCProject
  MaxConnects = 2
  MaxEdits = 1
  MaxJobs = 2
  MaxRuns = 2
SYMMETRY Symmetry
\* When the bounds are used up nothing more happens.
CHECK_DEADLOCK FALSE
INVARIANTS TypeOK BaselineKept
PROPERTIES ConnectKeepsOthers ReplacedIsBackedUp ExclusionHonoured
