SPECIFICATION RestoreSpec
CONSTANTS
  k1 = k1  k2 = k2  d1 = d1  r1 = r1  cli = cli
  Serve = Serve
  Clis = {cli}
  Reqs = {r1}
  Devices = {d1}
  Keys = {k1, k2}
  Digests = {"x"}
  Batches <- MCBatches
  MaxSeq = 2
  MaxEpochs = 2
INVARIANTS SoundAfterRestore WipeStartsEpoch
