\* A command-line Open racing a push.
SPECIFICATION Spec
CONSTANTS
  k1 = k1  k2 = k2  k3 = k3  d1 = d1  d2 = d2  r1 = r1  r2 = r2  cli = cli
  Serve = Serve
  Clis = {cli}
  Reqs = {r1}
  Devices = {d1}
  Keys = {k1, k2, k3}
  Digests <- MCDigests
  Batches <- MCBatches
  MaxSeq = 2
  MaxEpochs = 2
INVARIANT AckWithinHead
