\* Two devices, two slots, a command that revokes, and fair request handling.
SPECIFICATION ServerFairSpec
CONSTANTS
  k1 = k1  d1 = d1  d2 = d2  r1 = r1  r2 = r2  cli = cli
  Serve = Serve
  Clis = {cli}
  Reqs = {r1, r2}
  Devices = {d1, d2}
  Keys = {k1}
  Digests <- MCDigests
  Batches <- MCBatches
  Arrivals <- MCArrivals
  MaxSeq = 1
  MaxEpochs = 1
  MaxInFlight = 2
INVARIANTS RevokedGetsNothing AnnouncedIsServable
PROPERTIES RequestAnswered OverloadEnds RevocationTakesEffect
