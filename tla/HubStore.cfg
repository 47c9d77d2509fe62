\* serve with two requests at once, and one command-line process.
SPECIFICATION Spec
CONSTANTS
  k1 = k1  k2 = k2  k3 = k3  d1 = d1  d2 = d2  r1 = r1  r2 = r2  cli = cli
  Serve = Serve
  Clis = {cli}
  Reqs = {r1, r2}
  Devices = {d1}
  Keys = {k1, k2, k3}
  Digests <- MCDigests
  Batches <- MCBatches
  MaxSeq = 2
  MaxEpochs = 2
INVARIANTS TypeOK LogGapless KeysUnique AcksDurable HeadNotAhead AnswersComplete
PROPERTIES AppendOnly RevokedStaysRevoked ImplementsOpLog
