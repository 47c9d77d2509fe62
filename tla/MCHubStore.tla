----------------------------- MODULE MCHubStore -----------------------------
(* Small instances of HubStore. Three entity revisions compete for two       *)
(* sequence numbers, and the first revision has two rival bodies.            *)
EXTENDS HubStore

CONSTANTS k1, k2, k3, d1, d2, r1, r2, cli

a == [key |-> k1, digest |-> "x"]
b == [key |-> k1, digest |-> "y"]
c == [key |-> k2, digest |-> "x"]
e == [key |-> k3, digest |-> "x"]

MCDigests == {"x", "y"}

\* An empty push, rival bodies, a repeat within one push, a known revision
\* followed by a new one, and enough revisions to exhaust MaxSeq.
MCBatches == {<<>>, <<a>>, <<b, c>>, <<c, c>>, <<e>>}
=============================================================================
