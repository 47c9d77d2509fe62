---------------------------- MODULE MCHubRestore ----------------------------
(* One request at a time and one command-line process; the database file is  *)
(* wiped or restored between runs of the hub.                                *)
EXTENDS HubRestore

CONSTANTS k1, k2, d1, r1, cli

MCBatches == {<<[key |-> k, digest |-> "x"]>> : k \in {k1, k2}}
=============================================================================
