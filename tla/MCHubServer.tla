---------------------------- MODULE MCHubServer -----------------------------
(* Two requests at a time over a log of one number: pushes and pulls of two  *)
(* devices, and every way to be refused before the store is asked.           *)
EXTENDS HubServer

CONSTANTS k1, d1, d2, r1, r2, cli

a == [key |-> k1, digest |-> "x"]

MCDigests == {"x"}
MCBatches == {<<a>>}

From(d, route) == [route |-> route, flaw |-> "none", from |-> d, hdr |-> d, ops |-> <<a>>]

\* d1 pushes, d2 pulls and asks for the status; then what is refused.
MCArrivals ==
  {From(d1, "ops"), From(d2, "changes"), From(d2, "status"),
   [From(d1, "ops") EXCEPT !.flaw = "body"], [From(d1, "status") EXCEPT !.hdr = NoDev],
   [From(d2, "status") EXCEPT !.flaw = "token"], [From(d2, "status") EXCEPT !.flaw = "method"],
   [From(d2, "healthz") EXCEPT !.flaw = "origin"], From(d2, "healthz"), From(d2, "pair"),
   [From(d2, "pair") EXCEPT !.flaw = "body"], From(d2, "elsewhere")}
=============================================================================
