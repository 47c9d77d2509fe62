------------------------------ MODULE MCDevice ------------------------------
(* Two connects, one backfill at a time, and rows that differ in what the    *)
(* backfill looks at: who wrote them, the baseline, the project.             *)
EXTENDS Device, TLC

CONSTANTS c1, c2, h1, p1, r1, r2, r3, r4

\* r2 has no project: a prompt whose session is gone. r4 came from another device.
MCProject == r1 :> p1 @@ r2 :> NoProject @@ r3 :> p1 @@ r4 :> p1
Symmetry == Permutations({c1, c2})
=============================================================================
