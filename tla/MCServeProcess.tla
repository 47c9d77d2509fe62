--------------------------- MODULE MCServeProcess ---------------------------
(* Two serves on one data directory, and one other command at a time.        *)
EXTENDS ServeProcess

CONSTANTS s1, s2, c1
=============================================================================
