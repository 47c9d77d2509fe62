-------------------------- MODULE MCPairingWindow ---------------------------
(* Two handlers of serve, and one `cmemlan pair` run twice.                  *)
EXTENDS PairingWindow

CONSTANTS r1, r2, o1
=============================================================================
