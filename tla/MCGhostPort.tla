---------------------------- MODULE MCGhostPort -----------------------------
(* Two setups and a check over two pids, so that a pid is used again.      *)
EXTENDS GhostPort

CONSTANTS s1, s2, c1
=============================================================================
