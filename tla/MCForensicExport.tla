-------------------------- MODULE MCForensicExport --------------------------
(* Two exports beside each other, and a store that changes once.           *)
EXTENDS ForensicExport, TLC

CONSTANTS e1, e2

MCExporters == {e1, e2}
Symmetry == Permutations(MCExporters)
=============================================================================
