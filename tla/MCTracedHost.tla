---------------------------- MODULE MCTracedHost ----------------------------
(* Images only ever compare equal or not: they may be exchanged.           *)
EXTENDS TracedHost, TLC

ImagesAlike == Permutations(Images)
=============================================================================
