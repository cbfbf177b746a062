----------------------------- MODULE TreeShape ------------------------------
(***************************************************************************)
(* The shape the process tree guarantees and its walks rely on: ProcTree   *)
(* keeps it as an invariant, LineageWalk starts from every tree that has   *)
(* it.                                                                     *)
(***************************************************************************)

CONSTANT None  \* an Option that is empty

\* Of the nodes stored, parentOf is the parent link (None without one) and
\* kids the recorded child keys.  A parent link, to a stored node or not, has
\* its edge among the parent's children; children are stored nodes, and no key
\* is its own child.
WellLinked(stored, parentOf, kids) ==
  /\ \A k \in stored : parentOf[k] \notin {None, k} => k \in kids[parentOf[k]]
  /\ \A k \in DOMAIN kids : kids[k] \subseteq stored \ {k}
=============================================================================
