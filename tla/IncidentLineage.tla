-------------------------- MODULE IncidentLineage --------------------------
(***************************************************************************)
(* The two walks of LineageWalk: on small trees of any shape, and on the   *)
(* larger trees that Incident has.  Incident says in closed form which     *)
(* processes an incident takes from the tree; the code finds them turn by  *)
(* turn.  Here the one is compared with the other.                         *)
(***************************************************************************)
EXTENDS LineageWalk

CONSTANT Small  \* bound: the keys of the trees of any shape

ASSUME SmallAssumption == Small \subseteq NodeKeys

VARIABLE mother  \* mother[k]: whose recorded child k is, or None; None on trees of any shape

lineageVars == <<walkVars, mother>>

Called ==
  /\ mode = "idle" /\ walk \in Walks /\ cap \in Caps
  /\ root = None /\ current = None
  /\ stack = <<>> /\ visited = {} /\ output = <<>>

\* WalkInit with its nodes and links among Small.
AnyShapeInit ==
  /\ mother = None
  /\ stored \in SUBSET Small
  /\ \E p \in [Small -> Small \cup {None}] :
       parentOf = [k \in NodeKeys |-> IF k \in stored THEN p[k] ELSE None]
  /\ \E c \in [Small -> SUBSET stored] :
       kids = [k \in NodeKeys |-> IF k \in Small THEN c[k] ELSE {}]
  /\ WellLinked(stored, parentOf, kids)
  /\ Called

\* A tree as forks and execs in the order of their time leave it: a process has
\* one edge to it, from an older one, and its parent link is that or gone.
FamilyInit ==
  /\ mother \in {m \in [NodeKeys -> NodeKeys \cup {None}] :
                   \A k \in NodeKeys : m[k] # None => m[k] < k}
  /\ stored = NodeKeys
  /\ kids = [m \in NodeKeys |-> {k \in NodeKeys : mother[k] = m}]
  /\ parentOf \in {p \in [NodeKeys -> NodeKeys \cup {None}] :
                     \A k \in NodeKeys : p[k] \in {mother[k], None}}
  /\ Called

LineageInit == AnyShapeInit \/ FamilyInit

LineageNext == WalkNext /\ UNCHANGED mother

\* The fairness of WalkSpec.
LineageSpec ==
  LineageInit /\ [][LineageNext]_lineageVars /\ WF_lineageVars(Turn /\ UNCHANGED mother)

\* Incident on such a tree, its processes forked one by one, with caps of the walk.
Capped(upCap) == INSTANCE Incident WITH
  Pids <- NodeKeys, Kinds <- {}, Images <- [k \in NodeKeys |-> {{}}], HostTrust <- 0,
  UpCap <- upCap, DownCaps <- Caps \ {0}, ListLimit <- 1, Roots <- NodeKeys, MaxTime <- 0, MaxActs <- 0,
  downCap <- cap, now <- 0, acts <- {},
  procs <- [k \in NodeKeys |-> [mother |-> mother[k], parent |-> parentOf[k], start |-> 0,
                                exit |-> None, image |-> {}, ran |-> TRUE]]

-----------------------------------------------------------------------------
(* Properties.                                                             *)

\* The lineage of an incident is what the code's loops return, also where the
\* cap cuts it off: ancestry_by_pid follows the links, and descendants_by_pid
\* takes the children of the root from the youngest, those below from the eldest.
LineageIsIncidents ==
  (mother # None /\ mode = "done" /\ root # None) =>
    \A c \in Caps \ {0} : c = cap =>
      Returned = IF walk = "ancestry" THEN Capped(c)!Ancestry(root)
                                      ELSE Capped(c)!Descendants(root)
=============================================================================
