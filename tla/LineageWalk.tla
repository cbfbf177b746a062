---------------------------- MODULE LineageWalk -----------------------------
(***************************************************************************)
(* The two walks over a built process tree: ancestry_by_pid follows parent *)
(* links upward, descendants_by_pid explores recorded children depth first *)
(* from an explicit stack.  Both stop at a cap and guard against cycles    *)
(* with a visited set.  One action is one turn of the loop.                *)
(*                                                                         *)
(* Keys are numbered in the order in which sorted_child_keys sorts them:   *)
(* by start time, then pid, then key.  The tree is any tree with the shape *)
(* of TreeShape, so parent links may form cycles and dangle, and a node    *)
(* may be recorded under several parents.                                  *)
(***************************************************************************)
EXTENDS Naturals, Sequences, FiniteSets, TreeShape

CONSTANTS
  NodeKeys,  \* process keys, numbered by age
  Caps       \* values of max_depth of the ancestry, max_nodes of the descendants

ASSUME NodeKeysAssumption == NodeKeys \subseteq Nat /\ IsFiniteSet(NodeKeys) /\ None \notin NodeKeys
ASSUME CapsAssumption == Caps \subseteq Nat

VARIABLES
  stored,    \* keys that have a node
  parentOf,  \* parentOf[k]: parent_process_key of the node of k
  kids,      \* kids[k]: recorded children of k
  mode,      \* "idle", "walking" or "done"
  walk,      \* which of the two walks runs or ran
  cap,       \* the cap the walk was called with
  root,      \* the key the walk was asked for, None for an unknown pid
  current,   \* ancestry: the node to look at next, or None
  stack,     \* descendants: keys still to pop, the top is last
  visited,   \* keys already met
  output     \* the nodes returned, in order

tree == <<stored, parentOf, kids>>
walkVars == <<tree, mode, walk, cap, root, current, stack, visited, output>>

Walks == {"ancestry", "descendants"}

WalkTypeOK ==
  /\ stored \subseteq NodeKeys
  /\ parentOf \in [NodeKeys -> NodeKeys \cup {None}]
  /\ kids \in [NodeKeys -> SUBSET NodeKeys]
  /\ mode \in {"idle", "walking", "done"}
  /\ walk \in Walks /\ cap \in Caps
  /\ root \in stored \cup {None} /\ current \in stored \cup {None}
  /\ stack \in Seq(NodeKeys)
  /\ visited \subseteq NodeKeys
  /\ output \in Seq(stored)

WalkInit ==
  /\ stored \in SUBSET NodeKeys
  /\ parentOf \in [NodeKeys -> NodeKeys \cup {None}]
  /\ \A k \in NodeKeys \ stored : parentOf[k] = None
  /\ kids \in [NodeKeys -> SUBSET stored]
  /\ WellLinked(stored, parentOf, kids)
  /\ mode = "idle" /\ walk \in Walks /\ cap \in Caps
  /\ root = None /\ current = None
  /\ stack = <<>> /\ visited = {} /\ output = <<>>

-----------------------------------------------------------------------------
(* ancestry_by_pid                                                         *)

AncestryStart(k) ==
  /\ mode = "idle" /\ walk = "ancestry"
  /\ mode' = "walking"
  /\ root' = k /\ current' = k
  /\ UNCHANGED <<tree, walk, cap, stack, visited, output>>

\* The parent key leads on only if a node is stored under it.
ParentNode(k) == IF parentOf[k] \in stored THEN parentOf[k] ELSE None

AncestryEnd ==
  /\ mode = "walking" /\ walk = "ancestry"
  /\ current = None \/ current \in visited
  /\ mode' = "done"
  /\ UNCHANGED <<tree, walk, cap, root, current, stack, visited, output>>

\* Broken forms: the step does not mark the node visited, and it stops one
\* node short of the cap.
AncestryStepUnmarked ==
  /\ mode = "walking" /\ walk = "ancestry"
  /\ current # None /\ current \notin visited
  /\ output' = Append(output, current)
  /\ IF Len(output') >= cap
     THEN mode' = "done" /\ UNCHANGED current
     ELSE current' = ParentNode(current) /\ UNCHANGED mode
  /\ UNCHANGED <<tree, walk, cap, root, stack, visited>>
AncestryStepShort ==
  /\ mode = "walking" /\ walk = "ancestry"
  /\ current # None /\ current \notin visited
  /\ visited' = visited \cup {current}
  /\ output' = Append(output, current)
  /\ IF Len(output') + 1 >= cap
     THEN mode' = "done" /\ UNCHANGED current
     ELSE current' = ParentNode(current) /\ UNCHANGED mode
  /\ UNCHANGED <<tree, walk, cap, root, stack>>

\* The depth is compared with the cap after the node is pushed.
AncestryStep ==
  /\ mode = "walking" /\ walk = "ancestry"
  /\ current # None /\ current \notin visited
  /\ visited' = visited \cup {current}
  /\ output' = Append(output, current)
  /\ IF Len(output') >= cap
     THEN mode' = "done" /\ UNCHANGED current
     ELSE current' = ParentNode(current) /\ UNCHANGED mode
  /\ UNCHANGED <<tree, walk, cap, root, stack>>

-----------------------------------------------------------------------------
(* descendants_by_pid                                                      *)

\* The children of k, oldest first: the i-th has i - 1 older siblings.
SortedChildKeys(k) ==
  [i \in 1 .. Cardinality(kids[k]) |->
     CHOOSE c \in kids[k] : Cardinality({o \in kids[k] : o < c}) = i - 1]

Reversed(s) == [i \in DOMAIN s |-> s[Len(s) + 1 - i]]
Top == stack[Len(stack)]
Popped == SubSeq(stack, 1, Len(stack) - 1)

\* Broken form: the root is not marked visited.
DescendantsStartUnmarked(k) ==
  /\ mode = "idle" /\ walk = "descendants"
  /\ root' = k
  /\ IF k = None
     THEN mode' = "done" /\ UNCHANGED <<stack, visited>>
     ELSE mode' = "walking" /\ stack' = SortedChildKeys(k) /\ visited' = {}
  /\ UNCHANGED <<tree, walk, cap, current, output>>

\* The children of the root go on the stack unreversed: the youngest is popped
\* first, while below the root the oldest is.
DescendantsStart(k) ==
  /\ mode = "idle" /\ walk = "descendants"
  /\ root' = k
  /\ IF k = None
     THEN mode' = "done" /\ UNCHANGED <<stack, visited>>
     ELSE mode' = "walking" /\ stack' = SortedChildKeys(k) /\ visited' = {k}
  /\ UNCHANGED <<tree, walk, cap, current, output>>

DescendantsEnd ==
  /\ mode = "walking" /\ walk = "descendants"
  /\ stack = <<>> \/ Len(output) >= cap
  /\ mode' = "done"
  /\ stack' = IF stack = <<>> THEN stack ELSE Popped
  /\ UNCHANGED <<tree, walk, cap, root, current, visited, output>>

\* Broken form: a key already visited stays on the stack.
DescendantsSkipUnpopped ==
  /\ mode = "walking" /\ walk = "descendants"
  /\ stack # <<>> /\ Len(output) < cap /\ Top \in visited
  /\ UNCHANGED walkVars

DescendantsSkip ==
  /\ mode = "walking" /\ walk = "descendants"
  /\ stack # <<>> /\ Len(output) < cap /\ Top \in visited
  /\ stack' = Popped
  /\ UNCHANGED <<tree, mode, walk, cap, root, current, visited, output>>

\* Broken form: the node's children replace its siblings.
DescendantsStepDropsSiblings ==
  /\ mode = "walking" /\ walk = "descendants"
  /\ stack # <<>> /\ Len(output) < cap /\ Top \notin visited
  /\ visited' = visited \cup {Top}
  /\ output' = IF Top \in stored THEN Append(output, Top) ELSE output
  /\ stack' = Reversed(SortedChildKeys(Top))
  /\ UNCHANGED <<tree, mode, walk, cap, root, current>>

DescendantsStep ==
  /\ mode = "walking" /\ walk = "descendants"
  /\ stack # <<>> /\ Len(output) < cap /\ Top \notin visited
  /\ visited' = visited \cup {Top}
  /\ output' = IF Top \in stored THEN Append(output, Top) ELSE output
  /\ stack' = Popped \o Reversed(SortedChildKeys(Top))
  /\ UNCHANGED <<tree, mode, walk, cap, root, current>>

-----------------------------------------------------------------------------

Start == \E k \in stored \cup {None} : AncestryStart(k) \/ DescendantsStart(k)

Turn == \/ AncestryEnd \/ AncestryStep
        \/ DescendantsEnd \/ DescendantsSkip \/ DescendantsStep

WalkNext == Start \/ Turn

\* A call runs to its end once it is made: the loop is plain sequential code.
WalkSpec == WalkInit /\ [][WalkNext]_walkVars /\ WF_walkVars(Turn)

-----------------------------------------------------------------------------

Returned == {output[i] : i \in DOMAIN output}

NoneTwice == \A i, j \in DOMAIN output : output[i] = output[j] => i = j

\* The ancestry starts at the process asked for, follows parent links one by
\* one and never shows a process twice, whatever cycles the links form.
AncestryIsAChain ==
  (walk = "ancestry" /\ output # <<>>) =>
     /\ output[1] = root /\ NoneTwice
     /\ \A i \in 2 .. Len(output) : output[i] = parentOf[output[i - 1]]

\* The ancestry is not cut short: when it ends below the cap, the last one has
\* no stored parent or a parent already shown.
AncestryIsMaximal ==
  (walk = "ancestry" /\ mode = "done" /\ root # None /\ Len(output) < cap) =>
     output # <<>> /\ ParentNode(output[Len(output)]) \in Returned \cup {None}

\* Descendants are found through recorded children: each one returned is a
\* child of the root or of one returned before it, so that a capped result is
\* still one connected tree; the root is not its own descendant.
DescendantsAreConnected ==
  walk = "descendants" =>
     /\ NoneTwice /\ root \notin Returned
     /\ \A i \in DOMAIN output :
          \E q \in {root} \cup {output[j] : j \in 1 .. i - 1} : output[i] \in kids[q]

\* Nothing reachable is missed: when the walk ends below the cap, the root and
\* the nodes returned are closed under recorded children.
DescendantsAreComplete ==
  (walk = "descendants" /\ mode = "done" /\ root # None /\ Len(output) < cap) =>
     \A k \in {root} \cup Returned : kids[k] \subseteq {root} \cup Returned

\* Every walk that starts ends, cycles or not.
WalkEnds == mode = "walking" ~> mode = "done"
=============================================================================
