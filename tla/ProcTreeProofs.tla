--------------------------- MODULE ProcTreeProofs ---------------------------
(***************************************************************************)
(* Of ProcTree, for any pids, images, hostProcessId values and any number  *)
(* of seconds: whatever events it is given, the tree is consistent and     *)
(* takes nothing back.                                                     *)
(*                                                                         *)
(* Of TracedHost, for any host whose processes fork, exec, exit and are    *)
(* adopted: the tree gets only streams of events ProcTree knows, and while *)
(* no pid is given out twice it tells the truth about every process,       *)
(* however the events of a second are ordered.                             *)
(*                                                                         *)
(* Of LineageWalk, for a tree of any size and shape, with whatever cycles  *)
(* its parent links form, and for any cap: the ancestry is a chain and is  *)
(* not cut short, the descendants are connected and none is missed.        *)
(***************************************************************************)
EXTENDS TracedHost, LineageWalk, SequenceTheorems, FiniteSetTheorems, FunctionTheorems, TLAPS

-----------------------------------------------------------------------------
(* The helpers.                                                            *)

\* A parent resolved from well-typed state is a key or none, and never the
\* child's own pid unless the index has another pid's key for it.
LEMMA ResolveParentKeyType ==
  ASSUME TypeOK, NEW pid \in Pids, NEW ppid \in Pids \cup {None}, NEW t \in Times
  PROVE  ResolveParentKey(ppid, pid, t) \in Keys \cup {None}
  BY DEF TypeOK, ResolveParentKey, Keys

\* The key recorded for a pid is a key.
LEMMA KeyForType ==
  ASSUME TypeOK, NEW pid \in Pids, NEW firstKey \in Keys
  PROVE  KeyFor(pid, firstKey) \in Keys
  BY DEF TypeOK, KeyFor

\* The node to be updated is well typed, keeps its start time if it was
\* stored, and has not started later than t.
LEMMA EntryOrType ==
  ASSUME TypeOK, NEW key \in Keys, NEW pid \in Pids, NEW t \in Times
  PROVE  /\ EntryOr(key, pid, t) \in Node
         /\ nodes[key] # None => EntryOr(key, pid, t) = nodes[key]
         /\ nodes[key] = None => /\ EntryOr(key, pid, t).start = t
                                 /\ EntryOr(key, pid, t).exit = None
  BY DEF TypeOK, EntryOr, Node

\* The key of an event of a pid is a key.
LEMMA EventKeysType ==
  ASSUME NEW pid \in Pids, NEW t \in Times
  PROVE  EventKeys(pid, t) \subseteq Keys
  BY PidsAssumption DEF EventKeys, Keys

\* LinksHaveEdges read key by key.
Linked ==
  /\ \A k \in Keys : nodes[k] # None =>
       ((nodes[k].parent # None /\ nodes[k].parent # k) => k \in children[nodes[k].parent])
  /\ \A k \in Keys : \A c \in children[k] : c \in Keys /\ nodes[c] # None /\ c # k

\* The conjunct of the invariant, written without TreeShape, is the property.
LEMMA LinkedIsLinksHaveEdges ==
  ASSUME TypeOK
  PROVE  Linked <=> LinksHaveEdges
  BY DEF TypeOK, Linked, LinksHaveEdges, WellLinked

-----------------------------------------------------------------------------
(* The inductive invariant, and what no step undoes.                       *)

IInv == TypeOK /\ IndexCoversNodes /\ Linked /\ LifetimesOrdered

Kept ==
  /\ \A p \in Pids : pidIndex[p] # None => pidIndex'[p] = pidIndex[p]
  /\ \A k \in Keys : nodes[k] # None =>
        nodes'[k] # None /\ nodes'[k].start = nodes[k].start
  /\ \A k \in Keys : /\ children[k] \subseteq children'[k]
                     /\ \A c \in children'[k] \ children[k] : nodes'[c].parent = k

\* What an exec or a fork writes: a node under the key in use for its pid, that
\* continues the stored one or starts now.
Continues(pid, key, node, t) ==
  /\ pidIndex[pid] # None => key = pidIndex[pid]
  /\ nodes[key] # None => node.start = nodes[key].start /\ node.exit = nodes[key].exit
  /\ nodes[key] = None => node.start = t /\ node.exit = None

\* Recording such a node preserves the invariant and undoes nothing.
LEMMA RecordPreserves ==
  ASSUME IInv, NEW pid \in Pids, NEW key \in Keys, NEW node \in Node,
         NEW t \in now .. MaxTime, Continues(pid, key, node, t), Record(pid, key, node, t)
  PROVE  IInv' /\ Kept
<1> USE MaxTimeAssumption, NoneAssumption
<1>1. node.parent \in Keys \cup {None} /\ node # None
  BY DEF Node
<1>2. now \in Nat /\ t \in Times /\ now <= t
  BY DEF IInv, TypeOK, Times
<1>3. /\ nodes' = [nodes EXCEPT ![key] = node]
      /\ pidIndex' = [pidIndex EXCEPT ![pid] = key]
      /\ now' = t
  BY DEF Record
<1>4. CASE node.parent # None /\ node.parent # key
  <2>1. children' = [children EXCEPT ![node.parent] = @ \cup {key}]
    BY <1>4 DEF Record, AddChild
  <2>2. TypeOK'
    BY <1>1, <1>2, <1>3, <2>1 DEF IInv, TypeOK
  <2>3. IndexCoversNodes'
    BY <1>1, <1>3 DEF IInv, TypeOK, IndexCoversNodes, IsNode, Continues
  <2>4. Linked'
    BY <1>1, <1>3, <1>4, <2>1 DEF IInv, TypeOK, Linked
  <2>5. LifetimesOrdered'
    BY <1>1, <1>2, <1>3 DEF IInv, TypeOK, LifetimesOrdered, Continues, Times, Node
  <2>6. Kept
    BY <1>1, <1>3, <1>4, <2>1 DEF IInv, TypeOK, Kept, Continues
  <2> QED BY <2>2, <2>3, <2>4, <2>5, <2>6 DEF IInv
<1>5. CASE ~(node.parent # None /\ node.parent # key)
  <2>1. children' = children
    BY <1>5 DEF Record, AddChild
  <2>2. TypeOK'
    BY <1>1, <1>2, <1>3, <2>1 DEF IInv, TypeOK
  <2>3. IndexCoversNodes'
    BY <1>1, <1>3 DEF IInv, TypeOK, IndexCoversNodes, IsNode, Continues
  <2>4. Linked'
    BY <1>1, <1>3, <1>5, <2>1 DEF IInv, TypeOK, Linked
  <2>5. LifetimesOrdered'
    BY <1>1, <1>2, <1>3 DEF IInv, TypeOK, LifetimesOrdered, Continues, Times, Node
  <2>6. Kept
    BY <1>1, <1>3, <2>1 DEF IInv, TypeOK, Kept, Continues
  <2> QED BY <2>2, <2>3, <2>4, <2>5, <2>6 DEF IInv
<1> QED BY <1>4, <1>5

-----------------------------------------------------------------------------
(* The handlers.                                                           *)

\* An exec event, whatever key it carries, preserves the invariant and undoes
\* nothing.
LEMMA ExecPreserves ==
  ASSUME IInv, NEW pid \in Pids, NEW ppid \in Pids \cup {None},
         NEW image \in Images \cup {None}, NEW t \in now .. MaxTime,
         NEW eventKey \in EventKeys(pid, t), HandleExec(pid, ppid, image, eventKey, t)
  PROVE  IInv' /\ Kept
<1> DEFINE key == KeyFor(pid, eventKey)
           parent == ResolveParentKey(ppid, pid, t)
           node == [EntryOr(key, pid, t) EXCEPT !.pid = pid, !.image = image, !.parent = parent]
<1>1. TypeOK /\ t \in Times
  BY MaxTimeAssumption DEF IInv, TypeOK, Times
<1>2. key \in Keys
  BY <1>1, EventKeysType, KeyForType
<1>3. parent \in Keys \cup {None}
  BY <1>1, ResolveParentKeyType
<1>4. /\ EntryOr(key, pid, t) \in Node
      /\ nodes[key] # None => EntryOr(key, pid, t) = nodes[key]
      /\ nodes[key] = None => EntryOr(key, pid, t).start = t /\ EntryOr(key, pid, t).exit = None
  BY <1>1, <1>2, EntryOrType
<1> HIDE DEF parent
<1>5. node \in Node
  BY <1>3, <1>4 DEF Node
<1>6. Continues(pid, key, node, t)
  BY <1>4 DEF Continues, KeyFor, Node
<1>7. Record(pid, key, node, t)
  BY DEF HandleExec, parent
<1> QED BY <1>2, <1>5, <1>6, <1>7, RecordPreserves

\* So does a fork event.
LEMMA ForkPreserves ==
  ASSUME IInv, NEW pid \in Pids, NEW ppid \in Pids \cup {None},
         NEW t \in now .. MaxTime, HandleFork(pid, ppid, t)
  PROVE  IInv' /\ Kept
<1> DEFINE key == KeyFor(pid, <<pid, t>>)
           parent == ResolveParentKey(ppid, pid, t)
           node == [EntryOr(key, pid, t) EXCEPT !.parent = parent]
<1>1. TypeOK /\ t \in Times
  BY MaxTimeAssumption DEF IInv, TypeOK, Times
<1>2. key \in Keys
  BY <1>1, KeyForType DEF Keys
<1>3. parent \in Keys \cup {None}
  BY <1>1, ResolveParentKeyType
<1>4. /\ EntryOr(key, pid, t) \in Node
      /\ nodes[key] # None => EntryOr(key, pid, t) = nodes[key]
      /\ nodes[key] = None => EntryOr(key, pid, t).start = t /\ EntryOr(key, pid, t).exit = None
  BY <1>1, <1>2, EntryOrType
<1> HIDE DEF parent
<1>5. node \in Node
  BY <1>3, <1>4 DEF Node
<1>6. Continues(pid, key, node, t)
  BY <1>4 DEF Continues, KeyFor, Node
<1>7. Record(pid, key, node, t)
  BY DEF HandleFork, parent
<1> QED BY <1>2, <1>5, <1>6, <1>7, RecordPreserves

\* So does an exit event.
LEMMA ExitPreserves ==
  ASSUME IInv, NEW pid \in Pids, NEW t \in now .. MaxTime, HandleExit(pid, t)
  PROVE  IInv' /\ Kept
<1> USE MaxTimeAssumption, NoneAssumption
<1>1. now \in Nat /\ t \in Times /\ now <= t
  BY DEF IInv, TypeOK, Times
<1>2. /\ now' = t /\ pidIndex' = pidIndex /\ children' = children
  BY DEF HandleExit
<1>3. CASE pidIndex[pid] # None /\ IsNode(pidIndex[pid])
  <2> DEFINE key == pidIndex[pid]
  <2>1. /\ key \in Keys /\ nodes[key] \in Node
        /\ nodes' = [nodes EXCEPT ![key].exit = t]
    BY <1>3 DEF IInv, TypeOK, IsNode, HandleExit
  <2> HIDE DEF key
  <2>2. /\ nodes'[key] \in Node /\ nodes'[key] # None
        /\ nodes'[key].parent = nodes[key].parent
        /\ nodes'[key].start = nodes[key].start
        /\ nodes'[key].exit = t
        /\ \A k \in Keys \ {key} : nodes'[k] = nodes[k]
    BY <1>1, <2>1 DEF IInv, TypeOK, Node
  <2>3. nodes[key] # None
    BY <2>1
  <2>4. TypeOK'
    BY <1>1, <1>2, <2>1, <2>2 DEF IInv, TypeOK
  <2>5. IndexCoversNodes'
    BY <1>2, <2>2, <2>3 DEF IInv, TypeOK, IndexCoversNodes, IsNode
  <2>6. Linked'
    BY <1>2, <2>2, <2>3 DEF IInv, Linked
  <2>7. LifetimesOrdered'
    <3> SUFFICES ASSUME NEW k \in Keys, nodes'[k] # None
                 PROVE  /\ nodes'[k].start <= t
                        /\ nodes'[k].exit # None => nodes'[k].start <= nodes'[k].exit
                                                    /\ nodes'[k].exit <= t
      BY <1>2 DEF LifetimesOrdered
    <3>1. CASE k = key
      BY <1>1, <2>1, <2>2, <2>3, <3>1 DEF IInv, LifetimesOrdered, Node, Times
    <3>2. CASE k # key
      BY <1>1, <2>2, <3>2 DEF IInv, TypeOK, LifetimesOrdered, Node, Times
    <3> QED BY <3>1, <3>2
  <2>8. Kept
    BY <1>2, <2>2, <2>3 DEF Kept
  <2> QED BY <2>4, <2>5, <2>6, <2>7, <2>8 DEF IInv
<1>4. CASE ~(pidIndex[pid] # None /\ IsNode(pidIndex[pid]))
  <2>1. nodes' = nodes
    BY <1>4 DEF HandleExit
  <2>2. TypeOK' /\ IndexCoversNodes' /\ Linked'
    BY <1>1, <1>2, <2>1 DEF IInv, TypeOK, IndexCoversNodes, IsNode, Linked
  <2>3. LifetimesOrdered'
    BY <1>1, <1>2, <2>1 DEF IInv, TypeOK, LifetimesOrdered, Node, Times
  <2>4. Kept
    BY <1>2, <2>1 DEF Kept
  <2> QED BY <2>2, <2>3, <2>4 DEF IInv
<1> QED BY <1>3, <1>4

-----------------------------------------------------------------------------
(* The theorems.                                                           *)

\* The empty tree satisfies the invariant.
LEMMA InitEstablishes == Init => IInv
  BY MaxTimeAssumption, NoneAssumption
     DEF Init, IInv, TypeOK, IndexCoversNodes, Linked, LifetimesOrdered, Times

\* Every step preserves the invariant and undoes nothing.
LEMMA StepPreserves ==
  ASSUME IInv, Next
  PROVE  IInv' /\ Kept
<1>1. CASE Exec
  BY <1>1, ExecPreserves DEF Exec
<1>2. CASE Fork
  BY <1>2, ForkPreserves DEF Fork
<1>3. CASE Exit
  BY <1>3, ExitPreserves DEF Exit
<1> QED BY <1>1, <1>2, <1>3 DEF Next

\* So does a step that changes nothing.
LEMMA StutterPreserves ==
  ASSUME IInv, UNCHANGED treeVars
  PROVE  IInv' /\ Kept
  BY DEF IInv, TypeOK, IndexCoversNodes, IsNode, Linked, LifetimesOrdered, Kept, treeVars

\* The inductive invariant holds of every run: the node map, the pid index and
\* the child sets stay consistent with each other under any stream of events
\* that comes in the order of observed_at.
THEOREM InvariantHolds == Spec => []IInv
<1>1. IInv /\ [Next]_treeVars => IInv'
  BY StepPreserves, StutterPreserves
<1> QED BY <1>1, InitEstablishes, PTL DEF Spec

\* Every key, pid, image and time in the tree is one of those of its inputs.
THEOREM TypeCorrect == Spec => []TypeOK
<1>1. IInv => TypeOK
  BY DEF IInv
<1> QED BY <1>1, InvariantHolds, PTL

\* get_by_pid never misses a node, and no node is out of its reach.
THEOREM IndexAlwaysCovers == Spec => []IndexCoversNodes
<1>1. IInv => IndexCoversNodes
  BY DEF IInv
<1> QED BY <1>1, InvariantHolds, PTL

\* The upward links always have their downward edges, from stored nodes only.
THEOREM LinksAlwaysHaveEdges == Spec => []LinksHaveEdges
<1>1. IInv => LinksHaveEdges
  BY LinkedIsLinksHaveEdges DEF IInv
<1> QED BY <1>1, InvariantHolds, PTL

\* No process ever exits before it starts.
THEOREM LifetimesAlwaysOrdered == Spec => []LifetimesOrdered
<1>1. IInv => LifetimesOrdered
  BY DEF IInv
<1> QED BY <1>1, InvariantHolds, PTL

\* A pid keeps its key, a node its start time, and an edge its place, from any
\* event to the next.
THEOREM IdentityAlwaysStable == Spec => IdentityIsStable
<1>1. IInv /\ [Next]_treeVars => [Kept]_treeVars
  BY StepPreserves
<1>2. Kept <=> (/\ \A p \in Pids : pidIndex[p] # None => pidIndex'[p] = pidIndex[p]
                /\ \A k \in Keys : nodes[k] # None =>
                      nodes'[k] # None /\ nodes'[k].start = nodes[k].start
                /\ \A k \in Keys : /\ children[k] \subseteq children'[k]
                                   /\ \A c \in children'[k] \ children[k] : nodes'[c].parent = k)
  BY DEF Kept
<1> QED BY <1>1, <1>2, InvariantHolds, PTL DEF Spec, IdentityIsStable

-----------------------------------------------------------------------------
(* With a processId on every exec line: each node belongs to one pid, and   *)
(* links dangle only towards processes seen later.                          *)

PInv == IInv /\ OnePidPerNode /\ DanglingOnlyIfSeenLater

\* What an exec or a fork writes when the line names the process by its pid.
OwnedBy(pid, key, node, t) ==
  /\ key = KeyFor(pid, <<pid, t>>)
  /\ node.pid = IF nodes[key] # None THEN nodes[key].pid ELSE pid
  /\ \E ppid \in Pids \cup {None} : node.parent = ResolveParentKey(ppid, pid, t)

\* Recording a node under a key of its own pid keeps one pid per node.
LEMMA RecordKeepsOnePid ==
  ASSUME PInv, IInv', NEW pid \in Pids, NEW key \in Keys, NEW node \in Node,
         NEW t \in now .. MaxTime, Continues(pid, key, node, t),
         OwnedBy(pid, key, node, t), Record(pid, key, node, t)
  PROVE  OnePidPerNode' /\ DanglingOnlyIfSeenLater'
<1> USE MaxTimeAssumption, NoneAssumption
<1>1. now \in Nat /\ t \in Times /\ now <= t /\ TypeOK /\ node # None
  BY DEF PInv, IInv, TypeOK, Times, Node
<1>2. /\ nodes' = [nodes EXCEPT ![key] = node]
      /\ pidIndex' = [pidIndex EXCEPT ![pid] = key]
      /\ now' = t
  BY DEF Record
<1>3. /\ key[1] = pid
      /\ nodes[key] = None => key = <<pid, t>>
  BY <1>1 DEF PInv, IInv, OnePidPerNode, IndexCoversNodes, IsNode, OwnedBy, KeyFor
<1>4. node.pid = key[1] /\ node.start = key[2]
  BY <1>1, <1>3 DEF PInv, OnePidPerNode, OwnedBy, Continues
<1>5. PICK ppid \in Pids \cup {None} : node.parent = ResolveParentKey(ppid, pid, t)
  BY DEF OwnedBy
<1>6. nodes[key] # None \/ (pidIndex[pid] = None /\ key = <<pid, t>> /\ node.start = t)
  BY <1>1 DEF PInv, IInv, OwnedBy, KeyFor, IndexCoversNodes, IsNode, Continues
<1>7. /\ \A k \in Keys : nodes[k] # None => nodes'[k] # None /\ nodes'[k].start = nodes[k].start
      /\ \A k \in Keys \ {key} : nodes'[k] = nodes[k]
      /\ nodes'[key] = node
      /\ \A p \in Pids : pidIndex[p] # None => pidIndex'[p] = pidIndex[p]
      /\ \A p \in Pids \ {pid} : pidIndex'[p] = pidIndex[p]
      /\ pidIndex'[pid] = key
  BY <1>1, <1>2 DEF TypeOK, Continues
\* Links that were there before the step.
<1>8. ASSUME NEW k \in Keys, nodes[k] # None, nodes[k].parent # None,
             ~(nodes[k].parent \in Keys /\ nodes'[nodes[k].parent] # None)
      PROVE  /\ nodes[k].parent[2] <= t
             /\ pidIndex'[nodes[k].parent[1]] # None =>
                  nodes[k].parent[2] < nodes'[pidIndex'[nodes[k].parent[1]]].start
  <2> DEFINE up == nodes[k].parent
  <2>1. up \in Keys /\ up[1] \in Pids /\ up[2] \in Times /\ up = <<up[1], up[2]>>
    BY <1>1, <1>8 DEF TypeOK, Node, Keys
  <2>2. ~IsNode(up) /\ up # key
    BY <1>1, <1>7, <1>8, <2>1 DEF IsNode
  <2>3. /\ up[2] <= now
        /\ pidIndex[up[1]] # None => up[2] < nodes[pidIndex[up[1]]].start
    BY <1>8, <2>2 DEF PInv, DanglingOnlyIfSeenLater
  <2> HIDE DEF up
  <2>4. up[2] <= t
    BY <1>1, <2>1, <2>3 DEF Times
  <2>5. CASE pidIndex[up[1]] # None
    BY <1>1, <1>7, <2>1, <2>3, <2>4, <2>5
       DEF up, PInv, IInv, IndexCoversNodes, IsNode
  <2>6. CASE pidIndex[up[1]] = None /\ up[1] # pid
    BY <1>7, <2>1, <2>4, <2>6 DEF up
  <2>7. CASE pidIndex[up[1]] = None /\ up[1] = pid
    <3>1. nodes[key] = None
      BY <1>1, <1>3, <2>7 DEF PInv, IInv, IndexCoversNodes, OnePidPerNode
    <3>2. key = <<pid, t>> /\ node.start = t
      BY <1>6, <3>1
    <3>3. up[2] # t
      BY <2>1, <2>2, <2>7, <3>2
    <3>4. up[2] < t
      BY <1>1, <2>1, <2>4, <3>3 DEF Times
    <3> QED BY <1>7, <2>4, <2>7, <3>2, <3>4 DEF up
  <2> QED BY <2>5, <2>6, <2>7
<1>9. CASE node.parent = None
  <2>1. OnePidPerNode'
    BY <1>1, <1>3, <1>4, <1>7, <1>9 DEF PInv, TypeOK, OnePidPerNode
  <2>2. \A k \in Keys : nodes'[k] # None /\ nodes'[k].parent # None =>
                         k # key /\ nodes[k] # None /\ nodes'[k] = nodes[k]
    BY <1>7, <1>9
  <2>3. DanglingOnlyIfSeenLater'
    BY <1>2, <1>8, <2>2 DEF DanglingOnlyIfSeenLater, IsNode
  <2> QED BY <2>1, <2>3
<1>10. CASE node.parent # None
  <2>1. ppid \in Pids /\ ppid # pid
    BY <1>5, <1>10 DEF ResolveParentKey
  <2>2. \/ pidIndex[ppid] # None /\ node.parent = pidIndex[ppid]
        \/ pidIndex[ppid] = None /\ node.parent = <<ppid, t>>
    BY <1>5, <2>1 DEF ResolveParentKey
  <2>3. node.parent[1] = ppid
    BY <2>1, <2>2 DEF PInv, OnePidPerNode
  <2>4. OnePidPerNode'
    BY <1>1, <1>3, <1>4, <1>7, <2>1, <2>3 DEF PInv, TypeOK, OnePidPerNode
  <2>5. IsNode(node.parent) \/ (node.parent = <<ppid, t>> /\ pidIndex'[ppid] = None)
    BY <1>7, <2>1, <2>2 DEF PInv, IInv, IndexCoversNodes
  <2>6. DanglingOnlyIfSeenLater'
    <3> SUFFICES ASSUME NEW k \in Keys, nodes'[k] # None, nodes'[k].parent # None,
                        ~(nodes'[k].parent \in Keys /\ nodes'[nodes'[k].parent] # None)
                 PROVE  /\ nodes'[k].parent[2] <= t
                        /\ pidIndex'[nodes'[k].parent[1]] # None =>
                             nodes'[k].parent[2] < nodes'[pidIndex'[nodes'[k].parent[1]]].start
      BY <1>2 DEF DanglingOnlyIfSeenLater, IsNode
    <3>1. CASE k = key
      BY <1>1, <1>7, <2>1, <2>5, <3>1 DEF IsNode, Times
    <3>2. CASE k # key
      BY <1>7, <1>8, <3>2
    <3> QED BY <3>1, <3>2
  <2> QED BY <2>4, <2>6
<1> QED BY <1>9, <1>10

\* With HostPids = {} the key of an exec's event is its pid and its second.
LEMMA StepKeepsOnePid ==
  ASSUME HostPids = {}, PInv, Next
  PROVE  PInv'
<1>1. IInv /\ IInv' /\ TypeOK
  BY StepPreserves DEF PInv, IInv
<1>2. ASSUME NEW pid \in Pids, NEW ppid \in Pids \cup {None}, NEW image \in Images \cup {None},
             NEW t \in now .. MaxTime, NEW eventKey \in EventKeys(pid, t),
             HandleExec(pid, ppid, image, eventKey, t)
      PROVE  PInv'
  <2> DEFINE key == KeyFor(pid, eventKey)
             parent == ResolveParentKey(ppid, pid, t)
             node == [EntryOr(key, pid, t) EXCEPT !.pid = pid, !.image = image, !.parent = parent]
  <2>1. t \in Times /\ eventKey = <<pid, t>>
    BY <1>1, MaxTimeAssumption DEF EventKeys, TypeOK, Times
  <2>2. key \in Keys /\ parent \in Keys \cup {None} /\ EntryOr(key, pid, t) \in Node
    BY <1>1, <2>1, KeyForType, ResolveParentKeyType, EntryOrType DEF Keys
  <2>3. /\ nodes[key] # None => EntryOr(key, pid, t) = nodes[key] /\ nodes[key].pid = pid
        /\ nodes[key] = None => EntryOr(key, pid, t).start = t /\ EntryOr(key, pid, t).exit = None
    BY <1>1, <2>1, <2>2, EntryOrType
       DEF KeyFor, PInv, IInv, OnePidPerNode, IndexCoversNodes
  <2> HIDE DEF parent
  <2>4. node \in Node
    BY <2>2 DEF Node
  <2>5. Continues(pid, key, node, t)
    BY <2>2, <2>3 DEF Continues, KeyFor, Node
  <2>6. OwnedBy(pid, key, node, t)
    BY <2>1, <2>2, <2>3 DEF OwnedBy, Node, parent
  <2>7. Record(pid, key, node, t)
    BY <1>2 DEF HandleExec, parent
  <2> QED BY <1>1, <2>2, <2>4, <2>5, <2>6, <2>7, RecordKeepsOnePid DEF PInv
<1>3. ASSUME NEW pid \in Pids, NEW ppid \in Pids \cup {None}, NEW t \in now .. MaxTime,
             HandleFork(pid, ppid, t)
      PROVE  PInv'
  <2> DEFINE key == KeyFor(pid, <<pid, t>>)
             parent == ResolveParentKey(ppid, pid, t)
             node == [EntryOr(key, pid, t) EXCEPT !.parent = parent]
  <2>1. t \in Times
    BY <1>1, MaxTimeAssumption DEF TypeOK, Times
  <2>2. key \in Keys /\ parent \in Keys \cup {None} /\ EntryOr(key, pid, t) \in Node
    BY <1>1, <2>1, KeyForType, ResolveParentKeyType, EntryOrType DEF Keys
  <2>3. /\ nodes[key] # None => EntryOr(key, pid, t) = nodes[key]
        /\ nodes[key] = None => EntryOr(key, pid, t).start = t /\ EntryOr(key, pid, t).exit = None
                                /\ EntryOr(key, pid, t).pid = pid
    BY <1>1, <2>1, <2>2, EntryOrType DEF EntryOr
  <2> HIDE DEF parent
  <2>4. node \in Node
    BY <2>2 DEF Node
  <2>5. Continues(pid, key, node, t)
    BY <2>2, <2>3 DEF Continues, KeyFor, Node
  <2>6. OwnedBy(pid, key, node, t)
    BY <2>1, <2>2, <2>3 DEF OwnedBy, Node, parent
  <2>7. Record(pid, key, node, t)
    BY <1>3 DEF HandleFork, parent
  <2> QED BY <1>1, <2>2, <2>4, <2>5, <2>6, <2>7, RecordKeepsOnePid DEF PInv
<1>4. ASSUME NEW pid \in Pids, NEW t \in now .. MaxTime, HandleExit(pid, t)
      PROVE  PInv'
  <2>1. /\ now \in Nat /\ t \in Nat /\ now <= t /\ now' = t
        /\ pidIndex' = pidIndex
    BY <1>1, <1>4, MaxTimeAssumption DEF HandleExit, TypeOK, Times
  <2>2. \A k \in Keys : /\ nodes'[k] # None <=> nodes[k] # None
                        /\ nodes[k] # None => /\ nodes'[k].pid = nodes[k].pid
                                              /\ nodes'[k].start = nodes[k].start
                                              /\ nodes'[k].parent = nodes[k].parent
    <3>1. CASE pidIndex[pid] # None /\ IsNode(pidIndex[pid])
      <4>1. /\ pidIndex[pid] \in Keys /\ nodes[pidIndex[pid]] \in Node
            /\ nodes' = [nodes EXCEPT ![pidIndex[pid]] = [nodes[pidIndex[pid]] EXCEPT !.exit = t]]
        BY <1>1, <1>4, <3>1 DEF HandleExit, TypeOK, IsNode
      <4>2. [nodes[pidIndex[pid]] EXCEPT !.exit = t] \in Node
        BY <1>1, <2>1, <4>1, MaxTimeAssumption DEF Node, Times
      <4> QED BY <1>1, <4>1, <4>2, NoneAssumption DEF TypeOK, Node
    <3>2. CASE ~(pidIndex[pid] # None /\ IsNode(pidIndex[pid]))
      BY <1>4, <3>2 DEF HandleExit
    <3> QED BY <3>1, <3>2
  <2>3. OnePidPerNode'
    BY <2>1, <2>2 DEF PInv, OnePidPerNode
  <2>4. DanglingOnlyIfSeenLater'
    <3> SUFFICES ASSUME NEW k \in Keys, nodes'[k] # None, nodes'[k].parent # None,
                        ~(nodes'[k].parent \in Keys /\ nodes'[nodes'[k].parent] # None)
                 PROVE  /\ nodes'[k].parent[2] <= t
                        /\ pidIndex'[nodes'[k].parent[1]] # None =>
                             nodes'[k].parent[2] < nodes'[pidIndex'[nodes'[k].parent[1]]].start
      BY <2>1 DEF DanglingOnlyIfSeenLater, IsNode
    <3>1. /\ nodes[k] # None /\ nodes'[k].parent = nodes[k].parent
          /\ nodes[k].parent \in Keys /\ nodes[k].parent[1] \in Pids
          /\ nodes[k].parent[2] \in Nat
      BY <1>1, <2>2 DEF TypeOK, Node, Keys, Times
    <3>2. /\ nodes[k].parent[2] <= now
          /\ pidIndex[nodes[k].parent[1]] # None =>
               nodes[k].parent[2] < nodes[pidIndex[nodes[k].parent[1]]].start
      BY <2>2, <3>1 DEF PInv, DanglingOnlyIfSeenLater, IsNode
    <3> QED BY <1>1, <2>1, <2>2, <3>1, <3>2 DEF IInv, IndexCoversNodes, IsNode
  <2> QED BY <1>1, <2>3, <2>4 DEF PInv
<1> QED BY <1>2, <1>3, <1>4 DEF Next, Exec, Fork, Exit

\* If every exec line has a processId, key, node and index name one pid, and a
\* link made up for an unseen parent is never older than that parent.
THEOREM PidInvariantHolds == ASSUME HostPids = {} PROVE Spec => []PInv
<1>1. Init => PInv
  BY InitEstablishes DEF PInv, Init, OnePidPerNode, DanglingOnlyIfSeenLater
<1>2. PInv /\ [Next]_treeVars => PInv'
  <2>1. ASSUME PInv, UNCHANGED treeVars
        PROVE  PInv'
    BY <2>1, StutterPreserves
       DEF PInv, OnePidPerNode, DanglingOnlyIfSeenLater, IsNode, treeVars
  <2> QED BY <2>1, StepKeepsOnePid
<1> QED BY <1>1, <1>2, PTL DEF Spec

\* If every exec line has a processId, a node belongs to one pid for good and
\* no process is its own parent.
THEOREM OnePidAlways == ASSUME HostPids = {} PROVE Spec => []OnePidPerNode
<1>1. PInv => OnePidPerNode
  BY DEF PInv
<1> QED BY <1>1, PidInvariantHolds, PTL

\* If every exec line has a processId, a parent link dangles only towards a
\* process whose first event came later.
THEOREM DanglingAlwaysExplained ==
  ASSUME HostPids = {} PROVE Spec => []DanglingOnlyIfSeenLater
<1>1. PInv => DanglingOnlyIfSeenLater
  BY DEF PInv
<1> QED BY <1>1, PidInvariantHolds, PTL

-----------------------------------------------------------------------------
(* The tree of a host.                                                     *)

\* What the tracer reports.
Event == [type : {"fork", "exec", "exit"}, pid : Processes, ppid : Pids \cup {None},
          image : Images \cup {None}]

Logged == {log[i] : i \in DOMAIN log}

\* The index leads to a key of its own pid.
KeysAreOwn == \A p \in Pids : pidIndex[p] # None => pidIndex[p][1] = p

HInv == HostTypeOK /\ IInv /\ log \in Seq(Event) /\ KeysAreOwn

-----------------------------------------------------------------------------
(* The invariant while no pid is given out twice.                          *)

\* A process runs or has exited; one that did neither was never seen.
LivesAreOnce ==
  /\ \A p \in Processes : Running(p) => retired[p] = None
  /\ \A p \in Processes : (~Running(p) /\ retired[p] = None) => pidIndex[p] = None

\* An event not yet folded is of a process that runs or has exited this second; an
\* exit is the last event of its process.
EventsAreRecent ==
  /\ \A e \in Logged : Running(e.pid) \/ retired[e.pid] = clock
  /\ \A e \in Logged : e.type = "exit" => ~Running(e.pid)
  /\ \A i, j \in DOMAIN log : (log[i].type = "exit" /\ i < j) => log[j].pid # log[i].pid

\* The node of a running process has no exit, and its key is its pid and its start
\* once one of its events has been folded.
RunningIsOpen ==
  \A p \in Processes : Running(p) =>
    /\ pidIndex[p] # None => NodeOf(p).exit = None
    /\ procs[p].born # None =>
         \/ pidIndex[p] = <<p, procs[p].born>>
         \/ pidIndex[p] = None /\ procs[p].born = clock /\ \E e \in Logged : e.pid = p

ExitLogged(p) == \E e \in Logged : e.pid = p /\ e.type = "exit"

\* An exit that was folded is on the node if there was one.  In order no event of
\* the process is left then.
ExitsAreFolded ==
  \A p \in Processes : (retired[p] # None /\ ~ExitLogged(p)) =>
    /\ pidIndex[p] # None => NodeOf(p).exit # None \/ (~Ordered /\ NodeOf(p).start = retired[p])
    /\ Ordered => \A e \in Logged : e.pid # p

\* The parents of processes, events and nodes.
ParentsAreReal ==
  /\ \A p \in Processes : Running(p) => procs[p].parent \in everParent[p]
  /\ \A e \in Logged : e.type # "exit" => e.ppid \in everParent[e.pid]
  /\ \A p \in Processes : (pidIndex[p] # None /\ NodeOf(p).parent # None) =>
       NodeOf(p).parent[1] \in everParent[p]

ExecLogged(p) == \E e \in Logged : e.pid = p /\ e.type = "exec"

\* The images of execs not yet folded are of this second; without one the node
\* has an image of the last.
ImagesAreRecent ==
  /\ \A e \in Logged : (e.type = "exec" /\ Running(e.pid)) =>
       procs[e.pid].ran.second = clock /\ e.image \in procs[e.pid].ran.images
  /\ \A p \in Processes : (Running(p) /\ procs[p].ran.second # None /\ ~ExecLogged(p)) =>
       pidIndex[p] # None /\ NodeOf(p).image \in procs[p].ran.images

Truth ==
  /\ LivesAreOnce /\ EventsAreRecent /\ RunningIsOpen /\ ExitsAreFolded
  /\ ParentsAreReal /\ ImagesAreRecent

-----------------------------------------------------------------------------
(* The log.                                                                *)

\* A reported event comes last.
LEMMA LogAppended ==
  ASSUME log \in Seq(Event), NEW e \in Event, log' = Append(log, e)
  PROVE  /\ log' \in Seq(Event) /\ Len(log') = Len(log) + 1 /\ Logged' = Logged \cup {e}
         /\ Len(log) \in Nat /\ DOMAIN log = 1 .. Len(log) /\ DOMAIN log' = 1 .. Len(log) + 1
         /\ \A i \in DOMAIN log : log'[i] = log[i]
         /\ log'[Len(log) + 1] = e
<1>1. /\ log' \in Seq(Event) /\ Len(log') = Len(log) + 1 /\ Len(log) \in Nat
      /\ DOMAIN log = 1 .. Len(log) /\ DOMAIN log' = 1 .. Len(log) + 1
      /\ \A i \in 1 .. Len(log) : log'[i] = log[i]
      /\ log'[Len(log) + 1] = e
  OBVIOUS
<1>2. Logged' = {log'[i] : i \in 1 .. Len(log) + 1}
  BY <1>1 DEF Logged
<1>3. \A i \in 1 .. Len(log) + 1 : i \in 1 .. Len(log) \/ i = Len(log) + 1
  BY <1>1
<1>4. \A i \in 1 .. Len(log) : i \in 1 .. Len(log) + 1
  BY <1>1
<1>5. Len(log) + 1 \in 1 .. Len(log) + 1
  BY <1>1
<1>6. Logged' = Logged \cup {e}
  BY <1>1, <1>2, <1>3, <1>4, <1>5 DEF Logged
<1> QED
  BY <1>1, <1>6

\* What RemoveAt leaves of a sequence.
LEMMA Removed ==
  ASSUME NEW S, NEW s \in Seq(S), NEW i \in 1 .. Len(s), NEW t, t = RemoveAt(s, i)
  PROVE  /\ t \in Seq(S) /\ Len(t) = Len(s) - 1
         /\ \A j \in 1 .. Len(s) - 1 : t[j] = IF j < i THEN s[j] ELSE s[j + 1]
<1> DEFINE k == Len(s)
           before == SubSeq(s, 1, i - 1)
           behind == SubSeq(s, i + 1, k)
<1>1. k \in Nat /\ i \in 1 .. k /\ i \in Nat
  OBVIOUS
<1>2. /\ before \in Seq(S) /\ Len(before) = i - 1
      /\ \A j \in 1 .. i - 1 : before[j] = s[j]
  BY <1>1
<1>3. /\ behind \in Seq(S) /\ Len(behind) = k - i
      /\ \A j \in 1 .. k - i : behind[j] = s[i + j]
  BY <1>1
<1>4. t = before \o behind
  BY DEF RemoveAt
<1> HIDE DEF before, behind, k
<1>5. /\ t \in Seq(S) /\ Len(t) = (i - 1) + (k - i)
      /\ \A j \in 1 .. (i - 1) + (k - i) :
           t[j] = IF j <= i - 1 THEN before[j] ELSE behind[j - (i - 1)]
  <2>1. before \in Seq(S) /\ behind \in Seq(S)
    BY <1>2, <1>3
  <2>2. /\ before \o behind \in Seq(S) /\ Len(before \o behind) = Len(before) + Len(behind)
        /\ \A j \in 1 .. Len(before) + Len(behind) : (before \o behind)[j] =
             IF j <= Len(before) THEN before[j] ELSE behind[j - Len(before)]
    BY <2>1, ConcatProperties
  <2> QED
    BY <1>2, <1>3, <1>4, <2>2
<1>6. (i - 1) + (k - i) = k - 1
  BY <1>1
<1>7. ASSUME NEW j \in 1 .. k - 1
      PROVE  t[j] = IF j < i THEN s[j] ELSE s[j + 1]
  <2>1. CASE j < i
    <3>1. j <= i - 1 /\ j \in 1 .. i - 1
      BY <1>1, <2>1
    <3> QED
      BY <1>2, <1>5, <1>6, <2>1, <3>1
  <2>2. CASE ~(j < i)
    <3>1. /\ ~(j <= i - 1) /\ j - (i - 1) \in 1 .. k - i /\ i + (j - (i - 1)) = j + 1
      BY <1>1, <2>2
    <3>2. t[j] = behind[j - (i - 1)] /\ behind[j - (i - 1)] = s[i + (j - (i - 1))]
      BY <1>3, <1>5, <1>6, <3>1
    <3> QED
      BY <2>2, <3>1, <3>2
  <2> QED
    BY <2>1, <2>2
<1> QED
  BY <1>5, <1>6, <1>7 DEF k

\* A folded event leaves the others in their order.
LEMMA LogFolded ==
  ASSUME log \in Seq(Event), NEW i \in DOMAIN log, log' = RemoveAt(log, i)
  PROVE  /\ log[i] \in Event /\ log[i] \in Logged
         /\ log' \in Seq(Event) /\ Len(log) \in Nat /\ Len(log') = Len(log) - 1
         /\ Logged' \subseteq Logged /\ Logged \subseteq Logged' \cup {log[i]}
         /\ \A j, l \in DOMAIN log' : j < l =>
              \E m, n \in DOMAIN log : m < n /\ log'[j] = log[m] /\ log'[l] = log[n]
         /\ i = 1 => \A e \in Logged' : \E j \in DOMAIN log : 1 < j /\ e = log[j]
<1> DEFINE k == Len(log)
<1>1. /\ k \in Nat /\ DOMAIN log = 1 .. k /\ i \in 1 .. k /\ log[i] \in Event
      /\ log[i] \in Logged
  BY DEF Logged
<1>2. /\ log' \in Seq(Event) /\ Len(log') = k - 1
      /\ \A j \in 1 .. k - 1 : log'[j] = IF j < i THEN log[j] ELSE log[j + 1]
  BY <1>1, Removed
<1>5. DOMAIN log' = 1 .. k - 1
  BY <1>2
<1>6. \A j \in 1 .. k - 1 : log'[j] = IF j < i THEN log[j] ELSE log[j + 1]
  BY <1>2
<1> HIDE DEF k
<1>7. ASSUME NEW j \in 1 .. k, j # i
      PROVE  \E m \in 1 .. k - 1 : log'[m] = log[j]
  <2>1. CASE j < i
    <3>1. j \in 1 .. k - 1
      BY <1>1, <2>1
    <3> QED
      BY <1>6, <2>1, <3>1
  <2>2. CASE ~(j < i)
    <3>1. j - 1 \in 1 .. k - 1 /\ ~(j - 1 < i) /\ (j - 1) + 1 = j
      BY <1>1, <1>7, <2>2
    <3> QED
      BY <1>6, <3>1
  <2> QED
    BY <2>1, <2>2
<1>8. Logged \subseteq Logged' \cup {log[i]}
  <2>1. ASSUME NEW j \in 1 .. k PROVE log[j] \in Logged' \cup {log[i]}
    BY <1>5, <1>7 DEF Logged
  <2> QED
    BY <1>1, <2>1 DEF Logged
<1>9. ASSUME NEW j \in 1 .. k - 1
      PROVE  \E m \in 1 .. k : log'[j] = log[m] /\ (j < i => m = j) /\ (~(j < i) => m = j + 1)
  <2>1. j \in 1 .. k /\ j + 1 \in 1 .. k
    BY <1>1
  <2>2. CASE j < i
    BY <1>6, <2>1, <2>2
  <2>3. CASE ~(j < i)
    BY <1>6, <2>1, <2>3
  <2> QED
    BY <2>2, <2>3
<1>10. Logged' \subseteq Logged
  <2>1. \A j \in 1 .. k - 1 : \E m \in 1 .. k : log'[j] = log[m]
    BY <1>9
  <2>2. Logged' = {log'[j] : j \in 1 .. k - 1} /\ Logged = {log[j] : j \in 1 .. k}
    BY <1>1, <1>5 DEF Logged
  <2> QED
    BY <2>1, <2>2
<1>11. ASSUME NEW j \in 1 .. k - 1, NEW l \in 1 .. k - 1, j < l
       PROVE  \E m, n \in 1 .. k : m < n /\ log'[j] = log[m] /\ log'[l] = log[n]
  <2>1. PICK m \in 1 .. k : log'[j] = log[m] /\ (j < i => m = j) /\ (~(j < i) => m = j + 1)
    BY <1>9
  <2>2. PICK n \in 1 .. k : log'[l] = log[n] /\ (l < i => n = l) /\ (~(l < i) => n = l + 1)
    BY <1>9
  <2>3. m < n
    BY <1>1, <1>11, <2>1, <2>2
  <2> QED
    BY <2>1, <2>2, <2>3
<1>12. ASSUME i = 1, NEW e \in Logged' PROVE \E j \in 1 .. k : 1 < j /\ e = log[j]
  <2>1. PICK j \in 1 .. k - 1 : e = log'[j]
    BY <1>5 DEF Logged
  <2>2. j + 1 \in 1 .. k /\ 1 < j + 1 /\ ~(j < i)
    BY <1>1, <1>12
  <2> QED
    BY <1>6, <2>1, <2>2
<1>13. ASSUME NEW j \in DOMAIN log', NEW l \in DOMAIN log', j < l
       PROVE  \E m, n \in DOMAIN log : m < n /\ log'[j] = log[m] /\ log'[l] = log[n]
  <2>1. j \in 1 .. k - 1 /\ l \in 1 .. k - 1
    BY <1>5
  <2>2. \E m, n \in 1 .. k : m < n /\ log'[j] = log[m] /\ log'[l] = log[n]
    BY <1>11, <1>13, <2>1
  <2> QED
    BY <1>1, <2>2
<1>14. i = 1 => \A e \in Logged' : \E j \in DOMAIN log : 1 < j /\ e = log[j]
  BY <1>1, <1>12
<1>15. Len(log) \in Nat /\ Len(log') = Len(log) - 1
  BY <1>1, <1>2 DEF k
<1> QED
  BY <1>1, <1>2, <1>8, <1>10, <1>13, <1>14, <1>15

-----------------------------------------------------------------------------
(* What a folded event does to the tree.                                   *)

\* Only the key and the node of the event's process change: an exit goes on its
\* node, an exec or a fork continues it or begins one, with the parent the event
\* names.
LEMMA FoldOfEvent ==
  ASSUME HInv, NEW e \in Event, HandleRawEvent(e)
  PROVE  /\ \A q \in Pids : q # e.pid =>
              /\ pidIndex'[q] = pidIndex[q]
              /\ pidIndex[q] # None => nodes'[pidIndex'[q]] = NodeOf(q)
         /\ e.type = "exit" =>
              /\ pidIndex' = pidIndex
              /\ pidIndex[e.pid] # None =>
                   nodes'[pidIndex'[e.pid]] = [NodeOf(e.pid) EXCEPT !.exit = clock]
         /\ e.type # "exit" =>
              /\ pidIndex'[e.pid] = KeyFor(e.pid, <<e.pid, clock>>)
              /\ LET old == IF pidIndex[e.pid] # None THEN NodeOf(e.pid)
                            ELSE [pid |-> e.pid, parent |-> None, image |-> None,
                                  start |-> clock, exit |-> None]
                     new == nodes'[pidIndex'[e.pid]]
                 IN  /\ new.start = old.start /\ new.exit = old.exit
                     /\ new.image = IF e.type = "exec" THEN e.image ELSE old.image
                     /\ new.parent = ResolveParentKey(e.ppid, e.pid, clock)
<1> DEFINE p == e.pid
           key == KeyFor(p, <<p, clock>>)
           old == IF pidIndex[p] # None THEN NodeOf(p)
                  ELSE [pid |-> p, parent |-> None, image |-> None, start |-> clock, exit |-> None]
<1>1. /\ p \in Pids /\ clock \in Times /\ e.ppid \in Pids \cup {None}
      /\ e.type \in {"fork", "exec", "exit"} /\ e.image \in Images \cup {None}
  BY MaxTimeAssumption DEF HInv, HostTypeOK, Event, Processes, TypeOK, Times
<1>2. TypeOK /\ IndexCoversNodes /\ KeysAreOwn
  BY DEF HInv, IInv
<1>3. /\ <<p, clock>> \in Keys /\ <<p, clock>>[1] = p /\ key \in Keys /\ key[1] = p
  <2>1. <<p, clock>> \in Keys /\ <<p, clock>>[1] = p
    BY <1>1 DEF Keys
  <2>2. key \in Keys
    BY <1>1, <1>2, <2>1, KeyForType
  <2>3. key[1] = p
    BY <1>1, <1>2, <2>1 DEF KeyFor, KeysAreOwn
  <2> QED
    BY <2>1, <2>2, <2>3
<1>4. ASSUME NEW q \in Pids, q # p, pidIndex[q] # None
      PROVE  pidIndex[q] # key /\ pidIndex[q] \in Keys
  <2>1. pidIndex[q] \in Keys
    BY <1>2, <1>4 DEF TypeOK
  <2>2. pidIndex[q][1] = q /\ key[1] = p
    BY <1>2, <1>3, <1>4 DEF KeysAreOwn
  <2> HIDE DEF key
  <2> QED
    BY <1>4, <2>1, <2>2
<1>5. ASSUME nodes[key] # None PROVE pidIndex[p] = key
  <2>1. PICK q \in Pids : pidIndex[q] = key
    BY <1>2, <1>3, <1>5 DEF IndexCoversNodes
  <2>2. key # None
    BY <1>3, NoneAssumption
  <2>3. q = p
    BY <1>4, <2>1, <2>2
  <2> QED
    BY <2>1, <2>3
<1>6. EntryOr(key, p, clock) = old
  <2>1. CASE pidIndex[p] # None
    <3>1. key = pidIndex[p] /\ nodes[key] # None
      BY <1>1, <1>2, <2>1 DEF KeyFor, IndexCoversNodes, IsNode
    <3> QED
      BY <2>1, <3>1 DEF EntryOr, NodeOf
  <2>2. CASE pidIndex[p] = None
    <3>1. nodes[key] = None
      BY <1>3, <1>5, <2>2, NoneAssumption
    <3> QED
      BY <2>2, <3>1 DEF EntryOr
  <2> QED
    BY <2>1, <2>2
<1>7. old \in Node
  BY <1>1, <1>2, <1>3, <1>6, EntryOrType
<1>8. CASE e.type = "exit"
  <2>1. HandleExit(p, clock)
    BY <1>8 DEF HandleRawEvent
  <2>2. pidIndex' = pidIndex
    BY <2>1 DEF HandleExit
  <2>3. pidIndex[p] # None => nodes' = [nodes EXCEPT ![pidIndex[p]].exit = clock]
    BY <1>1, <1>2, <2>1 DEF HandleExit, IndexCoversNodes
  <2>4. pidIndex[p] = None => nodes' = nodes
    BY <2>1 DEF HandleExit
  <2>5. \A q \in Pids : (q # p /\ pidIndex[q] # None) => nodes'[pidIndex'[q]] = NodeOf(q)
    <3> SUFFICES ASSUME NEW q \in Pids, q # p, pidIndex[q] # None
                 PROVE  nodes'[pidIndex[q]] = nodes[pidIndex[q]]
      BY <2>2 DEF NodeOf
    <3>1. CASE pidIndex[p] # None
      <4>1. pidIndex[p] = key
        BY <3>1 DEF KeyFor
      <4> HIDE DEF key
      <4> QED
        BY <1>2, <1>4, <2>3, <3>1, <4>1 DEF TypeOK
    <3>2. CASE pidIndex[p] = None
      BY <2>4, <3>2
    <3> QED
      BY <3>1, <3>2
  <2>6. pidIndex[p] # None => nodes'[pidIndex'[p]] = [NodeOf(p) EXCEPT !.exit = clock]
    BY <1>1, <1>2, <2>2, <2>3 DEF NodeOf, TypeOK
  <2> HIDE DEF p, key, old
  <2> QED
    BY <1>8, <2>2, <2>5, <2>6 DEF p
<1>9. CASE e.type # "exit"
  <2> DEFINE parent == ResolveParentKey(e.ppid, p, clock)
             forked == [old EXCEPT !.parent = parent]
             execed == [old EXCEPT !.pid = p, !.image = e.image, !.parent = parent]
             new == IF e.type = "exec" THEN execed ELSE forked
  <2>1. Record(p, key, new, clock)
    <3>1. CASE e.type = "exec"
      BY <1>6, <3>1 DEF HandleRawEvent, HandleExec
    <3>2. CASE e.type = "fork"
      BY <1>6, <3>2 DEF HandleRawEvent, HandleFork
    <3> QED
      BY <1>1, <1>9, <3>1, <3>2
  <2>2. /\ new.start = old.start /\ new.exit = old.exit /\ new.parent = parent
        /\ new.image = IF e.type = "exec" THEN e.image ELSE old.image
    <3> HIDE DEF old, parent
    <3>1. /\ forked.start = old.start /\ forked.exit = old.exit /\ forked.parent = parent
          /\ forked.image = old.image
      BY <1>7 DEF Node
    <3>2. /\ execed.start = old.start /\ execed.exit = old.exit /\ execed.parent = parent
          /\ execed.image = e.image
      BY <1>7 DEF Node
    <3> QED
      BY <3>1, <3>2
  <2> HIDE DEF new, key, old
  <2>3. pidIndex' = [pidIndex EXCEPT ![p] = key] /\ nodes' = [nodes EXCEPT ![key] = new]
    BY <2>1 DEF Record
  <2>4. pidIndex'[p] = key /\ nodes'[key] = new
    BY <1>1, <1>2, <1>3, <2>3 DEF TypeOK
  <2>5. \A q \in Pids : q # p =>
          /\ pidIndex'[q] = pidIndex[q]
          /\ pidIndex[q] # None => nodes'[pidIndex'[q]] = NodeOf(q)
    BY <1>2, <1>4, <2>3 DEF TypeOK, NodeOf
  <2> QED
    BY <1>9, <2>2, <2>4, <2>5 DEF key, old
<1> QED
  BY <1>8, <1>9

-----------------------------------------------------------------------------
(* The host's events are streams of events that ProcTree knows.            *)

\* A fold is a step of ProcTree.
LEMMA FoldIsTreeStep ==
  ASSUME HInv, NEW e \in Event, HandleRawEvent(e)
  PROVE  Next /\ now' = clock
<1>1. /\ e.pid \in Pids /\ e.pid # 0 /\ clock \in now .. MaxTime /\ e.ppid \in Pids \cup {None}
      /\ e.image \in Images \cup {None}
  BY DEF HInv, HostTypeOK, Event, Processes
<1>2. <<e.pid, clock>> \in EventKeys(e.pid, clock)
  BY <1>1 DEF EventKeys
<1>3. CASE e.type = "exec" /\ HandleExec(e.pid, e.ppid, e.image, <<e.pid, clock>>, clock)
  BY <1>1, <1>2, <1>3 DEF Next, Exec, HandleExec, Record
<1>4. CASE e.type = "fork" /\ HandleFork(e.pid, e.ppid, clock)
  BY <1>1, <1>4 DEF Next, Fork, HandleFork, Record
<1>5. CASE e.type = "exit" /\ HandleExit(e.pid, clock)
  BY <1>1, <1>5 DEF Next, Exit, HandleExit
<1> QED
  BY <1>3, <1>4, <1>5 DEF HandleRawEvent

\* A step of the host leaves the tree alone.
LEMMA HostStepKeepsTree ==
  ASSUME HInv, UNCHANGED treeVars
  PROVE  IInv' /\ KeysAreOwn'
BY StutterPreserves DEF HInv, KeysAreOwn, treeVars

\* Before the trace the tree is empty.
LEMMA HostInitHInv == HostInit => HInv
<1> SUFFICES ASSUME HostInit PROVE HInv
  OBVIOUS
<1>1. IInv /\ KeysAreOwn
  BY InitEstablishes DEF HostInit, Init, KeysAreOwn
<1>2. 0 \in Times /\ 0 \in Pids /\ Reaper \in Pids
  BY PidsAssumption, MaxTimeAssumption, HostAssumption DEF Times
<1>3. procs \in [Pids -> ProcessRecord \cup {None}]
  BY <1>2 DEF HostInit, ProcessRecord, NoExec, FirstParent
<1>4. everParent \in [Pids -> SUBSET Pids] /\ retired \in [Pids -> Times \cup {None}]
  BY <1>2 DEF HostInit, FirstParent
<1>5. clock \in now .. MaxTime
  BY <1>2, MaxTimeAssumption DEF HostInit, Init
<1>6. log \in Seq(Event) /\ Len(log) <= MaxLag
  BY HostAssumption DEF HostInit
<1> QED
  BY <1>1, <1>3, <1>4, <1>5, <1>6 DEF HInv, HostTypeOK, IInv

\* Types after a fork.
LEMMA HostForkHInv ==
  ASSUME HInv, NEW p \in Processes, NEW c \in Processes, HostFork(p, c)
  PROVE  HInv'
<1>1. IInv' /\ KeysAreOwn'
  BY HostStepKeepsTree DEF HostFork
<1>2. p \in Pids /\ c \in Pids /\ clock \in Times /\ UNCHANGED <<clock, now>>
  BY MaxTimeAssumption DEF Processes, HInv, HostTypeOK, TypeOK, Times, HostFork, treeVars
<1>3. [parent |-> p, born |-> clock, ran |-> NoExec] \in ProcessRecord
  BY <1>2 DEF ProcessRecord, NoExec
<1>4. /\ procs' \in [Pids -> ProcessRecord \cup {None}]
      /\ everParent' \in [Pids -> SUBSET Pids] /\ retired' \in [Pids -> Times \cup {None}]
  BY <1>2, <1>3 DEF HInv, HostTypeOK, HostFork
<1>5. [type |-> "fork", pid |-> c, ppid |-> p, image |-> None] \in Event
  BY <1>2 DEF Event
<1>6. log' \in Seq(Event) /\ Len(log') <= MaxLag
  BY <1>5, LogAppended, HostAssumption DEF HInv, HostFork, Report
<1> QED
  BY <1>1, <1>2, <1>4, <1>6 DEF HInv, HostTypeOK, IInv

\* Types after an exec.
LEMMA HostExecHInv ==
  ASSUME HInv, NEW p \in Processes, NEW image \in Images, HostExec(p, image)
  PROVE  HInv'
<1>1. IInv' /\ KeysAreOwn'
  BY HostStepKeepsTree DEF HostExec
<1>2. /\ p \in Pids /\ clock \in Times /\ UNCHANGED <<clock, now, retired, everParent>>
      /\ procs[p] \in ProcessRecord
  BY MaxTimeAssumption DEF Processes, HInv, HostTypeOK, TypeOK, Times, HostExec, treeVars, Running
<1> DEFINE ran == [second |-> clock,
                   images |-> {image} \cup IF procs[p].ran.second = clock THEN procs[p].ran.images ELSE {}]
<1>3. procs' = [procs EXCEPT ![p].ran = ran]
  BY DEF HostExec
<1>4. ran \in [second : Times \cup {None}, images : SUBSET Images]
  BY <1>2 DEF ProcessRecord
<1> HIDE DEF ran
<1>5. procs' \in [Pids -> ProcessRecord \cup {None}]
  BY <1>2, <1>3, <1>4 DEF HInv, HostTypeOK, ProcessRecord
<1>6. [type |-> "exec", pid |-> p, ppid |-> procs[p].parent, image |-> image] \in Event
  BY <1>2 DEF Event, ProcessRecord
<1>7. log' \in Seq(Event) /\ Len(log') <= MaxLag
  BY <1>6, LogAppended, HostAssumption DEF HInv, HostExec, Report
<1> QED
  BY <1>1, <1>2, <1>5, <1>7 DEF HInv, HostTypeOK, IInv

\* Types after an exit.
LEMMA HostExitHInv ==
  ASSUME HInv, NEW p \in Processes, HostExit(p)
  PROVE  HInv'
<1>1. IInv' /\ KeysAreOwn'
  BY HostStepKeepsTree DEF HostExit
<1>2. /\ p \in Pids /\ clock \in Times /\ UNCHANGED <<clock, now>> /\ Reaper \in Pids
  BY MaxTimeAssumption, HostAssumption
     DEF Processes, HInv, HostTypeOK, TypeOK, Times, HostExit, treeVars
<1>3. \A q \in Processes : Running(q) => [procs[q] EXCEPT !.parent = Reaper] \in ProcessRecord
  BY <1>2 DEF Running, HInv, HostTypeOK, ProcessRecord, Processes
<1>4. procs' \in [Pids -> ProcessRecord \cup {None}]
  BY <1>3 DEF HInv, HostTypeOK, HostExit
<1>5. everParent' \in [Pids -> SUBSET Pids] /\ retired' \in [Pids -> Times \cup {None}]
  BY <1>2 DEF HInv, HostTypeOK, HostExit
<1>6. [type |-> "exit", pid |-> p, ppid |-> None, image |-> None] \in Event
  BY <1>2 DEF Event
<1>7. log' \in Seq(Event) /\ Len(log') <= MaxLag
  BY <1>6, LogAppended, HostAssumption DEF HInv, HostExit, Report
<1> QED
  BY <1>1, <1>2, <1>4, <1>5, <1>7 DEF HInv, HostTypeOK, IInv

\* Types after a second has ended.
LEMMA TickHInv == ASSUME HInv, Tick PROVE HInv'
<1>1. IInv' /\ KeysAreOwn'
  BY HostStepKeepsTree DEF Tick
<1>2. clock' \in now' .. MaxTime
  BY MaxTimeAssumption DEF HInv, HostTypeOK, TypeOK, Times, Tick, treeVars
<1> QED
  BY <1>1, <1>2 DEF HInv, HostTypeOK, IInv, Tick

\* A fold is a step of ProcTree and keeps keys with their pids.
LEMMA FoldHInv == ASSUME HInv, Fold PROVE HInv'
<1>1. PICK i \in DOMAIN log : HandleRawEvent(log[i]) /\ log' = RemoveAt(log, i)
  BY DEF Fold
<1>2. /\ log[i] \in Event /\ log' \in Seq(Event) /\ Len(log) \in Nat /\ Len(log') = Len(log) - 1
  BY <1>1, LogFolded DEF HInv
<1>3. UNCHANGED <<procs, retired, everParent, clock>>
  BY DEF Fold
<1>4. Next /\ now' = clock
  BY <1>1, <1>2, FoldIsTreeStep
<1>5. IInv'
  BY <1>4, StepPreserves DEF HInv
<1>6. KeysAreOwn'
  <2> DEFINE e == log[i]
  <2>1. /\ \A q \in Pids : q # e.pid => pidIndex'[q] = pidIndex[q]
        /\ e.type = "exit" => pidIndex' = pidIndex
        /\ e.type # "exit" => pidIndex'[e.pid] = KeyFor(e.pid, <<e.pid, clock>>)
    BY <1>1, <1>2, FoldOfEvent
  <2>2. KeyFor(e.pid, <<e.pid, clock>>)[1] = e.pid
    BY <1>2 DEF HInv, KeysAreOwn, KeyFor, Event, Processes
  <2> HIDE DEF e
  <2> QED
    BY <2>1, <2>2 DEF HInv, KeysAreOwn
<1>7. clock' \in now' .. MaxTime
  BY <1>3, <1>4, MaxTimeAssumption DEF HInv, HostTypeOK, TypeOK, Times
<1>8. Len(log') <= MaxLag
  BY <1>2, HostAssumption DEF HInv, HostTypeOK
<1> QED
  BY <1>2, <1>3, <1>5, <1>6, <1>7, <1>8 DEF HInv, HostTypeOK, IInv

\* Every step keeps the types and the structure of the tree.
LEMMA HostNextHInv == HInv /\ [HostNext]_vars => HInv'
<1> SUFFICES ASSUME HInv, [HostNext]_vars PROVE HInv'
  OBVIOUS
<1>1. CASE UNCHANGED vars
  <2>1. IInv' /\ KeysAreOwn'
    BY <1>1, HostStepKeepsTree DEF vars
  <2> QED
    BY <1>1, <2>1 DEF vars, hostVars, treeVars, HInv, HostTypeOK, IInv
<1>2. CASE HostNext
  BY <1>2, HostForkHInv, HostExecHInv, HostExitHInv, TickHInv, FoldHInv DEF HostNext
<1> QED
  BY <1>1, <1>2

-----------------------------------------------------------------------------
(* No pid is given out twice: the steps of the host.                       *)

\* Types of processes and of what is in the log.
LEMMA Basics ==
  ASSUME HInv
  PROVE  /\ None \notin Times /\ clock \in Times /\ Reaper \in Processes
         /\ \A p \in Processes : p \in Pids
         /\ \A p \in Processes : Running(p) =>
              /\ procs[p] \in ProcessRecord /\ procs[p].parent \in Pids
              /\ procs[p].born \in Times \cup {None}
              /\ procs[p].ran.second \in Times \cup {None}
         /\ \A e \in Logged : e \in Event /\ e.pid \in Processes
                              /\ e.type \in {"fork", "exec", "exit"}
<1>1. /\ None \notin Times /\ clock \in Times /\ Reaper \in Processes
      /\ \A p \in Processes : p \in Pids
  BY NoneAssumption, MaxTimeAssumption, HostAssumption
     DEF HInv, HostTypeOK, TypeOK, Times, Processes
<1>2. \A p \in Processes : Running(p) => procs[p] \in ProcessRecord
  BY <1>1 DEF HInv, HostTypeOK, Running
<1>3. \A e \in Logged : e \in Event
  BY DEF HInv, Logged
<1> QED
  BY <1>1, <1>2, <1>3 DEF ProcessRecord, Event

\* An event appended to the log is not of a process whose exit is in it.
LEMMA AppendedInOrder ==
  ASSUME HInv, Truth, NEW e \in Event, log' = Append(log, e),
         \A x \in Logged : x.type = "exit" => x.pid # e.pid
  PROVE  \A i, j \in DOMAIN log' : (log'[i].type = "exit" /\ i < j) => log'[j].pid # log'[i].pid
<1> SUFFICES ASSUME NEW i \in DOMAIN log', NEW j \in DOMAIN log', log'[i].type = "exit", i < j
             PROVE  log'[j].pid # log'[i].pid
  OBVIOUS
<1>1. /\ Len(log) \in Nat /\ DOMAIN log = 1 .. Len(log) /\ DOMAIN log' = 1 .. Len(log) + 1
      /\ \A m \in DOMAIN log : log'[m] = log[m]
      /\ log'[Len(log) + 1] = e
  BY LogAppended DEF HInv
<1>2. i \in DOMAIN log /\ log'[i] = log[i] /\ log[i] \in Logged
  BY <1>1 DEF Logged
<1>3. CASE j \in DOMAIN log
  BY <1>1, <1>2, <1>3 DEF Truth, EventsAreRecent
<1>4. CASE j \notin DOMAIN log
  <2>1. j = Len(log) + 1
    BY <1>1, <1>4
  <2> QED
    BY <1>1, <1>2, <2>1
<1> QED
  BY <1>3, <1>4

\* A fork: the child was never seen, and nothing is known of it but the fork.
LEMMA HostForkTruth ==
  ASSUME Reuse = FALSE, HInv, Truth, NEW p \in Processes, NEW c \in Processes, HostFork(p, c)
  PROVE  Truth'
<1> DEFINE e == [type |-> "fork", pid |-> c, ppid |-> p, image |-> None]
           new == [parent |-> p, born |-> clock, ran |-> NoExec]
<1>1. /\ Running(p) /\ ~Running(c) /\ retired[c] = None /\ c # p
      /\ UNCHANGED <<nodes, pidIndex, clock>>
  BY DEF HostFork, treeVars
<1>2. /\ None \notin Times /\ clock \in Times /\ c \in Pids /\ p \in Pids
      /\ \A q \in Processes : q \in Pids
  BY Basics
<1>3. pidIndex[c] = None
  BY <1>1 DEF Truth, LivesAreOnce
<1>4. \A x \in Logged : x.pid # c
  BY <1>1, <1>2 DEF Truth, EventsAreRecent
<1>5. /\ procs'[c] = new /\ everParent'[c] = {p} /\ retired'[c] = None
      /\ \A q \in Processes \ {c} : /\ procs'[q] = procs[q] /\ everParent'[q] = everParent[q]
                                    /\ retired'[q] = retired[q]
  BY <1>2 DEF HostFork, HInv, HostTypeOK
<1>6. new # None
  <2>1. new \in ProcessRecord
    BY <1>2 DEF ProcessRecord, NoExec
  <2> QED
    BY <2>1, NoProcessAssumption
<1>7. new.parent = p /\ new.born = clock /\ new.ran.second = None
  BY DEF NoExec
<1>8. e \in Event /\ e.pid = c /\ e.type = "fork" /\ e.ppid = p
  BY <1>2 DEF Event
<1>9. log' = Append(log, e)
  BY DEF HostFork, Report
<1> HIDE DEF e, new
<1>10. Logged' = Logged \cup {e}
  BY <1>8, <1>9, LogAppended DEF HInv
<1>11. LivesAreOnce'
  BY <1>1, <1>3, <1>5, <1>6 DEF Truth, LivesAreOnce, Running
<1>12. EventsAreRecent'
  <2>1. \A x \in Logged' : Running(x.pid)' \/ retired'[x.pid] = clock'
    BY <1>1, <1>4, <1>5, <1>6, <1>8, <1>10, Basics DEF Truth, EventsAreRecent, Running
  <2>2. \A x \in Logged' : x.type = "exit" => ~Running(x.pid)'
    BY <1>1, <1>4, <1>5, <1>8, <1>10, Basics DEF Truth, EventsAreRecent, Running
  <2>3. \A i, j \in DOMAIN log' : (log'[i].type = "exit" /\ i < j) => log'[j].pid # log'[i].pid
    BY <1>4, <1>8, <1>9, AppendedInOrder
  <2> QED
    BY <2>1, <2>2, <2>3 DEF EventsAreRecent
<1>13. RunningIsOpen'
  BY <1>1, <1>3, <1>5, <1>7, <1>8, <1>10 DEF Truth, RunningIsOpen, Running, NodeOf
<1>14. ExitsAreFolded'
  <2> SUFFICES ASSUME NEW q \in Processes, retired'[q] # None, ~ExitLogged(q)'
               PROVE  /\ pidIndex'[q] # None => NodeOf(q)'.exit # None \/ (~Ordered /\ NodeOf(q)'.start = retired'[q])
                      /\ Ordered => \A x \in Logged' : x.pid # q
    BY DEF ExitsAreFolded
  <2>1. q # c /\ retired[q] # None
    BY <1>5
  <2>2. ~ExitLogged(q)
    BY <1>10 DEF ExitLogged
  <2> QED
    BY <1>1, <1>5, <1>8, <1>10, <2>1, <2>2 DEF Truth, ExitsAreFolded, NodeOf
<1>15. ParentsAreReal'
  <2>1. \A q \in Processes : Running(q)' => procs'[q].parent \in everParent'[q]
    BY <1>5, <1>7 DEF Truth, ParentsAreReal, Running
  <2>2. \A x \in Logged' : x.type # "exit" => x.ppid \in everParent'[x.pid]
    BY <1>4, <1>5, <1>8, <1>10, Basics DEF Truth, ParentsAreReal
  <2>3. \A q \in Processes : (pidIndex'[q] # None /\ NodeOf(q)'.parent # None) =>
          NodeOf(q)'.parent[1] \in everParent'[q]
    BY <1>1, <1>3, <1>5 DEF Truth, ParentsAreReal, NodeOf
  <2> QED
    BY <2>1, <2>2, <2>3 DEF ParentsAreReal
<1>16. ImagesAreRecent'
  <2>1. \A x \in Logged' : (x.type = "exec" /\ Running(x.pid)') =>
          procs'[x.pid].ran.second = clock' /\ x.image \in procs'[x.pid].ran.images
    BY <1>1, <1>4, <1>5, <1>8, <1>10, Basics DEF Truth, ImagesAreRecent, Running
  <2>2. ASSUME NEW q \in Processes, Running(q)', procs'[q].ran.second # None, ~ExecLogged(q)'
        PROVE  pidIndex'[q] # None /\ NodeOf(q)'.image \in procs'[q].ran.images
    <3>1. q # c
      BY <1>5, <1>7, <2>2
    <3>2. ~ExecLogged(q)
      BY <1>10, <2>2 DEF ExecLogged
    <3> QED
      BY <1>1, <1>5, <2>2, <3>1, <3>2 DEF Truth, ImagesAreRecent, Running, NodeOf
  <2> QED
    BY <2>1, <2>2 DEF ImagesAreRecent
<1> QED
  BY <1>11, <1>12, <1>13, <1>14, <1>15, <1>16 DEF Truth

\* An exec: the process runs something else, as its child or not.
LEMMA HostExecTruth ==
  ASSUME HInv, HInv', Truth, NEW p \in Processes, NEW image \in Images, HostExec(p, image)
  PROVE  Truth'
<1> DEFINE e == [type |-> "exec", pid |-> p, ppid |-> procs[p].parent, image |-> image]
           ran == [second |-> clock,
                   images |-> {image} \cup IF procs[p].ran.second = clock THEN procs[p].ran.images ELSE {}]
           new == [procs[p] EXCEPT !.ran = ran]
<1>1. Running(p) /\ UNCHANGED <<nodes, pidIndex, clock, retired, everParent>>
  BY DEF HostExec, treeVars
<1>2. /\ None \notin Times /\ clock \in Times /\ p \in Pids /\ procs[p] \in ProcessRecord
      /\ procs[p].parent \in Pids /\ \A q \in Processes : q \in Pids
  BY <1>1, Basics
<1>3. procs' = [procs EXCEPT ![p] = new]
  BY DEF HostExec
<1>4. e \in Event /\ e.pid = p /\ e.type = "exec" /\ e.ppid = procs[p].parent /\ e.image = image
  BY <1>2 DEF Event
<1>5. log' = Append(log, e)
  BY DEF HostExec, Report
<1>6. /\ ran.second = clock /\ image \in ran.images
      /\ procs[p].ran.second = clock => procs[p].ran.images \subseteq ran.images
      /\ ran \in [second : Times \cup {None}, images : SUBSET Images]
  BY <1>2 DEF ProcessRecord
<1> HIDE DEF ran
<1>7. new \in ProcessRecord /\ new.parent = procs[p].parent /\ new.born = procs[p].born /\ new.ran = ran
  BY <1>2, <1>6 DEF ProcessRecord
<1> HIDE DEF new, e
<1>8. procs'[p] = new /\ new # None /\ \A q \in Processes \ {p} : procs'[q] = procs[q]
  BY <1>2, <1>3, <1>7, NoProcessAssumption DEF HInv, HostTypeOK
<1>9. \A q \in Processes : /\ Running(q)' <=> Running(q)
                           /\ procs'[q].parent = procs[q].parent /\ procs'[q].born = procs[q].born
  BY <1>1, <1>7, <1>8 DEF Running
<1>10. Logged' = Logged \cup {e}
  BY <1>4, <1>5, LogAppended DEF HInv
<1>11. LivesAreOnce'
  BY <1>1, <1>9 DEF Truth, LivesAreOnce
<1>12. EventsAreRecent'
  <2>1. \A x \in Logged' : Running(x.pid)' \/ retired'[x.pid] = clock'
    BY <1>1, <1>4, <1>9, <1>10, Basics DEF Truth, EventsAreRecent
  <2>2. \A x \in Logged' : x.type = "exit" => ~Running(x.pid)'
    BY <1>4, <1>9, <1>10, Basics DEF Truth, EventsAreRecent
  <2>3. \A x \in Logged : x.type = "exit" => x.pid # e.pid
    BY <1>1, <1>4 DEF Truth, EventsAreRecent
  <2>4. \A i, j \in DOMAIN log' : (log'[i].type = "exit" /\ i < j) => log'[j].pid # log'[i].pid
    BY <1>4, <1>5, <2>3, AppendedInOrder
  <2> QED
    BY <2>1, <2>2, <2>4 DEF EventsAreRecent
<1>13. RunningIsOpen'
  BY <1>1, <1>9, <1>10 DEF Truth, RunningIsOpen, NodeOf
<1>14. ExitsAreFolded'
  <2> SUFFICES ASSUME NEW q \in Processes, retired'[q] # None, ~ExitLogged(q)'
               PROVE  /\ pidIndex'[q] # None => NodeOf(q)'.exit # None \/ (~Ordered /\ NodeOf(q)'.start = retired'[q])
                      /\ Ordered => \A x \in Logged' : x.pid # q
    BY DEF ExitsAreFolded
  <2>1. q # p /\ retired[q] # None
    BY <1>1 DEF Truth, LivesAreOnce
  <2>2. ~ExitLogged(q)
    BY <1>10 DEF ExitLogged
  <2> QED
    BY <1>1, <1>4, <1>10, <2>1, <2>2 DEF Truth, ExitsAreFolded, NodeOf
<1>15. ParentsAreReal'
  <2>1. \A q \in Processes : Running(q)' => procs'[q].parent \in everParent'[q]
    BY <1>1, <1>9 DEF Truth, ParentsAreReal
  <2>2. \A x \in Logged' : x.type # "exit" => x.ppid \in everParent'[x.pid]
    BY <1>1, <1>4, <1>10 DEF Truth, ParentsAreReal
  <2>3. \A q \in Processes : (pidIndex'[q] # None /\ NodeOf(q)'.parent # None) =>
          NodeOf(q)'.parent[1] \in everParent'[q]
    BY <1>1 DEF Truth, ParentsAreReal, NodeOf
  <2> QED
    BY <2>1, <2>2, <2>3 DEF ParentsAreReal
<1>16. ImagesAreRecent'
  <2>1. ASSUME NEW x \in Logged', x.type = "exec", Running(x.pid)'
        PROVE  procs'[x.pid].ran.second = clock' /\ x.image \in procs'[x.pid].ran.images
    <3>1. CASE x = e
      BY <1>1, <1>4, <1>6, <1>7, <1>8, <3>1
    <3>2. CASE x \in Logged
      <4>1. /\ x.pid \in Processes /\ procs[x.pid].ran.second = clock
            /\ x.image \in procs[x.pid].ran.images
        BY <1>9, <2>1, <3>2, Basics DEF Truth, ImagesAreRecent
      <4>2. CASE x.pid = p
        BY <1>1, <1>6, <1>7, <1>8, <4>1, <4>2
      <4>3. CASE x.pid # p
        BY <1>1, <1>8, <4>1, <4>3
      <4> QED
        BY <4>2, <4>3
    <3> QED
      BY <1>10, <3>1, <3>2
  <2>2. ASSUME NEW q \in Processes, Running(q)', procs'[q].ran.second # None, ~ExecLogged(q)'
        PROVE  pidIndex'[q] # None /\ NodeOf(q)'.image \in procs'[q].ran.images
    <3>1. q # p
      BY <1>4, <1>10, <2>2 DEF ExecLogged
    <3>2. ~ExecLogged(q)
      BY <1>10, <2>2 DEF ExecLogged
    <3> QED
      BY <1>1, <1>8, <2>2, <3>1, <3>2 DEF Truth, ImagesAreRecent, Running, NodeOf
  <2> QED
    BY <2>1, <2>2 DEF ImagesAreRecent
<1> QED
  BY <1>11, <1>12, <1>13, <1>14, <1>15, <1>16 DEF Truth

\* An exit: the process is retired, its children get another parent.
LEMMA HostExitTruth ==
  ASSUME HInv, Truth, NEW p \in Processes, HostExit(p)
  PROVE  Truth'
<1> DEFINE e == [type |-> "exit", pid |-> p, ppid |-> None, image |-> None]
<1>1. Running(p) /\ UNCHANGED <<nodes, pidIndex, clock>>
  BY DEF HostExit, treeVars
<1>2. /\ None \notin Times /\ clock \in Times /\ p \in Pids
      /\ \A q \in Processes : q \in Pids
      /\ \A q \in Processes : Running(q) => procs[q] \in ProcessRecord
      /\ Reaper \in Pids
  BY Basics DEF Processes
<1>3. procs'[p] = None /\ retired'[p] = clock
  BY <1>2 DEF HostExit, HInv, HostTypeOK
<1>4. \A q \in Processes \ {p} : retired'[q] = retired[q] /\ everParent[q] \subseteq everParent'[q]
  BY <1>2 DEF HostExit, HInv, HostTypeOK
<1>5. ASSUME NEW q \in Processes \ {p}
      PROVE  /\ Running(q)' <=> Running(q)
             /\ Running(q) => /\ procs'[q].born = procs[q].born /\ procs'[q].ran = procs[q].ran
                              /\ \/ procs'[q].parent = procs[q].parent
                                 \/ procs'[q].parent = Reaper /\ Reaper \in everParent'[q]
  <2>1. CASE Running(q) /\ procs[q].parent = p
    <3>1. procs'[q] = [procs[q] EXCEPT !.parent = Reaper] /\ Reaper \in everParent'[q]
      BY <1>2, <2>1 DEF HostExit, Running
    <3>2. procs[q] \in ProcessRecord
      BY <1>2, <2>1
    <3>3. /\ procs'[q] \in ProcessRecord /\ procs'[q].born = procs[q].born
          /\ procs'[q].ran = procs[q].ran /\ procs'[q].parent = Reaper
      BY <1>2, <3>1, <3>2 DEF ProcessRecord
    <3> QED
      BY <2>1, <3>1, <3>3, NoProcessAssumption DEF Running
  <2>2. CASE ~(Running(q) /\ procs[q].parent = p)
    <3>1. procs'[q] = procs[q]
      BY <1>2, <2>2 DEF HostExit, Running
    <3> QED
      BY <3>1 DEF Running
  <2> QED
    BY <2>1, <2>2
<1>6. everParent[p] \subseteq everParent'[p]
  BY <1>2 DEF HostExit, HInv, HostTypeOK
<1>7. e \in Event /\ e.pid = p /\ e.type = "exit"
  BY <1>2 DEF Event
<1>8. log' = Append(log, e)
  BY DEF HostExit, Report
<1> HIDE DEF e
<1>9. Logged' = Logged \cup {e}
  BY <1>7, <1>8, LogAppended DEF HInv
<1>10. ~Running(p)'
  BY <1>3 DEF Running
<1>11. LivesAreOnce'
  BY <1>1, <1>2, <1>3, <1>4, <1>5, <1>10 DEF Truth, LivesAreOnce
<1>12. EventsAreRecent'
  <2>1. \A x \in Logged' : Running(x.pid)' \/ retired'[x.pid] = clock'
    BY <1>1, <1>3, <1>4, <1>5, <1>7, <1>9, Basics DEF Truth, EventsAreRecent
  <2>2. \A x \in Logged' : x.type = "exit" => ~Running(x.pid)'
    BY <1>5, <1>7, <1>9, <1>10, Basics DEF Truth, EventsAreRecent
  <2>3. \A x \in Logged : x.type = "exit" => x.pid # e.pid
    BY <1>1, <1>7 DEF Truth, EventsAreRecent
  <2>4. \A i, j \in DOMAIN log' : (log'[i].type = "exit" /\ i < j) => log'[j].pid # log'[i].pid
    BY <1>7, <1>8, <2>3, AppendedInOrder
  <2> QED
    BY <2>1, <2>2, <2>4 DEF EventsAreRecent
<1>13. RunningIsOpen'
  BY <1>1, <1>5, <1>9, <1>10 DEF Truth, RunningIsOpen, NodeOf
<1>14. ExitsAreFolded'
  <2> SUFFICES ASSUME NEW q \in Processes, retired'[q] # None, ~ExitLogged(q)'
               PROVE  /\ pidIndex'[q] # None => NodeOf(q)'.exit # None \/ (~Ordered /\ NodeOf(q)'.start = retired'[q])
                      /\ Ordered => \A x \in Logged' : x.pid # q
    BY DEF ExitsAreFolded
  <2>1. q # p
    BY <1>7, <1>9 DEF ExitLogged
  <2>2. ~ExitLogged(q)
    BY <1>9 DEF ExitLogged
  <2> QED
    BY <1>1, <1>4, <1>7, <1>9, <2>1, <2>2 DEF Truth, ExitsAreFolded, NodeOf
<1>15. ParentsAreReal'
  <2>1. \A q \in Processes : Running(q)' => procs'[q].parent \in everParent'[q]
    BY <1>4, <1>5, <1>10 DEF Truth, ParentsAreReal
  <2>2. \A x \in Logged' : x.type # "exit" => x.ppid \in everParent'[x.pid]
    BY <1>4, <1>6, <1>7, <1>9, Basics DEF Truth, ParentsAreReal
  <2>3. \A q \in Processes : (pidIndex'[q] # None /\ NodeOf(q)'.parent # None) =>
          NodeOf(q)'.parent[1] \in everParent'[q]
    BY <1>1, <1>4, <1>6 DEF Truth, ParentsAreReal, NodeOf
  <2> QED
    BY <2>1, <2>2, <2>3 DEF ParentsAreReal
<1>16. ImagesAreRecent'
  <2>1. \A x \in Logged' : (x.type = "exec" /\ Running(x.pid)') =>
          procs'[x.pid].ran.second = clock' /\ x.image \in procs'[x.pid].ran.images
    BY <1>1, <1>5, <1>7, <1>9, <1>10, Basics DEF Truth, ImagesAreRecent
  <2>2. ASSUME NEW q \in Processes, Running(q)', procs'[q].ran.second # None, ~ExecLogged(q)'
        PROVE  pidIndex'[q] # None /\ NodeOf(q)'.image \in procs'[q].ran.images
    <3>1. q # p /\ Running(q)
      BY <1>5, <1>10, <2>2
    <3>2. ~ExecLogged(q)
      BY <1>9, <2>2 DEF ExecLogged
    <3> QED
      BY <1>1, <1>5, <2>2, <3>1, <3>2 DEF Truth, ImagesAreRecent, NodeOf
  <2> QED
    BY <2>1, <2>2 DEF ImagesAreRecent
<1> QED
  BY <1>11, <1>12, <1>13, <1>14, <1>15, <1>16 DEF Truth

\* A second ends with nothing left to fold.
LEMMA TickTruth == ASSUME HInv, Truth, Tick PROVE Truth'
<1>1. log = <<>> /\ UNCHANGED <<procs, retired, everParent, log, nodes, pidIndex>>
  BY DEF Tick, treeVars
<1>2. DOMAIN log = {} /\ Logged = {} /\ Logged' = {}
  BY <1>1 DEF Logged
<1>3. LivesAreOnce'
  BY <1>1 DEF Truth, LivesAreOnce, Running
<1>4. EventsAreRecent'
  BY <1>1, <1>2 DEF EventsAreRecent
<1>5. RunningIsOpen'
  BY <1>1, <1>2 DEF Truth, RunningIsOpen, Running, NodeOf
<1>6. ExitsAreFolded'
  BY <1>1, <1>2 DEF Truth, ExitsAreFolded, ExitLogged, NodeOf
<1>7. ParentsAreReal'
  BY <1>1, <1>2 DEF Truth, ParentsAreReal, Running, NodeOf
<1>8. ImagesAreRecent'
  BY <1>1, <1>2 DEF Truth, ImagesAreRecent, ExecLogged, Running, NodeOf
<1> QED
  BY <1>3, <1>4, <1>5, <1>6, <1>7, <1>8 DEF Truth

\* An event is folded: what it says of its process was so when it was reported.
LEMMA FoldTruth == ASSUME HInv, Truth, Fold PROVE Truth'
<1>1. PICK i \in DOMAIN log : (Ordered => i = 1) /\ HandleRawEvent(log[i]) /\ log' = RemoveAt(log, i)
  BY DEF Fold
<1> DEFINE e == log[i]
<1>2. UNCHANGED <<procs, retired, everParent, clock>>
  BY DEF Fold
<1>3. /\ e \in Event /\ e \in Logged /\ Logged' \subseteq Logged /\ Logged \subseteq Logged' \cup {e}
      /\ \A j, l \in DOMAIN log' : j < l =>
           \E m, n \in DOMAIN log : m < n /\ log'[j] = log[m] /\ log'[l] = log[n]
      /\ i = 1 => \A x \in Logged' : \E j \in DOMAIN log : 1 < j /\ x = log[j]
  BY <1>1, LogFolded DEF HInv
<1>4. /\ None \notin Times /\ clock \in Times /\ e.pid \in Processes
      /\ e.type \in {"fork", "exec", "exit"} /\ \A q \in Processes : q \in Pids
  BY <1>3, Basics
<1>5. \A q \in Pids : q # e.pid =>
        /\ pidIndex'[q] = pidIndex[q]
        /\ pidIndex[q] # None => nodes'[pidIndex'[q]] = NodeOf(q)
  BY <1>1, <1>3, FoldOfEvent
<1>6. ASSUME e.type = "exit"
      PROVE  /\ pidIndex' = pidIndex
             /\ pidIndex[e.pid] # None =>
                  nodes'[pidIndex'[e.pid]] = [NodeOf(e.pid) EXCEPT !.exit = clock]
  BY <1>1, <1>3, <1>6, FoldOfEvent
<1>7. ASSUME e.type # "exit"
      PROVE  /\ pidIndex'[e.pid] = KeyFor(e.pid, <<e.pid, clock>>)
             /\ LET old == IF pidIndex[e.pid] # None THEN NodeOf(e.pid)
                           ELSE [pid |-> e.pid, parent |-> None, image |-> None,
                                 start |-> clock, exit |-> None]
                    new == nodes'[pidIndex'[e.pid]]
                IN  /\ new.start = old.start /\ new.exit = old.exit
                    /\ new.image = IF e.type = "exec" THEN e.image ELSE old.image
                    /\ new.parent = ResolveParentKey(e.ppid, e.pid, clock)
  BY <1>1, <1>3, <1>7, FoldOfEvent
<1>8. Running(e.pid) \/ retired[e.pid] = clock
  BY <1>3 DEF Truth, EventsAreRecent
<1>9. e.type = "exit" => ~Running(e.pid)
  BY <1>3 DEF Truth, EventsAreRecent
<1>10. pidIndex[e.pid] # None => NodeOf(e.pid) \in Node
  BY <1>4 DEF HInv, IInv, TypeOK, IndexCoversNodes, IsNode, NodeOf
<1>11. <<e.pid, clock>> # None
  BY <1>4, NoneAssumption DEF Keys
<1>12. \A q \in Processes : Running(q)' <=> Running(q)
  BY <1>2 DEF Running
<1> HIDE DEF e
<1>13. LivesAreOnce'
  <2>1. \A q \in Processes : (~Running(q) /\ retired[q] = None) => q # e.pid
    BY <1>4, <1>8
  <2> QED
    BY <1>2, <1>4, <1>5, <1>12, <2>1 DEF Truth, LivesAreOnce
<1>14. EventsAreRecent'
  <2>1. \A x \in Logged' : Running(x.pid)' \/ retired'[x.pid] = clock'
    BY <1>2, <1>3, <1>12, Basics DEF Truth, EventsAreRecent
  <2>2. \A x \in Logged' : x.type = "exit" => ~Running(x.pid)'
    BY <1>3, <1>12, Basics DEF Truth, EventsAreRecent
  <2>3. \A j, l \in DOMAIN log' : (log'[j].type = "exit" /\ j < l) => log'[l].pid # log'[j].pid
    BY <1>3 DEF Truth, EventsAreRecent
  <2> QED
    BY <2>1, <2>2, <2>3 DEF EventsAreRecent
<1>15. RunningIsOpen'
  <2> SUFFICES ASSUME NEW q \in Processes, Running(q)
               PROVE  /\ pidIndex'[q] # None => nodes'[pidIndex'[q]].exit = None
                      /\ procs[q].born # None =>
                           \/ pidIndex'[q] = <<q, procs[q].born>>
                           \/ pidIndex'[q] = None /\ procs[q].born = clock /\ \E x \in Logged' : x.pid = q
    BY <1>2, <1>12 DEF RunningIsOpen, NodeOf
  <2>1. CASE q # e.pid
    <3>1. (\E x \in Logged : x.pid = q) => \E x \in Logged' : x.pid = q
      BY <1>3, <2>1
    <3> QED
      BY <1>4, <1>5, <2>1, <3>1 DEF Truth, RunningIsOpen
  <2>2. CASE q = e.pid
    <3>1. e.type # "exit"
      BY <1>9, <2>2
    <3>2. nodes'[pidIndex'[q]].exit = None
      BY <1>7, <2>2, <3>1 DEF Truth, RunningIsOpen
    <3>3. pidIndex'[q] = IF pidIndex[q] # None THEN pidIndex[q] ELSE <<q, clock>>
      BY <1>7, <2>2, <3>1 DEF KeyFor
    <3>4. ASSUME procs[q].born # None PROVE pidIndex'[q] = <<q, procs[q].born>>
      <4>1. \/ pidIndex[q] = <<q, procs[q].born>>
            \/ pidIndex[q] = None /\ procs[q].born = clock
        BY <3>4 DEF Truth, RunningIsOpen
      <4>2. <<q, procs[q].born>> # None
        <5>1. procs[q].born \in Times /\ q \in Pids
          BY <1>4, <3>4, Basics
        <5> QED
          BY <5>1, NoneAssumption DEF Keys
      <4> QED
        BY <3>3, <4>1, <4>2
    <3> QED
      BY <3>2, <3>4
  <2> QED
    BY <2>1, <2>2
<1>16. ExitsAreFolded'
  <2> SUFFICES ASSUME NEW q \in Processes, retired[q] # None, ~ExitLogged(q)'
               PROVE  /\ pidIndex'[q] # None => \/ nodes'[pidIndex'[q]].exit # None
                                                \/ ~Ordered /\ nodes'[pidIndex'[q]].start = retired[q]
                      /\ Ordered => \A x \in Logged' : x.pid # q
    BY <1>2 DEF ExitsAreFolded, NodeOf
  <2>1. ~(q = e.pid /\ e.type = "exit") => ~ExitLogged(q)
    BY <1>3 DEF ExitLogged
  <2>2. CASE q # e.pid
    BY <1>3, <1>4, <1>5, <2>1, <2>2 DEF Truth, ExitsAreFolded
  <2>3. CASE q = e.pid /\ e.type = "exit"
    <3>1. ASSUME pidIndex'[q] # None PROVE nodes'[pidIndex'[q]].exit # None
      <4>1. NodeOf(q) \in Node /\ nodes'[pidIndex'[q]] = [NodeOf(q) EXCEPT !.exit = clock]
        BY <1>6, <1>10, <2>3, <3>1
      <4>2. nodes'[pidIndex'[q]].exit = clock
        BY <4>1 DEF Node
      <4> QED
        BY <1>4, <4>2
    <3>2. ASSUME Ordered, NEW x \in Logged' PROVE x.pid # q
      <4>1. PICK j \in DOMAIN log : i < j /\ x = log[j]
        BY <1>1, <1>3, <3>2
      <4> QED
        BY <2>3, <4>1 DEF e, Truth, EventsAreRecent
    <3> QED
      BY <3>1, <3>2
  <2>4. CASE q = e.pid /\ e.type # "exit"
    <3>1. ~ExitLogged(q) /\ ~Ordered
      BY <1>3, <2>1, <2>4 DEF Truth, ExitsAreFolded
    <3>2. retired[q] = clock
      BY <1>8, <2>4 DEF Truth, LivesAreOnce
    <3>3. CASE pidIndex[q] # None
      BY <1>7, <2>4, <3>1, <3>3 DEF Truth, ExitsAreFolded
    <3>4. CASE pidIndex[q] = None
      BY <1>7, <2>4, <3>1, <3>2, <3>4
    <3> QED
      BY <3>1, <3>3, <3>4
  <2> QED
    BY <2>2, <2>3, <2>4
<1>17. ParentsAreReal'
  <2>1. \A q \in Processes : Running(q)' => procs'[q].parent \in everParent'[q]
    BY <1>2, <1>12 DEF Truth, ParentsAreReal
  <2>2. \A x \in Logged' : x.type # "exit" => x.ppid \in everParent'[x.pid]
    BY <1>2, <1>3 DEF Truth, ParentsAreReal
  <2>3. ASSUME NEW q \in Processes, pidIndex'[q] # None, nodes'[pidIndex'[q]].parent # None
        PROVE  nodes'[pidIndex'[q]].parent[1] \in everParent[q]
    <3>1. CASE q # e.pid
      BY <1>4, <1>5, <2>3, <3>1 DEF Truth, ParentsAreReal
    <3>2. CASE q = e.pid /\ e.type = "exit"
      <4>1. NodeOf(q) \in Node /\ nodes'[pidIndex'[q]] = [NodeOf(q) EXCEPT !.exit = clock]
        BY <1>6, <1>10, <2>3, <3>2
      <4>2. nodes'[pidIndex'[q]].parent = NodeOf(q).parent
        BY <4>1 DEF Node
      <4> QED
        BY <1>6, <2>3, <3>2, <4>2 DEF Truth, ParentsAreReal
    <3>3. CASE q = e.pid /\ e.type # "exit"
      <4>1. nodes'[pidIndex'[q]].parent = ResolveParentKey(e.ppid, q, clock)
        BY <1>7, <3>3
      <4>2. e.ppid # None /\ e.ppid \in Pids
        BY <1>3, <2>3, <4>1 DEF ResolveParentKey, Event
      <4>3. ResolveParentKey(e.ppid, q, clock)[1] = e.ppid
        BY <2>3, <4>1, <4>2 DEF ResolveParentKey, HInv, KeysAreOwn
      <4> QED
        BY <1>3, <3>3, <4>1, <4>3 DEF Truth, ParentsAreReal
    <3> QED
      BY <3>1, <3>2, <3>3
  <2> QED
    BY <1>2, <2>1, <2>2, <2>3 DEF ParentsAreReal, NodeOf
<1>18. ImagesAreRecent'
  <2>1. \A x \in Logged' : (x.type = "exec" /\ Running(x.pid)') =>
          procs'[x.pid].ran.second = clock' /\ x.image \in procs'[x.pid].ran.images
    BY <1>2, <1>3, <1>12, Basics DEF Truth, ImagesAreRecent
  <2>2. ASSUME NEW q \in Processes, Running(q), procs[q].ran.second # None, ~ExecLogged(q)'
        PROVE  pidIndex'[q] # None /\ nodes'[pidIndex'[q]].image \in procs[q].ran.images
    <3>1. ~(q = e.pid /\ e.type = "exec") => ~ExecLogged(q)
      BY <1>3, <2>2 DEF ExecLogged
    <3>2. CASE q # e.pid
      BY <1>4, <1>5, <2>2, <3>1, <3>2 DEF Truth, ImagesAreRecent
    <3>3. CASE q = e.pid /\ e.type = "exec"
      <4>1. pidIndex'[q] # None /\ nodes'[pidIndex'[q]].image = e.image
        BY <1>7, <1>11, <3>3 DEF KeyFor
      <4>2. e.image \in procs[q].ran.images
        BY <1>3, <2>2, <3>3 DEF Truth, ImagesAreRecent
      <4> QED
        BY <4>1, <4>2
    <3>4. CASE q = e.pid /\ e.type = "fork"
      <4>1. pidIndex[q] # None /\ NodeOf(q).image \in procs[q].ran.images
        BY <2>2, <3>1, <3>4 DEF Truth, ImagesAreRecent
      <4>2. pidIndex'[q] # None /\ nodes'[pidIndex'[q]].image = NodeOf(q).image
        BY <1>7, <3>4, <4>1 DEF KeyFor
      <4> QED
        BY <4>1, <4>2
    <3> QED
      BY <1>4, <1>9, <2>2, <3>2, <3>3, <3>4
  <2> QED
    BY <1>2, <1>12, <2>1, <2>2 DEF ImagesAreRecent, NodeOf
<1> QED
  BY <1>13, <1>14, <1>15, <1>16, <1>17, <1>18 DEF Truth

\* When the trace starts nothing has been reported, and every process has the
\* parent it has.
LEMMA HostInitTruth == HostInit => Truth
<1> SUFFICES ASSUME HostInit PROVE Truth
  OBVIOUS
<1>1. Logged = {} /\ DOMAIN log = {}
  BY DEF HostInit, Logged
<1>2. \A p \in Processes : pidIndex[p] = None /\ retired[p] = None
  BY DEF HostInit, Init, Processes
<1>3. ASSUME NEW p \in Processes, Running(p)
      PROVE  /\ procs[p].parent = FirstParent(p) /\ procs[p].born = None
             /\ procs[p].ran.second = None /\ everParent[p] = {FirstParent(p)}
  <2>1. p \in Pids /\ p \in Preexisting
    BY <1>3 DEF HostInit, Running, Processes
  <2>2. procs[p] = [parent |-> FirstParent(p), born |-> None, ran |-> NoExec]
    BY <2>1 DEF HostInit
  <2>3. everParent[p] = {FirstParent(p)}
    BY <2>1 DEF HostInit
  <2> QED
    BY <2>2, <2>3 DEF NoExec
<1>4. LivesAreOnce
  BY <1>2 DEF LivesAreOnce
<1>5. EventsAreRecent
  BY <1>1 DEF EventsAreRecent
<1>6. RunningIsOpen
  BY <1>2, <1>3 DEF RunningIsOpen
<1>7. ExitsAreFolded
  BY <1>2 DEF ExitsAreFolded
<1>8. ParentsAreReal
  BY <1>1, <1>2, <1>3 DEF ParentsAreReal
<1>9. ImagesAreRecent
  BY <1>1, <1>3 DEF ImagesAreRecent
<1> QED
  BY <1>4, <1>5, <1>6, <1>7, <1>8, <1>9 DEF Truth

\* No step of the host or the fold makes the tree untrue.
LEMMA HostNextTruth ==
  ASSUME Reuse = FALSE
  PROVE  HInv /\ HInv' /\ Truth /\ [HostNext]_vars => Truth'
<1> SUFFICES ASSUME HInv, HInv', Truth, [HostNext]_vars PROVE Truth'
  OBVIOUS
<1>1. CASE HostNext
  BY <1>1, HostForkTruth, HostExecTruth, HostExitTruth, TickTruth, FoldTruth DEF HostNext
<1>2. CASE UNCHANGED vars
  <2>1. UNCHANGED <<procs, retired, everParent, clock, log, nodes, pidIndex>>
    BY <1>2 DEF vars, treeVars, hostVars
  <2>2. Logged' = Logged
    BY <2>1 DEF Logged
  <2>3. LivesAreOnce'
    BY <2>1 DEF Truth, LivesAreOnce, Running
  <2>4. EventsAreRecent'
    BY <2>1, <2>2 DEF Truth, EventsAreRecent, Running
  <2>5. RunningIsOpen'
    BY <2>1, <2>2 DEF Truth, RunningIsOpen, Running, NodeOf
  <2>6. ExitsAreFolded'
    BY <2>1, <2>2 DEF Truth, ExitsAreFolded, ExitLogged, NodeOf
  <2>7. ParentsAreReal'
    BY <2>1, <2>2 DEF Truth, ParentsAreReal, Running, NodeOf
  <2>8. ImagesAreRecent'
    BY <2>1, <2>2 DEF Truth, ImagesAreRecent, ExecLogged, Running, NodeOf
  <2> QED
    BY <2>3, <2>4, <2>5, <2>6, <2>7, <2>8 DEF Truth
<1> QED
  BY <1>1, <1>2

-----------------------------------------------------------------------------
(* The theorems.                                                           *)

\* Host, log and tree have their types, whatever the host does, pids given out
\* again included.
THEOREM HostInvariantHolds == HostSpec => []HInv
BY HostInitHInv, HostNextHInv, PTL DEF HostSpec

\* Processes, parents, exits and the clock have the values HostTypeOK names.
THEOREM HostTypeCorrect == HostSpec => []HostTypeOK
<1>1. HInv => HostTypeOK
  BY DEF HInv
<1> QED
  BY <1>1, HostInvariantHolds, PTL

\* The host makes the tree go through nothing ProcTree does not know: all that is
\* proved there of any stream of events holds of the events of a real host.
THEOREM HostFeedsTree == HostSpec => Spec
<1>1. HostInit => Init
  BY DEF HostInit
<1>2. HInv /\ [HostNext]_vars => [Next]_treeVars
  <2> SUFFICES ASSUME HInv, [HostNext]_vars PROVE [Next]_treeVars
    OBVIOUS
  <2>1. CASE Fold
    <3>1. PICK i \in DOMAIN log : HandleRawEvent(log[i]) /\ log' = RemoveAt(log, i)
      BY <2>1 DEF Fold
    <3>2. log[i] \in Event
      BY <3>1, LogFolded DEF HInv
    <3> QED
      BY <3>1, <3>2, FoldIsTreeStep
  <2>2. CASE UNCHANGED treeVars
    BY <2>2
  <2> QED
    BY <2>1, <2>2 DEF HostNext, HostFork, HostExec, HostExit, Tick, vars
<1> QED
  BY <1>1, <1>2, HostInvariantHolds, PTL DEF HostSpec, Spec

\* While no pid is given out twice, what the tree says is true, of folded events
\* and of those still to be folded.
THEOREM TruthHolds == ASSUME Reuse = FALSE PROVE HostSpec => []Truth
BY HostInitTruth, HostNextTruth, HostInvariantHolds, PTL DEF HostSpec

\* handle_exit and the handlers after it put an exit on no running process.
THEOREM RunningNeverHasExit == ASSUME Reuse = FALSE PROVE HostSpec => []RunningHasNoExit
<1>1. Truth => RunningHasNoExit
  BY DEF Truth, RunningIsOpen, RunningHasNoExit
<1> QED
  BY <1>1, TruthHolds, PTL

\* A process the trace saw start goes by its pid and its start.
THEOREM KeyAlwaysPidAndStart == ASSUME Reuse = FALSE PROVE HostSpec => []KeyIsPidAndStart
<1>1. CaughtUp => Logged = {}
  BY DEF CaughtUp, Logged
<1>2. Truth => KeyIsPidAndStart
  BY <1>1 DEF Truth, RunningIsOpen, KeyIsPidAndStart
<1> QED
  BY <1>2, TruthHolds, PTL

\* An exit is on its node, unless it sorted before all events of the process.
THEOREM ExitAlwaysRecorded == ASSUME Reuse = FALSE PROVE HostSpec => []ExitIsRecorded
<1>1. CaughtUp => Logged = {}
  BY DEF CaughtUp, Logged
<1>2. Truth => ExitIsRecorded
  BY <1>1 DEF Truth, ExitsAreFolded, ExitLogged, ExitIsRecorded
<1> QED
  BY <1>2, TruthHolds, PTL

\* A parent link names a pid that was a parent of the process.
THEOREM ParentAlwaysWasAParent == ASSUME Reuse = FALSE PROVE HostSpec => []ParentWasAParent
<1>1. Truth => ParentWasAParent
  BY DEF Truth, ParentsAreReal, ParentWasAParent
<1> QED
  BY <1>1, TruthHolds, PTL

\* The image of a node is one of the last second in which its process had an exec.
THEOREM ImageAlwaysCurrent == ASSUME Reuse = FALSE PROVE HostSpec => []ImageIsCurrent
<1>1. CaughtUp => Logged = {}
  BY DEF CaughtUp, Logged
<1>2. Truth => ImageIsCurrent
  BY <1>1 DEF Truth, ImagesAreRecent, ExecLogged, ImageIsCurrent
<1> QED
  BY <1>2, TruthHolds, PTL

-----------------------------------------------------------------------------
(* Sequences and the sets of their elements.                               *)

Elements(s) == {s[i] : i \in 1 .. Len(s)}

\* The tree as it is when a walk starts, and the types of the rest.
Typed ==
  /\ WalkTypeOK /\ kids \in [NodeKeys -> SUBSET stored]
  /\ stack \in Seq(stored)

\* What the ancestry has shown so far, and where it goes on.
AncestryGoesUp ==
  walk = "ancestry" =>
    /\ visited = Elements(output)
    /\ \A i, j \in 1 .. Len(output) : output[i] = output[j] => i = j
    /\ output # <<>> => output[1] = root
    /\ \A i \in 2 .. Len(output) : output[i] = parentOf[output[i - 1]]
    /\ mode = "idle" => output = <<>>
    /\ mode = "walking" =>
         current = IF output = <<>> THEN root ELSE ParentNode(output[Len(output)])
    /\ (mode = "done" /\ root # None /\ Len(output) < cap) =>
         output # <<>> /\ ParentNode(output[Len(output)]) \in Elements(output) \cup {None}

\* What the descendants walk has met: the root and what it returned, all of their
\* children met or on the stack, and nothing else on the stack.
DescendantsAreMet ==
  walk = "descendants" =>
    /\ (mode = "idle" \/ root = None) => stack = <<>> /\ output = <<>> /\ mode # "walking"
    /\ (mode # "idle" /\ root # None) => visited = {root} \cup Elements(output)
    /\ root \notin Elements(output)
    /\ \A i, j \in 1 .. Len(output) : output[i] = output[j] => i = j
    /\ \A i \in 1 .. Len(output) :
         \E q \in {root} \cup {output[j] : j \in 1 .. i - 1} : output[i] \in kids[q]
    /\ \A c \in Elements(stack) : \E q \in visited : c \in kids[q]
    /\ mode = "walking" => \A q \in visited : kids[q] \subseteq visited \cup Elements(stack)
    /\ (mode = "done" /\ root # None /\ Len(output) < cap) =>
         \A q \in visited : kids[q] \subseteq visited

WalkIInv == Typed /\ AncestryGoesUp /\ DescendantsAreMet

\* A function from 1 .. n is a sequence of n elements.
LEMMA FunctionIsSeq ==
  ASSUME NEW S, NEW n \in Nat, NEW f \in [1 .. n -> S]
  PROVE  f \in Seq(S) /\ Len(f) = n
<1>1. f \in Seq(S)
  BY SeqDef
<1>2. DOMAIN f = 1 .. n /\ DOMAIN f = 1 .. Len(f) /\ Len(f) \in Nat
  BY <1>1, LenProperties
<1>3. CASE Len(f) < n
  <2>1. n \in 1 .. n /\ n \notin 1 .. Len(f)
    BY <1>2, <1>3
  <2> QED
    BY <1>2, <2>1
<1>4. CASE n < Len(f)
  <2>1. Len(f) \in 1 .. Len(f) /\ Len(f) \notin 1 .. n
    BY <1>2, <1>4
  <2> QED
    BY <1>2, <2>1
<1> QED
  BY <1>1, <1>2, <1>3, <1>4

\* Popping takes the last element off.
LEMMA PoppedElements ==
  ASSUME NEW S, NEW s \in Seq(S), s # <<>>
  PROVE  /\ s[Len(s)] \in S /\ SubSeq(s, 1, Len(s) - 1) \in Seq(S)
         /\ Elements(s) = Elements(SubSeq(s, 1, Len(s) - 1)) \cup {s[Len(s)]}
<1> DEFINE t == SubSeq(s, 1, Len(s) - 1)
<1>1. Len(s) \in Nat /\ Len(s) > 0 /\ \A i \in 1 .. Len(s) : s[i] \in S
  BY EmptySeq, LenProperties, ElementOfSeq
<1>2. /\ t \in Seq(S) /\ Len(t) = Len(s) - 1
      /\ \A i \in 1 .. Len(s) - 1 : t[i] = s[i]
  <2>1. \A i \in 1 .. Len(s) - 1 : s[i] \in S
    BY <1>1
  <2>2. Len(s) - 1 \in Int /\ 1 \in Int
    BY <1>1
  <2>3. /\ t \in Seq(S) /\ Len(t) = IF 1 <= Len(s) - 1 THEN (Len(s) - 1) - 1 + 1 ELSE 0
        /\ \A i \in 1 .. (Len(s) - 1) - 1 + 1 : t[i] = s[1 + i - 1]
    BY <2>1, <2>2, SubSeqProperties
  <2> HIDE DEF t
  <2>4. Len(t) = Len(s) - 1
    <3>1. CASE 1 <= Len(s) - 1
      <4>1. Len(t) = (Len(s) - 1) - 1 + 1
        BY <2>3, <3>1
      <4> QED
        BY <1>1, <4>1
    <3>2. CASE ~(1 <= Len(s) - 1)
      <4>1. Len(t) = 0
        BY <2>3, <3>2
      <4>2. \A n \in Nat : (n > 0 /\ ~(1 <= n - 1)) => n - 1 = 0
        OBVIOUS
      <4> QED
        BY <1>1, <3>2, <4>1, <4>2
    <3> QED
      BY <3>1, <3>2
  <2>5. \A i \in 1 .. Len(s) - 1 : i \in 1 .. (Len(s) - 1) - 1 + 1 /\ 1 + i - 1 = i
    BY <1>1
  <2> QED
    BY <2>3, <2>4, <2>5
<1> HIDE DEF t
<1>3. Elements(s) = Elements(t) \cup {s[Len(s)]}
  BY <1>1, <1>2 DEF Elements
<1> QED
  BY <1>1, <1>2, <1>3 DEF t

\* A concatenation has the elements of both.
LEMMA ConcatElements ==
  ASSUME NEW S, NEW s \in Seq(S), NEW t \in Seq(S)
  PROVE  s \o t \in Seq(S) /\ Elements(s \o t) = Elements(s) \cup Elements(t)
<1> DEFINE u == s \o t
<1>1. Len(s) \in Nat /\ Len(t) \in Nat
  BY LenProperties
<1>2. /\ u \in Seq(S) /\ Len(u) = Len(s) + Len(t)
      /\ \A i \in 1 .. Len(s) + Len(t) : u[i] = IF i <= Len(s) THEN s[i] ELSE t[i - Len(s)]
  BY ConcatProperties
<1> HIDE DEF u
<1>3. \A i \in 1 .. Len(s) : i \in 1 .. Len(u) /\ u[i] = s[i]
  BY <1>1, <1>2
<1>4. \A i \in 1 .. Len(t) : i + Len(s) \in 1 .. Len(u) /\ u[i + Len(s)] = t[i]
  <2> SUFFICES ASSUME NEW i \in 1 .. Len(t)
               PROVE  i + Len(s) \in 1 .. Len(u) /\ u[i + Len(s)] = t[i]
    OBVIOUS
  <2>1. /\ i + Len(s) \in 1 .. Len(s) + Len(t)
        /\ ~(i + Len(s) <= Len(s)) /\ (i + Len(s)) - Len(s) = i
    BY <1>1
  <2>2. u[i + Len(s)] = t[(i + Len(s)) - Len(s)]
    BY <1>2, <2>1
  <2> QED
    BY <1>2, <2>1, <2>2
<1>5. \A i \in 1 .. Len(u) : u[i] \in Elements(s) \cup Elements(t)
  <2> SUFFICES ASSUME NEW i \in 1 .. Len(u) PROVE u[i] \in Elements(s) \cup Elements(t)
    OBVIOUS
  <2>1. CASE i <= Len(s)
    BY <1>1, <1>2, <2>1 DEF Elements
  <2>2. CASE ~(i <= Len(s))
    <3>1. i - Len(s) \in 1 .. Len(t) /\ u[i] = t[i - Len(s)]
      BY <1>1, <1>2, <2>2
    <3> QED
      BY <3>1 DEF Elements
  <2> QED
    BY <2>1, <2>2
<1>6. Elements(s) \subseteq Elements(u)
  BY <1>3 DEF Elements
<1>7. Elements(t) \subseteq Elements(u)
  BY <1>4 DEF Elements
<1>8. Elements(u) \subseteq Elements(s) \cup Elements(t)
  BY <1>5 DEF Elements
<1>9. Elements(u) = Elements(s) \cup Elements(t)
  BY <1>6, <1>7, <1>8
<1> QED
  BY <1>2, <1>9 DEF u

\* Reversing keeps the elements.
LEMMA ReversedElements ==
  ASSUME NEW S, NEW s \in Seq(S)
  PROVE  Reversed(s) \in Seq(S) /\ Elements(Reversed(s)) = Elements(s)
<1> DEFINE r == Reversed(s)
<1>1. Len(s) \in Nat /\ DOMAIN s = 1 .. Len(s) /\ \A i \in 1 .. Len(s) : s[i] \in S
  BY LenProperties, ElementOfSeq
<1>2. \A i \in 1 .. Len(s) : Len(s) + 1 - i \in 1 .. Len(s) /\ Len(s) + 1 - (Len(s) + 1 - i) = i
  BY <1>1
<1>3. r \in [1 .. Len(s) -> S] /\ \A i \in 1 .. Len(s) : r[i] = s[Len(s) + 1 - i]
  BY <1>1, <1>2 DEF Reversed
<1> HIDE DEF r
<1>4. r \in Seq(S) /\ Len(r) = Len(s)
  BY <1>1, <1>3, FunctionIsSeq
<1>5. \A i \in 1 .. Len(s) : r[Len(s) + 1 - i] = s[i]
  BY <1>1, <1>2, <1>3
<1>6. Elements(r) = Elements(s)
  BY <1>2, <1>3, <1>4, <1>5 DEF Elements
<1> QED
  BY <1>4, <1>6 DEF r
-----------------------------------------------------------------------------
(* The sorted children.                                                    *)

\* How many of a set of keys are older than k.
Rank(set, k) == Cardinality({o \in set : o < k})

\* Different keys have different ranks, all below the size of the set.
LEMMA RanksDiffer ==
  ASSUME NEW set, set \subseteq Nat, IsFiniteSet(set)
  PROVE  /\ Cardinality(set) \in Nat
         /\ \A k \in set : Rank(set, k) \in 0 .. Cardinality(set) - 1
         /\ \A k, l \in set : Rank(set, k) = Rank(set, l) => k = l
<1>1. Cardinality(set) \in Nat
  BY FS_CardinalityType
<1>2. ASSUME NEW k \in set
      PROVE  /\ IsFiniteSet({o \in set : o < k}) /\ Rank(set, k) \in Nat
             /\ Rank(set, k) \in 0 .. Cardinality(set) - 1
  <2> DEFINE older == {o \in set : o < k}
  <2>1. older \in SUBSET (set \ {k})
    <3>1. k \in Nat /\ ~(k < k)
      OBVIOUS
    <3> QED
      BY <3>1
  <2>2. IsFiniteSet(set \ {k}) /\ Cardinality(set \ {k}) = Cardinality(set) - 1
    BY FS_RemoveElement
  <2> HIDE DEF older
  <2>3. IsFiniteSet(older) /\ Cardinality(older) <= Cardinality(set) - 1
    BY <2>1, <2>2, FS_Subset
  <2>4. Cardinality(older) \in Nat
    BY <2>3, FS_CardinalityType
  <2> QED
    BY <1>1, <2>3, <2>4 DEF older, Rank
<1>3. ASSUME NEW k \in set, NEW l \in set, k < l
      PROVE  Rank(set, k) < Rank(set, l)
  <2> DEFINE few == {o \in set : o < k}
             many == {o \in set : o < l}
  <2>1. IsFiniteSet(many) /\ Cardinality(few) \in Nat /\ Cardinality(many) \in Nat
    BY <1>2 DEF Rank
  <2>2. few \in SUBSET many /\ few # many
    <3>1. k \in Nat /\ l \in Nat /\ k \in many /\ k \notin few
      BY <1>3
    <3>2. \A o \in few : o \in set /\ o \in Nat /\ o < k
      OBVIOUS
    <3>3. \A o \in few : o \in set /\ o < l
      BY <1>3, <3>1, <3>2
    <3>4. few \subseteq many
      BY <3>3
    <3> QED
      BY <3>1, <3>4
  <2> HIDE DEF few, many
  <2>3. Cardinality(few) <= Cardinality(many) /\ Cardinality(few) # Cardinality(many)
    BY <2>1, <2>2, FS_Subset
  <2>4. Cardinality(few) < Cardinality(many)
    BY <2>1, <2>3
  <2> QED
    BY <2>4 DEF few, many, Rank
<1>4. ASSUME NEW k \in set, NEW l \in set, Rank(set, k) = Rank(set, l)
      PROVE  k = l
  <2>1. k \in Nat /\ l \in Nat /\ Rank(set, k) \in Nat /\ Rank(set, l) \in Nat
    BY <1>2
  <2>2. ~(k < l) /\ ~(l < k)
    BY <1>3, <1>4, <2>1
  <2> QED
    BY <2>1, <2>2
<1> QED
  BY <1>1, <1>2, <1>4

\* Every rank below the size of the set is some key's.
LEMMA RanksAreTaken ==
  ASSUME NEW set, set \subseteq Nat, IsFiniteSet(set), NEW n \in 0 .. Cardinality(set) - 1
  PROVE  \E k \in set : Rank(set, k) = n
<1> DEFINE size == Cardinality(set)
           f == [k \in set |-> Rank(set, k)]
<1>1. size \in Nat /\ \A k \in set : f[k] \in 0 .. size - 1
  BY RanksDiffer
<1>2. \A k, l \in set : f[k] = f[l] => k = l
  BY RanksDiffer
<1>3. IsFiniteSet(0 .. size - 1) /\ Cardinality(0 .. size - 1) = size
  <2>1. 0 \in Int /\ size - 1 \in Int
    BY <1>1
  <2>2. /\ IsFiniteSet(0 .. size - 1)
        /\ Cardinality(0 .. size - 1) = IF 0 > size - 1 THEN 0 ELSE (size - 1) - 0 + 1
    BY <2>1, FS_Interval
  <2> HIDE DEF size
  <2> QED
    BY <1>1, <2>2
<1>4. f \in [set -> 0 .. size - 1]
  BY <1>1
<1>5. f \in Injection(set, 0 .. size - 1)
  BY <1>2, <1>4 DEF Injection, IsInjective
<1> HIDE DEF f
<1>6. f \in Surjection(set, 0 .. size - 1)
  BY <1>3, <1>5, FS_Injection
<1>7. \E k \in set : f[k] = n
  BY <1>6 DEF Surjection
<1> QED
  BY <1>7 DEF f

\* sorted_child_keys returns the recorded children, all of them and nothing else.
LEMMA ChildrenSorted ==
  ASSUME NEW k \in NodeKeys, kids[k] \subseteq stored, stored \subseteq NodeKeys
  PROVE  SortedChildKeys(k) \in Seq(stored) /\ Elements(SortedChildKeys(k)) = kids[k]
<1> DEFINE set == kids[k]
           size == Cardinality(set)
           s == SortedChildKeys(k)
<1>1. set \subseteq Nat /\ IsFiniteSet(set)
  BY NodeKeysAssumption, FS_Subset
<1>2. /\ size \in Nat
      /\ \A c \in set : Rank(set, c) \in 0 .. size - 1
      /\ \A c, d \in set : Rank(set, c) = Rank(set, d) => c = d
  BY <1>1, RanksDiffer
<1>3. \A i \in 1 .. size : \E c \in set : Rank(set, c) = i - 1
  <2> SUFFICES ASSUME NEW i \in 1 .. size PROVE \E c \in set : Rank(set, c) = i - 1
    OBVIOUS
  <2>1. i - 1 \in 0 .. size - 1
    BY <1>2
  <2> QED
    BY <1>1, <2>1, RanksAreTaken
<1>4. s = [i \in 1 .. size |-> CHOOSE c \in set : Rank(set, c) = i - 1]
  BY DEF SortedChildKeys, Rank
<1> HIDE DEF set, size, s
<1>5. \A i \in 1 .. size : s[i] \in set /\ Rank(set, s[i]) = i - 1
  BY <1>3, <1>4
<1>6. s \in [1 .. size -> stored]
  BY <1>4, <1>5 DEF set
<1>7. s \in Seq(stored) /\ Len(s) = size
  BY <1>2, <1>6, FunctionIsSeq
<1>8. \A c \in set : Rank(set, c) + 1 \in 1 .. size /\ s[Rank(set, c) + 1] = c
  <2> SUFFICES ASSUME NEW c \in set
               PROVE  Rank(set, c) + 1 \in 1 .. size /\ s[Rank(set, c) + 1] = c
    OBVIOUS
  <2>1. Rank(set, c) + 1 \in 1 .. size /\ (Rank(set, c) + 1) - 1 = Rank(set, c)
    BY <1>2
  <2> QED
    BY <1>2, <1>5, <2>1
<1>9. Elements(s) = set
  BY <1>5, <1>7, <1>8 DEF Elements
<1> QED
  BY <1>7, <1>9 DEF set, s
-----------------------------------------------------------------------------
(* Each step keeps the invariant.                                          *)

\* A node appended to the output is met once if it was not in it before.
LEMMA AppendElements ==
  ASSUME NEW S, NEW s \in Seq(S), NEW x \in S
  PROVE  /\ Append(s, x) \in Seq(S) /\ Append(s, x) # <<>>
         /\ Len(s) \in Nat /\ Len(Append(s, x)) = Len(s) + 1
         /\ \A i \in 1 .. Len(s) : Append(s, x)[i] = s[i]
         /\ Append(s, x)[Len(s) + 1] = x
         /\ Elements(Append(s, x)) = Elements(s) \cup {x}
<1> DEFINE t == Append(s, x)
<1>1. /\ t \in Seq(S) /\ t # <<>> /\ Len(s) \in Nat /\ Len(t) = Len(s) + 1
      /\ \A i \in 1 .. Len(s) : t[i] = s[i]
      /\ t[Len(s) + 1] = x
  BY AppendProperties, LenProperties
<1> HIDE DEF t
<1>2. \A i \in 1 .. Len(t) : i \in 1 .. Len(s) \/ i = Len(s) + 1
  BY <1>1
<1>3. 1 .. Len(s) \subseteq 1 .. Len(t) /\ Len(s) + 1 \in 1 .. Len(t)
  BY <1>1
<1>4. Elements(s) \subseteq Elements(t)
  BY <1>1, <1>3 DEF Elements
<1>5. x \in Elements(t)
  BY <1>1, <1>3 DEF Elements
<1>6. Elements(t) \subseteq Elements(s) \cup {x}
  BY <1>1, <1>2 DEF Elements
<1>7. Elements(t) = Elements(s) \cup {x}
  BY <1>4, <1>5, <1>6
<1> QED
  BY <1>1, <1>7 DEF t

\* The same of walks: the nodes before keep their places and stay different.
LEMMA AppendKeepsOrder ==
  ASSUME NEW S, NEW s \in Seq(S), NEW x \in S, x \notin Elements(s),
         \A i, j \in 1 .. Len(s) : s[i] = s[j] => i = j
  PROVE  \A i, j \in 1 .. Len(Append(s, x)) : Append(s, x)[i] = Append(s, x)[j] => i = j
<1> DEFINE t == Append(s, x)
<1>1. /\ Len(s) \in Nat /\ Len(t) = Len(s) + 1
      /\ \A i \in 1 .. Len(s) : t[i] = s[i]
      /\ t[Len(s) + 1] = x
  BY AppendElements
<1> HIDE DEF t
<1>2. \A i \in 1 .. Len(s) : t[i] # x
  BY <1>1 DEF Elements
<1>3. \A i \in 1 .. Len(t) : i \in 1 .. Len(s) \/ i = Len(s) + 1
  BY <1>1
<1> SUFFICES ASSUME NEW i \in 1 .. Len(t), NEW j \in 1 .. Len(t), t[i] = t[j]
             PROVE  i = j
  BY DEF t
<1>4. CASE i \in 1 .. Len(s) /\ j \in 1 .. Len(s)
  BY <1>1, <1>4
<1>5. CASE i = Len(s) + 1 \/ j = Len(s) + 1
  BY <1>1, <1>2, <1>3, <1>5
<1> QED
  BY <1>3, <1>4, <1>5

\* The empty output has no elements.
LEMMA NoElements == Len(<<>>) = 0 /\ Elements(<<>>) = {} /\ \A S : <<>> \in Seq(S)
<1>1. Len(<<>>) = 0 /\ \A S : <<>> \in Seq(S)
  BY EmptySeq
<1>2. 1 .. 0 = {}
  OBVIOUS
<1> QED
  BY <1>1, <1>2 DEF Elements

\* The ancestry starts at the process asked for.
LEMMA AncestryStartPreserves ==
  ASSUME WalkIInv, NEW k \in stored \cup {None}, AncestryStart(k)
  PROVE  WalkIInv'
<1>1. /\ mode = "idle" /\ walk = "ancestry" /\ mode' = "walking" /\ root' = k /\ current' = k
      /\ UNCHANGED <<stored, parentOf, kids, walk, cap, stack, visited, output>>
  BY DEF AncestryStart, tree
<1>2. Typed'
  BY <1>1 DEF WalkIInv, Typed, WalkTypeOK
<1>3. output = <<>> /\ visited = Elements(output)
  BY <1>1 DEF WalkIInv, AncestryGoesUp
<1>4. 1 .. Len(output) = {} /\ 2 .. Len(output) = {}
  BY <1>3, NoElements
<1>5. AncestryGoesUp'
  BY <1>1, <1>3, <1>4 DEF AncestryGoesUp, Elements, ParentNode
<1>6. DescendantsAreMet'
  BY <1>1 DEF DescendantsAreMet
<1> QED
  BY <1>2, <1>5, <1>6 DEF WalkIInv

\* It ends where there is no stored parent, or one it has shown.
LEMMA AncestryEndPreserves ==
  ASSUME WalkIInv, AncestryEnd
  PROVE  WalkIInv'
<1>1. /\ mode = "walking" /\ walk = "ancestry" /\ (current = None \/ current \in visited)
      /\ mode' = "done"
      /\ UNCHANGED <<stored, parentOf, kids, walk, cap, root, current, stack, visited, output>>
  BY DEF AncestryEnd, tree
<1>2. Typed'
  BY <1>1 DEF WalkIInv, Typed, WalkTypeOK
<1>3. root # None => output # <<>> /\ ParentNode(output[Len(output)]) \in Elements(output) \cup {None}
  <2>1. /\ visited = Elements(output)
        /\ current = IF output = <<>> THEN root ELSE ParentNode(output[Len(output)])
    BY <1>1 DEF WalkIInv, AncestryGoesUp
  <2>2. CASE output = <<>>
    BY <1>1, <2>1, <2>2, NoElements
  <2>3. CASE output # <<>>
    BY <1>1, <2>1, <2>3
  <2> QED
    BY <2>2, <2>3
<1>4. AncestryGoesUp'
  BY <1>1, <1>3 DEF WalkIInv, AncestryGoesUp, Elements, ParentNode
<1>5. DescendantsAreMet'
  BY <1>1 DEF DescendantsAreMet
<1> QED
  BY <1>2, <1>4, <1>5 DEF WalkIInv

\* One turn shows one process more and goes on to its stored parent.
LEMMA AncestryStepPreserves ==
  ASSUME WalkIInv, AncestryStep
  PROVE  WalkIInv'
<1>1. /\ mode = "walking" /\ walk = "ancestry" /\ current # None /\ current \notin visited
      /\ visited' = visited \cup {current} /\ output' = Append(output, current)
      /\ IF Len(output') >= cap
         THEN mode' = "done" /\ UNCHANGED current
         ELSE current' = ParentNode(current) /\ UNCHANGED mode
      /\ UNCHANGED <<stored, parentOf, kids, walk, cap, root, stack>>
  BY DEF AncestryStep, tree
<1>2. /\ current \in stored /\ output \in Seq(stored) /\ stored \subseteq NodeKeys
      /\ cap \in Nat /\ None \notin NodeKeys
  BY <1>1, NodeKeysAssumption, CapsAssumption DEF WalkIInv, Typed, WalkTypeOK
<1>3. /\ visited = Elements(output)
      /\ \A i, j \in 1 .. Len(output) : output[i] = output[j] => i = j
      /\ output # <<>> => output[1] = root
      /\ \A i \in 2 .. Len(output) : output[i] = parentOf[output[i - 1]]
      /\ current = IF output = <<>> THEN root ELSE ParentNode(output[Len(output)])
  BY <1>1 DEF WalkIInv, AncestryGoesUp
<1>4. /\ output' \in Seq(stored) /\ output' # <<>>
      /\ Len(output) \in Nat /\ Len(output') = Len(output) + 1
      /\ \A i \in 1 .. Len(output) : output'[i] = output[i]
      /\ output'[Len(output) + 1] = current
      /\ Elements(output') = Elements(output) \cup {current}
  BY <1>1, <1>2, AppendElements
<1>5. \A i, j \in 1 .. Len(output') : output'[i] = output'[j] => i = j
  BY <1>1, <1>2, <1>3, AppendKeepsOrder
<1>6. Typed'
  <2>1. ParentNode(current) \in stored \cup {None}
    BY DEF ParentNode
  <2>2. current' \in stored \cup {None} /\ mode' \in {"walking", "done"}
    BY <1>1, <1>2, <2>1
  <2>3. visited' \subseteq NodeKeys
    BY <1>1, <1>2 DEF WalkIInv, Typed, WalkTypeOK
  <2> QED
    BY <1>1, <1>4, <2>2, <2>3 DEF WalkIInv, Typed, WalkTypeOK
<1>7. output'[1] = root
  <2>1. CASE output = <<>>
    BY <1>3, <1>4, <2>1, NoElements
  <2>2. CASE output # <<>>
    <3>1. 1 \in 1 .. Len(output)
      BY <1>2, <1>4, <2>2, EmptySeq
    <3> QED
      BY <1>3, <1>4, <2>2, <3>1
  <2> QED
    BY <2>1, <2>2
<1>8. ASSUME NEW i \in 2 .. Len(output')
      PROVE  output'[i] = parentOf[output'[i - 1]]
  <2>1. CASE i \in 2 .. Len(output)
    <3>1. i \in 1 .. Len(output) /\ i - 1 \in 1 .. Len(output)
      BY <1>4, <2>1
    <3> QED
      BY <1>3, <1>4, <2>1, <3>1
  <2>2. CASE i \notin 2 .. Len(output)
    <3>1. i = Len(output) + 1 /\ Len(output) \in 1 .. Len(output) /\ i - 1 = Len(output)
      BY <1>4, <2>2
    <3>2. output # <<>>
      BY <3>1, NoElements
    <3>3. current = parentOf[output[Len(output)]]
      BY <1>1, <1>3, <3>2 DEF ParentNode
    <3> QED
      BY <1>4, <3>1, <3>3
  <2> QED
    BY <2>1, <2>2
<1>9. output'[Len(output')] = current
  BY <1>4
<1>10. CASE Len(output') >= cap
  <2>1. ~(Len(output') < cap) /\ mode' = "done"
    BY <1>1, <1>2, <1>4, <1>10
  <2> QED
    BY <1>1, <1>3, <1>4, <1>5, <1>6, <1>7, <1>8, <2>1
    DEF WalkIInv, AncestryGoesUp, DescendantsAreMet
<1>11. CASE ~(Len(output') >= cap)
  <2>1. mode' = "walking" /\ current' = ParentNode(current)
    BY <1>1, <1>11
  <2>2. current' = ParentNode(output[Len(output)])'
    BY <1>1, <1>9, <2>1 DEF ParentNode
  <2>3. AncestryGoesUp'
    BY <1>1, <1>3, <1>4, <1>5, <1>7, <1>8, <2>1, <2>2 DEF AncestryGoesUp, ParentNode
  <2>4. DescendantsAreMet'
    BY <1>1 DEF DescendantsAreMet
  <2> QED
    BY <1>6, <2>3, <2>4 DEF WalkIInv
<1> QED
  BY <1>10, <1>11

\* The descendants walk starts from all children of the root.
LEMMA DescendantsStartPreserves ==
  ASSUME WalkIInv, NEW k \in stored \cup {None}, DescendantsStart(k)
  PROVE  WalkIInv'
<1>1. /\ mode = "idle" /\ walk = "descendants" /\ root' = k
      /\ IF k = None
         THEN mode' = "done" /\ UNCHANGED <<stack, visited>>
         ELSE mode' = "walking" /\ stack' = SortedChildKeys(k) /\ visited' = {k}
      /\ UNCHANGED <<stored, parentOf, kids, walk, cap, current, output>>
  BY DEF DescendantsStart, tree
<1>2. output = <<>> /\ stack = <<>>
  BY <1>1 DEF WalkIInv, DescendantsAreMet
<1>3. Elements(output) = {} /\ Len(output) = 0 /\ 1 .. 0 = {}
  BY <1>2, NoElements
<1>4. AncestryGoesUp'
  BY <1>1 DEF AncestryGoesUp
<1>5. CASE k = None
  <2>1. Typed'
    BY <1>1, <1>5 DEF WalkIInv, Typed, WalkTypeOK
  <2>2. Elements(stack) = {}
    BY <1>2, NoElements
  <2>3. DescendantsAreMet'
    BY <1>1, <1>2, <1>3, <1>5, <2>2 DEF DescendantsAreMet, Elements
  <2> QED
    BY <1>4, <2>1, <2>3 DEF WalkIInv
<1>6. CASE k # None
  <2>1. k \in stored /\ k \in NodeKeys /\ kids[k] \subseteq stored /\ stored \subseteq NodeKeys
    BY <1>6 DEF WalkIInv, Typed, WalkTypeOK
  <2>2. stack' \in Seq(stored) /\ Elements(stack') = kids[k]
    BY <1>1, <1>6, <2>1, ChildrenSorted
  <2>3. Typed'
    <3>1. stack' \in Seq(NodeKeys)
      BY <2>1, <2>2, SeqMonotonic
    <3> QED
      BY <1>1, <1>6, <2>1, <2>2, <3>1 DEF WalkIInv, Typed, WalkTypeOK
  <2>4. mode' = "walking" /\ visited' = {root'}
    BY <1>1, <1>6
  <2>5. Elements(output') = {} /\ 1 .. Len(output') = {} /\ output' = output
    BY <1>1, <1>3
  <2>6. root' # None /\ walk' = "descendants" /\ kids' = kids
    BY <1>1, <1>6
  <2>7. DescendantsAreMet'
    BY <1>1, <2>2, <2>4, <2>5, <2>6 DEF DescendantsAreMet
  <2> QED
    BY <1>4, <2>3, <2>7 DEF WalkIInv
<1> QED
  BY <1>5, <1>6

\* What the walk has returned so far is connected and nothing is returned twice;
\* a step that returns nothing more keeps that.
LEMMA MetWhileWalking ==
  ASSUME WalkIInv, mode = "walking", walk = "descendants"
  PROVE  /\ root # None /\ visited = {root} \cup Elements(output) /\ root \notin Elements(output)
         /\ \A i, j \in 1 .. Len(output) : output[i] = output[j] => i = j
         /\ \A i \in 1 .. Len(output) :
              \E q \in {root} \cup {output[j] : j \in 1 .. i - 1} : output[i] \in kids[q]
         /\ \A c \in Elements(stack) : \E q \in visited : c \in kids[q]
         /\ \A q \in visited : kids[q] \subseteq visited \cup Elements(stack)
BY DEF WalkIInv, DescendantsAreMet

\* The walk ends when the stack is empty, and then it has met all children, or
\* when the cap is reached.
LEMMA DescendantsEndPreserves ==
  ASSUME WalkIInv, DescendantsEnd
  PROVE  WalkIInv'
<1>1. /\ mode = "walking" /\ walk = "descendants" /\ (stack = <<>> \/ Len(output) >= cap)
      /\ mode' = "done" /\ stack' = (IF stack = <<>> THEN stack ELSE Popped)
      /\ UNCHANGED <<stored, parentOf, kids, walk, cap, root, current, visited, output>>
  BY DEF DescendantsEnd, tree
<1>2. /\ root # None /\ visited = {root} \cup Elements(output) /\ root \notin Elements(output)
      /\ \A i, j \in 1 .. Len(output) : output[i] = output[j] => i = j
      /\ \A i \in 1 .. Len(output) :
           \E q \in {root} \cup {output[j] : j \in 1 .. i - 1} : output[i] \in kids[q]
      /\ \A c \in Elements(stack) : \E q \in visited : c \in kids[q]
      /\ \A q \in visited : kids[q] \subseteq visited \cup Elements(stack)
  BY <1>1, MetWhileWalking
<1>3. stack \in Seq(stored) /\ stored \subseteq NodeKeys
  BY DEF WalkIInv, Typed, WalkTypeOK
<1>4. stack' \in Seq(stored) /\ Elements(stack') \subseteq Elements(stack)
  BY <1>1, <1>3, PoppedElements DEF Popped
<1>5. Typed'
  <2>1. stack' \in Seq(NodeKeys)
    BY <1>3, <1>4, SeqMonotonic
  <2> QED
    BY <1>1, <1>4, <2>1 DEF WalkIInv, Typed, WalkTypeOK
<1>6. Len(output) < cap => \A q \in visited : kids[q] \subseteq visited
  <2>1. Len(output) \in Nat /\ cap \in Nat
    BY CapsAssumption, LenProperties DEF WalkIInv, Typed, WalkTypeOK
  <2>2. Len(output) < cap => Elements(stack) = {}
    BY <1>1, <2>1, NoElements
  <2> QED
    BY <1>2, <2>2
<1>7. Elements(output') = Elements(output) /\ output' = output
  BY <1>1
<1>8. DescendantsAreMet'
  BY <1>1, <1>2, <1>4, <1>6, <1>7 DEF DescendantsAreMet
<1>9. AncestryGoesUp'
  BY <1>1 DEF AncestryGoesUp
<1> QED
  BY <1>5, <1>8, <1>9 DEF WalkIInv

\* A key met before is only taken off the stack.
LEMMA DescendantsSkipPreserves ==
  ASSUME WalkIInv, DescendantsSkip
  PROVE  WalkIInv'
<1>1. /\ mode = "walking" /\ walk = "descendants" /\ stack # <<>> /\ Top \in visited
      /\ stack' = Popped
      /\ UNCHANGED <<stored, parentOf, kids, mode, walk, cap, root, current, visited, output>>
  BY DEF DescendantsSkip, tree
<1>2. /\ root # None /\ visited = {root} \cup Elements(output) /\ root \notin Elements(output)
      /\ \A i, j \in 1 .. Len(output) : output[i] = output[j] => i = j
      /\ \A i \in 1 .. Len(output) :
           \E q \in {root} \cup {output[j] : j \in 1 .. i - 1} : output[i] \in kids[q]
      /\ \A c \in Elements(stack) : \E q \in visited : c \in kids[q]
      /\ \A q \in visited : kids[q] \subseteq visited \cup Elements(stack)
  BY <1>1, MetWhileWalking
<1>3. stack \in Seq(stored) /\ stored \subseteq NodeKeys
  BY DEF WalkIInv, Typed, WalkTypeOK
<1>4. stack' \in Seq(stored) /\ Elements(stack) = Elements(stack') \cup {Top}
  BY <1>1, <1>3, PoppedElements DEF Popped, Top
<1>5. Typed'
  <2>1. stack' \in Seq(NodeKeys)
    BY <1>3, <1>4, SeqMonotonic
  <2> QED
    BY <1>1, <1>4, <2>1 DEF WalkIInv, Typed, WalkTypeOK
<1>6. \A q \in visited : kids[q] \subseteq visited \cup Elements(stack')
  BY <1>1, <1>2, <1>4
<1>7. Elements(output') = Elements(output) /\ output' = output
  BY <1>1
<1>8. DescendantsAreMet'
  BY <1>1, <1>2, <1>4, <1>6, <1>7 DEF DescendantsAreMet
<1>9. AncestryGoesUp'
  BY <1>1 DEF AncestryGoesUp
<1> QED
  BY <1>5, <1>8, <1>9 DEF WalkIInv

\* A key not met before is returned, below one returned before it, and its
\* children go on the stack.
LEMMA DescendantsStepPreserves ==
  ASSUME WalkIInv, DescendantsStep
  PROVE  WalkIInv'
<1>1. /\ mode = "walking" /\ walk = "descendants" /\ stack # <<>> /\ Top \notin visited
      /\ visited' = visited \cup {Top}
      /\ output' = (IF Top \in stored THEN Append(output, Top) ELSE output)
      /\ stack' = Popped \o Reversed(SortedChildKeys(Top))
      /\ UNCHANGED <<stored, parentOf, kids, mode, walk, cap, root, current>>
  BY DEF DescendantsStep, tree
<1>2. /\ root # None /\ visited = {root} \cup Elements(output) /\ root \notin Elements(output)
      /\ \A i, j \in 1 .. Len(output) : output[i] = output[j] => i = j
      /\ \A i \in 1 .. Len(output) :
           \E q \in {root} \cup {output[j] : j \in 1 .. i - 1} : output[i] \in kids[q]
      /\ \A c \in Elements(stack) : \E q \in visited : c \in kids[q]
      /\ \A q \in visited : kids[q] \subseteq visited \cup Elements(stack)
  BY <1>1, MetWhileWalking
<1>3. /\ stack \in Seq(stored) /\ stored \subseteq NodeKeys /\ output \in Seq(stored)
      /\ kids \in [NodeKeys -> SUBSET stored]
  BY DEF WalkIInv, Typed, WalkTypeOK
<1>4. /\ Top \in stored /\ Popped \in Seq(stored)
      /\ Elements(stack) = Elements(Popped) \cup {Top}
  BY <1>1, <1>3, PoppedElements DEF Popped, Top
<1>5. /\ stack' \in Seq(stored)
      /\ Elements(stack') = Elements(Popped) \cup kids[Top]
  <2>1. /\ SortedChildKeys(Top) \in Seq(stored)
        /\ Elements(SortedChildKeys(Top)) = kids[Top]
    BY <1>3, <1>4, ChildrenSorted
  <2>2. /\ Reversed(SortedChildKeys(Top)) \in Seq(stored)
        /\ Elements(Reversed(SortedChildKeys(Top))) = kids[Top]
    BY <2>1, ReversedElements
  <2> QED
    BY <1>1, <1>4, <2>2, ConcatElements
<1>6. /\ output' = Append(output, Top) /\ output' \in Seq(stored)
      /\ Len(output) \in Nat /\ Len(output') = Len(output) + 1
      /\ \A i \in 1 .. Len(output) : output'[i] = output[i]
      /\ output'[Len(output) + 1] = Top
      /\ Elements(output') = Elements(output) \cup {Top}
  BY <1>1, <1>3, <1>4, AppendElements
<1>7. Typed'
  <2>1. stack' \in Seq(NodeKeys)
    BY <1>3, <1>5, SeqMonotonic
  <2>2. visited' \subseteq NodeKeys
    BY <1>1, <1>3, <1>4 DEF WalkIInv, Typed, WalkTypeOK
  <2> QED
    BY <1>1, <1>5, <1>6, <2>1, <2>2 DEF WalkIInv, Typed, WalkTypeOK
<1>8. \A i, j \in 1 .. Len(output') : output'[i] = output'[j] => i = j
  <2>1. Top \in stored /\ Top \notin Elements(output)
    BY <1>1, <1>2, <1>4
  <2>2. \A i, j \in 1 .. Len(Append(output, Top)) :
          Append(output, Top)[i] = Append(output, Top)[j] => i = j
    BY <1>2, <1>3, <2>1, AppendKeepsOrder
  <2> QED
    BY <1>6, <2>2
<1>9. ASSUME NEW i \in 1 .. Len(output')
      PROVE  \E q \in {root} \cup {output'[j] : j \in 1 .. i - 1} : output'[i] \in kids[q]
  <2>1. CASE i \in 1 .. Len(output)
    <3>1. PICK q \in {root} \cup {output[j] : j \in 1 .. i - 1} : output[i] \in kids[q]
      BY <1>2, <2>1
    <3>2. \A j \in 1 .. i - 1 : output'[j] = output[j]
      BY <1>6, <2>1
    <3>3. q \in {root} \cup {output'[j] : j \in 1 .. i - 1}
      BY <3>1, <3>2
    <3> QED
      BY <1>6, <2>1, <3>1, <3>3
  <2>2. CASE i \notin 1 .. Len(output)
    <3>1. i = Len(output) + 1 /\ i - 1 = Len(output)
      BY <1>6, <2>2
    <3>2. PICK q \in {root} \cup Elements(output) : Top \in kids[q]
      BY <1>2, <1>4
    <3>3. q \in {root} \cup {output'[j] : j \in 1 .. i - 1}
      BY <1>6, <3>1, <3>2 DEF Elements
    <3> QED
      BY <1>6, <3>1, <3>2, <3>3
  <2> QED
    BY <2>1, <2>2
<1>10. visited' = {root} \cup Elements(output') /\ root \notin Elements(output')
  BY <1>1, <1>2, <1>6
<1>11. \A c \in Elements(stack') : \E q \in visited' : c \in kids[q]
  BY <1>1, <1>2, <1>4, <1>5
<1>12. \A q \in visited' : kids[q] \subseteq visited' \cup Elements(stack')
  BY <1>1, <1>2, <1>4, <1>5
<1>13. DescendantsAreMet'
  BY <1>1, <1>2, <1>8, <1>9, <1>10, <1>11, <1>12 DEF DescendantsAreMet
<1>14. AncestryGoesUp'
  BY <1>1 DEF AncestryGoesUp
<1> QED
  BY <1>7, <1>13, <1>14 DEF WalkIInv
-----------------------------------------------------------------------------
(* The theorems.                                                           *)

\* The inductive invariant, for every tree and cap.
THEOREM WalkInvariantHolds == WalkSpec => []WalkIInv
<1>1. WalkInit => WalkIInv
  <2> SUFFICES ASSUME WalkInit PROVE WalkIInv
    OBVIOUS
  <2>1. /\ output = <<>> /\ stack = <<>> /\ mode = "idle" /\ root = None /\ visited = {}
        /\ Elements(output) = {} /\ Elements(stack) = {} /\ Len(output) = 0
        /\ 1 .. 0 = {} /\ 2 .. 0 = {}
    BY NoElements DEF WalkInit
  <2>2. Typed
    <3>1. stack \in Seq(NodeKeys) /\ stack \in Seq(stored) /\ output \in Seq(stored)
      BY <2>1, NoElements
    <3> QED
      BY <3>1 DEF WalkInit, Typed, WalkTypeOK, Walks
  <2>3. root \notin Elements(output)
    BY <2>1
  <2> QED
    BY <2>1, <2>2, <2>3 DEF WalkIInv, AncestryGoesUp, DescendantsAreMet
<1>2. WalkIInv /\ [WalkNext]_walkVars => WalkIInv'
  <2> SUFFICES ASSUME WalkIInv, [WalkNext]_walkVars PROVE WalkIInv'
    OBVIOUS
  <2>1. CASE Start
    BY <2>1, AncestryStartPreserves, DescendantsStartPreserves DEF Start
  <2>2. CASE Turn
    BY <2>2, AncestryEndPreserves, AncestryStepPreserves, DescendantsEndPreserves,
       DescendantsSkipPreserves, DescendantsStepPreserves DEF Turn
  <2>3. CASE UNCHANGED walkVars
    <3>1. UNCHANGED <<stored, parentOf, kids, mode, walk, cap, root, current, stack, visited, output>>
      BY <2>3 DEF walkVars, tree
    <3>2. Typed'
      BY <3>1 DEF WalkIInv, Typed, WalkTypeOK
    <3>3. AncestryGoesUp'
      BY <3>1 DEF WalkIInv, AncestryGoesUp, Elements, ParentNode
    <3>4. DescendantsAreMet'
      BY <3>1 DEF WalkIInv, DescendantsAreMet, Elements
    <3> QED
      BY <3>2, <3>3, <3>4 DEF WalkIInv
  <2> QED
    BY <2>1, <2>2, <2>3 DEF WalkNext
<1> QED
  BY <1>1, <1>2, PTL DEF WalkSpec

\* The output's elements, as the properties write them.
LEMMA ReturnedIsElements ==
  ASSUME WalkIInv
  PROVE  Returned = Elements(output) /\ DOMAIN output = 1 .. Len(output) /\ Len(output) \in Nat
<1>1. DOMAIN output = 1 .. Len(output) /\ Len(output) \in Nat
  BY LenProperties DEF WalkIInv, Typed, WalkTypeOK
<1> QED
  BY <1>1 DEF Returned, Elements

\* The walks' variables are of their types.
THEOREM WalkTypeCorrect == WalkSpec => []WalkTypeOK
<1>1. WalkIInv => WalkTypeOK
  BY DEF WalkIInv, Typed
<1> QED
  BY <1>1, WalkInvariantHolds, PTL

\* The ancestry is a chain of parent links from the process asked for, without
\* repetition, whatever cycles the links form.
THEOREM AncestryAlwaysAChain == WalkSpec => []AncestryIsAChain
<1>1. WalkIInv => AncestryIsAChain
  <2> SUFFICES ASSUME WalkIInv PROVE AncestryIsAChain
    OBVIOUS
  <2>1. DOMAIN output = 1 .. Len(output)
    BY ReturnedIsElements
  <2> QED
    BY <2>1 DEF WalkIInv, AncestryGoesUp, AncestryIsAChain, NoneTwice
<1> QED
  BY <1>1, WalkInvariantHolds, PTL

\* An ancestry below the cap goes all the way up.
THEOREM AncestryAlwaysMaximal == WalkSpec => []AncestryIsMaximal
<1>1. WalkIInv => AncestryIsMaximal
  BY ReturnedIsElements DEF WalkIInv, AncestryGoesUp, AncestryIsMaximal
<1> QED
  BY <1>1, WalkInvariantHolds, PTL

\* Each descendant is a recorded child of the root or of one returned before it,
\* at any cap.
THEOREM DescendantsAlwaysConnected == WalkSpec => []DescendantsAreConnected
<1>1. WalkIInv => DescendantsAreConnected
  <2> SUFFICES ASSUME WalkIInv PROVE DescendantsAreConnected
    OBVIOUS
  <2>1. DOMAIN output = 1 .. Len(output) /\ Returned = Elements(output)
    BY ReturnedIsElements
  <2> QED
    BY <2>1 DEF WalkIInv, DescendantsAreMet, DescendantsAreConnected, NoneTwice
<1> QED
  BY <1>1, WalkInvariantHolds, PTL

\* Below the cap no recorded descendant is missed.
THEOREM DescendantsAlwaysComplete == WalkSpec => []DescendantsAreComplete
<1>1. WalkIInv => DescendantsAreComplete
  <2> SUFFICES ASSUME WalkIInv PROVE DescendantsAreComplete
    OBVIOUS
  <2>1. Returned = Elements(output)
    BY ReturnedIsElements
  <2> QED
    BY <2>1 DEF WalkIInv, DescendantsAreMet, DescendantsAreComplete
<1> QED
  BY <1>1, WalkInvariantHolds, PTL
=============================================================================
