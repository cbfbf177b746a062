------------------------------ MODULE ProcTree ------------------------------
(***************************************************************************)
(* The process tree of src/engine/proc_tree.rs: a fold over the stored raw *)
(* events, oldest first, that keeps one node per process key, an index     *)
(* from pid to the key currently used for that pid, and the set of child   *)
(* keys of every key.                                                      *)
(*                                                                         *)
(* A process key is the pair <<pid, time>> behind the string               *)
(* "tracee:<pid>:<time>".  Of a node the model keeps what the lineage is   *)
(* made of: pid, parent key, start and exit time, and the executed image   *)
(* (which stands for exe_path, comm, cmdline and uid, all overwritten      *)
(* together by an exec).  A map entry the code does not have is None, an   *)
(* absent set of children is {}.                                           *)
(***************************************************************************)
EXTENDS Naturals, TreeShape

CONSTANTS
  Pids,       \* pids that events name; a line without any names pid 0
  HostPids,   \* hostProcessId values of lines that have no processId field
  Images,     \* executed images, as far as the tree tells them apart
  MaxTime     \* bound: the last observed_at of an event

Times == 0 .. MaxTime
Keys == Pids \X Times

Node == [pid : Pids, parent : Keys \cup {None}, image : Images \cup {None},
         start : Times, exit : Times \cup {None}]

ASSUME PidsAssumption == Pids \subseteq Nat /\ 0 \in Pids /\ HostPids \subseteq Pids
ASSUME MaxTimeAssumption == MaxTime \in Nat
ASSUME NoneAssumption == /\ None \notin Pids /\ None \notin Times
                         /\ None \notin Keys /\ None \notin Images
                         /\ None \notin Node

VARIABLES
  nodes,      \* nodes[k]: the node stored under key k, or None
  pidIndex,   \* pidIndex[p]: the key in use for pid p, or None
  children,   \* children[k]: keys once recorded as children of k
  now         \* observed_at of the last event handled

treeVars == <<nodes, pidIndex, children, now>>

TypeOK ==
  /\ nodes \in [Keys -> Node \cup {None}]
  /\ pidIndex \in [Pids -> Keys \cup {None}]
  /\ children \in [Keys -> SUBSET Keys]
  /\ now \in Times

Init ==
  /\ nodes = [k \in Keys |-> None]
  /\ pidIndex = [p \in Pids |-> None]
  /\ children = [k \in Keys |-> {}]
  /\ now = 0

-----------------------------------------------------------------------------
(* Helpers of the handlers.                                                *)

IsNode(k) == k \in Keys /\ nodes[k] # None

\* Broken forms of ResolveParentKey: a made-up key of the next second, the
\* index not consulted, and a process taken for its own parent.
ResolveParentKeyLater(ppid, pid, t) ==
  IF ppid = None \/ ppid = pid THEN None
  ELSE IF pidIndex[ppid] # None THEN pidIndex[ppid]
  ELSE <<ppid, t + 1>>
ResolveParentKeyMadeUp(ppid, pid, t) ==
  IF ppid = None \/ ppid = pid THEN None ELSE <<ppid, t>>
ResolveParentKeySelf(ppid, pid, t) ==
  IF ppid = None THEN None
  ELSE IF pidIndex[ppid] # None THEN pidIndex[ppid]
  ELSE <<ppid, t>>

\* The parent of pid at time t: nothing without a parent pid or when a process
\* is its own parent, else the key in use for the parent pid; for a parent pid
\* never seen, a key made up from the child's time (no node has that key yet).
ResolveParentKey(ppid, pid, t) ==
  IF ppid = None \/ ppid = pid THEN None
  ELSE IF pidIndex[ppid] # None THEN pidIndex[ppid]
  ELSE <<ppid, t>>

\* The key in use for pid, or the one a first event brings.
KeyFor(pid, firstKey) == IF pidIndex[pid] # None THEN pidIndex[pid] ELSE firstKey

\* The node already stored under key, or the fresh one `or_insert` puts there.
EntryOr(key, pid, t) ==
  IF nodes[key] # None THEN nodes[key]
  ELSE [pid |-> pid, parent |-> None, image |-> None, start |-> t, exit |-> None]

\* Broken form of AddChild: no edge to a parent without a node.
AddChildIfStored(parent, key) ==
  children' = IF parent # None /\ parent # key /\ IsNode(parent)
              THEN [children EXCEPT ![parent] = @ \cup {key}]
              ELSE children

\* The edge from the parent to the child, never to itself.  An edge of an
\* earlier parent is left in place.
AddChild(parent, key) ==
  children' = IF parent # None /\ parent # key
              THEN [children EXCEPT ![parent] = @ \cup {key}]
              ELSE children

\* Store the node, index its pid, and record it under its parent.
Record(pid, key, node, t) ==
  /\ pidIndex' = [pidIndex EXCEPT ![pid] = key]
  /\ nodes' = [nodes EXCEPT ![key] = node]
  /\ AddChild(node.parent, key)
  /\ now' = t

\* The key the collector puts on an exec line of pid at time t.  A line that
\* has only a hostProcessId is keyed by it, while the tree reads pid 0.
EventKeys(pid, t) ==
  IF pid = 0 THEN {<<h, t>> : h \in HostPids \cup {0}} ELSE {<<pid, t>>}

-----------------------------------------------------------------------------
(* Broken forms of the handlers.                                           *)

\* An exec goes by the key of its own event.
HandleExecByEventKey(pid, ppid, image, eventKey, t) ==
  Record(pid, eventKey, [EntryOr(eventKey, pid, t) EXCEPT !.pid = pid, !.image = image,
                            !.parent = ResolveParentKey(ppid, pid, t)], t)

\* The first image stays.
HandleExecKeepsImage(pid, ppid, image, eventKey, t) ==
  LET key == KeyFor(pid, eventKey)
  IN  Record(pid, key, [EntryOr(key, pid, t) EXCEPT !.pid = pid,
                           !.image = IF @ = None THEN image ELSE @,
                           !.parent = ResolveParentKey(ppid, pid, t)], t)

\* A fork does not index the child.
HandleForkNotIndexed(pid, ppid, t) ==
  LET key == KeyFor(pid, <<pid, t>>)
      parent == ResolveParentKey(ppid, pid, t)
  IN  /\ nodes' = [nodes EXCEPT ![key] = [EntryOr(key, pid, t) EXCEPT !.parent = parent]]
      /\ AddChild(parent, key)
      /\ now' = t /\ UNCHANGED pidIndex

\* A fork gives its child a new key even when the pid has one.
HandleForkRekeys(pid, ppid, t) ==
  Record(pid, <<pid, t>>, [EntryOr(<<pid, t>>, pid, t) EXCEPT
                              !.parent = ResolveParentKey(ppid, pid, t)], t)

\* A fork takes its child for its parent.
HandleForkSwapped(pid, ppid, t) ==
  LET key == KeyFor(ppid, <<ppid, t>>)
  IN  Record(ppid, key, [EntryOr(key, ppid, t) EXCEPT !.parent = ResolveParentKey(pid, ppid, t)], t)

\* An exit ends the recorded children too, or is ignored while there are any.
HandleExitEndsChildren(pid, t) ==
  /\ nodes' = IF pidIndex[pid] # None /\ IsNode(pidIndex[pid])
              THEN [k \in Keys |-> IF k \in {pidIndex[pid]} \cup children[pidIndex[pid]]
                                   THEN [nodes[k] EXCEPT !.exit = t] ELSE nodes[k]]
              ELSE nodes
  /\ now' = t
  /\ UNCHANGED <<pidIndex, children>>
HandleExitIfChildless(pid, t) ==
  /\ nodes' = IF pidIndex[pid] # None /\ IsNode(pidIndex[pid]) /\ children[pidIndex[pid]] = {}
              THEN [nodes EXCEPT ![pidIndex[pid]].exit = t]
              ELSE nodes
  /\ now' = t
  /\ UNCHANGED <<pidIndex, children>>

-----------------------------------------------------------------------------
(* The handlers.                                                           *)

HandleExec(pid, ppid, image, eventKey, t) ==
  LET key == KeyFor(pid, eventKey)
  IN  Record(pid, key, [EntryOr(key, pid, t) EXCEPT !.pid = pid, !.image = image,
                           !.parent = ResolveParentKey(ppid, pid, t)], t)

HandleFork(pid, ppid, t) ==
  LET key == KeyFor(pid, <<pid, t>>)
  IN  Record(pid, key, [EntryOr(key, pid, t) EXCEPT !.parent = ResolveParentKey(ppid, pid, t)], t)

\* The exit time goes on the node in use for pid; pidIndex keeps the pid.
HandleExit(pid, t) ==
  /\ nodes' = IF pidIndex[pid] # None /\ IsNode(pidIndex[pid])
              THEN [nodes EXCEPT ![pidIndex[pid]].exit = t]
              ELSE nodes
  /\ now' = t
  /\ UNCHANGED <<pidIndex, children>>

\* Events come in the order of observed_at; those of one second in any order.
Exec == \E pid \in Pids, ppid \in Pids \cup {None}, image \in Images \cup {None},
           t \in now .. MaxTime :
          \E eventKey \in EventKeys(pid, t) : HandleExec(pid, ppid, image, eventKey, t)

\* A fork line without a child pid names the forking process as its own parent.
Fork == \E pid \in Pids, ppid \in Pids \cup {None}, t \in now .. MaxTime :
          HandleFork(pid, ppid, t)

Exit == \E pid \in Pids, t \in now .. MaxTime : HandleExit(pid, t)

Next == Exec \/ Fork \/ Exit

Spec == Init /\ [][Next]_treeVars

-----------------------------------------------------------------------------
(* Safety.                                                                 *)

\* get_by_pid never misses: whatever events came, and in whatever order, the
\* key in use for a pid names a stored node, and every stored node is the one
\* in use for some pid.
IndexCoversNodes ==
  /\ \A p \in Pids : pidIndex[p] # None => IsNode(pidIndex[p])
  /\ \A k \in Keys : nodes[k] # None => \E p \in Pids : pidIndex[p] = k

\* The upward and the downward walk agree: a node's parent link, even to a key
\* without a node, has its edge among the parent's children, and only stored
\* nodes are recorded as children, never under themselves.
LinksHaveEdges ==
  LET stored == {k \in Keys : nodes[k] # None}
  IN  WellLinked(stored, [k \in stored |-> nodes[k].parent], children)

\* Lifetimes make sense: a process exits no earlier than it starts, and no
\* event of the fold reaches past the last one handled.
LifetimesOrdered ==
  \A k \in Keys : nodes[k] # None =>
     /\ nodes[k].start <= now
     /\ nodes[k].exit # None => nodes[k].start <= nodes[k].exit /\ nodes[k].exit <= now

\* A parent link dangles only when the parent's first event came later than
\* the child's: a link made up for an unseen parent pid is either adopted by
\* that pid's first event of the same second, or that pid first shows later.
DanglingOnlyIfSeenLater ==
  \A k \in Keys :
    (nodes[k] # None /\ nodes[k].parent # None /\ ~IsNode(nodes[k].parent)) =>
      LET parent == nodes[k].parent IN
        /\ parent[2] <= now
        /\ pidIndex[parent[1]] # None => parent[2] < nodes[pidIndex[parent[1]]].start

\* With a processId on every line a node belongs to one pid: the key, the node
\* and the index name the same one, so no two pids share a node and no process
\* is its own parent.
OnePidPerNode ==
  /\ \A p \in Pids : pidIndex[p] # None => pidIndex[p][1] = p
  /\ \A k \in Keys : nodes[k] # None => nodes[k].pid = k[1] /\ nodes[k].start = k[2]
                                        /\ nodes[k].parent # k

\* What holds a walk together across events: a pid keeps its key for good, a
\* stored node keeps its start time, and an edge once recorded stays; an edge
\* appears only together with the parent link of its child.
IdentityIsStable ==
  [][ /\ \A p \in Pids : pidIndex[p] # None => pidIndex'[p] = pidIndex[p]
      /\ \A k \in Keys : nodes[k] # None =>
            nodes'[k] # None /\ nodes'[k].start = nodes[k].start
      /\ \A k \in Keys : /\ children[k] \subseteq children'[k]
                         /\ \A c \in children'[k] \ children[k] : nodes'[c].parent = k
    ]_treeVars
=============================================================================
