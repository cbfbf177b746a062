----------------------------- MODULE TracedHost -----------------------------
(***************************************************************************)
(* The process tree fed by a real host: processes fork, exec, exit and are *)
(* handed to the reaper, the tracer reports each step as one event stamped *)
(* with the current second, and the tree folds the events second by        *)
(* second.  The host is not part of the program; it restricts ProcTree's   *)
(* inputs to what a kernel can report and keeps the truth the tree is      *)
(* compared with.                                                          *)
(*                                                                         *)
(* all_raw_events orders by observed_at alone, whose unit is a second:     *)
(* with Ordered = FALSE the events of one second are folded in any order.  *)
(***************************************************************************)
EXTENDS ProcTree, Sequences, SequencesExt

CONSTANTS
  Reaper,       \* the pid that adopts orphans; it never exits
  Preexisting,  \* processes already running when the trace starts
  Reuse,        \* TRUE: the pid of a dead process may be given out again
  Ordered,      \* TRUE: events of one second are folded as they happened
  MaxLag        \* bound: events of the running second not yet folded

ASSUME HostAssumption ==
  /\ Reaper \in Preexisting /\ Preexisting \subseteq Pids \ {0}
  /\ Reuse \in BOOLEAN /\ Ordered \in BOOLEAN /\ MaxLag \in Nat \ {0}

\* A running process: its parent, the second it was forked in (None if before the
\* trace), and the last second in which it had an exec, with what it ran then.
ProcessRecord == [parent : Pids, born : Times \cup {None},
                  ran : [second : Times \cup {None}, images : SUBSET Images]]

ASSUME NoProcessAssumption == None \notin ProcessRecord

VARIABLES
  procs,      \* procs[p]: the process running with pid p, or None
  retired,    \* retired[p]: the second p exited in, None unless p is a dead pid
  everParent, \* everParent[p]: parents the last process with pid p has had
  clock,      \* the running second
  log         \* reported events of this second the tree has not folded yet

hostVars == <<procs, retired, everParent, clock, log>>
vars == <<treeVars, hostVars>>

Processes == Pids \ {0}

\* No exec since the trace began.
NoExec == [second |-> None, images |-> {}]

\* Of the processes that run when the trace starts, the reaper is the child of
\* the kernel's pid 0 and the others are the reaper's.
FirstParent(p) == IF p = Reaper THEN 0 ELSE Reaper

HostInit ==
  /\ Init
  /\ procs = [p \in Pids |->
       IF p \in Preexisting
       THEN [parent |-> FirstParent(p), born |-> None, ran |-> NoExec]
       ELSE None]
  /\ everParent = [p \in Pids |-> IF p \in Preexisting THEN {FirstParent(p)} ELSE {}]
  /\ retired = [p \in Pids |-> None]
  /\ clock = 0
  /\ log = <<>>

-----------------------------------------------------------------------------
(* The host.                                                               *)

Running(p) == procs[p] # None

Report(event) == Len(log) < MaxLag /\ log' = Append(log, event)

HostFork(p, c) ==
  /\ Running(p) /\ ~Running(c) /\ c \in Processes
  /\ retired[c] # None => Reuse
  /\ procs' = [procs EXCEPT ![c] = [parent |-> p, born |-> clock, ran |-> NoExec]]
  /\ everParent' = [everParent EXCEPT ![c] = {p}]
  /\ retired' = [retired EXCEPT ![c] = None]
  /\ Report([type |-> "fork", pid |-> c, ppid |-> p, image |-> None])
  /\ UNCHANGED <<clock, treeVars>>

HostExec(p, image) ==
  /\ Running(p)
  /\ procs' = [procs EXCEPT ![p].ran =
       [second |-> clock, images |-> {image} \cup IF @.second = clock THEN @.images ELSE {}]]
  /\ Report([type |-> "exec", pid |-> p, ppid |-> procs[p].parent, image |-> image])
  /\ UNCHANGED <<retired, everParent, clock, treeVars>>

\* The children of an exiting process get the reaper as their parent.
HostExit(p) ==
  /\ Running(p) /\ p # Reaper
  /\ LET orphans == {c \in Processes : Running(c) /\ procs[c].parent = p}
     IN  /\ procs' = [q \in Pids |->
              IF q = p THEN None
              ELSE IF q \in orphans THEN [procs[q] EXCEPT !.parent = Reaper]
              ELSE procs[q]]
         /\ everParent' = [q \in Pids |->
              IF q \in orphans THEN everParent[q] \cup {Reaper} ELSE everParent[q]]
  /\ retired' = [retired EXCEPT ![p] = clock]
  /\ Report([type |-> "exit", pid |-> p, ppid |-> None, image |-> None])
  /\ UNCHANGED <<clock, treeVars>>

\* A second ends when its events have been folded: later ones sort after them.
Tick ==
  /\ log = <<>> /\ clock < MaxTime
  /\ clock' = clock + 1
  /\ UNCHANGED <<procs, retired, everParent, log, treeVars>>

-----------------------------------------------------------------------------
(* The fold.                                                               *)

HandleRawEvent(e) ==
  \/ e.type = "exec" /\ HandleExec(e.pid, e.ppid, e.image, <<e.pid, clock>>, clock)
  \/ e.type = "fork" /\ HandleFork(e.pid, e.ppid, clock)
  \/ e.type = "exit" /\ HandleExit(e.pid, clock)

Fold == \E i \in DOMAIN log :
  /\ Ordered => i = 1
  /\ HandleRawEvent(log[i])
  /\ log' = RemoveAt(log, i)
  /\ UNCHANGED <<procs, retired, everParent, clock>>

HostNext ==
  \/ \E p, c \in Processes : HostFork(p, c)
  \/ \E p \in Processes, image \in Images : HostExec(p, image)
  \/ \E p \in Processes : HostExit(p)
  \/ Tick
  \/ Fold

HostSpec == HostInit /\ [][HostNext]_vars

-----------------------------------------------------------------------------
(* What the tree says of the host, once it has folded all that was         *)
(* reported.                                                               *)

CaughtUp == log = <<>>

NodeOf(p) == nodes[pidIndex[p]]

HostTypeOK ==
  /\ TypeOK
  /\ procs \in [Pids -> ProcessRecord \cup {None}]
  /\ retired \in [Pids -> Times \cup {None}]
  /\ everParent \in [Pids -> SUBSET Pids]
  /\ clock \in now .. MaxTime
  /\ Len(log) <= MaxLag

\* The exit time of a node is empty while the process with that pid runs
\* (BEGINNER_GUIDE, ProcessNode: "empty if running").
RunningHasNoExit ==
  CaughtUp => \A p \in Processes :
    (Running(p) /\ pidIndex[p] # None) => NodeOf(p).exit = None

\* The key of a running process the trace saw start is its pid and its start
\* time (BEGINNER_GUIDE, ProcessNode: "unique key = PID / start time").
KeyIsPidAndStart ==
  CaughtUp => \A p \in Processes :
    (Running(p) /\ procs[p].born # None) => pidIndex[p] = <<p, procs[p].born>>

\* The tree keeps whole lifetimes: no process that exited stays open, unless the
\* trace first saw it in the second of its exit, which may then come first and
\* find no node to end.
ExitIsRecorded ==
  CaughtUp => \A p \in Processes :
    (retired[p] # None /\ pidIndex[p] # None) =>
       NodeOf(p).exit # None \/ (~Ordered /\ NodeOf(p).start = retired[p])

\* A parent link never invents kinship: it names a pid the process has really
\* had as a parent, however links were rewritten by forks, execs and adoption.
ParentWasAParent ==
  CaughtUp => \A p \in Processes :
    (pidIndex[p] # None /\ NodeOf(p).parent # None) => NodeOf(p).parent[1] \in everParent[p]

\* A process that has run exec since the trace began shows an image it ran in
\* the last second with an exec, never an older one, and no later fork or exit
\* of another process takes it away.
ImageIsCurrent ==
  CaughtUp => \A p \in Processes :
    (Running(p) /\ procs[p].ran.second # None) =>
       pidIndex[p] # None /\ NodeOf(p).image \in procs[p].ran.images
=============================================================================
