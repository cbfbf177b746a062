----------------------------- MODULE GhostPort ------------------------------
(***************************************************************************)
(* One ghost port of collector/canary.rs: `canary setup` starts a listener *)
(* in the background and leaves its pid in a file, `canary serve` listens  *)
(* in the foreground, and `canary check` compares what it believes to be   *)
(* listening with what ss and netstat list.  Each command is a process of  *)
(* its own and nothing keeps two of them apart.                            *)
(*                                                                         *)
(* A port is believed to be listening when the pid in the file is running, *)
(* whoever has that pid by now, or when binding the port fails; a bind     *)
(* that succeeds holds the port until the command lets go of it.           *)
(***************************************************************************)
EXTENDS Naturals, FiniteSets

CONSTANTS
  Setups,     \* runs of `canary setup`
  Checks,     \* runs of `canary check`
  ProcIds,    \* pids the kernel gives to the processes that matter here
  MayHide,    \* TRUE: the port may be hidden from ss or netstat
  None

ASSUME GhostPortAssumption ==
  /\ IsFiniteSet(ProcIds) /\ MayHide \in BOOLEAN
  /\ Setups \cap Checks = {} /\ (Setups \cup Checks) \cap ProcIds = {}
  /\ None \notin ProcIds \cup Setups \cup Checks

VARIABLES
  procs,    \* procs[p]: what runs with pid p, or None
  bound,    \* the process or the command that listens on the port, or None
  pidFile,  \* the pid in the file, or None without one
  hidden,   \* the tools that do not show the port
  setup,    \* setup[s]: where the setup is, the pid it started, and whether
            \* one process has held the port since it began
  check     \* check[c]: the same of a check, and the tools that listed the port

vars == <<procs, bound, pidFile, hidden, setup, check>>

Tools == {"ss", "netstat"}
SetupSteps == {"idle", "look", "probing", "spawn", "write", "settle", "verifying",
               "final", "confirming", "remove", "ready", "failed"}
CheckSteps == {"idle", "look", "probing", "ss", "netstat", "judge", "clean", "finding", "error"}

TypeOK ==
  /\ procs \in [ProcIds -> {None, "listener", "serve", "other"}]
  /\ bound \in ProcIds \cup Setups \cup Checks \cup {None}
  /\ pidFile \in ProcIds \cup {None}
  /\ hidden \subseteq Tools
  /\ setup \in [Setups -> [at : SetupSteps, pid : ProcIds \cup {None}, steady : BOOLEAN]]
  /\ check \in [Checks -> [at : CheckSteps, listed : SUBSET Tools, steady : BOOLEAN]]

Init ==
  /\ procs = [p \in ProcIds |-> None]
  /\ bound = None /\ pidFile = None /\ hidden = {}
  /\ setup = [s \in Setups |-> [at |-> "idle", pid |-> None, steady |-> FALSE]]
  /\ check = [c \in Checks |-> [at |-> "idle", listed |-> {}, steady |-> FALSE]]

GhostPortAlive == pidFile # None /\ procs[pidFile] # None

-----------------------------------------------------------------------------
(* The host (external): processes and what the tools show.                 *)

\* The port changes hands or visibility: no command has seen one state of it.
Disturbed ==
  /\ setup' = [s \in Setups |-> [setup[s] EXCEPT !.steady = FALSE]]
  /\ check' = [c \in Checks |-> [check[c] EXCEPT !.steady = FALSE]]

\* The listener binds the port, at its own pace, or gives up if it is taken.
ListenerBinds(p) ==
  /\ procs[p] = "listener" /\ bound # p
  /\ IF bound = None
     THEN bound' = p /\ UNCHANGED procs /\ Disturbed
     ELSE procs' = [procs EXCEPT ![p] = None] /\ UNCHANGED <<bound, setup, check>>
  /\ UNCHANGED <<pidFile, hidden>>

ProcessDies(p) ==
  /\ procs[p] # None
  /\ procs' = [procs EXCEPT ![p] = None]
  /\ IF bound = p THEN bound' = None /\ Disturbed ELSE UNCHANGED <<bound, setup, check>>
  /\ UNCHANGED <<pidFile, hidden>>

\* Any process may get a free pid, the one in the file too.
OtherStarts(p) ==
  /\ procs[p] = None
  /\ procs' = [procs EXCEPT ![p] = "other"]
  /\ UNCHANGED <<bound, pidFile, hidden, setup, check>>

VisibilityChanges ==
  /\ MayHide
  /\ hidden' \in SUBSET Tools \ {hidden}
  /\ Disturbed
  /\ UNCHANGED <<procs, bound, pidFile>>

-----------------------------------------------------------------------------
(* canary serve: binds the port or ends.                                   *)

ServeStarts(p) ==
  /\ procs[p] = None /\ bound = None
  /\ procs' = [procs EXCEPT ![p] = "serve"]
  /\ bound' = p
  /\ Disturbed
  /\ UNCHANGED <<pidFile, hidden>>

-----------------------------------------------------------------------------
(* canary setup.                                                           *)

SetupAt(s, from, to) ==
  /\ setup[s].at = from
  /\ setup' = [setup EXCEPT ![s].at = to]

SetupOnly == UNCHANGED <<procs, pidFile, hidden, check>>

SetupBegins(s) ==
  /\ setup[s].at = "idle"
  /\ setup' = [setup EXCEPT ![s].at = "look", ![s].steady = bound \in ProcIds]
  /\ bound' = bound /\ SetupOnly

\* port_is_listening: the bind fails and the port is in use, or it succeeds and
\* the setup holds the port until the next step.
SetupProbes(s, from, inUse, holding) ==
  IF bound # None
  THEN SetupAt(s, from, inUse) /\ bound' = bound
  ELSE SetupAt(s, from, holding) /\ bound' = s

SetupLetsGo(s, holding, to) ==
  /\ SetupAt(s, holding, to)
  /\ bound' = None /\ SetupOnly

\* Broken form: the pid file alone decides.
SetupLooksOnce(s) ==
  /\ IF GhostPortAlive
     THEN SetupAt(s, "look", "ready") /\ bound' = bound
     ELSE SetupAt(s, "look", "spawn") /\ bound' = bound
  /\ SetupOnly

\* Nothing to do for a port believed to be listening.
SetupLooks(s) ==
  /\ IF GhostPortAlive
     THEN SetupAt(s, "look", "ready") /\ bound' = bound
     ELSE SetupProbes(s, "look", "ready", "probing")
  /\ SetupOnly

\* spawn_ghost_port_listener, in three steps: start it, write its pid, and look
\* for it 200 milliseconds later.
SetupSpawns(s) ==
  /\ \/ \E p \in ProcIds :
          /\ procs[p] = None /\ setup[s].at = "spawn"
          /\ procs' = [procs EXCEPT ![p] = "listener"]
          /\ setup' = [setup EXCEPT ![s].at = "write", ![s].pid = p]
     \/ SetupAt(s, "spawn", "failed") /\ UNCHANGED procs
  /\ UNCHANGED <<bound, pidFile, hidden, check>>

SetupWrites(s) ==
  /\ \/ SetupAt(s, "write", "settle") /\ pidFile' = setup[s].pid
     \/ SetupAt(s, "write", "failed") /\ UNCHANGED pidFile
  /\ UNCHANGED <<procs, bound, hidden, check>>

SetupSettles(s) ==
  /\ IF ~GhostPortAlive
     THEN SetupAt(s, "settle", "remove") /\ bound' = bound
     ELSE SetupProbes(s, "settle", "final", "verifying")
  /\ SetupOnly

\* The file is removed, whoever wrote it last; what was started is left running.
SetupRemoves(s) ==
  /\ SetupAt(s, "remove", "failed")
  /\ pidFile' = None
  /\ UNCHANGED <<procs, bound, hidden, check>>

SetupConfirms(s) ==
  /\ IF GhostPortAlive
     THEN SetupAt(s, "final", "ready") /\ bound' = bound
     ELSE SetupProbes(s, "final", "ready", "confirming")
  /\ SetupOnly

Setup(s) ==
  \/ SetupBegins(s) \/ SetupLooks(s) \/ SetupLetsGo(s, "probing", "spawn")
  \/ SetupSpawns(s) \/ SetupWrites(s)
  \/ SetupSettles(s) \/ SetupLetsGo(s, "verifying", "remove") \/ SetupRemoves(s)
  \/ SetupConfirms(s) \/ SetupLetsGo(s, "confirming", "failed")

-----------------------------------------------------------------------------
(* canary check: evaluate_ghost_port.                                      *)

CheckOnly == UNCHANGED <<procs, pidFile, hidden, setup>>

CheckAt(c, from, to) ==
  /\ check[c].at = from
  /\ check' = [check EXCEPT ![c].at = to]

CheckBegins(c) ==
  /\ check[c].at = "idle"
  /\ check' = [check EXCEPT ![c].at = "look", ![c].steady = bound \in ProcIds]
  /\ bound' = bound /\ CheckOnly

\* Broken form: without a pid file there is nothing to check.
CheckLooksAtFile(c) ==
  /\ IF GhostPortAlive THEN CheckAt(c, "look", "ss") ELSE CheckAt(c, "look", "clean")
  /\ bound' = bound /\ CheckOnly

CheckLooks(c) ==
  /\ IF GhostPortAlive \/ bound # None
     THEN CheckAt(c, "look", "ss") /\ bound' = bound
     ELSE CheckAt(c, "look", "probing") /\ bound' = c
  /\ CheckOnly

CheckLetsGo(c) ==
  /\ CheckAt(c, "probing", "clean")
  /\ bound' = None /\ CheckOnly

\* The tool lists the port if anyone listens on it and it is not hidden; a tool
\* that cannot be run ends the check, with whatever the other traps had shown.
CheckLists(c, tool, next) ==
  /\ \/ /\ check[c].at = tool
        /\ check' = [check EXCEPT ![c].at = next,
                       ![c].listed = IF bound # None /\ tool \notin hidden THEN @ \cup {tool} ELSE @]
     \/ CheckAt(c, tool, "error")
  /\ bound' = bound /\ CheckOnly

\* Both tools are asked before the verdict.
CheckJudges(c) ==
  /\ CheckAt(c, "judge", IF check[c].listed = Tools THEN "clean" ELSE "finding")
  /\ bound' = bound /\ CheckOnly

Check(c) ==
  \/ CheckBegins(c) \/ CheckLooks(c) \/ CheckLetsGo(c)
  \/ CheckLists(c, "ss", "netstat") \/ CheckLists(c, "netstat", "judge") \/ CheckJudges(c)

-----------------------------------------------------------------------------

Host ==
  \/ \E p \in ProcIds : ListenerBinds(p) \/ ProcessDies(p) \/ OtherStarts(p) \/ ServeStarts(p)
  \/ VisibilityChanges

Next ==
  \/ Host
  \/ \E s \in Setups : Setup(s)
  \/ \E c \in Checks : Check(c)

Spec == Init /\ [][Next]_vars

-----------------------------------------------------------------------------
(* Properties.                                                             *)

\* The verdict on a port that one process held all along, always as visible, is
\* right: a finding if it was hidden from a tool and none if it was not,
\* whatever the pid file says and whatever other commands do meanwhile.
SteadyAnswerIsRight ==
  \A c \in Checks : check[c].steady =>
    /\ check[c].at = "finding" => hidden # {}
    /\ check[c].at = "clean" => hidden = {}

\* A setup starts nothing, and touches no file, beside a listener that has held
\* the port since the setup began.
SetupLeavesListenerAlone ==
  \A s \in Setups : setup[s].steady => setup[s].at \in {"idle", "look", "ready"}

\* "ghost port listener is active but hidden" (canary.rs, the summary of a
\* finding): there is none on a host that hides nothing.
FindingMeansHidden == ~MayHide => \A c \in Checks : check[c].at # "finding"
=============================================================================
