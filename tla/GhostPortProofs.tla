--------------------------- MODULE GhostPortProofs --------------------------
(***************************************************************************)
(* For any number of setups, checks and pids: the verdict on a port nobody *)
(* disturbed is right, and a setup leaves a listener that was there alone. *)
(***************************************************************************)
EXTENDS GhostPort, TLAPS

\* A command that is to let go of the port is the one that holds it.
HolderHolds ==
  /\ \A s \in Setups : setup[s].at \in {"probing", "verifying", "confirming"} => bound = s
  /\ \A c \in Checks : check[c].at = "probing" => bound = c

\* A process holds the port of a command that saw no change of it.
SteadyIsBound ==
  /\ \A s \in Setups : setup[s].steady => bound \in ProcIds
  /\ \A c \in Checks : check[c].steady => bound \in ProcIds

\* A check has asked no tool before it has looked.
NothingListedYet ==
  \A c \in Checks : check[c].at \in {"idle", "look", "ss"} => check[c].listed = {}

\* Undisturbed, a check has the port listed by the tools it has asked and that
\* show it, and concludes from that.
SteadyListing ==
  \A c \in Checks : check[c].steady =>
    /\ check[c].at = "netstat" => check[c].listed = {"ss"} \ hidden
    /\ check[c].at = "judge" => check[c].listed = Tools \ hidden

IInv ==
  /\ TypeOK /\ HolderHolds /\ SteadyIsBound /\ NothingListedYet /\ SteadyListing
  /\ SteadyAnswerIsRight /\ SetupLeavesListenerAlone

-----------------------------------------------------------------------------
(* What the assignments of the model do to the records of the commands.    *)

SetupRecord == [at : SetupSteps, pid : ProcIds \cup {None}, steady : BOOLEAN]
CheckRecord == [at : CheckSteps, listed : SUBSET Tools, steady : BOOLEAN]

\* A setup that goes from one step to another changes nothing else.
LEMMA SetupMoves ==
  ASSUME TypeOK, NEW s \in Setups, NEW from, NEW to \in SetupSteps, SetupAt(s, from, to)
  PROVE  /\ setup[s].at = from
         /\ setup' \in [Setups -> SetupRecord]
         /\ setup'[s].at = to /\ setup'[s].steady = setup[s].steady
         /\ \A x \in Setups \ {s} : setup'[x] = setup[x]
BY DEF SetupAt, TypeOK, SetupRecord

\* A check that goes from one step to another changes nothing else.
LEMMA CheckMoves ==
  ASSUME TypeOK, NEW c \in Checks, NEW from, NEW to \in CheckSteps, CheckAt(c, from, to)
  PROVE  /\ check[c].at = from
         /\ check' \in [Checks -> CheckRecord]
         /\ check'[c].at = to /\ check'[c].listed = check[c].listed
         /\ check'[c].steady = check[c].steady
         /\ \A x \in Checks \ {c} : check'[x] = check[x]
BY DEF CheckAt, TypeOK, CheckRecord

\* After a disturbance every command is where it was, and none is undisturbed.
LEMMA DisturbedKeepsSteps ==
  ASSUME TypeOK, Disturbed
  PROVE  /\ setup' \in [Setups -> SetupRecord] /\ check' \in [Checks -> CheckRecord]
         /\ \A s \in Setups : setup'[s].at = setup[s].at /\ ~setup'[s].steady
         /\ \A c \in Checks : /\ check'[c].at = check[c].at /\ ~check'[c].steady
                              /\ check'[c].listed = check[c].listed
BY DEF Disturbed, TypeOK, SetupRecord, CheckRecord

\* A disturbance keeps the invariant if it takes the port from no command.
LEMMA DisturbancePreserves ==
  ASSUME IInv, Disturbed, UNCHANGED pidFile,
         procs' \in [ProcIds -> {None, "listener", "serve", "other"}],
         bound' \in ProcIds \cup Setups \cup Checks \cup {None}, hidden' \subseteq Tools,
         bound' = bound \/ bound \notin Setups \cup Checks
  PROVE  IInv'
<1>1. /\ setup' \in [Setups -> SetupRecord] /\ check' \in [Checks -> CheckRecord]
      /\ \A s \in Setups : setup'[s].at = setup[s].at /\ ~setup'[s].steady
      /\ \A c \in Checks : /\ check'[c].at = check[c].at /\ ~check'[c].steady
                           /\ check'[c].listed = check[c].listed
  BY DisturbedKeepsSteps DEF IInv
<1>2. TypeOK'
  BY <1>1 DEF IInv, TypeOK, SetupRecord, CheckRecord
<1>3. HolderHolds'
  BY <1>1 DEF IInv, HolderHolds
<1> QED
  BY <1>1, <1>2, <1>3 DEF IInv, SteadyIsBound, NothingListedYet, SteadyListing,
     SteadyAnswerIsRight, SetupLeavesListenerAlone
-----------------------------------------------------------------------------
(* Setups.                                                                 *)

Holding == {"probing", "verifying", "confirming"}

\* A step of a setup keeps the invariant if it takes the port only when it is
\* free, lets go of it only if it is its own, and goes no further than to look
\* while a process has held the port.
LEMMA SetupStepPreserves ==
  ASSUME IInv, NEW s \in Setups, UNCHANGED <<check, hidden>>,
         setup' \in [Setups -> SetupRecord], \A x \in Setups \ {s} : setup'[x] = setup[x],
         procs' \in [ProcIds -> {None, "listener", "serve", "other"}],
         pidFile' \in ProcIds \cup {None},
         \/ bound' = bound /\ setup'[s].at \notin Holding
         \/ bound = None /\ bound' = s
         \/ bound = s /\ bound' = None /\ setup'[s].at \notin Holding,
         setup'[s].steady => bound' \in ProcIds /\ setup'[s].at \in {"idle", "look", "ready"}
  PROVE  IInv'
<1>1. TypeOK'
  BY DEF IInv, TypeOK, SetupRecord
<1>2. HolderHolds'
  BY GhostPortAssumption DEF IInv, HolderHolds, Holding
<1>3. SteadyIsBound'
  BY GhostPortAssumption DEF IInv, SteadyIsBound
<1>4. SetupLeavesListenerAlone'
  BY DEF IInv, SetupLeavesListenerAlone
<1> QED
  BY <1>1, <1>2, <1>3, <1>4 DEF IInv, NothingListedYet, SteadyListing, SteadyAnswerIsRight

\* Probing keeps the invariant: the port is in use, or free and the setup's.
LEMMA SetupProbesPreserves ==
  ASSUME IInv, SetupOnly, NEW s \in Setups, NEW from, NEW inUse \in SetupSteps \ Holding,
         NEW holding \in SetupSteps, SetupProbes(s, from, inUse, holding),
         setup[s].steady => inUse = "ready"
  PROVE  IInv'
<1>1. CASE bound # None
  <2>1. bound' = bound /\ SetupAt(s, from, inUse)
    BY <1>1 DEF SetupProbes
  <2>2. setup[s].steady => bound \in ProcIds
    BY DEF IInv, SteadyIsBound
  <2> QED
    BY <2>1, <2>2, SetupMoves, SetupStepPreserves DEF IInv, TypeOK, SetupOnly
<1>2. CASE bound = None
  <2>1. bound' = s /\ SetupAt(s, from, holding)
    BY <1>2 DEF SetupProbes
  <2>2. ~setup[s].steady
    BY <1>2, GhostPortAssumption DEF IInv, SteadyIsBound
  <2> QED
    BY <1>2, <2>1, <2>2, SetupMoves, SetupStepPreserves DEF IInv, TypeOK, SetupOnly
<1> QED
  BY <1>1, <1>2

\* A setup keeps the invariant when it goes on without probing, which it does
\* not do beyond looking while a process has held the port.
LEMMA SetupGoesOnPreserves ==
  ASSUME IInv, NEW s \in Setups, NEW from, NEW to \in SetupSteps \ Holding,
         SetupAt(s, from, to), UNCHANGED <<check, hidden>>,
         from \notin {"idle", "look", "ready"} \/ to = "ready",
         procs' \in [ProcIds -> {None, "listener", "serve", "other"}],
         pidFile' \in ProcIds \cup {None},
         bound' = bound \/ (bound = s /\ bound' = None)
  PROVE  IInv'
<1>1. /\ setup[s].at = from /\ setup' \in [Setups -> SetupRecord]
      /\ setup'[s].at = to /\ setup'[s].steady = setup[s].steady
      /\ \A x \in Setups \ {s} : setup'[x] = setup[x]
  BY SetupMoves DEF IInv
<1>2. setup[s].steady => /\ setup[s].at \in {"idle", "look", "ready"}
                         /\ bound \in ProcIds /\ bound # s
  BY GhostPortAssumption DEF IInv, SetupLeavesListenerAlone, SteadyIsBound
<1> QED
  BY <1>1, <1>2, SetupStepPreserves

\* Letting go of the port keeps the invariant: it is the setup's own.
LEMMA SetupLetsGoPreserves ==
  ASSUME IInv, NEW s \in Setups, NEW holding \in Holding,
         NEW to \in {"spawn", "remove", "failed"}, SetupLetsGo(s, holding, to)
  PROVE  IInv'
<1>1. SetupAt(s, holding, to) /\ bound' = None /\ SetupOnly
  BY DEF SetupLetsGo
<1>2. bound = s
  BY <1>1 DEF SetupAt, IInv, HolderHolds, Holding
<1>3. /\ to \in SetupSteps \ Holding
      /\ holding \notin {"idle", "look", "ready"}
  BY DEF Holding, SetupSteps
<1> QED
  BY <1>1, <1>2, <1>3, SetupGoesOnPreserves DEF SetupOnly, IInv, TypeOK

\* Each step of a setup keeps the invariant.
LEMMA SetupPreserves ==
  ASSUME IInv, NEW s \in Setups, Setup(s)
  PROVE  IInv'
<1>0. /\ procs \in [ProcIds -> {None, "listener", "serve", "other"}]
      /\ pidFile \in ProcIds \cup {None}
      /\ setup \in [Setups -> SetupRecord]
  BY DEF IInv, TypeOK, SetupRecord
<1>1. CASE SetupBegins(s)
  <2>1. /\ setup' \in [Setups -> SetupRecord] /\ setup'[s].at = "look"
        /\ setup'[s].steady => bound \in ProcIds
        /\ \A x \in Setups \ {s} : setup'[x] = setup[x]
    <3>1. (bound \in ProcIds) \in BOOLEAN
      OBVIOUS
    <3> QED
      BY <1>0, <1>1, <3>1 DEF SetupBegins, SetupRecord, SetupSteps
  <2> QED
    BY <1>0, <1>1, <2>1, SetupStepPreserves DEF SetupBegins, SetupOnly, Holding
<1>2. CASE SetupLooks(s)
  <2>1. CASE GhostPortAlive
    <3>1. SetupAt(s, "look", "ready") /\ bound' = bound /\ SetupOnly
      BY <1>2, <2>1 DEF SetupLooks
    <3> QED
      BY <1>0, <3>1, SetupGoesOnPreserves DEF SetupOnly, Holding, SetupSteps
  <2>2. CASE ~GhostPortAlive
    <3>1. SetupProbes(s, "look", "ready", "probing") /\ SetupOnly
      BY <1>2, <2>2 DEF SetupLooks
    <3> QED
      BY <3>1, SetupProbesPreserves DEF Holding, SetupSteps
  <2> QED
    BY <2>1, <2>2
<1>3. CASE SetupLetsGo(s, "probing", "spawn")
  BY <1>3, SetupLetsGoPreserves DEF Holding
<1>4. CASE SetupSpawns(s)
  <2>1. CASE SetupAt(s, "spawn", "failed") /\ UNCHANGED procs
    BY <1>0, <1>4, <2>1, SetupGoesOnPreserves DEF SetupSpawns, Holding, SetupSteps
  <2>2. ASSUME NEW p \in ProcIds, procs[p] = None, setup[s].at = "spawn",
               procs' = [procs EXCEPT ![p] = "listener"],
               setup' = [setup EXCEPT ![s].at = "write", ![s].pid = p]
        PROVE  IInv'
    <3>1. /\ setup' \in [Setups -> SetupRecord] /\ setup'[s].at = "write"
          /\ setup'[s].steady = setup[s].steady
          /\ \A x \in Setups \ {s} : setup'[x] = setup[x]
      BY <1>0, <2>2 DEF SetupRecord, SetupSteps
    <3>2. ~setup[s].steady
      BY <2>2 DEF IInv, SetupLeavesListenerAlone
    <3>3. procs' \in [ProcIds -> {None, "listener", "serve", "other"}]
      BY <1>0, <2>2
    <3> QED
      BY <1>0, <1>4, <3>1, <3>2, <3>3, SetupStepPreserves DEF SetupSpawns, Holding
  <2> QED
    BY <1>4, <2>1, <2>2 DEF SetupSpawns
<1>5. CASE SetupWrites(s)
  <2>1. setup[s].pid \in ProcIds \cup {None}
    BY <1>0 DEF SetupRecord
  <2>2. CASE SetupAt(s, "write", "settle") /\ pidFile' = setup[s].pid
    BY <1>0, <1>5, <2>1, <2>2, SetupGoesOnPreserves DEF SetupWrites, Holding, SetupSteps
  <2>3. CASE SetupAt(s, "write", "failed") /\ UNCHANGED pidFile
    BY <1>0, <1>5, <2>3, SetupGoesOnPreserves DEF SetupWrites, Holding, SetupSteps
  <2> QED
    BY <1>5, <2>2, <2>3 DEF SetupWrites
<1>6. CASE SetupSettles(s)
  <2>1. CASE ~GhostPortAlive
    <3>1. SetupAt(s, "settle", "remove") /\ bound' = bound /\ SetupOnly
      BY <1>6, <2>1 DEF SetupSettles
    <3> QED
      BY <1>0, <3>1, SetupGoesOnPreserves DEF SetupOnly, Holding, SetupSteps
  <2>2. CASE GhostPortAlive
    <3>1. SetupProbes(s, "settle", "final", "verifying") /\ SetupOnly
      BY <1>6, <2>2 DEF SetupSettles
    <3>2. setup[s].at = "settle"
      BY <3>1 DEF SetupProbes, SetupAt
    <3>3. ~setup[s].steady
      BY <3>2 DEF IInv, SetupLeavesListenerAlone
    <3> QED
      BY <3>1, <3>3, SetupProbesPreserves DEF Holding, SetupSteps
  <2> QED
    BY <2>1, <2>2
<1>7. CASE SetupLetsGo(s, "verifying", "remove")
  BY <1>7, SetupLetsGoPreserves DEF Holding
<1>8. CASE SetupRemoves(s)
  BY <1>0, <1>8, SetupGoesOnPreserves DEF SetupRemoves, Holding, SetupSteps
<1>9. CASE SetupConfirms(s)
  <2>1. CASE GhostPortAlive
    <3>1. SetupAt(s, "final", "ready") /\ bound' = bound /\ SetupOnly
      BY <1>9, <2>1 DEF SetupConfirms
    <3> QED
      BY <1>0, <3>1, SetupGoesOnPreserves DEF SetupOnly, Holding, SetupSteps
  <2>2. CASE ~GhostPortAlive
    <3>1. SetupProbes(s, "final", "ready", "confirming") /\ SetupOnly
      BY <1>9, <2>2 DEF SetupConfirms
    <3> QED
      BY <3>1, SetupProbesPreserves DEF Holding, SetupSteps
  <2> QED
    BY <2>1, <2>2
<1>10. CASE SetupLetsGo(s, "confirming", "failed")
  BY <1>10, SetupLetsGoPreserves DEF Holding
<1> QED
  BY <1>1, <1>2, <1>3, <1>4, <1>5, <1>6, <1>7, <1>8, <1>9, <1>10 DEF Setup
-----------------------------------------------------------------------------
(* Checks.                                                                 *)

\* A step of a check keeps the invariant if it takes the port only when it is
\* free, lets go of it only if it is its own, and the check knows of the port
\* what it has seen.
LEMMA CheckStepPreserves ==
  ASSUME IInv, NEW c \in Checks, UNCHANGED <<procs, pidFile, setup, hidden>>,
         check' \in [Checks -> CheckRecord], \A x \in Checks \ {c} : check'[x] = check[x],
         \/ bound' = bound /\ check'[c].at # "probing"
         \/ bound = None /\ bound' = c
         \/ bound = c /\ bound' = None /\ check'[c].at # "probing",
         check'[c].at \in {"idle", "look", "ss"} => check'[c].listed = {},
         check'[c].steady =>
           /\ bound' \in ProcIds
           /\ check'[c].at = "netstat" => check'[c].listed = {"ss"} \ hidden
           /\ check'[c].at = "judge" => check'[c].listed = Tools \ hidden
           /\ check'[c].at = "finding" => hidden # {}
           /\ check'[c].at = "clean" => hidden = {}
  PROVE  IInv'
<1>1. TypeOK'
  BY DEF IInv, TypeOK, CheckRecord
<1>2. HolderHolds'
  BY GhostPortAssumption DEF IInv, HolderHolds
<1>3. SteadyIsBound'
  BY GhostPortAssumption DEF IInv, SteadyIsBound
<1>4. NothingListedYet' /\ SteadyListing' /\ SteadyAnswerIsRight'
  BY DEF IInv, NothingListedYet, SteadyListing, SteadyAnswerIsRight
<1> QED
  BY <1>1, <1>2, <1>3, <1>4 DEF IInv, SetupLeavesListenerAlone

\* Asking a tool keeps the invariant: an undisturbed check adds the tool unless
\* the port is hidden from it.
LEMMA CheckListsPreserves ==
  ASSUME IInv, NEW c \in Checks, NEW tool, NEW next, CheckLists(c, tool, next),
         <<tool, next>> \in {<<"ss", "netstat">>, <<"netstat", "judge">>}
  PROVE  IInv'
<1>0. check \in [Checks -> CheckRecord] /\ tool \in Tools /\ next \in CheckSteps
  BY DEF IInv, TypeOK, CheckRecord, Tools, CheckSteps
<1>1. CASE CheckAt(c, tool, "error")
  <2>1. bound' = bound /\ CheckOnly
    BY DEF CheckLists
  <2> QED
    BY <1>1, <2>1, CheckMoves, CheckStepPreserves
       DEF IInv, SteadyIsBound, CheckOnly, CheckSteps
<1>2. CASE /\ check[c].at = tool
           /\ check' = [check EXCEPT ![c].at = next,
                ![c].listed = IF bound # None /\ tool \notin hidden THEN @ \cup {tool} ELSE @]
  <2>1. /\ check' \in [Checks -> CheckRecord]
        /\ check'[c].at = next /\ check'[c].steady = check[c].steady
        /\ check'[c].listed = IF bound # None /\ tool \notin hidden
                              THEN check[c].listed \cup {tool} ELSE check[c].listed
        /\ \A x \in Checks \ {c} : check'[x] = check[x]
    BY <1>0, <1>2 DEF CheckRecord
  <2>2. bound' = bound /\ CheckOnly
    BY DEF CheckLists
  <2>3. check[c].steady => bound \in ProcIds /\ bound # None
    BY GhostPortAssumption DEF IInv, SteadyIsBound
  <2>4. CASE tool = "ss" /\ next = "netstat"
    <3>1. check[c].listed = {}
      BY <1>2, <2>4 DEF IInv, NothingListedYet
    <3>2. check'[c].steady => check'[c].listed = {"ss"} \ hidden
      BY <2>1, <2>3, <2>4, <3>1
    <3> QED
      BY <2>1, <2>2, <2>3, <2>4, <3>2, CheckStepPreserves DEF CheckOnly
  <2>5. CASE tool = "netstat" /\ next = "judge"
    <3>1. check[c].steady => check[c].listed = {"ss"} \ hidden
      BY <1>2, <2>5 DEF IInv, SteadyListing
    <3>2. check'[c].steady => check'[c].listed = Tools \ hidden
      BY <2>1, <2>3, <2>5, <3>1 DEF Tools
    <3> QED
      BY <2>1, <2>2, <2>3, <2>5, <3>2, CheckStepPreserves DEF CheckOnly
  <2> QED
    BY <2>4, <2>5
<1> QED
  BY <1>1, <1>2 DEF CheckLists

\* Each step of a check keeps the invariant.
LEMMA CheckPreserves ==
  ASSUME IInv, NEW c \in Checks, Check(c)
  PROVE  IInv'
<1>0. check \in [Checks -> CheckRecord]
  BY DEF IInv, TypeOK, CheckRecord
<1>1. CASE CheckBegins(c)
  <2>1. (bound \in ProcIds) \in BOOLEAN
    OBVIOUS
  <2>2. /\ check' \in [Checks -> CheckRecord] /\ check'[c].at = "look"
        /\ check'[c].steady => bound \in ProcIds
        /\ check'[c].listed = check[c].listed
        /\ \A x \in Checks \ {c} : check'[x] = check[x]
    BY <1>0, <1>1, <2>1 DEF CheckBegins, CheckRecord, CheckSteps
  <2>3. check[c].listed = {}
    BY <1>1 DEF CheckBegins, IInv, NothingListedYet
  <2> QED
    BY <1>1, <2>2, <2>3, CheckStepPreserves DEF CheckBegins, CheckOnly
<1>2. CASE CheckLooks(c)
  <2>1. check[c].at = "look" => check[c].listed = {}
    BY DEF IInv, NothingListedYet
  <2>2. check[c].steady => bound \in ProcIds /\ bound # None
    BY GhostPortAssumption DEF IInv, SteadyIsBound
  <2>3. CASE GhostPortAlive \/ bound # None
    <3>1. CheckAt(c, "look", "ss") /\ bound' = bound /\ CheckOnly
      BY <1>2, <2>3 DEF CheckLooks
    <3> QED
      BY <2>1, <2>2, <3>1, CheckMoves, CheckStepPreserves DEF IInv, CheckOnly, CheckSteps
  <2>4. CASE ~(GhostPortAlive \/ bound # None)
    <3>1. CheckAt(c, "look", "probing") /\ bound' = c /\ CheckOnly
      BY <1>2, <2>4 DEF CheckLooks
    <3> QED
      BY <2>2, <2>4, <3>1, CheckMoves, CheckStepPreserves DEF IInv, CheckOnly, CheckSteps
  <2> QED
    BY <2>3, <2>4
<1>3. CASE CheckLetsGo(c)
  <2>1. CheckAt(c, "probing", "clean") /\ bound' = None /\ CheckOnly
    BY <1>3 DEF CheckLetsGo
  <2>2. bound = c
    BY <2>1 DEF CheckAt, IInv, HolderHolds
  <2>3. ~check[c].steady
    BY <2>2, GhostPortAssumption DEF IInv, SteadyIsBound
  <2> QED
    BY <2>1, <2>2, <2>3, CheckMoves, CheckStepPreserves DEF IInv, CheckOnly, CheckSteps
<1>4. CASE CheckLists(c, "ss", "netstat")
  BY <1>4, CheckListsPreserves
<1>5. CASE CheckLists(c, "netstat", "judge")
  BY <1>5, CheckListsPreserves
<1>6. CASE CheckJudges(c)
  <2> DEFINE verdict == IF check[c].listed = Tools THEN "clean" ELSE "finding"
  <2>1. CheckAt(c, "judge", verdict) /\ bound' = bound /\ CheckOnly
    BY <1>6 DEF CheckJudges
  <2>2. verdict \in CheckSteps /\ verdict \notin {"idle", "look", "ss", "probing", "netstat", "judge"}
    BY DEF CheckSteps
  <2>3. check[c].steady => bound \in ProcIds /\ check[c].listed = Tools \ hidden
    BY <2>1 DEF CheckAt, IInv, SteadyIsBound, SteadyListing
  <2>4. check[c].steady => (verdict = "clean" <=> hidden = {})
    <3>1. hidden \subseteq Tools
      BY DEF IInv, TypeOK
    <3>2. Tools \ hidden = Tools <=> hidden = {}
      BY <3>1
    <3>3. verdict = "clean" <=> check[c].listed = Tools
      OBVIOUS
    <3> QED
      BY <2>3, <3>2, <3>3
  <2> HIDE DEF verdict
  <2>5. /\ check' \in [Checks -> CheckRecord] /\ check'[c].at = verdict
        /\ check'[c].steady = check[c].steady
        /\ \A x \in Checks \ {c} : check'[x] = check[x]
    BY <2>1, <2>2, CheckMoves DEF IInv
  <2> QED
    BY <2>1, <2>2, <2>3, <2>4, <2>5, CheckStepPreserves DEF CheckOnly
<1> QED
  BY <1>1, <1>2, <1>3, <1>4, <1>5, <1>6 DEF Check

-----------------------------------------------------------------------------
(* The host, and the theorems.                                             *)

\* Each step of the host keeps the invariant.
LEMMA HostPreserves ==
  ASSUME IInv, Host
  PROVE  IInv'
<1>0. /\ procs \in [ProcIds -> {None, "listener", "serve", "other"}]
      /\ bound \in ProcIds \cup Setups \cup Checks \cup {None}
      /\ hidden \subseteq Tools
  BY DEF IInv, TypeOK
<1>1. ASSUME NEW p \in ProcIds, ListenerBinds(p)
      PROVE  IInv'
  <2>1. CASE bound = None
    BY <1>0, <1>1, <2>1, GhostPortAssumption, DisturbancePreserves DEF ListenerBinds
  <2>2. CASE bound # None
    <3>1. /\ procs' \in [ProcIds -> {None, "listener", "serve", "other"}]
          /\ UNCHANGED <<bound, pidFile, hidden, setup, check>>
      BY <1>0, <1>1, <2>2 DEF ListenerBinds
    <3> QED
      BY <3>1 DEF IInv, TypeOK, HolderHolds, SteadyIsBound, NothingListedYet, SteadyListing,
         SteadyAnswerIsRight, SetupLeavesListenerAlone
  <2> QED
    BY <2>1, <2>2
<1>2. ASSUME NEW p \in ProcIds, ProcessDies(p)
      PROVE  IInv'
  <2>0. procs' \in [ProcIds -> {None, "listener", "serve", "other"}]
    BY <1>0, <1>2 DEF ProcessDies
  <2>1. CASE bound = p
    BY <1>0, <1>2, <2>0, <2>1, GhostPortAssumption, DisturbancePreserves DEF ProcessDies
  <2>2. CASE bound # p
    <3>1. UNCHANGED <<bound, pidFile, hidden, setup, check>>
      BY <1>2, <2>2 DEF ProcessDies
    <3> QED
      BY <2>0, <3>1 DEF IInv, TypeOK, HolderHolds, SteadyIsBound, NothingListedYet, SteadyListing,
         SteadyAnswerIsRight, SetupLeavesListenerAlone
  <2> QED
    BY <2>1, <2>2
<1>3. ASSUME NEW p \in ProcIds, OtherStarts(p)
      PROVE  IInv'
  <2>1. /\ procs' \in [ProcIds -> {None, "listener", "serve", "other"}]
        /\ UNCHANGED <<bound, pidFile, hidden, setup, check>>
    BY <1>0, <1>3 DEF OtherStarts
  <2> QED
    BY <2>1 DEF IInv, TypeOK, HolderHolds, SteadyIsBound, NothingListedYet, SteadyListing,
       SteadyAnswerIsRight, SetupLeavesListenerAlone
<1>4. ASSUME NEW p \in ProcIds, ServeStarts(p)
      PROVE  IInv'
  <2>1. procs' \in [ProcIds -> {None, "listener", "serve", "other"}]
    BY <1>0, <1>4 DEF ServeStarts
  <2> QED
    BY <1>0, <1>4, <2>1, GhostPortAssumption, DisturbancePreserves DEF ServeStarts
<1>5. CASE VisibilityChanges
  <2>1. hidden' \subseteq Tools /\ Disturbed /\ UNCHANGED <<procs, bound, pidFile>>
    BY <1>5 DEF VisibilityChanges
  <2> QED
    BY <1>0, <2>1, DisturbancePreserves
<1> QED
  BY <1>1, <1>2, <1>3, <1>4, <1>5 DEF Host
\* The inductive invariant, for all sets of commands and pids.
THEOREM InvariantHolds == Spec => []IInv
<1>1. Init => IInv
  <2> SUFFICES ASSUME Init PROVE IInv
    OBVIOUS
  <2>1. TypeOK
    BY DEF Init, TypeOK, SetupSteps, CheckSteps
  <2> QED
    BY <2>1 DEF Init, IInv, HolderHolds, SteadyIsBound, NothingListedYet, SteadyListing,
       SteadyAnswerIsRight, SetupLeavesListenerAlone
<1>2. IInv /\ [Next]_vars => IInv'
  <2> SUFFICES ASSUME IInv, [Next]_vars PROVE IInv'
    OBVIOUS
  <2>1. CASE Host
    BY <2>1, HostPreserves
  <2>2. CASE \E s \in Setups : Setup(s)
    BY <2>2, SetupPreserves
  <2>3. CASE \E c \in Checks : Check(c)
    BY <2>3, CheckPreserves
  <2>4. CASE UNCHANGED vars
    BY <2>4 DEF vars, IInv, TypeOK, HolderHolds, SteadyIsBound, NothingListedYet, SteadyListing,
       SteadyAnswerIsRight, SetupLeavesListenerAlone
  <2> QED
    BY <2>1, <2>2, <2>3, <2>4 DEF Next
<1> QED
  BY <1>1, <1>2, PTL DEF Spec

\* The processes, the port's owner and the commands' records are of their types.
THEOREM TypeCorrect == Spec => []TypeOK
<1>1. IInv => TypeOK
  BY DEF IInv
<1> QED
  BY <1>1, InvariantHolds, PTL

\* canary check reports a port that one process held all along as hidden exactly
\* if a tool does not show it, whatever the pid file says.
THEOREM SteadyAnswerAlwaysRight == Spec => []SteadyAnswerIsRight
<1>1. IInv => SteadyAnswerIsRight
  BY DEF IInv
<1> QED
  BY <1>1, InvariantHolds, PTL

\* canary setup goes no further than to look at a port that one process has held
\* since it began: it starts nothing and writes no file.
THEOREM SetupAlwaysLeavesListenerAlone == Spec => []SetupLeavesListenerAlone
<1>1. IInv => SetupLeavesListenerAlone
  BY DEF IInv
<1> QED
  BY <1>1, InvariantHolds, PTL
=============================================================================
