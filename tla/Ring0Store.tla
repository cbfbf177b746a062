----------------------------- MODULE Ring0Store -----------------------------
(***************************************************************************)
(* Kernel-integrity findings from the checks to the host's trust level:    *)
(* collector/ring0.rs and the check half of collector/canary.rs run a list *)
(* of detectors, insert_ring0_findings of storage/sqlite.rs stores what    *)
(* they found in one transaction, and assess_host_trust of engine/trust.rs *)
(* grades the host by the rows stored.  The scheduler of app.rs checks     *)
(* forever; checks started by hand run beside it in other processes.       *)
(*                                                                         *)
(* What a detector finds is a sequence of lines.  Of a finding the model   *)
(* keeps its id, its detector (which decides finding_type and severity)    *)
(* and the line that makes up its summary.                                 *)
(***************************************************************************)
EXTENDS Naturals, Sequences, FiniteSets

CONSTANTS
  Checkers,     \* the scheduler and the checks started by hand
  Scheduler,    \* the checker that runs forever
  Plan,         \* Plan[c]: the detectors checker c runs, in order
  Fixed,        \* detectors whose finding has one id whatever it reports
  Serious,      \* detectors whose finding type makes a host L2
  Lines,        \* what the host may show a detector
  Tokenings,    \* ways in which the lines may agree in their first 48 characters
  MaxLines,     \* bound: lines shown to a detector at once
  MaxShown,     \* bound: lines shown to all detectors at once
  MaxFailures,  \* bound: checks that fail
  None

Detectors == UNION {{Plan[c][i] : i \in DOMAIN Plan[c]} : c \in Checkers}

ASSUME CheckersAssumption ==
  /\ Scheduler \in Checkers
  /\ DOMAIN Plan = Checkers /\ \A c \in Checkers : Plan[c] \in Seq(Detectors)
  /\ \A c \in Checkers : \A i, j \in DOMAIN Plan[c] : Plan[c][i] = Plan[c][j] => i = j
  /\ Fixed \subseteq Detectors /\ Serious \subseteq Detectors
ASSUME LinesAssumption ==
  /\ \A t \in Tokenings : DOMAIN t = Lines
  /\ {MaxLines, MaxShown, MaxFailures} \subseteq Nat

VARIABLES
  token,     \* token[l]: the first 48 characters of line l, as in an id
  shown,     \* shown[d]: the lines the host shows detector d now
  check,     \* check[c]: the check that c is running, or None
  findings,  \* the rows of ring0_findings
  failures   \* checks that have failed

vars == <<token, shown, check, findings, failures>>

\* Lines a detector may see: a fixed one makes at most one finding, and no tool
\* prints the same line twice.
Reports(d) ==
  {lines \in UNION {[1 .. n -> Lines] : n \in 0 .. MaxLines} :
     /\ d \in Fixed => Len(lines) <= 1
     /\ \A i, j \in DOMAIN lines : lines[i] = lines[j] => i = j}

Ids == {<<d>> : d \in Fixed} \cup
       {<<d, token[l], i>> : d \in Detectors \ Fixed, l \in Lines, i \in 1 .. MaxLines}
Finding == [id : Ids, detector : Detectors, line : Lines]

ShownTogether(view) ==
  Cardinality({place \in Detectors \X (1 .. MaxLines) : place[2] \in DOMAIN view[place[1]]})

TypeOK ==
  /\ token \in Tokenings
  /\ \A d \in Detectors : shown[d] \in Reports(d)
  /\ \A c \in Checkers : check[c] # None =>
       /\ check[c].left \in Seq(Detectors)
       /\ check[c].batch \in Seq(Finding)
  /\ findings \subseteq Finding
  /\ failures \in 0 .. MaxFailures

Init ==
  /\ token \in Tokenings
  /\ shown = [d \in Detectors |-> <<>>]
  /\ check = [c \in Checkers |-> None]
  /\ findings = {}
  /\ failures = 0

-----------------------------------------------------------------------------
(* What the host shows changes at any time (external).                     *)

HostChanges == \E d \in Detectors :
  /\ \E lines \in Reports(d) : shown' = [shown EXCEPT ![d] = lines]
  /\ ShownTogether(shown') <= MaxShown
  /\ UNCHANGED <<token, check, findings, failures>>

-----------------------------------------------------------------------------
(* A check.                                                                *)

\* Broken form: an id without the index.
FindingOfToken(d, line, i) ==
  [id |-> IF d \in Fixed THEN <<d>> ELSE <<d, token[line]>>, detector |-> d, line |-> line]

\* The finding detector d makes of the i-th line it sees.
FindingOf(d, line, i) ==
  [id |-> IF d \in Fixed THEN <<d>> ELSE <<d, token[line], i>>, detector |-> d, line |-> line]

\* Broken form: no check once something has been found.
BeginOnce(c) ==
  /\ check[c] = None /\ findings = {}
  /\ check' = [check EXCEPT ![c] = [left |-> Plan[c], batch |-> <<>>]]
  /\ UNCHANGED <<token, shown, findings, failures>>

Begin(c) ==
  /\ check[c] = None
  /\ check' = [check EXCEPT ![c] = [left |-> Plan[c], batch |-> <<>>]]
  /\ UNCHANGED <<token, shown, findings, failures>>

\* One detector runs and sees what the host shows at that moment.
Detect(c) ==
  /\ check[c] # None /\ check[c].left # <<>>
  /\ LET d == Head(check[c].left)
         found == [i \in DOMAIN shown[d] |-> FindingOf(d, shown[d][i], i)]
     IN  check' = [check EXCEPT ![c] = [left |-> Tail(@.left), batch |-> @.batch \o found]]
  /\ UNCHANGED <<token, shown, findings, failures>>

\* A tool that cannot be run, or a database that cannot be written, ends the
\* check with an error: nothing of it is stored, and the loop goes on.
CheckFails(c) ==
  /\ check[c] # None /\ failures < MaxFailures
  /\ check' = [check EXCEPT ![c] = None]
  /\ failures' = failures + 1
  /\ UNCHANGED <<token, shown, findings>>

\* Broken form: rows of the same finding under another id are left in place.
PutFindingById(rows, f) == {row \in rows : row.id # f.id} \cup {f}

\* DELETE of the same finding under any id, then INSERT OR REPLACE by id.
PutFinding(rows, f) ==
  {row \in rows : row.id # f.id /\ ~(row.detector = f.detector /\ row.line = f.line)} \cup {f}

\* insert_ring0_findings: all of a batch, in order, in one transaction.
Inserted(rows, batch) ==
  LET after[n \in 0 .. Len(batch)] == IF n = 0 THEN rows ELSE PutFinding(after[n - 1], batch[n])
  IN  after[Len(batch)]

\* Broken form: the table shows the last check only.
CommitFresh(c) ==
  /\ check[c] # None /\ check[c].left = <<>>
  /\ findings' = Inserted({}, check[c].batch)
  /\ check' = [check EXCEPT ![c] = None]
  /\ UNCHANGED <<token, shown, failures>>

Commit(c) ==
  /\ check[c] # None /\ check[c].left = <<>>
  /\ findings' = Inserted(findings, check[c].batch)
  /\ check' = [check EXCEPT ![c] = None]
  /\ UNCHANGED <<token, shown, failures>>

Proceed(c) == Begin(c) \/ Detect(c) \/ Commit(c)

Next ==
  \/ HostChanges
  \/ \E c \in Checkers : Proceed(c) \/ CheckFails(c)

\* The scheduler's loop never ends while the server runs; a check started by
\* hand is only as fair as its user.
Spec == Init /\ [][Next]_vars /\ WF_vars(Proceed(Scheduler))

-----------------------------------------------------------------------------
(* The grade.                                                              *)

\* The host's level, L0 to L3.  The pages grade the last 20 or 32 findings they
\* read, which come to the same: three rows make L3 whatever they are.
AssessHostTrust(rows) ==
  IF rows = {} THEN 0
  ELSE IF Cardinality(rows) >= 3 THEN 3
  ELSE IF \E row \in rows : row.detector \in Serious THEN 2
  ELSE 1

-----------------------------------------------------------------------------
(* Properties.                                                             *)

\* A finding has one row however often, by whomever and at whatever place in a
\* tool's output it is reported.
OneRowPerFinding ==
  \A r, s \in findings : (r.id = s.id \/ (r.detector = s.detector /\ r.line = s.line)) => r = s

\* Everything a check found is stored when it ends well, also when lines share
\* their first 48 characters or replace each other's rows on the way.
BatchIsVisible ==
  [][\A c \in Checkers :
       Commit(c) => \A i \in DOMAIN check[c].batch : check[c].batch[i] \in findings']_vars

TokensDiffer == \A l, m \in Lines : token[l] = token[m] => l = m

\* The level of a host never improves, whatever the host shows: findings are
\* never withdrawn, and a check that begins early and commits late, or sees the
\* lines in another order, does not make two findings one.  (Lines that share
\* their first 48 characters can, if one takes the place of the other.)
TrustNeverImproves ==
  [][TokensDiffer => AssessHostTrust(findings') >= AssessHostTrust(findings)]_vars

Stored(d, line) == \E row \in findings : row.detector = d /\ row.line = line

\* What the host keeps showing to a detector of the scheduler is stored in the
\* end and stays, in spite of failing checks, late commits of other checkers
\* and lines with the same token.
PersistentAnomalyIsStored ==
  \A i \in DOMAIN Plan[Scheduler] : \A line \in Lines :
    LET d == Plan[Scheduler][i]
    IN  <>[](\E n \in DOMAIN shown[d] : shown[d][n] = line) => <>[]Stored(d, line)
=============================================================================
