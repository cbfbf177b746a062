---------------------------- MODULE TraceeIngest ----------------------------
(***************************************************************************)
(* Tracee's events on their way into raw_events: captures write NDJSON     *)
(* lines to a file (scripts/run-tracee-live.sh truncates it at the start   *)
(* and kills Tracee at the end, perhaps within a line), and                *)
(* `trace-lens tracee ingest`, collector/tracee.rs, reads the file line by *)
(* line, any number of times and beside a running capture, and stores what *)
(* it read in one transaction.                                             *)
(*                                                                         *)
(* An event is a model value.  Its row is identified by second, name and   *)
(* pid, which the model folds into Stamp, and by the number of its line.   *)
(***************************************************************************)
EXTENDS Naturals, Sequences, FiniteSets

CONSTANTS
  Events,       \* events Tracee reports, each once
  Stamp,        \* Stamp[e]: second, name and pid of e, or None without a time
  Ingests,      \* runs of `tracee ingest` that may overlap
  MaxCaptures,  \* bound: captures into the file
  MaxLines,     \* bound: lines of a capture
  MaxNow,       \* bound: the wall clock
  Torn,         \* a line cut off by the end of the capture
  None

ASSUME TraceeAssumption ==
  /\ DOMAIN Stamp = Events /\ Torn \notin Events
  /\ {MaxCaptures, MaxLines, MaxNow} \subseteq Nat

VARIABLES
  file,      \* the lines of the file
  captured,  \* events written to the file as whole lines, ever
  captures,  \* captures started
  writing,   \* whether a capture is running
  ingest,    \* ingest[i]: progress of an ingest, or None
  raw,       \* rows of raw_events
  now        \* wall clock

vars == <<file, captured, captures, writing, ingest, raw, now>>

Row == [id : ({Stamp[e] : e \in Events} \cup (0 .. MaxNow)) \X (1 .. MaxLines), event : Events]

TypeOK ==
  /\ file \in Seq(Events \cup {Torn}) /\ Len(file) <= MaxLines
  /\ captured \subseteq Events
  /\ captures \in 0 .. MaxCaptures /\ writing \in BOOLEAN
  /\ \A i \in Ingests : ingest[i] # None =>
       ingest[i].at \in {"reading", "ok", "bad line", "error"} /\ ingest[i].batch \in Seq(Row)
  /\ raw \subseteq Row
  /\ now \in 0 .. MaxNow

Init ==
  /\ file = <<>> /\ captured = {} /\ captures = 0 /\ writing = FALSE
  /\ ingest = [i \in Ingests |-> None]
  /\ raw = {} /\ now = 0

-----------------------------------------------------------------------------
(* The capture script and Tracee (external).                               *)

Reading(i) == ingest[i] # None /\ ingest[i].at = "reading"

\* The script ingests after its capture; a capture that truncates the file
\* under a reader is left out.
StartCapture ==
  /\ ~writing /\ captures < MaxCaptures /\ \A i \in Ingests : ~Reading(i)
  /\ file' = <<>> /\ captures' = captures + 1 /\ writing' = TRUE
  /\ UNCHANGED <<captured, ingest, raw, now>>

WriteLine(e) ==
  /\ writing /\ Len(file) < MaxLines /\ e \notin captured
  /\ file' = Append(file, e) /\ captured' = captured \cup {e}
  /\ UNCHANGED <<captures, writing, ingest, raw, now>>

\* `timeout` ends Tracee after a whole line or within one.
EndCapture ==
  /\ writing /\ writing' = FALSE
  /\ file' \in {file} \cup (IF Len(file) < MaxLines THEN {Append(file, Torn)} ELSE {})
  /\ UNCHANGED <<captured, captures, ingest, raw, now>>

Tick == now < MaxNow /\ now' = now + 1 /\ UNCHANGED <<file, captured, captures, writing, ingest, raw>>

-----------------------------------------------------------------------------
(* tracee ingest.                                                          *)

\* Broken forms: an id without the line number, and one without the event's
\* own time.
RowOfStamp(e, line) == [id |-> IF Stamp[e] = None THEN <<now>> ELSE <<Stamp[e]>>, event |-> e]
RowOfNow(e, line) == [id |-> <<now, line>>, event |-> e]

\* parse_ndjson_line: the row of event e on the given line.
RowOf(e, line) ==
  [id |-> <<IF Stamp[e] = None THEN now ELSE Stamp[e], line>>, event |-> e]

OpenReader(i) ==
  /\ ~Reading(i)
  /\ ingest' = [ingest EXCEPT ![i] = [at |-> "reading", batch |-> <<>>]]
  /\ UNCHANGED <<file, captured, captures, writing, raw, now>>

LineNo(i) == Len(ingest[i].batch) + 1

\* A line that is not JSON ends the ingest, and what was read is dropped.
ReadLine(i) ==
  /\ Reading(i) /\ LineNo(i) <= Len(file)
  /\ ingest' = [ingest EXCEPT ![i] =
       IF file[LineNo(i)] = Torn THEN [at |-> "bad line", batch |-> <<>>]
       ELSE [at |-> "reading", batch |-> Append(ingest[i].batch, RowOf(file[LineNo(i)], LineNo(i)))]]
  /\ UNCHANGED <<file, captured, captures, writing, raw, now>>

\* insert_raw_events at the end of the file: all rows in one transaction, each
\* replacing the row that has its id.
Insert(i) ==
  /\ Reading(i) /\ LineNo(i) > Len(file)
  /\ LET batch == ingest[i].batch
     IN  raw' = {row \in raw : \A n \in DOMAIN batch : batch[n].id # row.id} \cup
                {batch[n] : n \in {m \in DOMAIN batch :
                                     \A k \in m + 1 .. Len(batch) : batch[k].id # batch[m].id}}
  /\ ingest' = [ingest EXCEPT ![i].at = "ok"]
  /\ UNCHANGED <<file, captured, captures, writing, now>>

\* The file cannot be read on, or the database not written.
IngestFails(i) ==
  /\ Reading(i)
  /\ ingest' = [ingest EXCEPT ![i] = [at |-> "error", batch |-> <<>>]]
  /\ UNCHANGED <<file, captured, captures, writing, raw, now>>

Next ==
  \/ StartCapture \/ EndCapture \/ Tick
  \/ \E e \in Events : WriteLine(e)
  \/ \E i \in Ingests : OpenReader(i) \/ ReadLine(i) \/ Insert(i) \/ IngestFails(i)

Spec == Init /\ [][Next]_vars

-----------------------------------------------------------------------------
(* Properties.                                                             *)

\* Reading a file again, while it grows or from two ingests at once, never
\* makes a second row of an event that has a time of its own.
StoredOnce ==
  \A r, s \in raw : (r.event = s.event /\ Stamp[r.event] # None) => r = s

\* A finished ingest has stored every whole line it read, also when events of
\* one second, name and pid follow each other.
IngestedIsStored ==
  [][\A i \in Ingests : Insert(i) =>
       \A n \in DOMAIN ingest[i].batch : \E row \in raw' : row.event = file[n]]_vars

\* Evidence once stored is kept: ingesting a file again, early, late or twice at
\* a time, never takes away the row of an event in it, though events share
\* second, name and pid.  (The row of an event of an earlier capture may go: the
\* same second, name, pid and line number come back.)
EvidenceIsKept ==
  [][\A row \in raw : row.event \in {file[n] : n \in DOMAIN file} => row \in raw']_vars
=============================================================================
