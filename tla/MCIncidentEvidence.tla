------------------------- MODULE MCIncidentEvidence -------------------------
(* The processes with pids 1 and 2 live from 10 to 12: their evidence is    *)
(* of 8 to 14.                                                             *)
EXTENDS IncidentEvidence

Row(id, pid, at, guid, host, event, alert) ==
  [id |-> id, pid |-> pid, at |-> at, guid |-> guid, host |-> host, event |-> event, alert |-> alert]

MCAncestry == {[start |-> 10, exit |-> None]}
MCDescendants == {[pid |-> 2, start |-> 11, exit |-> 12]}

\* A delivery, its repetition, an alert alone, an event of that alert's name
\* after the window, and a delivery and a later alert of the child.
MCDeliveries == {
  Row(1, 1, 13, None, FALSE, "exec", "shell"),
  Row(2, 1, 13, None, FALSE, "exec", "shell"),
  Row(3, 1, 14, "guid", TRUE, None, "beacon"),
  Row(4, 1, 15, "guid", FALSE, "beacon", None),
  Row(5, 2, 12, "guid", FALSE, "beacon", "beacon"),
  Row(6, 2, 14, "other", TRUE, None, "shell")}
=============================================================================
