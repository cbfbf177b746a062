-------------------------- MODULE IncidentEvidence --------------------------
(***************************************************************************)
(* The EDR evidence of one incident: collect_edr_evidence of               *)
(* engine/incident.rs reads, pid after pid, the newest events and then the *)
(* newest alerts of the process and its descendants, each with a query of  *)
(* its own, while deliveries go on being stored, and makes items of them:  *)
(* an event with the alert linked to it, or an alert alone.                *)
(*                                                                         *)
(* A delivery stands for the event row and the alert row made of it        *)
(* (EdrIngest); either may be missing.  One unit of time is 300 seconds.   *)
(* The tree never fills in process_guid, so that rows are read by pid      *)
(* only.  The vendor is the same for all rows of the one adapter there is. *)
(* That a later delivery of the same id replaces a row is left out.        *)
(***************************************************************************)
EXTENDS Integers, Sequences, FiniteSets

CONSTANTS
  Deliveries,  \* rows that may be stored, see DeliveryRow
  Ancestry,    \* start and exit of the process and of those above it
  Descendants, \* the processes below it, with their pids
  RootPid,     \* the pid of the incident
  Limit,       \* rows read per pid and table
  None

\* host: whether host_id or hostname is the host of the process.
DeliveryRow == [id : Nat, pid : Nat, at : Nat, guid : {"guid", "other", None},
                host : BOOLEAN, event : STRING \cup {None}, alert : STRING \cup {None}]

ASSUME DeliveriesAssumption ==
  /\ Deliveries \subseteq DeliveryRow /\ IsFiniteSet(Deliveries)
  /\ \A d, e \in Deliveries : d.id = e.id => d = e
ASSUME LineageAssumption ==
  /\ RootPid \in Nat /\ Limit \in Nat
  /\ IsFiniteSet(Descendants) /\ \A n \in Descendants : n.pid \in Nat
  /\ \A n \in Ancestry \cup Descendants :
       /\ n.start \in Nat
       /\ n.exit # None => n.exit \in Nat /\ n.start <= n.exit  \* LifetimesOrdered of ProcTree
ASSUME NoneAssumption == None \notin DeliveryRow

VARIABLES
  events, alerts,  \* deliveries whose event or alert is stored
  reader,          \* what the reader does next: "begin", "events", "alerts", "match", "done"
  left,            \* pids still to read, ascending
  seenEvents,      \* events read, in order
  seenAlerts,      \* alerts read, in order
  before,          \* events and alerts stored when the reader began
  evidence         \* the items

vars == <<events, alerts, reader, left, seenEvents, seenAlerts, before, evidence>>

TypeOK ==
  /\ events \subseteq Deliveries /\ alerts \subseteq Deliveries
  /\ reader \in {"begin", "events", "alerts", "match", "done"}
  /\ left \in Seq(Nat)
  /\ seenEvents \in Seq(events) /\ seenAlerts \in Seq(alerts)
  /\ before.events \subseteq events /\ before.alerts \subseteq alerts
  /\ \A item \in evidence : item.event \in events \cup {None} /\ item.alert \in alerts \cup {None}

Init ==
  /\ events = {} /\ alerts = {} /\ evidence = {}
  /\ reader = "begin" /\ left = <<>>
  /\ seenEvents = <<>> /\ seenAlerts = <<>>
  /\ before = [events |-> {}, alerts |-> {}]

-----------------------------------------------------------------------------
(* Scope and window.                                                       *)

PidScope == {RootPid} \cup {n.pid : n \in Descendants}

\* Every time a process of the lineage starts or exits.
LineageTimes == {n.start : n \in Ancestry \cup Descendants} \cup
                ({n.exit : n \in Ancestry \cup Descendants} \ {None})

\* Broken form: the window ends with the last start.
InWindowOfStarts(d) ==
  /\ \E n \in Ancestry \cup Descendants : d.at >= n.start - 2
  /\ \E n \in Ancestry \cup Descendants : d.at <= n.start + 2

\* From 300 seconds before the first start to 300 seconds after the last start
\* or exit, and 300 seconds more on either side.
InWindow(d) ==
  /\ \E n \in Ancestry \cup Descendants : d.at >= n.start - 2
  /\ \E t \in LineageTimes : d.at <= t + 2

-----------------------------------------------------------------------------
(* Reading.                                                                *)

Newer(d, e) == d.at > e.at \/ (d.at = e.at /\ d.id > e.id)

\* ORDER BY observed_at DESC, id DESC LIMIT Limit
Newest(table, pid) ==
  LET rows == {d \in table : d.pid = pid}
      count == Cardinality(rows)
  IN  [i \in 1 .. (IF count < Limit THEN count ELSE Limit) |->
         CHOOSE d \in rows : Cardinality({e \in rows : Newer(e, d)}) = i - 1]

Store(d) ==
  /\ \/ d.event # None /\ d \notin events /\ events' = events \cup {d} /\ UNCHANGED alerts
     \/ /\ d.alert # None /\ d \notin alerts /\ (d.event # None => d \in events)
        /\ alerts' = alerts \cup {d} /\ UNCHANGED events
  /\ UNCHANGED <<reader, left, seenEvents, seenAlerts, before, evidence>>

Begin ==
  /\ reader = "begin" /\ reader' = "events"
  /\ left' = [i \in 1 .. Cardinality(PidScope) |->
                CHOOSE p \in PidScope : Cardinality({q \in PidScope : q < p}) = i - 1]
  /\ before' = [events |-> events, alerts |-> alerts]
  /\ UNCHANGED <<events, alerts, seenEvents, seenAlerts, evidence>>

ReadEvents ==
  /\ reader = "events" /\ reader' = "alerts"
  /\ seenEvents' = seenEvents \o Newest(events, Head(left))
  /\ UNCHANGED <<events, alerts, left, seenAlerts, before, evidence>>

\* Broken form: the reader stops after the first pid.
ReadAlertsOnce ==
  /\ reader = "alerts" /\ reader' = "match"
  /\ seenAlerts' = seenAlerts \o Newest(alerts, Head(left))
  /\ left' = Tail(left)
  /\ UNCHANGED <<events, alerts, seenEvents, before, evidence>>

ReadAlerts ==
  /\ reader = "alerts"
  /\ reader' = IF Len(left) = 1 THEN "match" ELSE "events"
  /\ seenAlerts' = seenAlerts \o Newest(alerts, Head(left))
  /\ left' = Tail(left)
  /\ UNCHANGED <<events, alerts, seenEvents, before, evidence>>

-----------------------------------------------------------------------------
(* Matching.                                                               *)

Near(d, e) == d.at - e.at \in -1 .. 1

\* An event and an alert are of one process if they have the same guid, or none
\* either, or if the row looked up names the host; and the same pid.
OneProcess(event, alert, lookedUp) ==
  (event.guid = alert.guid \/ lookedUp.host) /\ event.pid = alert.pid

\* Broken form: the linked alert need not be near.
LinkedAlertAnyTime(e) ==
  LET fits == {i \in DOMAIN seenAlerts : OneProcess(e, seenAlerts[i], seenAlerts[i])}
  IN  IF fits = {} THEN None
      ELSE seenAlerts[CHOOSE i \in fits : \A j \in fits : i <= j]

\* The first alert read that fits the event.
LinkedAlert(e) ==
  LET fits == {i \in DOMAIN seenAlerts :
                 OneProcess(e, seenAlerts[i], seenAlerts[i]) /\ Near(e, seenAlerts[i])}
  IN  IF fits = {} THEN None
      ELSE seenAlerts[CHOOSE i \in fits : \A j \in fits : i <= j]

\* What makes two items one.
EventKey(e) == <<e.event, e.pid, e.guid, e.at>>
AlertKey(a) == <<a.alert, a.pid, a.guid, a.at>>

\* Of the events in the window, the first with its key.
EventItems ==
  {[event |-> seenEvents[i], alert |-> LinkedAlert(seenEvents[i])] :
     i \in {j \in DOMAIN seenEvents :
              /\ InWindow(seenEvents[j])
              /\ \A k \in 1 .. j - 1 :
                   InWindow(seenEvents[k]) => EventKey(seenEvents[k]) # EventKey(seenEvents[j])}}

\* Some event read, inside the window or not, has the name of the alert.
LinkedEventExists(a) ==
  \E i \in DOMAIN seenEvents :
    LET e == seenEvents[i]
    IN  OneProcess(e, a, e) /\ e.event = a.alert /\ Near(e, a)

\* The alerts in the window that no event stands for, the first with its key.
AlertItems ==
  LET unlinked == {i \in DOMAIN seenAlerts :
                     LET a == seenAlerts[i]
                     IN  /\ InWindow(a)
                         /\ \A item \in EventItems : item.alert # a
                         /\ ~LinkedEventExists(a)
                         /\ \A item \in EventItems : EventKey(item.event) # AlertKey(a)}
  IN  {[event |-> None, alert |-> seenAlerts[i]] :
         i \in {j \in unlinked :
                  \A k \in unlinked : k < j => AlertKey(seenAlerts[k]) # AlertKey(seenAlerts[j])}}

Match ==
  /\ reader = "match" /\ reader' = "done"
  /\ evidence' = EventItems \cup AlertItems
  /\ UNCHANGED <<events, alerts, left, seenEvents, seenAlerts, before>>

Next ==
  \/ \E d \in Deliveries : Store(d)
  \/ Begin \/ ReadEvents \/ ReadAlerts \/ Match

Spec == Init /\ [][Next]_vars

-----------------------------------------------------------------------------
(* Properties, of rows that were stored before the reader began, while     *)
(* others were stored between its queries.                                 *)

\* 600 seconds around the lives of the process, its ancestors and descendants.
InLifetime(d) ==
  \E first, last \in LineageTimes : first - 2 <= d.at /\ d.at <= last + 2

\* No row of the pid can have been crowded out by newer ones.
WithinLimit(table, pid) == Cardinality({d \in table : d.pid = pid}) <= Limit

OfIncident(d, table) == d.pid \in PidScope /\ InLifetime(d) /\ WithinLimit(table, d.pid)

\* Every event of the incident's processes and time is shown, or one that says
\* the same: no delivery that is stored meanwhile takes it away.
EveryEventIsShown ==
  reader = "done" => \A e \in before.events : OfIncident(e, events) =>
    \E item \in evidence : item.event # None /\ EventKey(item.event) = EventKey(e)

\* What stands for an alert: an item it is linked to, itself or its like alone,
\* or a shown event of its name at its time.
Attached(a) ==
  \E item \in evidence :
    \/ item.alert # None /\ AlertKey(item.alert) = AlertKey(a)
    \/ item.event # None /\ item.event.event = a.alert /\ item.event.pid = a.pid
                         /\ Near(item.event, a)

\* "attach EDR alerts to the incident" (Goal.md, E4): every alert of the
\* incident's processes and time is attached to it, but for one that has an
\* event of its name nearby which is not of the incident's time: then neither of
\* the two is shown.
AlertsAreAttachedUnless ==
  reader = "done" => \A a \in before.alerts : OfIncident(a, alerts) =>
    \/ Attached(a)
    \/ \E e \in events : e.event = a.alert /\ e.pid = a.pid /\ Near(e, a) /\ ~InLifetime(e)

\* An event and an alert of one delivery are shown as one item, unless another
\* alert of that process is near enough to be taken for it.
DeliveriesStayTogether ==
  reader = "done" => \A d \in before.events \cap before.alerts :
    (OfIncident(d, events) /\ OfIncident(d, alerts) /\
     \A a \in alerts \ {d} : ~(a.pid = d.pid /\ Near(a, d))) =>
       \E item \in evidence :
         item.event # None /\ EventKey(item.event) = EventKey(d) /\ item.alert = d
=============================================================================
