----------------------------- MODULE EdrIngest ------------------------------
(***************************************************************************)
(* The EDR ingest API of src/api/edr_ingest.rs with the generic adapter    *)
(* and the four tables it fills.  Every request runs in a task of its own; *)
(* each insert is a transaction on a connection of its own, so requests    *)
(* interleave between inserts, an insert may fail (locked or full          *)
(* database), and the server may die between two of them.  A client that   *)
(* heard nothing or an error may send the same payload again.              *)
(*                                                                         *)
(* A payload is a model value; of its fields the model keeps its event_id  *)
(* and alert_id.  A row keeps the payload it was made from.  A batch       *)
(* import is the same handler run payload after payload.                   *)
(***************************************************************************)
EXTENDS Naturals, Sequences, FiniteSets

CONSTANTS
  Requests,   \* HTTP requests, repeated sends being requests of their own
  Payloads,   \* JSON payloads
  EventId,    \* EventId[p]: external event_id of payload p, or None
  AlertId,    \* AlertId[p]: external alert_id of payload p, or None
  MaxItems,   \* bound: payloads of one import
  MaxClock,   \* bound: readings of the clock
  None

ASSUME EdrAssumption ==
  /\ MaxItems \in Nat \ {0} /\ MaxClock \in Nat
  /\ DOMAIN EventId = Payloads /\ DOMAIN AlertId = Payloads

VARIABLES
  raw, normalized, events, alerts,  \* the tables: sets of rows
  req,      \* req[r]: the request's progress, None before it is sent
  clock     \* nanoseconds

tables == <<raw, normalized, events, alerts>>
vars == <<tables, req, clock>>

Kinds == {"Generic", "EventOnly", "AlertOnly"}

\* Where a request is: about to read the clock for its next payload, at the
\* insert it makes next, or finished.
Steps == {"begin", "raw", "normalized", "event", "alert"}
Ends == {"ok", "error", "lost"}

Times == 0 .. MaxClock

Request == [batch : UNION {[1 .. n -> Payloads] : n \in 1 .. MaxItems},
            kind : Kinds, raws : UNION {[1 .. n -> Times] : n \in 0 .. MaxItems},
            at : Steps \cup Ends]

ASSUME NoneAssumption == None \notin Request

TypeOK ==
  /\ \A row \in raw : row.id \in Times /\ row.payload \in Payloads
  /\ \A row \in normalized \cup events \cup alerts :
       row.raw \in Times /\ row.payload \in Payloads
  /\ req \in [Requests -> Request \cup {None}]
  /\ clock \in Times

Init ==
  /\ raw = {} /\ normalized = {} /\ events = {} /\ alerts = {}
  /\ req = [r \in Requests |-> None]
  /\ clock = 0

-----------------------------------------------------------------------------
(* Rows and ids.                                                           *)

\* INSERT OR REPLACE: a row with the same primary key gives way.
Put(table, row) == {old \in table : old.id # row.id} \cup {row}

\* normalize_activity: the id carries the raw event's id.
NormalizedRow(p, rawId) == [id |-> <<p, rawId>>, raw |-> rawId, payload |-> p]

\* Broken form: the external id is not used, every delivery makes a new event.
EventRowPerDelivery(p, rawId) ==
  [id |-> <<p, rawId>>, raw |-> rawId, normalized |-> <<p, rawId>>, payload |-> p]

\* An event without an id of its own gets the raw event's id appended.
EventRow(p, rawId) ==
  [id |-> IF EventId[p] # None THEN <<EventId[p]>> ELSE <<p, rawId>>,
   raw |-> rawId, normalized |-> <<p, rawId>>, payload |-> p]

AlertRow(p, rawId) ==
  [id |-> IF AlertId[p] # None THEN <<AlertId[p]>> ELSE <<p, rawId>>,
   raw |-> rawId, payload |-> p]

-----------------------------------------------------------------------------
(* The handler.                                                            *)

InFlight(r) == req[r] # None /\ req[r].at \in Steps

Payload(r) == req[r].batch[Len(req[r].raws)]  \* of the payload under way
RawId(r) == req[r].raws[Len(req[r].raws)]

Goto(r, at) == req' = [req EXCEPT ![r].at = at]

\* A webhook call carries one payload, an import several and is always Generic.
\* An adapter that is not registered is answered 404 before anything is stored
\* and is left out.
Receive(r) ==
  /\ req[r] = None
  /\ \E n \in 1 .. MaxItems, kind \in Kinds :
       /\ n > 1 => kind = "Generic"
       /\ \E batch \in [1 .. n -> Payloads] :
            req' = [req EXCEPT ![r] =
                      [batch |-> batch, kind |-> kind, raws |-> <<>>, at |-> "begin"]]
  /\ UNCHANGED <<tables, clock>>

\* The raw id is the adapter's name and the nanosecond read here.  No two readings
\* are taken to be equal; if two were, the later raw row would replace the other.
TakeRawId(r) ==
  /\ InFlight(r) /\ req[r].at = "begin"
  /\ clock < MaxClock
  /\ req' = [req EXCEPT ![r].raws = Append(@, clock), ![r].at = "raw"]
  /\ clock' = clock + 1
  /\ UNCHANGED tables

\* Broken form: an error of the insert is ignored.
InsertRawUnchecked(r) ==
  /\ InFlight(r) /\ req[r].at = "raw"
  /\ raw' \in {raw, Put(raw, [id |-> RawId(r), payload |-> Payload(r)])}
  /\ Goto(r, "normalized")
  /\ UNCHANGED <<normalized, events, alerts, clock>>

InsertRaw(r) ==
  /\ InFlight(r) /\ req[r].at = "raw"
  /\ raw' = Put(raw, [id |-> RawId(r), payload |-> Payload(r)])
  /\ Goto(r, "normalized")
  /\ UNCHANGED <<normalized, events, alerts, clock>>

InsertNormalized(r) ==
  /\ InFlight(r) /\ req[r].at = "normalized"
  /\ normalized' = Put(normalized, NormalizedRow(Payload(r), RawId(r)))
  /\ Goto(r, "event")
  /\ UNCHANGED <<raw, events, alerts, clock>>

\* Broken form: an error of the insert is ignored.
InsertEventUnchecked(r) ==
  /\ InFlight(r) /\ req[r].at = "event"
  /\ events' \in {events, IF req[r].kind = "AlertOnly" THEN events
                           ELSE Put(events, EventRow(Payload(r), RawId(r)))}
  /\ Goto(r, "alert")
  /\ UNCHANGED <<raw, normalized, alerts, clock>>
InsertEvent(r) ==
  /\ InFlight(r) /\ req[r].at = "event"
  /\ events' = IF req[r].kind = "AlertOnly" THEN events
               ELSE Put(events, EventRow(Payload(r), RawId(r)))
  /\ Goto(r, "alert")
  /\ UNCHANGED <<raw, normalized, alerts, clock>>

\* Broken form: an import is answered after its first payload.
InsertAlertAnswers(r) ==
  /\ InFlight(r) /\ req[r].at = "alert"
  /\ alerts' = IF req[r].kind = "EventOnly" THEN alerts
               ELSE Put(alerts, AlertRow(Payload(r), RawId(r)))
  /\ Goto(r, "ok")
  /\ UNCHANGED <<raw, normalized, events, clock>>

\* The last insert of a payload; an import goes on with its next payload.
InsertAlert(r) ==
  /\ InFlight(r) /\ req[r].at = "alert"
  /\ alerts' = IF req[r].kind = "EventOnly" THEN alerts
               ELSE Put(alerts, AlertRow(Payload(r), RawId(r)))
  /\ Goto(r, IF Len(req[r].raws) = Len(req[r].batch) THEN "ok" ELSE "begin")
  /\ UNCHANGED <<raw, normalized, events, clock>>

\* An insert fails and the request is answered with an error at once; what it
\* stored before stays, for an import the payloads before it too.
InsertFails(r) ==
  /\ InFlight(r)
  /\ Goto(r, "error")
  /\ UNCHANGED <<tables, clock>>

\* The process dies and is started again by systemd on the same database.
Crash ==
  /\ \E r \in Requests : InFlight(r)
  /\ req' = [r \in Requests |-> IF InFlight(r) THEN [req[r] EXCEPT !.at = "lost"] ELSE req[r]]
  /\ UNCHANGED <<tables, clock>>

Handle(r) == TakeRawId(r) \/ InsertRaw(r) \/ InsertNormalized(r) \/ InsertEvent(r) \/ InsertAlert(r)

Next ==
  \/ \E r \in Requests : Receive(r) \/ Handle(r) \/ InsertFails(r)
  \/ Crash

Spec == Init /\ [][Next]_vars

-----------------------------------------------------------------------------
(* Properties.                                                             *)

\* raw_event_id leads back to the original text (B-EventModel, section 6): the
\* raw row of every derived row exists and holds the payload the row was made
\* from, and an event's normalized row exists and is of the same payload.
EvidenceTracesBack ==
  /\ \A row \in normalized \cup events \cup alerts :
       [id |-> row.raw, payload |-> row.payload] \in raw
  /\ \A row \in events : NormalizedRow(row.payload, row.raw) \in normalized

\* The n-th insert for the i-th payload of request r has its row, or the kind of
\* the request asks for none.  A row with an external id may by now be of a later
\* delivery of that id.
HasStage(r, i, n) ==
  LET p == req[r].batch[i]
      id == req[r].raws[i]
  IN  CASE n = 1 -> [id |-> id, payload |-> p] \in raw
        [] n = 2 -> NormalizedRow(p, id) \in normalized
        [] n = 3 -> req[r].kind = "AlertOnly" \/ \E row \in events : row.id = EventRow(p, id).id
        [] n = 4 -> req[r].kind = "EventOnly" \/ \E row \in alerts : row.id = AlertRow(p, id).id

Stored(r, i) == \A n \in 1 .. 4 : HasStage(r, i, n)

\* A request answered 200 is stored in full, whatever other requests did in
\* between; one that failed or was lost has stored all but its last payload.
AnsweredMeansStored ==
  \A r \in Requests : req[r] # None =>
    \A i \in 1 .. Len(req[r].raws) :
      (req[r].at = "ok" \/ i < Len(req[r].raws)) => Stored(r, i)

\* Sending a payload that names its event and alert again, after an error, a
\* crash or concurrently, never makes a second event or alert of it.
RetriesAreAbsorbed ==
  /\ \A e, f \in events : (e.payload = f.payload /\ EventId[e.payload] # None) => e = f
  /\ \A e, f \in alerts : (e.payload = f.payload /\ AlertId[e.payload] # None) => e = f

-----------------------------------------------------------------------------
(* The ledger of EdrLedger, read off the tables: how many of the inserts of *)
(* a payload, in their order, have their row.                              *)

StageOf(r, i) ==
  IF i > Len(req[r].raws) THEN 0
  ELSE CHOOSE n \in 0 .. 4 : /\ \A m \in 1 .. n : HasStage(r, i, m)
                             /\ n < 4 => ~HasStage(r, i, n + 1)

LedgerStage == [r \in Requests |-> IF req[r] = None THEN <<>>
                                   ELSE [i \in DOMAIN req[r].batch |-> StageOf(r, i)]]
LedgerAnswer == [r \in Requests |-> IF req[r] = None THEN "unsent"
                                    ELSE IF req[r].at \in Steps THEN "pending"
                                    ELSE req[r].at]

Ledger == INSTANCE EdrLedger WITH
  Deliveries <- Requests, Stages <- 4, stage <- LedgerStage, answer <- LedgerAnswer

\* The tables and handlers implement the ledger: evidence only accumulates,
\* in the order of a delivery's payloads, and 200 is only said of all of it.
ImplementsLedger == Ledger!LedgerSpec
=============================================================================
