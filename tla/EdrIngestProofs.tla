-------------------------- MODULE EdrIngestProofs ---------------------------
(***************************************************************************)
(* For any number of requests, payloads and items, with inserts that fail  *)
(* and a server that dies at any point: derived rows lead back to their    *)
(* evidence, an answered request is stored in full, sending a payload      *)
(* again makes no second event or alert of it, and the handlers implement  *)
(* the ledger.                                                             *)
(***************************************************************************)
EXTENDS EdrIngest, SequenceTheorems, TLAPS

\* A request takes one raw id per payload, up to the payload under way.
RequestsProgress ==
  \A r \in Requests : req[r] # None =>
    /\ Len(req[r].raws) <= Len(req[r].batch)
    /\ req[r].at = "begin" => Len(req[r].raws) < Len(req[r].batch)
    /\ req[r].at \in Steps \ {"begin"} => Len(req[r].raws) > 0
    /\ req[r].at = "ok" => Len(req[r].raws) = Len(req[r].batch)

\* No raw id is given twice, and the clock is past all of them.
RawIdsAreDistinct ==
  \A r \in Requests : req[r] # None => \A i \in 1 .. Len(req[r].raws) :
    /\ req[r].raws[i] < clock
    /\ \A s \in Requests : req[s] # None => \A j \in 1 .. Len(req[s].raws) :
         req[s].raws[j] = req[r].raws[i] => s = r /\ j = i

\* A raw row is of a reading of the clock and has the payload it was read for.
RawRowsMatch ==
  \A row \in raw :
    /\ row = [id |-> row.id, payload |-> row.payload] /\ row.id < clock
    /\ \A r \in Requests : req[r] # None => \A i \in 1 .. Len(req[r].raws) :
         req[r].raws[i] = row.id => row.payload = req[r].batch[i]

\* A derived row is made by its adapter function and is the only one of its id.
RowsAreKeyed ==
  /\ \A row \in normalized : row = NormalizedRow(row.payload, row.raw)
  /\ \A row \in events : /\ row = EventRow(row.payload, row.raw)
                         /\ \A other \in events : other.id = row.id => other = row
  /\ \A row \in alerts : /\ row = AlertRow(row.payload, row.raw)
                         /\ \A other \in alerts : other.id = row.id => other = row

\* How many of the inserts of its last payload a request has made for certain.
InsertsMade(at) ==
  CASE at \in {"begin", "ok"} -> 4
    [] at = "alert" -> 3
    [] at = "event" -> 2
    [] at = "normalized" -> 1
    [] OTHER -> 0

\* What a request has inserted is there: all of the payloads before its last, and
\* of that one what its step says.
StagesAreDone ==
  \A r \in Requests : req[r] # None => \A i \in 1 .. Len(req[r].raws), n \in 1 .. 4 :
    (i < Len(req[r].raws) \/ n <= InsertsMade(req[r].at)) => HasStage(r, i, n)

IInv ==
  /\ TypeOK /\ RequestsProgress /\ RawIdsAreDistinct /\ RawRowsMatch /\ RowsAreKeyed
  /\ StagesAreDone /\ EvidenceTracesBack
-----------------------------------------------------------------------------
(* Requests.                                                               *)

\* A function from 1 .. n is a sequence of n elements.
LEMMA FunctionIsSeq ==
  ASSUME NEW S, NEW n \in Nat, NEW f \in [1 .. n -> S]
  PROVE  f \in Seq(S) /\ Len(f) = n /\ DOMAIN f = 1 .. n
<1>1. f \in Seq(S)
  BY SeqDef
<1>2. DOMAIN f = 1 .. n /\ DOMAIN f = 1 .. Len(f) /\ Len(f) \in Nat
  BY <1>1, LenProperties
<1>3. Len(f) = n
  <2>1. CASE Len(f) < n
    <3>1. n \in 1 .. n /\ n \notin 1 .. Len(f)
      BY <1>2, <2>1
    <3> QED
      BY <1>2, <3>1
  <2>2. CASE n < Len(f)
    <3>1. Len(f) \in 1 .. Len(f) /\ Len(f) \notin 1 .. n
      BY <1>2, <2>2
    <3> QED
      BY <1>2, <3>1
  <2> QED
    BY <1>2, <2>1, <2>2
<1> QED
  BY <1>1, <1>2, <1>3

\* The fields of a request, its payloads and raw ids as sequences.
LEMMA RequestFields ==
  ASSUME NEW x \in Request
  PROVE  /\ x.batch \in Seq(Payloads) /\ Len(x.batch) \in 1 .. MaxItems
         /\ DOMAIN x.batch = 1 .. Len(x.batch)
         /\ x.kind \in Kinds /\ x.at \in Steps \cup Ends
         /\ x.raws \in Seq(Times) /\ Len(x.raws) \in 0 .. MaxItems
         /\ \A i \in 1 .. Len(x.raws) : x.raws[i] \in Times
<1>0. MaxItems \in Nat
  BY EdrAssumption
<1>1. /\ x.batch \in UNION {[1 .. n -> Payloads] : n \in 1 .. MaxItems}
      /\ x.raws \in UNION {[1 .. n -> Times] : n \in 0 .. MaxItems}
      /\ x.kind \in Kinds /\ x.at \in Steps \cup Ends
  BY DEF Request
<1>2. PICK n \in 1 .. MaxItems : x.batch \in [1 .. n -> Payloads]
  BY <1>1
<1>3. PICK m \in 0 .. MaxItems : x.raws \in [1 .. m -> Times]
  BY <1>1
<1>4. n \in Nat /\ m \in Nat
  BY <1>0
<1>5. x.batch \in Seq(Payloads) /\ Len(x.batch) = n /\ DOMAIN x.batch = 1 .. n
  BY <1>2, <1>4, FunctionIsSeq
<1>6. x.raws \in Seq(Times) /\ Len(x.raws) = m
  BY <1>3, <1>4, FunctionIsSeq
<1>7. \A i \in 1 .. Len(x.raws) : x.raws[i] \in Times
  BY <1>3, <1>6
<1> QED
  BY <1>1, <1>2, <1>3, <1>5, <1>6, <1>7

\* A request under way is one of the requests, and None is not.
LEMMA RequestsTyped ==
  ASSUME TypeOK
  PROVE  /\ \A r \in Requests : req[r] # None => req[r] \in Request
         /\ \A r \in Requests : InFlight(r) => req[r] # None /\ req[r] \in Request
  BY DEF TypeOK, InFlight

\* What holds of a request stays: its payloads, its kind, the raw ids it took.
Kept ==
  \A s \in Requests : req[s] # None =>
    /\ req'[s] # None /\ req'[s].batch = req[s].batch /\ req'[s].kind = req[s].kind
    /\ Len(req[s].raws) <= Len(req'[s].raws)
    /\ \A i \in 1 .. Len(req[s].raws) : req'[s].raws[i] = req[s].raws[i]

\* A request that goes to another step changes nothing else.
LEMMA GotoMoves ==
  ASSUME TypeOK, NEW r \in Requests, InFlight(r), NEW at \in Steps \cup Ends, Goto(r, at)
  PROVE  /\ req[r] # None /\ req[r] \in Request
         /\ req' \in [Requests -> Request \cup {None}]
         /\ req'[r] # None /\ req'[r] \in Request /\ req'[r].at = at
         /\ req'[r].batch = req[r].batch /\ req'[r].kind = req[r].kind
         /\ req'[r].raws = req[r].raws
         /\ \A s \in Requests \ {r} : req'[s] = req[s]
<1> DEFINE x == [req[r] EXCEPT !.at = at]
<1>1. req[r] # None /\ req[r] \in Request
  BY DEF InFlight, TypeOK
<1>2. /\ x \in Request /\ x.at = at /\ x.batch = req[r].batch /\ x.kind = req[r].kind
      /\ x.raws = req[r].raws
  BY <1>1 DEF Request
<1>3. req' = [req EXCEPT ![r] = x]
  BY DEF Goto
<1> HIDE DEF x
<1>4. req' \in [Requests -> Request \cup {None}] /\ req'[r] = x
  BY <1>2, <1>3 DEF TypeOK
<1>5. \A s \in Requests \ {r} : req'[s] = req[s]
  BY <1>3 DEF TypeOK
<1> QED
  BY <1>1, <1>2, <1>4, <1>5, NoneAssumption

\* Going to another step keeps what concerns requests and ids if the number of
\* raw ids fits the step.
LEMMA GotoPreserves ==
  ASSUME IInv, NEW r \in Requests, InFlight(r), NEW at \in Steps \cup Ends, Goto(r, at),
         clock' = clock, at = "begin" => Len(req[r].raws) < Len(req[r].batch),
         at = "ok" => Len(req[r].raws) = Len(req[r].batch),
         at \in Steps \ {"begin"} => Len(req[r].raws) > 0
  PROVE  /\ req' \in [Requests -> Request \cup {None}] /\ Kept
         /\ RequestsProgress' /\ RawIdsAreDistinct'
<1>1. TypeOK
  BY DEF IInv
<1>2. /\ req[r] # None /\ req[r] \in Request
      /\ req' \in [Requests -> Request \cup {None}]
      /\ req'[r] # None /\ req'[r] \in Request /\ req'[r].at = at
      /\ req'[r].batch = req[r].batch /\ req'[r].kind = req[r].kind
      /\ req'[r].raws = req[r].raws
      /\ \A s \in Requests \ {r} : req'[s] = req[s]
  BY <1>1, GotoMoves
<1>3. \A s \in Requests : /\ req[s] = None <=> req'[s] = None
                          /\ req[s] # None => /\ req'[s].batch = req[s].batch
                                              /\ req'[s].kind = req[s].kind
                                              /\ req'[s].raws = req[s].raws
  BY <1>2
<1>4. \A s \in Requests : req[s] # None => Len(req[s].raws) \in Nat
  BY <1>1, RequestsTyped, RequestFields, EdrAssumption
<1>5. Kept
  BY <1>3, <1>4 DEF Kept
<1>6. RequestsProgress'
  <2>1. RequestsProgress
    BY DEF IInv
  <2>2. /\ Len(req'[r].raws) <= Len(req'[r].batch)
        /\ req'[r].at = "begin" => Len(req'[r].raws) < Len(req'[r].batch)
        /\ req'[r].at \in Steps \ {"begin"} => Len(req'[r].raws) > 0
        /\ req'[r].at = "ok" => Len(req'[r].raws) = Len(req'[r].batch)
    BY <1>2, <2>1 DEF RequestsProgress
  <2> QED
    BY <1>2, <2>1, <2>2 DEF RequestsProgress
<1>7. RawIdsAreDistinct'
  <2> SUFFICES ASSUME NEW q \in Requests, req'[q] # None, NEW i \in 1 .. Len(req'[q].raws)
               PROVE  /\ req'[q].raws[i] < clock'
                      /\ \A s \in Requests : req'[s] # None => \A j \in 1 .. Len(req'[s].raws) :
                           req'[s].raws[j] = req'[q].raws[i] => s = q /\ j = i
    BY DEF RawIdsAreDistinct
  <2>1. req[q] # None /\ req'[q].raws = req[q].raws /\ i \in 1 .. Len(req[q].raws)
    BY <1>3
  <2>2. /\ req[q].raws[i] < clock
        /\ \A s \in Requests : req[s] # None => \A j \in 1 .. Len(req[s].raws) :
             req[s].raws[j] = req[q].raws[i] => s = q /\ j = i
    BY <2>1 DEF IInv, RawIdsAreDistinct
  <2>3. ASSUME NEW s \in Requests, req'[s] # None, NEW j \in 1 .. Len(req'[s].raws),
               req'[s].raws[j] = req'[q].raws[i]
        PROVE  s = q /\ j = i
    <3>1. req[s] # None /\ req'[s].raws = req[s].raws
      BY <1>3, <2>3
    <3> QED
      BY <2>1, <2>2, <2>3, <3>1
  <2> QED
    BY <2>1, <2>2, <2>3
<1> QED
  BY <1>2, <1>5, <1>6, <1>7
-----------------------------------------------------------------------------
(* Tables and stages.                                                      *)

\* What is in the tables stays, an event or alert at least its id.
Grow ==
  /\ raw \subseteq raw' /\ normalized \subseteq normalized'
  /\ \A e \in events : \E f \in events' : f.id = e.id
  /\ \A e \in alerts : \E f \in alerts' : f.id = e.id

\* The four stages of a payload, one by one.
LEMMA Stage ==
  ASSUME NEW r \in Requests, NEW i
  PROVE  LET p == req[r].batch[i]
             id == req[r].raws[i]
         IN  /\ HasStage(r, i, 1) <=> [id |-> id, payload |-> p] \in raw
             /\ HasStage(r, i, 2) <=> NormalizedRow(p, id) \in normalized
             /\ HasStage(r, i, 3) <=>
                  (req[r].kind = "AlertOnly" \/ \E row \in events : row.id = EventRow(p, id).id)
             /\ HasStage(r, i, 4) <=>
                  (req[r].kind = "EventOnly" \/ \E row \in alerts : row.id = AlertRow(p, id).id)
BY DEF HasStage

\* The same of the next state.
LEMMA NextStage ==
  ASSUME NEW r \in Requests, NEW i
  PROVE  LET p == req'[r].batch[i]
             id == req'[r].raws[i]
         IN  /\ HasStage(r, i, 1)' <=> [id |-> id, payload |-> p] \in raw'
             /\ HasStage(r, i, 2)' <=> NormalizedRow(p, id) \in normalized'
             /\ HasStage(r, i, 3)' <=>
                  (req'[r].kind = "AlertOnly" \/ \E row \in events' : row.id = EventRow(p, id).id)
             /\ HasStage(r, i, 4)' <=>
                  (req'[r].kind = "EventOnly" \/ \E row \in alerts' : row.id = AlertRow(p, id).id)
BY DEF HasStage, NormalizedRow, EventRow, AlertRow

\* A stage once reached stays reached.
LEMMA StagesStay ==
  ASSUME IInv, Kept, Grow, NEW r \in Requests, req[r] # None, NEW i \in 1 .. Len(req[r].raws),
         NEW n \in 1 .. 4, HasStage(r, i, n)
  PROVE  HasStage(r, i, n)'
<1>1. /\ req'[r].batch[i] = req[r].batch[i] /\ req'[r].raws[i] = req[r].raws[i]
      /\ req'[r].kind = req[r].kind
  BY DEF Kept
<1>2. CASE n = 1
  BY <1>1, <1>2, Stage, NextStage DEF Grow
<1>3. CASE n = 2
  BY <1>1, <1>3, Stage, NextStage DEF Grow
<1>4. CASE n = 3
  <2> DEFINE id == EventRow(req[r].batch[i], req[r].raws[i]).id
  <2>1. req[r].kind = "AlertOnly" \/ \E row \in events : row.id = id
    BY <1>4, Stage
  <2>2. EventRow(req'[r].batch[i], req'[r].raws[i]).id = id
    BY <1>1
  <2> HIDE DEF id
  <2>3. req'[r].kind = "AlertOnly" \/ \E row \in events' : row.id = id
    BY <1>1, <2>1 DEF Grow
  <2>4. HasStage(r, i, 3)' <=>
          (req'[r].kind = "AlertOnly" \/ \E row \in events' : row.id = id)
    BY <2>2, NextStage
  <2> QED
    BY <1>4, <2>3, <2>4
<1>5. CASE n = 4
  <2> DEFINE id == AlertRow(req[r].batch[i], req[r].raws[i]).id
  <2>1. req[r].kind = "EventOnly" \/ \E row \in alerts : row.id = id
    BY <1>5, Stage
  <2>2. AlertRow(req'[r].batch[i], req'[r].raws[i]).id = id
    BY <1>1
  <2> HIDE DEF id
  <2>3. req'[r].kind = "EventOnly" \/ \E row \in alerts' : row.id = id
    BY <1>1, <2>1 DEF Grow
  <2>4. HasStage(r, i, 4)' <=>
          (req'[r].kind = "EventOnly" \/ \E row \in alerts' : row.id = id)
    BY <2>2, NextStage
  <2> QED
    BY <1>5, <2>3, <2>4
<1> QED
  BY <1>2, <1>3, <1>4, <1>5

\* Going to a step keeps the stages if the step reached is done.
LEMMA StagesPreserved ==
  ASSUME IInv, Kept, Grow, NEW r \in Requests, InFlight(r), NEW at \in Steps \cup Ends,
         Goto(r, at),
         \A n \in 1 .. 4 : (Len(req[r].raws) > 0 /\ n <= InsertsMade(at)) =>
           HasStage(r, Len(req[r].raws), n) \/ HasStage(r, Len(req[r].raws), n)'
  PROVE  StagesAreDone'
<1>1. /\ req[r] # None /\ req'[r].at = at /\ req'[r].raws = req[r].raws
      /\ \A s \in Requests \ {r} : req'[s] = req[s]
  BY GotoMoves DEF IInv
<1>2. Len(req[r].raws) \in Nat
  BY RequestsTyped, RequestFields, EdrAssumption DEF IInv
<1> SUFFICES ASSUME NEW s \in Requests, req'[s] # None, NEW i \in 1 .. Len(req'[s].raws),
                    NEW n \in 1 .. 4, i < Len(req'[s].raws) \/ n <= InsertsMade(req'[s].at)
             PROVE  HasStage(s, i, n)'
  BY DEF StagesAreDone, InsertsMade
<1>3. CASE s # r
  <2>1. req'[s] = req[s]
    BY <1>1, <1>3
  <2>2. HasStage(s, i, n)
    BY <2>1 DEF IInv, StagesAreDone
  <2> QED
    BY <2>1, <2>2, StagesStay
<1>4. CASE s = r /\ i < Len(req[r].raws)
  <2>1. HasStage(r, i, n)
    BY <1>1, <1>4 DEF IInv, StagesAreDone
  <2> QED
    BY <1>1, <1>4, <2>1, StagesStay
<1>5. CASE s = r /\ ~(i < Len(req[r].raws))
  <2>1. i = Len(req[r].raws) /\ Len(req[r].raws) > 0 /\ n <= InsertsMade(at)
    BY <1>1, <1>2, <1>5
  <2>2. i \in 1 .. Len(req[r].raws)
    BY <1>1, <1>5
  <2> QED
    BY <1>1, <1>5, <2>1, <2>2, StagesStay
<1> QED
  BY <1>1, <1>3, <1>4, <1>5

\* Raw rows go on matching when no request takes an id.
LEMMA RawRowsGoOnMatching ==
  ASSUME IInv, NEW r \in Requests, InFlight(r), NEW at \in Steps \cup Ends, Goto(r, at),
         UNCHANGED <<raw, clock>>
  PROVE  RawRowsMatch'
<1>1. /\ req[r] # None /\ req'[r] # None /\ req'[r].batch = req[r].batch
      /\ req'[r].raws = req[r].raws /\ \A s \in Requests \ {r} : req'[s] = req[s]
  BY GotoMoves DEF IInv
<1>2. \A s \in Requests : req'[s] # None =>
        /\ req[s] # None /\ req'[s].batch = req[s].batch /\ req'[s].raws = req[s].raws
  BY <1>1
<1> QED
  BY <1>2 DEF IInv, RawRowsMatch
-----------------------------------------------------------------------------
(* Each step keeps the invariant, the requests and the tables.             *)

\* The payload a request is at, and the raw id taken for it.
LEMMA PayloadUnderWay ==
  ASSUME IInv, NEW r \in Requests, InFlight(r), req[r].at # "begin"
  PROVE  /\ Len(req[r].raws) \in 1 .. Len(req[r].raws)
         /\ Payload(r) = req[r].batch[Len(req[r].raws)] /\ Payload(r) \in Payloads
         /\ RawId(r) = req[r].raws[Len(req[r].raws)] /\ RawId(r) \in Times
         /\ Len(req[r].raws) > 0 /\ req[r] # None
         /\ RawId(r) < clock
<1>1. req[r] # None /\ req[r] \in Request /\ req[r].at \in Steps \ {"begin"}
  BY RequestsTyped DEF IInv, InFlight
<1>2. Len(req[r].raws) > 0 /\ Len(req[r].raws) <= Len(req[r].batch)
  BY <1>1 DEF IInv, RequestsProgress
<1>3. /\ Len(req[r].raws) \in Nat /\ Len(req[r].batch) \in Nat
      /\ req[r].batch \in Seq(Payloads)
      /\ \A i \in 1 .. Len(req[r].raws) : req[r].raws[i] \in Times
  BY <1>1, RequestFields, EdrAssumption
<1>4. Len(req[r].raws) \in 1 .. Len(req[r].raws) /\ Len(req[r].raws) \in 1 .. Len(req[r].batch)
  BY <1>2, <1>3
<1>5. Payload(r) = req[r].batch[Len(req[r].raws)] /\ RawId(r) = req[r].raws[Len(req[r].raws)]
  BY DEF Payload, RawId
<1>6. Payload(r) \in Payloads /\ RawId(r) \in Times
  BY <1>3, <1>4, <1>5, ElementOfSeq
<1>7. RawId(r) < clock
  BY <1>1, <1>4, <1>5 DEF IInv, RawIdsAreDistinct
<1> QED
  BY <1>1, <1>2, <1>4, <1>5, <1>6, <1>7

\* Storing the raw text: its id is of this payload alone, so no row gives way.
LEMMA InsertRawPreserves ==
  ASSUME IInv, NEW r \in Requests, InsertRaw(r)
  PROVE  IInv' /\ Kept /\ Grow
<1> DEFINE new == [id |-> RawId(r), payload |-> Payload(r)]
           last == Len(req[r].raws)
<1>1. /\ InFlight(r) /\ req[r].at = "raw" /\ Goto(r, "normalized")
      /\ raw' = Put(raw, new) /\ UNCHANGED <<normalized, events, alerts, clock>>
  BY DEF InsertRaw
<1>2. /\ last \in 1 .. last /\ last > 0 /\ req[r] # None
      /\ Payload(r) = req[r].batch[last] /\ Payload(r) \in Payloads
      /\ RawId(r) = req[r].raws[last] /\ RawId(r) \in Times /\ RawId(r) < clock
  BY <1>1, PayloadUnderWay
<1>3. /\ req' \in [Requests -> Request \cup {None}] /\ Kept
      /\ RequestsProgress' /\ RawIdsAreDistinct'
  BY <1>1, <1>2, GotoPreserves DEF Steps
<1>4. /\ req'[r] # None /\ req'[r].batch = req[r].batch /\ req'[r].raws = req[r].raws
      /\ \A s \in Requests \ {r} : req'[s] = req[s]
  BY <1>1, GotoMoves DEF IInv, Steps
<1>5. new.id = RawId(r) /\ new.payload = Payload(r) /\ new = [id |-> new.id, payload |-> new.payload]
  OBVIOUS
<1> HIDE DEF new
<1>6. \A row \in raw : row.id = new.id => row = new
  BY <1>2, <1>5 DEF IInv, RawRowsMatch
<1>7. raw' = raw \cup {new}
  BY <1>1, <1>6 DEF Put
<1>8. Grow
  BY <1>1, <1>7 DEF Grow
<1>9. TypeOK'
  BY <1>1, <1>2, <1>3, <1>5, <1>7 DEF IInv, TypeOK
<1>10. RawRowsMatch'
  <2>1. ASSUME NEW row \in raw
        PROVE  /\ row = [id |-> row.id, payload |-> row.payload] /\ row.id < clock'
               /\ \A s \in Requests : req'[s] # None => \A i \in 1 .. Len(req'[s].raws) :
                    req'[s].raws[i] = row.id => row.payload = req'[s].batch[i]
    BY <1>1, <1>2, <1>4 DEF IInv, RawRowsMatch
  <2>2. \A s \in Requests : req'[s] # None => \A i \in 1 .. Len(req'[s].raws) :
          req'[s].raws[i] = new.id => new.payload = req'[s].batch[i]
    <3>1. ASSUME NEW s \in Requests, req'[s] # None, NEW i \in 1 .. Len(req'[s].raws),
                 req'[s].raws[i] = new.id
          PROVE  new.payload = req'[s].batch[i]
      <4>1. req[s] # None /\ req'[s].raws = req[s].raws /\ req'[s].batch = req[s].batch
        BY <1>2, <1>4, <3>1
      <4>2. req[s].raws[i] = req[r].raws[last]
        BY <1>2, <1>5, <3>1, <4>1
      <4>3. s = r /\ i = last
        BY <1>2, <3>1, <4>1, <4>2 DEF IInv, RawIdsAreDistinct
      <4> QED
        BY <1>2, <1>5, <4>1, <4>3
    <3> QED
      BY <3>1
  <2> QED
    BY <1>1, <1>2, <1>5, <1>7, <2>1, <2>2 DEF RawRowsMatch
<1>11. RowsAreKeyed' /\ EvidenceTracesBack'
  BY <1>1, <1>7 DEF IInv, RowsAreKeyed, EvidenceTracesBack, NormalizedRow, EventRow, AlertRow
<1>12. StagesAreDone'
  <2>1. HasStage(r, last, 1)'
    BY <1>2, <1>4, <1>7, NextStage DEF new
  <2>2. InsertsMade("normalized") = 1
    BY DEF InsertsMade
  <2> QED
    BY <1>1, <1>3, <1>8, <2>1, <2>2, StagesPreserved DEF Steps
<1> QED
  BY <1>3, <1>8, <1>9, <1>10, <1>11, <1>12 DEF IInv
\* INSERT OR REPLACE keeps every id of the table, and one row per id.
LEMMA PutKeepsIds ==
  ASSUME NEW table, NEW row, \A x, y \in table : y.id = x.id => y = x
  PROVE  /\ row \in Put(table, row)
         /\ \A x \in Put(table, row) : x \in table \/ x = row
         /\ \A x \in table : \E y \in Put(table, row) : y.id = x.id
         /\ \A x, y \in Put(table, row) : y.id = x.id => y = x
BY DEF Put

\* Storing the normalized row: its id is made of the raw id, so no row gives way.
LEMMA InsertNormalizedPreserves ==
  ASSUME IInv, NEW r \in Requests, InsertNormalized(r)
  PROVE  IInv' /\ Kept /\ Grow
<1> DEFINE last == Len(req[r].raws)
           p == Payload(r)
           id == RawId(r)
           new == NormalizedRow(p, id)
<1>1. /\ InFlight(r) /\ req[r].at = "normalized" /\ Goto(r, "event")
      /\ normalized' = Put(normalized, new) /\ UNCHANGED <<raw, events, alerts, clock>>
  BY DEF InsertNormalized
<1>2. /\ last \in 1 .. last /\ last > 0 /\ req[r] # None
      /\ p = req[r].batch[last] /\ p \in Payloads /\ id = req[r].raws[last] /\ id \in Times
  BY <1>1, PayloadUnderWay
<1>3. /\ req' \in [Requests -> Request \cup {None}] /\ Kept
      /\ RequestsProgress' /\ RawIdsAreDistinct'
  BY <1>1, <1>2, GotoPreserves DEF Steps
<1>4. req'[r].batch = req[r].batch /\ req'[r].raws = req[r].raws
  BY <1>1, GotoMoves DEF IInv, Steps
<1>5. [id |-> id, payload |-> p] \in raw
  <2>1. HasStage(r, last, 1)
    BY <1>1, <1>2 DEF IInv, StagesAreDone, InsertsMade
  <2> QED
    BY <1>2, <2>1, Stage
<1> HIDE DEF p, id
<1>6. new.id = <<p, id>> /\ new.raw = id /\ new.payload = p /\ new = NormalizedRow(new.payload, new.raw)
  BY DEF NormalizedRow
<1>7. \A row \in normalized : row.id = new.id => row = new
  <2>1. ASSUME NEW row \in normalized, row.id = new.id
        PROVE  row = new
    <3>1. row = NormalizedRow(row.payload, row.raw)
      BY DEF IInv, RowsAreKeyed
    <3>2. row.id = <<row.payload, row.raw>>
      BY <3>1 DEF NormalizedRow
    <3>3. row.payload = p /\ row.raw = id
      BY <1>6, <2>1, <3>2
    <3> QED
      BY <3>1, <3>3
  <2> QED
    BY <2>1
<1> HIDE DEF new
<1>8. normalized' = normalized \cup {new}
  BY <1>1, <1>7 DEF Put
<1>9. Grow
  BY <1>1, <1>8 DEF Grow
<1>10. TypeOK'
  BY <1>1, <1>2, <1>3, <1>6, <1>8 DEF IInv, TypeOK
<1>11. RawRowsMatch'
  BY <1>1, RawRowsGoOnMatching DEF Steps
<1>12. RowsAreKeyed'
  BY <1>1, <1>6, <1>8 DEF IInv, RowsAreKeyed, NormalizedRow, EventRow, AlertRow
<1>13. EvidenceTracesBack'
  BY <1>1, <1>5, <1>6, <1>8 DEF IInv, EvidenceTracesBack, NormalizedRow
<1>14. StagesAreDone'
  <2>1. HasStage(r, last, 1) /\ HasStage(r, last, 2)'
    <3>1. HasStage(r, last, 1)
      BY <1>1, <1>2 DEF IInv, StagesAreDone, InsertsMade
    <3>2. HasStage(r, last, 2)'
      BY <1>2, <1>4, <1>8, NextStage DEF new
    <3> QED
      BY <3>1, <3>2
  <2>2. InsertsMade("event") = 2
    BY DEF InsertsMade
  <2>3. \A n \in 1 .. 4 : n <= 2 => n = 1 \/ n = 2
    OBVIOUS
  <2> QED
    BY <1>1, <1>3, <1>9, <2>1, <2>2, <2>3, StagesPreserved DEF Steps
<1> QED
  BY <1>3, <1>9, <1>10, <1>11, <1>12, <1>13, <1>14 DEF IInv

\* Storing the event: one of its id may give way, its id stays.
LEMMA InsertEventPreserves ==
  ASSUME IInv, NEW r \in Requests, InsertEvent(r)
  PROVE  IInv' /\ Kept /\ Grow
<1> DEFINE last == Len(req[r].raws)
           p == Payload(r)
           id == RawId(r)
           new == EventRow(p, id)
<1>1. /\ InFlight(r) /\ req[r].at = "event" /\ Goto(r, "alert")
      /\ events' = IF req[r].kind = "AlertOnly" THEN events ELSE Put(events, new)
      /\ UNCHANGED <<raw, normalized, alerts, clock>>
  BY DEF InsertEvent
<1>2. /\ last \in 1 .. last /\ last > 0 /\ req[r] # None
      /\ p = req[r].batch[last] /\ p \in Payloads /\ id = req[r].raws[last] /\ id \in Times
  BY <1>1, PayloadUnderWay
<1>3. /\ req' \in [Requests -> Request \cup {None}] /\ Kept
      /\ RequestsProgress' /\ RawIdsAreDistinct'
  BY <1>1, <1>2, GotoPreserves DEF Steps
<1>4. /\ req'[r].batch = req[r].batch /\ req'[r].raws = req[r].raws
      /\ req'[r].kind = req[r].kind
  BY <1>1, GotoMoves DEF IInv, Steps
<1>5. /\ HasStage(r, last, 1) /\ HasStage(r, last, 2)
      /\ [id |-> id, payload |-> p] \in raw /\ NormalizedRow(p, id) \in normalized
  <2>1. HasStage(r, last, 1) /\ HasStage(r, last, 2)
    BY <1>1, <1>2 DEF IInv, StagesAreDone, InsertsMade
  <2> QED
    BY <1>2, <2>1, Stage
<1> HIDE DEF p, id
<1>6. new.raw = id /\ new.payload = p /\ new = EventRow(new.payload, new.raw)
  BY DEF EventRow
<1> HIDE DEF new
<1>7. /\ \A row \in events' : row \in events \/ row = new
      /\ \A e \in events : \E f \in events' : f.id = e.id
      /\ \A e, f \in events' : f.id = e.id => f = e
      /\ req[r].kind = "AlertOnly" \/ new \in events'
  <2>1. \A e, f \in events : f.id = e.id => f = e
    BY DEF IInv, RowsAreKeyed
  <2> QED
    BY <1>1, <2>1, PutKeepsIds
<1>8. Grow
  BY <1>1, <1>7 DEF Grow
<1>9. TypeOK'
  BY <1>1, <1>2, <1>3, <1>6, <1>7 DEF IInv, TypeOK
<1>10. RawRowsMatch'
  BY <1>1, RawRowsGoOnMatching DEF Steps
<1>11. RowsAreKeyed'
  <2>1. \A row \in events' : row = EventRow(row.payload, row.raw)
    BY <1>6, <1>7 DEF IInv, RowsAreKeyed
  <2> QED
    BY <1>1, <1>7, <2>1 DEF IInv, RowsAreKeyed, NormalizedRow, EventRow, AlertRow
<1>12. EvidenceTracesBack'
  BY <1>1, <1>5, <1>6, <1>7 DEF IInv, EvidenceTracesBack, NormalizedRow
<1>13. StagesAreDone'
  <2>1. HasStage(r, last, 3)'
    <3>1. EventRow(req'[r].batch[last], req'[r].raws[last]) = new
      BY <1>2, <1>4 DEF new
    <3>2. req'[r].kind = "AlertOnly" \/ \E row \in events' : row.id = new.id
      BY <1>4, <1>7
    <3> QED
      BY <1>4, <3>1, <3>2, NextStage
  <2>2. InsertsMade("alert") = 3
    BY DEF InsertsMade
  <2>3. \A n \in 1 .. 4 : n <= 3 => n = 1 \/ n = 2 \/ n = 3
    OBVIOUS
  <2> QED
    BY <1>1, <1>3, <1>5, <1>8, <2>1, <2>2, <2>3, StagesPreserved DEF Steps
<1> QED
  BY <1>3, <1>8, <1>9, <1>10, <1>11, <1>12, <1>13 DEF IInv

\* Storing the alert, likewise; the request ends or goes on with its next payload.
LEMMA InsertAlertPreserves ==
  ASSUME IInv, NEW r \in Requests, InsertAlert(r)
  PROVE  IInv' /\ Kept /\ Grow
<1> DEFINE last == Len(req[r].raws)
           p == Payload(r)
           id == RawId(r)
           new == AlertRow(p, id)
           at == IF last = Len(req[r].batch) THEN "ok" ELSE "begin"
<1>1. /\ InFlight(r) /\ req[r].at = "alert" /\ Goto(r, at)
      /\ alerts' = IF req[r].kind = "EventOnly" THEN alerts ELSE Put(alerts, new)
      /\ UNCHANGED <<raw, normalized, events, clock>>
  BY DEF InsertAlert
<1>2. /\ last \in 1 .. last /\ last > 0 /\ req[r] # None
      /\ p = req[r].batch[last] /\ p \in Payloads /\ id = req[r].raws[last] /\ id \in Times
  BY <1>1, PayloadUnderWay
<1>3. /\ at \in Steps \cup Ends /\ at \in {"ok", "begin"}
      /\ at = "begin" => last < Len(req[r].batch)
      /\ at = "ok" => last = Len(req[r].batch)
  <2>1. last <= Len(req[r].batch) /\ last \in Nat /\ Len(req[r].batch) \in Nat
    BY <1>2, RequestsTyped, RequestFields, EdrAssumption DEF IInv, RequestsProgress
  <2> QED
    BY <2>1 DEF Steps, Ends
<1> HIDE DEF at
<1>4. /\ req' \in [Requests -> Request \cup {None}] /\ Kept
      /\ RequestsProgress' /\ RawIdsAreDistinct'
  BY <1>1, <1>2, <1>3, GotoPreserves
<1>5. /\ req'[r].batch = req[r].batch /\ req'[r].raws = req[r].raws
      /\ req'[r].kind = req[r].kind
  BY <1>1, <1>3, GotoMoves DEF IInv
<1>6. /\ HasStage(r, last, 1) /\ HasStage(r, last, 2) /\ HasStage(r, last, 3)
      /\ [id |-> id, payload |-> p] \in raw
  <2>1. HasStage(r, last, 1) /\ HasStage(r, last, 2) /\ HasStage(r, last, 3)
    BY <1>1, <1>2 DEF IInv, StagesAreDone, InsertsMade
  <2> QED
    BY <1>2, <2>1, Stage
<1> HIDE DEF p, id
<1>7. new.raw = id /\ new.payload = p /\ new = AlertRow(new.payload, new.raw)
  BY DEF AlertRow
<1> HIDE DEF new
<1>8. /\ \A row \in alerts' : row \in alerts \/ row = new
      /\ \A e \in alerts : \E f \in alerts' : f.id = e.id
      /\ \A e, f \in alerts' : f.id = e.id => f = e
      /\ req[r].kind = "EventOnly" \/ new \in alerts'
  <2>1. \A e, f \in alerts : f.id = e.id => f = e
    BY DEF IInv, RowsAreKeyed
  <2> QED
    BY <1>1, <2>1, PutKeepsIds
<1>9. Grow
  BY <1>1, <1>8 DEF Grow
<1>10. TypeOK'
  BY <1>1, <1>2, <1>4, <1>7, <1>8 DEF IInv, TypeOK
<1>11. RawRowsMatch'
  BY <1>1, <1>3, RawRowsGoOnMatching
<1>12. RowsAreKeyed'
  <2>1. \A row \in alerts' : row = AlertRow(row.payload, row.raw)
    BY <1>7, <1>8 DEF IInv, RowsAreKeyed
  <2> QED
    BY <1>1, <1>8, <2>1 DEF IInv, RowsAreKeyed, NormalizedRow, EventRow, AlertRow
<1>13. EvidenceTracesBack'
  BY <1>1, <1>6, <1>7, <1>8 DEF IInv, EvidenceTracesBack, NormalizedRow
<1>14. StagesAreDone'
  <2>1. HasStage(r, last, 4)'
    <3>1. AlertRow(req'[r].batch[last], req'[r].raws[last]) = new
      BY <1>2, <1>5 DEF new
    <3>2. req'[r].kind = "EventOnly" \/ \E row \in alerts' : row.id = new.id
      BY <1>5, <1>8
    <3> QED
      BY <1>5, <3>1, <3>2, NextStage
  <2>2. \A n \in 1 .. 4 : n = 1 \/ n = 2 \/ n = 3 \/ n = 4
    OBVIOUS
  <2> QED
    BY <1>1, <1>3, <1>4, <1>6, <1>9, <2>1, <2>2, StagesPreserved
<1> QED
  BY <1>4, <1>9, <1>10, <1>11, <1>12, <1>13, <1>14 DEF IInv
\* An insert that fails keeps the invariant.
LEMMA InsertFailsPreserves ==
  ASSUME IInv, NEW r \in Requests, InsertFails(r)
  PROVE  IInv' /\ Kept /\ Grow
<1>1. /\ InFlight(r) /\ Goto(r, "error") /\ UNCHANGED <<tables, clock>>
      /\ "error" \in Steps \cup Ends /\ "error" \notin Steps
  BY DEF InsertFails, Steps, Ends
<1>2. UNCHANGED <<raw, normalized, events, alerts, clock>>
  BY <1>1 DEF tables
<1>3. /\ req' \in [Requests -> Request \cup {None}] /\ Kept
      /\ RequestsProgress' /\ RawIdsAreDistinct'
  BY <1>1, <1>2, GotoPreserves DEF Steps
<1>4. Grow
  BY <1>2 DEF Grow
<1>5. TypeOK'
  BY <1>2, <1>3 DEF IInv, TypeOK
<1>6. RawRowsMatch'
  BY <1>1, <1>2, RawRowsGoOnMatching
<1>7. RowsAreKeyed' /\ EvidenceTracesBack'
  BY <1>2 DEF IInv, RowsAreKeyed, EvidenceTracesBack, NormalizedRow, EventRow, AlertRow
<1>8. StagesAreDone'
  <2>1. \A n \in 1 .. 4 : ~(n <= InsertsMade("error"))
    BY DEF InsertsMade
  <2> QED
    BY <1>1, <1>3, <1>4, <2>1, StagesPreserved
<1> QED
  BY <1>3, <1>4, <1>5, <1>6, <1>7, <1>8 DEF IInv

\* The death of the server keeps the invariant: requests under way are lost, the
\* tables stay.
LEMMA CrashPreserves ==
  ASSUME IInv, Crash
  PROVE  IInv' /\ Kept /\ Grow
<1>1. UNCHANGED <<raw, normalized, events, alerts, clock>>
  BY DEF Crash, tables
<1>2. /\ req' \in [Requests -> Request \cup {None}]
      /\ \A s \in Requests :
           /\ req[s] = None <=> req'[s] = None
           /\ req[s] # None =>
                /\ req'[s].batch = req[s].batch /\ req'[s].kind = req[s].kind
                /\ req'[s].raws = req[s].raws
                /\ req'[s].at = req[s].at \/ req'[s].at = "lost"
  <2>1. ASSUME NEW s \in Requests, InFlight(s)
        PROVE  /\ [req[s] EXCEPT !.at = "lost"] \in Request
               /\ [req[s] EXCEPT !.at = "lost"].batch = req[s].batch
               /\ [req[s] EXCEPT !.at = "lost"].kind = req[s].kind
               /\ [req[s] EXCEPT !.at = "lost"].raws = req[s].raws
               /\ [req[s] EXCEPT !.at = "lost"].at = "lost" /\ req[s] # None
    BY <2>1, RequestsTyped DEF IInv, Request, Ends
  <2>2. \A s \in Requests : req'[s] = IF InFlight(s) THEN [req[s] EXCEPT !.at = "lost"] ELSE req[s]
    BY DEF Crash
  <2>3. \A s \in Requests : req'[s] \in Request \cup {None}
    BY <2>1, <2>2 DEF IInv, TypeOK
  <2>4. req' \in [Requests -> Request \cup {None}]
    BY <2>3 DEF Crash
  <2>5. ASSUME NEW s \in Requests
        PROVE  /\ req[s] = None <=> req'[s] = None
               /\ req[s] # None =>
                    /\ req'[s].batch = req[s].batch /\ req'[s].kind = req[s].kind
                    /\ req'[s].raws = req[s].raws
                    /\ req'[s].at = req[s].at \/ req'[s].at = "lost"
    <3>1. CASE InFlight(s)
      <4>1. req'[s] = [req[s] EXCEPT !.at = "lost"]
        BY <2>2, <3>1
      <4> QED
        BY <2>1, <3>1, <4>1, NoneAssumption
    <3>2. CASE ~InFlight(s)
      BY <2>2, <3>2
    <3> QED
      BY <3>1, <3>2
  <2> QED
    BY <2>4, <2>5
<1>3. \A s \in Requests : req[s] # None => Len(req[s].raws) \in Nat
  BY RequestsTyped, RequestFields, EdrAssumption DEF IInv
<1>4. Kept /\ Grow
  BY <1>1, <1>2, <1>3 DEF Kept, Grow
<1>5. TypeOK'
  BY <1>1, <1>2 DEF IInv, TypeOK
<1>6. RequestsProgress'
  <2>1. "lost" \notin Steps /\ "lost" # "ok" /\ "lost" # "begin"
    BY DEF Steps
  <2> QED
    BY <1>2, <2>1 DEF IInv, RequestsProgress
<1>7. RawIdsAreDistinct'
  <2> SUFFICES ASSUME NEW q \in Requests, req'[q] # None, NEW i \in 1 .. Len(req'[q].raws)
               PROVE  /\ req'[q].raws[i] < clock'
                      /\ \A s \in Requests : req'[s] # None => \A j \in 1 .. Len(req'[s].raws) :
                           req'[s].raws[j] = req'[q].raws[i] => s = q /\ j = i
    BY DEF RawIdsAreDistinct
  <2>1. req[q] # None /\ req'[q].raws = req[q].raws /\ i \in 1 .. Len(req[q].raws)
    BY <1>2
  <2>2. /\ req[q].raws[i] < clock
        /\ \A s \in Requests : req[s] # None => \A j \in 1 .. Len(req[s].raws) :
             req[s].raws[j] = req[q].raws[i] => s = q /\ j = i
    BY <2>1 DEF IInv, RawIdsAreDistinct
  <2>3. ASSUME NEW s \in Requests, req'[s] # None, NEW j \in 1 .. Len(req'[s].raws),
               req'[s].raws[j] = req'[q].raws[i]
        PROVE  s = q /\ j = i
    <3>1. req[s] # None /\ req'[s].raws = req[s].raws
      BY <1>2, <2>3
    <3> QED
      BY <2>1, <2>2, <2>3, <3>1
  <2> QED
    BY <1>1, <2>1, <2>2, <2>3
<1>8. RawRowsMatch'
  <2>1. \A s \in Requests : req'[s] # None =>
          req[s] # None /\ req'[s].batch = req[s].batch /\ req'[s].raws = req[s].raws
    BY <1>2
  <2> QED
    BY <1>1, <2>1 DEF IInv, RawRowsMatch
<1>9. RowsAreKeyed' /\ EvidenceTracesBack'
  BY <1>1 DEF IInv, RowsAreKeyed, EvidenceTracesBack, NormalizedRow, EventRow, AlertRow
<1>10. StagesAreDone'
  <2> SUFFICES ASSUME NEW s \in Requests, req'[s] # None, NEW i \in 1 .. Len(req'[s].raws),
                      NEW n \in 1 .. 4, i < Len(req'[s].raws) \/ n <= InsertsMade(req'[s].at)
               PROVE  HasStage(s, i, n)'
    BY DEF StagesAreDone, InsertsMade
  <2>1. ~(n <= InsertsMade("lost"))
    BY DEF InsertsMade
  <2>2. req[s] # None /\ i \in 1 .. Len(req[s].raws)
    BY <1>2
  <2>3. i < Len(req[s].raws) \/ n <= InsertsMade(req[s].at)
    BY <1>2, <2>1, <2>2
  <2>4. HasStage(s, i, n)
    BY <2>2, <2>3 DEF IInv, StagesAreDone
  <2> QED
    BY <1>4, <2>2, <2>4, StagesStay
<1> QED
  BY <1>4, <1>5, <1>6, <1>7, <1>8, <1>9, <1>10 DEF IInv

\* A new request keeps the invariant: it has taken no id yet.
LEMMA ReceivePreserves ==
  ASSUME IInv, NEW r \in Requests, Receive(r)
  PROVE  IInv' /\ Kept /\ Grow
<1>1. UNCHANGED <<raw, normalized, events, alerts, clock>> /\ req[r] = None
  BY DEF Receive, tables
<1>0. PICK n \in 1 .. MaxItems, kind \in Kinds :
        \E batch \in [1 .. n -> Payloads] :
          req' = [req EXCEPT ![r] = [batch |-> batch, kind |-> kind, raws |-> <<>>, at |-> "begin"]]
  BY DEF Receive
<1>2. PICK batch \in [1 .. n -> Payloads] :
        req' = [req EXCEPT ![r] = [batch |-> batch, kind |-> kind, raws |-> <<>>, at |-> "begin"]]
  BY <1>0
<1> DEFINE new == [batch |-> batch, kind |-> kind, raws |-> <<>>, at |-> "begin"]
<1>3. <<>> \in [1 .. 0 -> Times] /\ Len(<<>>) = 0
  BY EmptySeq, LenProperties
<1>4. /\ new \in Request /\ new.raws = <<>> /\ new.at = "begin"
      /\ new.batch = batch /\ new.kind = kind
  <2>1. <<>> \in UNION {[1 .. m -> Times] : m \in 0 .. MaxItems}
    BY <1>3, EdrAssumption
  <2> QED
    BY <2>1 DEF Request, Steps
<1>5. Len(batch) = n /\ n \in Nat /\ n > 0
  BY <1>2, FunctionIsSeq
<1>6. req' = [req EXCEPT ![r] = new]
  BY <1>2
<1> HIDE DEF new
<1>7. /\ req' \in [Requests -> Request \cup {None}] /\ req'[r] = new /\ new # None
      /\ \A s \in Requests \ {r} : req'[s] = req[s]
      /\ \A s \in Requests : req[s] # None => s # r /\ req'[s] = req[s]
  BY <1>1, <1>4, <1>6, NoneAssumption DEF IInv, TypeOK
<1>8. \A s \in Requests : req[s] # None => Len(req[s].raws) \in Nat
  BY RequestsTyped, RequestFields, EdrAssumption DEF IInv
<1>9. Kept /\ Grow
  BY <1>1, <1>7, <1>8 DEF Kept, Grow
<1>10. TypeOK'
  BY <1>1, <1>7 DEF IInv, TypeOK
<1>11. RequestsProgress'
  BY <1>3, <1>4, <1>5, <1>7 DEF IInv, RequestsProgress
<1>12. 1 .. Len(new.raws) = {}
  BY <1>3, <1>4
<1>13. RawIdsAreDistinct' /\ RawRowsMatch'
  <2>1. \A s \in Requests : req'[s] # None => \A i \in 1 .. Len(req'[s].raws) :
          req[s] # None /\ req'[s] = req[s]
    BY <1>7, <1>12
  <2>2. RawIdsAreDistinct'
    <3> SUFFICES ASSUME NEW q \in Requests, req'[q] # None, NEW i \in 1 .. Len(req'[q].raws)
                 PROVE  /\ req'[q].raws[i] < clock'
                        /\ \A s \in Requests : req'[s] # None => \A j \in 1 .. Len(req'[s].raws) :
                             req'[s].raws[j] = req'[q].raws[i] => s = q /\ j = i
      BY DEF RawIdsAreDistinct
    <3>1. req[q] # None /\ req'[q] = req[q]
      BY <2>1
    <3>2. /\ req[q].raws[i] < clock
          /\ \A s \in Requests : req[s] # None => \A j \in 1 .. Len(req[s].raws) :
               req[s].raws[j] = req[q].raws[i] => s = q /\ j = i
      BY <3>1 DEF IInv, RawIdsAreDistinct
    <3> QED
      BY <1>1, <2>1, <3>1, <3>2
  <2>3. RawRowsMatch'
    BY <1>1, <2>1 DEF IInv, RawRowsMatch
  <2> QED
    BY <2>2, <2>3
<1>14. RowsAreKeyed' /\ EvidenceTracesBack'
  BY <1>1 DEF IInv, RowsAreKeyed, EvidenceTracesBack, NormalizedRow, EventRow, AlertRow
<1>15. StagesAreDone'
  <2> SUFFICES ASSUME NEW s \in Requests, req'[s] # None, NEW i \in 1 .. Len(req'[s].raws),
                      NEW m \in 1 .. 4, i < Len(req'[s].raws) \/ m <= InsertsMade(req'[s].at)
               PROVE  HasStage(s, i, m)'
    BY DEF StagesAreDone, InsertsMade
  <2>1. s # r /\ req'[s] = req[s]
    BY <1>7, <1>12
  <2>2. HasStage(s, i, m)
    BY <2>1 DEF IInv, StagesAreDone
  <2> QED
    BY <1>9, <2>1, <2>2, StagesStay
<1> QED
  BY <1>9, <1>10, <1>11, <1>13, <1>14, <1>15 DEF IInv

\* Taking a raw id keeps the invariant: the clock gives one that no request and
\* no row has, and everything before the new payload is stored.
LEMMA TakeRawIdPreserves ==
  ASSUME IInv, NEW r \in Requests, TakeRawId(r)
  PROVE  IInv' /\ Kept /\ Grow
<1> DEFINE old == req[r].raws
           ids == Append(old, clock)
           new == [req[r] EXCEPT !.raws = ids, !.at = "raw"]
<1>1. /\ UNCHANGED <<raw, normalized, events, alerts>> /\ InFlight(r) /\ req[r].at = "begin"
      /\ clock < MaxClock /\ clock' = clock + 1 /\ req[r] # None /\ req[r] \in Request
      /\ req' = [req EXCEPT ![r] = new]
  <2>1. /\ UNCHANGED <<raw, normalized, events, alerts>> /\ InFlight(r) /\ req[r].at = "begin"
        /\ clock < MaxClock /\ clock' = clock + 1
        /\ req' = [req EXCEPT ![r] = new]
    BY DEF TakeRawId, tables
  <2> QED
    BY <2>1, RequestsTyped DEF IInv
<1>2. /\ MaxClock \in Nat /\ clock \in Nat /\ clock' \in Times /\ clock \in Times
  BY <1>1, EdrAssumption DEF IInv, TypeOK, Times
<1>3. /\ old \in Seq(Times) /\ Len(old) \in Nat /\ Len(old) < Len(req[r].batch)
      /\ Len(req[r].batch) <= MaxItems /\ MaxItems \in Nat /\ Len(req[r].batch) \in Nat
  BY <1>1, RequestFields, EdrAssumption DEF IInv, RequestsProgress
<1> HIDE DEF old
<1>4. /\ ids \in Seq(Times) /\ Len(ids) = Len(old) + 1
      /\ \A i \in 1 .. Len(old) : ids[i] = old[i]
      /\ ids[Len(old) + 1] = clock
  BY <1>2, <1>3
<1> HIDE DEF ids
<1>5. /\ new \in Request /\ new.raws = ids /\ new.at = "raw"
      /\ new.batch = req[r].batch /\ new.kind = req[r].kind
  <2>1. ids \in [1 .. Len(ids) -> Times] /\ Len(ids) \in 0 .. MaxItems
    BY <1>3, <1>4, LenProperties
  <2>2. ids \in UNION {[1 .. m -> Times] : m \in 0 .. MaxItems}
    BY <2>1
  <2> QED
    BY <1>1, <2>2 DEF Request, Steps
<1> HIDE DEF new
<1>6. /\ req' \in [Requests -> Request \cup {None}] /\ req'[r] = new /\ new # None
      /\ \A s \in Requests \ {r} : req'[s] = req[s]
  BY <1>1, <1>5, NoneAssumption DEF IInv, TypeOK
<1>7. \A s \in Requests : req[s] # None => Len(req[s].raws) \in Nat
  BY RequestsTyped, RequestFields, EdrAssumption DEF IInv
<1>8. Kept
  <2>1. ASSUME NEW s \in Requests, req[s] # None
        PROVE  /\ req'[s] # None /\ req'[s].batch = req[s].batch /\ req'[s].kind = req[s].kind
               /\ Len(req[s].raws) <= Len(req'[s].raws)
               /\ \A i \in 1 .. Len(req[s].raws) : req'[s].raws[i] = req[s].raws[i]
    <3>1. CASE s = r
      BY <1>3, <1>4, <1>5, <1>6, <3>1 DEF old
    <3>2. CASE s # r
      BY <1>6, <1>7, <2>1, <3>2
    <3> QED
      BY <3>1, <3>2
  <2> QED
    BY <2>1 DEF Kept
<1>9. Grow
  BY <1>1 DEF Grow
<1>10. TypeOK'
  BY <1>1, <1>2, <1>6 DEF IInv, TypeOK
<1>11. RequestsProgress'
  <2>1. Len(ids) > 0 /\ Len(ids) <= Len(req[r].batch)
    BY <1>3, <1>4
  <2> QED
    BY <1>5, <1>6, <2>1 DEF IInv, RequestsProgress
<1>12. \A s \in Requests : req'[s] # None => \A i \in 1 .. Len(req'[s].raws) :
         \/ s = r /\ i = Len(old) + 1 /\ req'[s].raws[i] = clock /\ req'[s].batch = req[s].batch
         \/ /\ req[s] # None /\ i \in 1 .. Len(req[s].raws)
            /\ req'[s].raws[i] = req[s].raws[i] /\ req'[s].batch = req[s].batch
            /\ req[s].raws[i] < clock /\ req[s].raws[i] \in Nat
  <2> SUFFICES ASSUME NEW s \in Requests, req'[s] # None, NEW i \in 1 .. Len(req'[s].raws)
               PROVE  \/ /\ s = r /\ i = Len(old) + 1 /\ req'[s].raws[i] = clock
                         /\ req'[s].batch = req[s].batch
                      \/ /\ req[s] # None /\ i \in 1 .. Len(req[s].raws)
                         /\ req'[s].raws[i] = req[s].raws[i] /\ req'[s].batch = req[s].batch
                         /\ req[s].raws[i] < clock /\ req[s].raws[i] \in Nat
    OBVIOUS
  <2>1. \A q \in Requests : req[q] # None => \A j \in 1 .. Len(req[q].raws) :
          req[q].raws[j] < clock /\ req[q].raws[j] \in Nat
    <3>1. \A q \in Requests : req[q] # None => req[q] \in Request
      BY RequestsTyped DEF IInv
    <3>2. \A q \in Requests : req[q] # None => \A j \in 1 .. Len(req[q].raws) : req[q].raws[j] \in Times
      BY <3>1, RequestFields
    <3>3. Times \subseteq Nat
      BY EdrAssumption DEF Times
    <3> QED
      BY <3>2, <3>3 DEF IInv, RawIdsAreDistinct
  <2>2. CASE s # r
    BY <1>6, <2>1, <2>2
  <2>3. CASE s = r /\ i = Len(old) + 1
    BY <1>4, <1>5, <1>6, <2>3
  <2>4. CASE s = r /\ i # Len(old) + 1
    <3>1. i \in 1 .. Len(old)
      BY <1>3, <1>4, <1>5, <1>6, <2>4
    <3> QED
      BY <1>1, <1>4, <1>5, <1>6, <2>1, <2>4, <3>1 DEF old
  <2> QED
    BY <2>2, <2>3, <2>4
<1>13. RawIdsAreDistinct'
  <2> SUFFICES ASSUME NEW q \in Requests, req'[q] # None, NEW i \in 1 .. Len(req'[q].raws)
               PROVE  /\ req'[q].raws[i] < clock'
                      /\ \A s \in Requests : req'[s] # None => \A j \in 1 .. Len(req'[s].raws) :
                           req'[s].raws[j] = req'[q].raws[i] => s = q /\ j = i
    BY DEF RawIdsAreDistinct
  <2>1. req'[q].raws[i] < clock'
    BY <1>1, <1>2, <1>12
  <2>2. ASSUME NEW s \in Requests, req'[s] # None, NEW j \in 1 .. Len(req'[s].raws),
               req'[s].raws[j] = req'[q].raws[i]
        PROVE  s = q /\ j = i
    <3>1. CASE q = r /\ i = Len(old) + 1 /\ req'[q].raws[i] = clock
      <4>1. req'[s].raws[j] = clock
        BY <2>2, <3>1
      <4>2. ~(req'[s].raws[j] = req[s].raws[j] /\ req[s].raws[j] < clock /\ req[s].raws[j] \in Nat)
        BY <1>2, <4>1
      <4>3. s = r /\ j = Len(old) + 1
        BY <1>12, <2>2, <4>2
      <4> QED
        BY <3>1, <4>3
    <3>2. CASE /\ req[q] # None /\ i \in 1 .. Len(req[q].raws) /\ req'[q].raws[i] = req[q].raws[i]
               /\ req[q].raws[i] < clock /\ req[q].raws[i] \in Nat
      <4>1. req'[s].raws[j] # clock
        <5>1. req'[q].raws[i] # clock
          BY <1>2, <3>2
        <5> QED
          BY <2>2, <5>1
      <4>2. \/ req'[s].raws[j] = clock
            \/ /\ req[s] # None /\ j \in 1 .. Len(req[s].raws)
               /\ req'[s].raws[j] = req[s].raws[j]
        BY <1>12, <2>2
      <4>3. /\ req[s] # None /\ j \in 1 .. Len(req[s].raws)
            /\ req[s].raws[j] = req[q].raws[i]
        BY <2>2, <3>2, <4>1, <4>2
      <4> QED
        BY <3>2, <4>3 DEF IInv, RawIdsAreDistinct
    <3> QED
      BY <1>12, <3>1, <3>2
  <2> QED
    BY <2>1, <2>2
<1>14. RawRowsMatch'
  <2> SUFFICES ASSUME NEW row \in raw
               PROVE  /\ row = [id |-> row.id, payload |-> row.payload] /\ row.id < clock'
                      /\ \A s \in Requests : req'[s] # None => \A i \in 1 .. Len(req'[s].raws) :
                           req'[s].raws[i] = row.id => row.payload = req'[s].batch[i]
    BY <1>1 DEF RawRowsMatch
  <2>1. /\ row = [id |-> row.id, payload |-> row.payload] /\ row.id < clock /\ row.id \in Nat
        /\ \A s \in Requests : req[s] # None => \A i \in 1 .. Len(req[s].raws) :
             req[s].raws[i] = row.id => row.payload = req[s].batch[i]
    <3>1. row.id \in Nat
      BY EdrAssumption DEF IInv, TypeOK, Times
    <3> QED
      BY <3>1 DEF IInv, RawRowsMatch
  <2>2. row.id < clock'
    BY <1>1, <1>2, <2>1
  <2>3. ASSUME NEW s \in Requests, req'[s] # None, NEW i \in 1 .. Len(req'[s].raws),
               req'[s].raws[i] = row.id
        PROVE  row.payload = req'[s].batch[i]
    <3>1. row.id # clock
      BY <1>2, <2>1
    <3>2. /\ req[s] # None /\ i \in 1 .. Len(req[s].raws)
          /\ req'[s].raws[i] = req[s].raws[i] /\ req'[s].batch = req[s].batch
      BY <1>12, <2>3, <3>1
    <3> QED
      BY <2>1, <2>3, <3>2
  <2> QED
    BY <2>1, <2>2, <2>3
<1>15. RowsAreKeyed' /\ EvidenceTracesBack'
  BY <1>1 DEF IInv, RowsAreKeyed, EvidenceTracesBack, NormalizedRow, EventRow, AlertRow
<1>16. StagesAreDone'
  <2> SUFFICES ASSUME NEW s \in Requests, req'[s] # None, NEW i \in 1 .. Len(req'[s].raws),
                      NEW m \in 1 .. 4, i < Len(req'[s].raws) \/ m <= InsertsMade(req'[s].at)
               PROVE  HasStage(s, i, m)'
    BY DEF StagesAreDone, InsertsMade
  <2>1. CASE s # r
    <3>1. req'[s] = req[s]
      BY <1>6, <2>1
    <3>2. HasStage(s, i, m)
      BY <3>1 DEF IInv, StagesAreDone
    <3> QED
      BY <1>8, <1>9, <3>1, <3>2, StagesStay
  <2>2. CASE s = r
    <3>1. ~(m <= InsertsMade("raw")) /\ InsertsMade("begin") = 4
      BY DEF InsertsMade
    <3>2. i \in 1 .. Len(old)
      BY <1>3, <1>4, <1>5, <1>6, <2>2, <3>1
    <3>3. HasStage(r, i, m)
      BY <1>1, <3>1, <3>2 DEF IInv, StagesAreDone, old
    <3> QED
      BY <1>1, <1>8, <1>9, <2>2, <3>2, <3>3, StagesStay DEF old
  <2> QED
    BY <2>1, <2>2
<1> QED
  BY <1>8, <1>9, <1>10, <1>11, <1>13, <1>14, <1>15, <1>16 DEF IInv
\* What the steps have in common.
LEMMA StepPreserves ==
  ASSUME IInv, Next
  PROVE  IInv' /\ Kept /\ Grow
<1>1. CASE Crash
  BY <1>1, CrashPreserves
<1>2. ASSUME NEW r \in Requests, Receive(r) \/ Handle(r) \/ InsertFails(r)
      PROVE  IInv' /\ Kept /\ Grow
  BY <1>2, ReceivePreserves, TakeRawIdPreserves, InsertRawPreserves, InsertNormalizedPreserves,
     InsertEventPreserves, InsertAlertPreserves, InsertFailsPreserves DEF Handle
<1> QED
  BY <1>1, <1>2 DEF Next

-----------------------------------------------------------------------------
(* The theorems.                                                           *)

\* The inductive invariant, for all requests, payloads and bounds.
THEOREM InvariantHolds == Spec => []IInv
<1>1. Init => IInv
  <2> SUFFICES ASSUME Init PROVE IInv
    OBVIOUS
  <2>1. \A r \in Requests : req[r] = None
    BY DEF Init
  <2>2. TypeOK
    BY EdrAssumption DEF Init, TypeOK, Times
  <2> QED
    BY <2>1, <2>2 DEF Init, IInv, RequestsProgress, RawIdsAreDistinct, RawRowsMatch, RowsAreKeyed,
       StagesAreDone, EvidenceTracesBack
<1>2. IInv /\ [Next]_vars => IInv'
  <2> SUFFICES ASSUME IInv, [Next]_vars PROVE IInv'
    OBVIOUS
  <2>1. CASE Next
    BY <2>1, StepPreserves
  <2>2. CASE UNCHANGED vars
    <3>1. UNCHANGED <<raw, normalized, events, alerts, req, clock>>
      BY <2>2 DEF vars, tables
    <3>2. TypeOK' /\ RequestsProgress' /\ RawIdsAreDistinct' /\ RawRowsMatch'
      BY <3>1 DEF IInv, TypeOK, RequestsProgress, RawIdsAreDistinct, RawRowsMatch
    <3>3. RowsAreKeyed' /\ EvidenceTracesBack'
      BY <3>1 DEF IInv, RowsAreKeyed, EvidenceTracesBack, NormalizedRow, EventRow, AlertRow
    <3>4. Kept /\ Grow
      <4>1. \A s \in Requests : req[s] # None => Len(req[s].raws) \in Nat
        BY RequestsTyped, RequestFields, EdrAssumption DEF IInv
      <4> QED
        BY <3>1, <4>1 DEF Kept, Grow
    <3>5. StagesAreDone'
      BY <3>1, <3>4, StagesStay DEF IInv, StagesAreDone, InsertsMade
    <3> QED
      BY <3>2, <3>3, <3>5 DEF IInv
  <2> QED
    BY <2>1, <2>2
<1> QED
  BY <1>1, <1>2, PTL DEF Spec

\* Requests, rows and the clock are of their types.
THEOREM TypeCorrect == Spec => []TypeOK
<1>1. IInv => TypeOK
  BY DEF IInv
<1> QED
  BY <1>1, InvariantHolds, PTL

\* Every derived row leads back to a raw row with the payload it was made from,
\* whatever failed and whenever the server died.
THEOREM EvidenceAlwaysTracesBack == Spec => []EvidenceTracesBack
<1>1. IInv => EvidenceTracesBack
  BY DEF IInv
<1> QED
  BY <1>1, InvariantHolds, PTL

\* 200 means that all of the request is stored, and an error that all but its
\* last payload is.
THEOREM AnsweredAlwaysMeansStored == Spec => []AnsweredMeansStored
<1>1. IInv => AnsweredMeansStored
  <2> SUFFICES ASSUME IInv, NEW r \in Requests, req[r] # None, NEW i \in 1 .. Len(req[r].raws),
                      req[r].at = "ok" \/ i < Len(req[r].raws), NEW n \in 1 .. 4
               PROVE  HasStage(r, i, n)
    BY DEF AnsweredMeansStored, Stored
  <2>1. n <= InsertsMade("ok")
    BY DEF InsertsMade
  <2> QED
    BY <2>1 DEF IInv, StagesAreDone
<1> QED
  BY <1>1, InvariantHolds, PTL

\* However often a payload with ids of its own is sent, one event and one alert
\* come of it.
THEOREM RetriesAlwaysAbsorbed == Spec => []RetriesAreAbsorbed
<1>1. IInv => RetriesAreAbsorbed
  <2> SUFFICES ASSUME IInv PROVE RetriesAreAbsorbed
    OBVIOUS
  <2>1. ASSUME NEW e \in events, NEW f \in events, e.payload = f.payload, EventId[e.payload] # None
        PROVE  e = f
    <3>1. e = EventRow(e.payload, e.raw) /\ f = EventRow(f.payload, f.raw)
      BY DEF IInv, RowsAreKeyed
    <3>2. e.id = <<EventId[e.payload]>> /\ f.id = <<EventId[f.payload]>>
      BY <2>1, <3>1 DEF EventRow
    <3> QED
      BY <2>1, <3>2 DEF IInv, RowsAreKeyed
  <2>2. ASSUME NEW e \in alerts, NEW f \in alerts, e.payload = f.payload, AlertId[e.payload] # None
        PROVE  e = f
    <3>1. e = AlertRow(e.payload, e.raw) /\ f = AlertRow(f.payload, f.raw)
      BY DEF IInv, RowsAreKeyed
    <3>2. e.id = <<AlertId[e.payload]>> /\ f.id = <<AlertId[f.payload]>>
      BY <2>2, <3>1 DEF AlertRow
    <3> QED
      BY <2>2, <3>2 DEF IInv, RowsAreKeyed
  <2> QED
    BY <2>1, <2>2 DEF RetriesAreAbsorbed
<1> QED
  BY <1>1, InvariantHolds, PTL
-----------------------------------------------------------------------------
(* The handlers implement the ledger.                                      *)

\* The stage of a payload is the number of its inserts made without a gap.
LEMMA StageIsPrefix ==
  ASSUME NEW r \in Requests, req[r] # None, NEW i \in DOMAIN req[r].batch
  PROVE  /\ i > Len(req[r].raws) => LedgerStage[r][i] = 0
         /\ ~(i > Len(req[r].raws)) =>
              /\ LedgerStage[r][i] \in 0 .. 4
              /\ \A m \in 1 .. 4 : m <= LedgerStage[r][i] => HasStage(r, i, m)
              /\ \A m \in 1 .. 4 : m = LedgerStage[r][i] + 1 => ~HasStage(r, i, m)
<1> DEFINE Prefix(n) == /\ \A m \in 1 .. n : HasStage(r, i, m)
                        /\ n < 4 => ~HasStage(r, i, n + 1)
<1>1. \E n \in 0 .. 4 : Prefix(n)
  <2>1. CASE ~HasStage(r, i, 1)
    <3>1. Prefix(0)
      BY <2>1
    <3> QED
      BY <3>1
  <2>2. CASE HasStage(r, i, 1) /\ ~HasStage(r, i, 2)
    <3>1. Prefix(1)
      BY <2>2
    <3> QED
      BY <3>1
  <2>3. CASE HasStage(r, i, 1) /\ HasStage(r, i, 2) /\ ~HasStage(r, i, 3)
    <3>1. \A m \in 1 .. 2 : m = 1 \/ m = 2
      OBVIOUS
    <3>2. Prefix(2)
      BY <2>3, <3>1
    <3> QED
      BY <3>2
  <2>4. CASE /\ HasStage(r, i, 1) /\ HasStage(r, i, 2) /\ HasStage(r, i, 3)
             /\ ~HasStage(r, i, 4)
    <3>1. \A m \in 1 .. 3 : m = 1 \/ m = 2 \/ m = 3
      OBVIOUS
    <3>2. Prefix(3)
      BY <2>4, <3>1
    <3> QED
      BY <3>2
  <2>5. CASE HasStage(r, i, 1) /\ HasStage(r, i, 2) /\ HasStage(r, i, 3) /\ HasStage(r, i, 4)
    <3>1. \A m \in 1 .. 4 : m = 1 \/ m = 2 \/ m = 3 \/ m = 4
      OBVIOUS
    <3>2. Prefix(4)
      BY <2>5, <3>1
    <3> QED
      BY <3>2
  <2> QED
    BY <2>1, <2>2, <2>3, <2>4, <2>5
<1>2. LedgerStage[r][i] = IF i > Len(req[r].raws) THEN 0 ELSE CHOOSE n \in 0 .. 4 : Prefix(n)
  BY DEF LedgerStage, StageOf
<1>3. \A n \in 0 .. 4 : Prefix(n) =>
        /\ \A m \in 1 .. 4 : m <= n => HasStage(r, i, m)
        /\ \A m \in 1 .. 4 : m = n + 1 => ~HasStage(r, i, m)
  OBVIOUS
<1> HIDE DEF Prefix
<1>4. (CHOOSE n \in 0 .. 4 : Prefix(n)) \in 0 .. 4 /\ Prefix(CHOOSE n \in 0 .. 4 : Prefix(n))
  BY <1>1
<1> QED
  BY <1>2, <1>3, <1>4

\* The same of the next state.
LEMMA NextStageIsPrefix ==
  ASSUME NEW r \in Requests, req'[r] # None, NEW i \in DOMAIN req'[r].batch
  PROVE  /\ i > Len(req'[r].raws) => LedgerStage'[r][i] = 0
         /\ ~(i > Len(req'[r].raws)) =>
              /\ LedgerStage'[r][i] \in 0 .. 4
              /\ \A m \in 1 .. 4 : m <= LedgerStage'[r][i] => HasStage(r, i, m)'
              /\ \A m \in 1 .. 4 : m = LedgerStage'[r][i] + 1 => ~HasStage(r, i, m)'
<1> DEFINE Prefix(n) == /\ \A m \in 1 .. n : HasStage(r, i, m)'
                        /\ n < 4 => ~HasStage(r, i, n + 1)'
<1>1. \E n \in 0 .. 4 : Prefix(n)
  <2>1. CASE ~HasStage(r, i, 1)'
    <3>1. Prefix(0)
      BY <2>1
    <3> QED
      BY <3>1
  <2>2. CASE HasStage(r, i, 1)' /\ ~HasStage(r, i, 2)'
    <3>1. Prefix(1)
      BY <2>2
    <3> QED
      BY <3>1
  <2>3. CASE HasStage(r, i, 1)' /\ HasStage(r, i, 2)' /\ ~HasStage(r, i, 3)'
    <3>1. \A m \in 1 .. 2 : m = 1 \/ m = 2
      OBVIOUS
    <3>2. Prefix(2)
      BY <2>3, <3>1
    <3> QED
      BY <3>2
  <2>4. CASE /\ HasStage(r, i, 1)' /\ HasStage(r, i, 2)' /\ HasStage(r, i, 3)'
             /\ ~HasStage(r, i, 4)'
    <3>1. \A m \in 1 .. 3 : m = 1 \/ m = 2 \/ m = 3
      OBVIOUS
    <3>2. Prefix(3)
      BY <2>4, <3>1
    <3> QED
      BY <3>2
  <2>5. CASE HasStage(r, i, 1)' /\ HasStage(r, i, 2)' /\ HasStage(r, i, 3)' /\ HasStage(r, i, 4)'
    <3>1. \A m \in 1 .. 4 : m = 1 \/ m = 2 \/ m = 3 \/ m = 4
      OBVIOUS
    <3>2. Prefix(4)
      BY <2>5, <3>1
    <3> QED
      BY <3>2
  <2> QED
    BY <2>1, <2>2, <2>3, <2>4, <2>5
<1>2. LedgerStage'[r][i] = IF i > Len(req'[r].raws) THEN 0 ELSE CHOOSE n \in 0 .. 4 : Prefix(n)
  BY DEF LedgerStage, StageOf
<1>3. \A n \in 0 .. 4 : Prefix(n) =>
        /\ \A m \in 1 .. 4 : m <= n => HasStage(r, i, m)'
        /\ \A m \in 1 .. 4 : m = n + 1 => ~HasStage(r, i, m)'
  OBVIOUS
<1> HIDE DEF Prefix
<1>4. \E k \in 0 .. 4 : Prefix(k) /\ k = (CHOOSE n \in 0 .. 4 : Prefix(n))
  BY <1>1
<1> QED
  BY <1>2, <1>3, <1>4

\* What the ledger has of each request in one state.
LEMMA LedgerView ==
  /\ DOMAIN LedgerStage = Requests /\ DOMAIN LedgerAnswer = Requests
  /\ \A r \in Requests :
       IF req[r] = None THEN LedgerStage[r] = <<>> /\ LedgerAnswer[r] = "unsent"
       ELSE /\ DOMAIN LedgerStage[r] = DOMAIN req[r].batch
            /\ LedgerAnswer[r] = IF req[r].at \in Steps THEN "pending" ELSE req[r].at
BY DEF LedgerStage, LedgerAnswer

\* The same of the next state.
LEMMA NextLedgerView ==
  /\ DOMAIN LedgerStage' = Requests /\ DOMAIN LedgerAnswer' = Requests
  /\ \A r \in Requests :
       IF req'[r] = None THEN LedgerStage'[r] = <<>> /\ LedgerAnswer'[r] = "unsent"
       ELSE /\ DOMAIN LedgerStage'[r] = DOMAIN req'[r].batch
            /\ LedgerAnswer'[r] = IF req'[r].at \in Steps THEN "pending" ELSE req'[r].at
BY DEF LedgerStage, LedgerAnswer, StageOf, HasStage

\* No step takes a stage back.
LEMMA StageMoves ==
  ASSUME IInv, IInv', Kept, Grow, NEW r \in Requests, req[r] # None, NEW i \in DOMAIN req[r].batch
  PROVE  LedgerStage[r][i] \in 0 .. 4 /\ LedgerStage'[r][i] \in LedgerStage[r][i] .. 4
<1>1. /\ req'[r] # None /\ i \in DOMAIN req'[r].batch
      /\ Len(req[r].raws) <= Len(req'[r].raws)
  BY DEF Kept
<1>2. Len(req[r].raws) \in Nat /\ Len(req'[r].raws) \in Nat /\ i \in Nat /\ i > 0
  <2>1. req[r] \in Request /\ req'[r] \in Request
    BY <1>1 DEF IInv, TypeOK
  <2> QED
    BY <2>1, RequestFields, EdrAssumption
<1> DEFINE s == LedgerStage[r][i]
           t == LedgerStage'[r][i]
<1>3. t \in 0 .. 4
  BY <1>1, NextStageIsPrefix
<1>4. CASE i > Len(req[r].raws)
  <2>1. s = 0
    BY <1>4, StageIsPrefix
  <2> QED
    BY <1>3, <2>1
<1>5. CASE ~(i > Len(req[r].raws))
  <2>1. i \in 1 .. Len(req[r].raws) /\ ~(i > Len(req'[r].raws))
    BY <1>1, <1>2, <1>5
  <2>2. s \in 0 .. 4 /\ \A m \in 1 .. 4 : m <= s => HasStage(r, i, m)
    BY <1>5, StageIsPrefix
  <2>3. \A m \in 1 .. 4 : m = t + 1 => ~HasStage(r, i, m)'
    BY <1>1, <2>1, NextStageIsPrefix
  <2> HIDE DEF s, t
  <2>4. CASE t < s
    <3>1. PICK m \in 1 .. 4 : m = t + 1 /\ m <= s
      BY <1>3, <2>2, <2>4
    <3>2. HasStage(r, i, m)'
      BY <2>1, <2>2, <3>1, StagesStay
    <3> QED
      BY <2>3, <3>1, <3>2
  <2>5. CASE ~(t < s)
    <3>1. s \in 0 .. 4 /\ t \in s .. 4
      BY <1>3, <2>2, <2>5
    <3> QED
      BY <3>1 DEF s, t
  <2> QED
    BY <2>4, <2>5
<1> QED
  BY <1>4, <1>5

\* A payload whose inserts are all made is complete for the ledger.
LEMMA CompleteWhenStored ==
  ASSUME IInv', NEW r \in Requests, req'[r] # None, NEW i \in DOMAIN req'[r].batch,
         i \in 1 .. Len(req'[r].raws),
         i < Len(req'[r].raws) \/ req'[r].at = "ok"
  PROVE  LedgerStage'[r][i] = 4
<1> DEFINE t == LedgerStage'[r][i]
<1>1. Len(req'[r].raws) \in Nat /\ ~(i > Len(req'[r].raws))
  <2>1. req'[r] \in Request
    BY DEF IInv, TypeOK
  <2> QED
    BY <2>1, RequestFields, EdrAssumption
<1>2. t \in 0 .. 4 /\ \A m \in 1 .. 4 : m = t + 1 => ~HasStage(r, i, m)'
  BY <1>1, NextStageIsPrefix
<1>3. \A m \in 1 .. 4 : HasStage(r, i, m)'
  <2>1. InsertsMade("ok") = 4
    BY DEF InsertsMade
  <2> QED
    BY <2>1 DEF IInv, StagesAreDone
<1> HIDE DEF t
<1>4. t = 4
  BY <1>2, <1>3
<1> QED
  BY <1>4 DEF t

\* No payload is begun before those ahead of it are complete.
LEMMA StagesInOrder ==
  ASSUME IInv', NEW r \in Requests, req'[r] # None, NEW i \in DOMAIN req'[r].batch,
         LedgerStage'[r][i] > 0, NEW j \in 1 .. i - 1
  PROVE  LedgerStage'[r][j] = 4
<1>1. /\ req'[r] \in Request /\ Len(req'[r].raws) \in Nat
      /\ DOMAIN req'[r].batch = 1 .. Len(req'[r].batch) /\ Len(req'[r].batch) \in Nat
  <2>1. req'[r] \in Request
    BY DEF IInv, TypeOK
  <2> QED
    BY <2>1, RequestFields, EdrAssumption
<1>2. ~(i > Len(req'[r].raws))
  BY NextStageIsPrefix
<1>3. j \in DOMAIN req'[r].batch /\ j \in 1 .. Len(req'[r].raws) /\ j < Len(req'[r].raws)
  BY <1>1, <1>2
<1> QED
  BY <1>3, CompleteWhenStored

\* Every step but the arrival of a request stores, for the ledger.
LEMMA StepStores ==
  ASSUME IInv, IInv', Kept, Grow, \A r \in Requests : req[r] = None => req'[r] = None
  PROVE  Ledger!Store
<1>1. ASSUME NEW d \in Requests
      PROVE  Ledger!MovesOn(LedgerStage[d], LedgerStage'[d])
  <2>1. CASE req[d] = None
    <3>1. LedgerStage[d] = <<>> /\ LedgerStage'[d] = <<>>
      BY <2>1, LedgerView, NextLedgerView
    <3>2. DOMAIN LedgerStage[d] = {}
      BY <3>1
    <3> QED
      BY <3>1, <3>2 DEF Ledger!MovesOn
  <2>2. CASE req[d] # None
    <3>1. /\ req'[d] # None /\ DOMAIN LedgerStage[d] = DOMAIN req[d].batch
          /\ DOMAIN LedgerStage'[d] = DOMAIN req[d].batch
          /\ DOMAIN req'[d].batch = DOMAIN req[d].batch
      BY <2>2, LedgerView, NextLedgerView DEF Kept
    <3>2. ASSUME NEW i \in DOMAIN req[d].batch
          PROVE  /\ LedgerStage'[d][i] \in LedgerStage[d][i] .. 4
                 /\ LedgerStage'[d][i] > 0 => \A j \in 1 .. i - 1 : LedgerStage'[d][j] = 4
      BY <2>2, <3>1, StageMoves, StagesInOrder
    <3> QED
      BY <3>1, <3>2 DEF Ledger!MovesOn, Ledger!Complete
  <2> QED
    BY <2>1, <2>2
<1> QED
  BY <1>1, NextLedgerView DEF Ledger!Store

\* When no row and no raw id of a request is new, no stage of it is.
LEMMA RequestUnchanged ==
  ASSUME IInv, UNCHANGED <<raw, normalized, events, alerts>>, NEW r \in Requests,
         req[r] = None <=> req'[r] = None,
         req[r] # None => /\ req'[r].batch = req[r].batch
                          /\ req'[r].kind = req[r].kind
                          /\ req'[r].raws = req[r].raws
  PROVE  LedgerStage'[r] = LedgerStage[r]
<1>1. ASSUME req[r] # None, NEW i \in DOMAIN req[r].batch
      PROVE  LedgerStage'[r][i] = LedgerStage[r][i]
  <2>1. \A m : HasStage(r, i, m)' <=> HasStage(r, i, m)
    BY <1>1 DEF HasStage, NormalizedRow, EventRow, AlertRow
  <2>2. req'[r] # None /\ i \in DOMAIN req'[r].batch /\ req'[r].raws = req[r].raws
    BY <1>1
  <2> DEFINE s == LedgerStage[r][i]
             t == LedgerStage'[r][i]
  <2>3. CASE i > Len(req[r].raws)
    BY <1>1, <2>2, <2>3, StageIsPrefix, NextStageIsPrefix
  <2>4. CASE ~(i > Len(req[r].raws))
    <3>1. /\ s \in 0 .. 4 /\ \A m \in 1 .. 4 : m <= s => HasStage(r, i, m)
          /\ \A m \in 1 .. 4 : m = s + 1 => ~HasStage(r, i, m)
      BY <1>1, <2>4, StageIsPrefix
    <3>2. /\ t \in 0 .. 4 /\ \A m \in 1 .. 4 : m <= t => HasStage(r, i, m)
          /\ \A m \in 1 .. 4 : m = t + 1 => ~HasStage(r, i, m)
      BY <2>1, <2>2, <2>4, NextStageIsPrefix
    <3> HIDE DEF s, t
    <3>3. ~(s < t)
      <4>1. SUFFICES ASSUME s < t PROVE FALSE
        OBVIOUS
      <4>2. s + 1 \in 1 .. 4 /\ s + 1 <= t
        BY <3>1, <3>2, <4>1
      <4> QED
        BY <3>1, <3>2, <4>2
    <3>4. ~(t < s)
      <4>1. SUFFICES ASSUME t < s PROVE FALSE
        OBVIOUS
      <4>2. t + 1 \in 1 .. 4 /\ t + 1 <= s
        BY <3>1, <3>2, <4>1
      <4> QED
        BY <3>1, <3>2, <4>2
    <3>5. s = t
      BY <3>1, <3>2, <3>3, <3>4
    <3> QED
      BY <3>5 DEF s, t
  <2> QED
    BY <2>3, <2>4
<1>2. ASSUME req[r] # None
      PROVE  /\ LedgerStage[r] = [i \in DOMAIN req[r].batch |-> LedgerStage[r][i]]
             /\ LedgerStage'[r] = [i \in DOMAIN req[r].batch |-> LedgerStage'[r][i]]
  <2>1. LedgerStage[r] = [i \in DOMAIN req[r].batch |-> LedgerStage[r][i]]
    BY <1>2 DEF LedgerStage
  <2>2. LedgerStage'[r] = [i \in DOMAIN req'[r].batch |-> LedgerStage'[r][i]]
    <3>1. req'[r] # None
      BY <1>2
    <3> QED
      BY <3>1 DEF LedgerStage, StageOf
  <2> QED
    BY <1>2, <2>1, <2>2
<1>3. CASE req[r] = None
  BY <1>3, LedgerView, NextLedgerView
<1>4. CASE req[r] # None
  BY <1>1, <1>2, <1>4
<1> QED
  BY <1>3, <1>4

\* When that is so of every request, the ledger's stages are as before.
LEMMA StagesUnchanged ==
  ASSUME IInv, UNCHANGED <<raw, normalized, events, alerts>>,
         \A r \in Requests : /\ req[r] = None <=> req'[r] = None
                             /\ req[r] # None => /\ req'[r].batch = req[r].batch
                                                 /\ req'[r].kind = req[r].kind
                                                 /\ req'[r].raws = req[r].raws
  PROVE  LedgerStage' = LedgerStage
<1>1. \A r \in Requests : LedgerStage'[r] = LedgerStage[r]
  BY RequestUnchanged
<1>2. LedgerStage = [r \in Requests |-> LedgerStage[r]]
  BY DEF LedgerStage
<1>3. LedgerStage' = [r \in Requests |-> LedgerStage'[r]]
  BY DEF LedgerStage, StageOf
<1> QED
  BY <1>1, <1>2, <1>3

\* A request that goes on to another insert is pending before and after.
LEMMA GotoAnswers ==
  ASSUME IInv, NEW r \in Requests, InFlight(r), NEW at \in Steps \cup Ends, Goto(r, at)
  PROVE  /\ LedgerAnswer[r] = "pending"
         /\ LedgerAnswer' = [LedgerAnswer EXCEPT ![r] = IF at \in Steps THEN "pending" ELSE at]
         /\ \A s \in Requests : req[s] = None => req'[s] = None
<1>1. /\ req[r] # None /\ req'[r] # None /\ req'[r].at = at
      /\ \A s \in Requests \ {r} : req'[s] = req[s]
  BY GotoMoves DEF IInv
<1>2. LedgerAnswer[r] = "pending" /\ LedgerAnswer'[r] = IF at \in Steps THEN "pending" ELSE at
  BY <1>1, LedgerView, NextLedgerView DEF InFlight
<1>3. \A s \in Requests \ {r} : LedgerAnswer'[s] = LedgerAnswer[s]
  BY <1>1 DEF LedgerAnswer
<1>4. /\ LedgerAnswer = [s \in Requests |-> LedgerAnswer[s]]
      /\ LedgerAnswer' = [s \in Requests |-> LedgerAnswer'[s]]
  BY DEF LedgerAnswer
<1> QED
  BY <1>1, <1>2, <1>3, <1>4

\* A request that is received arrives in the ledger with nothing stored.
LEMMA ReceiveArrives ==
  ASSUME IInv, IInv', Kept, NEW r \in Requests, Receive(r)
  PROVE  Ledger!Arrive(r)
<1>1. req[r] = None /\ UNCHANGED <<raw, normalized, events, alerts, clock>>
  BY DEF Receive, tables
<1>2. PICK n \in 1 .. MaxItems, kind \in Kinds :
        \E batch \in [1 .. n -> Payloads] :
          req' = [req EXCEPT ![r] = [batch |-> batch, kind |-> kind, raws |-> <<>>, at |-> "begin"]]
  BY DEF Receive
<1>3. PICK batch \in [1 .. n -> Payloads] :
        req' = [req EXCEPT ![r] = [batch |-> batch, kind |-> kind, raws |-> <<>>, at |-> "begin"]]
  BY <1>2
<1>4. /\ req'[r] = [batch |-> batch, kind |-> kind, raws |-> <<>>, at |-> "begin"]
      /\ \A s \in Requests \ {r} : req'[s] = req[s]
  BY <1>3 DEF IInv, TypeOK
<1>5. /\ req'[r].batch = batch /\ req'[r].raws = <<>> /\ req'[r].at = "begin"
      /\ DOMAIN batch = 1 .. n
  BY <1>4
<1>6. req'[r] # None
  <2>1. <<>> \in [1 .. 0 -> Times]
    BY EmptySeq, LenProperties
  <2>2. <<>> \in UNION {[1 .. m -> Times] : m \in 0 .. MaxItems}
    BY <2>1, EdrAssumption
  <2>3. req'[r] \in Request
    BY <1>4, <2>2 DEF Request, Steps
  <2> QED
    BY <2>3, NoneAssumption
<1>7. LedgerStage'[r] = [i \in 1 .. n |-> 0]
  <2>1. LedgerStage'[r] = [i \in 1 .. n |-> LedgerStage'[r][i]]
    <3>1. LedgerStage'[r] = [i \in DOMAIN req'[r].batch |-> LedgerStage'[r][i]]
      BY <1>6 DEF LedgerStage, StageOf
    <3> QED
      BY <1>5, <3>1
  <2>2. ASSUME NEW i \in 1 .. n
        PROVE  LedgerStage'[r][i] = 0
    <3>1. Len(req'[r].raws) = 0
      BY <1>5, EmptySeq
    <3>2. i > Len(req'[r].raws)
      BY <3>1, EdrAssumption
    <3> QED
      BY <1>5, <1>6, <3>2, NextStageIsPrefix
  <2> QED
    BY <2>1, <2>2
<1>8. ASSUME NEW s \in Requests \ {r}
      PROVE  LedgerStage'[s] = LedgerStage[s] /\ LedgerAnswer'[s] = LedgerAnswer[s]
  <2>1. LedgerStage'[s] = LedgerStage[s]
    BY <1>1, <1>4, RequestUnchanged
  <2>2. LedgerAnswer'[s] = LedgerAnswer[s]
    BY <1>4 DEF LedgerAnswer
  <2> QED
    BY <2>1, <2>2
<1>9. LedgerAnswer[r] = "unsent" /\ LedgerAnswer'[r] = "pending"
  BY <1>1, <1>5, <1>6, LedgerView, NextLedgerView DEF Steps
<1>10. /\ LedgerStage = [s \in Requests |-> LedgerStage[s]]
       /\ LedgerAnswer = [s \in Requests |-> LedgerAnswer[s]]
  BY DEF LedgerStage, LedgerAnswer
<1>11. LedgerStage' = [s \in Requests |-> LedgerStage'[s]]
  BY DEF LedgerStage, StageOf
<1>12. LedgerAnswer' = [s \in Requests |-> LedgerAnswer'[s]]
  BY DEF LedgerAnswer
<1>13. LedgerStage' = [LedgerStage EXCEPT ![r] = [i \in 1 .. n |-> 0]]
  BY <1>7, <1>8, <1>10, <1>11
<1>14. LedgerAnswer' = [LedgerAnswer EXCEPT ![r] = "pending"]
  BY <1>8, <1>9, <1>10, <1>12
<1> QED
  BY <1>9, <1>13, <1>14 DEF Ledger!Arrive

\* Reading the clock or inserting stores for the ledger, and answers nobody but a
\* request whose last insert it was, which is stored in full.
LEMMA HandleStores ==
  ASSUME IInv, IInv', Kept, Grow, NEW r \in Requests, Handle(r)
  PROVE  Ledger!Store /\ (UNCHANGED LedgerAnswer \/ Ledger!Acknowledge(r))
<1>1. CASE TakeRawId(r)
  <2>1. /\ InFlight(r) /\ req[r] # None /\ req[r].at = "begin"
        /\ req' = [req EXCEPT ![r].raws = Append(@, clock), ![r].at = "raw"]
    BY <1>1, RequestsTyped DEF TakeRawId, IInv
  <2>2. /\ req'[r].at = "raw" /\ req'[r] # None
        /\ \A s \in Requests \ {r} : req'[s] = req[s]
    <3>1. req[r] \in Request
      BY <2>1 DEF IInv, TypeOK
    <3>2. \A i : \A x \in Request : [x EXCEPT !.raws = i, !.at = "raw"].at = "raw"
      BY DEF Request
    <3>3. req'[r] = [req[r] EXCEPT !.raws = Append(@, clock), !.at = "raw"]
      BY <2>1 DEF IInv, TypeOK
    <3>4. \A s \in Requests \ {r} : req'[s] = req[s]
      BY <2>1 DEF IInv, TypeOK
    <3>5. req'[r] # None
      BY <2>1 DEF Kept
    <3>6. req'[r].at = "raw"
      BY <3>1, <3>2, <3>3
    <3> QED
      BY <3>4, <3>5, <3>6
  <2>3. \A s \in Requests : LedgerAnswer'[s] = LedgerAnswer[s]
    <3>1. LedgerAnswer'[r] = LedgerAnswer[r]
      BY <2>1, <2>2, LedgerView, NextLedgerView DEF Steps
    <3>2. \A s \in Requests \ {r} : LedgerAnswer'[s] = LedgerAnswer[s]
      BY <2>2 DEF LedgerAnswer
    <3> QED
      BY <3>1, <3>2
  <2>4. /\ LedgerAnswer = [s \in Requests |-> LedgerAnswer[s]]
        /\ LedgerAnswer' = [s \in Requests |-> LedgerAnswer'[s]]
    BY DEF LedgerAnswer
  <2>5. \A s \in Requests : req[s] = None => req'[s] = None
    BY <2>1, <2>2
  <2> QED
    BY <2>3, <2>4, <2>5, StepStores
<1>2. CASE InsertRaw(r) \/ InsertNormalized(r) \/ InsertEvent(r)
  <2>1. PICK at \in {"normalized", "event", "alert"} : InFlight(r) /\ Goto(r, at)
    BY <1>2 DEF InsertRaw, InsertNormalized, InsertEvent
  <2>2. at \in Steps
    BY <2>1 DEF Steps
  <2>3. /\ LedgerAnswer[r] = "pending" /\ LedgerAnswer' = [LedgerAnswer EXCEPT ![r] = "pending"]
        /\ \A s \in Requests : req[s] = None => req'[s] = None
    BY <2>1, <2>2, GotoAnswers
  <2>4. LedgerAnswer = [s \in Requests |-> LedgerAnswer[s]]
    BY DEF LedgerAnswer
  <2>5. LedgerAnswer' = LedgerAnswer
    BY <2>3, <2>4
  <2> QED
    BY <2>3, <2>5, StepStores
<1>3. CASE InsertAlert(r)
  <2> DEFINE at == IF Len(req[r].raws) = Len(req[r].batch) THEN "ok" ELSE "begin"
  <2>1. InFlight(r) /\ Goto(r, at) /\ at \in {"ok", "begin"}
    BY <1>3 DEF InsertAlert
  <2> HIDE DEF at
  <2>2. at \in Steps \cup Ends
    BY <2>1 DEF Steps, Ends
  <2>3. /\ LedgerAnswer[r] = "pending"
        /\ LedgerAnswer' = [LedgerAnswer EXCEPT ![r] = IF at \in Steps THEN "pending" ELSE at]
        /\ \A s \in Requests : req[s] = None => req'[s] = None
    BY <2>1, <2>2, GotoAnswers
  <2>4. LedgerAnswer = [s \in Requests |-> LedgerAnswer[s]]
    BY DEF LedgerAnswer
  <2>5. CASE at = "begin"
    <3>1. at \in Steps
      BY <2>5 DEF Steps
    <3>2. LedgerAnswer' = LedgerAnswer
      BY <2>3, <2>4, <3>1
    <3> QED
      BY <2>3, <3>2, StepStores
  <2>6. CASE at = "ok"
    <3>1. at \notin Steps
      BY <2>6 DEF Steps
    <3>2. LedgerAnswer' = [LedgerAnswer EXCEPT ![r] = "ok"]
      BY <2>3, <2>6, <3>1
    <3>3. req'[r].at = "ok" /\ req'[r] # None /\ req'[r] \in Request
      BY <2>1, <2>2, <2>6, GotoMoves DEF IInv
    <3>4. DOMAIN req'[r].batch = 1 .. Len(req'[r].raws)
      BY <3>3, RequestFields DEF IInv, RequestsProgress
    <3>5. DOMAIN LedgerStage'[r] = DOMAIN req'[r].batch
      BY <3>3, NextLedgerView
    <3>6. \A i \in DOMAIN LedgerStage'[r] : LedgerStage'[r][i] = 4
      BY <3>3, <3>4, <3>5, CompleteWhenStored
    <3>7. Ledger!Acknowledge(r)
      BY <2>3, <3>2, <3>6 DEF Ledger!Acknowledge, Ledger!Complete
    <3> QED
      BY <2>3, <3>7, StepStores
  <2> QED
    BY <2>1, <2>5, <2>6
<1> QED
  BY <1>1, <1>2, <1>3 DEF Handle

\* A failed insert refuses the request and stores nothing.
LEMMA FailureRefuses ==
  ASSUME IInv, NEW r \in Requests, InsertFails(r)
  PROVE  UNCHANGED LedgerStage /\ Ledger!Refuse(r)
<1>1. /\ InFlight(r) /\ Goto(r, "error") /\ UNCHANGED <<raw, normalized, events, alerts>>
      /\ "error" \in Steps \cup Ends /\ "error" \notin Steps
  BY DEF InsertFails, tables, Ends, Steps
<1>2. LedgerAnswer[r] = "pending" /\ LedgerAnswer' = [LedgerAnswer EXCEPT ![r] = "error"]
  BY <1>1, GotoAnswers
<1>3. /\ req[r] # None /\ req'[r] # None
      /\ req'[r].batch = req[r].batch /\ req'[r].kind = req[r].kind /\ req'[r].raws = req[r].raws
      /\ \A s \in Requests \ {r} : req'[s] = req[s]
  BY <1>1, GotoMoves DEF IInv
<1>4. UNCHANGED LedgerStage
  BY <1>1, <1>3, StagesUnchanged
<1> QED
  BY <1>2, <1>4 DEF Ledger!Refuse

\* When the server dies, what was pending is lost, and the tables stay.
LEMMA CrashLoses ==
  ASSUME IInv, IInv', Crash
  PROVE  UNCHANGED LedgerStage /\ Ledger!LoseAll
<1>1. /\ UNCHANGED <<raw, normalized, events, alerts>>
      /\ req' = [r \in Requests |-> IF InFlight(r) THEN [req[r] EXCEPT !.at = "lost"] ELSE req[r]]
  BY DEF Crash, tables
<1>2. ASSUME NEW r \in Requests
      PROVE  /\ req[r] = None <=> req'[r] = None
             /\ req[r] # None => /\ req'[r].batch = req[r].batch
                                 /\ req'[r].kind = req[r].kind
                                 /\ req'[r].raws = req[r].raws
             /\ LedgerAnswer'[r] = IF LedgerAnswer[r] = "pending" THEN "lost" ELSE LedgerAnswer[r]
  <2>1. CASE InFlight(r)
    <3>1. /\ req[r] # None /\ req[r] \in Request /\ req[r].at \in Steps
          /\ req'[r] = [req[r] EXCEPT !.at = "lost"]
      BY <1>1, <2>1, RequestsTyped DEF IInv, InFlight
    <3>2. /\ req'[r] \in Request /\ req'[r].at = "lost" /\ req'[r].batch = req[r].batch
          /\ req'[r].kind = req[r].kind /\ req'[r].raws = req[r].raws
      BY <3>1 DEF Request, Ends
    <3>3. req'[r] # None /\ "lost" \notin Steps
      BY <3>2, NoneAssumption DEF Steps
    <3> QED
      BY <3>1, <3>2, <3>3, LedgerView, NextLedgerView
  <2>2. CASE ~InFlight(r)
    <3>1. req'[r] = req[r]
      BY <1>1, <2>2
    <3>2. LedgerAnswer'[r] = LedgerAnswer[r]
      BY <3>1 DEF LedgerAnswer
    <3>3. LedgerAnswer[r] # "pending"
      <4>1. CASE req[r] = None
        BY <4>1, LedgerView
      <4>2. CASE req[r] # None
        <5>1. req[r].at \in Ends /\ req[r].at \notin Steps
          BY <2>2, <4>2 DEF InFlight, IInv, TypeOK, Request
        <5> QED
          BY <4>2, <5>1, LedgerView DEF Ends
      <4> QED
        BY <4>1, <4>2
    <3> QED
      BY <3>1, <3>2, <3>3
  <2> QED
    BY <2>1, <2>2
<1>3. UNCHANGED LedgerStage
  BY <1>1, <1>2, StagesUnchanged
<1>4. LedgerAnswer' = [s \in Requests |-> LedgerAnswer'[s]]
  BY DEF LedgerAnswer
<1>5. Ledger!LoseAll
  BY <1>2, <1>4 DEF Ledger!LoseAll
<1> QED
  BY <1>3, <1>5

\* The tables and the handlers implement the ledger: the server starts with an
\* empty ledger, and each of its steps is a step of the ledger or none.
THEOREM HandlersImplementLedger == Spec => ImplementsLedger
<1>1. Init => Ledger!LedgerInit
  <2> SUFFICES ASSUME Init PROVE Ledger!LedgerInit
    OBVIOUS
  <2>1. \A r \in Requests : req[r] = None
    BY DEF Init
  <2> QED
    BY <2>1 DEF Ledger!LedgerInit, LedgerStage, LedgerAnswer
<1>2. IInv /\ IInv' /\ [Next]_vars => [Ledger!LedgerNext]_(Ledger!ledgerVars)
  <2> SUFFICES ASSUME IInv, IInv', [Next]_vars
               PROVE  Ledger!LedgerNext \/ UNCHANGED <<LedgerStage, LedgerAnswer>>
    BY DEF Ledger!ledgerVars
  <2>1. CASE Crash
    BY <2>1, CrashLoses DEF Ledger!LedgerNext
  <2>2. ASSUME NEW r \in Requests, Receive(r)
        PROVE  Ledger!LedgerNext
    BY <2>2, StepPreserves, ReceiveArrives DEF Ledger!LedgerNext, Next
  <2>3. ASSUME NEW r \in Requests, Handle(r)
        PROVE  Ledger!LedgerNext
    BY <2>3, StepPreserves, HandleStores DEF Ledger!LedgerNext, Next
  <2>4. ASSUME NEW r \in Requests, InsertFails(r)
        PROVE  Ledger!LedgerNext
    BY <2>4, FailureRefuses DEF Ledger!LedgerNext
  <2>5. CASE UNCHANGED vars
    <3>1. UNCHANGED <<raw, normalized, events, alerts, req>>
      BY <2>5 DEF vars, tables
    <3>2. UNCHANGED LedgerStage
      BY <3>1, StagesUnchanged
    <3>3. UNCHANGED LedgerAnswer
      BY <3>1 DEF LedgerAnswer
    <3> QED
      BY <3>2, <3>3
  <2> QED
    BY <2>1, <2>2, <2>3, <2>4, <2>5 DEF Next
<1> QED
  BY <1>1, <1>2, InvariantHolds, PTL DEF Spec, ImplementsLedger, Ledger!LedgerSpec
=============================================================================
