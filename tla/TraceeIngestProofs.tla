------------------------- MODULE TraceeIngestProofs -------------------------
(***************************************************************************)
(* For any events, ingests, captures and bounds: an event with a time of   *)
(* its own has one row, a finished ingest has stored what it read, and no  *)
(* ingest takes away the row of an event of the file.                      *)
(***************************************************************************)
EXTENDS TraceeIngest, SequenceTheorems, TLAPS

IngestRecord == [at : {"reading", "ok", "bad line", "error"}, batch : Seq(Row)]

IngestsTyped == ingest \in [Ingests -> IngestRecord \cup {None}]

\* A whole line of the file is captured, and no other line has its event.
LinesAreUnique ==
  \A n \in 1 .. Len(file) : file[n] # Torn =>
    /\ file[n] \in captured
    /\ \A m \in 1 .. Len(file) : file[m] = file[n] => m = n

\* What an ingest has read so far are the first lines of the file, in order, and
\* each row names its line and the time of its event.
BatchesAreRead ==
  \A i \in Ingests : Reading(i) =>
    /\ Len(ingest[i].batch) <= Len(file)
    /\ \A n \in 1 .. Len(ingest[i].batch) :
         /\ ingest[i].batch[n].event = file[n]
         /\ ingest[i].batch[n].id[2] = n
         /\ Stamp[file[n]] # None => ingest[i].batch[n].id[1] = Stamp[file[n]]

\* The row of a captured event has its time, and the line on which the file has
\* the event if it does.
RowsAreRead ==
  \A row \in raw :
    /\ row.event \in captured
    /\ Stamp[row.event] # None => row.id[1] = Stamp[row.event]
    /\ \A n \in 1 .. Len(file) : file[n] = row.event => row.id[2] = n

IInv ==
  /\ TypeOK /\ IngestsTyped /\ LinesAreUnique /\ BatchesAreRead /\ RowsAreRead /\ StoredOnce
-----------------------------------------------------------------------------
(* Rows and batches.                                                       *)

\* A row is its event and the two parts of its id.
LEMMA RowEquality ==
  \A r, s \in Row : (r.event = s.event /\ r.id[1] = s.id[1] /\ r.id[2] = s.id[2]) => r = s
<1> DEFINE Ids == ({Stamp[e] : e \in Events} \cup (0 .. MaxNow)) \X (1 .. MaxLines)
<1>1. \A a, b \in Ids : (a[1] = b[1] /\ a[2] = b[2]) => a = b
  OBVIOUS
<1> HIDE DEF Ids
<1>2. Row = [id : Ids, event : Events]
  BY DEF Row, Ids
<1> QED
  BY <1>1, <1>2

\* What a running ingest has read, in the terms of the file.
LEMMA BatchOfReader ==
  ASSUME IInv, NEW i \in Ingests, Reading(i)
  PROVE  /\ ingest[i] \in IngestRecord /\ ingest[i].batch \in Seq(Row)
         /\ DOMAIN ingest[i].batch = 1 .. Len(ingest[i].batch)
         /\ Len(ingest[i].batch) \in Nat /\ Len(ingest[i].batch) <= Len(file)
         /\ \A n \in 1 .. Len(ingest[i].batch) :
              /\ ingest[i].batch[n] \in Row /\ ingest[i].batch[n].event = file[n]
              /\ ingest[i].batch[n].id[2] = n /\ file[n] \in captured
              /\ Stamp[file[n]] # None => ingest[i].batch[n].id[1] = Stamp[file[n]]
<1>1. ingest[i] \in IngestRecord
  BY DEF Reading, IInv, IngestsTyped
<1>2. ingest[i].batch \in Seq(Row)
  BY <1>1 DEF IngestRecord
<1>3. /\ Len(ingest[i].batch) \in Nat /\ DOMAIN ingest[i].batch = 1 .. Len(ingest[i].batch)
      /\ \A n \in 1 .. Len(ingest[i].batch) : ingest[i].batch[n] \in Row
  BY <1>2, LenProperties, ElementOfSeq
<1>4. /\ Len(ingest[i].batch) <= Len(file) /\ Len(file) \in Nat
      /\ \A n \in 1 .. Len(ingest[i].batch) :
           /\ ingest[i].batch[n].event = file[n] /\ ingest[i].batch[n].id[2] = n
           /\ Stamp[file[n]] # None => ingest[i].batch[n].id[1] = Stamp[file[n]]
  BY LenProperties DEF IInv, BatchesAreRead, TypeOK
<1>5. ASSUME NEW n \in 1 .. Len(ingest[i].batch)
      PROVE  file[n] \in captured
  <2>1. file[n] \in Events /\ n \in 1 .. Len(file)
    BY <1>3, <1>4 DEF Row
  <2> QED
    BY <2>1, TraceeAssumption DEF IInv, LinesAreUnique
<1> QED
  BY <1>1, <1>2, <1>3, <1>4, <1>5

\* An insert stores each row of its batch, takes its rows from nowhere else, and
\* replaces only rows that have the id of one of them.
LEMMA InsertStores ==
  ASSUME IInv, NEW i \in Ingests, Insert(i)
  PROVE  /\ \A n \in 1 .. Len(ingest[i].batch) : ingest[i].batch[n] \in raw'
         /\ \A row \in raw' : row \in raw \/ \E n \in 1 .. Len(ingest[i].batch) : row = ingest[i].batch[n]
         /\ \A row \in raw : row \in raw' \/
              \E n \in 1 .. Len(ingest[i].batch) : ingest[i].batch[n].id = row.id
<1> DEFINE batch == ingest[i].batch
<1>1. /\ DOMAIN batch = 1 .. Len(batch) /\ Len(batch) \in Nat
      /\ \A n \in 1 .. Len(batch) : batch[n].id[2] = n
  BY BatchOfReader DEF Insert
<1>2. raw' = {row \in raw : \A n \in DOMAIN batch : batch[n].id # row.id} \cup
             {batch[n] : n \in {m \in DOMAIN batch :
                                  \A k \in m + 1 .. Len(batch) : batch[k].id # batch[m].id}}
  BY DEF Insert
<1> HIDE DEF batch
<1>3. \A m \in 1 .. Len(batch) : \A k \in m + 1 .. Len(batch) : batch[k].id # batch[m].id
  BY <1>1
<1>4. {m \in DOMAIN batch : \A k \in m + 1 .. Len(batch) : batch[k].id # batch[m].id} = 1 .. Len(batch)
  BY <1>1, <1>3
<1>5. raw' = {row \in raw : \A n \in 1 .. Len(batch) : batch[n].id # row.id} \cup
             {batch[n] : n \in 1 .. Len(batch)}
  BY <1>1, <1>2, <1>4
<1> QED
  BY <1>5 DEF batch

-----------------------------------------------------------------------------
(* Each step keeps the invariant.                                          *)

\* A new line of the file keeps the invariant: it is cut off, or its event is
\* new to the file and to the table.
LEMMA FileGrowsPreserves ==
  ASSUME IInv, NEW x \in Events \cup {Torn}, Len(file) < MaxLines, file' = Append(file, x),
         x # Torn => x \notin captured, captured' = captured \cup ({x} \ {Torn}),
         captures' \in 0 .. MaxCaptures, writing' \in BOOLEAN, UNCHANGED <<ingest, raw, now>>
  PROVE  IInv'
<1>1. /\ file \in Seq(Events \cup {Torn}) /\ Len(file) \in Nat /\ MaxLines \in Nat
      /\ captured \subseteq Events
  BY TraceeAssumption, LenProperties DEF IInv, TypeOK
<1>2. /\ file' \in Seq(Events \cup {Torn}) /\ Len(file') = Len(file) + 1
      /\ \A n \in 1 .. Len(file) : file'[n] = file[n]
      /\ file'[Len(file) + 1] = x
  BY <1>1
<1>3. TypeOK' /\ IngestsTyped' /\ StoredOnce'
  <2>1. captured' \subseteq Events
    BY <1>1
  <2>2. Len(file') <= MaxLines
    BY <1>1, <1>2
  <2>3. TypeOK'
    BY <1>2, <2>1, <2>2 DEF IInv, TypeOK
  <2> QED
    BY <2>3 DEF IInv, IngestsTyped, StoredOnce
<1>4. LinesAreUnique'
  <2> SUFFICES ASSUME NEW n \in 1 .. Len(file'), file'[n] # Torn
               PROVE  /\ file'[n] \in captured'
                      /\ \A m \in 1 .. Len(file') : file'[m] = file'[n] => m = n
    BY DEF LinesAreUnique
  <2>1. \A m \in 1 .. Len(file) : file[m] # Torn => file[m] \in captured
    BY DEF IInv, LinesAreUnique
  <2>2. CASE n = Len(file) + 1
    <3>1. file'[n] = x /\ x \in captured' /\ x \notin captured /\ x # Torn
      BY <1>2, <2>2
    <3>2. \A m \in 1 .. Len(file) : file'[m] # x
      BY <1>2, <2>1, <3>1
    <3> QED
      BY <1>1, <1>2, <2>2, <3>1, <3>2
  <2>3. CASE n \in 1 .. Len(file)
    <3>1. file'[n] = file[n] /\ file[n] \in captured
      BY <1>2, <2>1, <2>3
    <3>2. \A m \in 1 .. Len(file) : file[m] = file[n] => m = n
      BY <2>3, <3>1, <1>2 DEF IInv, LinesAreUnique
    <3>3. x # file[n]
      BY <3>1, <1>1, TraceeAssumption
    <3> QED
      BY <1>1, <1>2, <3>1, <3>2, <3>3
  <2> QED
    BY <1>1, <1>2, <2>2, <2>3
<1>5. BatchesAreRead'
  <2> SUFFICES ASSUME NEW i \in Ingests, Reading(i)
               PROVE  /\ Len(ingest[i].batch) <= Len(file')
                      /\ \A n \in 1 .. Len(ingest[i].batch) :
                           /\ ingest[i].batch[n].event = file'[n]
                           /\ ingest[i].batch[n].id[2] = n
                           /\ Stamp[file'[n]] # None => ingest[i].batch[n].id[1] = Stamp[file'[n]]
    BY DEF BatchesAreRead, Reading
  <2>1. \A n \in 1 .. Len(ingest[i].batch) : file'[n] = file[n]
    BY <1>1, <1>2, BatchOfReader
  <2> QED
    BY <1>1, <1>2, <2>1, BatchOfReader
<1>6. RowsAreRead'
  <2> SUFFICES ASSUME NEW row \in raw
               PROVE  /\ row.event \in captured'
                      /\ Stamp[row.event] # None => row.id[1] = Stamp[row.event]
                      /\ \A n \in 1 .. Len(file') : file'[n] = row.event => row.id[2] = n
    BY DEF RowsAreRead
  <2>1. /\ row.event \in captured
        /\ Stamp[row.event] # None => row.id[1] = Stamp[row.event]
        /\ \A n \in 1 .. Len(file) : file[n] = row.event => row.id[2] = n
    BY DEF IInv, RowsAreRead
  <2>2. x # row.event
    BY <1>1, <2>1, TraceeAssumption
  <2>3. ASSUME NEW n \in 1 .. Len(file'), file'[n] = row.event
        PROVE  row.id[2] = n
    <3>1. n \in 1 .. Len(file)
      BY <1>1, <1>2, <2>2, <2>3
    <3> QED
      BY <1>2, <2>1, <2>3, <3>1
  <2> QED
    BY <2>1, <2>3
<1> QED
  BY <1>3, <1>4, <1>5, <1>6 DEF IInv

\* A new capture keeps the invariant: nobody reads the file it empties.
LEMMA StartCapturePreserves ==
  ASSUME IInv, StartCapture
  PROVE  IInv'
<1>1. file' = <<>> /\ Len(file') = 0 /\ 1 .. Len(file') = {} /\ \A i \in Ingests : ~Reading(i)
  BY DEF StartCapture
<1>2. TypeOK'
  <2>1. MaxCaptures \in Nat /\ MaxLines \in Nat
    BY TraceeAssumption
  <2>2. file' \in Seq(Events \cup {Torn}) /\ Len(file') <= MaxLines
    BY <1>1, <2>1, EmptySeq
  <2>3. captures \in 0 .. MaxCaptures /\ captures < MaxCaptures
    BY DEF IInv, TypeOK, StartCapture
  <2>4. captures + 1 \in 0 .. MaxCaptures
    BY <2>1, <2>3
  <2> QED
    BY <2>2, <2>4 DEF IInv, TypeOK, StartCapture
<1> QED
  BY <1>1, <1>2 DEF IInv, IngestsTyped, LinesAreUnique, BatchesAreRead, RowsAreRead, StoredOnce,
     StartCapture, Reading

\* The end of a capture keeps the invariant.
LEMMA EndCapturePreserves ==
  ASSUME IInv, EndCapture
  PROVE  IInv'
<1>1. CASE file' = file
  <2>1. UNCHANGED <<file, captured, captures, ingest, raw, now>> /\ writing' \in BOOLEAN
    BY <1>1 DEF EndCapture
  <2>2. TypeOK' /\ IngestsTyped'
    BY <1>1, <2>1 DEF IInv, TypeOK, IngestsTyped
  <2>3. LinesAreUnique' /\ RowsAreRead' /\ StoredOnce'
    BY <1>1, <2>1 DEF IInv, LinesAreUnique, RowsAreRead, StoredOnce
  <2>4. BatchesAreRead'
    BY <1>1, <2>1 DEF IInv, BatchesAreRead, Reading
  <2> QED
    BY <2>2, <2>3, <2>4 DEF IInv
<1>2. CASE file' = Append(file, Torn) /\ Len(file) < MaxLines
  <2>1. captured = captured \cup ({Torn} \ {Torn})
    OBVIOUS
  <2> QED
    BY <1>2, <2>1, FileGrowsPreserves DEF EndCapture, IInv, TypeOK
<1> QED
  BY <1>1, <1>2 DEF EndCapture

\* A whole line keeps the invariant.
LEMMA WriteLinePreserves ==
  ASSUME IInv, NEW e \in Events, WriteLine(e)
  PROVE  IInv'
<1>1. {e} \ {Torn} = {e}
  BY TraceeAssumption
<1> QED
  BY <1>1, FileGrowsPreserves DEF WriteLine, IInv, TypeOK
\* The records the actions of an ingest assign are of their type.
LEMMA IngestSet ==
  ASSUME IInv, NEW i \in Ingests, NEW r \in IngestRecord, ingest' = [ingest EXCEPT ![i] = r]
  PROVE  IngestsTyped' /\ ingest'[i] = r /\ \A x \in Ingests \ {i} : ingest'[x] = ingest[x]
BY DEF IInv, IngestsTyped

\* An ingest that starts, goes on or ends without storing keeps the invariant if
\* what it has read are first lines of the file.
LEMMA IngestStepPreserves ==
  ASSUME IInv, NEW i \in Ingests, NEW r \in IngestRecord, ingest' = [ingest EXCEPT ![i] = r],
         UNCHANGED <<file, captured, captures, writing, raw, now>>,
         r.at = "reading" =>
           /\ Len(r.batch) <= Len(file)
           /\ \A n \in 1 .. Len(r.batch) :
                /\ r.batch[n].event = file[n] /\ r.batch[n].id[2] = n
                /\ Stamp[file[n]] # None => r.batch[n].id[1] = Stamp[file[n]]
  PROVE  IInv'
<1>1. IngestsTyped' /\ ingest'[i] = r /\ \A x \in Ingests \ {i} : ingest'[x] = ingest[x]
  BY IngestSet
<1>2. TypeOK'
  BY <1>1 DEF IInv, TypeOK, IngestRecord
<1>3. BatchesAreRead'
  BY <1>1 DEF IInv, BatchesAreRead, Reading
<1> QED
  BY <1>1, <1>2, <1>3 DEF IInv, LinesAreUnique, RowsAreRead, StoredOnce

\* Opening the file keeps the invariant, and so does an ingest that fails.
LEMMA OpenAndFailPreserve ==
  ASSUME IInv, NEW i \in Ingests, OpenReader(i) \/ IngestFails(i)
  PROVE  IInv'
<1>1. <<>> \in Seq(Row) /\ Len(<<>>) = 0 /\ Len(file) \in Nat
  BY EmptySeq, LenProperties DEF IInv, TypeOK
<1>2. ASSUME NEW at \in {"reading", "error"}, ingest' = [ingest EXCEPT ![i] = [at |-> at, batch |-> <<>>]]
      PROVE  IInv'
  <2> DEFINE r == [at |-> at, batch |-> <<>>]
  <2>1. r \in IngestRecord /\ r.batch = <<>>
    BY <1>1 DEF IngestRecord
  <2>2. Len(r.batch) <= Len(file) /\ 1 .. Len(r.batch) = {}
    BY <1>1, <2>1
  <2>3. ingest' = [ingest EXCEPT ![i] = r]
    BY <1>2
  <2> HIDE DEF r
  <2> QED
    BY <2>1, <2>2, <2>3, IngestStepPreserves DEF OpenReader, IngestFails
<1> QED
  BY <1>2 DEF OpenReader, IngestFails

\* The row of an event of the file is one of raw_events, for the line it is on.
LEMMA RowOfLine ==
  ASSUME IInv, NEW n \in 1 .. Len(file), file[n] # Torn
  PROVE  /\ RowOf(file[n], n) \in Row
         /\ RowOf(file[n], n).event = file[n] /\ RowOf(file[n], n).id[2] = n
         /\ Stamp[file[n]] # None => RowOf(file[n], n).id[1] = Stamp[file[n]]
<1> DEFINE time == IF Stamp[file[n]] = None THEN now ELSE Stamp[file[n]]
<1>1. MaxLines \in Nat /\ Len(file) \in Nat /\ Len(file) <= MaxLines
  BY TraceeAssumption, LenProperties DEF IInv, TypeOK
<1>2. n \in 1 .. MaxLines
  BY <1>1
<1>3. file[n] \in Events
  <2>1. file \in Seq(Events \cup {Torn})
    BY DEF IInv, TypeOK
  <2>2. file[n] \in Events \cup {Torn}
    BY <2>1, ElementOfSeq
  <2> QED
    BY <2>2
<1>4. time \in {Stamp[e] : e \in Events} \cup (0 .. MaxNow)
  BY <1>3 DEF IInv, TypeOK
<1>5. RowOf(file[n], n) = [id |-> <<time, n>>, event |-> file[n]]
  BY DEF RowOf
<1>6. Stamp[file[n]] # None => time = Stamp[file[n]]
  OBVIOUS
<1> HIDE DEF time
<1> QED
  BY <1>2, <1>3, <1>4, <1>5, <1>6 DEF Row

\* Reading a line keeps the invariant.
LEMMA ReadLinePreserves ==
  ASSUME IInv, NEW i \in Ingests, ReadLine(i)
  PROVE  IInv'
<1> DEFINE batch == ingest[i].batch
           n == LineNo(i)
<1>1. /\ ingest[i] \in IngestRecord /\ ingest[i].at = "reading" /\ batch \in Seq(Row)
      /\ Len(batch) \in Nat /\ n = Len(batch) + 1 /\ n \in 1 .. Len(file)
      /\ UNCHANGED <<file, captured, captures, writing, raw, now>>
  <2>1. /\ Reading(i) /\ n <= Len(file) /\ ingest[i].at = "reading"
        /\ UNCHANGED <<file, captured, captures, writing, raw, now>>
    BY DEF ReadLine, Reading
  <2>2. n = Len(batch) + 1
    BY DEF LineNo
  <2>3. Len(file) \in Nat
    BY LenProperties DEF IInv, TypeOK
  <2>4. ingest[i] \in IngestRecord /\ batch \in Seq(Row) /\ Len(batch) \in Nat
    BY <2>1, BatchOfReader
  <2> HIDE DEF n, batch
  <2> QED
    BY <2>1, <2>2, <2>3, <2>4
<1>2. CASE file[n] = Torn
  <2> DEFINE r == [at |-> "bad line", batch |-> <<>>]
  <2>1. r \in IngestRecord /\ r.at = "bad line"
    BY EmptySeq DEF IngestRecord
  <2>2. ingest' = [ingest EXCEPT ![i] = r]
    BY <1>2 DEF ReadLine
  <2> HIDE DEF r
  <2> QED
    BY <1>1, <2>1, <2>2, IngestStepPreserves
<1>3. CASE file[n] # Torn
  <2> DEFINE row == RowOf(file[n], n)
             r == [at |-> "reading", batch |-> Append(batch, row)]
  <2>1. /\ row \in Row /\ row.event = file[n] /\ row.id[2] = n
        /\ Stamp[file[n]] # None => row.id[1] = Stamp[file[n]]
    BY <1>1, <1>3, RowOfLine
  <2>2. ingest' = [ingest EXCEPT ![i] = r]
    BY <1>3 DEF ReadLine
  <2> HIDE DEF row, n
  <2>3. Append(batch, row) \in Seq(Row)
    BY <1>1, <2>1
  <2>4. r \in IngestRecord /\ r.batch = Append(batch, row)
    BY <1>1, <2>3 DEF IngestRecord
  <2> HIDE DEF r
  <2>5. /\ Len(r.batch) = n
        /\ \A m \in 1 .. Len(batch) : r.batch[m] = batch[m]
        /\ r.batch[n] = row
    BY <1>1, <2>1, <2>4
  <2>6. \A m \in 1 .. Len(batch) :
          /\ batch[m].event = file[m] /\ batch[m].id[2] = m
          /\ Stamp[file[m]] # None => batch[m].id[1] = Stamp[file[m]]
    BY BatchOfReader DEF ReadLine
  <2> HIDE DEF batch
  <2>7. \A m \in 1 .. Len(r.batch) :
          /\ r.batch[m].event = file[m] /\ r.batch[m].id[2] = m
          /\ Stamp[file[m]] # None => r.batch[m].id[1] = Stamp[file[m]]
    <3> TAKE m \in 1 .. Len(r.batch)
    <3>1. CASE m = n
      BY <2>1, <2>5, <3>1
    <3>2. CASE m # n
      <4>1. m \in 1 .. Len(batch)
        BY <1>1, <2>5, <3>2
      <4> QED
        BY <2>5, <2>6, <4>1
    <3> QED
      BY <3>1, <3>2
  <2>8. Len(r.batch) <= Len(file)
    BY <1>1, <2>5
  <2> QED
    BY <1>1, <2>2, <2>4, <2>7, <2>8, IngestStepPreserves
<1> QED
  BY <1>2, <1>3

\* Storing a batch keeps the invariant: a row of an event with a time of its own
\* replaces the same row.
LEMMA InsertPreserves ==
  ASSUME IInv, NEW i \in Ingests, Insert(i)
  PROVE  IInv'
<1> DEFINE batch == ingest[i].batch
<1>1. /\ Reading(i) /\ ingest[i] \in IngestRecord
      /\ Len(batch) \in Nat /\ Len(batch) <= Len(file) /\ Len(file) \in Nat
      /\ \A n \in 1 .. Len(batch) :
           /\ batch[n] \in Row /\ batch[n].event = file[n]
           /\ batch[n].id[2] = n /\ file[n] \in captured
           /\ Stamp[file[n]] # None => batch[n].id[1] = Stamp[file[n]]
  BY BatchOfReader, LenProperties DEF Insert, IInv, TypeOK
<1>2. \A row \in raw' : row \in raw \/ \E n \in 1 .. Len(batch) : row = batch[n]
  BY InsertStores
<1>3. /\ IngestsTyped' /\ \A x \in Ingests \ {i} : ingest'[x] = ingest[x]
      /\ ingest'[i].at = "ok" /\ ingest'[i] \in IngestRecord
  <2> DEFINE r == [ingest[i] EXCEPT !.at = "ok"]
  <2>1. r \in IngestRecord /\ r.at = "ok"
    BY <1>1 DEF IngestRecord
  <2>2. ingest' = [ingest EXCEPT ![i] = r]
    BY DEF Insert
  <2> HIDE DEF r
  <2> QED
    BY <2>1, <2>2, IngestSet
<1>4. UNCHANGED <<file, captured, captures, writing, now>>
  BY DEF Insert
<1> HIDE DEF batch
<1>5. \A row \in raw' :
        /\ row \in Row /\ row.event \in captured
        /\ Stamp[row.event] # None => row.id[1] = Stamp[row.event]
        /\ \A n \in 1 .. Len(file) : file[n] = row.event => row.id[2] = n
  <2> TAKE row \in raw'
  <2>1. CASE row \in raw
    BY <2>1 DEF IInv, TypeOK, RowsAreRead
  <2>2. ASSUME NEW n \in 1 .. Len(batch), row = batch[n]
        PROVE  /\ row \in Row /\ row.event \in captured
               /\ Stamp[row.event] # None => row.id[1] = Stamp[row.event]
               /\ \A m \in 1 .. Len(file) : file[m] = row.event => row.id[2] = m
    <3>1. /\ row \in Row /\ row.event = file[n] /\ row.id[2] = n /\ file[n] \in captured
          /\ Stamp[row.event] # None => row.id[1] = Stamp[row.event]
          /\ n \in 1 .. Len(file)
      BY <1>1, <2>2
    <3>2. file[n] # Torn
      BY <3>1, TraceeAssumption DEF IInv, TypeOK
    <3>3. \A m \in 1 .. Len(file) : file[m] = file[n] => m = n
      BY <3>1, <3>2 DEF IInv, LinesAreUnique
    <3> QED
      BY <3>1, <3>3
  <2> QED
    BY <1>2, <2>1, <2>2
<1>6. TypeOK'
  BY <1>3, <1>4, <1>5 DEF IInv, TypeOK, IngestRecord
<1>7. LinesAreUnique' /\ RowsAreRead'
  BY <1>4, <1>5 DEF IInv, LinesAreUnique, RowsAreRead
<1>8. BatchesAreRead'
  BY <1>3, <1>4 DEF IInv, BatchesAreRead, Reading
<1>9. StoredOnce'
  <2>1. ASSUME NEW row \in raw', NEW n \in 1 .. Len(batch), row.event = batch[n].event,
               Stamp[row.event] # None
        PROVE  row = batch[n]
    <3>1. batch[n] \in Row /\ batch[n].event = file[n] /\ batch[n].id[2] = n /\ n \in 1 .. Len(file)
      BY <1>1
    <3>2. row \in Row /\ row.id[1] = Stamp[row.event] /\ row.id[2] = n
      BY <1>5, <2>1, <3>1
    <3>3. batch[n].id[1] = Stamp[row.event]
      BY <1>1, <2>1, <3>1
    <3> QED
      BY <2>1, <3>1, <3>2, <3>3, RowEquality
  <2>2. ASSUME NEW r \in raw', NEW s \in raw', r.event = s.event, Stamp[r.event] # None
        PROVE  r = s
    <3>1. CASE r \in raw /\ s \in raw
      BY <2>2, <3>1 DEF IInv, StoredOnce
    <3>2. CASE \E n \in 1 .. Len(batch) : r = batch[n]
      BY <2>1, <2>2, <3>2
    <3>3. CASE \E n \in 1 .. Len(batch) : s = batch[n]
      BY <2>1, <2>2, <3>3
    <3> QED
      BY <1>2, <3>1, <3>2, <3>3
  <2> QED
    BY <2>2 DEF StoredOnce
<1> QED
  BY <1>3, <1>6, <1>7, <1>8, <1>9 DEF IInv
-----------------------------------------------------------------------------
(* The theorems.                                                           *)

\* The inductive invariant, for all events, ingests and bounds.
THEOREM InvariantHolds == Spec => []IInv
<1>1. Init => IInv
  <2> SUFFICES ASSUME Init PROVE IInv
    OBVIOUS
  <2>1. file \in Seq(Events \cup {Torn}) /\ Len(file) = 0 /\ 1 .. Len(file) = {}
    BY EmptySeq DEF Init
  <2>2. MaxCaptures \in Nat /\ MaxLines \in Nat /\ MaxNow \in Nat
    BY TraceeAssumption
  <2>3. TypeOK
    <3>1. captures \in 0 .. MaxCaptures /\ now \in 0 .. MaxNow /\ Len(file) <= MaxLines
      BY <2>1, <2>2 DEF Init
    <3>2. \A i \in Ingests : ingest[i] = None
      BY DEF Init
    <3> QED
      BY <2>1, <3>1, <3>2 DEF Init, TypeOK
  <2> QED
    BY <2>1, <2>3 DEF Init, IInv, IngestsTyped, LinesAreUnique, BatchesAreRead, RowsAreRead,
       StoredOnce, Reading
<1>2. IInv /\ [Next]_vars => IInv'
  <2> SUFFICES ASSUME IInv, [Next]_vars PROVE IInv'
    OBVIOUS
  <2>1. CASE StartCapture
    BY <2>1, StartCapturePreserves
  <2>2. CASE EndCapture
    BY <2>2, EndCapturePreserves
  <2>3. CASE Tick
    <3>1. MaxNow \in Nat /\ now \in 0 .. MaxNow /\ now < MaxNow /\ now' = now + 1
      BY <2>3, TraceeAssumption DEF IInv, TypeOK, Tick
    <3>2. now' \in 0 .. MaxNow /\ UNCHANGED <<file, captured, captures, writing, ingest, raw>>
      BY <2>3, <3>1 DEF Tick
    <3>3. TypeOK' /\ IngestsTyped'
      BY <3>2 DEF IInv, TypeOK, IngestsTyped
    <3> QED
      BY <3>2, <3>3 DEF IInv, LinesAreUnique, BatchesAreRead, RowsAreRead, StoredOnce, Reading
  <2>4. CASE \E e \in Events : WriteLine(e)
    BY <2>4, WriteLinePreserves
  <2>5. ASSUME NEW i \in Ingests, OpenReader(i) \/ ReadLine(i) \/ Insert(i) \/ IngestFails(i)
        PROVE  IInv'
    BY <2>5, OpenAndFailPreserve, ReadLinePreserves, InsertPreserves
  <2>6. CASE UNCHANGED vars
    <3>1. TypeOK' /\ IngestsTyped'
      BY <2>6 DEF vars, IInv, TypeOK, IngestsTyped
    <3> QED
      BY <2>6, <3>1 DEF vars, IInv, LinesAreUnique, BatchesAreRead, RowsAreRead, StoredOnce, Reading
  <2> QED
    BY <2>1, <2>2, <2>3, <2>4, <2>5, <2>6 DEF Next
<1> QED
  BY <1>1, <1>2, PTL DEF Spec

\* Files, batches and rows are of their types.
THEOREM TypeCorrect == Spec => []TypeOK
<1>1. IInv => TypeOK
  BY DEF IInv
<1> QED
  BY <1>1, InvariantHolds, PTL

\* However often and however overlapping the file is ingested, an event with a
\* time of its own has at most one row.
THEOREM AlwaysStoredOnce == Spec => []StoredOnce
<1>1. IInv => StoredOnce
  BY DEF IInv
<1> QED
  BY <1>1, InvariantHolds, PTL

\* insert_raw_events leaves a row for each line the ingest has read.
THEOREM IngestedAlwaysStored == Spec => IngestedIsStored
<1>1. ASSUME IInv, NEW i \in Ingests, Insert(i)
      PROVE  \A n \in DOMAIN ingest[i].batch : \E row \in raw' : row.event = file[n]
  <2>1. /\ DOMAIN ingest[i].batch = 1 .. Len(ingest[i].batch)
        /\ \A n \in 1 .. Len(ingest[i].batch) : ingest[i].batch[n].event = file[n]
    BY <1>1, BatchOfReader DEF Insert
  <2> QED
    BY <1>1, <2>1, InsertStores
<1>2. IInv /\ [Next]_vars =>
        [\A i \in Ingests : Insert(i) =>
           \A n \in DOMAIN ingest[i].batch : \E row \in raw' : row.event = file[n]]_vars
  BY <1>1
<1> QED
  BY <1>2, InvariantHolds, PTL DEF Spec, IngestedIsStored

\* No step takes away the row of an event of the file: a row that replaces it is
\* the same row.
THEOREM EvidenceAlwaysKept == Spec => EvidenceIsKept
<1>1. ASSUME IInv, NEW i \in Ingests, Insert(i), NEW row \in raw, NEW n \in 1 .. Len(file),
             row.event = file[n]
      PROVE  row \in raw'
  <2>1. row \in Row /\ row.id[2] = n
    BY <1>1 DEF IInv, TypeOK, RowsAreRead
  <2>2. ASSUME NEW m \in 1 .. Len(ingest[i].batch), ingest[i].batch[m].id = row.id
        PROVE  row \in raw'
    <3>1. /\ ingest[i].batch[m] \in Row /\ ingest[i].batch[m].event = file[m]
          /\ ingest[i].batch[m].id[2] = m
      BY <1>1, BatchOfReader DEF Insert
    <3>2. m = n
      BY <2>1, <2>2, <3>1
    <3>3. row = ingest[i].batch[m]
      BY <1>1, <2>1, <2>2, <3>1, <3>2, RowEquality
    <3> QED
      BY <1>1, <3>3, InsertStores
  <2> QED
    BY <1>1, <2>2, InsertStores
<1>2. ASSUME IInv, [Next]_vars, ~UNCHANGED raw
      PROVE  \E i \in Ingests : Insert(i)
  BY <1>2 DEF Next, vars, StartCapture, EndCapture, Tick, WriteLine, OpenReader, ReadLine, IngestFails
<1>3. IInv => DOMAIN file = 1 .. Len(file)
  BY LenProperties DEF IInv, TypeOK
<1>4. IInv /\ [Next]_vars =>
        [\A row \in raw : row.event \in {file[n] : n \in DOMAIN file} => row \in raw']_vars
  BY <1>1, <1>2, <1>3
<1> QED
  BY <1>4, InvariantHolds, PTL DEF Spec, EvidenceIsKept
=============================================================================
