-------------------------- MODULE Ring0StoreProofs --------------------------
(***************************************************************************)
(* For any checkers, detectors and lines, and any order in which checks    *)
(* look and commit: a finding has one row, what a check found is stored,   *)
(* and the host's level never improves.                                    *)
(***************************************************************************)
EXTENDS Ring0Store, SequenceTheorems, FiniteSetTheorems, WellFoundedInduction, TLAPS

\* A finding as FindingOf makes it: its id is of its detector and its line.
WellMade(row) ==
  /\ row.detector \in Detectors /\ row.line \in Lines
  /\ row = [id |-> row.id, detector |-> row.detector, line |-> row.line]
  /\ IF row.detector \in Fixed THEN row.id = <<row.detector>>
     ELSE \E i \in 1 .. MaxLines : row.id = <<row.detector, token[row.line], i>>

\* Two findings of which a table holds one.
Same(f, g) == f.id = g.id \/ (f.detector = g.detector /\ f.line = g.line)

\* No two findings of a check's batch are the same, nor can one of a detector still
\* to run be the same as one of the batch.
OrderlyCheck(k) ==
  /\ \A i \in DOMAIN k.batch : WellMade(k.batch[i])
  /\ \A i, j \in DOMAIN k.batch : Same(k.batch[i], k.batch[j]) => i = j
  /\ \A i, j \in DOMAIN k.left : k.left[i] = k.left[j] => i = j
  /\ \A i \in DOMAIN k.batch, j \in DOMAIN k.left : k.batch[i].detector # k.left[j]

BatchesAreOrderly == \A c \in Checkers : check[c] # None => OrderlyCheck(check[c])

\* A table as insert_ring0_findings leaves it.
Orderly(rows) ==
  /\ IsFiniteSet(rows) /\ \A row \in rows : WellMade(row)
  /\ \A r, s \in rows : Same(r, s) => r = s

IInv ==
  /\ TypeOK /\ DOMAIN check = Checkers /\ DOMAIN shown = Detectors
  /\ BatchesAreOrderly
  /\ Orderly(findings)

-----------------------------------------------------------------------------
(* Induction up to a bound, over a set.                                    *)

\* A set of naturals that is not empty has a least element.
LEMMA LeastNatural ==
  ASSUME NEW T, T \subseteq Nat, T # {}
  PROVE  \E x \in T : \A y \in T : x <= y
<1>1. PICK x \in T : \A y \in T : ~ (<<y, x>> \in OpToRel(<, Nat))
  BY WFMin, NatLessThanWellFounded, Zenon
<1>2. \A y \in T : ~(y < x)
  BY <1>1, Zenon DEF OpToRel
<1>3. \A y \in T : x <= y
  BY <1>2
<1> QED
  BY <1>3

\* What holds of 0 and goes from each number to the next holds up to k.
LEMMA UpTo ==
  ASSUME NEW k \in Nat, NEW G, 0 \in G, \A n \in 1 .. k : n - 1 \in G => n \in G
  PROVE  \A n \in 0 .. k : n \in G
<1> DEFINE T == {n \in 0 .. k : n \notin G}
<1> SUFFICES ASSUME T # {} PROVE FALSE
  OBVIOUS
<1>1. T \subseteq Nat
  OBVIOUS
<1> HIDE DEF T
<1>2. PICK x \in T : \A y \in T : x <= y
  BY <1>1, LeastNatural
<1>3. x \in 0 .. k /\ x \notin G
  BY DEF T
<1>4. x # 0 /\ x \in 1 .. k
  BY <1>3
<1>5. x - 1 \in 0 .. k /\ ~(x <= x - 1)
  BY <1>4
<1>6. x - 1 \in G
  BY <1>2, <1>5 DEF T
<1> QED
  BY <1>3, <1>4, <1>6
-----------------------------------------------------------------------------
(* The rows after a batch.                                                 *)

\* The tables on the way of a batch into a table.
Insertion(after, rows, batch) ==
  /\ after[0] = rows /\ Inserted(rows, batch) = after[Len(batch)]
  /\ \A n \in 1 .. Len(batch) : after[n] = PutFinding(after[n - 1], batch[n])

\* A batch is inserted one finding after the other.
LEMMA InsertedStepwise ==
  ASSUME NEW rows, NEW batch, Len(batch) \in Nat
  PROVE  \E after : Insertion(after, rows, batch)
<1> DEFINE k == Len(batch)
           Step(f, n) == IF n = 0 THEN rows ELSE PutFinding(f[n - 1], batch[n])
           G == {m \in 0 .. k : \E f : f = [n \in 0 .. m |-> Step(f, n)]}
<1>1. 0 \in G
  <2> DEFINE f == [n \in 0 .. 0 |-> rows]
  <2>1. f = [n \in 0 .. 0 |-> Step(f, n)]
    OBVIOUS
  <2> HIDE DEF f
  <2>2. \E h : h = [n \in 0 .. 0 |-> Step(h, n)]
    BY <2>1
  <2> QED
    BY <2>2
<1>2. ASSUME NEW m \in 1 .. k, m - 1 \in G
      PROVE  m \in G
  <2>1. PICK f : f = [n \in 0 .. m - 1 |-> Step(f, n)]
    BY <1>2
  <2> DEFINE g == [n \in 0 .. m |-> IF n = m THEN PutFinding(f[m - 1], batch[m]) ELSE f[n]]
  <2>2. \A n \in 0 .. m - 1 : n \in 0 .. m /\ n # m /\ g[n] = f[n]
    OBVIOUS
  <2>3. ASSUME NEW n \in 0 .. m PROVE g[n] = Step(g, n)
    <3>1. CASE n = m
      <4>1. m - 1 \in 0 .. m - 1 /\ m # 0
        OBVIOUS
      <4>2. g[m - 1] = f[m - 1]
        BY <2>2, <4>1
      <4>3. g[m] = PutFinding(f[m - 1], batch[m])
        OBVIOUS
      <4> QED
        BY <3>1, <4>1, <4>2, <4>3
    <3>2. CASE n # m
      <4>1. n \in 0 .. m - 1
        BY <3>2
      <4>2. g[n] = f[n] /\ f[n] = Step(f, n)
        BY <2>1, <2>2, <4>1
      <4>3. n # 0 => n - 1 \in 0 .. m - 1
        BY <4>1
      <4>4. Step(g, n) = Step(f, n)
        BY <2>2, <4>3
      <4> QED
        BY <4>2, <4>4
    <3> QED
      BY <3>1, <3>2
  <2>4. g = [n \in 0 .. m |-> g[n]]
    OBVIOUS
  <2> HIDE DEF g
  <2>5. g = [n \in 0 .. m |-> Step(g, n)]
    BY <2>3, <2>4
  <2>6. \E h : h = [n \in 0 .. m |-> Step(h, n)]
    BY <2>5
  <2> QED
    BY <2>6
<1>3. k \in G
  <2> HIDE DEF G
  <2>1. \A n \in 0 .. k : n \in G
    BY <1>1, <1>2, UpTo
  <2> QED
    BY <2>1
<1> DEFINE after == CHOOSE f : f = [n \in 0 .. k |-> Step(f, n)]
<1>4. after = [n \in 0 .. k |-> Step(after, n)]
  BY <1>3
<1>5. Inserted(rows, batch) = after[Len(batch)]
  BY DEF Inserted
<1> HIDE DEF after
<1>6. after[0] = rows
  BY <1>4
<1>7. \A n \in 1 .. Len(batch) : after[n] = PutFinding(after[n - 1], batch[n])
  BY <1>4
<1>8. Insertion(after, rows, batch)
  BY <1>5, <1>6, <1>7 DEF Insertion
<1> QED
  BY <1>8
-----------------------------------------------------------------------------
(* Findings and rows.                                                      *)

\* A finding made by a detector is one of the findings.
LEMMA WellMadeIsFinding ==
  ASSUME NEW row, WellMade(row)
  PROVE  row \in Finding
<1>1. row.detector \in Detectors /\ row.line \in Lines
      /\ row = [id |-> row.id, detector |-> row.detector, line |-> row.line]
  BY DEF WellMade
<1>2. row.id \in Ids
  BY <1>1 DEF WellMade, Ids
<1> QED
  BY <1>1, <1>2 DEF Finding

\* The detector can be read off the id.
LEMMA IdNamesDetector ==
  ASSUME NEW row, WellMade(row)
  PROVE  row.id[1] = row.detector
BY DEF WellMade

\* If lines differ in their first 48 characters, an id that takes a place has the
\* line or the one place of its detector.
LEMMA SameIsTransitive ==
  ASSUME TokensDiffer, NEW r, NEW s, NEW f, WellMade(r), WellMade(s), WellMade(f),
         Same(r, f), Same(s, f)
  PROVE  Same(r, s)
<1>1. ASSUME NEW x, WellMade(x), Same(x, f)
      PROVE  /\ x.detector = f.detector
             /\ f.detector \in Fixed => x.id = <<f.detector>>
             /\ f.detector \notin Fixed => x.line = f.line
  <2>1. x.detector = f.detector
    BY <1>1, IdNamesDetector DEF Same
  <2>2. ASSUME f.detector \in Fixed PROVE x.id = <<f.detector>>
    BY <1>1, <2>1, <2>2 DEF WellMade
  <2>3. ASSUME f.detector \notin Fixed PROVE x.line = f.line
    <3>1. CASE x.id = f.id
      <4>1. PICK i \in 1 .. MaxLines : x.id = <<x.detector, token[x.line], i>>
        BY <1>1, <2>1, <2>3 DEF WellMade
      <4>2. PICK j \in 1 .. MaxLines : f.id = <<f.detector, token[f.line], j>>
        BY <2>3 DEF WellMade
      <4>3. x.id[2] = token[x.line] /\ f.id[2] = token[f.line]
        BY <4>1, <4>2
      <4> QED
        BY <1>1, <3>1, <4>3 DEF TokensDiffer, WellMade
    <3>2. CASE x.id # f.id
      BY <1>1, <3>2 DEF Same
    <3> QED
      BY <3>1, <3>2
  <2> QED
    BY <2>1, <2>2, <2>3
<1>2. CASE f.detector \in Fixed
  BY <1>1, <1>2 DEF Same
<1>3. CASE f.detector \notin Fixed
  BY <1>1, <1>3 DEF Same
<1> QED
  BY <1>2, <1>3

\* Inserting one finding keeps the table orderly; the finding is in it, and of the
\* rows before those that are not the same finding.
LEMMA PutIsOrderly ==
  ASSUME NEW rows, Orderly(rows), NEW f, WellMade(f)
  PROVE  /\ Orderly(PutFinding(rows, f)) /\ f \in PutFinding(rows, f)
         /\ PutFinding(rows, f) = {row \in rows : ~Same(row, f)} \cup {f}
<1> DEFINE rest == {row \in rows : ~Same(row, f)}
<1>1. PutFinding(rows, f) = rest \cup {f}
  BY DEF PutFinding, Same
<1>2. IsFiniteSet(rest)
  <2>1. rest \in SUBSET rows
    OBVIOUS
  <2> HIDE DEF rest
  <2> QED
    BY <2>1, FS_Subset DEF Orderly
<1>3. IsFiniteSet(rest \cup {f})
  BY <1>2, FS_AddElement
<1>4. \A row \in rest \cup {f} : WellMade(row)
  BY DEF Orderly
<1>5. \A r, s \in rest \cup {f} : Same(r, s) => r = s
  <2>1. \A r, s \in rest : Same(r, s) => r = s
    BY DEF Orderly
  <2>2. \A r \in rest : ~Same(r, f) /\ ~Same(f, r)
    BY DEF Same
  <2> HIDE DEF rest
  <2> QED
    BY <2>1, <2>2
<1> QED
  BY <1>1, <1>3, <1>4, <1>5 DEF Orderly

\* Inserting a batch keeps the table orderly, and all of a batch in which no
\* finding takes another's row is in it.
LEMMA BatchIsOrderly ==
  ASSUME NEW rows, Orderly(rows), NEW batch, Len(batch) \in Nat,
         \A i \in 1 .. Len(batch) : WellMade(batch[i]),
         \A i, j \in 1 .. Len(batch) : Same(batch[i], batch[j]) => i = j
  PROVE  /\ Orderly(Inserted(rows, batch))
         /\ \A i \in 1 .. Len(batch) : batch[i] \in Inserted(rows, batch)
<1>0. PICK after : Insertion(after, rows, batch)
  BY InsertedStepwise
<1>1. /\ after[0] = rows /\ Inserted(rows, batch) = after[Len(batch)]
      /\ \A n \in 1 .. Len(batch) : after[n] = PutFinding(after[n - 1], batch[n])
  BY <1>0 DEF Insertion
<1> DEFINE G == {n \in 0 .. Len(batch) :
                   Orderly(after[n]) /\ \A i \in 1 .. n : batch[i] \in after[n]}
<1>2. 0 \in G
  BY <1>1
<1>3. ASSUME NEW n \in 1 .. Len(batch), n - 1 \in G
      PROVE  n \in G
  <2>1. Orderly(after[n - 1]) /\ \A i \in 1 .. n - 1 : batch[i] \in after[n - 1]
    BY <1>3
  <2>2. after[n] = PutFinding(after[n - 1], batch[n]) /\ WellMade(batch[n])
    BY <1>1
  <2>3. /\ Orderly(after[n]) /\ batch[n] \in after[n]
        /\ after[n] = {row \in after[n - 1] : ~Same(row, batch[n])} \cup {batch[n]}
    BY <2>1, <2>2, PutIsOrderly
  <2>4. ASSUME NEW i \in 1 .. n PROVE batch[i] \in after[n]
    <3>1. CASE i = n
      BY <2>3, <3>1
    <3>2. CASE i # n
      <4>1. i \in 1 .. n - 1 /\ i \in 1 .. Len(batch)
        BY <3>2
      <4>2. ~Same(batch[i], batch[n])
        BY <3>2, <4>1
      <4> QED
        BY <2>1, <2>3, <4>1, <4>2
    <3> QED
      BY <3>1, <3>2
  <2>5. n \in 0 .. Len(batch)
    OBVIOUS
  <2> QED
    BY <2>3, <2>4, <2>5
<1>4. Len(batch) \in G
  <2> HIDE DEF G
  <2>1. \A n \in 0 .. Len(batch) : n \in G
    BY <1>2, <1>3, UpTo
  <2> QED
    BY <2>1
<1> QED
  BY <1>1, <1>4
-----------------------------------------------------------------------------
(* The grade.                                                              *)

\* A table grades the host no better than another.
NoBetter(rows, than) ==
  /\ Cardinality(rows) >= Cardinality(than)
  /\ than # {} => rows # {}
  /\ (\E row \in than : row.detector \in Serious) => \E row \in rows : row.detector \in Serious

\* A finding takes the place of one row at most, and of its own detector.
LEMMA PutIsNoBetter ==
  ASSUME TokensDiffer, NEW rows, Orderly(rows), NEW f, WellMade(f)
  PROVE  NoBetter(PutFinding(rows, f), rows)
<1> DEFINE rest == {row \in rows : ~Same(row, f)}
<1>1. /\ PutFinding(rows, f) = rest \cup {f} /\ IsFiniteSet(rows)
  BY PutIsOrderly DEF Orderly
<1>2. Cardinality(rows) \in Nat
  BY <1>1, FS_CardinalityType
<1>3. Cardinality(rest \cup {f}) >= Cardinality(rows)
  <2>1. CASE \A row \in rows : ~Same(row, f)
    <3>1. rest = rows
      BY <2>1
    <3> HIDE DEF rest
    <3>2. Cardinality(rest \cup {f}) = IF f \in rows THEN Cardinality(rows) ELSE Cardinality(rows) + 1
      BY <1>1, <3>1, FS_AddElement
    <3> QED
      BY <1>2, <3>2
  <2>2. CASE \E row \in rows : Same(row, f)
    <3>1. PICK old \in rows : Same(old, f)
      BY <2>2
    <3>2. \A row \in rows : Same(row, f) => row = old
      BY <3>1, SameIsTransitive DEF Orderly
    <3>3. rest = rows \ {old}
      BY <3>1, <3>2
    <3>4. f \notin rest
      BY DEF Same
    <3> HIDE DEF rest
    <3>5. IsFiniteSet(rest) /\ Cardinality(rest) = Cardinality(rows) - 1
      BY <1>1, <3>1, <3>3, FS_RemoveElement
    <3>6. Cardinality(rest \cup {f}) = Cardinality(rest) + 1
      BY <3>4, <3>5, FS_AddElement
    <3> QED
      BY <1>2, <3>5, <3>6
  <2> QED
    BY <2>1, <2>2
<1>4. ASSUME NEW row \in rows, row.detector \in Serious
      PROVE  \E new \in rest \cup {f} : new.detector \in Serious
  <2>1. CASE Same(row, f)
    <3>1. row.detector = f.detector
      BY <2>1, IdNamesDetector DEF Orderly, Same
    <3> QED
      BY <1>4, <3>1
  <2>2. CASE ~Same(row, f)
    BY <1>4, <2>2
  <2> QED
    BY <2>1, <2>2
<1> HIDE DEF rest
<1> QED
  BY <1>1, <1>3, <1>4 DEF NoBetter

\* The same of a batch.
LEMMA BatchIsNoBetter ==
  ASSUME TokensDiffer, NEW rows, Orderly(rows), NEW batch, Len(batch) \in Nat,
         \A i \in 1 .. Len(batch) : WellMade(batch[i])
  PROVE  NoBetter(Inserted(rows, batch), rows)
<1>0. PICK after : Insertion(after, rows, batch)
  BY InsertedStepwise
<1>1. /\ after[0] = rows /\ Inserted(rows, batch) = after[Len(batch)]
      /\ \A n \in 1 .. Len(batch) : after[n] = PutFinding(after[n - 1], batch[n])
  BY <1>0 DEF Insertion
<1> DEFINE G == {n \in 0 .. Len(batch) : Orderly(after[n]) /\ NoBetter(after[n], rows)}
<1>2. 0 \in G
  <2>1. Cardinality(rows) \in Nat
    BY FS_CardinalityType DEF Orderly
  <2>2. NoBetter(rows, rows)
    BY <2>1 DEF NoBetter
  <2> QED
    BY <1>1, <2>2
<1>3. ASSUME NEW n \in 1 .. Len(batch), n - 1 \in G
      PROVE  n \in G
  <2>1. Orderly(after[n - 1]) /\ NoBetter(after[n - 1], rows)
    BY <1>3
  <2>2. after[n] = PutFinding(after[n - 1], batch[n]) /\ WellMade(batch[n])
    BY <1>1
  <2>3. Orderly(after[n]) /\ NoBetter(after[n], after[n - 1])
    BY <2>1, <2>2, PutIsOrderly, PutIsNoBetter
  <2>4. /\ Cardinality(rows) \in Nat /\ Cardinality(after[n - 1]) \in Nat
        /\ Cardinality(after[n]) \in Nat
    BY <2>1, <2>3, FS_CardinalityType DEF Orderly
  <2>5. NoBetter(after[n], rows)
    BY <2>1, <2>3, <2>4 DEF NoBetter
  <2> QED
    BY <2>3, <2>5
<1>4. Len(batch) \in G
  <2> HIDE DEF G
  <2>1. \A n \in 0 .. Len(batch) : n \in G
    BY <1>2, <1>3, UpTo
  <2> QED
    BY <2>1
<1> QED
  BY <1>1, <1>4

\* A table that is no better does not lower the level.
LEMMA GradeFollows ==
  ASSUME NEW rows, NEW than, Orderly(rows), Orderly(than), NoBetter(rows, than)
  PROVE  AssessHostTrust(rows) >= AssessHostTrust(than)
<1>1. Cardinality(rows) \in Nat /\ Cardinality(than) \in Nat
  BY FS_CardinalityType DEF Orderly
<1>2. CASE than = {}
  BY <1>2 DEF AssessHostTrust
<1>3. CASE than # {}
  BY <1>1, <1>3 DEF AssessHostTrust, NoBetter
<1> QED
  BY <1>2, <1>3
-----------------------------------------------------------------------------
(* The inductive invariant.                                                *)

\* A check that gets another orderly batch, or ends, leaves the checks orderly.
LEMMA CheckMoves ==
  ASSUME IInv, NEW c \in Checkers, NEW k,
         k # None => /\ k.left \in Seq(Detectors) /\ k.batch \in Seq(Finding)
                     /\ OrderlyCheck(k),
         check' = [check EXCEPT ![c] = k], UNCHANGED <<token, shown>>,
         failures' \in 0 .. MaxFailures, Orderly(findings')
  PROVE  IInv'
<1>1. Finding' = Finding
  BY DEF Finding, Ids
<1>2. \A e \in Checkers : check'[e] = IF e = c THEN k ELSE check[e]
  BY DEF IInv
<1>3. findings' \subseteq Finding
  BY WellMadeIsFinding DEF Orderly
<1>4. \A e \in Checkers : check'[e] # None =>
        /\ check'[e].left \in Seq(Detectors) /\ check'[e].batch \in Seq(Finding)
        /\ OrderlyCheck(check'[e])
  BY <1>2 DEF IInv, TypeOK, BatchesAreOrderly
<1>5. TypeOK'
  BY <1>1, <1>3, <1>4 DEF IInv, TypeOK, Reports
<1>6. BatchesAreOrderly'
  <2>1. token' = token
    OBVIOUS
  <2>2. ASSUME NEW e \in Checkers, check'[e] # None PROVE OrderlyCheck(check[e])'
    <3>1. OrderlyCheck(check'[e])
      BY <1>4, <2>2
    <3>2. \A i \in DOMAIN check'[e].batch : WellMade(check'[e].batch[i])
      BY <3>1 DEF OrderlyCheck
    <3>3. \A i \in DOMAIN check'[e].batch : WellMade(check[e].batch[i])'
      BY <2>1, <3>2 DEF WellMade
    <3> QED
      BY <3>1, <3>3 DEF OrderlyCheck, Same
  <2> QED
    BY <2>2 DEF BatchesAreOrderly
<1>7. Orderly(findings)'
  BY DEF Orderly, WellMade
<1>8. DOMAIN check' = Checkers /\ DOMAIN shown' = Detectors
  BY DEF IInv
<1> QED
  BY <1>5, <1>6, <1>7, <1>8 DEF IInv

\* At first no check runs and nothing is stored.
LEMMA InitIInv == Init => IInv
<1> SUFFICES ASSUME Init PROVE IInv
  OBVIOUS
<1>1. \A d \in Detectors : <<>> \in Reports(d)
  BY LinesAssumption DEF Reports
<1>2. TypeOK
  BY <1>1, LinesAssumption DEF Init, TypeOK
<1>3. Orderly(findings)
  BY FS_EmptySet DEF Init, Orderly
<1>4. BatchesAreOrderly
  BY DEF Init, BatchesAreOrderly
<1> QED
  BY <1>2, <1>3, <1>4 DEF Init, IInv

\* The host shows something else.
LEMMA HostChangesKeepsIInv == ASSUME IInv, HostChanges PROVE IInv'
<1>1. PICK d \in Detectors : \E lines \in Reports(d) : shown' = [shown EXCEPT ![d] = lines]
  BY DEF HostChanges
<1>2. PICK lines \in Reports(d) : shown' = [shown EXCEPT ![d] = lines]
  BY <1>1
<1>3. UNCHANGED <<token, check, findings, failures>>
  BY DEF HostChanges
<1>4. DOMAIN shown' = Detectors /\ \A e \in Detectors : shown'[e] \in Reports(e)
  BY <1>2 DEF IInv, TypeOK
<1>5. Finding' = Finding
  BY <1>3 DEF Finding, Ids
<1>6. TypeOK'
  BY <1>3, <1>4, <1>5 DEF IInv, TypeOK, Reports
<1>7. BatchesAreOrderly'
  BY <1>3 DEF IInv, BatchesAreOrderly, OrderlyCheck, WellMade
<1>8. Orderly(findings)'
  BY <1>3 DEF IInv, Orderly, WellMade
<1> QED
  BY <1>3, <1>4, <1>6, <1>7, <1>8 DEF IInv

\* A check begins with nothing found and each of its detectors to run once.
LEMMA BeginKeepsIInv == ASSUME IInv, NEW c \in Checkers, Begin(c) PROVE IInv'
<1> DEFINE k == [left |-> Plan[c], batch |-> <<>>]
<1>1. /\ check' = [check EXCEPT ![c] = k] /\ UNCHANGED <<token, shown>>
      /\ failures' \in 0 .. MaxFailures /\ Orderly(findings')
  BY DEF Begin, IInv, TypeOK
<1>2. k.left = Plan[c] /\ k.batch = <<>>
  OBVIOUS
<1> HIDE DEF k
<1>3. k.left \in Seq(Detectors) /\ k.batch \in Seq(Finding) /\ OrderlyCheck(k)
  BY <1>2, CheckersAssumption DEF OrderlyCheck
<1> QED
  BY <1>1, <1>3, CheckMoves

\* What a detector finds in the lines it sees are findings no two of which are the
\* same.
LEMMA FoundIsOrderly ==
  ASSUME NEW d \in Detectors, NEW lines \in Reports(d), NEW found,
         found = [i \in DOMAIN lines |-> FindingOf(d, lines[i], i)]
  PROVE  /\ found \in Seq(Finding)
         /\ \A i \in 1 .. Len(found) : WellMade(found[i]) /\ found[i].detector = d
         /\ \A i, j \in 1 .. Len(found) : Same(found[i], found[j]) => i = j
<1>1. PICK n \in 0 .. MaxLines : lines \in [1 .. n -> Lines]
  BY DEF Reports
<1>2. n \in Nat /\ MaxLines \in Nat
  BY LinesAssumption
<1>3. DOMAIN lines = 1 .. n /\ Len(lines) = n /\ DOMAIN found = 1 .. n
  BY <1>1, <1>2
<1>4. ASSUME NEW i \in 1 .. n PROVE WellMade(found[i]) /\ found[i].detector = d
  <2>1. found[i] = FindingOf(d, lines[i], i) /\ lines[i] \in Lines /\ i \in 1 .. MaxLines
    BY <1>1, <1>2, <1>3
  <2> DEFINE id == IF d \in Fixed THEN <<d>> ELSE <<d, token[lines[i]], i>>
  <2>2. id = IF d \in Fixed THEN <<d>> ELSE <<d, token[lines[i]], i>>
    OBVIOUS
  <2>3. found[i] = [id |-> id, detector |-> d, line |-> lines[i]]
    BY <2>1 DEF FindingOf
  <2> HIDE DEF id
  <2>4. found[i].detector = d /\ found[i].line = lines[i] /\ found[i].id = id
    BY <2>3
  <2>5. CASE d \in Fixed
    BY <2>1, <2>2, <2>5, <2>3, <2>4 DEF WellMade
  <2>6. CASE d \notin Fixed
    BY <2>1, <2>2, <2>6, <2>3, <2>4 DEF WellMade
  <2> QED
    BY <2>5, <2>6, <2>4
<1>5. \A i \in 1 .. n : found[i] \in Finding
  BY <1>4, WellMadeIsFinding
<1>6. found \in [1 .. n -> Finding]
  BY <1>3, <1>5
<1>7. found \in Seq(Finding) /\ Len(found) = n
  BY <1>2, <1>6
<1>8. ASSUME NEW i \in 1 .. n, NEW j \in 1 .. n, Same(found[i], found[j]) PROVE i = j
  <2>1. found[i] = FindingOf(d, lines[i], i) /\ found[j] = FindingOf(d, lines[j], j)
    BY <1>3
  <2>2. CASE d \in Fixed
    BY <1>3, <2>2 DEF Reports
  <2>3. CASE d \notin Fixed
    <3>1. CASE found[i].id = found[j].id
      <4>1. found[i].id[3] = i /\ found[j].id[3] = j
        BY <2>1, <2>3 DEF FindingOf
      <4> QED
        BY <3>1, <4>1
    <3>2. CASE found[i].line = found[j].line
      <4>1. lines[i] = lines[j]
        BY <2>1, <3>2 DEF FindingOf
      <4> QED
        BY <1>3, <4>1 DEF Reports
    <3> QED
      BY <1>8, <3>1, <3>2 DEF Same
  <2> QED
    BY <2>2, <2>3
<1> QED
  BY <1>4, <1>7, <1>8

\* A detector's findings are added to those of others.
LEMMA DetectKeepsIInv == ASSUME IInv, NEW c \in Checkers, Detect(c) PROVE IInv'
<1> DEFINE left == check[c].left
           batch == check[c].batch
           d == Head(left)
           found == [i \in DOMAIN shown[d] |-> FindingOf(d, shown[d][i], i)]
           k == [left |-> Tail(left), batch |-> batch \o found]
<1>1. /\ left \in Seq(Detectors) /\ left # <<>> /\ batch \in Seq(Finding)
      /\ OrderlyCheck(check[c])
  BY DEF Detect, IInv, TypeOK, BatchesAreOrderly
<1>2. check' = [check EXCEPT ![c] = k]
  BY DEF Detect
<1>3. /\ Len(left) \in Nat /\ Len(left) >= 1 /\ DOMAIN left = 1 .. Len(left) /\ d = left[1]
      /\ d \in Detectors
  BY <1>1
<1>4. /\ Tail(left) \in Seq(Detectors) /\ DOMAIN Tail(left) = 1 .. Len(left) - 1
      /\ \A i \in 1 .. Len(left) - 1 : Tail(left)[i] = left[i + 1]
  BY <1>1
<1>5. /\ found \in Seq(Finding)
      /\ \A i \in 1 .. Len(found) : WellMade(found[i]) /\ found[i].detector = d
      /\ \A i, j \in 1 .. Len(found) : Same(found[i], found[j]) => i = j
  <2>1. shown[d] \in Reports(d)
    BY <1>3 DEF IInv, TypeOK
  <2>2. found = [i \in DOMAIN shown[d] |-> FindingOf(d, shown[d][i], i)]
    OBVIOUS
  <2>3. d \in Detectors
    BY <1>3
  <2> HIDE DEF d, found
  <2> QED
    BY ONLY <2>1, <2>2, <2>3, FoundIsOrderly
<1>6. k.left = Tail(left) /\ k.batch = batch \o found
  OBVIOUS
<1>7. /\ \A i \in 1 .. Len(batch) : WellMade(batch[i])
      /\ \A i, j \in 1 .. Len(batch) : Same(batch[i], batch[j]) => i = j
      /\ \A i, j \in 1 .. Len(left) : left[i] = left[j] => i = j
      /\ \A i \in 1 .. Len(batch), j \in 1 .. Len(left) : batch[i].detector # left[j]
  BY <1>1 DEF OrderlyCheck
<1> HIDE DEF found, k, left, batch, d
<1> DEFINE b == Len(batch)
           n == b + Len(found)
           new == batch \o found
<1>8. /\ b \in Nat /\ Len(found) \in Nat /\ new \in Seq(Finding) /\ DOMAIN new = 1 .. n
      /\ \A i \in 1 .. n : new[i] = IF i <= b THEN batch[i] ELSE found[i - b]
  BY <1>1, <1>5
<1>9. ASSUME NEW i \in 1 .. n
      PROVE  \/ i \in 1 .. b /\ new[i] = batch[i] /\ \A j \in 1 .. Len(left) : new[i].detector # left[j]
             \/ i - b \in 1 .. Len(found) /\ new[i] = found[i - b] /\ new[i].detector = d
  <2>1. CASE i <= b
    BY <1>7, <1>8, <2>1
  <2>2. CASE ~(i <= b)
    <3>1. i - b \in 1 .. Len(found)
      BY <1>8, <2>2
    <3> QED
      BY <1>5, <1>8, <2>2, <3>1
  <2> QED
    BY <2>1, <2>2
<1>10. \A i \in 1 .. n : WellMade(new[i])
  BY <1>5, <1>7, <1>9
<1>11. ASSUME NEW i \in 1 .. n, NEW j \in 1 .. n, Same(new[i], new[j]) PROVE i = j
  <2>1. new[i].detector = new[j].detector
    BY <1>10, <1>11, IdNamesDetector DEF Same
  <2>2. 1 \in 1 .. Len(left)
    BY <1>3
  <2>3. CASE new[i].detector = d
    <3>1. /\ i - b \in 1 .. Len(found) /\ new[i] = found[i - b]
          /\ j - b \in 1 .. Len(found) /\ new[j] = found[j - b]
      BY <1>3, <1>9, <2>1, <2>2, <2>3
    <3>2. i - b = j - b
      BY <1>5, <1>11, <3>1
    <3> QED
      BY <1>8, <3>2
  <2>4. CASE new[i].detector # d
    <3>1. i \in 1 .. b /\ new[i] = batch[i] /\ j \in 1 .. b /\ new[j] = batch[j]
      BY <1>9, <2>1, <2>4
    <3> QED
      BY <1>7, <1>11, <3>1
  <2> QED
    BY <2>3, <2>4
<1>12. ASSUME NEW i \in 1 .. Len(left) - 1, NEW j \in 1 .. Len(left) - 1, Tail(left)[i] = Tail(left)[j]
       PROVE  i = j
  <2>1. i + 1 \in 1 .. Len(left) /\ j + 1 \in 1 .. Len(left)
    BY <1>3
  <2>2. i + 1 = j + 1
    BY <1>4, <1>7, <1>12, <2>1
  <2> QED
    BY <2>2
<1>13. ASSUME NEW i \in 1 .. n, NEW j \in 1 .. Len(left) - 1 PROVE new[i].detector # Tail(left)[j]
  <2>1. 1 \in 1 .. Len(left) /\ j + 1 \in 1 .. Len(left) /\ 1 # j + 1
    BY <1>3
  <2>2. left[j + 1] # left[1] /\ Tail(left)[j] = left[j + 1]
    BY <1>4, <1>7, <2>1
  <2> QED
    BY <1>3, <1>9, <2>1, <2>2
<1>14. OrderlyCheck(k)
  BY <1>4, <1>6, <1>8, <1>10, <1>11, <1>12, <1>13 DEF OrderlyCheck
<1>15. k.left \in Seq(Detectors) /\ k.batch \in Seq(Finding)
  BY <1>4, <1>6, <1>8
<1>16. UNCHANGED <<token, shown>> /\ failures' \in 0 .. MaxFailures /\ Orderly(findings')
  BY DEF Detect, IInv, TypeOK
<1> QED
  BY <1>2, <1>14, <1>15, <1>16, CheckMoves

\* Of a check that fails nothing is left.
LEMMA CheckFailsKeepsIInv == ASSUME IInv, NEW c \in Checkers, CheckFails(c) PROVE IInv'
<1>1. /\ check' = [check EXCEPT ![c] = None] /\ UNCHANGED <<token, shown>>
      /\ Orderly(findings')
  BY DEF CheckFails, IInv
<1>2. failures' \in 0 .. MaxFailures
  BY LinesAssumption DEF CheckFails, IInv, TypeOK
<1> QED
  BY <1>1, <1>2, CheckMoves

\* The batch of a check that runs.
LEMMA BatchOfCheck ==
  ASSUME IInv, NEW c \in Checkers, check[c] # None
  PROVE  LET batch == check[c].batch
         IN  /\ Len(batch) \in Nat /\ DOMAIN batch = 1 .. Len(batch)
             /\ \A i \in 1 .. Len(batch) : WellMade(batch[i])
             /\ \A i, j \in 1 .. Len(batch) : Same(batch[i], batch[j]) => i = j
<1>1. check[c].batch \in Seq(Finding) /\ OrderlyCheck(check[c])
  BY DEF IInv, TypeOK, BatchesAreOrderly
<1> QED
  BY <1>1 DEF OrderlyCheck

\* A batch is committed.
LEMMA CommitKeepsIInv == ASSUME IInv, NEW c \in Checkers, Commit(c) PROVE IInv'
<1>1. check[c] # None /\ findings' = Inserted(findings, check[c].batch)
  BY DEF Commit
<1>2. Orderly(findings')
  BY <1>1, BatchOfCheck, BatchIsOrderly DEF IInv
<1>3. /\ check' = [check EXCEPT ![c] = None] /\ UNCHANGED <<token, shown>>
      /\ failures' \in 0 .. MaxFailures
  BY DEF Commit, IInv, TypeOK
<1> QED
  BY <1>2, <1>3, CheckMoves

\* Every step keeps the inductive invariant.
LEMMA NextIInv == IInv /\ [Next]_vars => IInv'
<1> SUFFICES ASSUME IInv, [Next]_vars PROVE IInv'
  OBVIOUS
<1>1. CASE HostChanges
  BY <1>1, HostChangesKeepsIInv
<1>2. ASSUME NEW c \in Checkers, Proceed(c) \/ CheckFails(c) PROVE IInv'
  BY <1>2, BeginKeepsIInv, DetectKeepsIInv, CommitKeepsIInv, CheckFailsKeepsIInv DEF Proceed
<1>3. CASE UNCHANGED vars
  <2>1. TypeOK'
    BY <1>3 DEF IInv, TypeOK, Reports, Finding, Ids, vars
  <2>2. BatchesAreOrderly'
    BY <1>3 DEF IInv, BatchesAreOrderly, OrderlyCheck, WellMade, vars
  <2>3. Orderly(findings)'
    BY <1>3 DEF IInv, Orderly, WellMade, vars
  <2> QED
    BY <1>3, <2>1, <2>2, <2>3 DEF IInv, vars
<1> QED
  BY <1>1, <1>2, <1>3 DEF Next

\* The invariant holds however checks, commits and failures of several checkers
\* interleave with what the host shows.
THEOREM InvariantHolds == Spec => []IInv
BY InitIInv, NextIInv, PTL DEF Spec

\* Checks run their detectors on findings of their types, and the table holds
\* findings the detectors can make.
THEOREM TypeCorrect == Spec => []TypeOK
<1>1. IInv => TypeOK
  BY DEF IInv
<1> QED
  BY <1>1, InvariantHolds, PTL

\* insert_ring0_findings keeps one row of a finding, whoever reports it, at
\* whatever place.
THEOREM OneRowAlways == Spec => []OneRowPerFinding
<1>1. IInv => OneRowPerFinding
  BY DEF IInv, Orderly, Same, OneRowPerFinding
<1> QED
  BY <1>1, InvariantHolds, PTL

\* All a check found is stored by the commit of its batch.
THEOREM BatchAlwaysVisible == Spec => BatchIsVisible
<1>1. ASSUME IInv, NEW c \in Checkers, Commit(c), NEW i \in DOMAIN check[c].batch
      PROVE  check[c].batch[i] \in findings'
  <2>1. check[c] # None /\ findings' = Inserted(findings, check[c].batch)
    BY <1>1 DEF Commit
  <2> QED
    BY <1>1, <2>1, BatchOfCheck, BatchIsOrderly DEF IInv
<1>2. IInv => \A c \in Checkers : Commit(c) =>
                \A i \in DOMAIN check[c].batch : check[c].batch[i] \in findings'
  BY <1>1
<1> QED
  BY <1>2, InvariantHolds, PTL DEF BatchIsVisible

\* A step that commits nothing leaves the table alone, and a commit leaves a table
\* that is no better.
THEOREM HostTrustNeverImproves == Spec => TrustNeverImproves
<1>1. ASSUME IInv, [Next]_vars, TokensDiffer
      PROVE  AssessHostTrust(findings') >= AssessHostTrust(findings)
  <2>1. ASSUME NEW c \in Checkers, Commit(c)
        PROVE  AssessHostTrust(findings') >= AssessHostTrust(findings)
    <3>1. check[c] # None /\ findings' = Inserted(findings, check[c].batch) /\ Orderly(findings)
      BY <1>1, <2>1 DEF Commit, IInv
    <3>2. NoBetter(findings', findings) /\ Orderly(findings')
      BY <1>1, <3>1, BatchOfCheck, BatchIsOrderly, BatchIsNoBetter
    <3> QED
      BY <3>1, <3>2, GradeFollows
  <2>2. CASE findings' = findings
    <3>1. Orderly(findings)
      BY <1>1 DEF IInv
    <3>2. Cardinality(findings) \in Nat
      BY <3>1, FS_CardinalityType DEF Orderly
    <3>3. AssessHostTrust(findings) \in Nat
      BY DEF AssessHostTrust
    <3> QED
      BY <2>2, <3>3
  <2>3. CASE \E c \in Checkers : Commit(c)
    BY <2>1, <2>3
  <2> QED
    BY <1>1, <2>2, <2>3 DEF Next, HostChanges, Proceed, Begin, Detect, CheckFails, vars
<1>2. IInv /\ [Next]_vars =>
        [TokensDiffer => AssessHostTrust(findings') >= AssessHostTrust(findings)]_vars
  BY <1>1
<1> QED
  BY <1>2, InvariantHolds, PTL DEF Spec, TrustNeverImproves
=============================================================================
