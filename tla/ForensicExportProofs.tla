------------------------ MODULE ForensicExportProofs ------------------------
(***************************************************************************)
(* For any number of exporters and versions: a manifest is only found with *)
(* every file it names, and an export with no other beside it leaves a     *)
(* package of its own bundle.                                              *)
(***************************************************************************)
EXTENDS ForensicExport, TLAPS

\* The manifest is the last of the eight files, and no file is written twice.
LEMMA FilesInOrder ==
  /\ \A i \in 1 .. 8 : Files[i] \in FileNames
  /\ \A i, j \in 1 .. 8 : Files[i] = Files[j] => i = j
  /\ \A f \in FileNames : \E i \in 1 .. 8 : Files[i] = f
  /\ \A i \in 1 .. 8 : Files[i] = "manifest" => i = 8
<1>1. \A i \in 1 .. 8 : i \in {1, 2, 3, 4, 5, 6, 7, 8}
  OBVIOUS
<1>2. /\ Files[1] = "report" /\ Files[2] = "timeline" /\ Files[3] = "incident"
      /\ Files[4] = "ioc-hits" /\ Files[5] = "attack-tags" /\ Files[6] = "ring0-findings"
      /\ Files[7] = "edr-evidence" /\ Files[8] = "manifest"
  BY DEF Files
<1>3. {1, 2, 3, 4, 5, 6, 7, 8} \subseteq 1 .. 8
  OBVIOUS
<1> QED
  BY <1>1, <1>2, <1>3 DEF FileNames

\* An export that is done has no file open.
OpenIsUnfinished ==
  \A e \in Exporters : (export[e] # None /\ export[e].open) => export[e].next <= 8

\* What an export has created so far is there.
CreatedIsPresent ==
  \A e \in Exporters : export[e] # None =>
    \A i \in 1 .. 8 :
      (i < export[e].next \/ (export[e].open /\ i = export[e].next)) => Files[i] \in present

\* Beside one that is alone there is no other.
AloneMeansAlone ==
  \A e \in Exporters : (export[e] # None /\ export[e].alone) =>
    \A y \in Exporters \ {e} : export[y] = None

\* What one that is alone has written is its own, and the file it writes is
\* empty.
AloneWritesItsOwn ==
  \A e \in Exporters : (export[e] # None /\ export[e].alone) =>
    \A i \in 1 .. 8 :
      /\ i < export[e].next => content[Files[i]] = {export[e].bundle}
      /\ (export[e].open /\ i = export[e].next) => content[Files[i]] = {}

IInv ==
  /\ TypeOK /\ OpenIsUnfinished /\ CreatedIsPresent /\ ManifestNamesFiles
  /\ AloneMeansAlone /\ AloneWritesItsOwn

\* Initially nothing is written and nobody writes.
LEMMA InitInvariant == Init => IInv
BY ExportAssumption DEF Init, IInv, TypeOK, OpenIsUnfinished, CreatedIsPresent,
   ManifestNamesFiles, AloneMeansAlone, AloneWritesItsOwn, Versions

\* Begin keeps the invariant: what was there stays, and nobody is alone any
\* more but perhaps the new one.
LEMMA BeginPreserves ==
  ASSUME IInv, NEW e \in Exporters, Begin(e)
  PROVE  IInv'
<1> DEFINE new == [bundle |-> version, next |-> 1, open |-> FALSE,
                   alone |-> \A y \in Exporters : export[y] = None]
<1>1. /\ new \in Export /\ new # None
      /\ \A x \in Exporters : export[x] # None => export[x] \in Export
  <2>1. (\A y \in Exporters : export[y] = None) \in BOOLEAN
    OBVIOUS
  <2>2. new \in Export
    BY <2>1 DEF IInv, TypeOK, Export
  <2> QED
    BY <2>2, ExportAssumption DEF IInv, TypeOK
<1>2. /\ export'[e] = new
      /\ \A x \in Exporters \ {e} :
           /\ export[x] = None => export'[x] = None
           /\ export[x] # None => /\ export'[x] = [export[x] EXCEPT !.alone = FALSE]
                                  /\ export'[x] \in Export
  <2> HIDE DEF new
  <2>1. export' = [x \in Exporters |-> IF x = e THEN new
                     ELSE IF export[x] = None THEN None ELSE [export[x] EXCEPT !.alone = FALSE]]
    BY DEF Begin, new
  <2>2. \A x \in Exporters : export[x] # None => [export[x] EXCEPT !.alone = FALSE] \in Export
    BY <1>1 DEF Export
  <2> QED
    BY <2>1, <2>2
<1>3. /\ new.next = 1 /\ new.open = FALSE /\ new.alone = (\A y \in Exporters : export[y] = None)
  OBVIOUS
<1> HIDE DEF new
<1>4. \A x \in Exporters \ {e} : export'[x] # None =>
        /\ export[x] # None /\ export'[x].alone = FALSE
        /\ export'[x].next = export[x].next /\ export'[x].open = export[x].open
  BY <1>1, <1>2 DEF Export
<1>5. UNCHANGED <<version, present, content>>
  BY DEF Begin
<1>6. TypeOK'
  <2>1. export' \in [Exporters -> Export \cup {None}]
    <3>1. \E F : export' = [x \in Exporters |-> F[x]]
      <4>1. export' = [x \in Exporters |-> export'[x]]
        BY DEF Begin
      <4> QED
        BY <4>1
    <3>2. \A x \in Exporters : export'[x] \in Export \cup {None}
      BY <1>1, <1>2
    <3> QED
      BY <3>1, <3>2
  <2> QED
    BY <2>1, <1>5 DEF IInv, TypeOK, Versions
<1>7. OpenIsUnfinished'
  BY <1>2, <1>3, <1>4 DEF IInv, OpenIsUnfinished
<1>8. CreatedIsPresent'
  BY <1>2, <1>3, <1>4, <1>5 DEF IInv, CreatedIsPresent
<1>9. ManifestNamesFiles'
  BY <1>5 DEF IInv, ManifestNamesFiles
<1>10. AloneMeansAlone'
  BY <1>2, <1>3, <1>4 DEF AloneMeansAlone
<1>11. AloneWritesItsOwn'
  BY <1>2, <1>3, <1>4 DEF AloneWritesItsOwn
<1> QED
  BY <1>6, <1>7, <1>8, <1>9, <1>10, <1>11 DEF IInv

\* Create keeps it: the manifest is created when the seven others are there.
LEMMA CreatePreserves ==
  ASSUME IInv, NEW e \in Exporters, Create(e)
  PROVE  IInv'
<1> DEFINE n == export[e].next
<1>1. /\ export[e] \in Export /\ export[e] # None
      /\ n \in 1 .. 8 /\ export[e].open = FALSE /\ Files[n] \in FileNames
  BY FilesInOrder DEF Create, IInv, TypeOK, Export
<1>2. /\ export' = [export EXCEPT ![e].open = TRUE]
      /\ present' = present \cup {Files[n]}
      /\ content' = [content EXCEPT ![Files[n]] = {}]
      /\ version' = version
  BY DEF Create
<1>3. [export[e] EXCEPT !.open = TRUE] \in Export
  BY <1>1 DEF Export
<1>4. /\ export'[e] \in Export /\ export'[e] # None
      /\ export'[e].next = n /\ export'[e].open = TRUE
      /\ export'[e].alone = export[e].alone /\ export'[e].bundle = export[e].bundle
      /\ \A x \in Exporters \ {e} : export'[x] = export[x]
  BY <1>1, <1>2, <1>3, ExportAssumption DEF IInv, TypeOK, Export
<1>5. TypeOK'
  <2>1. export' \in [Exporters -> Export \cup {None}]
    BY <1>2, <1>3 DEF IInv, TypeOK
  <2>2. present' \subseteq FileNames /\ content' \in [FileNames -> SUBSET Versions]
    BY <1>1, <1>2 DEF IInv, TypeOK
  <2> QED
    BY <1>2, <2>1, <2>2 DEF IInv, TypeOK
<1> HIDE DEF n
<1>6. OpenIsUnfinished'
  BY <1>1, <1>4 DEF IInv, OpenIsUnfinished
<1>7. CreatedIsPresent'
  <2>1. \A i \in 1 .. 8 : i < n => Files[i] \in present
    BY <1>1 DEF IInv, CreatedIsPresent, n
  <2> QED
    BY <1>1, <1>2, <1>4, <2>1 DEF IInv, CreatedIsPresent
<1>8. ManifestNamesFiles'
  <2>1. CASE Files[n] = "manifest"
    <3>1. n = 8
      BY <1>1, <2>1, FilesInOrder
    <3>2. \A i \in 1 .. 8 : Files[i] \in present'
      <4>1. \A i \in 1 .. 8 : i < 8 => Files[i] \in present
        BY <1>1, <3>1 DEF IInv, CreatedIsPresent, n
      <4> QED
        BY <1>2, <3>1, <4>1
    <3> QED
      BY <1>5, <3>2, FilesInOrder DEF ManifestNamesFiles, TypeOK
  <2>2. CASE Files[n] # "manifest"
    BY <1>1, <1>2, <2>2 DEF IInv, ManifestNamesFiles
  <2> QED
    BY <2>1, <2>2
<1>9. AloneMeansAlone'
  BY <1>1, <1>4 DEF IInv, AloneMeansAlone
<1>10. AloneWritesItsOwn'
  <2>1. \A x \in Exporters \ {e} : ~(export'[x] # None /\ export'[x].alone)
    BY <1>1, <1>4 DEF IInv, AloneMeansAlone
  <2>2. ASSUME export[e].alone, NEW i \in 1 .. 8
        PROVE  /\ i < n => content'[Files[i]] = {export[e].bundle}
               /\ i = n => content'[Files[i]] = {}
    <3>1. content \in [FileNames -> SUBSET Versions] /\ Files[i] \in FileNames
      BY FilesInOrder DEF IInv, TypeOK
    <3>2. i < n => content[Files[i]] = {export[e].bundle} /\ Files[i] # Files[n]
      BY <1>1, <2>2, FilesInOrder DEF IInv, AloneWritesItsOwn, n
    <3> QED
      BY <1>1, <1>2, <3>1, <3>2
  <2> QED
    BY <1>4, <2>1, <2>2 DEF AloneWritesItsOwn
<1> QED
  BY <1>5, <1>6, <1>7, <1>8, <1>9, <1>10 DEF IInv

\* Fill keeps it: an export that is alone fills a file that is empty.
LEMMA FillPreserves ==
  ASSUME IInv, NEW e \in Exporters, Fill(e)
  PROVE  IInv'
<1> DEFINE n == export[e].next
           mine == {export[e].bundle}
<1>1. /\ export[e] \in Export /\ export[e] # None /\ export[e].open = TRUE
      /\ n \in 1 .. 8 /\ Files[n] \in FileNames /\ mine \in SUBSET Versions
  <2>1. export[e] \in Export /\ export[e] # None /\ export[e].open = TRUE
    BY DEF Fill, IInv, TypeOK, Export
  <2>2. n \in 1 .. 8
    BY <2>1 DEF IInv, OpenIsUnfinished, Export
  <2>3. mine \in SUBSET Versions
    BY <2>1 DEF Export
  <2> QED
    BY <2>1, <2>2, <2>3, FilesInOrder
<1>2. /\ export' = [export EXCEPT ![e].open = FALSE, ![e].next = n + 1]
      /\ \/ content' = [content EXCEPT ![Files[n]] = mine]
         \/ content' = [content EXCEPT ![Files[n]] = content[Files[n]] \cup mine]
      /\ present' = present /\ version' = version
  BY DEF Fill, IInv, TypeOK
<1>3. [export[e] EXCEPT !.open = FALSE, !.next = n + 1] \in Export
  <2>1. n + 1 \in 1 .. 9
    BY <1>1
  <2> HIDE DEF n
  <2> QED
    BY <1>1, <2>1 DEF Export
<1>4. /\ export'[e] \in Export /\ export'[e] # None
      /\ export'[e].next = n + 1 /\ export'[e].open = FALSE
      /\ export'[e].alone = export[e].alone /\ export'[e].bundle = export[e].bundle
      /\ \A x \in Exporters \ {e} : export'[x] = export[x]
  <2>1. export'[e] = [export[e] EXCEPT !.open = FALSE, !.next = n + 1]
    BY <1>2 DEF IInv, TypeOK
  <2>2. \A x \in Exporters \ {e} : export'[x] = export[x]
    BY <1>2 DEF IInv, TypeOK
  <2> QED
    BY <1>1, <1>3, <2>1, <2>2, ExportAssumption DEF Export
<1> HIDE DEF n, mine
<1>5. TypeOK'
  <2>1. export' \in [Exporters -> Export \cup {None}]
    BY <1>2, <1>3 DEF IInv, TypeOK
  <2>2. content' \in [FileNames -> SUBSET Versions]
    BY <1>1, <1>2 DEF IInv, TypeOK
  <2> QED
    BY <1>2, <2>1, <2>2 DEF IInv, TypeOK
<1>6. OpenIsUnfinished'
  BY <1>4 DEF IInv, OpenIsUnfinished
<1>7. CreatedIsPresent'
  <2>1. \A i \in 1 .. 8 : i < n + 1 => Files[i] \in present
    BY <1>1 DEF IInv, CreatedIsPresent, n
  <2> QED
    BY <1>2, <1>4, <2>1 DEF IInv, CreatedIsPresent
<1>8. ManifestNamesFiles'
  BY <1>2 DEF IInv, ManifestNamesFiles
<1>9. AloneMeansAlone'
  BY <1>1, <1>4 DEF IInv, AloneMeansAlone
<1>10. AloneWritesItsOwn'
  <2>1. \A x \in Exporters \ {e} : ~(export'[x] # None /\ export'[x].alone)
    BY <1>1, <1>4 DEF IInv, AloneMeansAlone
  <2>2. ASSUME export[e].alone, NEW i \in 1 .. 8, i < n + 1
        PROVE  content'[Files[i]] = {export[e].bundle}
    <3>1. content \in [FileNames -> SUBSET Versions] /\ Files[i] \in FileNames
      BY FilesInOrder DEF IInv, TypeOK
    <3>2. CASE i = n
      <4>1. content[Files[n]] = {}
        BY <1>1, <2>2 DEF IInv, AloneWritesItsOwn, n
      <4> QED
        BY <1>1, <1>2, <3>1, <3>2, <4>1 DEF mine
    <3>3. CASE i # n
      <4>1. i < n
        BY <1>1, <2>2, <3>3
      <4>2. content[Files[i]] = {export[e].bundle} /\ Files[i] # Files[n]
        BY <1>1, <2>2, <4>1, FilesInOrder DEF IInv, AloneWritesItsOwn, n
      <4> QED
        BY <1>1, <1>2, <3>1, <4>2
    <3> QED
      BY <3>2, <3>3
  <2> QED
    BY <1>4, <2>1, <2>2 DEF AloneWritesItsOwn
<1> QED
  BY <1>5, <1>6, <1>7, <1>8, <1>9, <1>10 DEF IInv

\* An export that ends, done or not, leaves what there is.
LEMMA EndPreserves ==
  ASSUME IInv, NEW e \in Exporters, Finish(e) \/ Stop(e)
  PROVE  IInv'
<1>1. export' = [export EXCEPT ![e] = None] /\ UNCHANGED <<version, present, content>>
  BY DEF Finish, Stop
<1>2. export'[e] = None /\ \A x \in Exporters \ {e} : export'[x] = export[x]
  BY <1>1 DEF IInv, TypeOK
<1>3. TypeOK'
  BY <1>1 DEF IInv, TypeOK
<1>4. OpenIsUnfinished' /\ CreatedIsPresent' /\ ManifestNamesFiles'
  BY <1>1, <1>2 DEF IInv, OpenIsUnfinished, CreatedIsPresent, ManifestNamesFiles
<1>5. AloneMeansAlone' /\ AloneWritesItsOwn'
  BY <1>1, <1>2 DEF IInv, AloneMeansAlone, AloneWritesItsOwn
<1> QED
  BY <1>3, <1>4, <1>5 DEF IInv

\* Every step keeps the invariant.
LEMMA StepPreserves == IInv /\ [Next]_vars => IInv'
<1> SUFFICES ASSUME IInv, [Next]_vars
             PROVE  IInv'
  OBVIOUS
<1>1. CASE StoreGrows
  BY <1>1, ExportAssumption DEF StoreGrows, IInv, TypeOK, Versions, OpenIsUnfinished,
     CreatedIsPresent, ManifestNamesFiles, AloneMeansAlone, AloneWritesItsOwn
<1>2. ASSUME NEW e \in Exporters, Begin(e) PROVE IInv'
  BY <1>2, BeginPreserves
<1>3. ASSUME NEW e \in Exporters, Create(e) PROVE IInv'
  BY <1>3, CreatePreserves
<1>4. ASSUME NEW e \in Exporters, Fill(e) PROVE IInv'
  BY <1>4, FillPreserves
<1>5. ASSUME NEW e \in Exporters, Finish(e) \/ Stop(e) PROVE IInv'
  BY <1>5, EndPreserves
<1>6. CASE UNCHANGED vars
  BY <1>6 DEF vars, IInv, TypeOK, Versions, OpenIsUnfinished, CreatedIsPresent,
     ManifestNamesFiles, AloneMeansAlone, AloneWritesItsOwn
<1> QED
  BY <1>1, <1>2, <1>3, <1>4, <1>5, <1>6 DEF Next

\* The invariant holds always.
THEOREM ExportInvariantHolds == Spec => []IInv
<1>1. Init => IInv
  BY InitInvariant
<1>2. IInv /\ [Next]_vars => IInv'
  BY StepPreserves
<1> QED
  BY <1>1, <1>2, PTL DEF Spec

\* write_forensic_package writes the manifest last: wherever exports stop, and
\* however many overlap, a manifest is only found with every file it names.
THEOREM ManifestAlwaysNamesFiles == Spec => []ManifestNamesFiles
<1>1. IInv => ManifestNamesFiles
  BY DEF IInv
<1> QED
  BY <1>1, ExportInvariantHolds, PTL

\* An export of export_incident_package with no other beside it leaves files of
\* its own bundle alone, whatever package it found.
THEOREM LoneExportIsAlwaysWhole == Spec => []LoneExportIsWhole
<1>1. IInv => LoneExportIsWhole
  <2> SUFFICES ASSUME IInv, NEW e \in Exporters, export[e] # None, export[e].next = 9,
                      export[e].alone
               PROVE  present = FileNames /\ \A f \in FileNames : content[f] = {export[e].bundle}
    BY DEF LoneExportIsWhole
  <2>1. \A i \in 1 .. 8 : Files[i] \in present /\ content[Files[i]] = {export[e].bundle}
    BY DEF IInv, CreatedIsPresent, AloneWritesItsOwn
  <2>2. \A f \in FileNames : f \in present /\ content[f] = {export[e].bundle}
    <3> SUFFICES ASSUME NEW f \in FileNames
                 PROVE  f \in present /\ content[f] = {export[e].bundle}
      OBVIOUS
    <3>1. PICK i \in 1 .. 8 : Files[i] = f
      BY FilesInOrder
    <3> QED
      BY <2>1, <3>1
  <2>3. present \subseteq FileNames
    BY DEF IInv, TypeOK
  <2> QED
    BY <2>2, <2>3
<1> QED
  BY <1>1, ExportInvariantHolds, PTL
=============================================================================
