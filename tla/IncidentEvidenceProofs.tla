----------------------- MODULE IncidentEvidenceProofs -----------------------
(***************************************************************************)
(* For any deliveries, lineage and limit, and deliveries that are stored   *)
(* between the queries: what was stored before the reader began, within    *)
(* the limit, is read, and everything read that belongs to the incident is *)
(* shown.                                                                  *)
(***************************************************************************)
EXTENDS IncidentEvidence, SequenceTheorems, FiniteSetTheorems, FunctionTheorems,
        WellFoundedInduction, TLAPS

Elements(s) == {s[i] : i \in 1 .. Len(s)}

\* There are pids left to read exactly while the reader is reading.
WayOfReading ==
  /\ reader \in {"events", "alerts"} => left # <<>>
  /\ reader \in {"match", "done"} => left = <<>>

\* An event there before the reader began is read, or its pid is still to read.
EventsAreRead ==
  reader # "begin" =>
    \A e \in before.events : (e.pid \in PidScope /\ WithinLimit(events, e.pid)) =>
      \/ e \in Elements(seenEvents)
      \/ e.pid \in Elements(left) /\ ~(reader = "alerts" /\ e.pid = left[1])

AlertsAreRead ==
  reader # "begin" =>
    \A a \in before.alerts : (a.pid \in PidScope /\ WithinLimit(alerts, a.pid)) =>
      a \in Elements(seenAlerts) \/ a.pid \in Elements(left)

EvidenceIsMade == reader = "done" => evidence = EventItems \cup AlertItems

IInv == TypeOK /\ WayOfReading /\ EventsAreRead /\ AlertsAreRead /\ EvidenceIsMade

-----------------------------------------------------------------------------
(* Sequences and the sets of their elements.                               *)

\* A set of naturals that is not empty has a least element.
LEMMA LeastNatural ==
  ASSUME NEW T, T \subseteq Nat, T # {}
  PROVE  \E x \in T : \A y \in T : x <= y
<1>1. PICK x \in T : \A y \in T : ~ (<<y, x>> \in OpToRel(<, Nat))
  BY WFMin, NatLessThanWellFounded, Zenon
<1>2. \A y \in T : ~(y < x)
  BY <1>1, Zenon DEF OpToRel
<1>3. \A y \in T : x <= y
  BY <1>2
<1> QED
  BY <1>3

\* A function from 1 .. n is a sequence of n elements.
LEMMA FunctionIsSeq ==
  ASSUME NEW S, NEW n \in Nat, NEW f \in [1 .. n -> S]
  PROVE  f \in Seq(S) /\ Len(f) = n
<1>1. f \in Seq(S)
  BY SeqDef
<1>2. DOMAIN f = 1 .. n /\ DOMAIN f = 1 .. Len(f) /\ Len(f) \in Nat
  BY <1>1, LenProperties
<1>3. CASE Len(f) < n
  <2>1. n \in 1 .. n /\ n \notin 1 .. Len(f)
    BY <1>2, <1>3
  <2> QED
    BY <1>2, <2>1
<1>4. CASE n < Len(f)
  <2>1. Len(f) \in 1 .. Len(f) /\ Len(f) \notin 1 .. n
    BY <1>2, <1>4
  <2> QED
    BY <1>2, <2>1
<1> QED
  BY <1>1, <1>2, <1>3, <1>4

\* A sequence has its elements in its set, at the places of its domain.
LEMMA SeqElements ==
  ASSUME NEW S, NEW s \in Seq(S)
  PROVE  /\ Len(s) \in Nat /\ DOMAIN s = 1 .. Len(s)
         /\ \A i \in DOMAIN s : s[i] \in S /\ s[i] \in Elements(s)
         /\ Elements(s) \subseteq S
<1>1. Len(s) \in Nat /\ DOMAIN s = 1 .. Len(s) /\ \A i \in 1 .. Len(s) : s[i] \in S
  BY LenProperties, ElementOfSeq
<1> QED
  BY <1>1 DEF Elements

\* A concatenation has the elements of both.
LEMMA ConcatElements ==
  ASSUME NEW S, NEW s \in Seq(S), NEW t \in Seq(S)
  PROVE  /\ s \o t \in Seq(S)
         /\ Elements(s) \subseteq Elements(s \o t) /\ Elements(t) \subseteq Elements(s \o t)
<1> DEFINE u == s \o t
<1>1. Len(s) \in Nat /\ Len(t) \in Nat
  BY LenProperties
<1>2. /\ u \in Seq(S) /\ Len(u) = Len(s) + Len(t)
      /\ \A i \in 1 .. Len(s) + Len(t) : u[i] = IF i <= Len(s) THEN s[i] ELSE t[i - Len(s)]
  BY ConcatProperties
<1> HIDE DEF u
<1>3. \A i \in 1 .. Len(s) : i \in 1 .. Len(u) /\ u[i] = s[i]
  BY <1>1, <1>2
<1>4. \A i \in 1 .. Len(t) : i + Len(s) \in 1 .. Len(u) /\ u[i + Len(s)] = t[i]
  <2> SUFFICES ASSUME NEW i \in 1 .. Len(t)
               PROVE  i + Len(s) \in 1 .. Len(u) /\ u[i + Len(s)] = t[i]
    OBVIOUS
  <2>1. /\ i + Len(s) \in 1 .. Len(s) + Len(t)
        /\ ~(i + Len(s) <= Len(s)) /\ (i + Len(s)) - Len(s) = i
    BY <1>1
  <2>2. u[i + Len(s)] = t[(i + Len(s)) - Len(s)]
    BY <1>2, <2>1
  <2> QED
    BY <1>2, <2>1, <2>2
<1>5. Elements(s) \subseteq Elements(u)
  BY <1>3 DEF Elements
<1>6. Elements(t) \subseteq Elements(u)
  BY <1>4 DEF Elements
<1> QED
  BY <1>2, <1>5, <1>6 DEF u

\* What Tail takes off is the first element.
LEMMA TailElements ==
  ASSUME NEW S, NEW s \in Seq(S), s # <<>>
  PROVE  /\ Head(s) = s[1] /\ s[1] \in S /\ Tail(s) \in Seq(S)
         /\ Elements(s) \subseteq {s[1]} \cup Elements(Tail(s))
         /\ Len(s) = 1 <=> Tail(s) = <<>>
<1> DEFINE t == Tail(s)
<1>1. /\ Len(s) \in Nat /\ Len(s) >= 1 /\ s[1] \in S /\ Head(s) = s[1]
      /\ t \in Seq(S) /\ Len(t) = Len(s) - 1
      /\ \A i \in 1 .. Len(t) : t[i] = s[i + 1]
  BY EmptySeq, LenProperties, ElementOfSeq, HeadTailProperties
<1> HIDE DEF t
<1>2. ASSUME NEW i \in 1 .. Len(s), i # 1
      PROVE  s[i] \in Elements(t)
  <2>1. i - 1 \in 1 .. Len(t) /\ (i - 1) + 1 = i
    BY <1>1, <1>2
  <2> QED
    BY <1>1, <2>1 DEF Elements
<1>3. Elements(s) \subseteq {s[1]} \cup Elements(t)
  BY <1>2 DEF Elements
<1>4. Len(s) = 1 <=> t = <<>>
  BY <1>1, EmptySeq
<1> QED
  BY <1>1, <1>3, <1>4 DEF t

-----------------------------------------------------------------------------
(* Finite sets in order.  An order is a set of pairs.                      *)

IsOrder(R, set) ==
  /\ \A x \in set : <<x, x>> \notin R
  /\ \A x, y, z \in set : (<<x, y>> \in R /\ <<y, z>> \in R) => <<x, z>> \in R
  /\ \A x, y \in set : x = y \/ <<x, y>> \in R \/ <<y, x>> \in R

Ahead(R, set, x) == {y \in set : <<y, x>> \in R}
Rank(R, set, x) == Cardinality(Ahead(R, set, x))

\* Elements differ in how many are ahead of them.
LEMMA RanksDiffer ==
  ASSUME NEW set, NEW R, IsFiniteSet(set), IsOrder(R, set)
  PROVE  /\ Cardinality(set) \in Nat
         /\ \A x \in set : Rank(R, set, x) \in 0 .. Cardinality(set) - 1
         /\ \A x, y \in set : Rank(R, set, x) = Rank(R, set, y) => x = y
<1>1. Cardinality(set) \in Nat
  BY FS_CardinalityType
<1>2. ASSUME NEW x \in set
      PROVE  /\ IsFiniteSet(Ahead(R, set, x)) /\ Rank(R, set, x) \in Nat
             /\ Rank(R, set, x) \in 0 .. Cardinality(set) - 1
  <2>1. Ahead(R, set, x) \in SUBSET (set \ {x})
    BY DEF Ahead, IsOrder
  <2>2. IsFiniteSet(set \ {x}) /\ Cardinality(set \ {x}) = Cardinality(set) - 1
    BY FS_RemoveElement
  <2>3. /\ IsFiniteSet(Ahead(R, set, x))
        /\ Cardinality(Ahead(R, set, x)) <= Cardinality(set) - 1
    BY <2>1, <2>2, FS_Subset
  <2>4. Cardinality(Ahead(R, set, x)) \in Nat
    BY <2>3, FS_CardinalityType
  <2> QED
    BY <1>1, <2>3, <2>4 DEF Rank
<1>3. ASSUME NEW x \in set, NEW y \in set, <<x, y>> \in R
      PROVE  Rank(R, set, x) < Rank(R, set, y)
  <2> DEFINE few == Ahead(R, set, x)
             many == Ahead(R, set, y)
  <2>1. IsFiniteSet(many) /\ Cardinality(few) \in Nat /\ Cardinality(many) \in Nat
    BY <1>2 DEF Rank
  <2>2. few \in SUBSET many
    BY <1>3 DEF Ahead, IsOrder
  <2>3. x \in many /\ x \notin few
    BY <1>3 DEF Ahead, IsOrder
  <2> HIDE DEF few, many
  <2>4. Cardinality(few) <= Cardinality(many) /\ Cardinality(few) # Cardinality(many)
    BY <2>1, <2>2, <2>3, FS_Subset
  <2>5. Cardinality(few) < Cardinality(many)
    BY <2>1, <2>4
  <2> QED
    BY <2>5 DEF few, many, Rank
<1>4. ASSUME NEW x \in set, NEW y \in set, Rank(R, set, x) = Rank(R, set, y)
      PROVE  x = y
  <2>1. Rank(R, set, x) \in Nat /\ Rank(R, set, y) \in Nat
    BY <1>2
  <2>2. ~(Rank(R, set, x) < Rank(R, set, y)) /\ ~(Rank(R, set, y) < Rank(R, set, x))
    BY <1>4, <2>1
  <2>3. <<x, y>> \notin R /\ <<y, x>> \notin R
    BY <1>3, <2>2
  <2> QED
    BY <2>3 DEF IsOrder
<1> QED
  BY <1>1, <1>2, <1>4

\* Every rank below the size of the set is some element's.
LEMMA RanksAreTaken ==
  ASSUME NEW set, NEW R, IsFiniteSet(set), IsOrder(R, set), NEW n \in 0 .. Cardinality(set) - 1
  PROVE  \E x \in set : Rank(R, set, x) = n
<1> DEFINE size == Cardinality(set)
           f == [x \in set |-> Rank(R, set, x)]
<1>1. size \in Nat /\ \A x \in set : f[x] \in 0 .. size - 1
  BY RanksDiffer
<1>2. \A x, y \in set : f[x] = f[y] => x = y
  BY RanksDiffer
<1>3. IsFiniteSet(0 .. size - 1) /\ Cardinality(0 .. size - 1) = size
  <2>1. 0 \in Int /\ size - 1 \in Int
    BY <1>1
  <2>2. /\ IsFiniteSet(0 .. size - 1)
        /\ Cardinality(0 .. size - 1) = IF 0 > size - 1 THEN 0 ELSE (size - 1) - 0 + 1
    BY <2>1, FS_Interval
  <2> HIDE DEF size
  <2> QED
    BY <1>1, <2>2
<1>4. f \in [set -> 0 .. size - 1]
  BY <1>1
<1>5. f \in Injection(set, 0 .. size - 1)
  BY <1>2, <1>4 DEF Injection, IsInjective
<1> HIDE DEF f
<1>6. f \in Surjection(set, 0 .. size - 1)
  BY <1>3, <1>5, FS_Injection
<1>7. \E x \in set : f[x] = n
  BY <1>6 DEF Surjection
<1> QED
  BY <1>7 DEF f

\* A sequence of elements by rank is, if it is as long, all of the set.
LEMMA ByRank ==
  ASSUME NEW set, NEW R, IsFiniteSet(set), IsOrder(R, set),
         NEW m \in 0 .. Cardinality(set), NEW s \in [1 .. m -> set],
         \A i \in 1 .. m : Rank(R, set, s[i]) = i - 1
  PROVE  s \in Seq(set) /\ Len(s) = m /\ (m = Cardinality(set) => Elements(s) = set)
<1>1. /\ Cardinality(set) \in Nat
      /\ \A x \in set : Rank(R, set, x) \in 0 .. Cardinality(set) - 1
      /\ \A x, y \in set : Rank(R, set, x) = Rank(R, set, y) => x = y
  BY RanksDiffer
<1>2. m \in Nat
  BY <1>1
<1>3. s \in Seq(set) /\ Len(s) = m
  BY <1>2, FunctionIsSeq
<1>4. ASSUME m = Cardinality(set), NEW x \in set
      PROVE  x \in Elements(s)
  <2> DEFINE i == Rank(R, set, x) + 1
  <2>1. i \in 1 .. m /\ i - 1 = Rank(R, set, x)
    BY <1>1, <1>4
  <2>2. s[i] = x
    BY <1>1, <2>1
  <2> QED
    BY <1>3, <2>1, <2>2 DEF Elements
<1>5. Elements(s) \subseteq set
  BY <1>3, SeqElements
<1> QED
  BY <1>3, <1>4, <1>5

NewerPairs(rows) == {p \in rows \X rows : Newer(p[1], p[2])}

\* Rows are in an order, newest first, in which their ids tell them apart.
LEMMA NewerIsOrder ==
  ASSUME NEW rows, rows \subseteq Deliveries
  PROVE  /\ IsOrder(NewerPairs(rows), rows)
         /\ \A d \in rows : Ahead(NewerPairs(rows), rows, d) = {e \in rows : Newer(e, d)}
<1>1. \A d \in rows : d.at \in Nat /\ d.id \in Nat
  BY DeliveriesAssumption DEF DeliveryRow
<1>2. \A d, e \in rows : d.id = e.id => d = e
  BY DeliveriesAssumption
<1>3. \A d, e \in rows : <<d, e>> \in NewerPairs(rows) <=> Newer(d, e)
  BY DEF NewerPairs
<1>4. \A d \in rows : ~Newer(d, d)
  BY <1>1 DEF Newer
<1>5. \A d, e, f \in rows : (Newer(d, e) /\ Newer(e, f)) => Newer(d, f)
  BY <1>1 DEF Newer
<1>6. \A d, e \in rows : d = e \/ Newer(d, e) \/ Newer(e, d)
  BY <1>1, <1>2 DEF Newer
<1>7. IsOrder(NewerPairs(rows), rows)
  BY <1>3, <1>4, <1>5, <1>6 DEF IsOrder
<1> QED
  BY <1>3, <1>7 DEF Ahead

\* A query returns rows of its pid, and all of them if they are no more than the limit.
LEMMA NewestRows ==
  ASSUME NEW table, table \subseteq Deliveries, NEW pid
  PROVE  /\ Newest(table, pid) \in Seq(table)
         /\ WithinLimit(table, pid) => \A d \in table : d.pid = pid => d \in Elements(Newest(table, pid))
<1> DEFINE rows == {d \in table : d.pid = pid}
           count == Cardinality(rows)
           m == IF count < Limit THEN count ELSE Limit
           s == Newest(table, pid)
           R == NewerPairs(rows)
<1>1. rows \subseteq Deliveries /\ rows \subseteq table /\ IsFiniteSet(rows)
  BY DeliveriesAssumption, FS_Subset
<1>2. count \in Nat /\ Limit \in Nat
  BY <1>1, FS_CardinalityType, LineageAssumption
<1>3. m \in 0 .. count /\ (count <= Limit => m = count)
  BY <1>2
<1>4. s = [i \in 1 .. m |-> CHOOSE d \in rows : Cardinality({e \in rows : Newer(e, d)}) = i - 1]
  BY DEF Newest
<1>5. /\ IsOrder(R, rows)
      /\ \A d \in rows : Rank(R, rows, d) = Cardinality({e \in rows : Newer(e, d)})
  BY <1>1, NewerIsOrder DEF Rank
<1>6. \A d \in table : d.pid = pid => d \in rows
  OBVIOUS
<1>7. WithinLimit(table, pid) => count <= Limit
  BY DEF WithinLimit
<1> HIDE DEF rows, count, m, s, R
<1>8. ASSUME NEW i \in 1 .. m
      PROVE  s[i] \in rows /\ Rank(R, rows, s[i]) = i - 1
  <2>1. i - 1 \in 0 .. count - 1
    BY <1>2, <1>3
  <2>2. \E d \in rows : Rank(R, rows, d) = i - 1
    BY <1>1, <1>5, <2>1, RanksAreTaken DEF count
  <2>3. \E d \in rows : Cardinality({e \in rows : Newer(e, d)}) = i - 1
    BY <1>5, <2>2
  <2>4. s[i] = CHOOSE d \in rows : Cardinality({e \in rows : Newer(e, d)}) = i - 1
    BY <1>4
  <2>5. s[i] \in rows /\ Cardinality({e \in rows : Newer(e, s[i])}) = i - 1
    BY <2>3, <2>4
  <2> QED
    BY <1>5, <2>5
<1>9. s \in [1 .. m -> rows]
  BY <1>4, <1>8
<1>10. s \in Seq(rows) /\ (m = count => Elements(s) = rows)
  BY <1>1, <1>3, <1>5, <1>8, <1>9, ByRank DEF count
<1>11. s \in Seq(table)
  <2>1. \A i \in 1 .. m : s[i] \in table
    BY <1>1, <1>8
  <2>2. s \in [1 .. m -> table]
    BY <1>9, <2>1
  <2>3. m \in Nat
    BY <1>2, <1>3
  <2> QED
    BY <2>2, <2>3, FunctionIsSeq
<1> QED
  BY <1>3, <1>6, <1>7, <1>10, <1>11 DEF s

\* The reader begins with all pids of the incident.
LEMMA ScopeInOrder ==
  ASSUME NEW s, s = [i \in 1 .. Cardinality(PidScope) |->
                       CHOOSE p \in PidScope : Cardinality({q \in PidScope : q < p}) = i - 1]
  PROVE  s \in Seq(Nat) /\ s # <<>> /\ Elements(s) = PidScope
<1> DEFINE R == {p \in PidScope \X PidScope : p[1] < p[2]}
           m == Cardinality(PidScope)
<1>1. PidScope \subseteq Nat /\ RootPid \in PidScope
  BY LineageAssumption DEF PidScope
<1>2. IsFiniteSet(PidScope)
  <2>1. IsFiniteSet({n.pid : n \in Descendants})
    <3> DEFINE pids == {n.pid : n \in Descendants}
               f == [n \in Descendants |-> n.pid]
    <3>1. f \in Surjection(Descendants, pids)
      BY DEF Surjection
    <3>2. IsFiniteSet(Descendants)
      BY LineageAssumption
    <3> HIDE DEF f
    <3> QED
      BY <3>1, <3>2, FS_Surjection
  <2>2. IsFiniteSet({RootPid})
    BY FS_Singleton
  <2> QED
    BY <2>1, <2>2, FS_Union DEF PidScope
<1>3. \A p, q \in PidScope : <<p, q>> \in R <=> p < q
  OBVIOUS
<1>4. IsOrder(R, PidScope)
  <2>1. \A p \in PidScope : ~(p < p)
    BY <1>1
  <2>2. \A p, q, r \in PidScope : (p < q /\ q < r) => p < r
    BY <1>1
  <2>3. \A p, q \in PidScope : p = q \/ p < q \/ q < p
    BY <1>1
  <2> HIDE DEF R
  <2> QED
    BY <1>3, <2>1, <2>2, <2>3 DEF IsOrder
<1>5. \A p \in PidScope : Rank(R, PidScope, p) = Cardinality({q \in PidScope : q < p})
  <2> SUFFICES ASSUME NEW p \in PidScope
               PROVE  Ahead(R, PidScope, p) = {q \in PidScope : q < p}
    BY DEF Rank
  <2> QED
    BY <1>3 DEF Ahead
<1>6. m \in Nat /\ m # 0
  <2>1. m \in Nat
    BY <1>2, FS_CardinalityType
  <2>2. m = 0 => PidScope = {}
    BY <1>2, FS_EmptySet
  <2> QED
    BY <1>1, <2>1, <2>2
<1> HIDE DEF R, m
<1>7. ASSUME NEW i \in 1 .. m
      PROVE  s[i] \in PidScope /\ Rank(R, PidScope, s[i]) = i - 1
  <2>1. i - 1 \in 0 .. m - 1
    BY <1>6
  <2>2. \E p \in PidScope : Rank(R, PidScope, p) = i - 1
    BY <1>2, <1>4, <2>1, RanksAreTaken DEF m
  <2>3. \E p \in PidScope : Cardinality({q \in PidScope : q < p}) = i - 1
    BY <1>5, <2>2
  <2>4. s[i] = CHOOSE p \in PidScope : Cardinality({q \in PidScope : q < p}) = i - 1
    BY DEF m
  <2>5. s[i] \in PidScope /\ Cardinality({q \in PidScope : q < s[i]}) = i - 1
    BY <2>3, <2>4
  <2> QED
    BY <1>5, <2>5
<1>8. s \in [1 .. m -> PidScope]
  BY <1>7 DEF m
<1>9. s \in Seq(PidScope) /\ Len(s) = m /\ Elements(s) = PidScope
  <2>1. m = Cardinality(PidScope) /\ m \in 0 .. Cardinality(PidScope)
    BY <1>6 DEF m
  <2> QED
    BY ONLY <1>2, <1>4, <1>7, <1>8, <2>1, ByRank
<1>10. s \in [1 .. m -> Nat]
  BY <1>1, <1>8
<1>11. s \in Seq(Nat)
  BY <1>6, <1>10, FunctionIsSeq
<1> QED
  BY <1>6, <1>9, <1>11, EmptySeq

-----------------------------------------------------------------------------
(* Items.                                                                  *)

\* Items are made of what was read, and of nothing else.
LEMMA ItemsStay ==
  ASSUME UNCHANGED <<seenEvents, seenAlerts>>
  PROVE  EventItems' = EventItems /\ AlertItems' = AlertItems
<1>1. EventItems' = EventItems
  BY DEF EventItems, LinkedAlert
<1>2. AlertItems' = AlertItems
  BY <1>1 DEF AlertItems, LinkedEventExists
<1> QED
  BY <1>1, <1>2

\* The linked alert is an alert read that fits, the first of them.
LEMMA LinkedAlertFits ==
  ASSUME seenAlerts \in Seq(alerts), NEW e
  PROVE  /\ \/ LinkedAlert(e) = None
            \/ \E i \in DOMAIN seenAlerts :
                 /\ LinkedAlert(e) = seenAlerts[i]
                 /\ OneProcess(e, seenAlerts[i], seenAlerts[i]) /\ Near(e, seenAlerts[i])
         /\ (\E i \in DOMAIN seenAlerts :
               OneProcess(e, seenAlerts[i], seenAlerts[i]) /\ Near(e, seenAlerts[i])) =>
            \E i \in DOMAIN seenAlerts :
              /\ LinkedAlert(e) = seenAlerts[i]
              /\ OneProcess(e, seenAlerts[i], seenAlerts[i]) /\ Near(e, seenAlerts[i])
<1> DEFINE fits == {i \in DOMAIN seenAlerts :
                      OneProcess(e, seenAlerts[i], seenAlerts[i]) /\ Near(e, seenAlerts[i])}
           least == CHOOSE i \in fits : \A j \in fits : i <= j
<1>1. fits \subseteq Nat
  BY SeqElements
<1>2. fits # {} => least \in fits
  <2> SUFFICES ASSUME fits # {} PROVE \E i \in fits : \A j \in fits : i <= j
    OBVIOUS
  <2> HIDE DEF fits
  <2> QED
    BY <1>1, LeastNatural
<1>3. LinkedAlert(e) = IF fits = {} THEN None ELSE seenAlerts[least]
  BY DEF LinkedAlert
<1>4. \A i \in fits : i \in DOMAIN seenAlerts /\ OneProcess(e, seenAlerts[i], seenAlerts[i])
                      /\ Near(e, seenAlerts[i])
  OBVIOUS
<1>5. \A i \in DOMAIN seenAlerts :
        (OneProcess(e, seenAlerts[i], seenAlerts[i]) /\ Near(e, seenAlerts[i])) => i \in fits
  OBVIOUS
<1> HIDE DEF fits, least
<1> QED
  BY <1>2, <1>3, <1>4, <1>5

\* Items hold events and alerts that are stored.
LEMMA ItemsTyped ==
  ASSUME seenEvents \in Seq(events), seenAlerts \in Seq(alerts),
         NEW item \in EventItems \cup AlertItems
  PROVE  item.event \in events \cup {None} /\ item.alert \in alerts \cup {None}
<1>1. /\ \A i \in DOMAIN seenEvents : seenEvents[i] \in events
      /\ \A i \in DOMAIN seenAlerts : seenAlerts[i] \in alerts
  BY SeqElements
<1>2. CASE item \in EventItems
  <2>1. PICK i \in DOMAIN seenEvents :
          item = [event |-> seenEvents[i], alert |-> LinkedAlert(seenEvents[i])]
    BY <1>2 DEF EventItems
  <2>2. LinkedAlert(seenEvents[i]) \in alerts \cup {None}
    BY <1>1, LinkedAlertFits
  <2> QED
    BY <1>1, <2>1, <2>2
<1>3. CASE item \in AlertItems
  <2>1. PICK i \in DOMAIN seenAlerts : item = [event |-> None, alert |-> seenAlerts[i]]
    BY <1>3 DEF AlertItems
  <2> QED
    BY <1>1, <2>1
<1> QED
  BY <1>2, <1>3

-----------------------------------------------------------------------------
(* Each step keeps the invariant.                                          *)

\* A table that grows has no fewer rows of a pid.
LEMMA LimitOfLess ==
  ASSUME NEW many, many \subseteq Deliveries, NEW few, few \subseteq many, NEW pid,
         WithinLimit(many, pid)
  PROVE  WithinLimit(few, pid)
<1> DEFINE m == {d \in many : d.pid = pid}
           f == {d \in few : d.pid = pid}
<1>1. IsFiniteSet(m)
  BY DeliveriesAssumption, FS_Subset
<1>2. f \in SUBSET m
  OBVIOUS
<1>3. IsFiniteSet(f) /\ Cardinality(f) <= Cardinality(m)
  BY <1>1, <1>2, FS_Subset
<1>4. Cardinality(f) \in Nat /\ Cardinality(m) \in Nat /\ Limit \in Nat
  BY <1>1, <1>3, FS_CardinalityType, LineageAssumption
<1>5. Cardinality(m) <= Limit
  BY DEF WithinLimit
<1>6. Cardinality(f) <= Limit
  BY <1>3, <1>4, <1>5
<1> QED
  BY <1>6 DEF WithinLimit

LEMMA InitIInv == Init => IInv
<1> SUFFICES ASSUME Init PROVE IInv
  OBVIOUS
<1>1. TypeOK
  BY DEF Init, TypeOK
<1> QED
  BY <1>1 DEF Init, IInv, WayOfReading, EventsAreRead, AlertsAreRead, EvidenceIsMade

\* Storing adds to the tables; what has been read stays read.
LEMMA StoreKeepsIInv == ASSUME IInv, NEW d \in Deliveries, Store(d) PROVE IInv'
<1>1. /\ events \subseteq events' /\ events' \subseteq Deliveries
      /\ alerts \subseteq alerts' /\ alerts' \subseteq Deliveries
      /\ UNCHANGED <<reader, left, seenEvents, seenAlerts, before, evidence>>
  BY DEF Store, IInv, TypeOK
<1>2. TypeOK'
  <2>1. seenEvents \in Seq(events') /\ seenAlerts \in Seq(alerts')
    BY <1>1, SeqElements, SeqDef DEF IInv, TypeOK
  <2> QED
    BY <1>1, <2>1 DEF IInv, TypeOK
<1>3. WayOfReading'
  BY <1>1 DEF IInv, WayOfReading
<1>4. EventsAreRead'
  <2> SUFFICES ASSUME reader # "begin", NEW e \in before.events, e.pid \in PidScope,
                      WithinLimit(events', e.pid)
               PROVE  \/ e \in Elements(seenEvents)
                      \/ e.pid \in Elements(left) /\ ~(reader = "alerts" /\ e.pid = left[1])
    BY <1>1 DEF EventsAreRead, Elements
  <2>1. WithinLimit(events, e.pid)
    BY <1>1, LimitOfLess
  <2> QED
    BY <2>1 DEF IInv, EventsAreRead
<1>5. AlertsAreRead'
  <2> SUFFICES ASSUME reader # "begin", NEW a \in before.alerts, a.pid \in PidScope,
                      WithinLimit(alerts', a.pid)
               PROVE  a \in Elements(seenAlerts) \/ a.pid \in Elements(left)
    BY <1>1 DEF AlertsAreRead, Elements
  <2>1. WithinLimit(alerts, a.pid)
    BY <1>1, LimitOfLess
  <2> QED
    BY <2>1 DEF IInv, AlertsAreRead
<1>6. EvidenceIsMade'
  BY <1>1, ItemsStay DEF IInv, EvidenceIsMade
<1> QED
  BY <1>2, <1>3, <1>4, <1>5, <1>6 DEF IInv

LEMMA BeginKeepsIInv == ASSUME IInv, Begin PROVE IInv'
<1>1. /\ left' \in Seq(Nat) /\ left' # <<>> /\ Elements(left') = PidScope
      /\ reader' = "events" /\ before' = [events |-> events, alerts |-> alerts]
      /\ UNCHANGED <<events, alerts, seenEvents, seenAlerts, evidence>>
  BY ScopeInOrder DEF Begin
<1>2. TypeOK'
  BY <1>1 DEF IInv, TypeOK
<1>3. WayOfReading' /\ EvidenceIsMade'
  BY <1>1 DEF WayOfReading, EvidenceIsMade
<1>4. EventsAreRead' /\ AlertsAreRead'
  BY <1>1 DEF EventsAreRead, AlertsAreRead, Elements
<1> QED
  BY <1>2, <1>3, <1>4 DEF IInv

\* The query of a pid reads its events as they are now.
LEMMA ReadEventsKeepsIInv == ASSUME IInv, ReadEvents PROVE IInv'
<1> DEFINE new == Newest(events, Head(left))
<1>1. /\ reader = "events" /\ reader' = "alerts" /\ seenEvents' = seenEvents \o new
      /\ UNCHANGED <<events, alerts, left, seenAlerts, before, evidence>>
  BY DEF ReadEvents
<1>2. left \in Seq(Nat) /\ left # <<>> /\ Head(left) = left[1]
  BY <1>1, TailElements DEF IInv, TypeOK, WayOfReading
<1>3. /\ new \in Seq(events)
      /\ WithinLimit(events, Head(left)) => \A d \in events : d.pid = Head(left) => d \in Elements(new)
  BY NewestRows DEF IInv, TypeOK
<1> HIDE DEF new
<1>4. /\ seenEvents' \in Seq(events)
      /\ Elements(seenEvents) \subseteq Elements(seenEvents') /\ Elements(new) \subseteq Elements(seenEvents')
  BY <1>1, <1>3, ConcatElements DEF IInv, TypeOK
<1>5. TypeOK'
  BY <1>1, <1>4 DEF IInv, TypeOK
<1>6. WayOfReading' /\ EvidenceIsMade'
  BY <1>1, <1>2 DEF WayOfReading, EvidenceIsMade
<1>7. EventsAreRead'
  <2> SUFFICES ASSUME NEW e \in before.events, e.pid \in PidScope, WithinLimit(events, e.pid)
               PROVE  e \in Elements(seenEvents') \/ (e.pid \in Elements(left) /\ e.pid # left[1])
    BY <1>1 DEF EventsAreRead, Elements
  <2>1. CASE e.pid = left[1]
    <3>1. e \in events
      BY DEF IInv, TypeOK
    <3>2. e \in Elements(new)
      BY <1>2, <1>3, <2>1, <3>1
    <3> QED
      BY <1>4, <3>2
  <2>2. CASE e.pid # left[1]
    BY <1>1, <1>4, <2>2 DEF IInv, EventsAreRead
  <2> QED
    BY <2>1, <2>2
<1>8. AlertsAreRead'
  BY <1>1 DEF IInv, AlertsAreRead, Elements
<1> QED
  BY <1>5, <1>6, <1>7, <1>8 DEF IInv

\* Then it reads its alerts, and is done with the pid.
LEMMA ReadAlertsKeepsIInv == ASSUME IInv, ReadAlerts PROVE IInv'
<1> DEFINE new == Newest(alerts, Head(left))
<1>1. /\ reader = "alerts" /\ reader' = (IF Len(left) = 1 THEN "match" ELSE "events")
      /\ seenAlerts' = seenAlerts \o new /\ left' = Tail(left)
      /\ UNCHANGED <<events, alerts, seenEvents, before, evidence>>
  BY DEF ReadAlerts
<1>2. /\ left \in Seq(Nat) /\ left # <<>> /\ Head(left) = left[1] /\ left' \in Seq(Nat)
      /\ Elements(left) \subseteq {left[1]} \cup Elements(left')
      /\ Len(left) = 1 <=> left' = <<>>
  BY <1>1, TailElements DEF IInv, TypeOK, WayOfReading
<1>3. /\ new \in Seq(alerts)
      /\ WithinLimit(alerts, Head(left)) => \A d \in alerts : d.pid = Head(left) => d \in Elements(new)
  BY NewestRows DEF IInv, TypeOK
<1> HIDE DEF new
<1>4. /\ seenAlerts' \in Seq(alerts)
      /\ Elements(seenAlerts) \subseteq Elements(seenAlerts') /\ Elements(new) \subseteq Elements(seenAlerts')
  BY <1>1, <1>3, ConcatElements DEF IInv, TypeOK
<1>5. TypeOK'
  BY <1>1, <1>2, <1>4 DEF IInv, TypeOK
<1>6. WayOfReading' /\ EvidenceIsMade'
  BY <1>1, <1>2 DEF WayOfReading, EvidenceIsMade
<1>7. EventsAreRead'
  <2> SUFFICES ASSUME NEW e \in before.events, e.pid \in PidScope, WithinLimit(events, e.pid)
               PROVE  e \in Elements(seenEvents) \/ e.pid \in Elements(left')
    BY <1>1 DEF EventsAreRead, Elements
  <2> QED
    BY <1>1, <1>2 DEF IInv, EventsAreRead
<1>8. AlertsAreRead'
  <2> SUFFICES ASSUME NEW a \in before.alerts, a.pid \in PidScope, WithinLimit(alerts, a.pid)
               PROVE  a \in Elements(seenAlerts') \/ a.pid \in Elements(left')
    BY <1>1 DEF AlertsAreRead, Elements
  <2>1. CASE a.pid = left[1]
    <3>1. a \in alerts
      BY DEF IInv, TypeOK
    <3>2. a \in Elements(new)
      BY <1>2, <1>3, <2>1, <3>1
    <3> QED
      BY <1>4, <3>2
  <2>2. CASE a.pid # left[1]
    BY <1>1, <1>2, <1>4, <2>2 DEF IInv, AlertsAreRead
  <2> QED
    BY <2>1, <2>2
<1> QED
  BY <1>5, <1>6, <1>7, <1>8 DEF IInv

LEMMA MatchKeepsIInv == ASSUME IInv, Match PROVE IInv'
<1>1. /\ reader = "match" /\ reader' = "done" /\ evidence' = EventItems \cup AlertItems
      /\ UNCHANGED <<events, alerts, left, seenEvents, seenAlerts, before>>
  BY DEF Match
<1>2. TypeOK'
  BY <1>1, ItemsTyped DEF IInv, TypeOK
<1>3. WayOfReading'
  BY <1>1 DEF IInv, WayOfReading
<1>4. EventsAreRead' /\ AlertsAreRead'
  BY <1>1 DEF IInv, EventsAreRead, AlertsAreRead, Elements
<1>5. EvidenceIsMade'
  BY <1>1, ItemsStay DEF EvidenceIsMade
<1> QED
  BY <1>2, <1>3, <1>4, <1>5 DEF IInv

LEMMA NextIInv == IInv /\ [Next]_vars => IInv'
<1> SUFFICES ASSUME IInv, [Next]_vars PROVE IInv'
  OBVIOUS
<1>1. ASSUME NEW d \in Deliveries, Store(d) PROVE IInv'
  BY <1>1, StoreKeepsIInv
<1>2. CASE UNCHANGED vars
  <2>1. EvidenceIsMade'
    BY <1>2, ItemsStay DEF vars, IInv, EvidenceIsMade
  <2> QED
    BY <1>2, <2>1 DEF vars, IInv, TypeOK, WayOfReading, EventsAreRead, AlertsAreRead, Elements
<1> QED
  BY <1>1, <1>2, BeginKeepsIInv, ReadEventsKeepsIInv, ReadAlertsKeepsIInv, MatchKeepsIInv DEF Next

\* The inductive invariant: a row that was stored before the reader began, of a pid
\* with no more rows than the limit, is read before its pid is done, whatever is
\* stored meanwhile; and the evidence is what Match makes of what was read.
THEOREM InvariantHolds == Spec => []IInv
<1> QED
  BY InitIInv, NextIInv, PTL DEF Spec

\* Reader, tables and items hold deliveries; what is shown is stored.
THEOREM TypeCorrect == Spec => []TypeOK
<1>1. IInv => TypeOK
  BY DEF IInv
<1> QED
  BY <1>1, InvariantHolds, PTL

-----------------------------------------------------------------------------
(* What is read is shown.                                                  *)

\* The lives of the lineage are within the window.
LEMMA LifetimeIsInWindow ==
  ASSUME NEW d \in Deliveries, InLifetime(d)
  PROVE  InWindow(d)
<1>1. d.at \in Nat
  BY DeliveriesAssumption DEF DeliveryRow
<1>2. PICK first \in LineageTimes, last \in LineageTimes : first - 2 <= d.at /\ d.at <= last + 2
  BY DEF InLifetime
<1>3. \E n \in Ancestry \cup Descendants : d.at >= n.start - 2
  <2>1. CASE first \in {n.start : n \in Ancestry \cup Descendants}
    <3>1. PICK n \in Ancestry \cup Descendants : first = n.start
      BY <2>1
    <3>2. n.start \in Nat
      BY LineageAssumption
    <3>3. d.at >= n.start - 2
      BY <1>1, <1>2, <3>1, <3>2
    <3> QED
      BY <3>3
  <2>2. CASE first \in {n.exit : n \in Ancestry \cup Descendants} \ {None}
    <3>1. PICK n \in Ancestry \cup Descendants : first = n.exit /\ n.exit # None
      BY <2>2
    <3>2. n.start \in Nat /\ n.exit \in Nat /\ n.start <= n.exit
      BY <3>1, LineageAssumption
    <3>3. d.at >= n.start - 2
      BY <1>1, <1>2, <3>1, <3>2
    <3> QED
      BY <3>3
  <2> QED
    BY <2>1, <2>2 DEF LineageTimes
<1>4. \E t \in LineageTimes : d.at <= t + 2
  BY <1>2
<1> QED
  BY <1>3, <1>4 DEF InWindow

\* Of the events of the window that were read, each is shown or one with its key.
LEMMA ReadEventsAreItems ==
  ASSUME TypeOK, NEW e \in Elements(seenEvents), InWindow(e)
  PROVE  \E item \in EventItems :
           /\ item.event \in events /\ item.event # None /\ EventKey(item.event) = EventKey(e)
           /\ item.alert = LinkedAlert(item.event)
<1> DEFINE like == {i \in DOMAIN seenEvents :
                      InWindow(seenEvents[i]) /\ EventKey(seenEvents[i]) = EventKey(e)}
<1>1. /\ DOMAIN seenEvents = 1 .. Len(seenEvents) /\ Len(seenEvents) \in Nat
      /\ \A i \in DOMAIN seenEvents : seenEvents[i] \in events
  BY SeqElements DEF TypeOK
<1>2. like \subseteq Nat /\ like # {}
  BY <1>1 DEF Elements
<1>3. PICK i \in like : \A j \in like : i <= j
  <2> HIDE DEF like
  <2> QED
    BY <1>2, LeastNatural
<1>4. i \in 1 .. Len(seenEvents) /\ InWindow(seenEvents[i]) /\ EventKey(seenEvents[i]) = EventKey(e)
  BY <1>1
<1>5. ASSUME NEW k \in 1 .. i - 1, InWindow(seenEvents[k])
      PROVE  EventKey(seenEvents[k]) # EventKey(seenEvents[i])
  <2>1. k \in DOMAIN seenEvents /\ ~(i <= k)
    BY <1>1, <1>4
  <2> QED
    BY <1>3, <1>4, <1>5, <2>1
<1> DEFINE item == [event |-> seenEvents[i], alert |-> LinkedAlert(seenEvents[i])]
<1>6. item \in EventItems
  BY <1>1, <1>4, <1>5 DEF EventItems
<1>7. seenEvents[i] \in events /\ seenEvents[i] # None
  BY <1>1, <1>4, DeliveriesAssumption, NoneAssumption DEF TypeOK
<1>8. /\ item.event = seenEvents[i] /\ item.alert = LinkedAlert(seenEvents[i])
  OBVIOUS
<1> HIDE DEF item
<1> QED
  BY <1>4, <1>6, <1>7, <1>8

\* When the reader is done, it has read every row that was there before and is
\* within the limit.
LEMMA DoneMeansRead ==
  ASSUME IInv, reader = "done"
  PROVE  /\ \A e \in before.events : OfIncident(e, events) =>
              e \in Elements(seenEvents) /\ e \in Deliveries /\ InWindow(e)
         /\ \A a \in before.alerts : OfIncident(a, alerts) =>
              a \in Elements(seenAlerts) /\ a \in Deliveries /\ InWindow(a)
<1>1. left = <<>>
  BY DEF IInv, WayOfReading
<1>2. Elements(left) = {}
  BY <1>1 DEF Elements
<1>3. before.events \subseteq Deliveries /\ before.alerts \subseteq Deliveries
  BY DEF IInv, TypeOK
<1>4. ASSUME NEW e \in before.events, OfIncident(e, events)
      PROVE  e \in Elements(seenEvents) /\ e \in Deliveries /\ InWindow(e)
  BY <1>2, <1>3, <1>4, LifetimeIsInWindow DEF IInv, EventsAreRead, OfIncident
<1>5. ASSUME NEW a \in before.alerts, OfIncident(a, alerts)
      PROVE  a \in Elements(seenAlerts) /\ a \in Deliveries /\ InWindow(a)
  BY <1>2, <1>3, <1>5, LifetimeIsInWindow DEF IInv, AlertsAreRead, OfIncident
<1> QED
  BY <1>4, <1>5

\* collect_edr_evidence shows every event of the incident's processes and time, or
\* one that says the same, whatever is stored between its queries.
THEOREM EveryEventAlwaysShown == Spec => []EveryEventIsShown
<1>1. IInv => EveryEventIsShown
  <2> SUFFICES ASSUME IInv, reader = "done", NEW e \in before.events, OfIncident(e, events)
               PROVE  \E item \in evidence : item.event # None /\ EventKey(item.event) = EventKey(e)
    BY DEF EveryEventIsShown
  <2>1. e \in Elements(seenEvents) /\ InWindow(e)
    BY DoneMeansRead
  <2>2. \E item \in EventItems : item.event # None /\ EventKey(item.event) = EventKey(e)
    BY <2>1, ReadEventsAreItems DEF IInv
  <2> QED
    BY <2>2 DEF IInv, EvidenceIsMade
<1> QED
  BY <1>1, InvariantHolds, PTL

\* An event that has the name of an alert at its time is taken for it if it is shown.
LEMMA NamesakeAttaches ==
  ASSUME IInv, reader = "done", NEW a \in Deliveries, NEW e \in Deliveries,
         NEW item \in EventItems, item.event \in Deliveries,
         EventKey(item.event) = EventKey(e), e.event = a.alert, e.pid = a.pid, Near(e, a)
  PROVE  Attached(a)
<1>1. item.event.event = e.event /\ item.event.pid = e.pid /\ item.event.at = e.at
  BY DEF EventKey
<1>2. Near(item.event, a)
  BY <1>1 DEF Near
<1>3. item.event # None /\ item \in evidence
  BY NoneAssumption, DeliveriesAssumption DEF IInv, EvidenceIsMade
<1> QED
  BY <1>1, <1>2, <1>3 DEF Attached

\* collect_edr_evidence attaches every alert of the incident's processes and time, but
\* for one that an event of its name near by and out of the incident's time is taken for.
THEOREM AlertsAlwaysAttachedUnless == Spec => []AlertsAreAttachedUnless
<1>1. IInv => AlertsAreAttachedUnless
  <2> SUFFICES ASSUME IInv, reader = "done", NEW a \in before.alerts, OfIncident(a, alerts)
               PROVE  \/ Attached(a)
                      \/ \E e \in events : e.event = a.alert /\ e.pid = a.pid /\ Near(e, a)
                                           /\ ~InLifetime(e)
    BY DEF AlertsAreAttachedUnless
  <2>1. a \in Elements(seenAlerts) /\ a \in Deliveries /\ InWindow(a)
    BY DoneMeansRead
  <2>2. /\ TypeOK /\ events \subseteq Deliveries /\ alerts \subseteq Deliveries
        /\ evidence = EventItems \cup AlertItems
    BY DEF IInv, TypeOK, EvidenceIsMade
  <2>3. \A d \in Deliveries : d # None /\ d.at \in Nat
    BY NoneAssumption, DeliveriesAssumption DEF DeliveryRow
  <2>4. /\ DOMAIN seenAlerts = 1 .. Len(seenAlerts) /\ Len(seenAlerts) \in Nat
        /\ \A i \in DOMAIN seenAlerts : seenAlerts[i] \in alerts
        /\ \A i \in DOMAIN seenEvents : seenEvents[i] \in events /\ seenEvents[i] \in Elements(seenEvents)
    BY <2>2, SeqElements DEF TypeOK
  <2>5. CASE \E item \in EventItems : item.alert = a
    BY <2>1, <2>2, <2>3, <2>5 DEF Attached
  <2>6. CASE LinkedEventExists(a)
    <3>1. PICK i \in DOMAIN seenEvents :
            LET e == seenEvents[i] IN OneProcess(e, a, e) /\ e.event = a.alert /\ Near(e, a)
      BY <2>6 DEF LinkedEventExists
    <3> DEFINE e == seenEvents[i]
    <3>2. /\ e.event = a.alert /\ e.pid = a.pid /\ Near(e, a)
          /\ e \in events /\ e \in Deliveries /\ e \in Elements(seenEvents)
      BY <2>2, <2>4, <3>1 DEF OneProcess
    <3> HIDE DEF e
    <3>3. CASE InWindow(e)
      <4>1. PICK item \in EventItems : item.event \in events /\ EventKey(item.event) = EventKey(e)
        BY <2>2, <3>2, <3>3, ReadEventsAreItems
      <4>2. Attached(a)
        BY <2>1, <2>2, <3>2, <4>1, NamesakeAttaches
      <4> QED
        BY <4>2
    <3>4. CASE ~InWindow(e)
      BY <3>2, <3>4, LifetimeIsInWindow
    <3> QED
      BY <3>3, <3>4
  <2>7. CASE \E item \in EventItems : EventKey(item.event) = AlertKey(a)
    <3>1. PICK item \in EventItems : EventKey(item.event) = AlertKey(a)
      BY <2>7
    <3>2. item.event.event = a.alert /\ item.event.pid = a.pid /\ item.event.at = a.at
      BY <3>1 DEF EventKey, AlertKey
    <3>3. Near(item.event, a)
      BY <2>1, <2>3, <3>2 DEF Near
    <3>4. item.event # None
      <4>1. PICK i \in DOMAIN seenEvents :
              item = [event |-> seenEvents[i], alert |-> LinkedAlert(seenEvents[i])]
        BY DEF EventItems
      <4> QED
        BY <2>2, <2>3, <2>4, <4>1
    <3> QED
      BY <2>2, <3>2, <3>3, <3>4 DEF Attached
  <2>8. CASE /\ \A item \in EventItems : item.alert # a /\ EventKey(item.event) # AlertKey(a)
             /\ ~LinkedEventExists(a)
    <3> DEFINE unlinked == {i \in DOMAIN seenAlerts :
                     LET b == seenAlerts[i]
                     IN  /\ InWindow(b)
                         /\ \A item \in EventItems : item.alert # b
                         /\ ~LinkedEventExists(b)
                         /\ \A item \in EventItems : EventKey(item.event) # AlertKey(b)}
               like == {i \in unlinked : AlertKey(seenAlerts[i]) = AlertKey(a)}
    <3>1. PICK n \in DOMAIN seenAlerts : seenAlerts[n] = a
      BY <2>1, <2>4 DEF Elements
    <3>2. n \in like
      BY <2>1, <2>8, <3>1
    <3>3. unlinked \subseteq 1 .. Len(seenAlerts)
      BY <2>4
    <3>4. AlertItems = {[event |-> None, alert |-> seenAlerts[i]] :
            i \in {j \in unlinked :
                     \A k \in unlinked : k < j => AlertKey(seenAlerts[k]) # AlertKey(seenAlerts[j])}}
      BY DEF AlertItems
    <3>5. like \subseteq unlinked /\ \A j \in like : AlertKey(seenAlerts[j]) = AlertKey(a)
      OBVIOUS
    <3>6. \A k \in unlinked : AlertKey(seenAlerts[k]) = AlertKey(a) => k \in like
      OBVIOUS
    <3> HIDE DEF unlinked, like
    <3>7. like \subseteq Nat /\ like # {}
      BY <2>4, <3>2, <3>3, <3>5
    <3>8. PICK j \in like : \A k \in like : j <= k
      BY <3>7, LeastNatural
    <3>9. \A k \in unlinked : k < j => AlertKey(seenAlerts[k]) # AlertKey(seenAlerts[j])
      <4> SUFFICES ASSUME NEW k \in unlinked, k < j,
                          AlertKey(seenAlerts[k]) = AlertKey(seenAlerts[j])
                   PROVE  FALSE
        OBVIOUS
      <4>1. k \in like
        BY <3>5, <3>6
      <4>2. j <= k /\ j \in Nat /\ k \in Nat
        BY <3>7, <3>8, <4>1
      <4> QED
        BY <4>2
    <3>10. [event |-> None, alert |-> seenAlerts[j]] \in AlertItems
      BY <3>4, <3>5, <3>9
    <3>11. seenAlerts[j] # None /\ AlertKey(seenAlerts[j]) = AlertKey(a)
      BY <2>2, <2>3, <2>4, <3>3, <3>5
    <3> QED
      BY <2>2, <3>10, <3>11 DEF Attached
  <2> QED
    BY <2>5, <2>6, <2>7, <2>8
<1> QED
  BY <1>1, InvariantHolds, PTL

\* collect_edr_evidence shows an event and an alert of one delivery as one item, unless
\* another alert of that process is near enough to be taken for it.
THEOREM DeliveriesAlwaysTogether == Spec => []DeliveriesStayTogether
<1>1. IInv => DeliveriesStayTogether
  <2> SUFFICES ASSUME IInv, reader = "done", NEW d \in before.events \cap before.alerts,
                      OfIncident(d, events), OfIncident(d, alerts),
                      \A a \in alerts \ {d} : ~(a.pid = d.pid /\ Near(a, d))
               PROVE  \E item \in evidence : /\ item.event # None /\ EventKey(item.event) = EventKey(d)
                                             /\ item.alert = d
    BY DEF DeliveriesStayTogether
  <2>1. /\ d \in Elements(seenEvents) /\ InWindow(d) /\ d \in Elements(seenAlerts)
        /\ d \in Deliveries
    BY DoneMeansRead
  <2>2. /\ TypeOK /\ events \subseteq Deliveries /\ alerts \subseteq Deliveries
        /\ seenAlerts \in Seq(alerts) /\ evidence = EventItems \cup AlertItems
    BY DEF IInv, TypeOK, EvidenceIsMade
  <2>3. PICK item \in EventItems :
          /\ item.event \in events /\ item.event # None /\ EventKey(item.event) = EventKey(d)
          /\ item.alert = LinkedAlert(item.event)
    BY <2>1, <2>2, ReadEventsAreItems
  <2> DEFINE e == item.event
  <2>4. e.pid = d.pid /\ e.guid = d.guid /\ e.at = d.at /\ d.at \in Nat
    BY <2>1, <2>3, DeliveriesAssumption DEF EventKey, DeliveryRow
  <2>5. \A i \in DOMAIN seenAlerts : seenAlerts[i] \in alerts /\ seenAlerts[i] \in Deliveries
    BY <2>2, SeqElements
  <2>6. PICK n \in DOMAIN seenAlerts : seenAlerts[n] = d
    BY <2>1, <2>2, SeqElements DEF Elements
  <2> HIDE DEF e
  <2>7. OneProcess(e, d, d) /\ Near(e, d)
    BY <2>4 DEF OneProcess, Near
  <2>8. PICK i \in DOMAIN seenAlerts :
          /\ LinkedAlert(e) = seenAlerts[i]
          /\ OneProcess(e, seenAlerts[i], seenAlerts[i]) /\ Near(e, seenAlerts[i])
    BY <2>2, <2>6, <2>7, LinkedAlertFits
  <2>9. seenAlerts[i].pid = d.pid /\ Near(seenAlerts[i], d)
    <3>1. seenAlerts[i].at \in Nat
      BY <2>5, DeliveriesAssumption DEF DeliveryRow
    <3> QED
      BY <2>4, <2>8, <3>1 DEF OneProcess, Near
  <2>10. seenAlerts[i] = d
    BY <2>5, <2>9
  <2> QED
    BY <2>2, <2>3, <2>8, <2>10 DEF e
<1> QED
  BY <1>1, InvariantHolds, PTL
====
