--------------------------- MODULE IncidentProofs ---------------------------
(***************************************************************************)
(* For any host, however its processes fork, exec and exit, for any events *)
(* of theirs and any caps: what finished processes did is in the incident  *)
(* and reaches the page, ancestors show what their descendants show,       *)
(* what is shown is lost again in two ways only, and the rules agree.      *)
(***************************************************************************)
EXTENDS Incident, FiniteSetTheorems, FunctionTheorems, WellFoundedInduction, TLAPS

\* Pids are given out in ascending order, so that those seen are the first.
PidsAscend == \A p, q \in Pids : (Seen(p) /\ q < p) => Seen(q)

\* Who is the mother of whom comes before, and the parent link names the mother
\* or nobody.
MothersComeFirst ==
  \A p \in Pids : Seen(p) =>
    /\ procs[p].mother # None =>
         procs[p].mother \in Pids /\ procs[p].mother < p /\ Seen(procs[p].mother)
    /\ procs[p].parent \in {None, procs[p].mother}

LivesAreOrdered ==
  \A p \in Pids : Seen(p) =>
    /\ procs[p].start <= now
    /\ procs[p].exit # None => procs[p].start <= procs[p].exit /\ procs[p].exit <= now

\* What is done is done by a process, in its life.
ActsAreInLives ==
  \A a \in acts :
    /\ Seen(a.pid) /\ procs[a.pid].start <= a.at /\ a.at <= now
    /\ procs[a.pid].exit # None => a.at <= procs[a.pid].exit

IInv ==
  /\ TypeOK /\ IsFiniteSet(acts)
  /\ PidsAscend /\ MothersComeFirst /\ LivesAreOrdered /\ ActsAreInLives

-----------------------------------------------------------------------------
(* The invariant.                                                          *)

\* What the record of a process holds.
LEMMA ProcessFields ==
  ASSUME TypeOK, NEW p \in Pids, Seen(p)
  PROVE  /\ procs[p] \in Process /\ procs[p] # None
         /\ procs[p].mother \in Pids \cup {None} /\ procs[p].parent \in Pids \cup {None}
         /\ procs[p].start \in Times /\ procs[p].start \in Nat
         /\ procs[p].exit \in Times \cup {None} /\ (procs[p].exit # None => procs[p].exit \in Nat)
         /\ procs[p].image \in SUBSET Traits
BY DEF TypeOK, Seen, Process, Times

\* Times are naturals.
LEMMA TimesAreNatural ==
  Times \subseteq Nat /\ MaxTime \in Nat /\ Pids \subseteq Nat /\ None \notin Times /\ 0 \in Times
BY IncidentAssumption, NoneAssumption DEF Times

\* If one process gets another record that is as good, and what it did is in its
\* life, the invariant is kept.
LEMMA RecordPreserves ==
  ASSUME IInv, NEW p \in Pids, NEW r \in Process,
         procs' = [procs EXCEPT ![p] = r], UNCHANGED <<downCap, now, acts>>,
         \A q \in Pids : q < p => Seen(q),
         r.mother # None => r.mother < p /\ Seen(r.mother),
         r.parent \in {None, r.mother},
         r.start <= now, r.exit # None => r.start <= r.exit /\ r.exit <= now,
         Seen(p) => r.start = procs[p].start,
         \A a \in acts : (a.pid = p /\ r.exit # None) => a.at <= r.exit
  PROVE  IInv'
<1>1. /\ procs \in [Pids -> Process \cup {None}] /\ downCap \in DownCaps /\ now \in Times
      /\ acts \subseteq [pid : Pids, at : Times, kind : Kinds] /\ Cardinality(acts) <= MaxActs
      /\ IsFiniteSet(acts)
  BY DEF IInv, TypeOK
<1>2. r # None
  BY NoneAssumption
<1>3. \A q \in Pids : procs'[q] = IF q = p THEN r ELSE procs[q]
  BY <1>1
<1>4. \A q \in Pids : Seen(q)' <=> (q = p \/ Seen(q))
  BY <1>2, <1>3 DEF Seen
<1>5. TypeOK' /\ IsFiniteSet(acts')
  <2>1. procs' \in [Pids -> Process \cup {None}]
    BY <1>1
  <2> QED
    BY <1>1, <2>1 DEF TypeOK
<1>6. PidsAscend'
  BY <1>4 DEF IInv, PidsAscend
<1>7. r.mother \in Pids \cup {None}
  BY DEF Process
<1>8. MothersComeFirst'
  <2> SUFFICES ASSUME NEW q \in Pids, Seen(q)'
               PROVE  /\ procs'[q].mother # None =>
                           /\ procs'[q].mother \in Pids /\ procs'[q].mother < q
                           /\ Seen(procs[q].mother)'
                      /\ procs'[q].parent \in {None, procs'[q].mother}
    BY DEF MothersComeFirst
  <2>1. CASE q = p
    <3>1. procs'[q] = r
      BY <1>3, <2>1
    <3>2. r.mother # None => r.mother \in Pids /\ Seen(procs[q].mother)'
      <4> SUFFICES ASSUME r.mother # None PROVE r.mother \in Pids /\ Seen(procs[q].mother)'
        OBVIOUS
      <4>1. r.mother \in Pids /\ Seen(r.mother)
        BY <1>7
      <4>2. procs'[r.mother] # None
        BY <1>2, <1>3, <4>1 DEF Seen
      <4> QED
        BY <3>1, <4>1, <4>2 DEF Seen
    <3> QED
      BY <2>1, <3>1, <3>2
  <2>2. CASE q # p
    <3>1. procs'[q] = procs[q] /\ Seen(q)
      BY <1>3, <1>4, <2>2
    <3>2. /\ procs[q].mother # None =>
               procs[q].mother \in Pids /\ procs[q].mother < q /\ Seen(procs[q].mother)
          /\ procs[q].parent \in {None, procs[q].mother}
      BY <3>1 DEF IInv, MothersComeFirst
    <3>3. procs[q].mother # None => procs'[procs[q].mother] # None
      BY <1>2, <1>3, <3>2 DEF Seen
    <3> QED
      BY <3>1, <3>2, <3>3 DEF Seen
  <2> QED
    BY <2>1, <2>2
<1>9. LivesAreOrdered'
  BY <1>3, <1>4 DEF IInv, LivesAreOrdered
<1>10. ActsAreInLives'
  <2> SUFFICES ASSUME NEW a \in acts
               PROVE  /\ procs'[a.pid] # None /\ procs'[a.pid].start <= a.at /\ a.at <= now
                      /\ procs'[a.pid].exit # None => a.at <= procs'[a.pid].exit
    BY DEF ActsAreInLives, Seen
  <2>1. /\ a.pid \in Pids /\ Seen(a.pid) /\ procs[a.pid].start <= a.at /\ a.at <= now
        /\ procs[a.pid].exit # None => a.at <= procs[a.pid].exit
    BY <1>1 DEF IInv, ActsAreInLives
  <2>2. CASE a.pid = p
    BY <1>2, <1>3, <2>1, <2>2
  <2>3. CASE a.pid # p
    BY <1>3, <2>1, <2>3 DEF Seen
  <2> QED
    BY <2>2, <2>3
<1> QED
  BY <1>5, <1>6, <1>8, <1>9, <1>10 DEF IInv

LEMMA ForkPreserves ==
  ASSUME IInv, NEW p \in Pids, NEW m \in Pids \cup {None}, Fork(m, p)
  PROVE  IInv'
<1> DEFINE r == [mother |-> m, parent |-> m, start |-> now, exit |-> None,
                 image |-> {}, ran |-> FALSE]
<1>1. /\ ~Seen(p) /\ (m # None => Running(m))
      /\ \A q \in Pids : q < p => Seen(q)
      /\ procs' = [procs EXCEPT ![p] = r] /\ UNCHANGED <<downCap, now, acts>>
  BY DEF Fork
<1>2. now \in Times
  BY DEF IInv, TypeOK
<1>3. r \in Process
  BY <1>2 DEF Process
<1>4. r.mother # None => r.mother < p /\ Seen(r.mother)
  <2> SUFFICES ASSUME m # None PROVE m < p /\ Seen(m)
    OBVIOUS
  <2>1. Seen(m) /\ m \in Pids /\ m # p
    BY <1>1 DEF Running
  <2>2. ~(p < m)
    BY <1>1, <2>1 DEF IInv, PidsAscend
  <2> QED
    BY <2>1, <2>2, TimesAreNatural
<1>5. r.start <= now /\ r.exit = None /\ r.parent = r.mother
  BY <1>2, TimesAreNatural
<1> HIDE DEF r
<1> QED
  BY <1>1, <1>3, <1>4, <1>5, RecordPreserves

LEMMA ExecPreserves ==
  ASSUME IInv, NEW p \in Pids, NEW image \in Images[p], Exec(p, image)
  PROVE  IInv'
<1> DEFINE m == procs[p].mother
           r == [procs[p] EXCEPT !.image = image, !.ran = TRUE,
                                 !.parent = IF m # None /\ Running(m) THEN m ELSE None]
<1>1. /\ Running(p) /\ procs' = [procs EXCEPT ![p] = r] /\ UNCHANGED <<downCap, now, acts>>
  BY DEF Exec
<1>2. Seen(p) /\ procs[p].exit = None
  BY <1>1 DEF Running
<1>3. procs[p] \in Process
  BY <1>2, ProcessFields DEF IInv
<1>4. image \in SUBSET Traits
  BY IncidentAssumption
<1>5. /\ r \in Process /\ r.mother = m /\ r.parent \in {None, m}
      /\ r.start = procs[p].start /\ r.exit = None
  BY <1>2, <1>3, <1>4 DEF Process
<1>6. /\ m # None => m < p /\ Seen(m)
      /\ procs[p].start <= now /\ \A q \in Pids : q < p => Seen(q)
  BY <1>2 DEF IInv, MothersComeFirst, LivesAreOrdered, PidsAscend
<1> HIDE DEF r
<1> QED
  BY <1>1, <1>5, <1>6, RecordPreserves

LEMMA ExitPreserves ==
  ASSUME IInv, NEW p \in Pids, Exit(p)
  PROVE  IInv'
<1> DEFINE m == procs[p].mother
           r == [procs[p] EXCEPT !.exit = now]
<1>1. /\ Running(p) /\ procs' = [procs EXCEPT ![p] = r] /\ UNCHANGED <<downCap, now, acts>>
  BY DEF Exit
<1>2. Seen(p)
  BY <1>1 DEF Running
<1>3. procs[p] \in Process /\ now \in Times
  BY <1>2, ProcessFields DEF IInv, TypeOK
<1>4. /\ r \in Process /\ r.mother = m /\ r.parent = procs[p].parent
      /\ r.start = procs[p].start /\ r.exit = now
  BY <1>3 DEF Process
<1>5. /\ m # None => m < p /\ Seen(m)
      /\ procs[p].parent \in {None, m}
      /\ procs[p].start <= now /\ \A q \in Pids : q < p => Seen(q)
  BY <1>2 DEF IInv, MothersComeFirst, LivesAreOrdered, PidsAscend
<1>6. now <= now /\ \A a \in acts : a.at <= now
  BY <1>3, TimesAreNatural DEF IInv, ActsAreInLives
<1> HIDE DEF r
<1> QED
  BY <1>1, <1>4, <1>5, <1>6, RecordPreserves

LEMMA DoesPreserves ==
  ASSUME IInv, NEW p \in Pids, NEW kind \in Kinds, Does(p, kind)
  PROVE  IInv'
<1> DEFINE a == [pid |-> p, at |-> now, kind |-> kind]
<1>1. /\ Seen(p) /\ procs[p].exit = None /\ Cardinality(acts) < MaxActs
      /\ acts' = acts \cup {a} /\ UNCHANGED <<downCap, now, procs>>
  BY DEF Does, Running
<1>2. /\ downCap \in DownCaps /\ now \in Times /\ procs \in [Pids -> Process \cup {None}]
      /\ acts \subseteq [pid : Pids, at : Times, kind : Kinds] /\ IsFiniteSet(acts)
  BY DEF IInv, TypeOK
<1>3. IsFiniteSet(acts') /\ Cardinality(acts') <= MaxActs
  <2>1. Cardinality(acts) \in Nat /\ MaxActs \in Nat
    BY <1>2, FS_CardinalityType, IncidentAssumption
  <2>2. IsFiniteSet(acts') /\ Cardinality(acts') = IF a \in acts THEN Cardinality(acts)
                                                   ELSE Cardinality(acts) + 1
    BY <1>1, <1>2, FS_AddElement
  <2> QED
    BY <1>1, <2>1, <2>2
<1>4. TypeOK'
  BY <1>1, <1>2, <1>3 DEF TypeOK
<1>5. \A q : Seen(q)' <=> Seen(q)
  BY <1>1 DEF Seen
<1>6. ActsAreInLives'
  <2>1. procs[p].start <= now /\ now <= now
    BY <1>1, <1>2, TimesAreNatural DEF IInv, LivesAreOrdered
  <2>2. a.pid = p /\ a.at = now
    OBVIOUS
  <2> HIDE DEF a
  <2> QED
    BY <1>1, <1>5, <2>1, <2>2 DEF IInv, ActsAreInLives
<1>7. PidsAscend' /\ MothersComeFirst' /\ LivesAreOrdered'
  BY <1>1, <1>5 DEF IInv, PidsAscend, MothersComeFirst, LivesAreOrdered
<1> QED
  BY <1>3, <1>4, <1>6, <1>7 DEF IInv

LEMMA TickPreserves ==
  ASSUME IInv, Tick
  PROVE  IInv'
<1>1. now < MaxTime /\ now' = now + 1 /\ UNCHANGED <<downCap, procs, acts>>
  BY DEF Tick
<1>2. now \in Nat /\ now' \in Nat /\ now' \in Times /\ now <= now'
  BY <1>1, TimesAreNatural DEF IInv, TypeOK, Times
<1>3. TypeOK'
  BY <1>1, <1>2 DEF IInv, TypeOK
<1>4. \A q : Seen(q)' <=> Seen(q)
  BY <1>1 DEF Seen
<1>5. PidsAscend' /\ MothersComeFirst'
  BY <1>1, <1>4 DEF IInv, PidsAscend, MothersComeFirst
<1>6. LivesAreOrdered'
  <2>1. ASSUME NEW q \in Pids, Seen(q)
        PROVE  /\ procs[q].start <= now'
               /\ procs[q].exit # None => procs[q].start <= procs[q].exit /\ procs[q].exit <= now'
    <3>1. /\ procs[q].start \in Nat /\ (procs[q].exit # None => procs[q].exit \in Nat)
          /\ procs[q].start <= now
          /\ procs[q].exit # None => procs[q].start <= procs[q].exit /\ procs[q].exit <= now
      BY <2>1, ProcessFields DEF IInv, LivesAreOrdered
    <3> QED
      BY <1>2, <3>1
  <2> QED
    BY <1>1, <1>4, <2>1 DEF LivesAreOrdered
<1>7. ActsAreInLives'
  <2>1. ASSUME NEW a \in acts PROVE a.at <= now'
    <3>1. a.at \in Nat /\ a.at <= now
      BY TimesAreNatural DEF IInv, TypeOK, ActsAreInLives
    <3> QED
      BY <1>2, <3>1
  <2> QED
    BY <1>1, <1>4, <2>1 DEF IInv, ActsAreInLives
<1> QED
  BY <1>1, <1>3, <1>5, <1>6, <1>7 DEF IInv

\* The inductive invariant, for any processes, events and caps.
THEOREM InvariantHolds == Spec => []IInv
<1>1. Init => IInv
  <2> SUFFICES ASSUME Init PROVE IInv
    OBVIOUS
  <2>1. IsFiniteSet({}) /\ Cardinality({}) = 0 /\ 0 <= MaxActs
    BY FS_EmptySet, IncidentAssumption
  <2>2. \A p \in Pids : ~Seen(p)
    BY DEF Init, Seen
  <2>3. TypeOK
    BY <2>1, TimesAreNatural DEF Init, TypeOK
  <2> QED
    BY <2>1, <2>2, <2>3
       DEF Init, IInv, PidsAscend, MothersComeFirst, LivesAreOrdered, ActsAreInLives
<1>2. IInv /\ [Next]_vars => IInv'
  <2> SUFFICES ASSUME IInv, [Next]_vars PROVE IInv'
    OBVIOUS
  <2>1. ASSUME NEW p \in Pids, NEW m \in Pids \cup {None}, Fork(m, p) PROVE IInv'
    BY <2>1, ForkPreserves
  <2>2. ASSUME NEW p \in Pids, NEW image \in Images[p], Exec(p, image) PROVE IInv'
    BY <2>2, ExecPreserves
  <2>3. ASSUME NEW p \in Pids, Exit(p) PROVE IInv'
    BY <2>3, ExitPreserves
  <2>4. ASSUME NEW p \in Pids, NEW kind \in Kinds, Does(p, kind) PROVE IInv'
    BY <2>4, DoesPreserves
  <2>5. CASE Tick
    BY <2>5, TickPreserves
  <2>6. CASE UNCHANGED vars
    <3>1. UNCHANGED <<downCap, now, procs, acts>>
      BY <2>6 DEF vars
    <3> QED
      BY <3>1 DEF IInv, TypeOK, PidsAscend, MothersComeFirst, LivesAreOrdered, ActsAreInLives, Seen
  <2> QED
    BY <2>1, <2>2, <2>3, <2>4, <2>5, <2>6 DEF Next
<1> QED
  BY <1>1, <1>2, PTL DEF Spec

\* The clock, the processes and the events are of their types.
THEOREM TypeCorrect == Spec => []TypeOK
<1>1. IInv => TypeOK
  BY DEF IInv
<1> QED
  BY <1>1, InvariantHolds, PTL

-----------------------------------------------------------------------------
(* The mothers of a process, without recursion: what is in every set that  *)
(* has the process and, of all in it, the mothers.                         *)

Closed(C) == \A x \in C : Mother(x) # None => Mother(x) \in C
Above(q) == {m \in Pids : \A C \in SUBSET Pids : (q \in C /\ Closed(C)) => m \in C}

\* A set of naturals that is not empty has a least element.
LEMMA LeastNatural ==
  ASSUME NEW T, T \subseteq Nat, T # {}
  PROVE  \E x \in T : \A y \in T : x <= y
<1>1. PICK x \in T : \A y \in T : ~ (<<y, x>> \in OpToRel(<, Nat))
  BY WFMin, NatLessThanWellFounded, Zenon
<1>2. \A y \in T : ~(y < x)
  BY <1>1, Zenon DEF OpToRel
<1>3. \A y \in T : x <= y
  BY <1>2
<1> QED
  BY <1>3

\* A mother is a process seen that came before.
LEMMA MotherComesFirst ==
  ASSUME IInv, NEW p \in Pids
  PROVE  /\ Mother(p) \in Pids \cup {None}
         /\ Mother(p) # None =>
              Mother(p) \in Pids /\ Seen(p) /\ Seen(Mother(p)) /\ Mother(p) < p
         /\ Seen(p) => procs[p].parent \in {None, Mother(p)}
BY DEF IInv, MothersComeFirst, Mother

\* A process is above itself, and what is above its mother is above it.
LEMMA AboveUnfolds ==
  ASSUME IInv, NEW q \in Pids
  PROVE  Above(q) = {q} \cup (IF Mother(q) = None THEN {} ELSE Above(Mother(q)))
<1> DEFINE rest == IF Mother(q) = None THEN {} ELSE Above(Mother(q))
<1>1. Mother(q) # None => Mother(q) \in Pids
  BY MotherComesFirst
<1>2. {q} \cup rest \subseteq Above(q)
  BY <1>1 DEF Above, Closed
<1>3. {q} \cup rest \in SUBSET Pids
  BY DEF Above
<1>4. Closed({q} \cup rest)
  <2> SUFFICES ASSUME NEW x \in {q} \cup rest, Mother(x) # None PROVE Mother(x) \in {q} \cup rest
    BY DEF Closed
  <2>1. CASE x = q
    BY <1>1, <2>1 DEF Above
  <2>2. CASE x # q
    <3>1. Mother(q) # None /\ x \in Above(Mother(q)) /\ x \in Pids
      BY <2>2 DEF Above
    <3>2. Mother(x) \in Pids
      BY <3>1, MotherComesFirst
    <3>3. Mother(x) \in Above(Mother(q))
      BY <3>1, <3>2 DEF Above, Closed
    <3> QED
      BY <3>1, <3>3
  <2> QED
    BY <2>1, <2>2
<1>5. Above(q) \subseteq {q} \cup rest
  BY <1>3, <1>4 DEF Above
<1> QED
  BY <1>2, <1>5

\* The recursion over mothers ends, and finds all above.
LEMMA MothersAreAbove ==
  ASSUME IInv, NEW p \in Pids
  PROVE  Mothers(p) = Above(p)
<1> DEFINE Step(f, q) == {q} \cup IF Mother(q) = None THEN {} ELSE f[Mother(q)]
           g == [q \in Pids |-> Above(q)]
           up == CHOOSE f : f = [q \in Pids |-> Step(f, q)]
<1>1. \E f : f = [q \in Pids |-> Step(f, q)]
  <2>1. ASSUME NEW q \in Pids PROVE Above(q) = Step(g, q)
    <3>1. Mother(q) # None => Mother(q) \in Pids
      BY MotherComesFirst
    <3> QED
      BY <3>1, AboveUnfolds
  <2>2. g = [q \in Pids |-> Step(g, q)]
    BY <2>1
  <2> QED
    BY <2>2
<1>2. up = [q \in Pids |-> Step(up, q)]
  BY <1>1
<1>3. Mothers(p) = up[p]
  BY DEF Mothers
<1> HIDE DEF up
<1>4. up[p] = Above(p)
  <2> DEFINE T == {q \in Pids : up[q] # Above(q)}
  <2> SUFFICES ASSUME T # {} PROVE FALSE
    OBVIOUS
  <2>1. T \subseteq Nat
    BY TimesAreNatural
  <2>2. PICK q \in T : \A y \in T : q <= y
    BY <2>1, LeastNatural
  <2>3. q \in Pids /\ up[q] # Above(q) /\ up[q] = Step(up, q)
    BY <1>2
  <2>4. Mother(q) # None => up[Mother(q)] = Above(Mother(q))
    <3> SUFFICES ASSUME Mother(q) # None PROVE Mother(q) \notin T
      BY <2>3, MotherComesFirst
    <3>1. Mother(q) \in Pids /\ Mother(q) < q /\ q \in Nat /\ Mother(q) \in Nat
      BY <2>3, MotherComesFirst, TimesAreNatural
    <3>2. ~(q <= Mother(q))
      BY <3>1
    <3> QED
      BY <2>2, <3>2
  <2> QED
    BY <2>3, <2>4, AboveUnfolds
<1> QED
  BY <1>3, <1>4

\* The mothers of a process seen are seen and came before.
LEMMA MothersCameFirst ==
  ASSUME IInv, NEW p \in Pids, Seen(p), NEW m \in Mothers(p)
  PROVE  m \in Pids /\ Seen(m) /\ m <= p
<1> DEFINE C == {x \in Pids : Seen(x) /\ x <= p}
<1>1. \A x \in C : Mother(x) # None => Mother(x) \in C
  <2> SUFFICES ASSUME NEW x \in C, Mother(x) # None PROVE Mother(x) \in C
    OBVIOUS
  <2>1. /\ Mother(x) \in Pids /\ Seen(Mother(x)) /\ Mother(x) < x /\ x <= p
        /\ Mother(x) \in Nat /\ x \in Nat /\ p \in Nat
    BY MotherComesFirst, TimesAreNatural
  <2> QED
    BY <2>1
<1>2. p \in C /\ C \in SUBSET Pids
  BY TimesAreNatural
<1> HIDE DEF C
<1>3. m \in C
  BY <1>1, <1>2, MothersAreAbove DEF Above, Closed
<1> QED
  BY <1>3 DEF C

\* What is above someone above a process is above the process.
LEMMA MothersTransitive ==
  ASSUME IInv, NEW q \in Pids, NEW p \in Mothers(q)
  PROVE  p \in Pids /\ q \in Mothers(q) /\ Mothers(p) \subseteq Mothers(q)
<1>1. p \in Pids /\ Mothers(q) = Above(q)
  BY MothersAreAbove DEF Above
<1>2. Mothers(p) = Above(p)
  BY <1>1, MothersAreAbove
<1> QED
  BY <1>1, <1>2 DEF Above

\* The mothers of a process, one by one.
LEMMA MothersUnfold ==
  ASSUME IInv, NEW q \in Pids
  PROVE  /\ Mothers(q) = {q} \cup (IF Mother(q) = None THEN {} ELSE Mothers(Mother(q)))
         /\ Mothers(q) \subseteq Pids
<1>1. Mother(q) # None => Mothers(Mother(q)) = Above(Mother(q))
  BY MotherComesFirst, MothersAreAbove
<1>2. Mothers(q) = Above(q)
  BY MothersAreAbove
<1> QED
  BY <1>1, <1>2, AboveUnfolds DEF Above

\* Offspring of offspring is offspring.
LEMMA OffspringTransitive ==
  ASSUME IInv, NEW p \in Pids, Seen(p), NEW q \in Offspring(p)
  PROVE  /\ q \in Pids /\ Seen(q) /\ p < q /\ p \in Mothers(q)
         /\ Offspring(q) \subseteq Offspring(p)
<1>1. q \in Pids /\ q # p /\ Seen(q) /\ p \in Mothers(q)
  BY DEF Offspring
<1>2. p < q
  <2>1. p <= q /\ p \in Nat /\ q \in Nat
    BY <1>1, MothersCameFirst, TimesAreNatural
  <2> QED
    BY <1>1, <2>1
<1>3. ASSUME NEW r \in Offspring(q) PROVE r \in Offspring(p)
  <2>1. r \in Pids /\ Seen(r) /\ q \in Mothers(r)
    BY DEF Offspring
  <2>2. p \in Mothers(r)
    BY <1>1, <2>1, MothersTransitive
  <2>3. q <= r /\ r \in Nat /\ p \in Nat /\ q \in Nat
    BY <1>1, <2>1, MothersCameFirst, TimesAreNatural
  <2>4. r # p
    BY <1>2, <2>3
  <2> QED
    BY <2>1, <2>2, <2>4 DEF Offspring
<1> QED
  BY <1>1, <1>2, <1>3

-----------------------------------------------------------------------------
(* The ancestry of a process.                                              *)

\* From a process, one parent link after the other.
Chain(f, p) ==
  f = [n \in 0 .. UpCap - 1 |->
         IF n = 0 THEN p ELSE IF f[n - 1] = None THEN None ELSE procs[f[n - 1]].parent]

\* The ancestry is what a chain shows.
ShowsAncestry(f, p) ==
  Chain(f, p) /\ Ancestry(p) = {f[n] : n \in 0 .. UpCap - 1} \ {None}

\* What holds of 0 and goes from each number to the next holds up to k.
LEMMA UpTo ==
  ASSUME NEW k \in Nat, NEW G, 0 \in G, \A n \in 1 .. k : n - 1 \in G => n \in G
  PROVE  \A n \in 0 .. k : n \in G
<1> DEFINE T == {n \in 0 .. k : n \notin G}
<1> SUFFICES ASSUME T # {} PROVE FALSE
  OBVIOUS
<1>1. T \subseteq Nat
  OBVIOUS
<1> HIDE DEF T
<1>2. PICK x \in T : \A y \in T : x <= y
  BY <1>1, LeastNatural
<1>3. x \in 0 .. k /\ x \notin G
  BY DEF T
<1>4. x # 0 /\ x \in 1 .. k
  BY <1>3
<1>5. x - 1 \in 0 .. k /\ ~(x <= x - 1)
  BY <1>4
<1>6. x - 1 \in G
  BY <1>2, <1>5 DEF T
<1> QED
  BY <1>3, <1>4, <1>6

\* The recursion over parent links ends.
LEMMA AncestryIsAChain ==
  ASSUME NEW p
  PROVE  \E f : ShowsAncestry(f, p)
<1> DEFINE k == UpCap - 1
           Step(f, n) == IF n = 0 THEN p ELSE IF f[n - 1] = None THEN None ELSE procs[f[n - 1]].parent
           G == {m \in 0 .. k : \E f : f = [n \in 0 .. m |-> Step(f, n)]}
<1>0. k \in Nat
  BY IncidentAssumption
<1>1. 0 \in G
  <2> DEFINE f == [n \in 0 .. 0 |-> p]
  <2>1. f = [n \in 0 .. 0 |-> Step(f, n)]
    OBVIOUS
  <2> HIDE DEF f
  <2>2. \E h : h = [n \in 0 .. 0 |-> Step(h, n)]
    BY <2>1
  <2> QED
    BY <1>0, <2>2
<1>2. ASSUME NEW m \in 1 .. k, m - 1 \in G
      PROVE  m \in G
  <2>1. PICK f : f = [n \in 0 .. m - 1 |-> Step(f, n)]
    BY <1>2
  <2> DEFINE next == IF f[m - 1] = None THEN None ELSE procs[f[m - 1]].parent
             g == [n \in 0 .. m |-> IF n = m THEN next ELSE f[n]]
  <2>2. \A n \in 0 .. m - 1 : n \in 0 .. m /\ n # m /\ g[n] = f[n]
    BY <1>0
  <2>3. m - 1 \in 0 .. m - 1 /\ m # 0 /\ m \in 0 .. m
    BY <1>0
  <2>4. g[m] = next
    BY <2>3
  <2>5. g[m - 1] = f[m - 1]
    BY <2>2, <2>3
  <2> HIDE DEF g
  <2>6. ASSUME NEW n \in 0 .. m PROVE g[n] = Step(g, n)
    <3>1. CASE n = m
      BY <2>3, <2>4, <2>5, <3>1
    <3>2. CASE n # m /\ n = 0
      <4>1. n \in 0 .. m - 1
        BY <1>0, <3>2
      <4>2. f[n] = p
        BY <2>1, <3>2, <4>1
      <4> QED
        BY <2>2, <3>2, <4>1, <4>2
    <3>3. CASE n # m /\ n # 0
      <4>1. n \in 0 .. m - 1 /\ n - 1 \in 0 .. m - 1
        BY <1>0, <3>3
      <4>2. f[n] = Step(f, n)
        BY <2>1, <4>1
      <4>3. g[n] = f[n] /\ g[n - 1] = f[n - 1]
        BY <2>2, <4>1
      <4> QED
        BY <3>3, <4>2, <4>3
    <3> QED
      BY <3>1, <3>2, <3>3
  <2>7. g = [n \in 0 .. m |-> Step(g, n)]
    BY <2>6 DEF g
  <2>8. m \in 0 .. k
    OBVIOUS
  <2> QED
    BY <2>7, <2>8
<1>3. k \in G
  <2> HIDE DEF G
  <2>1. \A n \in 0 .. k : n \in G
    BY <1>0, <1>1, <1>2, UpTo
  <2> QED
    BY <1>0, <2>1
<1>4. \E f : f = [n \in 0 .. k |-> Step(f, n)]
  BY <1>3
<1> DEFINE up == CHOOSE f : f = [n \in 0 .. k |-> Step(f, n)]
<1>5. up = [n \in 0 .. k |-> Step(up, n)]
  BY <1>4
<1>6. Ancestry(p) = {up[n] : n \in 0 .. UpCap - 1} \ {None}
  BY DEF Ancestry
<1> HIDE DEF up
<1>7. ShowsAncestry(up, p)
  BY <1>5, <1>6 DEF ShowsAncestry, Chain
<1> QED
  BY <1>7

\* A chain begins with the process and goes from a process seen to its mother, or
\* ends.
LEMMA ChainGoesUp ==
  ASSUME IInv, NEW p \in Pids, Seen(p), NEW f, Chain(f, p)
  PROVE  /\ 0 \in 0 .. UpCap - 1 /\ f[0] = p
         /\ \A n \in 0 .. UpCap - 1 : f[n] # None => f[n] \in Pids /\ Seen(f[n])
         /\ \A n \in 1 .. UpCap - 1 :
              /\ n - 1 \in 0 .. UpCap - 1
              /\ f[n] = IF f[n - 1] = None THEN None ELSE procs[f[n - 1]].parent
<1> DEFINE k == UpCap - 1
           G == {n \in 0 .. k : f[n] # None => f[n] \in Pids /\ Seen(f[n])}
<1>1. k \in Nat /\ 0 \in 0 .. k
  BY IncidentAssumption
<1>2. \A n \in 0 .. k : f[n] = IF n = 0 THEN p ELSE
                          IF f[n - 1] = None THEN None ELSE procs[f[n - 1]].parent
  BY DEF Chain
<1>3. f[0] = p
  BY <1>1, <1>2
<1>4. ASSUME NEW n \in 1 .. k
      PROVE  /\ n \in 0 .. k /\ n - 1 \in 0 .. k
             /\ f[n] = IF f[n - 1] = None THEN None ELSE procs[f[n - 1]].parent
  <2>1. n \in 0 .. k /\ n - 1 \in 0 .. k /\ n # 0
    BY <1>1
  <2> QED
    BY <1>2, <2>1
<1>5. 0 \in G
  BY <1>1, <1>3
<1>6. ASSUME NEW n \in 1 .. k, n - 1 \in G
      PROVE  n \in G
  <2> SUFFICES ASSUME f[n] # None PROVE f[n] \in Pids /\ Seen(f[n])
    BY <1>4
  <2>1. f[n - 1] # None /\ f[n] = procs[f[n - 1]].parent
    BY <1>4
  <2>2. f[n - 1] \in Pids /\ Seen(f[n - 1])
    BY <1>6, <2>1
  <2>3. f[n] = Mother(f[n - 1])
    BY <2>1, <2>2, MotherComesFirst
  <2> QED
    BY <2>2, <2>3, MotherComesFirst
<1>7. \A n \in 0 .. k : n \in G
  <2> HIDE DEF G
  <2> QED
    BY <1>1, <1>5, <1>6, UpTo
<1> QED
  BY <1>1, <1>3, <1>4, <1>7

\* A process is in its ancestry, and all in it have been seen.
LEMMA OwnAncestry ==
  ASSUME IInv, NEW p \in Pids, Seen(p)
  PROVE  /\ p \in Ancestry(p)
         /\ \A m \in Ancestry(p) : m \in Pids /\ Seen(m)
<1>1. PICK f : ShowsAncestry(f, p)
  BY AncestryIsAChain
<1>2. /\ Chain(f, p) /\ Ancestry(p) = {f[n] : n \in 0 .. UpCap - 1} \ {None}
  BY <1>1 DEF ShowsAncestry
<1>3. /\ 0 \in 0 .. UpCap - 1 /\ f[0] = p
      /\ \A n \in 0 .. UpCap - 1 : f[n] # None => f[n] \in Pids /\ Seen(f[n])
  BY <1>2, ChainGoesUp
<1>4. p # None
  BY IncidentAssumption
<1>5. p \in Ancestry(p)
  BY <1>2, <1>3, <1>4
<1> QED
  BY <1>2, <1>3, <1>5

\* The ancestry of an offspring is below the process or in its ancestry.
LEMMA AncestriesMeet ==
  ASSUME IInv, NEW p \in Pids, Seen(p), NEW q \in Offspring(p), NEW m \in Ancestry(q)
  PROVE  m \in Ancestry(p) \cup Offspring(p)
<1>1. q \in Pids /\ Seen(q) /\ p \in Mothers(q)
  BY OffspringTransitive
<1>2. PICK f : ShowsAncestry(f, p)
  BY AncestryIsAChain
<1>3. PICK g : ShowsAncestry(g, q)
  BY AncestryIsAChain
<1>4. /\ Chain(f, p) /\ Ancestry(p) = {f[n] : n \in 0 .. UpCap - 1} \ {None}
      /\ Chain(g, q) /\ Ancestry(q) = {g[n] : n \in 0 .. UpCap - 1} \ {None}
  BY <1>2, <1>3 DEF ShowsAncestry
<1> DEFINE k == UpCap - 1
           Shown(n) == \E i \in 0 .. n : g[n] = f[i]
           G == {n \in 0 .. k : g[n] # None => p \in Mothers(g[n]) \/ Shown(n)}
<1>5. k \in Nat
  BY IncidentAssumption
<1>6. /\ f[0] = p
      /\ \A n \in 0 .. k : f[n] # None => f[n] \in Pids /\ Seen(f[n])
      /\ \A n \in 1 .. k : f[n] = IF f[n - 1] = None THEN None ELSE procs[f[n - 1]].parent
  BY <1>4, ChainGoesUp
<1>7. /\ g[0] = q
      /\ \A n \in 0 .. k : g[n] # None => g[n] \in Pids /\ Seen(g[n])
      /\ \A n \in 1 .. k : g[n] = IF g[n - 1] = None THEN None ELSE procs[g[n - 1]].parent
  BY <1>1, <1>4, ChainGoesUp
<1>8. 0 \in G
  BY <1>1, <1>5, <1>7
<1>9. ASSUME NEW n \in 1 .. k, n - 1 \in G
      PROVE  n \in G
  <2> SUFFICES ASSUME g[n] # None PROVE p \in Mothers(g[n]) \/ Shown(n)
    BY <1>5
  <2> DEFINE x == g[n - 1]
  <2>1. n - 1 \in 0 .. k /\ n - 1 \in 0 .. n /\ n \in 0 .. n
    BY <1>5
  <2>2. x # None /\ g[n] = procs[x].parent
    BY <1>7
  <2>3. x \in Pids /\ Seen(x)
    BY <1>7, <2>1, <2>2
  <2>4. g[n] = Mother(x) /\ Mother(x) # None
    BY <2>2, <2>3, MotherComesFirst
  <2>5. CASE p \in Mothers(x) /\ p # x
    <3>1. p \in Mothers(Mother(x))
      BY <2>3, <2>4, <2>5, MothersUnfold
    <3> QED
      BY <2>4, <3>1
  <2>6. CASE p = x
    <3>1. 1 \in 1 .. k /\ 1 - 1 = 0 /\ 1 \in 0 .. n
      BY <1>5
    <3>2. p # None
      BY <2>2, <2>6
    <3>3. f[1] = procs[p].parent
      BY <1>6, <3>1, <3>2
    <3> QED
      BY <2>2, <2>6, <3>1, <3>3
  <2>7. CASE p \notin Mothers(x)
    <3>1. PICK i \in 0 .. n - 1 : x = f[i]
      BY <1>9, <2>2, <2>7
    <3>2. i + 1 \in 1 .. k /\ (i + 1) - 1 = i /\ i + 1 \in 0 .. n
      BY <1>5
    <3>3. f[i + 1] = procs[x].parent
      BY <1>6, <2>2, <3>1, <3>2
    <3> QED
      BY <2>2, <3>2, <3>3
  <2> QED
    BY <2>5, <2>6, <2>7
<1>10. \A n \in 0 .. k : n \in G
  <2> HIDE DEF G
  <2> QED
    BY <1>5, <1>8, <1>9, UpTo
<1>11. PICK n \in 0 .. k : m = g[n] /\ g[n] # None
  BY <1>4
<1>12. CASE p \in Mothers(m)
  <2>1. m \in Pids /\ Seen(m)
    BY <1>7, <1>11
  <2>2. m = p \/ m \in Offspring(p)
    BY <1>12, <2>1 DEF Offspring
  <2> QED
    BY <2>2, OwnAncestry
<1>13. CASE Shown(n)
  <2>1. PICK i \in 0 .. n : m = f[i]
    BY <1>11, <1>13
  <2>2. i \in 0 .. k
    BY <1>5, <2>1
  <2> QED
    BY <1>4, <1>11, <2>1, <2>2
<1> QED
  BY <1>10, <1>11, <1>12, <1>13

-----------------------------------------------------------------------------
(* What an incident shows.                                                 *)

Slack(a) == IF a.kind = "alert" THEN 2 ELSE 1

\* The descendants are offspring, and all of it within the cap.
LEMMA DescendantsAreOffspring ==
  ASSUME NEW p
  PROVE  Descendants(p) \subseteq Offspring(p) /\ (WithinCap(p) => Descendants(p) = Offspring(p))
BY DEF Descendants

\* The events of an incident.
LEMMA RelatedEvents ==
  ASSUME NEW p, NEW a
  PROVE  a \in Related(p) <=>
           /\ a \in acts /\ a.pid \in {p} \cup Descendants(p)
           /\ \E q \in Lineage(p) : procs[q].start - Slack(a) <= a.at
           /\ \E q \in Lineage(p) : \E t \in TimesOf(q) : a.at <= t + Slack(a)
BY DEF Related, Slack

\* What a process has done between its start and its exit is in the window of an
\* incident that has the process.
LEMMA FinishedIsShown ==
  ASSUME IInv, NEW p \in Pids, Seen(p), WithinCap(p), Finished(p), NEW a \in ActsOf(p)
  PROVE  a \in Related(p)
<1> DEFINE q == a.pid
<1>1. a \in acts /\ q \in {p} \cup Offspring(p)
  BY DEF ActsOf
<1>2. q \in Pids /\ Seen(q) /\ q \in {p} \cup Descendants(p)
  BY <1>1, DescendantsAreOffspring DEF Offspring
<1>3. q \in Lineage(p)
  BY <1>2, OwnAncestry DEF Lineage
<1>4. procs[q].exit # None
  BY <1>1, <1>2 DEF Finished, Running
<1>5. procs[q].start <= a.at /\ a.at <= procs[q].exit
  BY <1>1, <1>4 DEF IInv, ActsAreInLives
<1>6. procs[q].start \in Nat /\ procs[q].exit \in Nat /\ a.at \in Nat /\ Slack(a) \in Nat
  <2>1. procs[q].start \in Nat /\ procs[q].exit \in Nat
    BY <1>2, <1>4, ProcessFields DEF IInv
  <2>2. a.at \in Nat
    BY <1>1, TimesAreNatural DEF IInv, TypeOK
  <2> QED
    BY <2>1, <2>2 DEF Slack
<1>7. procs[q].exit \in TimesOf(q)
  BY <1>4 DEF TimesOf
<1>8. procs[q].start - Slack(a) <= a.at /\ a.at <= procs[q].exit + Slack(a)
  BY <1>5, <1>6
<1> QED
  BY <1>1, <1>2, <1>3, <1>7, <1>8, RelatedEvents

\* Once a process and its offspring have exited, the incident of the process has
\* every event of theirs.
THEOREM FinishedAlwaysShown == Spec => []EventsOfFinishedProcessesAreShown
<1>1. IInv => EventsOfFinishedProcessesAreShown
  BY FinishedIsShown DEF EventsOfFinishedProcessesAreShown
<1> QED
  BY <1>1, InvariantHolds, PTL

\* An event shown of an offspring is shown of the process: the offspring of the
\* one is offspring of the other, and so is the lineage, but for the ancestry
\* they share.
LEMMA OffspringIsShown ==
  ASSUME IInv, NEW p \in Pids, Seen(p), WithinCap(p), NEW q \in Offspring(p), NEW a \in Related(q)
  PROVE  a \in Related(p)
<1>1. Descendants(p) = Offspring(p) /\ Descendants(q) \subseteq Offspring(q)
  BY DescendantsAreOffspring
<1>2. Offspring(q) \subseteq Offspring(p)
  BY OffspringTransitive
<1>3. Lineage(q) \subseteq Lineage(p)
  BY <1>1, <1>2, AncestriesMeet DEF Lineage
<1>4. /\ a \in acts /\ a.pid \in {q} \cup Descendants(q)
      /\ \E r \in Lineage(q) : procs[r].start - Slack(a) <= a.at
      /\ \E r \in Lineage(q) : \E t \in TimesOf(r) : a.at <= t + Slack(a)
  BY RelatedEvents
<1>5. a.pid \in {p} \cup Descendants(p)
  BY <1>1, <1>2, <1>4
<1> QED
  BY <1>3, <1>4, <1>5, RelatedEvents

\* What the incident of a process shows, that of every process it comes from
\* shows too.
THEOREM AncestorsAlwaysShowIt == Spec => []AncestorsShowItToo
<1>1. IInv => AncestorsShowItToo
  BY OffspringIsShown DEF AncestorsShowItToo
<1> QED
  BY <1>1, InvariantHolds, PTL

-----------------------------------------------------------------------------
(* Finite sets in order.  An order is a set of pairs.                      *)

IsOrder(R, set) ==
  /\ \A x \in set : <<x, x>> \notin R
  /\ \A x, y, z \in set : (<<x, y>> \in R /\ <<y, z>> \in R) => <<x, z>> \in R
  /\ \A x, y \in set : x = y \/ <<x, y>> \in R \/ <<y, x>> \in R

Ahead(R, set, x) == {y \in set : <<y, x>> \in R}
Rank(R, set, x) == Cardinality(Ahead(R, set, x))

\* Elements differ in how many are ahead of them.
LEMMA RanksDiffer ==
  ASSUME NEW set, NEW R, IsFiniteSet(set), IsOrder(R, set)
  PROVE  /\ Cardinality(set) \in Nat
         /\ \A x \in set : Rank(R, set, x) \in 0 .. Cardinality(set) - 1
         /\ \A x, y \in set : Rank(R, set, x) = Rank(R, set, y) => x = y
<1>1. Cardinality(set) \in Nat
  BY FS_CardinalityType
<1>2. ASSUME NEW x \in set
      PROVE  /\ IsFiniteSet(Ahead(R, set, x)) /\ Rank(R, set, x) \in Nat
             /\ Rank(R, set, x) \in 0 .. Cardinality(set) - 1
  <2>1. Ahead(R, set, x) \in SUBSET (set \ {x})
    BY DEF Ahead, IsOrder
  <2>2. IsFiniteSet(set \ {x}) /\ Cardinality(set \ {x}) = Cardinality(set) - 1
    BY FS_RemoveElement
  <2>3. /\ IsFiniteSet(Ahead(R, set, x))
        /\ Cardinality(Ahead(R, set, x)) <= Cardinality(set) - 1
    BY <2>1, <2>2, FS_Subset
  <2>4. Cardinality(Ahead(R, set, x)) \in Nat
    BY <2>3, FS_CardinalityType
  <2> QED
    BY <1>1, <2>3, <2>4 DEF Rank
<1>3. ASSUME NEW x \in set, NEW y \in set, <<x, y>> \in R
      PROVE  Rank(R, set, x) < Rank(R, set, y)
  <2> DEFINE few == Ahead(R, set, x)
             many == Ahead(R, set, y)
  <2>1. IsFiniteSet(many) /\ Cardinality(few) \in Nat /\ Cardinality(many) \in Nat
    BY <1>2 DEF Rank
  <2>2. few \in SUBSET many
    BY <1>3 DEF Ahead, IsOrder
  <2>3. x \in many /\ x \notin few
    BY <1>3 DEF Ahead, IsOrder
  <2> HIDE DEF few, many
  <2>4. Cardinality(few) <= Cardinality(many) /\ Cardinality(few) # Cardinality(many)
    BY <2>1, <2>2, <2>3, FS_Subset
  <2>5. Cardinality(few) < Cardinality(many)
    BY <2>1, <2>4
  <2> QED
    BY <2>5 DEF few, many, Rank
<1>4. ASSUME NEW x \in set, NEW y \in set, Rank(R, set, x) = Rank(R, set, y)
      PROVE  x = y
  <2>1. Rank(R, set, x) \in Nat /\ Rank(R, set, y) \in Nat
    BY <1>2
  <2>2. ~(Rank(R, set, x) < Rank(R, set, y)) /\ ~(Rank(R, set, y) < Rank(R, set, x))
    BY <1>4, <2>1
  <2>3. <<x, y>> \notin R /\ <<y, x>> \notin R
    BY <1>3, <2>2
  <2> QED
    BY <2>3 DEF IsOrder
<1> QED
  BY <1>1, <1>2, <1>4

\* Every rank below the size of the set is some element's.
LEMMA RanksAreTaken ==
  ASSUME NEW set, NEW R, IsFiniteSet(set), IsOrder(R, set), NEW n \in 0 .. Cardinality(set) - 1
  PROVE  \E x \in set : Rank(R, set, x) = n
<1> DEFINE size == Cardinality(set)
           f == [x \in set |-> Rank(R, set, x)]
<1>1. size \in Nat /\ \A x \in set : f[x] \in 0 .. size - 1
  BY RanksDiffer
<1>2. \A x, y \in set : f[x] = f[y] => x = y
  BY RanksDiffer
<1>3. IsFiniteSet(0 .. size - 1) /\ Cardinality(0 .. size - 1) = size
  <2>1. 0 \in Int /\ size - 1 \in Int
    BY <1>1
  <2>2. /\ IsFiniteSet(0 .. size - 1)
        /\ Cardinality(0 .. size - 1) = IF 0 > size - 1 THEN 0 ELSE (size - 1) - 0 + 1
    BY <2>1, FS_Interval
  <2> HIDE DEF size
  <2> QED
    BY <1>1, <2>2
<1>4. f \in [set -> 0 .. size - 1]
  BY <1>1
<1>5. f \in Injection(set, 0 .. size - 1)
  BY <1>2, <1>4 DEF Injection, IsInjective
<1> HIDE DEF f
<1>6. f \in Surjection(set, 0 .. size - 1)
  BY <1>3, <1>5, FS_Injection
<1>7. \E x \in set : f[x] = n
  BY <1>6 DEF Surjection
<1> QED
  BY <1>7 DEF f

\* Of a set in order the first are as many as asked for, if someone is left out,
\* and all of them are ahead of that one.
LEMMA FirstOfOrder ==
  ASSUME NEW set, NEW R, IsFiniteSet(set), IsOrder(R, set), NEW limit \in Nat,
         NEW p \in set, ~(Rank(R, set, p) < limit)
  PROVE  LET first == {x \in set : Rank(R, set, x) < limit}
         IN  Cardinality(first) = limit /\ \A x \in first : <<x, p>> \in R
<1> DEFINE first == {x \in set : Rank(R, set, x) < limit}
           f == [x \in first |-> Rank(R, set, x)]
           size == Cardinality(set)
<1>1. /\ size \in Nat /\ \A x \in set : Rank(R, set, x) \in 0 .. size - 1
      /\ \A x, y \in set : Rank(R, set, x) = Rank(R, set, y) => x = y
  BY RanksDiffer
<1>2. limit <= size
  <2>1. Rank(R, set, p) \in 0 .. size - 1
    BY <1>1
  <2> HIDE DEF size
  <2> QED
    BY <1>1, <2>1
<1>3. f \in [first -> 0 .. limit - 1]
  <2>1. ASSUME NEW x \in first PROVE Rank(R, set, x) \in 0 .. limit - 1
    <3>1. Rank(R, set, x) \in 0 .. size - 1 /\ Rank(R, set, x) < limit
      BY <1>1
    <3> HIDE DEF size
    <3> QED
      BY <1>1, <3>1
  <2> QED
    BY <2>1
<1>4. f \in Injection(first, 0 .. limit - 1)
  BY <1>1, <1>3 DEF Injection, IsInjective
<1>5. f \in Surjection(first, 0 .. limit - 1)
  <2>1. ASSUME NEW n \in 0 .. limit - 1 PROVE \E x \in first : f[x] = n
    <3>1. n \in 0 .. size - 1 /\ n < limit
      <4> HIDE DEF size
      <4> QED
        BY <1>1, <1>2
    <3>2. PICK x \in set : Rank(R, set, x) = n
      BY <3>1, RanksAreTaken
    <3>3. x \in first
      BY <3>1, <3>2
    <3> QED
      BY <3>2, <3>3
  <2> QED
    BY <1>3, <2>1 DEF Surjection
<1>6. IsFiniteSet(first) /\ IsFiniteSet(0 .. limit - 1) /\ Cardinality(0 .. limit - 1) = limit
  <2>1. IsFiniteSet(first)
    BY FS_Subset
  <2>2. 0 \in Int /\ limit - 1 \in Int
    OBVIOUS
  <2>3. /\ IsFiniteSet(0 .. limit - 1)
        /\ Cardinality(0 .. limit - 1) = IF 0 > limit - 1 THEN 0 ELSE (limit - 1) - 0 + 1
    BY <2>2, FS_Interval
  <2> QED
    BY <2>1, <2>3
<1> HIDE DEF f, first
<1>7. Cardinality(first) = Cardinality(0 .. limit - 1)
  BY <1>4, <1>5, <1>6, FS_Injection
<1> USE DEF first
<1>8. ASSUME NEW x \in first PROVE <<x, p>> \in R
  <2>1. x \in set /\ x # p /\ Rank(R, set, x) < limit
    OBVIOUS
  <2>2. CASE <<p, x>> \in R
    <3>1. Ahead(R, set, p) \subseteq Ahead(R, set, x) /\ IsFiniteSet(Ahead(R, set, x))
      <4>1. Ahead(R, set, x) \subseteq set
        BY DEF Ahead
      <4>2. Ahead(R, set, p) \subseteq Ahead(R, set, x)
        BY <2>1, <2>2 DEF Ahead, IsOrder
      <4> QED
        BY <4>1, <4>2, FS_Subset
    <3>2. Rank(R, set, p) <= Rank(R, set, x)
      BY <3>1, FS_Subset DEF Rank
    <3>3. Rank(R, set, p) \in Nat /\ Rank(R, set, x) \in Nat
      BY <1>1, <2>1
    <3> QED
      BY <2>1, <3>2, <3>3
  <2> QED
    BY <2>1, <2>2 DEF IsOrder
<1> QED
  BY <1>6, <1>7, <1>8

-----------------------------------------------------------------------------
(* The descendants of a process, of which the cap keeps the first.         *)

\* What is above a process and not it is above its mother, and smaller.
LEMMA AboveMother ==
  ASSUME IInv, NEW q \in Pids, NEW c \in Mothers(q), c # q
  PROVE  /\ Mother(q) # None /\ Mother(q) \in Pids /\ Mother(q) < q
         /\ c \in Mothers(Mother(q)) /\ c \in Pids /\ c < q
<1>1. Mother(q) # None /\ c \in Mothers(Mother(q)) /\ c \in Pids
  BY MothersUnfold
<1>2. Mother(q) \in Pids /\ Seen(Mother(q)) /\ Mother(q) < q
  BY <1>1, MotherComesFirst
<1>3. c <= Mother(q)
  BY <1>1, <1>2, MothersCameFirst
<1>4. c \in Nat /\ q \in Nat /\ Mother(q) \in Nat
  BY <1>1, <1>2, TimesAreNatural
<1>5. c < q
  BY <1>2, <1>3, <1>4
<1> QED
  BY <1>1, <1>2, <1>5

\* Those above a process are above one another.
LEMMA MothersChain ==
  ASSUME IInv, NEW q \in Pids, NEW m \in Mothers(q), NEW k \in Mothers(q)
  PROVE  m \in Mothers(k) \/ k \in Mothers(m)
<1> DEFINE T == {x \in Pids : \E a, b \in Mothers(x) : a \notin Mothers(b) /\ b \notin Mothers(a)}
<1>1. ASSUME T # {} PROVE FALSE
  <2>1. T \subseteq Nat
    BY TimesAreNatural
  <2> HIDE DEF T
  <2>2. PICK x \in T : \A y \in T : x <= y
    BY <1>1, <2>1, LeastNatural
  <2>3. x \in Pids /\ \E a, b \in Mothers(x) : a \notin Mothers(b) /\ b \notin Mothers(a)
    BY <2>2 DEF T
  <2>4. PICK a \in Mothers(x), b \in Mothers(x) : a \notin Mothers(b) /\ b \notin Mothers(a)
    BY <2>3
  <2>5. a # x /\ b # x
    BY <2>3, <2>4
  <2>6. /\ Mother(x) \in Pids /\ Mother(x) < x /\ a \in Mothers(Mother(x))
        /\ b \in Mothers(Mother(x))
    BY <2>3, <2>5, AboveMother
  <2>7. Mother(x) \in T
    BY <2>4, <2>6 DEF T
  <2>8. Mother(x) \in Nat /\ x \in Nat /\ x <= Mother(x)
    BY <2>2, <2>3, <2>6, <2>7, TimesAreNatural
  <2> QED
    BY <2>6, <2>8
<1> QED
  BY <1>1

\* Whoever is above a process and not it has a child above it.
LEMMA WayDown ==
  ASSUME IInv, NEW q \in Pids, NEW c \in Mothers(q), c # q
  PROVE  \E m \in Mothers(q) : Mother(m) = c
<1> DEFINE T == {x \in Pids : \E a \in Mothers(x) : a # x /\ \A m \in Mothers(x) : Mother(m) # a}
<1>1. ASSUME T # {} PROVE FALSE
  <2>1. T \subseteq Nat
    BY TimesAreNatural
  <2> HIDE DEF T
  <2>2. PICK x \in T : \A y \in T : x <= y
    BY <1>1, <2>1, LeastNatural
  <2>3. x \in Pids /\ \E a \in Mothers(x) : a # x /\ \A m \in Mothers(x) : Mother(m) # a
    BY <2>2 DEF T
  <2>4. PICK a \in Mothers(x) : a # x /\ \A m \in Mothers(x) : Mother(m) # a
    BY <2>3
  <2>5. Mother(x) # None /\ Mother(x) \in Pids /\ Mother(x) < x /\ a \in Mothers(Mother(x))
    BY <2>3, <2>4, AboveMother
  <2>6. x \in Mothers(x) /\ Mothers(Mother(x)) \subseteq Mothers(x)
    BY <2>3, <2>5, MothersUnfold
  <2>7. a # Mother(x)
    BY <2>4, <2>6
  <2>8. Mother(x) \in T
    BY <2>4, <2>5, <2>6, <2>7 DEF T
  <2>9. Mother(x) \in Nat /\ x \in Nat /\ x <= Mother(x)
    BY <2>2, <2>3, <2>5, <2>8, TimesAreNatural
  <2> QED
    BY <2>5, <2>9
<1> QED
  BY <1>1

\* Whoever is above one of two sisters and not she is above what is below the
\* other.
LEMMA AboveSister ==
  ASSUME IInv, NEW u \in Pids, NEW c \in Mothers(u), c # u,
         NEW w \in Pids, NEW v \in Mothers(w), Mother(v) = Mother(u)
  PROVE  c \in Mothers(w) /\ c # w
<1>1. Mother(u) # None /\ c \in Mothers(Mother(u)) /\ c \in Pids
  BY AboveMother
<1>2. v \in Pids /\ Mothers(v) \subseteq Mothers(w)
  BY MothersTransitive
<1>3. c \in Mothers(v) /\ Mother(v) \in Mothers(v)
  <2>1. Mother(v) \in Pids
    BY <1>1, <1>2, MotherComesFirst
  <2>2. Mother(v) \in Mothers(Mother(v))
    BY <2>1, MothersUnfold
  <2> QED
    BY <1>1, <1>2, <2>2, MothersUnfold
<1>4. ASSUME c = w PROVE FALSE
  <2>1. v = c
    <3>1. ASSUME v # w PROVE FALSE
      <4>1. v < w
        BY <3>1, AboveMother
      <4>2. c # v
        BY <1>4, <3>1
      <4>3. c < v
        BY <1>2, <1>3, <4>2, AboveMother
      <4>4. c \in Nat /\ v \in Nat
        BY <1>1, <1>2, TimesAreNatural
      <4> QED
        BY <1>4, <4>1, <4>3, <4>4
    <3> QED
      BY <1>4, <3>1
  <2>2. Mother(v) \in Pids /\ Mother(v) < v /\ Seen(Mother(v))
    BY <1>1, <1>2, MotherComesFirst
  <2>3. c <= Mother(v)
    BY <1>1, <2>2, MothersCameFirst
  <2>4. c \in Nat /\ Mother(v) \in Nat
    BY <1>1, <2>2, TimesAreNatural
  <2> QED
    BY <2>1, <2>2, <2>3, <2>4
<1> QED
  BY <1>2, <1>3, <1>4

\* Of the children of one mother one is sooner than another.
LEMMA SistersInOrder ==
  ASSUME IInv, NEW root,
         NEW m \in Pids, NEW n \in Pids, NEW k \in Pids, Seen(m), Seen(n), Seen(k),
         Mother(m) = Mother(n), Mother(n) = Mother(k)
  PROVE  /\ ~Sooner(root, m, m)
         /\ Sooner(root, m, n) /\ Sooner(root, n, k) => Sooner(root, m, k)
         /\ m = n \/ Sooner(root, m, n) \/ Sooner(root, n, m)
<1>1. /\ procs[m].start \in Nat /\ procs[n].start \in Nat /\ procs[k].start \in Nat
      /\ m \in Nat /\ n \in Nat /\ k \in Nat
  BY ProcessFields, TimesAreNatural DEF IInv
<1>2. /\ ~Earlier(m, m)
      /\ Earlier(m, n) /\ Earlier(n, k) => Earlier(m, k)
      /\ Earlier(k, n) /\ Earlier(n, m) => Earlier(k, m)
      /\ m = n \/ Earlier(m, n) \/ Earlier(n, m)
  BY <1>1 DEF Earlier
<1> QED
  BY <1>2 DEF Sooner

\* Sisters that the ways down to two processes pass through, the first sooner.
Parts(root, q, r, m, n) ==
  m \in Mothers(q) /\ n \in Mothers(r) /\ Mother(m) = Mother(n) /\ Sooner(root, m, n)

\* What comes before what comes before a process comes before it.
LEMMA BeforeTransitive ==
  ASSUME IInv, NEW root, NEW x \in Pids, NEW y \in Pids, NEW z \in Pids,
         Seen(x), Seen(y), Seen(z), Before(root, x, y), Before(root, y, z)
  PROVE  Before(root, x, z)
<1>1. \A q \in {x, y, z} : \A m \in Mothers(q) : m \in Pids /\ Seen(m)
  BY MothersCameFirst
<1>2. \A m, n : Parts(root, x, z, m, n) => Before(root, x, z)
  BY DEF Parts, Before
<1>3. (x # z /\ x \in Mothers(z)) => Before(root, x, z)
  BY DEF Before
<1>4. CASE x # y /\ x \in Mothers(y) /\ y # z /\ y \in Mothers(z)
  <2>1. x \in Mothers(z)
    BY <1>4, MothersTransitive
  <2>2. x < y /\ y < z /\ x \in Nat /\ y \in Nat /\ z \in Nat
    BY <1>4, AboveMother, TimesAreNatural
  <2> QED
    BY <1>3, <2>1, <2>2
<1>5. CASE x # y /\ x \in Mothers(y) /\ \E m, n : Parts(root, y, z, m, n)
  <2>1. PICK m, n : Parts(root, y, z, m, n)
    BY <1>5
  <2>2. /\ m \in Mothers(y) /\ n \in Mothers(z) /\ Mother(m) = Mother(n)
        /\ Sooner(root, m, n) /\ m \in Pids /\ n \in Pids
    BY <1>1, <2>1 DEF Parts
  <2>3. CASE m \in Mothers(x)
    BY <1>2, <2>2, <2>3 DEF Parts
  <2>4. CASE x \in Mothers(m) /\ x # m
    BY <1>3, <2>2, <2>4, AboveSister
  <2>5. x = m => m \in Mothers(x)
    BY MothersUnfold
  <2> QED
    BY <1>5, <2>2, <2>3, <2>4, <2>5, MothersChain
<1>6. CASE (\E m, n : Parts(root, x, y, m, n)) /\ y \in Mothers(z)
  <2>1. PICK m, n : Parts(root, x, y, m, n)
    BY <1>6
  <2>2. Mothers(y) \subseteq Mothers(z)
    BY <1>6, MothersTransitive
  <2> QED
    BY <1>2, <2>1, <2>2 DEF Parts
<1>7. CASE (\E m, n : Parts(root, x, y, m, n)) /\ (\E m, n : Parts(root, y, z, m, n))
  <2>1. PICK m, k : Parts(root, x, y, m, k)
    BY <1>7
  <2>2. PICK n, l : Parts(root, y, z, n, l)
    BY <1>7
  <2>3. /\ m \in Mothers(x) /\ k \in Mothers(y) /\ Mother(m) = Mother(k) /\ Sooner(root, m, k)
        /\ n \in Mothers(y) /\ l \in Mothers(z) /\ Mother(n) = Mother(l) /\ Sooner(root, n, l)
        /\ m \in Pids /\ k \in Pids /\ n \in Pids /\ l \in Pids
        /\ Seen(m) /\ Seen(k) /\ Seen(n) /\ Seen(l)
    BY <1>1, <2>1, <2>2 DEF Parts
  <2>4. CASE k = n
    <3>1. Sooner(root, m, l)
      BY <2>3, <2>4, SistersInOrder
    <3> QED
      BY <1>2, <2>3, <2>4, <3>1 DEF Parts
  <2>5. CASE k # n /\ k \in Mothers(n)
    <3>1. k \in Mothers(z)
      BY <2>3, <2>5, AboveSister
    <3> QED
      BY <1>2, <2>3, <3>1 DEF Parts
  <2>6. CASE k # n /\ n \in Mothers(k)
    <3>1. n \in Mothers(x)
      BY <2>3, <2>6, AboveSister
    <3> QED
      BY <1>2, <2>3, <3>1 DEF Parts
  <2> QED
    BY <2>3, <2>4, <2>5, <2>6, MothersChain
<1> QED
  BY <1>4, <1>5, <1>6, <1>7 DEF Before, Parts

\* No process comes before itself.
LEMMA BeforeIrreflexive ==
  ASSUME IInv, NEW root, NEW x \in Pids, Seen(x)
  PROVE  ~Before(root, x, x)
<1> SUFFICES ASSUME NEW m \in Mothers(x), NEW n \in Mothers(x),
                    Mother(m) = Mother(n), Sooner(root, m, n)
             PROVE  FALSE
  BY DEF Before
<1>1. m \in Pids /\ Seen(m) /\ n \in Pids /\ Seen(n)
  BY MothersCameFirst
<1>2. m \in Mothers(m) /\ n \in Mothers(n)
  BY <1>1, MothersUnfold
<1>3. m # n
  BY <1>1, SistersInOrder
<1>4. m \notin Mothers(n)
  BY <1>1, <1>2, <1>3, AboveSister
<1>5. n \notin Mothers(m)
  BY <1>1, <1>2, <1>3, AboveSister
<1> QED
  BY <1>4, <1>5, MothersChain

\* Of two processes below one, one comes before the other.
LEMMA BeforeTotal ==
  ASSUME IInv, NEW root, NEW p \in Pids, NEW x \in Pids, NEW y \in Pids, x # y,
         Seen(x), Seen(y), p \in Mothers(x), p \in Mothers(y)
  PROVE  Before(root, x, y) \/ Before(root, y, x)
<1>1. CASE x \in Mothers(y) \/ y \in Mothers(x)
  BY <1>1 DEF Before
<1>2. CASE x \notin Mothers(y) /\ y \notin Mothers(x)
  <2> DEFINE T == Mothers(x) \ Mothers(y)
  <2>1. T \subseteq Nat /\ x \in T
    BY <1>2, MothersUnfold, TimesAreNatural
  <2>2. PICK m \in T : \A q \in T : m <= q
    <3> HIDE DEF T
    <3> QED
      BY <2>1, LeastNatural
  <2>3. m \in Mothers(x) /\ m \notin Mothers(y) /\ m \in Pids /\ m # p /\ Seen(m)
    BY <2>2, MothersCameFirst
  <2>4. m \notin Mothers(p)
    BY <2>3, MothersTransitive
  <2>5. p \in Mothers(m)
    BY <2>3, <2>4, MothersChain
  <2>6. Mother(m) # None /\ Mother(m) \in Pids /\ Mother(m) < m
    BY <2>3, <2>5, AboveMother
  <2>7. Mother(m) \in Mothers(x)
    <3>1. Mother(m) \in Mothers(m)
      BY <2>3, <2>6, MothersUnfold
    <3> QED
      BY <2>3, <3>1, MothersTransitive
  <2>8. Mother(m) \notin T
    <3> HIDE DEF T
    <3>1. Mother(m) \in Nat /\ m \in Nat
      BY <2>3, <2>6, TimesAreNatural
    <3>2. ~(m <= Mother(m))
      BY <2>6, <3>1
    <3> QED
      BY <2>2, <3>2
  <2>9. Mother(m) \in Mothers(y) /\ Mother(m) # y
    BY <1>2, <2>7, <2>8
  <2>10. PICK n \in Mothers(y) : Mother(n) = Mother(m)
    BY <2>9, WayDown
  <2>11. n \in Pids /\ Seen(n) /\ n # m
    BY <2>3, MothersCameFirst
  <2>12. Sooner(root, m, n) \/ Sooner(root, n, m)
    BY <2>3, <2>10, <2>11, SistersInOrder
  <2> QED
    BY <2>3, <2>10, <2>12 DEF Before
<1> QED
  BY <1>1, <1>2

Order(p) == {pair \in Offspring(p) \X Offspring(p) : Before(p, pair[1], pair[2])}

\* The offspring is in order, and the first of it are the descendants.
KeepsTheFirst(p) ==
  /\ IsFiniteSet(Offspring(p)) /\ IsOrder(Order(p), Offspring(p)) /\ downCap \in Nat
  /\ Descendants(p) = {q \in Offspring(p) : Rank(Order(p), Offspring(p), q) < downCap}

\* So it is with any process.
LEMMA DescendantsAreFirst ==
  ASSUME IInv, NEW p \in Pids, Seen(p)
  PROVE  KeepsTheFirst(p)
<1>1. \A q \in Offspring(p) : q \in Pids /\ Seen(q) /\ p \in Mothers(q)
  BY DEF Offspring
<1>2. IsFiniteSet(Offspring(p))
  <2>1. Offspring(p) \subseteq Pids
    BY <1>1
  <2> QED
    BY <2>1, IncidentAssumption, FS_Subset
<1>3. \A x, y \in Offspring(p) : <<x, y>> \in Order(p) <=> Before(p, x, y)
  BY DEF Order
<1>4. IsOrder(Order(p), Offspring(p))
  <2>1. \A x \in Offspring(p) : ~Before(p, x, x)
    BY <1>1, BeforeIrreflexive
  <2>2. \A x, y, z \in Offspring(p) : Before(p, x, y) /\ Before(p, y, z) => Before(p, x, z)
    BY <1>1, BeforeTransitive
  <2>3. \A x, y \in Offspring(p) : x = y \/ Before(p, x, y) \/ Before(p, y, x)
    BY <1>1, BeforeTotal
  <2> QED
    BY <1>3, <2>1, <2>2, <2>3 DEF IsOrder
<1>5. downCap \in Nat
  BY IncidentAssumption DEF IInv, TypeOK
<1>6. \A q \in Offspring(p) :
        {r \in Offspring(p) : Before(p, r, q)} = Ahead(Order(p), Offspring(p), q)
  BY <1>3 DEF Ahead
<1>7. \A q \in Offspring(p) : WithinCap(p) => Rank(Order(p), Offspring(p), q) < downCap
  <2> DEFINE size == Cardinality(Offspring(p))
  <2>1. size \in Nat /\ \A q \in Offspring(p) : Rank(Order(p), Offspring(p), q) \in 0 .. size - 1
    BY <1>2, <1>4, RanksDiffer
  <2>2. WithinCap(p) <=> size <= downCap
    BY DEF WithinCap
  <2> HIDE DEF size
  <2> QED
    BY <1>5, <2>1, <2>2
<1>8. Descendants(p) = {q \in Offspring(p) : Rank(Order(p), Offspring(p), q) < downCap}
  BY <1>6, <1>7 DEF Descendants, Rank
<1> QED
  BY <1>2, <1>4, <1>5, <1>8 DEF KeepsTheFirst

\* At most n comes to a set in order, and crowds r out of the first.
CrowdsOut(S, Q, T, R, n, r, limit) ==
  /\ IsFiniteSet(S) /\ IsFiniteSet(T) /\ S \subseteq T /\ T \subseteq S \cup {n}
  /\ IsOrder(Q, S) /\ IsOrder(R, T) /\ \A x, y \in S : <<x, y>> \in Q <=> <<x, y>> \in R
  /\ limit \in Nat /\ r \in S /\ Rank(Q, S, r) < limit /\ ~(Rank(R, T, r) < limit)

\* Then n has come, is one of the first, and they are as many as they can be.
LEMMA OneCrowdsOut ==
  ASSUME NEW S, NEW Q, NEW T, NEW R, NEW n, NEW r, NEW limit, CrowdsOut(S, Q, T, R, n, r, limit)
  PROVE  /\ n \in T /\ n \notin S /\ Rank(R, T, n) < limit
         /\ Cardinality({x \in T : Rank(R, T, x) < limit}) = limit
<1> USE DEF CrowdsOut
<1>1. Cardinality({x \in T : Rank(R, T, x) < limit}) = limit
  BY FirstOfOrder
<1>2. Ahead(Q, S, r) \subseteq S /\ Ahead(R, T, r) \subseteq T
  BY DEF Ahead
<1>3. IsFiniteSet(Ahead(Q, S, r))
  BY <1>2, FS_Subset
<1>4. n \in Ahead(R, T, r) /\ n \notin S
  <2> SUFFICES ASSUME n \notin Ahead(R, T, r) \/ n \in S PROVE FALSE
    OBVIOUS
  <2>1. Ahead(R, T, r) \subseteq Ahead(Q, S, r)
    BY DEF Ahead
  <2>2. Rank(R, T, r) <= Rank(Q, S, r) /\ Rank(R, T, r) \in Nat /\ Rank(Q, S, r) \in Nat
    BY <1>3, <2>1, FS_Subset, FS_CardinalityType DEF Rank
  <2> QED
    BY <2>2
<1>5. Ahead(R, T, n) \subseteq Ahead(Q, S, r)
  BY <1>4 DEF Ahead, IsOrder
<1>6. Rank(R, T, n) <= Rank(Q, S, r) /\ Rank(R, T, n) \in Nat /\ Rank(Q, S, r) \in Nat
  BY <1>3, <1>5, FS_Subset, FS_CardinalityType DEF Rank
<1> QED
  BY <1>1, <1>2, <1>4, <1>6

-----------------------------------------------------------------------------
(* What a step adds.                                                       *)

\* What has been shown of the recursive definitions, of the state before a step
\* and of the one after it.
Unfolded ==
  /\ IInv
  /\ \A p \in Pids : Mothers(p) = Above(p)
  /\ \A p \in Pids : \E f : ShowsAncestry(f, p)
  /\ \A p \in Pids : Seen(p) => KeepsTheFirst(p)

\* Of a process seen a step changes neither mother nor start, nor an exit.
LEMMA StepsOnlyAdd ==
  ASSUME IInv, [Next]_vars
  PROVE  /\ acts \subseteq acts'
         /\ \A q \in Pids : Seen(q) =>
              /\ Seen(q)' /\ procs'[q].mother = procs[q].mother
              /\ procs'[q].start = procs[q].start
              /\ procs[q].exit # None => procs'[q].exit = procs[q].exit
<1> DEFINE Added ==
             /\ acts \subseteq acts'
             /\ \A q \in Pids : Seen(q) =>
                  /\ procs'[q] # None /\ procs'[q].mother = procs[q].mother
                  /\ procs'[q].start = procs[q].start
                  /\ procs[q].exit # None => procs'[q].exit = procs[q].exit
<1>1. procs \in [Pids -> Process \cup {None}] /\ None \notin Process
  BY NoneAssumption DEF IInv, TypeOK
<1>2. ASSUME UNCHANGED procs, acts \subseteq acts' PROVE Added
  BY <1>2 DEF Seen
<1>3. ASSUME NEW p \in Pids, NEW m \in Pids \cup {None}, Fork(m, p) PROVE Added
  <2>1. /\ ~Seen(p) /\ acts' = acts
        /\ \A q \in Pids : q # p => procs'[q] = procs[q]
    BY <1>1, <1>3 DEF Fork
  <2> QED
    BY <2>1 DEF Seen
<1>4. ASSUME NEW p \in Pids, NEW image \in Images[p], Exec(p, image) PROVE Added
  <2> DEFINE r == [procs[p] EXCEPT !.image = image, !.ran = TRUE,
                     !.parent = IF procs[p].mother # None /\ Running(procs[p].mother)
                                THEN procs[p].mother ELSE None]
  <2>1. /\ Seen(p) /\ procs[p].exit = None /\ acts' = acts /\ procs' = [procs EXCEPT ![p] = r]
    BY <1>4 DEF Exec, Running
  <2>2. procs[p] \in Process
    BY <1>1, <2>1 DEF Seen
  <2>3. r.mother = procs[p].mother /\ r.start = procs[p].start /\ r # None
    <3>1. image \in SUBSET Traits /\ procs[p].mother \in Pids \cup {None}
      BY <2>2, IncidentAssumption DEF Process
    <3>2. r \in Process
      BY <2>2, <3>1 DEF Process
    <3> QED
      BY <1>1, <2>2, <3>2 DEF Process
  <2> HIDE DEF r
  <2>4. \A q \in Pids : procs'[q] = IF q = p THEN r ELSE procs[q]
    BY <1>1, <2>1
  <2> QED
    BY <2>1, <2>3, <2>4 DEF Seen
<1>5. ASSUME NEW p \in Pids, Exit(p) PROVE Added
  <2> DEFINE r == [procs[p] EXCEPT !.exit = now]
  <2>1. /\ Seen(p) /\ procs[p].exit = None /\ acts' = acts /\ procs' = [procs EXCEPT ![p] = r]
    BY <1>5 DEF Exit, Running
  <2>2. procs[p] \in Process /\ now \in Times
    BY <1>1, <2>1 DEF Seen, IInv, TypeOK
  <2>3. r.mother = procs[p].mother /\ r.start = procs[p].start /\ r \in Process
    BY <2>2 DEF Process
  <2> HIDE DEF r
  <2>4. \A q \in Pids : procs'[q] = IF q = p THEN r ELSE procs[q]
    BY <1>1, <2>1
  <2> QED
    BY <1>1, <2>1, <2>3, <2>4 DEF Seen
<1>6. ASSUME NEW p \in Pids, NEW kind \in Kinds, Does(p, kind) PROVE Added
  BY <1>2, <1>6 DEF Does
<1>7. ASSUME Tick PROVE Added
  BY <1>2, <1>7 DEF Tick
<1>8. ASSUME UNCHANGED vars PROVE Added
  BY <1>2, <1>8 DEF vars
<1>9. Added
  BY <1>3, <1>4, <1>5, <1>6, <1>7, <1>8 DEF Next
<1> QED
  BY <1>9 DEF Seen

\* Whoever a step adds is one process, which starts now.
LEMMA OneNewcomer ==
  ASSUME IInv, [Next]_vars
  PROVE  /\ downCap' = downCap
         /\ \E n : \A q \in Pids : (Seen(q)' /\ ~Seen(q)) => q = n /\ procs'[q].start = now
<1> DEFINE Newcomers == {q \in Pids : procs'[q] # None /\ procs[q] = None}
           Goal == /\ downCap' = downCap
                   /\ \E n : \A q \in Newcomers : q = n /\ procs'[q].start = now
<1>1. procs \in [Pids -> Process \cup {None}]
  BY DEF IInv, TypeOK
<1>2. ASSUME Newcomers = {}, downCap' = downCap PROVE Goal
  BY <1>2
<1>3. ASSUME NEW p \in Pids, NEW r, procs' = [procs EXCEPT ![p] = r], Seen(p), downCap' = downCap
      PROVE  Goal
  <2>1. \A q \in Pids : q # p => procs'[q] = procs[q]
    BY <1>1, <1>3
  <2>2. Newcomers = {}
    BY <1>3, <2>1 DEF Seen
  <2> QED
    BY <1>2, <1>3, <2>2
<1>4. ASSUME NEW p \in Pids, NEW m \in Pids \cup {None}, Fork(m, p) PROVE Goal
  <2>1. downCap' = downCap /\ procs'[p].start = now
    BY <1>1, <1>4 DEF Fork
  <2>2. \A q \in Pids : q # p => procs'[q] = procs[q]
    BY <1>1, <1>4 DEF Fork
  <2>3. \A q \in Newcomers : q = p /\ procs'[q].start = now
    BY <2>1, <2>2
  <2> QED
    BY <2>1, <2>3
<1>5. ASSUME NEW p \in Pids, NEW image \in Images[p], Exec(p, image) PROVE Goal
  BY <1>3, <1>5 DEF Exec, Running
<1>6. ASSUME NEW p \in Pids, Exit(p) PROVE Goal
  BY <1>3, <1>6 DEF Exit, Running
<1>7. ASSUME UNCHANGED <<downCap, procs>> PROVE Goal
  BY <1>2, <1>7
<1>8. Goal
  <2> HIDE DEF Goal
  <2>1. ASSUME NEW p \in Pids, NEW kind \in Kinds, Does(p, kind) PROVE Goal
    BY <1>7, <2>1 DEF Does
  <2>2. ASSUME Tick PROVE Goal
    BY <1>7, <2>2 DEF Tick
  <2>3. ASSUME UNCHANGED vars PROVE Goal
    BY <1>7, <2>3 DEF vars
  <2> QED
    BY <1>4, <1>5, <1>6, <2>1, <2>2, <2>3 DEF Next
<1> QED
  BY <1>8 DEF Seen

\* Those above a process stay the same.
LEMMA MothersStay ==
  ASSUME Unfolded, Unfolded', [Next]_vars, NEW q \in Pids, Seen(q)
  PROVE  Mothers(q)' = Mothers(q)
<1>1. IInv /\ Mothers(q) = Above(q) /\ Mothers(q)' = Above(q)'
  BY DEF Unfolded
<1>2. \A x \in Pids : Seen(x) => Mother(x)' = Mother(x) /\ (Mother(x) # None => Seen(Mother(x)))
  BY <1>1, StepsOnlyAdd, MotherComesFirst DEF Mother
<1>3. ASSUME NEW p \in Above(q), NEW C \in SUBSET Pids, q \in C, Closed(C)'
      PROVE  p \in C
  <2> DEFINE D == {x \in C : Seen(x)}
  <2>1. Closed(D) /\ q \in D /\ D \in SUBSET Pids
    BY <1>2, <1>3 DEF Closed
  <2> HIDE DEF D
  <2>2. p \in D
    BY <2>1 DEF Above
  <2> QED
    BY <2>2 DEF D
<1>4. ASSUME NEW p \in Above(q)', NEW C \in SUBSET Pids, q \in C, Closed(C)
      PROVE  p \in C
  <2> DEFINE D == {x \in C : Seen(x)}
  <2>1. \A x \in D : Mother(x)' # None => Mother(x)' \in D
    BY <1>2, <1>4 DEF Closed
  <2>2. q \in D /\ D \in SUBSET Pids
    BY <1>4
  <2> HIDE DEF D
  <2>3. p \in D
    BY <2>1, <2>2 DEF Above, Closed
  <2> QED
    BY <2>3 DEF D
<1>5. Above(q) \subseteq Above(q)'
  BY <1>3 DEF Above
<1>6. Above(q)' \subseteq Above(q)
  BY <1>4 DEF Above
<1> QED
  BY <1>1, <1>5, <1>6

\* Offspring stays offspring, with at most one newcomer.
LEMMA OffspringGrows ==
  ASSUME Unfolded, Unfolded', [Next]_vars, NEW p \in Pids
  PROVE  /\ Offspring(p) \subseteq Offspring(p)'
         /\ \A q \in Offspring(p)' : Seen(q) => q \in Offspring(p)
<1>1. \A q \in Pids : Seen(q) => Seen(q)' /\ Mothers(q)' = Mothers(q)
  BY StepsOnlyAdd, MothersStay DEF Unfolded
<1> QED
  BY <1>1 DEF Offspring

\* Of processes seen the order stays the same.
LEMMA OrderStays ==
  ASSUME Unfolded, Unfolded', [Next]_vars, NEW p \in Pids, NEW x \in Offspring(p), NEW y \in Offspring(p)
  PROVE  Before(p, x, y)' <=> Before(p, x, y)
<1>1. IInv /\ x \in Pids /\ Seen(x) /\ y \in Pids /\ Seen(y)
  BY DEF Unfolded, Offspring
<1>2. Mothers(x)' = Mothers(x) /\ Mothers(y)' = Mothers(y)
  BY <1>1, MothersStay
<1>3. \A m \in Mothers(x) \cup Mothers(y) :
        Mother(m)' = Mother(m) /\ procs'[m].start = procs[m].start
  <2>1. \A m \in Mothers(x) \cup Mothers(y) : m \in Pids /\ Seen(m)
    BY <1>1, MothersCameFirst
  <2> QED
    BY <1>1, <2>1, StepsOnlyAdd DEF Mother
<1>4. \A m \in Mothers(x), n \in Mothers(y) : Sooner(p, m, n)' <=> Sooner(p, m, n)
  BY <1>3 DEF Sooner, Earlier
<1> QED
  BY <1>2, <1>3, <1>4 DEF Before

\* Who is a descendant no more has been crowded out by a newcomer, of as many as
\* there can be.
LEMMA CrowdedOut ==
  ASSUME Unfolded, Unfolded', [Next]_vars, NEW p \in Pids, Seen(p),
         NEW r \in Descendants(p), r \notin Descendants(p)'
  PROVE  /\ Cardinality(Descendants(p)') = downCap
         /\ \E n \in Descendants(p)' : n \in Pids /\ ~Seen(n) /\ procs'[n].start = now
<1> DEFINE S == Offspring(p)
           T == Offspring(p)'
           Q == Order(p)
           R == Order(p)'
<1>1. IInv /\ KeepsTheFirst(p) /\ KeepsTheFirst(p)'
  <2>1. IInv /\ Seen(p)'
    BY StepsOnlyAdd DEF Unfolded
  <2> QED
    BY <2>1 DEF Unfolded
<1>2. PICK n : \A q \in Pids : (Seen(q)' /\ ~Seen(q)) => q = n /\ procs'[q].start = now
  BY <1>1, OneNewcomer
<1>3. downCap' = downCap
  BY <1>1, OneNewcomer
<1>4. S \subseteq T /\ T \subseteq S \cup {n} /\ T \subseteq Pids /\ \A q \in T : Seen(q)'
  <2>1. T \subseteq Pids /\ \A q \in T : Seen(q)'
    BY DEF Offspring
  <2>2. S \subseteq T /\ \A q \in T : Seen(q) => q \in S
    BY OffspringGrows
  <2> QED
    BY <1>2, <2>1, <2>2
<1>5. /\ IsFiniteSet(S) /\ IsOrder(Q, S) /\ downCap \in Nat
      /\ Descendants(p) = {q \in S : Rank(Q, S, q) < downCap}
  BY <1>1 DEF KeepsTheFirst
<1>6. /\ IsFiniteSet(T) /\ IsOrder(R, T)
      /\ Descendants(p)' = {q \in T : Rank(R, T, q) < downCap}
  BY <1>1, <1>3 DEF KeepsTheFirst, IsOrder, Rank, Ahead
<1>7. \A x, y \in S : <<x, y>> \in Q <=> <<x, y>> \in R
  <2>1. \A x, y \in S : <<x, y>> \in Q <=> Before(p, x, y)
    BY DEF Order
  <2>2. \A x, y \in T : <<x, y>> \in R <=> Before(p, x, y)'
    BY DEF Order
  <2>3. \A x, y \in S : Before(p, x, y)' <=> Before(p, x, y)
    BY OrderStays
  <2> HIDE DEF S, T, Q, R
  <2> QED
    BY <1>4, <2>1, <2>2, <2>3
<1>8. \A x \in S : Seen(x)
  BY DEF Offspring
<1> HIDE DEF S, T, Q, R
<1>9. r \in S /\ Rank(Q, S, r) < downCap /\ ~(Rank(R, T, r) < downCap)
  BY <1>4, <1>5, <1>6
<1>10. /\ n \in T /\ n \notin S /\ Rank(R, T, n) < downCap
       /\ Cardinality({x \in T : Rank(R, T, x) < downCap}) = downCap
  <2>1. CrowdsOut(S, Q, T, R, n, r, downCap)
    BY <1>4, <1>5, <1>6, <1>7, <1>9 DEF CrowdsOut
  <2> QED
    BY <2>1, OneCrowdsOut
<1>11. ~Seen(n)
  BY <1>10, OffspringGrows DEF S, T
<1> QED
  BY <1>2, <1>4, <1>6, <1>10, <1>11

\* A process keeps its ancestry while the parent links in it do not change.
LEMMA AncestryStays ==
  ASSUME Unfolded, Unfolded', [Next]_vars, NEW p \in Pids, Seen(p),
         \A q \in Ancestry(p) : procs'[q].parent = procs[q].parent
  PROVE  Ancestry(p)' = Ancestry(p)
<1> DEFINE k == UpCap - 1
<1>1. PICK f : ShowsAncestry(f, p)
  BY DEF Unfolded
<1>2. PICK g : ShowsAncestry(g, p)'
  BY DEF Unfolded
<1>3. /\ f = [n \in 0 .. k |-> IF n = 0 THEN p
                ELSE IF f[n - 1] = None THEN None ELSE procs[f[n - 1]].parent]
      /\ Ancestry(p) = {f[n] : n \in 0 .. k} \ {None}
  BY <1>1 DEF ShowsAncestry, Chain
<1>4. /\ g = [n \in 0 .. k |-> IF n = 0 THEN p
                ELSE IF g[n - 1] = None THEN None ELSE procs'[g[n - 1]].parent]
      /\ Ancestry(p)' = {g[n] : n \in 0 .. k} \ {None}
  BY <1>2 DEF ShowsAncestry, Chain
<1>5. k \in Nat /\ 0 \in 0 .. k
  BY IncidentAssumption
<1>6. /\ \A n \in 0 .. k : f[n] = IF n = 0 THEN p
                ELSE IF f[n - 1] = None THEN None ELSE procs[f[n - 1]].parent
      /\ \A n \in 0 .. k : g[n] = IF n = 0 THEN p
                ELSE IF g[n - 1] = None THEN None ELSE procs'[g[n - 1]].parent
  BY <1>3, <1>4
<1> DEFINE G == {n \in 0 .. k : g[n] = f[n]}
<1>7. 0 \in G
  BY <1>5, <1>6
<1>8. ASSUME NEW n \in 1 .. k, n - 1 \in G
      PROVE  n \in G
  <2>1. n \in 0 .. k /\ n # 0 /\ n - 1 \in 0 .. k /\ g[n - 1] = f[n - 1]
    BY <1>5, <1>8
  <2>2. f[n - 1] # None => procs'[f[n - 1]].parent = procs[f[n - 1]].parent
    BY <1>3, <2>1
  <2> QED
    BY <1>6, <2>1, <2>2
<1>9. \A n \in 0 .. k : n \in G
  <2> HIDE DEF G
  <2> QED
    BY <1>5, <1>7, <1>8, UpTo
<1>10. \A n \in 0 .. k : g[n] = f[n]
  BY <1>9
<1>11. {g[n] : n \in 0 .. k} = {f[n] : n \in 0 .. k}
  BY <1>10
<1> QED
  BY <1>3, <1>4, <1>11

\* Unless links of its ancestry change, the incident of a process goes on showing
\* what it showed, of the process and of who is still a descendant.
LEMMA ShownIsKept ==
  ASSUME Unfolded, Unfolded', [Next]_vars, NEW p \in Pids, Seen(p), NEW a \in Related(p),
         \A q \in Ancestry(p) : procs'[q].parent = procs[q].parent,
         a.pid \in {p} \cup Descendants(p)'
  PROVE  a \in Related(p)'
<1>1. IInv
  BY DEF Unfolded
<1>2. Ancestry(p)' = Ancestry(p) /\ p \in Ancestry(p)
  BY <1>1, AncestryStays, OwnAncestry
<1>3. \A q \in Lineage(p) : q \in Pids /\ Seen(q)
  BY <1>1, OwnAncestry, DescendantsAreOffspring DEF Lineage, Offspring
<1>4. \A q \in Lineage(p) : procs'[q].start = procs[q].start /\ TimesOf(q) \subseteq TimesOf(q)'
  BY <1>1, <1>3, StepsOnlyAdd DEF TimesOf
<1>5. /\ a \in acts /\ a \in acts' /\ a.pid \in {p} \cup Descendants(p)
      /\ \E q \in Lineage(p) : \E t \in TimesOf(q) : a.at <= t + Slack(a)
  BY <1>1, RelatedEvents, StepsOnlyAdd
<1>6. /\ a.pid \in Pids /\ Seen(a.pid) /\ procs[a.pid].start <= a.at /\ a.at <= now
      /\ procs[a.pid].start \in Nat /\ a.at \in Nat /\ now \in Nat /\ Slack(a) \in Nat
  <2>1. a.pid \in Lineage(p)
    BY <1>2, <1>5 DEF Lineage
  <2>2. a.pid \in Pids /\ Seen(a.pid)
    BY <1>3, <2>1
  <2>3. procs[a.pid].start \in Nat
    BY <1>1, <2>2, ProcessFields DEF IInv
  <2>4. a.at \in Nat /\ now \in Nat
    BY <1>1, <1>5, TimesAreNatural DEF IInv, TypeOK
  <2> QED
    BY <1>1, <1>5, <2>2, <2>3, <2>4 DEF IInv, ActsAreInLives, Slack
<1>7. \E q \in Lineage(p)' : procs'[q].start - Slack(a) <= a.at
  <2>1. a.pid \in Lineage(p) /\ a.pid \in Lineage(p)'
    BY <1>2, <1>5 DEF Lineage
  <2>2. procs'[a.pid].start - Slack(a) <= a.at
    BY <1>4, <1>6, <2>1
  <2> QED
    BY <2>1, <2>2
<1>8. \E q \in Lineage(p)' : \E t \in TimesOf(q)' : a.at <= t + Slack(a)
  <2>1. PICK q \in Lineage(p) : \E t \in TimesOf(q) : a.at <= t + Slack(a)
    BY <1>5
  <2>2. CASE q \in Lineage(p)'
    BY <1>4, <2>1, <2>2
  <2>3. CASE q \notin Lineage(p)'
    <3>1. q \in Descendants(p) /\ q \notin Descendants(p)'
      BY <1>2, <2>1, <2>3 DEF Lineage
    <3>2. PICK n \in Descendants(p)' : n \in Pids /\ procs'[n].start = now
      BY <3>1, CrowdedOut
    <3>3. now # None
      BY <1>1, NoneAssumption DEF IInv, TypeOK
    <3>4. n \in Lineage(p)' /\ now \in TimesOf(n)'
      BY <3>2, <3>3 DEF Lineage, TimesOf
    <3>5. a.at <= now + Slack(a)
      BY <1>6
    <3> QED
      BY <3>4, <3>5
  <2> QED
    BY <2>2, <2>3
<1> QED
  BY <1>5, <1>7, <1>8 DEF Related, Slack

\* No event shown is lost, whatever becomes of the processes, but for what the
\* property names.
THEOREM ShownAlwaysStays == Spec => ShownStaysShown
<1>1. IInv => Unfolded
  BY MothersAreAbove, AncestryIsAChain, DescendantsAreFirst DEF Unfolded
<1>2. Spec => []Unfolded
  BY <1>1, InvariantHolds, PTL
<1>3. Unfolded /\ Unfolded' /\ [Next]_vars =>
        [\A p \in Pids : Seen(p) => \A a \in Related(p) :
           (\A q \in Ancestry(p) : procs'[q].parent = procs[q].parent) =>
             \/ a \in Related(p)'
             \/ /\ a.pid # p /\ a.pid \notin Descendants(p)'
                /\ Cardinality(Descendants(p)') = downCap
                /\ \E q \in Descendants(p)' : ~Seen(q)]_procs
  <2> SUFFICES ASSUME Unfolded, Unfolded', [Next]_vars, NEW p \in Pids, Seen(p),
                      NEW a \in Related(p),
                      \A q \in Ancestry(p) : procs'[q].parent = procs[q].parent,
                      a.pid \notin {p} \cup Descendants(p)'
               PROVE  /\ Cardinality(Descendants(p)') = downCap
                      /\ \E q \in Descendants(p)' : ~Seen(q)
    BY ShownIsKept
  <2>1. a.pid \in Descendants(p)
    BY RelatedEvents
  <2> QED
    BY <2>1, CrowdedOut
<1> QED
  BY <1>2, <1>3, PTL DEF Spec, ShownStaysShown

-----------------------------------------------------------------------------
(* Sums.                                                                   *)

\* One weight after the other is added.
SumStep(weight, f, s) ==
  IF s = {} THEN 0
  ELSE LET x == CHOOSE x \in s : TRUE IN weight[x] + f[s \ {x}]

\* The recursion over the subsets of a finite set ends.
LEMMA SumUnfolds ==
  ASSUME NEW set, NEW weight, IsFiniteSet(set)
  PROVE  \E f : /\ f = [s \in SUBSET set |-> SumStep(weight, f, s)]
                /\ SumFunctionOnSet(weight, set) = f[set]
<1> DEFINE k == Cardinality(set)
           All == SUBSET set
           Right(f, n) == \A s \in All : Cardinality(s) <= n => f[s] = SumStep(weight, f, s)
           G == {n \in 0 .. k : \E f : f = [s \in All |-> f[s]] /\ Right(f, n)}
<1>0. /\ k \in Nat
      /\ \A s \in All : IsFiniteSet(s) /\ Cardinality(s) \in Nat /\ Cardinality(s) <= k
  <2>1. k \in Nat
    BY FS_CardinalityType
  <2>2. ASSUME NEW s \in All
        PROVE  IsFiniteSet(s) /\ Cardinality(s) \in Nat /\ Cardinality(s) <= k
    <3>1. IsFiniteSet(s) /\ Cardinality(s) <= k
      BY FS_Subset
    <3> QED
      BY <3>1, FS_CardinalityType
  <2> QED
    BY <2>1, <2>2
<1>1. ASSUME NEW s \in All, s # {}
      PROVE  LET x == CHOOSE x \in s : TRUE
             IN  x \in s /\ s \ {x} \in All /\ Cardinality(s \ {x}) = Cardinality(s) - 1
  <2> DEFINE x == CHOOSE x \in s : TRUE
  <2>1. x \in s
    BY <1>1
  <2> HIDE DEF x
  <2>2. Cardinality(s \ {x}) = Cardinality(s) - 1
    BY <1>0, <2>1, FS_RemoveElement
  <2>3. s \ {x} \in All
    OBVIOUS
  <2> QED
    BY <2>1, <2>2, <2>3 DEF x
<1>2. 0 \in G
  <2> DEFINE f == [s \in All |-> 0]
  <2>1. \A s \in All : Cardinality(s) <= 0 => s = {}
    <3> SUFFICES ASSUME NEW s \in All, Cardinality(s) <= 0 PROVE s = {}
      OBVIOUS
    <3>1. IsFiniteSet(s) /\ Cardinality(s) = 0
      BY <1>0
    <3> QED
      BY <3>1, FS_EmptySet
  <2>2. Right(f, 0)
    BY <2>1 DEF SumStep
  <2>3. f = [s \in All |-> f[s]]
    OBVIOUS
  <2> HIDE DEF f
  <2>4. \E h : h = [s \in All |-> h[s]] /\ Right(h, 0)
    BY <2>2, <2>3
  <2>5. 0 \in 0 .. k
    BY <1>0
  <2> QED
    BY <2>4, <2>5
<1>3. ASSUME NEW n \in 1 .. k, n - 1 \in G
      PROVE  n \in G
  <2>1. PICK f : f = [s \in All |-> f[s]] /\ Right(f, n - 1)
    BY <1>3
  <2> DEFINE g == [s \in All |-> SumStep(weight, f, s)]
  <2>2. ASSUME NEW s \in All, Cardinality(s) <= n - 1 PROVE g[s] = f[s]
    BY <2>1, <2>2
  <2>3. ASSUME NEW s \in All, Cardinality(s) <= n PROVE g[s] = SumStep(weight, g, s)
    <3>1. CASE s = {}
      BY <3>1 DEF SumStep
    <3>2. CASE s # {}
      <4> DEFINE x == CHOOSE x \in s : TRUE
                 r == s \ {x}
      <4>1. r \in All /\ Cardinality(r) = Cardinality(s) - 1
        BY <1>1, <3>2
      <4>2. Cardinality(s) \in Nat /\ n \in Nat
        BY <1>0
      <4>3. Cardinality(r) <= n - 1
        <5> HIDE DEF r
        <5> QED
          BY <2>3, <4>1, <4>2
      <4>4. g[r] = f[r]
        BY <2>2, <4>1, <4>3
      <4>5. g[s] = SumStep(weight, f, s)
        OBVIOUS
      <4> HIDE DEF g
      <4> QED
        BY <3>2, <4>4, <4>5 DEF SumStep
    <3> QED
      BY <3>1, <3>2
  <2>4. Right(g, n)
    <3> HIDE DEF g
    <3> QED
      BY <2>3
  <2>5. g = [s \in All |-> g[s]]
    OBVIOUS
  <2> HIDE DEF g
  <2>6. n \in 0 .. k
    OBVIOUS
  <2> QED
    BY <2>4, <2>5, <2>6
<1>4. \E f : f = [s \in All |-> f[s]] /\ Right(f, k)
  <2>1. k \in G
    <3> HIDE DEF G
    <3>1. \A n \in 0 .. k : n \in G
      BY <1>0, <1>2, <1>3, UpTo
    <3> QED
      BY <1>0, <3>1
  <2> QED
    BY <2>1
<1>5. \E f : f = [s \in All |-> SumStep(weight, f, s)]
  <2>1. PICK f : f = [s \in All |-> f[s]] /\ Right(f, k)
    BY <1>4
  <2>2. \A s \in All : f[s] = SumStep(weight, f, s)
    BY <1>0, <2>1
  <2>3. f = [s \in All |-> SumStep(weight, f, s)]
    BY <2>1, <2>2
  <2> QED
    BY <2>3
<1> DEFINE iter == CHOOSE f : f = [s \in All |-> SumStep(weight, f, s)]
<1>6. iter = [s \in All |-> SumStep(weight, iter, s)]
  BY <1>5
<1>7. SumFunctionOnSet(weight, set) = iter[set]
  BY DEF SumFunctionOnSet, FoldFunctionOnSet, MapThenFoldSet, SumStep
<1> HIDE DEF iter
<1> QED
  BY <1>6, <1>7

\* A sum of naturals is a natural, no less than any of them.
LEMMA SumBounds ==
  ASSUME NEW set, NEW weight, IsFiniteSet(set), \A x \in set : weight[x] \in Nat
  PROVE  /\ SumFunctionOnSet(weight, set) \in Nat
         /\ \A x \in set : weight[x] <= SumFunctionOnSet(weight, set)
<1>1. PICK f : /\ f = [s \in SUBSET set |-> SumStep(weight, f, s)]
               /\ SumFunctionOnSet(weight, set) = f[set]
  BY SumUnfolds
<1> DEFINE Bounded(s) == f[s] \in Nat /\ \A x \in s : weight[x] <= f[s]
           T == {n \in Nat : \E s \in SUBSET set : Cardinality(s) = n /\ ~Bounded(s)}
<1>2. ASSUME T # {} PROVE FALSE
  <2>1. PICK n \in T : \A y \in T : n <= y
    BY <1>2, LeastNatural
  <2>2. PICK s \in SUBSET set : Cardinality(s) = n /\ ~Bounded(s)
    BY <2>1
  <2>3. f[s] = SumStep(weight, f, s) /\ IsFiniteSet(s) /\ n \in Nat
    BY <1>1, <2>1, FS_Subset
  <2>4. CASE s = {}
    BY <2>2, <2>3, <2>4 DEF SumStep
  <2>5. CASE s # {}
    <3> DEFINE x == CHOOSE x \in s : TRUE
               r == s \ {x}
    <3>1. x \in s /\ f[s] = weight[x] + f[r]
      BY <2>3, <2>5 DEF SumStep
    <3> HIDE DEF x
    <3>2. Cardinality(r) = n - 1 /\ IsFiniteSet(r) /\ r \in SUBSET set
      BY <2>2, <2>3, <3>1, FS_RemoveElement
    <3>3. Cardinality(r) \in Nat
      BY <3>2, FS_CardinalityType
    <3>4. Cardinality(r) \notin T
      <4> HIDE DEF T
      <4>1. ~(n <= Cardinality(r))
        BY <2>3, <3>2, <3>3
      <4> QED
        BY <2>1, <4>1
    <3>5. Bounded(r)
      BY <3>2, <3>3, <3>4
    <3>6. weight[x] \in Nat /\ \A y \in s : weight[y] \in Nat
      BY <3>1
    <3>7. f[s] \in Nat
      BY <3>1, <3>5, <3>6
    <3>8. ASSUME NEW y \in s PROVE weight[y] <= f[s]
      <4>1. CASE y = x
        BY <3>1, <3>5, <3>6, <4>1
      <4>2. CASE y # x
        <5>1. y \in r
          BY <4>2
        <5>2. weight[y] <= f[r] /\ f[r] \in Nat /\ weight[y] \in Nat
          BY <3>5, <3>6, <5>1
        <5> QED
          BY <3>1, <3>6, <5>2
      <4> QED
        BY <4>1, <4>2
    <3> QED
      BY <2>2, <3>7, <3>8
  <2> QED
    BY <2>4, <2>5
<1>3. Bounded(set)
  <2>1. Cardinality(set) \in Nat /\ Cardinality(set) \notin T /\ set \in SUBSET set
    BY <1>2, FS_CardinalityType
  <2> QED
    BY <2>1
<1> QED
  BY <1>1, <1>3

-----------------------------------------------------------------------------
(* The rules and the scores.                                               *)

\* The least and the greatest of two.
LEMMA OfTwo ==
  ASSUME NEW m \in Int, NEW n \in Int
  PROVE  Min({m, n}) = (IF m <= n THEN m ELSE n) /\ Max({m, n}) = (IF m <= n THEN n ELSE m)
<1> DEFINE low == IF m <= n THEN m ELSE n
           high == IF m <= n THEN n ELSE m
<1>1. \A x \in {m, n} : (\A y \in {m, n} : x <= y) <=> x = low
  OBVIOUS
<1>2. \A x \in {m, n} : (\A y \in {m, n} : x >= y) <=> x = high
  OBVIOUS
<1>3. low \in {m, n} /\ high \in {m, n}
  OBVIOUS
<1> HIDE DEF low, high
<1>4. Min({m, n}) = low
  BY <1>1, <1>3 DEF Min
<1>5. Max({m, n}) = high
  BY <1>2, <1>3 DEF Max
<1> QED
  BY <1>4, <1>5 DEF low, high

\* A clamped number is within the bounds, and below the upper one if it was.
LEMMA ClampBounds ==
  ASSUME NEW low \in Int, NEW n \in Int, NEW high \in Int, low < high
  PROVE  /\ Clamp(low, n, high) \in Int
         /\ n < high => Clamp(low, n, high) < high
<1> DEFINE m == Min({n, high})
<1>1. m \in Int /\ (n < high => m < high)
  BY OfTwo
<1> HIDE DEF m
<1>2. Max({low, m}) \in Int /\ (m < high => Max({low, m}) < high)
  BY <1>1, OfTwo
<1> QED
  BY <1>1, <1>2 DEF Clamp, m

\* Four elements more leave a finite set finite.
LEMMA FourMore ==
  ASSUME NEW S, IsFiniteSet(S), NEW a, NEW b, NEW c, NEW d
  PROVE  IsFiniteSet(S \cup {a, b, c, d})
<1>1. IsFiniteSet(S \cup {a})
  BY FS_AddElement
<1>2. IsFiniteSet((S \cup {a}) \cup {b})
  BY <1>1, FS_AddElement
<1>3. IsFiniteSet(((S \cup {a}) \cup {b}) \cup {c})
  BY <1>2, FS_AddElement
<1>4. IsFiniteSet((((S \cup {a}) \cup {b}) \cup {c}) \cup {d})
  BY <1>3, FS_AddElement
<1>5. S \cup {a, b, c, d} = (((S \cup {a}) \cup {b}) \cup {c}) \cup {d}
  OBVIOUS
<1> QED
  BY <1>4, <1>5

\* The weights of the scores are naturals and finitely many.
LEMMA WeightsAreFinite ==
  /\ IsFiniteSet(DOMAIN TrustCost) /\ \A x \in DOMAIN TrustCost : TrustCost[x] \in Nat
  /\ IsFiniteSet(DOMAIN SeverityWeight) /\ \A x \in DOMAIN SeverityWeight : SeverityWeight[x] \in Nat
  /\ IsFiniteSet(DOMAIN ConfidenceWeight)
  /\ \A x \in DOMAIN ConfidenceWeight : ConfidenceWeight[x] \in Nat
<1> DEFINE All == {"retrieval", "pipe_to_shell", "reverse_shell", "nc", "busybox",
                   "temporary_path", "uid_0", "sensitive", "external", "lateral", "entropy",
                   "ioc_hits", "descendants", "alerts", "bad_host"}
<1>1. IsFiniteSet({})
  BY FS_EmptySet
<1>2. IsFiniteSet({} \cup {"retrieval", "pipe_to_shell", "reverse_shell", "nc"})
  BY <1>1, FourMore
<1>3. IsFiniteSet(({} \cup {"retrieval", "pipe_to_shell", "reverse_shell", "nc"})
                  \cup {"busybox", "temporary_path", "uid_0", "sensitive"})
  BY <1>2, FourMore
<1>4. IsFiniteSet((({} \cup {"retrieval", "pipe_to_shell", "reverse_shell", "nc"})
                   \cup {"busybox", "temporary_path", "uid_0", "sensitive"})
                   \cup {"external", "lateral", "entropy", "ioc_hits"})
  BY <1>3, FourMore
<1>5. IsFiniteSet(((({} \cup {"retrieval", "pipe_to_shell", "reverse_shell", "nc"})
                    \cup {"busybox", "temporary_path", "uid_0", "sensitive"})
                    \cup {"external", "lateral", "entropy", "ioc_hits"})
                    \cup {"descendants", "alerts", "bad_host", "bad_host"})
  BY <1>4, FourMore
<1>6. All = ((({} \cup {"retrieval", "pipe_to_shell", "reverse_shell", "nc"})
              \cup {"busybox", "temporary_path", "uid_0", "sensitive"})
              \cup {"external", "lateral", "entropy", "ioc_hits"})
              \cup {"descendants", "alerts", "bad_host", "bad_host"}
  OBVIOUS
<1>7. IsFiniteSet(All)
  BY <1>5, <1>6
<1>8. /\ DOMAIN TrustCost \subseteq All /\ DOMAIN SeverityWeight \subseteq All
      /\ DOMAIN ConfidenceWeight \subseteq All
  BY DEF TrustCost, SeverityWeight, ConfidenceWeight
<1> HIDE DEF All
<1>9. /\ IsFiniteSet(DOMAIN TrustCost) /\ IsFiniteSet(DOMAIN SeverityWeight)
      /\ IsFiniteSet(DOMAIN ConfidenceWeight)
  BY <1>7, <1>8, FS_Subset
<1>10. \A x \in DOMAIN TrustCost : TrustCost[x] \in Nat
  BY DEF TrustCost
<1>11. \A x \in DOMAIN SeverityWeight : SeverityWeight[x] \in Nat
  BY DEF SeverityWeight
<1>12. \A x \in DOMAIN ConfidenceWeight : ConfidenceWeight[x] \in Nat
  BY DEF ConfidenceWeight
<1> QED
  BY <1>9, <1>10, <1>11, <1>12

\* What costs trust costs trust.
LEMMA CostsTrust ==
  ASSUME NEW image, NEW signals, NEW t, t \in image \cup signals,
         t \in DOMAIN TrustCost, TrustCost[t] > 0
  PROVE  ProcessTrust(image, signals) < 100
<1> DEFINE seen == image \cup signals \cup {u \in {"retrieval"} : image \cap {"curl", "wget"} # {}}
           cost == seen \cap DOMAIN TrustCost
           sum == SumFunctionOnSet(TrustCost, cost)
<1>1. IsFiniteSet(cost) /\ \A x \in cost : TrustCost[x] \in Nat
  BY WeightsAreFinite, FS_Subset
<1>2. t \in cost
  OBVIOUS
<1>3. ProcessTrust(image, signals) = Clamp(5, 100 - sum, 100)
  BY DEF ProcessTrust
<1> HIDE DEF cost
<1>4. sum \in Nat /\ TrustCost[t] <= sum /\ TrustCost[t] \in Nat
  BY <1>1, <1>2, SumBounds
<1> HIDE DEF sum
<1>5. 100 - sum \in Int /\ 100 - sum < 100
  BY <1>4
<1> QED
  BY <1>3, <1>5, ClampBounds

\* Scores are integers.
LEMMA ScoresAreIntegers ==
  ASSUME NEW counted
  PROVE  Severity(counted) \in Int /\ Confidence(counted) \in Int
<1> DEFINE sev == SumFunctionOnSet(SeverityWeight, counted \cap DOMAIN SeverityWeight)
           con == SumFunctionOnSet(ConfidenceWeight, counted \cap DOMAIN ConfidenceWeight)
<1>1. /\ IsFiniteSet(counted \cap DOMAIN SeverityWeight)
      /\ IsFiniteSet(counted \cap DOMAIN ConfidenceWeight)
  BY WeightsAreFinite, FS_Subset
<1>2. sev \in Nat
  BY <1>1, WeightsAreFinite, SumBounds
<1>3. con \in Nat
  BY <1>1, WeightsAreFinite, SumBounds
<1>4. Severity(counted) = Clamp(1, 3 + sev, 10) /\ Confidence(counted) = Min({35 + con, 95})
  BY DEF Severity, Confidence
<1> HIDE DEF sev, con
<1>5. Clamp(1, 3 + sev, 10) \in Int
  BY <1>2, ClampBounds
<1>6. Min({35 + con, 95}) \in Int
  BY <1>3, OfTwo
<1> QED
  BY <1>4, <1>5, <1>6

\* The signals of some events.
SignalsOf(events) == UNION {Signals[a.kind] : a \in events}

\* What the fields of an incident are.
LEMMA AggregateFields ==
  ASSUME NEW p
  PROVE  LET events == Related(p)
             image == procs[p].image
             signals == SignalsOf(events)
         IN  /\ Aggregate(p).events = events
             /\ Aggregate(p).alerts = {a \in events : a.kind = "alert"}
             /\ Aggregate(p).hits = IocHits(image, signals)
             /\ Aggregate(p).tags = AttackTags(image, signals)
             /\ Aggregate(p).tactics = Tactics(AttackTags(image, signals), signals)
             /\ Aggregate(p).trust = ProcessTrust(image, signals)
             /\ \E counted : /\ Aggregate(p).severity = Severity(counted)
                             /\ Aggregate(p).confidence = Confidence(counted)
             /\ Aggregate(p).firstSeen = FirstSeen(p)
BY DEF Aggregate, RatedEvents, Rated, SignalsOf

\* What the rules may see in events; who writes to cron or a unit writes to a
\* sensitive path.
LEMMA SignalsKnown ==
  ASSUME NEW events, \A a \in events : a.kind \in Kinds
  PROVE  /\ SignalsOf(events) \subseteq
              {"sensitive", "cron", "systemd", "external", "lateral", "entropy"}
         /\ SignalsOf(events) \cap {"cron", "systemd"} # {} => "sensitive" \in SignalsOf(events)
<1>1. \A k \in DOMAIN Signals :
        /\ Signals[k] \subseteq {"sensitive", "cron", "systemd", "external", "lateral", "entropy"}
        /\ Signals[k] \cap {"cron", "systemd"} # {} => "sensitive" \in Signals[k]
  BY DEF Signals
<1>2. \A a \in events : a.kind \in DOMAIN Signals
  BY IncidentAssumption
<1> QED
  BY <1>1, <1>2 DEF SignalsOf

\* A rule that hits has a tag with its tactic, which is known.
LEMMA HitIsTagged ==
  ASSUME NEW image, NEW signals, NEW rule \in IocHits(image, signals),
         signals \subseteq {"sensitive", "cron", "systemd", "external", "lateral", "entropy"}
  PROVE  \E tag \in AttackTags(image, signals) :
           tag[1] = rule /\ tag[2] \in Tactics(AttackTags(image, signals), signals)
<1> DEFINE tags == AttackTags(image, signals)
           tag == <<rule, TacticOf[rule]>>
<1>1. /\ rule \in {"remote_pipe", "reverse_shell", "netcat", "busybox", "sensitive", "cron",
                   "systemd", "lateral", "entropy"}
      /\ rule \in CommandHits(image) \cup (signals \ {"external"})
  BY DEF IocHits, CommandHits
<1>2. rule \in DOMAIN TacticOf /\ TacticOf[rule] \in KnownTactics
  BY <1>1 DEF TacticOf, KnownTactics
<1>3. tag \in tags
  BY <1>1, <1>2 DEF AttackTags
<1>4. tag[1] = rule /\ tag[2] = TacticOf[rule]
  OBVIOUS
<1> HIDE DEF tag, tags
<1>5. tag[2] \in {t[2] : t \in tags} \cap KnownTactics
  BY <1>2, <1>3, <1>4
<1>6. tag[2] \in Tactics(tags, signals)
  BY <1>5 DEF Tactics
<1> QED
  BY <1>3, <1>4, <1>6 DEF tags

\* A rule that hits costs trust, but for netcat.
LEMMA HitCostsTrust ==
  ASSUME NEW image, NEW signals, NEW rule \in IocHits(image, signals), rule # "netcat",
         signals \subseteq {"sensitive", "cron", "systemd", "external", "lateral", "entropy"},
         signals \cap {"cron", "systemd"} # {} => "sensitive" \in signals
  PROVE  ProcessTrust(image, signals) < 100
<1> DEFINE t == IF rule = "remote_pipe" THEN "pipe_to_shell"
                ELSE IF rule \in {"cron", "systemd"} THEN "sensitive" ELSE rule
<1>1. CASE rule \in CommandHits(image)
  <2>1. rule \in {"remote_pipe", "reverse_shell", "busybox"}
    BY <1>1 DEF CommandHits
  <2>2. t \in image
    BY <1>1, <2>1 DEF CommandHits
  <2>3. t \in {"pipe_to_shell", "reverse_shell", "busybox"}
    BY <2>1
  <2> HIDE DEF t
  <2>4. t \in DOMAIN TrustCost /\ TrustCost[t] > 0
    BY <2>3 DEF TrustCost
  <2> QED
    BY <2>2, <2>4, CostsTrust
<1>2. CASE rule \notin CommandHits(image)
  <2>1. rule \in signals \ {"external"}
    BY <1>2 DEF IocHits
  <2>2. t \in signals /\ t \in {"sensitive", "lateral", "entropy"}
    BY <2>1
  <2> HIDE DEF t
  <2>3. t \in DOMAIN TrustCost /\ TrustCost[t] > 0
    BY <2>2 DEF TrustCost
  <2> QED
    BY <2>2, <2>3, CostsTrust
<1> QED
  BY <1>1, <1>2

\* Wherever a rule hits, the tag is there, its tactic shown and trust lost, but for
\* netcat by its full name.
THEOREM HitsAlwaysTaggedAndCost == Spec => []HitsAreTaggedAndCostTrust
<1>1. IInv => HitsAreTaggedAndCostTrust
  <2> SUFFICES ASSUME IInv, NEW p \in Pids PROVE RulesAgreeOn(Aggregate(p))
    BY DEF HitsAreTaggedAndCostTrust
  <2> DEFINE image == procs[p].image
             signals == SignalsOf(Related(p))
  <2>1. \A a \in Related(p) : a.kind \in Kinds
    BY DEF Related, IInv, TypeOK
  <2>2. /\ signals \subseteq {"sensitive", "cron", "systemd", "external", "lateral", "entropy"}
        /\ signals \cap {"cron", "systemd"} # {} => "sensitive" \in signals
    BY <2>1, SignalsKnown
  <2>3. /\ Aggregate(p).hits = IocHits(image, signals)
        /\ Aggregate(p).tags = AttackTags(image, signals)
        /\ Aggregate(p).tactics = Tactics(AttackTags(image, signals), signals)
        /\ Aggregate(p).trust = ProcessTrust(image, signals)
    BY AggregateFields
  <2> HIDE DEF image, signals
  <2>4. ASSUME NEW rule \in IocHits(image, signals)
        PROVE  /\ \E tag \in AttackTags(image, signals) :
                    tag[1] = rule /\ tag[2] \in Tactics(AttackTags(image, signals), signals)
               /\ ProcessTrust(image, signals) < 100 \/ rule = "netcat"
    BY <2>2, HitIsTagged, HitCostsTrust
  <2> QED
    BY <2>3, <2>4 DEF RulesAgreeOn
<1> QED
  BY <1>1, InvariantHolds, PTL

-----------------------------------------------------------------------------
(* The page.                                                               *)

\* The fields by which incidents are ranked can be compared.
Comparable(incident, q) ==
  incident[q].severity \in Int /\ incident[q].confidence \in Int /\ incident[q].firstSeen \in Int

\* Incidents are in order: none has the rank of another.
LEMMA OutranksOrders ==
  ASSUME NEW incident, NEW items \in SUBSET Nat, \A q \in items : Comparable(incident, q)
  PROVE  IsOrder({pair \in items \X items : Outranks(incident, pair[1], pair[2])}, items)
<1> DEFINE R == {pair \in items \X items : Outranks(incident, pair[1], pair[2])}
<1>1. \A x, y \in items : <<x, y>> \in R <=> Outranks(incident, x, y)
  OBVIOUS
<1> HIDE DEF R
<1>2. ASSUME NEW x \in items
      PROVE  /\ x \in Nat /\ incident[x].severity \in Int
             /\ incident[x].confidence \in Int /\ incident[x].firstSeen \in Int
             /\ ~Outranks(incident, x, x)
  <2>1. /\ x \in Nat /\ incident[x].severity \in Int
        /\ incident[x].confidence \in Int /\ incident[x].firstSeen \in Int
    BY DEF Comparable
  <2> QED
    BY <2>1 DEF Outranks
<1>3. ASSUME NEW x \in items, NEW y \in items, NEW z \in items,
             Outranks(incident, x, y), Outranks(incident, y, z)
      PROVE  Outranks(incident, x, z)
  BY <1>2, <1>3 DEF Outranks
<1>4. ASSUME NEW x \in items, NEW y \in items, x # y
      PROVE  Outranks(incident, x, y) \/ Outranks(incident, y, x)
  <2>1. x < y \/ y < x
    BY <1>2, <1>4
  <2>2. CASE incident[x].severity # incident[y].severity
    BY <1>2, <2>2 DEF Outranks
  <2>3. CASE incident[x].severity = incident[y].severity
             /\ incident[x].confidence # incident[y].confidence
    BY <1>2, <2>3 DEF Outranks
  <2>4. CASE incident[x].severity = incident[y].severity
             /\ incident[x].confidence = incident[y].confidence
    BY <1>2, <2>1, <2>4 DEF Outranks
  <2> QED
    BY <2>2, <2>3, <2>4
<1>5. IsOrder(R, items)
  BY <1>1, <1>2, <1>3, <1>4 DEF IsOrder
<1> QED
  BY <1>5 DEF R

\* What is worth listing is listed, or the list is full of what is as severe.
LEMMA ListedOrBehind ==
  ASSUME NEW incident, DOMAIN incident \in SUBSET Nat, IsFiniteSet(DOMAIN incident),
         \A q \in DOMAIN incident : Comparable(incident, q),
         NEW p \in DOMAIN incident, WorthListing(incident[p]), p \notin Listed(incident)
  PROVE  /\ Cardinality(Listed(incident)) = ListLimit
         /\ \A q \in Listed(incident) :
              q \in DOMAIN incident /\ incident[q].severity >= incident[p].severity
<1> DEFINE items == {q \in DOMAIN incident : WorthListing(incident[q])}
           R == {pair \in items \X items : Outranks(incident, pair[1], pair[2])}
<1>1. /\ items \in SUBSET DOMAIN incident /\ items \in SUBSET Nat /\ p \in items
      /\ ListLimit \in Nat
  BY IncidentAssumption
<1>2. IsFiniteSet(items)
  BY <1>1, FS_Subset
<1>3. IsOrder(R, items)
  BY <1>1, OutranksOrders
<1>4. \A x, y \in items : <<x, y>> \in R <=> Outranks(incident, x, y)
  OBVIOUS
<1>5. Listed(incident) = {q \in items : Cardinality({x \in items : Outranks(incident, x, q)}) < ListLimit}
  BY DEF Listed
<1> HIDE DEF R, items
<1>6. \A q \in items : {x \in items : Outranks(incident, x, q)} = Ahead(R, items, q)
  BY <1>4 DEF Ahead
<1>7. Listed(incident) = {q \in items : Rank(R, items, q) < ListLimit}
  BY <1>5, <1>6 DEF Rank
<1>8. ~(Rank(R, items, p) < ListLimit)
  BY <1>1, <1>7
<1>9. Cardinality(Listed(incident)) = ListLimit /\ \A q \in Listed(incident) : <<q, p>> \in R
  BY <1>1, <1>2, <1>3, <1>7, <1>8, FirstOfOrder
<1>10. ASSUME NEW q \in Listed(incident)
       PROVE  q \in DOMAIN incident /\ incident[q].severity >= incident[p].severity
  <2>1. q \in items /\ q \in DOMAIN incident /\ Outranks(incident, q, p)
    BY <1>1, <1>4, <1>7, <1>9
  <2>2. Comparable(incident, q) /\ Comparable(incident, p)
    BY <2>1
  <2> QED
    BY <2>1, <2>2 DEF Outranks, Comparable
<1> QED
  BY <1>9, <1>10

\* The first start of the lineage of a process is a time.
LEMMA FirstSeenIsTime ==
  ASSUME IInv, NEW p \in Pids, Seen(p)
  PROVE  FirstSeen(p) \in Int
<1> DEFINE starts == {procs[q].start : q \in Lineage(p)}
<1>1. \A q \in Lineage(p) : q \in Pids /\ Seen(q)
  BY OwnAncestry, DescendantsAreOffspring DEF Lineage, Offspring
<1>2. \A q \in Lineage(p) : procs[q].start \in Nat
  BY <1>1, ProcessFields DEF IInv
<1>3. starts \subseteq Nat /\ starts # {}
  BY <1>2, OwnAncestry DEF Lineage
<1> HIDE DEF starts
<1>4. \E x \in starts : \A y \in starts : x <= y
  BY <1>3, LeastNatural
<1>5. Min(starts) \in starts
  BY <1>4 DEF Min
<1> QED
  BY <1>3, <1>5 DEF starts, FirstSeen

\* Incidents can be ranked.
LEMMA IncidentsCompare ==
  ASSUME IInv, NEW p \in Pids, Seen(p)
  PROVE  /\ Aggregate(p).severity \in Int /\ Aggregate(p).confidence \in Int
         /\ Aggregate(p).firstSeen \in Int
<1>1. PICK counted : /\ Aggregate(p).severity = Severity(counted)
                     /\ Aggregate(p).confidence = Confidence(counted)
  BY AggregateFields
<1>2. Aggregate(p).firstSeen = FirstSeen(p)
  BY AggregateFields
<1> QED
  BY <1>1, <1>2, ScoresAreIntegers, FirstSeenIsTime

\* An incident that shows something suspicious is worth listing.
LEMMA SuspicionIsWorthListing ==
  ASSUME NEW p, NEW a \in Related(p), Suspicious(a)
  PROVE  WorthListing(Aggregate(p)) /\ a \in Aggregate(p).events
<1> DEFINE signals == SignalsOf(Related(p))
<1>1. /\ Aggregate(p).events = Related(p)
      /\ Aggregate(p).alerts = {b \in Related(p) : b.kind = "alert"}
      /\ Aggregate(p).hits = IocHits(procs[p].image, signals)
  BY AggregateFields
<1>2. CASE a.kind = "alert"
  BY <1>1, <1>2 DEF WorthListing
<1>3. CASE Signals[a.kind] \ {"external"} # {}
  <2>1. Signals[a.kind] \subseteq signals
    BY DEF SignalsOf
  <2>2. IocHits(procs[p].image, signals) # {}
    BY <1>3, <2>1 DEF IocHits
  <2> QED
    BY <1>1, <2>2 DEF WorthListing
<1> QED
  BY <1>2, <1>3 DEF Suspicious

\* What finished processes did that is suspicious is in an incident of the page, or
\* the page is full of incidents as severe.
THEOREM SuspicionAlwaysReachesThePage == Spec => []SuspicionReachesThePage
<1>1. IInv => SuspicionReachesThePage
  <2> DEFINE ranExec == {q \in Pids : Seen(q) /\ procs[q].ran}
             incident == [q \in ranExec |-> Aggregate(q)]
             page == PageOf(incident)
             shown == UNION {page[q].events : q \in DOMAIN page}
  <2> SUFFICES ASSUME IInv, NEW p \in Pids, Seen(p), procs[p].ran, WithinCap(p), Finished(p),
                      NEW a \in ActsOf(p), Suspicious(a), a \notin shown
               PROVE  /\ Cardinality(DOMAIN page) = ListLimit
                      /\ \A q \in DOMAIN page : page[q].severity >= Aggregate(p).severity
    BY DEF SuspicionReachesThePage, ShownOrBehind, Page
  <2>1. /\ ranExec \in SUBSET Nat /\ ranExec \in SUBSET Pids /\ DOMAIN incident = ranExec
        /\ p \in ranExec /\ \A q \in ranExec : q \in Pids /\ Seen(q)
    BY IncidentAssumption
  <2>2. IsFiniteSet(DOMAIN incident)
    BY <2>1, IncidentAssumption, FS_Subset
  <2>3. \A q \in DOMAIN incident : incident[q] = Aggregate(q)
    OBVIOUS
  <2>4. DOMAIN page = Listed(incident) /\ \A q \in DOMAIN page : page[q] = incident[q]
    BY DEF PageOf
  <2> HIDE DEF ranExec, incident, page
  <2>5. \A q \in DOMAIN incident : Comparable(incident, q)
    BY <2>1, <2>3, IncidentsCompare DEF Comparable
  <2>6. WorthListing(incident[p]) /\ a \in incident[p].events
    BY <2>1, <2>3, FinishedIsShown, SuspicionIsWorthListing
  <2>7. p \notin Listed(incident)
    <3>1. ASSUME p \in DOMAIN page PROVE FALSE
      BY <2>4, <2>6, <3>1
    <3> QED
      BY <2>4, <3>1
  <2>8. /\ Cardinality(Listed(incident)) = ListLimit
        /\ \A q \in Listed(incident) :
             q \in DOMAIN incident /\ incident[q].severity >= incident[p].severity
    BY <2>1, <2>2, <2>5, <2>6, <2>7, ListedOrBehind
  <2> QED
    BY <2>1, <2>3, <2>4, <2>8
<1> QED
  BY <1>1, InvariantHolds, PTL
=============================================================================
