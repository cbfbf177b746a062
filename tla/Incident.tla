------------------------------ MODULE Incident ------------------------------
(***************************************************************************)
(* Incidents of a traced host: aggregate_incident_for_pid of               *)
(* engine/incident.rs takes a process with its ancestors and descendants   *)
(* from the process tree, the events of the process and its descendants in *)
(* a time window around their lives, and rates what the rules of           *)
(* engine/ioc.rs and engine/trust.rs find in them.  The incidents page     *)
(* (api/server.rs) does so for every process that ran exec and lists the   *)
(* worst.                                                                  *)
(*                                                                         *)
(* Incidents are not kept: all of them are operators over what is stored.  *)
(* The actions are the host's and grow that.  Pids are given out in        *)
(* ascending order and none twice, the tree is the one ProcTree builds,    *)
(* and a parent the trace has not seen is not in it.  One unit of time is  *)
(* 300 seconds.  Of a command line, a path or an address the model keeps   *)
(* what the rules tell apart.                                              *)
(***************************************************************************)
EXTENDS Integers, FiniteSets, FiniteSetsExt

CONSTANTS
  Pids,
  Kinds,      \* the kinds of events that occur, see Signals
  Images,     \* Images[p]: what p may execute, as sets of Traits
  HostTrust,  \* level of the host, 0 to 3 (see Ring0Store)
  UpCap,      \* most ancestors (with the process itself), 16 in the code
  DownCaps,   \* choices for the most descendants, 64 in the code
  ListLimit,  \* most incidents on the page, 20 in the code
  Roots,      \* bound: processes whose parent the trace has not seen
  MaxTime,    \* bound: the last time
  MaxActs,    \* bound: events
  None

\* What the rules see of an executed image: words of its command line (nc is
\* "nc " or "ncat "), a path in a temporary directory, user 0.
Traits == {"curl", "wget", "pipe_to_shell", "reverse_shell", "nc", "netcat", "busybox",
           "temporary_path", "uid_0"}

\* What the rules see of an event: a file by its path, a connection by address
\* and port, a query by its name.  An alert is a row of the EDR.
Signals == [
  open_file |-> {}, open_secret |-> {"sensitive"},
  open_cron |-> {"sensitive", "cron"}, open_unit |-> {"sensitive", "systemd"},
  connect_external |-> {"external"}, connect_internal |-> {},
  connect_internal_service |-> {"lateral"},
  query |-> {}, query_entropy |-> {"entropy"}, alert |-> {}]

ASSUME IncidentAssumption ==
  /\ Pids \subseteq Nat /\ IsFiniteSet(Pids) /\ None \notin Pids /\ Roots \subseteq Pids
  /\ Kinds \subseteq DOMAIN Signals /\ Images \in [Pids -> SUBSET SUBSET Traits]
  /\ HostTrust \in 0 .. 3
  /\ {UpCap, ListLimit} \cup DownCaps \subseteq Nat \ {0} /\ {MaxTime, MaxActs} \subseteq Nat

VARIABLES
  downCap,  \* the choice, never changed
  now,
  procs,    \* procs[p]: the node of p, None before it starts
  acts      \* events stored

vars == <<downCap, now, procs, acts>>

Times == 0 .. MaxTime
Process == [mother : Pids \cup {None},  \* by whose child edge the tree knows it
            parent : Pids \cup {None},  \* its parent link
            start : Times, exit : Times \cup {None},
            image : SUBSET Traits, ran : BOOLEAN]

ASSUME NoneAssumption == None \notin Times /\ None \notin Process

TypeOK ==
  /\ downCap \in DownCaps /\ now \in Times
  /\ procs \in [Pids -> Process \cup {None}]
  /\ acts \subseteq [pid : Pids, at : Times, kind : Kinds] /\ Cardinality(acts) <= MaxActs

Init ==
  /\ downCap \in DownCaps
  /\ now = 0 /\ acts = {}
  /\ procs = [p \in Pids |-> None]

-----------------------------------------------------------------------------
(* The host.                                                               *)

Seen(p) == procs[p] # None
Running(p) == Seen(p) /\ procs[p].exit = None

Fork(m, p) ==
  /\ ~Seen(p) /\ (IF m = None THEN p \in Roots ELSE Running(m))
  /\ \A q \in Pids : q < p => Seen(q)
  /\ procs' = [procs EXCEPT ![p] = [mother |-> m, parent |-> m, start |-> now, exit |-> None,
                                    image |-> {}, ran |-> FALSE]]
  /\ UNCHANGED <<downCap, now, acts>>

\* An exec line names the parent of that moment: for an orphan one that the
\* trace has not seen.  The child edge stays.
Exec(p, image) ==
  /\ Running(p)
  /\ LET m == procs[p].mother
     IN  procs' = [procs EXCEPT ![p].image = image, ![p].ran = TRUE,
                                ![p].parent = IF m # None /\ Running(m) THEN m ELSE None]
  /\ UNCHANGED <<downCap, now, acts>>

Exit(p) ==
  /\ Running(p)
  /\ procs' = [procs EXCEPT ![p].exit = now]
  /\ UNCHANGED <<downCap, now, acts>>

Does(p, kind) ==
  /\ Running(p) /\ Cardinality(acts) < MaxActs
  /\ acts' = acts \cup {[pid |-> p, at |-> now, kind |-> kind]}
  /\ UNCHANGED <<downCap, now, procs>>

Tick == now < MaxTime /\ now' = now + 1 /\ UNCHANGED <<downCap, procs, acts>>

Next ==
  \/ \E p \in Pids, m \in Pids \cup {None} : Fork(m, p)
  \/ \E p \in Pids : \E image \in Images[p] : Exec(p, image)
  \/ \E p \in Pids : Exit(p)
  \/ \E p \in Pids, kind \in Kinds : Does(p, kind)
  \/ Tick

Spec == Init /\ [][Next]_vars

-----------------------------------------------------------------------------
(* Lineage, scope and window.                                              *)

Earlier(p, q) == procs[p].start < procs[q].start \/ (procs[p].start = procs[q].start /\ p < q)

\* Broken form: the edge to a child goes when the child is adopted.
MotherByLink(p) == IF Seen(p) THEN procs[p].parent ELSE None

\* By whose child edge the tree knows p.
Mother(p) == IF Seen(p) THEN procs[p].mother ELSE None

\* The process and those above it along the edges.
Mothers(p) ==
  LET up[q \in Pids] == {q} \cup IF Mother(q) = None THEN {} ELSE up[Mother(q)]
  IN  up[p]

Offspring(p) == {q \in Pids \ {p} : Seen(q) /\ p \in Mothers(q)}

\* Broken form: everywhere the elder first.
BeforeElderFirst(root, q, r) ==
  \/ q # r /\ q \in Mothers(r)
  \/ \E m \in Mothers(q), n \in Mothers(r) : Mother(m) = Mother(n) /\ Earlier(m, n)

\* Of two children of one mother the elder is visited first, but of those of the
\* root itself, which go on the stack unreversed, the younger.
Sooner(root, m, n) == IF Mother(m) = root THEN Earlier(n, m) ELSE Earlier(m, n)

\* Depth first from the root, q comes before r.
Before(root, q, r) ==
  \/ q # r /\ q \in Mothers(r)
  \/ \E m \in Mothers(q), n \in Mothers(r) : Mother(m) = Mother(n) /\ Sooner(root, m, n)

WithinCap(p) == Cardinality(Offspring(p)) <= downCap

\* The first downCap of the offspring.
Descendants(p) ==
  {q \in Offspring(p) :
     WithinCap(p) \/ Cardinality({r \in Offspring(p) : Before(p, r, q)}) < downCap}

\* The process and those above it, by their parent links.
Ancestry(p) ==
  LET up[n \in 0 .. UpCap - 1] ==
        IF n = 0 THEN p ELSE IF up[n - 1] = None THEN None ELSE procs[up[n - 1]].parent
  IN  {up[n] : n \in 0 .. UpCap - 1} \ {None}

Lineage(p) == Ancestry(p) \cup Descendants(p)

FirstSeen(p) == Min({procs[q].start : q \in Lineage(p)})

\* Broken form: exits do not count.
TimesOfStart(p) == {procs[p].start}

\* When a process was seen to start or exit.
TimesOf(p) == {procs[p].start, procs[p].exit} \ {None}

\* Broken form: the window forgets the descendants.
RelatedToAncestry(p) ==
  {a \in acts :
     LET slack == IF a.kind = "alert" THEN 2 ELSE 1
     IN  /\ a.pid \in {p} \cup Descendants(p)
         /\ \E q \in Ancestry(p) : procs[q].start - slack <= a.at
         /\ \E q \in Ancestry(p) : \E t \in TimesOf(q) : a.at <= t + slack}

\* Of the process and its descendants, what is from 300 seconds before the
\* first start of the lineage to 300 seconds after the last start or exit known
\* of it, and rows of the EDR from 600 to 600.
Related(p) ==
  {a \in acts :
     LET slack == IF a.kind = "alert" THEN 2 ELSE 1
     IN  /\ a.pid \in {p} \cup Descendants(p)
         /\ \E q \in Lineage(p) : procs[q].start - slack <= a.at
         /\ \E q \in Lineage(p) : \E t \in TimesOf(q) : a.at <= t + slack}

-----------------------------------------------------------------------------
(* Rules and scores, of an image and what the rules see in the events.     *)

CommandHits(image) == {rule \in {"remote_pipe", "reverse_shell", "netcat", "busybox"} :
  CASE rule = "remote_pipe" -> {"curl", "pipe_to_shell"} \subseteq image
    [] rule = "reverse_shell" -> "reverse_shell" \in image
    [] rule = "netcat" -> image \cap {"nc", "netcat"} # {}
    [] rule = "busybox" -> "busybox" \in image}

\* The rules of detect_ioc_hits that hit.
IocHits(image, signals) == CommandHits(image) \cup (signals \ {"external"})

TacticOf == [remote_pipe |-> "execution", reverse_shell |-> "command_and_control",
  netcat |-> "command_and_control", busybox |-> "execution",
  sensitive |-> "collection", cron |-> "persistence", systemd |-> "persistence",
  lateral |-> "lateral_movement", entropy |-> "command_and_control"]

\* Each tag with the rule it is for.
AttackTags(image, signals) ==
  {<<rule, TacticOf[rule]>> : rule \in CommandHits(image) \cup (signals \cap DOMAIN TacticOf)}

\* Broken form: a tactic of the tags is left out.
KnownTacticsButOne == {"execution", "collection", "command_and_control", "lateral_movement"}

KnownTactics == {"execution", "collection", "persistence", "command_and_control", "lateral_movement"}

\* Of the tags those with a known tactic, and what connections and findings say
\* themselves.
Tactics(tags, signals) ==
  LET found == ({tag[2] : tag \in tags} \cap KnownTactics)
               \cup {t \in {"command_and_control"} : "external" \in signals}
               \cup {t \in {"lateral_movement"} : "lateral" \in signals}
               \cup {t \in {"defense_evasion"} : HostTrust > 0}
  IN  IF found = {} THEN {"execution"} ELSE found

Clamp(low, n, high) == Max({low, Min({n, high})})

SeverityWeight == [sensitive |-> 3, external |-> 1, lateral |-> 2, entropy |-> 2,
                   ioc_hits |-> 1, descendants |-> 1]
Severity(counted) ==
  Clamp(1, 3 + SumFunctionOnSet(SeverityWeight, counted \cap DOMAIN SeverityWeight), 10)

\* In hundredths.
ConfidenceWeight == [sensitive |-> 25, external |-> 10, lateral |-> 20, entropy |-> 15,
                     ioc_hits |-> 10, descendants |-> 5, alerts |-> 10, bad_host |-> 5]
Confidence(counted) ==
  Min({35 + SumFunctionOnSet(ConfidenceWeight, counted \cap DOMAIN ConfidenceWeight), 95})

TrustCost == [retrieval |-> 25, pipe_to_shell |-> 20, reverse_shell |-> 30, nc |-> 15,
              busybox |-> 10, temporary_path |-> 20, uid_0 |-> 5,
              sensitive |-> 25, external |-> 10, lateral |-> 20, entropy |-> 20]

\* Of the traits and signals those that cost trust; curl and wget are one.
ProcessTrust(image, signals) ==
  LET seen == image \cup signals \cup {t \in {"retrieval"} : image \cap {"curl", "wget"} # {}}
  IN  Clamp(5, 100 - SumFunctionOnSet(TrustCost, seen \cap DOMAIN TrustCost), 100)

\* The incident of p, from its events and what the rules see in them.
Rated(p, events, signals) ==
  LET image == procs[p].image
      hits == IocHits(image, signals)
      tags == AttackTags(image, signals)
      alerts == {a \in events : a.kind = "alert"}
      counted == signals
                 \cup {c \in {"ioc_hits"} : hits # {}}
                 \cup {c \in {"descendants"} : Cardinality(Descendants(p)) > 1}
                 \cup {c \in {"alerts"} : alerts # {}}
                 \cup {c \in {"bad_host"} : alerts # {} /\ HostTrust >= 2}
  IN  [events |-> events, alerts |-> alerts, hits |-> hits, tags |-> tags,
       tactics |-> Tactics(tags, signals), severity |-> Severity(counted),
       confidence |-> Confidence(counted), trust |-> ProcessTrust(image, signals),
       firstSeen |-> FirstSeen(p)]

RatedEvents(p, events) == Rated(p, events, UNION {Signals[a.kind] : a \in events})

\* The incident of p.
Aggregate(p) == RatedEvents(p, Related(p))

-----------------------------------------------------------------------------
(* The page.                                                               *)

\* Broken form: only severity decides.
WorthListingBySeverity(incident) == incident.severity >= 5

WorthListing(incident) == incident.severity >= 5 \/ incident.hits # {} \/ incident.alerts # {}

\* Worse first, then surer, then later; else as before the sort.
Outranks(incident, p, q) ==
  LET a == incident[p] b == incident[q]
  IN  \/ a.severity > b.severity
      \/ /\ a.severity = b.severity
         /\ \/ a.confidence > b.confidence
            \/ a.confidence = b.confidence /\ a.firstSeen > b.firstSeen
            \/ a.confidence = b.confidence /\ a.firstSeen = b.firstSeen /\ p < q

\* Of incidents, what is worth listing, the first ListLimit of it.
Listed(incident) ==
  LET items == {p \in DOMAIN incident : WorthListing(incident[p])}
  IN  {p \in items : Cardinality({q \in items : Outranks(incident, q, p)}) < ListLimit}

PageOf(incident) == [p \in Listed(incident) |-> incident[p]]

\* The incidents of processes that ran exec.
Page == PageOf([p \in {q \in Pids : Seen(q) /\ procs[q].ran} |-> Aggregate(p)])

-----------------------------------------------------------------------------
(* Properties.                                                             *)

Finished(p) == \A q \in {p} \cup Offspring(p) : ~Running(q)
ActsOf(p) == {a \in acts : a.pid \in {p} \cup Offspring(p)}

\* "collect the file, network and DNS events of all pids in the tree"
\* (docs/BEGINNER_GUIDE.md): once a process and its offspring have exited, its
\* incident has every event of them, though orphans have changed their parents
\* and exec lines their links on the way.
EventsOfFinishedProcessesAreShown ==
  \A p \in Pids : (Seen(p) /\ WithinCap(p) /\ Finished(p)) =>
    ActsOf(p) \subseteq Related(p)

\* What becomes of processes only adds to an incident: no event it has shown is
\* lost again, but for two ways.  The process or one above it runs exec as an
\* orphan, and loses its ancestors and the time up to their exits; or the
\* descendants are at their cap, and a process just forked has crowded out the
\* one that did it.  Of the others, and of the process itself, all stays.
ShownStaysShown ==
  [][\A p \in Pids : Seen(p) => \A a \in Related(p) :
       (\A q \in Ancestry(p) : procs'[q].parent = procs[q].parent) =>
         \/ a \in Related(p)'
         \/ /\ a.pid # p /\ a.pid \notin Descendants(p)'
            /\ Cardinality(Descendants(p)') = downCap
            /\ \E q \in Descendants(p)' : ~Seen(q)]_procs

\* What the incident of a process shows, that of every process it comes from
\* shows too, whatever links and windows the two have.
AncestorsShowItToo ==
  acts # {} => \A p \in Pids : (Seen(p) /\ WithinCap(p)) =>
    \A q \in Offspring(p) : Related(q) \subseteq Related(p)

\* The rules are written down three times and agree: what one hits has a tag
\* whose tactic the incident shows, and costs trust, but for netcat called by
\* its full name.
RulesAgreeOn(incident) ==
  \A rule \in incident.hits :
    /\ \E tag \in incident.tags : tag[1] = rule /\ tag[2] \in incident.tactics
    /\ incident.trust < 100 \/ rule = "netcat"

HitsAreTaggedAndCostTrust ==
  \A p \in Pids : (Seen(p) /\ procs[p].ran) => RulesAgreeOn(Aggregate(p))

\* A signal but that of an external address, or an alert.
Suspicious(a) == Signals[a.kind] \ {"external"} # {} \/ a.kind = "alert"

\* What a finished process or its offspring did that is suspicious is shown by
\* an incident of the page, or the page is full of incidents as severe.
ShownOrBehind(page) ==
  LET shown == UNION {page[q].events : q \in DOMAIN page}
  IN  \A p \in Pids : (Seen(p) /\ procs[p].ran /\ WithinCap(p) /\ Finished(p)) =>
        \A a \in ActsOf(p) : (Suspicious(a) /\ a \notin shown) =>
          /\ Cardinality(DOMAIN page) = ListLimit
          /\ \A q \in DOMAIN page : page[q].severity >= Aggregate(p).severity

SuspicionReachesThePage == ShownOrBehind(Page)
=============================================================================
