# trace-lens in TLA+

trace-lens collects what a Linux host does (Tracee events), what EDR products say about it
(webhooks) and what integrity checks find in its kernel ("ring0" checks, canaries), stores all of
it in one SQLite database, and rebuilds from it a process tree, a trust level and incidents. This
directory holds TLA+ modules of the parts of that program in which order, concurrency, failure
and accumulated state decide whether the answer is right, the TLC configurations that check them,
and TLAPS proofs that the safety properties the runs check hold for instances of every size (but
for one that compares a closed form with a loop, section 4).

    tlc -config ProcTree.cfg MCProcTree        model-check a run (names in PROJECT.json)
    tlapm ProcTreeProofs.tla                   check the proofs of a module (...Proofs.tla)

1. [Inventory of the system](#1-inventory-of-the-system)
2. [The modules and the code](#2-the-modules-and-the-code)
3. [What the runs check and show](#3-what-the-runs-check-and-show)
4. [What is proved](#4-what-is-proved)
5. [Where code and documents disagree](#5-where-code-and-documents-disagree)
6. [What is left out](#6-what-is-left-out)
7. [Plan](#7-plan)

## 1. Inventory of the system

Everything runs as one binary with subcommands (`src/main.rs`, `src/app.rs`). The commands and the
server are separate operating system processes that share the database, the event file and the
canary directory; nothing locks them against each other except SQLite's transactions. Every
storage call opens a connection of its own and commits a transaction of its own.

| Component | State it keeps | Operations | What is hard | What makes it correct |
|---|---|---|---|---|
| Process tree (`engine/proc_tree.rs`) | `nodes`, `pid_index`, `children` (in memory, rebuilt per request) | `build`, one handler each for exec, fork and exit; ancestry and descendants walks | events in any order within a second, missing events, pid reuse, links rewritten by later events, cycles | the three maps agree; a process keeps one node; links name real kin; walks end, are chains or trees, and are complete below their cap |
| Event queries (same file) | none | file, network, dns events of a set of pids in a window; lookups by path and target | the pids and the window come from a tree that later events change | the events of a lineage are found once its processes have ended |
| Tracee collector (`collector/tracee.rs`, `scripts/run-tracee-live.sh`) | `raw_events` rows | capture into a file; `tracee ingest`: parse line by line, one transaction at the end | ingest while the capture runs, overlapping and repeated ingests, a line cut off, ids made of second, name, pid, line | every line read is stored, once, and never replaced by another event |
| EDR ingest API (`api/edr_ingest.rs`, `connectors/edr/webhook.rs`) | `raw_events`, `normalized_events`, `edr_events`, `edr_alerts` | three webhooks and a batch import: up to four inserts per payload, each its own transaction | an insert fails, the server dies, the client retries, requests run at once | answered means stored; every row leads back to its evidence; retries of identified payloads are absorbed |
| Ring0 checks (`collector/ring0.rs`, the scheduler in `app.rs`) | `ring0_findings` | six detectors in a row, then insert with deduplication | tools fail, several checkers commit in another order than they looked, ids that keep 48 characters | one row per finding, nothing found is lost, a lasting anomaly is stored in the end |
| Canaries (`collector/canary.rs`) | pid file, listener process, port | `setup`, `serve`, `check` of ghost ports; mirror traps | check-then-act on a pid file, a port and two tools; pid reuse; a probe that occupies what it probes | no false verdict on a port that was held all along; setup never disturbs a listener |
| Trust (`engine/trust.rs`) | none | host level L0 to L3 from findings; process score | findings are never withdrawn; the score has rules of its own | level follows the findings, monotonically; what a rule hits costs trust |
| Incidents (`engine/incident.rs`) | none, built anew from the tree and the rows on every request | lineage, pid scope, time window, EDR evidence per pid, severity, confidence, tactics | reads with limits, evidence matched by name and time, two sources that should not be counted twice; parent links and child edges that disagree after adoption; a window that depends on exits | no evidence in the window is lost, none is counted twice; what was shown stays shown; a process shows what came of it |
| Rules (`engine/ioc.rs`) | none | rules over command lines, paths, addresses and names: hits and ATT&CK tags | the same rules are written down three times (hits, tags, trust) | hits have tags, tags have tactics, hits cost trust |
| Server and pages (`api/server.rs`) | configuration | every handler reads the database anew; the incident list filters, sorts and truncates | reads through several connections are not one snapshot; a list of 20 | what is suspicious is on the list or behind something as severe |
| Storage (`storage/sqlite.rs`) | the schema | inserts (`INSERT OR REPLACE` and a deduplicating delete), limited reads | primary keys decide what is overwritten | modelled with its callers |
| Command line, replay, export (`app.rs`) | the files of a forensic package | printing; eight files written one after the other | an export stops half way, two overlap, an older package is there | a manifest names files that exist; an export leaves one bundle |
| Data model, frontend, install scripts | - | - | - | - |

How they interact: Tracee and the EDR products write `raw_events`; the tree is a fold over
`all_raw_events` whenever a page or a command asks for it; incidents join the tree, the rules, the
trust score and the EDR rows found by pid; host trust reads `ring0_findings`, which the scheduler,
`ring0 check` and `canary check` all write. The ghost port's two halves, `setup` and `check`, meet
only in the pid file and the port.

The hazards this gives rise to are listed in `PROJECT.json` ("hazards"), each with its line and
the properties that watch it.

## 2. The modules and the code

`PROJECT.json` ("map") names the lines behind every definition. Each module begins with what it
keeps and what it folds away. Definitions introduced by "Broken form" are not part of any
specification: each is a plausible bug in the definition that follows it, and shows that a
property can fail.

| Module | Models | Next to |
|---|---|---|
| `TreeShape` | the one shape (`WellLinked`) that building the tree guarantees and the walks assume | - |
| `ProcTree` | `ProcessTree::build` and its handlers | EXTENDS `TreeShape` |
| `TracedHost` | a host (processes, reaper, pid reuse) whose reported events the tree folds | EXTENDS `ProcTree` |
| `LineageWalk` | `ancestry_by_pid`, `descendants_by_pid`, one action per turn of the loop | EXTENDS `TreeShape` |
| `ProcTreeProofs` | theorems about `ProcTree`, the host that feeds it and the walks over it | EXTENDS `TracedHost`, `LineageWalk`, TLAPS |
| `EdrLedger` | abstract: what the ingest API promises | - |
| `EdrIngest` | the handlers, the adapter and the four tables | INSTANCE `EdrLedger` |
| `EdrIngestProofs` | theorems about `EdrIngest` | EXTENDS `EdrIngest`, TLAPS |
| `IncidentEvidence` | `collect_edr_evidence` of one incident, its scope and window, beside deliveries being stored | - |
| `IncidentEvidenceProofs` | theorems about `IncidentEvidence` | EXTENDS `IncidentEvidence`, TLAPS |
| `Incident` | `aggregate_incident_for_pid` and the incident list over a growing tree: lineage, window, rules, scores, page | - |
| `IncidentProofs` | theorems about `Incident` | EXTENDS `Incident`, TLAPS |
| `IncidentLineage` | the walks of `LineageWalk` on the trees of `Incident`, which states in closed form what they return | EXTENDS `LineageWalk`, INSTANCE `Incident` |
| `ForensicExport` | `trace-lens export --format package`, several at once | - |
| `ForensicExportProofs` | theorems about `ForensicExport` | EXTENDS `ForensicExport`, TLAPS |
| `Ring0Store` | checks, scheduler, `insert_ring0_findings`, `assess_host_trust` | - |
| `Ring0StoreProofs` | theorems about `Ring0Store` | EXTENDS `Ring0Store`, TLAPS |
| `GhostPort` | `canary setup`, `serve`, `check` of one ghost port | - |
| `GhostPortProofs` | theorems about `GhostPort` | EXTENDS `GhostPort`, TLAPS |
| `TraceeIngest` | captures, `tracee ingest`, `insert_raw_events` | - |
| `TraceeIngestProofs` | theorems about `TraceeIngest` | EXTENDS `TraceeIngest`, TLAPS |
| `MC...` | values of the constants for TLC; `LineageWalk` runs in `MCIncidentLineage` | EXTENDS the module of the same name |

**ProcTree.** `nodes`, `pidIndex`, `children` are the fields of `ProcessTree`; `now` is the
`observed_at` of the last event, as `all_raw_events` sorts by it. A process key is the pair behind
the string `tracee:<pid>:<time>`. `HandleExec`, `HandleFork` and `HandleExit` are the handlers of
the same names; what `handle_exec` and `handle_fork` share is in `KeyFor` (index, else first key),
`EntryOr` (`entry().or_insert`), `ResolveParentKey`, and `Record` (insert into map, index and
children). `EventKeys` is the key the collector puts on an exec line, which differs from the pid
the tree reads when the line has a `hostProcessId` and no `processId`. Next takes any event
whatever: the module says what the fold guarantees for every input. Of the node's fields the
executed image stands for those an exec overwrites together. An event whose payload is not JSON
ends `build` with an error and no tree; such a row cannot have been stored by the collector and
is left out.

**TracedHost** restricts those inputs to what a kernel can report. Its own actions `HostFork`,
`HostExec`, `HostExit` are external; they keep the truth (`procs`, `everParent`, `retired`) and
put one event each into `log`, the events of the running second. `Fold` gives one of them to the
tree: the oldest, or any of them when `Ordered` is FALSE, because the database orders by a column
of whole seconds only. `Tick` needs an empty log: events of a later second sort later. With
`Reuse`, the pid of a dead process may be given out again.

**LineageWalk** starts from every tree with the shape `WellLinked` (which `ProcTree` is proved to
establish: `LinksHaveEdges`), cyclic ones and dangling links included, instead of only those a
short history of events produces. Its Init, Next and state have names of their own (`WalkInit`,
`NodeKeys`), so that one module can reason about the tree and the walks. Keys are numbers in the
order in which `sorted_child_keys` sorts.

**EdrIngest.** A request is a record of its payloads, its kind, the raw ids read so far, and where
it is: `TakeRawId`, `InsertRaw`, `InsertNormalized`, `InsertEvent`, `InsertAlert` are the steps of
`ingest_edr_webhook_kind` between which other requests run. An insert that is skipped for the kind
of the webhook is still a step, one that changes no table. `InsertFails` may replace any step and
answers at once, `Crash` loses every request under way and keeps the tables. `import_edr_payloads`
is the same loop over several payloads. Rows are sets of records; `Put` is `INSERT OR REPLACE`.
The refinement mapping at the end of the module counts, for each payload, the rows it already has.

**IncidentEvidence.** The reader of `collect_edr_evidence` is one process, `Store` the requests of
other clients. `ReadEvents` and `ReadAlerts` are two queries per pid, `Begin` fixes the pid scope,
`Match` makes the items: first every event in the window with the first alert read that fits it
(`EventItems`), then the alerts no event stands for (`AlertItems`). A delivery stands for both rows
made of it; one unit of time is the 300 seconds of the code, so that "near" is a distance of at
most one, and the window is two units around the lives of the lineage. The tree never fills in
`process_guid`, hence rows are read by pid only. Items come out as a set: the order by time is
for display.

**Incident.** Incidents are not kept, so the state is what they are made from: the tree (`procs`)
and the events (`acts`). The actions are the host's: each stands for an event of the trace and what
the tree's handler does with it, in the order and with the pids that `ProcTree` and `TracedHost`
study in full. A node keeps its child edge (`mother`, added by `handle_fork` and never removed)
and its parent link (`parent`, rewritten by every exec line): an orphan's exec names a parent
outside the trace, and the two disagree from then on. `Descendants` follows the edges, depth first
to the cap. `Before` is the order of that walk: the code puts the children of the root on its stack
unreversed and those of the others reversed, so that of two children of the root the younger is
visited first, and of two of anybody else the elder (`Sooner`). At the cap it is therefore a young
child of the root that takes the place of one shown so far. `Ancestry` follows the links. `Related` is what is left of the three event queries and
of the EDR query after pid scope and window. What the rules read is a set: `Traits` of a command
line and path, `Signals` of an event. `CommandHits`, `IocHits`, `AttackTags`, `Tactics`,
`Severity`, `Confidence` and `ProcessTrust` are the functions of those names; the weights are
functions over signals. Confidence is in hundredths where the code adds 32-bit floats: sums the
code's rounding could tell apart differ by five hundredths here. `Page` is the
handler `incidents`: processes that ran exec, filter, stable sort, truncation. `HostTrust` is a
constant (`Ring0Store` has its course), `downCap` is chosen at the start and never changes.

**IncidentLineage** runs the walks of `LineageWalk` and holds these closed forms against them.
`AnyShapeInit` takes the trees of any shape, on the keys of `Small`; `FamilyInit` takes any forest
in which mothers are older and parent links name them or nobody, which is what `MothersComeFirst`
says of the states of `Incident`, and keeps the mothers beside it. `Capped` is `Incident` on that
forest, with the caps of the walk.

**ForensicExport.** `Begin` reads the store and begins the package; each file is two steps, because
`File::create` and `fs::write` truncate first (`Create`) and write afterwards (`Fill`); a text over
that of another export replaces it wholly or leaves its end. `Stop` is an error or the end of the
process at any step. The content of a file is the set of store versions whose text it has. `alone`
is history: no other export has run since this one began. The other two formats write one of these
files under another name.

**Ring0Store.** A checker has a list of detectors (`Plan`), takes each one's view of the host at
its own moment (`Detect`), and commits the batch (`Commit`); a tool that cannot be run drops the
batch (`CheckFails`). `PutFinding` is the DELETE and INSERT of `insert_ring0_findings`. An id is
the detector alone for findings with a fixed id, and else detector, token and index. Which lines
agree in their first 48 characters (`token`) is chosen at the start and never changes.
`AssessHostTrust` is `assess_host_trust`.

**GhostPort.** One action per observable step of each command, because each looks at the pid
file, the process table, the port, `ss` and `netstat` at different moments. A successful bind in
`port_is_listening` occupies the port until the next step of the command (`SetupLetsGo`,
`CheckLetsGo`). `steady` is history: one process has held the port, equally visible, since the
command began.

**TraceeIngest.** `RowOf` is the id and content `parse_ndjson_line` makes of a line; second, name
and pid are one `Stamp`, and an event without a time of its own is stamped with the wall clock.
`ReadLine` reads one line; the batch goes in at the end (`Insert`) or not at all.

## 3. What the runs check and show

States are distinct states; every passing run ends with no error and no state left. Deadlock
checking is off throughout because all of these may really stop: a finite history of events or
requests ends (`MaxTime`, `MaxLines`, `MaxClock`), a command returns, a walk is done.

| Run | Bounds | States | Shows |
|---|---|---|---|
| `ProcTree` | 3 pids (one of them 0), 2 seconds, no images | 266,002 | any order of events keeps map, index and children consistent (`IndexCoversNodes`, `LinksHaveEdges`), one pid per node, dangling links explained, and no event undoes what an earlier one fixed (`IdentityIsStable`) |
| `TracedHost` | 3 processes and the kernel, 2 seconds, 2 unfolded events in any order, 2 images | 363,416 | without pid reuse the tree tells the truth: no exit time on a running process, key = pid and start, exits recorded, parents are real, images are of the last second |
| `TracedHostRunningHasNoExit` | the same, in order, with pid reuse | violation | a reused pid shows its predecessor's exit time |
| `EdrIngest` | 2 requests, 1 or 2 payloads each of 2 (one with ids, one without) | 102,207 | evidence traces back, answered means stored, retries are absorbed, and all of it implements `EdrLedger` |
| `IncidentEvidence` | 6 deliveries (a repetition, an alert alone, a namesake outside the window, a child's), at most 2 rows read per pid | 237,712 | every event of the incident is shown, alerts are attached but for one exception, event and alert of a delivery stay together |
| `Incident` | 3 processes, times 0 to 2 (600 s), 1 event (a cron file or an alert), ancestry 2, descendants 1 or 2, page of 1 | 181,534 | incidents have all events of finished processes, ancestors show what descendants show, what was shown is lost again in two ways only, hits have tags, tactics and a price in trust, and suspicion reaches the page |
| `IncidentLineage` | every well-linked tree of 3 keys and every family of 5 processes, caps 0 to 4 | 394,441 | ancestry is a chain and not cut short; descendants are one tree, complete below the cap; walks end; and the lineage that `Incident` states is the one the loops of the code return, also where the cap cuts it off |
| `ForensicExport` | 2 exports at a time, any number in all, 2 versions of the store | 2,141,024 | a manifest has every file it names; an undisturbed export leaves one bundle |
| `Ring0Store` | 2 checkers, 2 detectors, 2 lines with one token or two, 2 anomalies at a time, 1 failing check | 101,640 | one row per finding, a commit loses nothing it found, the level never improves, a lasting anomaly is stored and stays |
| `GhostPort` | 2 setups, 1 check, 2 pids, the port may be hidden | 612,028 | a verdict on a port held all along is right; a setup leaves a listener alone |
| `GhostPortFinding` | the same, nothing is hidden | violation | a finding where nothing is hidden |
| `TraceeIngest` | 2 captures of up to 3 lines, 3 events (2 with one stamp, 1 without a time), 2 ingests | 113,060 | every line read is stored, once, and no ingest takes away the row of an event in its file |

Why the bounds are enough:

- *ProcTree.* A handler touches a pid, its parent and the node found for each; three pids give a
  child, a parent and a bystander (or a chain of three, or a cycle), two seconds tell "same second"
  from "later". The proofs of section 4 cover all larger instances, and the lines without processId
  that this run leaves out (`HostPids`).
- *TracedHost.* The reaper, a parent and a child are the least that allow adoption; two events out
  of order are a fork behind its exec, an exec behind its exit, or two execs. Images only compare
  equal or different, so exchanging them is a sound symmetry.
- *EdrIngest.* Two requests may carry the same payload (a retry, also a concurrent one) or
  different ones; an import of two payloads is the least that can stop half way. `MaxClock` is the
  number of readings two requests of two payloads make, so that no request waits for the bound.
  Each reading is a nanosecond of its own; what a shared one would do is in section 5.
- *IncidentEvidence.* One process and one child give two rounds of queries; three rows of pid 1
  exceed the limit of two. Times lie inside, at the edge of and just beyond the window.
- *Ring0Store.* L3 takes three rows, which the two lines of one detector and the finding of another
  give; two lines are the least that can share a token. `MaxShown = 2` keeps the host from showing
  three anomalies at once, so that L3 is only reached by rows of different times.
- *Incident.* Three processes are a grandparent, a parent that dies and an orphan, or a parent and
  two children at a cap of one. A page of one makes the other suspicious process the one that is
  left out, and a cap of two on the ancestry cuts a chain of three. Two steps of time reach one
  unit beyond the window of an event (one unit of slack) and just the edge of an alert's (two). One
  event suffices, since every property but that of the page is about each event on its own, and on
  the page two processes compete with one event and an image. With two children at a cap of one the
  younger crowds the elder out, so that both exceptions of `ShownStaysShown` occur, and the page has
  incidents that the cap cuts off. Of `Signals`, the run
  has a file that hits two rules and an alert that hits none, of `Traits` netcat by its full name
  and a download into a shell.
- *IncidentLineage.* Three keys allow a cycle beside a branch, a node recorded under two parents
  (on the stack twice) and a dangling link. Five processes are a root with two children and one of
  them with two of its own, the least where the order of the root's children and that of the others
  both decide whom the cap keeps. The caps go from zero to the four that are left beside the root.
- *ForensicExport.* Two exports give every overlap of two; a third adds nothing, which the proof
  shows. Two versions tell the files of one bundle from those of another.
- *GhostPort.* Two setups race for one file and one port; two pids allow one to be reused while the
  other listens.
- *TraceeIngest.* Two events with one stamp on different lines are what the line number in the id
  is for; the second capture brings the same line numbers again.

**Fairness.** `IncidentLineage` and `Ring0Store` state liveness. A walk is a loop of sequential
code: `WF(Turn)`. The scheduler of `app.rs` loops forever, also after errors:
`WF(Proceed(Scheduler))`, and nothing for checks by hand or the host. `MaxFailures` bounds the
failing checks: if every check failed, nothing would ever be stored, and the code does not promise
otherwise. The safety runs of
`ProcTree`, `TracedHost`, `EdrIngest`, `IncidentEvidence`, `Incident`, `ForensicExport`,
`GhostPort` and `TraceeIngest` need no fairness and state none.

**Reading some properties.**

- `ExitIsRecorded` has an exception: an exit that sorts before the first other event of its
  process in the same second finds no node and is dropped, for good. `ImageIsCurrent` speaks of the
  images of the last second with an exec, because two execs of one second may be folded either
  way. Both are the strongest forms that hold when a second is not ordered.
- `AnsweredMeansStored` looks for a row with the payload's external id, not for the very payload:
  a later delivery of the same id replaces the row, which is what the code intends.
- `EvidenceIsKept` covers the file being ingested. A later capture starts again at line 1 of the
  file, and an event of the same second, name, pid and line would replace the earlier row.
- `TrustNeverImproves` speaks of lines that differ in their first 48 characters: with equal tokens
  a row may be replaced by another line of the same id. The other properties of that run hold for
  equal tokens as well.
- The properties of `IncidentEvidence` are about rows stored before the reader began, of pids with
  no more rows than are read. `AlertsAreAttachedUnless` says in its exception the one way
  in which the code loses an alert (section 5). `DeliveriesStayTogether` excepts deliveries with
  another alert of the same process near by: the first alert read that fits is taken.
- `EventsOfFinishedProcessesAreShown` is about finished processes because a running one has no exit
  that would keep the window open (section 5), and about those within the cap on descendants.
- `ShownStaysShown` has two exceptions that the code has: a process in the ancestry whose parent
  link is rewritten takes the times above it out of the window, and at the cap a process just forked
  takes the place of another descendant. Of the latter it says how far it goes: the events lost are
  those of the one crowded out, the incident has as many descendants as the cap allows, and one of
  them has come with this step. Windows are no exception, although the one crowded out may have
  been what held the window open: the newcomer starts now. `AncestorsShowItToo` speaks of a process
  within the cap, and needs neither exception: whatever happened to the links and the windows, an
  ancestor along the child edges shows at least as much.
- `HitsAreTaggedAndCostTrust` excepts netcat by its full name, for which `ioc.rs` has a rule and
  `trust.rs` has none.
- `SuspicionReachesThePage` allows only a full page of incidents at least as severe as an excuse.
- `ManifestNamesFiles` does not say that the files are of one bundle. They need not be: after an
  export that stopped, an older manifest stands beside newer files, and two exports at once mix
  theirs. `LoneExportIsWhole` says when they are.
- `TypeOK` is checked by the run `ProcTree` and proved for every module that has proofs
  (`HostTypeOK` in `TracedHost`, `WalkTypeOK` in `LineageWalk`).
- `DanglingOnlyIfSeenLater` and `OnePidPerNode` need a processId on every exec line
  (`HostPids = {}`).

## 4. What is proved

A run of TLC covers the instance of its cfg. The theorems cover every value of the constants that
meets the modules' `ASSUME`s: any number of pids, requests, checkers, setups, ingests and exports,
any tree, any bound. The assumptions say what the code gives for granted and no more: pids, times
and caps are naturals, finite sets are finite, a tuple of detectors lists each once (`Plan`), and
`None` is not one of the records or times it stands beside (`NoneAssumption`,
`NoProcessAssumption`).

| Theorems of | State for every instance |
|---|---|
| `ProcTreeProofs`, of the tree | `TypeCorrect`, `IndexAlwaysCovers`, `LinksAlwaysHaveEdges`, `LifetimesAlwaysOrdered`, the action property `IdentityAlwaysStable`; with `HostPids = {}` also `OnePidAlways` and `DanglingAlwaysExplained` |
| `ProcTreeProofs`, of its host | `HostTypeCorrect`; `HostFeedsTree`: the host with its log implements `ProcTree`; with `Reuse = FALSE` also `RunningNeverHasExit`, `KeyAlwaysPidAndStart`, `ExitAlwaysRecorded`, `ParentAlwaysWasAParent`, `ImageAlwaysCurrent` |
| `ProcTreeProofs`, of the walks | `WalkTypeCorrect`, `AncestryAlwaysAChain`, `AncestryAlwaysMaximal`, `DescendantsAlwaysConnected`, `DescendantsAlwaysComplete` |
| `EdrIngestProofs` | `TypeCorrect`, `EvidenceAlwaysTracesBack`, `AnsweredAlwaysMeansStored`, `RetriesAlwaysAbsorbed`; `HandlersImplementLedger`: the refinement of `EdrLedger` |
| `IncidentEvidenceProofs` | `TypeCorrect`, `EveryEventAlwaysShown`, `AlertsAlwaysAttachedUnless`, `DeliveriesAlwaysTogether` |
| `IncidentProofs` | `TypeCorrect`, `FinishedAlwaysShown`, `AncestorsAlwaysShowIt`, the action property `ShownAlwaysStays`, `HitsAlwaysTaggedAndCost`, `SuspicionAlwaysReachesThePage` |
| `Ring0StoreProofs` | `TypeCorrect`, `OneRowAlways`, the action properties `BatchAlwaysVisible` and `HostTrustNeverImproves` |
| `GhostPortProofs` | `TypeCorrect`, `SteadyAnswerAlwaysRight`, `SetupAlwaysLeavesListenerAlone` |
| `TraceeIngestProofs` | `TypeCorrect`, `AlwaysStoredOnce`, the action properties `IngestedAlwaysStored` and `EvidenceAlwaysKept` |
| `ForensicExportProofs` | `ManifestAlwaysNamesFiles`, `LoneExportIsAlwaysWhole` |

Each module first proves an inductive invariant (`InvariantHolds`, `HostInvariantHolds`,
`TruthHolds`, `WalkInvariantHolds`, `ExportInvariantHolds`) with one lemma per action, and takes
the theorems from it. TLC has checked every one of these invariants on the instance of the module's
run.

**The tree for any events** (`ProcTreeProofs`). `IInv` is `TypeOK /\ IndexCoversNodes /\ Linked /\
LifetimesOrdered`. None of the last three is inductive alone: `HandleExit` puts an exit time on the
node that the index names, so lifetimes need the index to name stored nodes; `Record` puts an edge
under a parent key and keeps the old parent's edge, so that the link-edge agreement needs to know
that recorded children are stored, which again needs that `nodes` never loses one. `Linked` is
`LinksHaveEdges` with the quantifiers of `TreeShape` written out (`LinkedIsLinksHaveEdges`). What
an exec and a fork have in common is one lemma, `RecordPreserves`: recording any well-typed node,
under a key of the index or of the event, that starts no later than `now` and whose parent link is
either none or not itself, preserves `IInv` and undoes nothing (`Kept`, the action under
`IdentityIsStable`). The second stage, `PInv`, adds `OnePidPerNode` and `DanglingOnlyIfSeenLater`:
that a link made up for an unseen parent is either met by that parent's first event of the same
second or is older than it needs that keys, nodes and index name the same pid. That lines without
processId (`HostPids # {}`) keep the structure consistent as well is part of `InvariantHolds` and
shown by the proof alone: the run has no such lines, since its last two invariants need that.

**The tree of a host** (the second part of `ProcTreeProofs`). `HostFeedsTree` shows `HostSpec =>
Spec`: `Fold` is a step of `ProcTree` for the event it takes out of the log (`FoldIsTreeStep`),
every other action leaves the tree alone, with and without pid reuse. All that is proved of
`ProcTree` thereby holds of the tree of a host, and `HInv`, the invariant of this part, contains
`IInv`. The properties that compare tree and host speak of moments when the log is empty, and say
nothing of the events on their way; `Truth` does. It says of every process what the tree and its
waiting events say together: a process lives once (`LivesAreOnce`); a waiting event is of a process
that runs or has exited this second, and its exit is its last (`EventsAreRecent`); a running
process has an open node under its own pid and start, or an event that will make one
(`RunningIsOpen`); an exit that is not waiting is on the node, unless the order within the second
lost it (`ExitsAreFolded`); parents of processes, events and nodes are real (`ParentsAreReal`); the
node shows an image of the last second with an exec, unless such an exec is waiting
(`ImagesAreRecent`). `Reuse = FALSE` is needed: the violation run `TracedHostRunningHasNoExit`
shows what reuse does. `Ordered` may have either value.

**Walks** (the third part of `ProcTreeProofs`). `AncestryGoesUp` says that what has been shown is
the chain of parents above the root and where the walk goes on; `DescendantsAreMet` that the root
and the output are what was visited, that everything on the stack is a child of a visited node,
and, which makes the walk complete, that every child of a visited node is visited or on the stack.
Trees are those of `WellLinked`, cyclic ones included. That sorting children loses and repeats none
(`ChildrenSorted`) rests on two facts about ranks in a finite set (`RanksDiffer`, `RanksAreTaken`).

**Ingest API** (`EdrIngestProofs`). `EvidenceTracesBack` and `AnsweredMeansStored` meet in
`StagesAreDone`: of each payload a request has rows of all the stages behind it. Requests of others
do not take that away, since a row is only replaced by one of the same id, which has the same key
(`RowsAreKeyed`), and raw ids are never given twice (`RawIdsAreDistinct`, from a clock that is past
all of them). The refinement is shown action by action: a stage of the ledger is the prefix of
inserts that is there (`StageIsPrefix`), every step of a handler is a `Store`: no payload goes back
a stage, and none starts before those ahead of it are complete (`StageMoves`, `HandleStores`).
Receiving a request, failing and crashing map to the ledger's steps of their own.

**Evidence of an incident** (`IncidentEvidenceProofs`). Each of the three properties speaks of the
end of the reading, when the tables may have grown past the limit. `EventsAreRead` and
`AlertsAreRead` follow a row from the moment the reader begins: it is read, or its pid is still to
read; since tables only grow, a pid within the limit at the end was within it at its query
(`LimitOfLess`). What a query returns (`NewestRows`) and the order of the pids (`ScopeInOrder`) rest
on the same two facts about ranks as above, here for any order given as a set of pairs. The rest is
about `Match` alone: of items with one key the first is kept, so that one is (`ReadEventsAreItems`).
`LifetimeIsInWindow` needs that nobody in the lineage exits before it starts, which
`LineageAssumption` takes from `LifetimesAlwaysOrdered`.

**Ring0** (`Ring0StoreProofs`). A commit folds a batch into the table, of any length.
`InsertedStepwise` unfolds that recursive function by induction over the batch. The library's
induction theorems take an operator and cannot be used; instead `UpTo` gets induction over a set
of numbers from the least number outside it. `OrderlyCheck` is what makes a batch
survive its own insertion: none of its findings is the same, in id or in line, as another one, or
as one a detector still to run can make, because each detector runs once. `Orderly` is what the
table is left as. `TrustNeverImproves` needs different tokens: then a row is only replaced by its
like, so that what the grade counts can only grow (`NoBetter`, `GradeFollows`).

**Ghost port** (`GhostPortProofs`). Who has to let go of the port is its holder (`HolderHolds`);
with `steady`, a process holds it (`SteadyIsBound`) and the tools asked so far have listed it
exactly if they show it (`SteadyListing`). `DisturbancePreserves` covers once what any other
command or process does meanwhile.

**Collector** (`TraceeIngestProofs`). `BatchesAreRead`: what is read of a file are its first lines
in order, even while it grows. `RowsAreRead` and `LinesAreUnique`: the row of an event has its time
and its line, and no other line has that event. Hence two inserts of one event with a time of its
own give one id.

**Export** (`ForensicExportProofs`). That a manifest has its files needs `CreatedIsPresent`: each
export has created all files before the one it is at, in the order of `Files` (`FilesInOrder`), and
no step removes one, so that the manifest comes when the other seven are there. That a lone export
is whole needs `AloneMeansAlone`, since only another export could touch its files, and
`AloneWritesItsOwn`: what it filled is its bundle and what it has open is empty.

**Incidents** (`IncidentProofs`). Nothing of an incident is kept, so the inductive invariant is
about what it is made from: pids are seen in ascending order (`PidsAscend`, without which a fork
could give a seen child a mother that comes later), a mother comes before her children and the
parent link names her or nobody (`MothersComeFirst`), lives are ordered, and every event is in the
life of its process (`ActsAreInLives`). Given that, the work is in the operators, most of them
recursive functions, with no induction theorem to cite:

- `Mothers` is compared with `Above`, what is in every set that has the process and all mothers of
  its members. The least pid at which the two differ cannot exist, as its mother is smaller
  (`LeastNatural`, `MothersAreAbove`). Offspring is transitive (`OffspringTransitive`).
- `Ancestry` is the set of values of a chain `f`; that there is one is shown by growing it step by
  step (`AncestryIsAChain` by `UpTo`). `AncestriesMeet` is the heart of `AncestorsAlwaysShowIt`:
  whoever is in the ancestry of an offspring is in that of the process or its offspring itself,
  so that the lineage of the one covers that of the other, and so does its window.
- `Before` is a strict total order of the offspring of a process (`BeforeTransitive`,
  `BeforeIrreflexive`, `BeforeTotal`). Its transitivity is where the two directions of the walk could
  clash: what is above one of two sisters is above both (`AboveSister`), so that of two ways down
  the one that parts first decides, and sisters are in order either way round (`SistersInOrder`).
  Descendants are then the first of an order (`DescendantsAreFirst`), and one element that comes to
  an order and crowds another out is among the first itself, which are as many as they can be
  (`OneCrowdsOut`).
- `ShownAlwaysStays` compares these operators before and after a step. `Unfolded` says of a state
  what was shown of them, as facts the step's lemmas can prime. Those above a process seen stay
  (`MothersStay`), hence offspring only grows, by one process at most (`OffspringGrows`,
  `OneNewcomer`), its order stays (`OrderStays`), and who is a descendant no more was crowded out
  (`CrowdedOut`). The ancestry stays with the links of its members (`AncestryStays`).
- The scores add up weights over a set. `SumUnfolds` gives the community module's fold its
  recursion, by induction over the size of subsets, and `SumBounds` that a sum is no less than any
  of its terms, whence what a rule hits costs trust (`HitCostsTrust`).
- `Outranks` is a strict total order of incidents (`OutranksOrders`), so that an incident left out
  of a page has as many ahead of it as the page is long (`FirstOfOrder`, `ListedOrBehind`); that a
  suspicious event makes its incident worth listing is `SuspicionIsWorthListing`.

*Only model-checked:* liveness (`WalkEnds`, `PersistentAnomalyIsStored`), which is out of the proof
system's reach, because fairness speaks of ENABLED; and `LineageIsIncidents`: that a walk with a
stack returns the first of an order needs an invariant of the stack that has not been attempted.
Every other invariant and action property of a passing run is a theorem. The two violation runs
show counterexamples, not theorems.

## 5. Where code and documents disagree

The two violation runs show each of these; `PROJECT.json` ("findings") quotes the sources.

- **A running process with an exit time.** `handle_exit` leaves the pid in `pid_index`, and the
  next process with that pid is merged into the old node: it keeps the old key, start and exit
  time. The guide says that `exit_time` is empty while the process runs.
- **"ghost port listener is active but hidden".** The check takes a live pid or a failing bind for
  a listener, and asks the tools later: a listener that has not bound yet, a reused pid, a port let
  go in between, or the probe of another command is reported as hidden.

Seen while modelling and without a run of its own:

- *An alert of the incident that is not shown.* An alert is left out if some event read has its
  name, pid and time, since that event is taken to show it. But events outside the window are read
  as well and left out themselves: an alert at the end of the window whose event comes a little
  later disappears with it (`engine/incident.rs`, line 461). The roadmap asks to attach EDR alerts
  to the incident. `AlertsAreAttachedUnless` is false without its second disjunct.
- *A running process and its own incident.* The window ends 300 seconds after the last start or
  exit known of the lineage, so that what a process does later is not in its incident before it
  has exited (`engine/incident.rs`, line 537). The guide has the events of all pids of the tree
  collected (`docs/BEGINNER_GUIDE.md`, line 280). The page of a single process (`/proc/{pid}`) has
  no window. `EventsOfFinishedProcessesAreShown` is false without `Finished`.
- *"multiple concurrent ring0 findings".* The level counts all rows ever stored
  (`engine/trust.rs`, line 136).
- *Ring0 and risk.* The roadmap has ring0 anomalies influence the risk of an incident (`Goal.md`,
  line 356); the code lets them raise the confidence, and only of an incident with EDR evidence.
- *Whose command line.* An incident looks at the command line of its own process alone: what a
  child was started with is in the child's incident. An exec overwrites the command line, and the
  hits of the one before are gone.
- *Replay.* The last part of an incident id is taken for the pid; in ids the program makes it is the
  start time (`app.rs`, line 468).
- *Persistence paths.* The guide names `~/.bashrc` (line 285), which no rule has.

Further: a raw id is the adapter and a nanosecond, stored
with `INSERT OR REPLACE`, so that two requests that read the same nanosecond leave one row, and the
events of the other lead back to a text that is not theirs (`api/edr_ingest.rs`, line 100); a
payload without ids of its own that is sent twice is one item of an incident for its event and
another for the second alert; with pid reuse the key is not pid and start
time either (same cause as the first); a hidden process, a tainted kernel or an eBPF anomaly makes
a host L2 and a mismatch of counts L1, where the guide says L3 and L2
(`docs/BEGINNER_GUIDE.md`, lines 379 and 380; `engine/trust.rs`, line 132); one torn line drops a
whole capture (`collector/tracee.rs`, line 55).

## 6. What is left out

- Contents: JSON fields, texts, scores and command lines, except where an id or a guard is made of
  them. A payload, a line, an event is a model value.
- Time other than its order: 200 milliseconds of a settling listener, the scheduler's interval.
- In `TraceeIngest`, a capture that truncates the file under an open reader (the script ingests
  after its capture). In `EdrIngest`, the 404 of an unknown adapter, which changes no state. In
  `IncidentEvidence`, a row replaced by a later delivery of its id, and vendors other than one. In
  `Ring0Store`, `observed_at` of a finding. In `GhostPort`, other ports (each is checked alone).
- Mirror traps: two files each, written and looked for in sequence. Their findings are stored like
  those of any checker of `Ring0Store`.
- Of incidents, the summary lines, counts, `last_seen_at` and the graph, which are output only. In
  `Incident`, pid reuse and events of a second in another order (`TracedHost` has them), rows of the
  EDR beyond the limit and their matching (`IncidentEvidence` has them), and findings that change.
- Lookups by path and by target, `file_propagation`, entropy of names, payload parsing, pages of
  one item, authentication, frontend, scripts: pure functions or output without state. A property
  of one of them would restate the filter.

## 7. Plan

Written so far, in this order: `TreeShape`, `ProcTree`, `ProcTreeProofs`, `TracedHost`,
`LineageWalk`, `EdrLedger`, `EdrIngest`, `Ring0Store`, `GhostPort`, `TraceeIngest`,
`IncidentEvidence`, `Incident`, `ForensicExport`, `ForensicExportProofs`, `GhostPortProofs`,
`TraceeIngestProofs`, `EdrIngestProofs`, `Ring0StoreProofs`, the parts of `ProcTreeProofs` about
the walks and the host, `IncidentEvidenceProofs`, `IncidentProofs`, `IncidentLineage`. The process
tree came first because every answer of the program is read off it.

What could be modelled further:

1. `EdrIngest` and `IncidentEvidence` composed: rows replaced between two queries.
2. `Incident` with four processes, for a newcomer that crowds out a grandchild, on a larger machine.

What could be proved further: that the loop of `descendants_by_pid` returns the first of `Before`,
which `IncidentLineage` checks; and that `Incident`'s host and its records implement `TracedHost` with
events in order and no pid reuse. So far the two are related only by the handlers both translate.
