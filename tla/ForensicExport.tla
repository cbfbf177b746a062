--------------------------- MODULE ForensicExport ---------------------------
(***************************************************************************)
(* trace-lens export --format package: app.rs aggregates the incident of a *)
(* pid from what is stored at that moment and writes eight files of it,    *)
(* one after the other, into a directory named after the pid.  The         *)
(* database goes on growing; an earlier package of the pid is written      *)
(* over; an export may stop between any two steps (killed, disk full), and *)
(* nothing keeps two of them apart.                                        *)
(*                                                                         *)
(* What an export read is a number, the version of the store.  The content *)
(* of a file is the set of the versions whose text is in it: none while it *)
(* has been truncated and not filled (or not to the end), two when one     *)
(* export's text ends in the rest of a longer one of another.              *)
(***************************************************************************)
EXTENDS Naturals, Sequences

CONSTANTS
  Exporters,   \* processes that export the package of the pid
  MaxVersion,  \* bound: the last version of the store
  None

\* Broken form: the manifest comes first.
FilesManifestFirst ==
  <<"manifest", "report", "timeline", "incident", "ioc-hits", "attack-tags", "ring0-findings",
    "edr-evidence">>

\* In the order in which they are written.
Files ==
  <<"report", "timeline", "incident", "ioc-hits", "attack-tags", "ring0-findings", "edr-evidence",
    "manifest">>

FileNames == {"report", "timeline", "incident", "ioc-hits", "attack-tags", "ring0-findings",
              "edr-evidence", "manifest"}

VARIABLES
  version,  \* version of the store
  present,  \* files there are
  content,  \* versions in each file
  export    \* export[e]: what e is writing, or None

vars == <<version, present, content, export>>

Versions == 0 .. MaxVersion
Export == [bundle : Versions,        \* what it read
           next : 1 .. 9,            \* the file it writes next
           open : BOOLEAN,           \* that file is truncated and not filled yet
           alone : BOOLEAN]          \* no other export has run since it began

ASSUME ExportAssumption == MaxVersion \in Nat /\ None \notin Export

TypeOK ==
  /\ version \in Versions
  /\ present \subseteq FileNames
  /\ content \in [FileNames -> SUBSET Versions]
  /\ export \in [Exporters -> Export \cup {None}]

Init ==
  /\ version = 0
  /\ present = {}
  /\ content = [f \in FileNames |-> {}]
  /\ export = [e \in Exporters |-> None]

-----------------------------------------------------------------------------

StoreGrows ==
  /\ version < MaxVersion /\ version' = version + 1
  /\ UNCHANGED <<present, content, export>>

\* The database is read once; all files are of that bundle.
Begin(e) ==
  /\ export[e] = None
  /\ export' = [x \in Exporters |->
       IF x = e THEN [bundle |-> version, next |-> 1, open |-> FALSE,
                      alone |-> \A y \in Exporters : export[y] = None]
       ELSE IF export[x] = None THEN None
       ELSE [export[x] EXCEPT !.alone = FALSE]]
  /\ UNCHANGED <<version, present, content>>

\* Broken form: an old file is not truncated.
CreateOver(e) ==
  /\ export[e] # None /\ export[e].next <= 8 /\ ~export[e].open
  /\ present' = present \cup {Files[export[e].next]}
  /\ export' = [export EXCEPT ![e].open = TRUE]
  /\ UNCHANGED <<version, content>>

Create(e) ==
  /\ export[e] # None /\ export[e].next <= 8 /\ ~export[e].open
  /\ present' = present \cup {Files[export[e].next]}
  /\ content' = [content EXCEPT ![Files[export[e].next]] = {}]
  /\ export' = [export EXCEPT ![e].open = TRUE]
  /\ UNCHANGED version

\* The text goes over what another export may have written since, all of it or
\* the first part.
Fill(e) ==
  /\ export[e] # None /\ export[e].open
  /\ LET f == Files[export[e].next]
         mine == {export[e].bundle}
     IN  \/ content' = [content EXCEPT ![f] = mine]
         \/ content' = [content EXCEPT ![f] = @ \cup mine]
  /\ export' = [export EXCEPT ![e].open = FALSE, ![e].next = @ + 1]
  /\ UNCHANGED <<version, present>>

Finish(e) ==
  /\ export[e] # None /\ export[e].next = 9
  /\ export' = [export EXCEPT ![e] = None]
  /\ UNCHANGED <<version, present, content>>

\* An error or the end of the process: what is written stays.
Stop(e) ==
  /\ export[e] # None /\ export[e].next <= 8
  /\ export' = [export EXCEPT ![e] = None]
  /\ UNCHANGED <<version, present, content>>

Next ==
  \/ StoreGrows
  \/ \E e \in Exporters : Begin(e) \/ Create(e) \/ Fill(e) \/ Finish(e) \/ Stop(e)

Spec == Init /\ [][Next]_vars

-----------------------------------------------------------------------------
(* Properties.                                                             *)

\* Whoever finds a manifest finds every file it names, wherever an export or
\* several stopped.  (Not all of one bundle, see README.)
ManifestNamesFiles == "manifest" \in present => present = FileNames

\* An export that has written all its files with no other one beside it leaves
\* a package of one bundle, its own, whatever broken or older package it found.
LoneExportIsWhole ==
  \A e \in Exporters : (export[e] # None /\ export[e].next = 9 /\ export[e].alone) =>
    present = FileNames /\ \A f \in FileNames : content[f] = {export[e].bundle}
=============================================================================
