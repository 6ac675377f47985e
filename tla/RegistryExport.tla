-------------------------- MODULE RegistryExport ---------------------------
(***************************************************************************)
(* The registry services: registry-export writes snapshots of the registry *)
(* below a shared directory and a pointer to the current one;              *)
(* registry-publish follows the pointer, reads the snapshot and publishes  *)
(* it (cmd/joshbot/registry_interval.go, internal/publicdata).             *)
(*                                                                         *)
(* The two are processes of their own: they meet only in the file system,  *)
(* and each may be killed at any step.  File-system calls are steps.  What *)
(* Publish does on the branch is PublicationTarget; here a publication is  *)
(* one step that takes effect or fails, or both.                           *)
(***************************************************************************)
EXTENDS Integers, FiniteSets

CONSTANTS
    Names,        \* snapshot names
    NodeFiles,    \* files below nodes/
    MaxVersion,   \* bound: versions of the registry in the database
    MaxExportFaults     \* bound: operations that fail and processes killed

ASSUME NamesAssumption ==
    /\ "none" \notin Names
    /\ NodeFiles \cap {"nodes", "registry"} = {}

ASSUME BoundsAssumption == MaxVersion \in Nat \ {0} /\ MaxExportFaults \in Nat

VARIABLES
    db,        \* version of the registry in the database
    dirs,      \* snapshot directories by name
    pointer,   \* content of registry-current
    exporter,  \* the export process
    publisher, \* the publication process
    branch,    \* what was published last
    exportFaults     \* failed operations and killed processes so far

exportVars == <<db, dirs, pointer, exporter, publisher, branch, exportFaults>>

(* What a snapshot directory holds; "nodes" is the directory of the nodes. *)
Entries == NodeFiles \cup {"nodes", "registry"}

NoDir == [exists |-> FALSE, version |-> 0, entries |-> {}]

NoExport == [stage |-> "down", name |-> "none", previous |-> "none",
             keep |-> {}, after |-> "none", version |-> 0, written |-> {}]

NoPublish == [stage |-> "down", name |-> "none", published |-> "none",
              listed |-> {}, got |-> {}, version |-> 0, overtaken |-> 0]

Dir == [exists : BOOLEAN, version : 0..MaxVersion, entries : SUBSET Entries]

ExportTypeOK ==
    /\ db \in 1..MaxVersion
    /\ dirs \in [Names -> Dir]
    /\ pointer \in Names \cup {"none"}
    /\ exporter \in
           [stage : {"down", "removing", "sleep", "write", "point"},
            name : Names \cup {"none"}, previous : Names \cup {"none"},
            keep : SUBSET Names, after : {"none", "start", "failed", "done"},
            version : 0..MaxVersion, written : SUBSET Entries]
    /\ publisher \in
           [stage : {"down", "sleep", "usable", "list", "nodes", "read", "push"},
            name : Names \cup {"none"}, published : Names \cup {"none"},
            listed : SUBSET Entries, got : SUBSET Entries,
            version : 0..MaxVersion, overtaken : 0..2]
    /\ branch \in [version : 0..MaxVersion, entries : SUBSET Entries]
    /\ exportFaults \in 0..MaxExportFaults

ExportInit ==
    /\ db = 1
    /\ dirs = [n \in Names |-> NoDir]
    /\ pointer = "none"
    /\ exporter = NoExport
    /\ publisher = NoPublish
    /\ branch = [version |-> 0, entries |-> {}]
    /\ exportFaults = 0

Fault == exportFaults < MaxExportFaults /\ exportFaults' = exportFaults + 1

NoFault == UNCHANGED exportFaults

(* Verification results change the registry.                               *)
Change ==
    /\ db < MaxVersion
    /\ db' = db + 1
    /\ UNCHANGED <<dirs, pointer, exporter, publisher, branch, exportFaults>>

-----------------------------------------------------------------------------
(* registry-export                                                         *)

KeptAtStart(current) == {current} \cap Names

Reading == publisher.stage \in {"usable", "list", "nodes", "read"}

(* History: how often, up to twice, a snapshot was overtaken while the     *)
(* publisher read it: by a move of the pointer, or by an exporter that     *)
(* started, and so cleaned up, after a move.                               *)
Overtaken(moved) ==
    publisher' = [publisher EXCEPT !.overtaken =
        IF Reading /\ moved /\ @ < 2 THEN @ + 1 ELSE @]

(* runRegistryExport: what was abandoned is removed first.                 *)
ExportStart ==
    /\ exporter.stage = "down"
    /\ exporter' = [NoExport EXCEPT !.stage = "removing", !.previous = pointer,
                                    !.keep = KeptAtStart(pointer),
                                    !.after = "start"]
    /\ Overtaken(pointer # publisher.name)
    /\ UNCHANGED <<db, dirs, pointer, branch, exportFaults>>

(* What os.RemoveAll may remove next of a directory.                       *)
Removable(d) ==
    {e \in d.entries : e = "nodes" => d.entries \cap NodeFiles = {}}

Doomed == {n \in Names : dirs[n].exists /\ n \notin exporter.keep}

(* One unlink or rmdir of removeOldAutomaticSnapshots, or of the removal   *)
(* of a failed snapshot, in whatever order the file system lists them.     *)
RemoveStep ==
    /\ exporter.stage = "removing"
    /\ \E n \in Doomed :
        \/ \E e \in Removable(dirs[n]) :
               dirs' = [dirs EXCEPT ![n].entries = @ \ {e}]
        \/ dirs[n].entries = {} /\ dirs' = [dirs EXCEPT ![n] = NoDir]
    /\ UNCHANGED <<db, pointer, exporter, publisher, branch, exportFaults>>

(* Everything is removed: the loop goes on.  After a success the exported  *)
(* snapshot becomes the previous one.                                      *)
RemoveDone ==
    /\ exporter.stage = "removing" /\ Doomed = {}
    /\ exporter' = [NoExport EXCEPT
           !.stage = "sleep",
           !.previous = IF exporter.after = "done" THEN exporter.name
                        ELSE exporter.previous]
    /\ UNCHANGED <<db, dirs, pointer, publisher, branch, exportFaults>>

(* A removal that fails ends the process.                                  *)
RemoveFails ==
    /\ exporter.stage = "removing" /\ Doomed # {}
    /\ Fault
    /\ exporter' = NoExport
    /\ UNCHANGED <<db, dirs, pointer, publisher, branch>>

Used == {n \in Names : dirs[n].exists}
            \cup {pointer, publisher.name, publisher.published}

(* A fresh random name.  Names are only compared, so any one that nothing  *)
(* refers to will do.                                                      *)
FreshName == CHOOSE n \in Names : n \notin Used

(* The interval is over: the registry is read and written below the name.  *)
ExportBegin ==
    /\ exporter.stage = "sleep" /\ Names \ Used # {}
    /\ exporter' = [exporter EXCEPT !.stage = "write", !.name = FreshName,
                                    !.version = db]
    /\ UNCHANGED <<db, dirs, pointer, publisher, branch, exportFaults>>

(* WriteDirectory writes one file to a staging directory; the first of the *)
(* nodes makes nodes/.  Nobody reads staging directories, those that a     *)
(* killed process leaves behind included.                                  *)
WriteFile(e) ==
    /\ exporter.stage = "write" /\ e \notin exporter.written
    /\ exporter' = [exporter EXCEPT !.written =
           @ \cup {e} \cup (IF e \in NodeFiles THEN {"nodes"} ELSE {})]
    /\ UNCHANGED <<db, dirs, pointer, publisher, branch, exportFaults>>

(* Mutant: the directory is renamed when its first files are written.      *)
WrittenPartly == exporter.written # {}

Written == exporter.written = Entries

RenameStaging ==
    /\ exporter.stage = "write" /\ Written
    /\ dirs' = [dirs EXCEPT ![exporter.name] =
           [exists |-> TRUE, version |-> exporter.version,
            entries |-> exporter.written]]
    /\ exporter' = [exporter EXCEPT !.stage = "point", !.version = 0,
                                    !.written = {}]
    /\ UNCHANGED <<db, pointer, publisher, branch, exportFaults>>

(* An error of the export or of the pointer: what is there of the snapshot *)
(* is removed, the staging directory by WriteDirectory itself.             *)
ExportFails ==
    /\ exporter.stage \in {"write", "point"}
    /\ Fault
    /\ exporter' = [exporter EXCEPT !.stage = "removing", !.after = "failed",
                                    !.keep = Names \ {exporter.name},
                                    !.version = 0, !.written = {}]
    /\ UNCHANGED <<db, dirs, pointer, publisher, branch>>

(* Mutant: only the new snapshot is kept.                                  *)
KeptAfterOnly(name, previous) == {name}

KeptAfter(name, previous) == {name, previous} \cap Names

(* writeRegistryPointer renames a temporary file.                          *)
WritePointer ==
    /\ exporter.stage = "point"
    /\ pointer' = exporter.name
    /\ exporter' = [exporter EXCEPT
           !.stage = "removing", !.after = "done",
           !.keep = KeptAfter(exporter.name, exporter.previous)]
    /\ Overtaken(TRUE)
    /\ UNCHANGED <<db, dirs, branch, exportFaults>>

KillExporter ==
    /\ exporter.stage # "down" /\ Fault
    /\ exporter' = NoExport
    /\ UNCHANGED <<db, dirs, pointer, publisher, branch>>

-----------------------------------------------------------------------------
(* registry-publish                                                        *)

PublishStart ==
    /\ publisher.stage = "down"
    /\ publisher' = [NoPublish EXCEPT !.stage = "sleep"]
    /\ UNCHANGED <<db, dirs, pointer, exporter, branch, exportFaults>>

Awake == [NoPublish EXCEPT !.stage = "sleep", !.published = publisher.published]

(* The pointer names a snapshot that was not published yet.                *)
ReadPointer ==
    /\ publisher.stage = "sleep"
    /\ pointer # "none" /\ pointer # publisher.published
    /\ publisher' = [Awake EXCEPT !.stage = "usable", !.name = pointer]
    /\ UNCHANGED <<db, dirs, pointer, exporter, branch, exportFaults>>

Snapshot == dirs[publisher.name]

GiveUp == publisher' = Awake

Go(stage) == publisher' = [publisher EXCEPT !.stage = stage]

(* usableAutomaticSnapshot, and openSnapshotDirectory.                     *)
CheckUsable ==
    /\ publisher.stage = "usable"
    /\ IF Snapshot.exists THEN Go("list") ELSE GiveUp
    /\ UNCHANGED <<db, dirs, pointer, exporter, branch, exportFaults>>

(* WalkDir lists the root, then nodes/, and reads what it listed in order, *)
(* registry.json last.  An entry that is gone ends the walk.               *)
ListRoot ==
    /\ publisher.stage = "list"
    /\ publisher' = [publisher EXCEPT
           !.stage = "nodes", !.version = Snapshot.version,
           !.listed = Snapshot.entries \cap {"nodes", "registry"}]
    /\ UNCHANGED <<db, dirs, pointer, exporter, branch, exportFaults>>

ListNodes ==
    /\ publisher.stage = "nodes"
    /\ IF "nodes" \in publisher.listed /\ "nodes" \notin Snapshot.entries
       THEN GiveUp
       ELSE publisher' = [publisher EXCEPT
                !.stage = "read",
                !.listed = (@ \cup (Snapshot.entries \cap NodeFiles)) \ {"nodes"}]
    /\ UNCHANGED <<db, dirs, pointer, exporter, branch, exportFaults>>

ReadEntry(e) ==
    /\ publisher.stage = "read"
    /\ e \in publisher.listed \ publisher.got
    /\ e = "registry" => publisher.listed \ publisher.got = {e}
    /\ IF e \in Snapshot.entries
       THEN publisher' = [publisher EXCEPT !.got = @ \cup {e}]
       ELSE GiveUp
    /\ UNCHANGED <<db, dirs, pointer, exporter, branch, exportFaults>>

ReadDone ==
    /\ publisher.stage = "read" /\ publisher.listed = publisher.got
    /\ IF "registry" \in publisher.got THEN Go("push") ELSE GiveUp
    /\ UNCHANGED <<db, dirs, pointer, exporter, branch, exportFaults>>

(* Publish: a failure may come after the branch was moved.                 *)
PushSnapshot(moved, ok) ==
    /\ publisher.stage = "push"
    /\ ok => moved
    /\ IF ok THEN NoFault ELSE Fault
    /\ branch' = IF moved THEN [version |-> publisher.version,
                                entries |-> publisher.got] ELSE branch
    /\ publisher' = [Awake EXCEPT !.published = IF ok THEN publisher.name ELSE @]
    /\ UNCHANGED <<db, dirs, pointer, exporter>>

KillPublisher ==
    /\ publisher.stage # "down" /\ Fault
    /\ publisher' = NoPublish
    /\ UNCHANGED <<db, dirs, pointer, exporter, branch>>

ExportStep ==
    \/ ExportStart \/ RemoveStep \/ RemoveDone \/ ExportBegin
    \/ \E e \in NodeFiles \cup {"registry"} : WriteFile(e)
    \/ RenameStaging \/ WritePointer

PublishStep ==
    \/ PublishStart \/ ReadPointer \/ CheckUsable \/ ListRoot \/ ListNodes
    \/ \E e \in NodeFiles \cup {"registry"} : ReadEntry(e)
    \/ ReadDone
    \/ PushSnapshot(TRUE, TRUE)

ExportNext ==
    \/ Change
    \/ ExportStep \/ RemoveFails \/ ExportFails \/ KillExporter
    \/ PublishStep \/ KillPublisher
    \/ \E moved \in BOOLEAN : PushSnapshot(moved, FALSE)

ExportSpec == ExportInit /\ [][ExportNext]_exportVars

(* A process that was killed is started again (deploy runs both services   *)
(* with a restart policy) and neither waits for ever; the registry may     *)
(* stop changing, and failures and kills need not happen.                  *)
ExportFairness == WF_exportVars(ExportStep) /\ WF_exportVars(PublishStep)

ExportFairSpec == ExportSpec /\ ExportFairness

-----------------------------------------------------------------------------
Files == NodeFiles \cup {"registry"}

(* Whatever fails and whenever a process is killed, the pointer names a    *)
(* snapshot that exists and is complete: a directory gets its name only    *)
(* when every file is in it, the pointer is moved after that, and no       *)
(* cleanup takes the snapshot the pointer names.                           *)
PointerValid ==
    pointer # "none" =>
        dirs[pointer].exists /\ dirs[pointer].entries = Entries

(* What goes to the branch is a whole snapshot, never a part of one that   *)
(* was being removed: registry-export keeps the previous snapshot for a    *)
(* reader that is still at it.  That covers one move of the pointer during *)
(* a read.  It does not cover two moves, nor one move and a restart of the *)
(* exporter, which keeps the current snapshot alone.  Reads take           *)
(* milliseconds and the interval minutes; nothing else excludes either.    *)
PublishedWhole ==
    publisher.stage = "push" /\ publisher.overtaken < 2 =>
        publisher.got = Files

(* What is kept in the file system and what is read from it, together.     *)
SnapshotsWhole == ExportTypeOK /\ PointerValid /\ PublishedWhole

(* The publication follows the registry: when it no longer changes, and    *)
(* reads are not overtaken twice for ever, its last version is published,  *)
(* whole, and stays so, whatever failed before.                            *)
EventuallyCurrent ==
    <>[](db = MaxVersion) /\ <>[](publisher.overtaken < 2) =>
        <>[](branch = [version |-> MaxVersion, entries |-> Files])

=============================================================================
