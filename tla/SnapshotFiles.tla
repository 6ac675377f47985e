--------------------------- MODULE SnapshotFiles ---------------------------
(***************************************************************************)
(* From a snapshot directory to the files that are published: ReadDirectory*)
(* walks the directory within its limits (internal/publicdata/reader.go),  *)
(* and prepareSnapshot checks what it is given once more before anything   *)
(* is sent (internal/githubpublish/publisher.go).  Both have limits of     *)
(* their own, with the same values.                                        *)
(*                                                                         *)
(* A path is a number, in the lexical order of the walk; the last one is   *)
(* registry.json, and the paths before it are those of nodes, except the   *)
(* ones in Unexpected.                                                     *)
(***************************************************************************)
EXTENDS Integers, Sequences, FiniteSets, FiniteSetsExt

CONSTANTS
    MaxPath,       \* number of paths
    Unexpected,    \* paths no snapshot has
    MaxSize,       \* bound: bytes of a file
    MaxFiles,      \* maxSnapshotFiles and maxPublicationFiles
    MaxFileBytes,  \* maxSnapshotFileBytes and maxPublicationFileBytes
    MaxTotalBytes  \* maxSnapshotTotalBytes and maxPublicationTotalBytes

VARIABLES
    entries,  \* what the directory holds
    path,     \* where the walk is
    files,    \* the files read, or prepared, so far
    total,    \* their bytes
    stage

vars == <<entries, path, files, total, stage>>

Paths == 1..MaxPath

Registry == MaxPath

Absent == [type |-> "absent", size |-> 0]

Entry ==
    {Absent} \cup [type : {"file"}, size : 0..MaxSize]
             \cup [type : {"directory", "symlink"}, size : {0}]

TypeOK ==
    /\ entries \in [Paths -> Entry]
    /\ path \in 0..MaxPath
    /\ files \in Seq([path : Paths, size : 0..MaxSize])
    /\ total \in 0..MaxTotalBytes
    /\ stage \in {"read", "prepare", "refused", "rejected", "accepted"}

(* Directories nodes and nodes/xx are visited and passed over, and left    *)
(* out here.                                                               *)
Init ==
    /\ entries \in [Paths -> Entry]
    /\ path = 0
    /\ files = <<>>
    /\ total = 0
    /\ stage = "read"

Smaller(a, b) == IF a < b THEN a ELSE b

(* Mutant: nothing more is read once the bytes are used up.                *)
ReadLimitStrict(remaining) == Smaller(MaxFileBytes, remaining) - 1

ReadLimit(remaining) == Smaller(MaxFileBytes, remaining)

(* validSnapshotPath, and validPublicationPath, which is the same.         *)
ValidPath(p) == p \notin Unexpected

(* The callback of WalkDir on one entry.  A file is read one byte beyond   *)
(* its limit to see that it is too large (readSnapshotFile).               *)
Visit ==
    LET p == path + 1
        e == entries[p]
        ok == /\ e.type = "file"
              /\ ValidPath(p)
              /\ Len(files) < MaxFiles
              /\ Smaller(e.size, ReadLimit(MaxTotalBytes - total) + 1)
                     <= ReadLimit(MaxTotalBytes - total)
    IN
    /\ stage = "read" /\ path < MaxPath
    /\ path' = p
    /\ IF e = Absent
       THEN UNCHANGED <<files, total, stage>>
       ELSE IF ok
       THEN /\ files' = Append(files, [path |-> p, size |-> e.size])
            /\ total' = total + e.size
            /\ UNCHANGED stage
       ELSE stage' = "refused" /\ UNCHANGED <<files, total>>
    /\ UNCHANGED entries

HasRegistry == \E i \in DOMAIN files : files[i].path = Registry

ReadDirectory ==
    /\ stage = "read" /\ path = MaxPath
    /\ stage' = IF HasRegistry THEN "prepare" ELSE "refused"
    /\ path' = 0 /\ total' = 0
    /\ UNCHANGED <<entries, files>>

CountAllowed(n) == n > 0 /\ n <= MaxFiles

(* prepareSnapshot: the files are in the order of their paths already; the *)
(* sums of the loop are the sums of the prefixes.                          *)
Prefix(n) == MapThenSumSet(LAMBDA i : files[i].size, 1..n)

PrepareSnapshot ==
    /\ stage = "prepare"
    /\ stage' = IF /\ CountAllowed(Len(files))
                   /\ HasRegistry
                   /\ \A i \in DOMAIN files :
                          /\ ValidPath(files[i].path)
                          /\ i > 1 => files[i].path # files[i - 1].path
                          /\ files[i].size <= MaxFileBytes
                          /\ Prefix(i) <= MaxTotalBytes
                THEN "accepted" ELSE "rejected"
    /\ UNCHANGED <<entries, path, files, total>>

Next == Visit \/ ReadDirectory \/ PrepareSnapshot

Spec == Init /\ [][Next]_vars

-----------------------------------------------------------------------------
Present == {p \in Paths : entries[p] # Absent}

(* What the limits say of a directory as a whole, whatever the order.      *)
WithinLimits ==
    /\ \A p \in Present :
           /\ entries[p].type = "file" /\ ValidPath(p)
           /\ entries[p].size <= MaxFileBytes
    /\ Cardinality(Present) <= MaxFiles
    /\ MapThenSumSet(LAMBDA p : entries[p].size, Present) <= MaxTotalBytes
    /\ Registry \in Present

(* The walk with its running count and its shrinking limit refuses exactly *)
(* the directories that are outside the limits, a last empty file when the *)
(* bytes are used up and a file of exactly the limit included, and what it *)
(* returns is the whole directory.                                         *)
ReadsExactly ==
    /\ stage = "refused" => ~WithinLimits
    /\ stage \in {"prepare", "accepted", "rejected"} =>
           /\ WithinLimits
           /\ {f.path : f \in {files[i] : i \in DOMAIN files}} = Present

(* What can be read can be published: prepareSnapshot never rejects what   *)
(* ReadDirectory returned.  Otherwise registry-publish would try the same  *)
(* snapshot for ever.                                                      *)
ReadIsPublishable == stage # "rejected"

=============================================================================
