------------------------------- MODULE Backup -------------------------------
(***************************************************************************)
(* The daily backup (backup/backup.sh), taken by a timer of its own while  *)
(* the server of ServerBoot comes up, publishes and is killed: tar walks   *)
(* the catalog entry by entry, in the order of the directory, and nothing  *)
(* keeps a publish out of the walk.  When tar notices that something       *)
(* changed under it, its exit code says so and the script archives the     *)
(* whole data directory once more over the first archive, whatever happens *)
(* under that walk.  The pairing database is left out.                     *)
(***************************************************************************)
EXTENDS ServerBoot, Sequences

VARIABLES
    walk,       \* the walk of tar that runs, or how the script ended
    visited,    \* the entries it is through with, in order
    archived,   \* what the archive holds of them
    begun,      \* history: the version that could be read at the first visit, if any
    moved       \* history: the pointer file was replaced since

backup == <<walk, visited, archived, begun, moved>>

Walking == walk \in {"first", "second"}
Unwritten == [pointer |-> NoFile, snapshots |-> {}]

InitBackup ==
    /\ Init
    /\ walk = "none" /\ visited = <<>> /\ archived = Unwritten
    /\ begun = NoFile /\ moved = FALSE

StartWalk(name) ==
    /\ walk' = name /\ visited' = <<>> /\ archived' = Unwritten
    /\ begun' = NoFile /\ moved' = FALSE
    /\ UNCHANGED vars

StartBackup == walk = "none" /\ StartWalk("first")

Visit(entry, holds) ==
    /\ Walking
    /\ \A k \in DOMAIN visited : visited[k] # entry
    /\ visited' = Append(visited, entry)
    /\ archived' = holds
    /\ IF visited = <<>>
          THEN begun' = (IF Readable THEN pointer ELSE NoFile) /\ moved' = FALSE
          ELSE UNCHANGED <<begun, moved>>
    /\ UNCHANGED <<vars, walk>>

VisitPointer   == Visit("catalog-current-v1.json", [archived EXCEPT !.pointer = pointer])
VisitSnapshots == Visit("catalog-snapshots-v1", [archived EXCEPT !.snapshots = snapshots])

WalkedAll == Walking /\ Len(visited) = Cardinality(SeedFiles)

\* What GNU tar is bound to notice: a rename changes the directory the file is in,
\* which tar looks at again when it is through with it.  A snapshot that is added
\* after the visit to its own directory passes unnoticed.
Noticed == moved

\* tar noticed nothing.
EndWalk ==
    /\ WalkedAll /\ ~Noticed
    /\ walk' = "written"
    /\ UNCHANGED <<vars, visited, archived, begun, moved>>

\* As Disturbed would be if the script went on after a tar that complained.
DisturbedIgnored ==
    /\ WalkedAll
    /\ walk' = "written"
    /\ UNCHANGED <<vars, visited, archived, begun, moved>>

\* tar noticed a change, of the catalog or of something this module leaves out: the
\* script walks once more, and after a second complaint ends with an error, the
\* archive left where it is.
Disturbed ==
    /\ WalkedAll
    /\ \/ walk = "first" /\ StartWalk("second")
       \/ /\ walk = "second" /\ walk' = "error"
          /\ UNCHANGED <<vars, visited, archived, begun, moved>>

Server ==
    /\ Next
    /\ moved' = (moved \/ (Walking /\ pointer' # pointer))
    /\ UNCHANGED <<walk, visited, archived, begun>>

BackupNext == Server \/ StartBackup \/ VisitPointer \/ VisitSnapshots \/ EndWalk \/ Disturbed

BackupSpec == InitBackup /\ [][BackupNext]_<<vars, backup>> /\ Fairness

-----------------------------------------------------------------------------

Archives == walk \in {"written", "error"} /\ begun # NoFile

\* "archives the whole of data/ daily" (README.md): every archive that is left in
\* backup/, of a catalog that could be read when tar came to it, holds the snapshot
\* its pointer names, so that the server comes up on it.
ArchiveRestorable == Archives => archived.pointer \in archived.snapshots

\* An archive the script reports as written can be restored, whatever was published
\* during the walk and whichever entry tar came to first: either the pointer stayed,
\* or tar complained (backup.sh).
WrittenRestorable == walk = "written" => ArchiveRestorable

\* Even the archive of a walk that was disturbed twice holds the snapshot of the
\* catalog that was current when tar came to it: publishes only add snapshots, so
\* that version can be dug out by hand (backup.sh, catalog-snapshot.js).
BegunArchived == Archives => begun \in archived.snapshots

=============================================================================
