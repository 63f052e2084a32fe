----------------------------- MODULE BackupProofs -----------------------------
(***************************************************************************)
(* What restarts and backups keep of the catalog, for any number of        *)
(* versions, kills and interleavings of the walk with the server.          *)
(***************************************************************************)
EXTENDS Backup, FiniteSetTheorems, SequenceTheorems, TLAPS

PointerFile   == "catalog-current-v1.json"
SnapshotFiles == "catalog-snapshots-v1"

-----------------------------------------------------------------------------
(* The inductive invariant.                                                *)

BackupTypeOK ==
    /\ walk \in {"none", "first", "second", "written", "error"}
    /\ visited \in Seq(SeedFiles)
    /\ archived \in [pointer : {NoFile, Torn} \cup 1..MaxVersion, snapshots : SUBSET (1..MaxVersion)]
    /\ begun \in 0..MaxVersion
    /\ moved \in BOOLEAN

\* A copy that has not come to the pointer file finds it absent or torn.
CopyInv == proc = "copying" /\ PointerFile \notin copied => pointer \in {NoFile, Torn}

\* The walk comes to each entry once, and ends when it has come to both.
WalkInv ==
    /\ \A i, j \in 1..Len(visited) : visited[i] = visited[j] => i = j
    /\ walk \in {"written", "error"} => Len(visited) = 2

\* What tar came to first, it archived as it was then: the pointer that could be
\* read, or the snapshots with the one of that pointer among them, which stays in
\* the bucket whatever is published.
BegunKept ==
    begun # NoFile /\ Len(visited) > 0 =>
        /\ begun \in snapshots
        /\ visited[1] = PointerFile => archived.pointer = begun
        /\ visited[1] = SnapshotFiles \/ Len(visited) = 2 => begun \in archived.snapshots

\* As long as the pointer has not moved, it is the one tar found, also when tar
\* comes to it last.
Unmoved ==
    begun # NoFile /\ Len(visited) > 0 /\ ~moved =>
        /\ Walking => pointer = begun
        /\ Len(visited) = 2 => archived.pointer = begun

\* The script reports no archive under whose walk the pointer moved.
WrittenUnmoved == walk = "written" => ~moved

IInv == TypeOK /\ BackupTypeOK /\ CopyInv /\ WalkInv /\ BegunKept /\ Unmoved /\ WrittenUnmoved

-----------------------------------------------------------------------------

LEMMA TwoFiles == Cardinality(SeedFiles) = 2
<1>1. IsFiniteSet({}) /\ Cardinality({}) = 0
  BY FS_EmptySet
<1>2. IsFiniteSet({PointerFile}) /\ Cardinality({PointerFile}) = 1
  BY FS_Singleton
<1>3. SnapshotFiles \notin {PointerFile}
  BY DEF SnapshotFiles, PointerFile
<1>4. Cardinality({PointerFile} \cup {SnapshotFiles}) = 2
  BY <1>2, <1>3, FS_AddElement
<1>5. SeedFiles = {PointerFile} \cup {SnapshotFiles}
  BY DEF SeedFiles, PointerFile, SnapshotFiles
<1> QED
  BY <1>4, <1>5

\* A walk that has come to nothing yet.
LEMMA Fresh == <<>> \in Seq(SeedFiles) /\ Len(<<>>) = 0
BY EmptySeq

LEMMA NoFileInRange == NoFile \in 0..MaxVersion
BY BootAssumption DEF NoFile

LEMMA InitInv == InitBackup => IInv
<1> SUFFICES ASSUME InitBackup PROVE IInv
  OBVIOUS
<1>1. TypeOK /\ CopyInv
  <2>1. kills = 0 /\ 0 \in 0..MaxKills
    BY BootAssumption DEF InitBackup, Init
  <2> QED
    BY <2>1 DEF InitBackup, Init, TypeOK, CopyInv
<1>2. visited = <<>> /\ walk = "none" /\ Len(visited) = 0
  BY Fresh DEF InitBackup
<1>3. BackupTypeOK
  BY Fresh, NoFileInRange DEF InitBackup, BackupTypeOK, Unwritten
<1>4. WalkInv /\ BegunKept /\ Unmoved /\ WrittenUnmoved
  BY <1>2 DEF WalkInv, BegunKept, Unmoved, WrittenUnmoved
<1> QED
  BY <1>1, <1>3, <1>4 DEF IInv

\* What a step of the server does to its own state.
LEMMA ServerStep ==
    ASSUME IInv, Next
    PROVE  /\ TypeOK' /\ CopyInv' /\ snapshots \subseteq snapshots'
           /\ pointer > NoFile => pointer' >= pointer
<1> USE BootAssumption DEF IInv, TypeOK, CopyInv, NoFile, Torn, PointerFile
<1>1. CASE Start
  BY <1>1 DEF Start
<1>2. CASE Boot
  BY <1>2 DEF Boot, PointerExists
<1>3. CASE CreatePointer
  BY <1>3 DEF CreatePointer
<1>4. CASE FillPointer
  BY <1>4 DEF FillPointer, SeedVersion, SeedFiles
<1>5. CASE CopySnapshot
  BY <1>5 DEF CopySnapshot, SeedVersion, SeedFiles
<1>6. CASE Listen
  BY <1>6 DEF Listen
<1>7. CASE PutSnapshot
  BY <1>7 DEF PutSnapshot, Readable
<1>8. CASE PutPointer
  BY <1>8 DEF PutPointer, Readable
<1>9. CASE Kill
  BY <1>9 DEF Kill
<1> QED
  BY <1>1, <1>2, <1>3, <1>4, <1>5, <1>6, <1>7, <1>8, <1>9 DEF Next, Copy

LEMMA ServerKeeps == ASSUME IInv, Server PROVE IInv'
<1>1. /\ TypeOK' /\ CopyInv' /\ snapshots \subseteq snapshots'
      /\ UNCHANGED <<walk, visited, archived, begun>>
  BY ServerStep DEF Server
<1>2. moved' \in BOOLEAN /\ (moved => moved') /\ (Walking /\ ~moved' => pointer' = pointer)
  BY DEF Server, IInv, BackupTypeOK
<1>3. BackupTypeOK' /\ WalkInv' /\ BegunKept'
  BY <1>1, <1>2 DEF IInv, BackupTypeOK, WalkInv, BegunKept
<1>4. Unmoved'
  BY <1>1, <1>2 DEF IInv, Unmoved, Walking
<1>5. WrittenUnmoved'
  BY <1>1 DEF Server, IInv, WrittenUnmoved, Walking
<1> QED
  BY <1>1, <1>3, <1>4, <1>5 DEF IInv

\* A walk that starts has come to nothing yet.
LEMMA StartKeeps ==
    ASSUME IInv, NEW name \in {"first", "second"}, StartWalk(name)
    PROVE  IInv'
<1>1. TypeOK' /\ CopyInv'
  BY DEF StartWalk, vars, IInv, TypeOK, CopyInv
<1>2. visited' = <<>> /\ walk' = name /\ Len(visited') = 0
  BY Fresh DEF StartWalk
<1>3. BackupTypeOK'
  BY Fresh, NoFileInRange DEF StartWalk, BackupTypeOK, Unwritten
<1>4. WalkInv' /\ BegunKept' /\ Unmoved' /\ WrittenUnmoved'
  BY <1>2 DEF WalkInv, BegunKept, Unmoved, WrittenUnmoved
<1> QED
  BY <1>1, <1>3, <1>4 DEF IInv

\* What a visit appends.
LEMMA VisitAppends ==
    ASSUME IInv, NEW entry \in SeedFiles, NEW holds, Visit(entry, holds)
    PROVE  /\ visited' \in Seq(SeedFiles) /\ Len(visited') = Len(visited) + 1
           /\ Len(visited) \in {0, 1}
           /\ visited'[Len(visited')] = entry
           /\ \A k \in 1..Len(visited) : visited'[k] = visited[k] /\ visited[k] # entry
           /\ WalkInv'
<1>1. visited \in Seq(SeedFiles) /\ visited' = Append(visited, entry)
  BY DEF Visit, IInv, BackupTypeOK
<1>2. /\ visited' \in Seq(SeedFiles) /\ Len(visited') = Len(visited) + 1
      /\ Len(visited) \in Nat
      /\ visited'[Len(visited) + 1] = entry
      /\ \A k \in 1..Len(visited) : visited'[k] = visited[k]
  BY <1>1, AppendProperties, LenProperties
<1>3. \A k \in 1..Len(visited) : visited[k] # entry
  BY <1>1, LenProperties DEF Visit
<1>4. \A i, j \in 1..Len(visited') : visited'[i] = visited'[j] => i = j
  BY <1>2, <1>3 DEF IInv, WalkInv
<1>5. Len(visited) < 2
  <2> SUFFICES ASSUME Len(visited) >= 2 PROVE FALSE
    BY <1>2
  <2>1. 1 \in 1..Len(visited) /\ 2 \in 1..Len(visited)
    BY <1>2
  <2>2. visited[1] \in SeedFiles /\ visited[2] \in SeedFiles /\ visited[1] # visited[2]
    BY <2>1, <1>1, ElementOfSeq DEF IInv, WalkInv
  <2> QED
    BY <2>1, <2>2, <1>3 DEF SeedFiles
<1>6. WalkInv'
  BY <1>4 DEF WalkInv, Visit, Walking
<1>7. Len(visited) \in {0, 1}
  <2>1. Len(visited) \in Nat
    BY <1>1, LenProperties
  <2> QED
    BY <2>1, <1>5
<1>8. visited'[Len(visited')] = entry
  BY <1>2
<1> QED
  BY <1>2, <1>3, <1>6, <1>7, <1>8

\* The first visit notes the pointer that can be read; no later one forgets it.
LEMMA VisitNotes ==
    ASSUME IInv, NEW entry \in SeedFiles, NEW holds, Visit(entry, holds)
    PROVE  /\ TypeOK' /\ CopyInv' /\ WrittenUnmoved'
           /\ begun' \in 0..MaxVersion /\ moved' \in BOOLEAN
           /\ Walking /\ UNCHANGED <<vars, walk>> /\ archived' = holds
           /\ visited = <<>> <=> Len(visited) = 0
           /\ visited = <<>> /\ begun' # NoFile => begun' = pointer /\ pointer \in snapshots
           /\ visited # <<>> => UNCHANGED <<begun, moved>>
<1>1. Walking /\ UNCHANGED <<vars, walk>> /\ archived' = holds
  BY DEF Visit
<1>2. TypeOK' /\ CopyInv' /\ WrittenUnmoved'
  BY <1>1 DEF vars, IInv, TypeOK, CopyInv, WrittenUnmoved, Walking
<1>3. visited = <<>> <=> Len(visited) = 0
  BY EmptySeq DEF IInv, BackupTypeOK
<1>4. CASE visited = <<>>
  <2>1. begun' = (IF Readable THEN pointer ELSE NoFile) /\ moved' = FALSE
    BY <1>4 DEF Visit
  <2>2. begun' \in 0..MaxVersion
    <3>1. pointer \in snapshots => pointer \in 0..MaxVersion
      BY DEF IInv, TypeOK
    <3> QED
      BY <2>1, <3>1, NoFileInRange DEF Readable
  <2>3. begun' # NoFile => begun' = pointer /\ pointer \in snapshots
    BY <2>1 DEF Readable
  <2> QED
    BY <1>1, <1>2, <1>3, <1>4, <2>1, <2>2, <2>3
<1>5. CASE visited # <<>>
  <2>1. UNCHANGED <<begun, moved>>
    BY <1>5 DEF Visit
  <2> QED
    BY <1>1, <1>2, <1>3, <1>5, <2>1 DEF IInv, BackupTypeOK
<1> QED
  BY <1>4, <1>5

LEMMA VisitPointerKeeps == ASSUME IInv, VisitPointer PROVE IInv'
<1> DEFINE holds == [archived EXCEPT !.pointer = pointer]
<1> HIDE DEF holds
<1>1. Visit(PointerFile, holds) /\ PointerFile \in SeedFiles
  BY DEF holds, VisitPointer, PointerFile, SeedFiles
<1>2. /\ visited' \in Seq(SeedFiles) /\ Len(visited') = Len(visited) + 1
      /\ Len(visited) \in {0, 1}
      /\ visited'[Len(visited')] = PointerFile
      /\ \A k \in 1..Len(visited) : visited'[k] = visited[k] /\ visited[k] # PointerFile
      /\ WalkInv'
  BY <1>1, VisitAppends
<1>3. /\ TypeOK' /\ CopyInv' /\ WrittenUnmoved'
      /\ begun' \in 0..MaxVersion /\ moved' \in BOOLEAN
      /\ Walking /\ UNCHANGED <<vars, walk>> /\ archived' = holds
      /\ visited = <<>> <=> Len(visited) = 0
      /\ visited = <<>> /\ begun' # NoFile => begun' = pointer /\ pointer \in snapshots
      /\ visited # <<>> => UNCHANGED <<begun, moved>>
  BY <1>1, VisitNotes
<1>4. BackupTypeOK'
  <2>1. archived' \in [pointer : {NoFile, Torn} \cup 1..MaxVersion, snapshots : SUBSET (1..MaxVersion)]
    BY <1>3 DEF holds, IInv, BackupTypeOK, TypeOK
  <2> QED
    BY <2>1, <1>2, <1>3 DEF IInv, BackupTypeOK
<1>5. archived'.pointer = pointer /\ archived'.snapshots = archived.snapshots
  BY <1>3 DEF holds, IInv, BackupTypeOK
<1>6. CASE Len(visited) = 0
  <2>1. Len(visited') = 1 /\ visited'[1] = PointerFile /\ PointerFile # SnapshotFiles
    BY <1>2, <1>6 DEF PointerFile, SnapshotFiles
  <2>2. BegunKept' /\ Unmoved'
    BY <2>1, <1>3, <1>5, <1>6 DEF BegunKept, Unmoved, vars
  <2> QED
    BY <2>2, <1>2, <1>3, <1>4 DEF IInv
<1>7. CASE Len(visited) = 1
  <2>1. visited[1] \in SeedFiles /\ visited[1] # PointerFile /\ visited'[1] = visited[1]
    BY <1>2, <1>7, ElementOfSeq DEF IInv, BackupTypeOK
  <2>2. visited'[1] = SnapshotFiles /\ visited[1] = SnapshotFiles /\ Len(visited') = 2
    BY <2>1, <1>2, <1>7 DEF SeedFiles, PointerFile, SnapshotFiles
  <2>3. PointerFile # SnapshotFiles
    BY DEF PointerFile, SnapshotFiles
  <2>4. UNCHANGED <<begun, moved, snapshots, pointer>>
    BY <1>3, <1>7 DEF vars
  <2>5. BegunKept'
    BY <2>2, <2>3, <2>4, <1>5, <1>7 DEF IInv, BegunKept
  <2>6. Unmoved'
    BY <2>2, <2>4, <1>3, <1>5, <1>7 DEF IInv, Unmoved
  <2> QED
    BY <2>5, <2>6, <1>2, <1>3, <1>4 DEF IInv
<1> QED
  BY <1>2, <1>6, <1>7

LEMMA VisitSnapshotsKeeps == ASSUME IInv, VisitSnapshots PROVE IInv'
<1> DEFINE holds == [archived EXCEPT !.snapshots = snapshots]
<1> HIDE DEF holds
<1>1. Visit(SnapshotFiles, holds) /\ SnapshotFiles \in SeedFiles
  BY DEF holds, VisitSnapshots, SnapshotFiles, SeedFiles
<1>2. /\ visited' \in Seq(SeedFiles) /\ Len(visited') = Len(visited) + 1
      /\ Len(visited) \in {0, 1}
      /\ visited'[Len(visited')] = SnapshotFiles
      /\ \A k \in 1..Len(visited) : visited'[k] = visited[k] /\ visited[k] # SnapshotFiles
      /\ WalkInv'
  BY <1>1, VisitAppends
<1>3. /\ TypeOK' /\ CopyInv' /\ WrittenUnmoved'
      /\ begun' \in 0..MaxVersion /\ moved' \in BOOLEAN
      /\ Walking /\ UNCHANGED <<vars, walk>> /\ archived' = holds
      /\ visited = <<>> <=> Len(visited) = 0
      /\ visited = <<>> /\ begun' # NoFile => begun' = pointer /\ pointer \in snapshots
      /\ visited # <<>> => UNCHANGED <<begun, moved>>
  BY <1>1, VisitNotes
<1>4. BackupTypeOK'
  <2>1. archived' \in [pointer : {NoFile, Torn} \cup 1..MaxVersion, snapshots : SUBSET (1..MaxVersion)]
    BY <1>3 DEF holds, IInv, BackupTypeOK, TypeOK
  <2> QED
    BY <2>1, <1>2, <1>3 DEF IInv, BackupTypeOK
<1>5. archived'.pointer = archived.pointer /\ archived'.snapshots = snapshots
  BY <1>3 DEF holds, IInv, BackupTypeOK
<1>6. CASE Len(visited) = 0
  <2>1. Len(visited') = 1 /\ visited'[1] = SnapshotFiles /\ PointerFile # SnapshotFiles
    BY <1>2, <1>6 DEF PointerFile, SnapshotFiles
  <2>2. BegunKept' /\ Unmoved'
    BY <2>1, <1>3, <1>5, <1>6 DEF BegunKept, Unmoved, vars
  <2> QED
    BY <2>2, <1>2, <1>3, <1>4 DEF IInv
<1>7. CASE Len(visited) = 1
  <2>1. visited[1] \in SeedFiles /\ visited[1] # SnapshotFiles /\ visited'[1] = visited[1]
    BY <1>2, <1>7, ElementOfSeq DEF IInv, BackupTypeOK
  <2>2. visited'[1] = PointerFile /\ visited[1] = PointerFile /\ Len(visited') = 2
    BY <2>1, <1>2, <1>7 DEF SeedFiles, PointerFile, SnapshotFiles
  <2>3. UNCHANGED <<begun, moved, snapshots, pointer>>
    BY <1>3, <1>7 DEF vars
  <2>4. BegunKept'
    BY <2>2, <2>3, <1>5, <1>7 DEF IInv, BegunKept
  <2>5. Unmoved'
    BY <2>2, <2>3, <1>3, <1>5, <1>7 DEF IInv, Unmoved, BegunKept
  <2> QED
    BY <2>4, <2>5, <1>2, <1>3, <1>4 DEF IInv
<1> QED
  BY <1>2, <1>6, <1>7

\* However a walk ends, it has come to both entries.
LEMMA EndKeeps ==
    ASSUME IInv, WalkedAll, walk' \in {"written", "error"},
           walk' = "written" => ~moved,
           UNCHANGED <<vars, visited, archived, begun, moved>>
    PROVE  IInv'
<1>1. Len(visited) = 2
  BY TwoFiles DEF WalkedAll
<1> QED
  BY <1>1 DEF vars, IInv, TypeOK, BackupTypeOK, CopyInv, WalkInv, BegunKept, Unmoved,
     WrittenUnmoved, WalkedAll, Walking

LEMMA Inductive == IInv /\ [BackupNext]_<<vars, backup>> => IInv'
<1> SUFFICES ASSUME IInv, [BackupNext]_<<vars, backup>> PROVE IInv'
  OBVIOUS
<1>1. CASE Server
  BY <1>1, ServerKeeps
<1>2. CASE StartBackup
  BY <1>2, StartKeeps DEF StartBackup
<1>3. CASE VisitPointer
  BY <1>3, VisitPointerKeeps
<1>4. CASE VisitSnapshots
  BY <1>4, VisitSnapshotsKeeps
<1>5. CASE EndWalk
  BY <1>5, EndKeeps DEF EndWalk, Noticed
<1>6. CASE Disturbed
  BY <1>6, StartKeeps, EndKeeps DEF Disturbed
<1>7. CASE UNCHANGED <<vars, backup>>
  BY <1>7 DEF vars, backup, IInv, TypeOK, BackupTypeOK, CopyInv, WalkInv, BegunKept, Unmoved,
     WrittenUnmoved, Walking
<1> QED
  BY <1>1, <1>2, <1>3, <1>4, <1>5, <1>6, <1>7 DEF BackupNext

-----------------------------------------------------------------------------

\* The inductive invariant holds in every reachable state (server.mjs, backup.sh).
THEOREM Invariance == BackupSpec => []IInv
BY InitInv, Inductive, PTL DEF BackupSpec

\* Every reachable state of the server's data directory is well typed (server.mjs).
THEOREM BootTypes == BackupSpec => []TypeOK
<1>1. IInv => TypeOK
  BY DEF IInv
<1> QED
  BY <1>1, Invariance, PTL

\* Every archive the script reports as written can be restored, for any number of
\* publishes and kills during the walk and either order of it (backup.sh).
THEOREM WrittenArchivesRestorable == BackupSpec => []WrittenRestorable
<1>1. IInv => WrittenRestorable
  <2> SUFFICES ASSUME IInv, walk = "written", begun # NoFile
               PROVE  archived.pointer \in archived.snapshots
    BY DEF WrittenRestorable, ArchiveRestorable, Archives
  <2>1. Len(visited) = 2 /\ ~moved
    BY DEF IInv, WalkInv, WrittenUnmoved
  <2> QED
    BY <2>1 DEF IInv, BegunKept, Unmoved
<1> QED
  BY <1>1, Invariance, PTL

\* Every archive that is left behind, also one of a disturbed walk, holds the
\* snapshot of the catalog tar found (backup.sh).
THEOREM BegunCatalogArchived == BackupSpec => []BegunArchived
<1>1. IInv => BegunArchived
  <2> SUFFICES ASSUME IInv, walk \in {"written", "error"}, begun # NoFile
               PROVE  begun \in archived.snapshots
    BY DEF BegunArchived, Archives
  <2>1. Len(visited) = 2
    BY DEF IInv, WalkInv
  <2> QED
    BY <2>1 DEF IInv, BegunKept
<1> QED
  BY <1>1, Invariance, PTL

\* No restart and no copy of the seed puts an earlier version in place of the
\* current one (server.mjs).
THEOREM CatalogKept == BackupSpec => RestartKeepsCatalog
<1>1. IInv /\ [BackupNext]_<<vars, backup>> => [pointer > NoFile => pointer' >= pointer]_vars
  <2> SUFFICES ASSUME IInv, [BackupNext]_<<vars, backup>>, UNCHANGED vars \/ Next
               PROVE  [pointer > NoFile => pointer' >= pointer]_vars
    BY DEF BackupNext, Server, StartBackup, StartWalk, VisitPointer, VisitSnapshots, Visit,
       EndWalk, Disturbed, backup
  <2> QED
    BY ServerStep
<1> QED
  BY <1>1, Invariance, PTL DEF BackupSpec, RestartKeepsCatalog

-----------------------------------------------------------------------------
(* Coming up.                                                              *)

\* What the start finds and the copy leaves, if no kill fell into the copy.
BootInv ==
    ~interrupted =>
        /\ proc \in {"down", "boot"} => pointer = NoFile \/ Readable
        /\ proc = "boot" => copied = {}
        /\ proc = "copying" => /\ PointerFile \in copied => pointer = SeedVersion
                               /\ SnapshotFiles \in copied => SeedVersion \in snapshots
        /\ proc = "serving" => Readable

LEMMA BootStep == ASSUME BootInv, TypeOK, Next PROVE BootInv'
<1> USE DEF BootInv, Readable, PointerFile, SnapshotFiles
<1>1. CASE Start \/ Boot
  BY <1>1 DEF Start, Boot, PointerExists
<1>2. CASE Copy
  BY <1>2 DEF Copy, CreatePointer, FillPointer, CopySnapshot
<1>3. CASE Listen
  BY <1>3 DEF Listen, SeedFiles
<1>4. CASE PutSnapshot \/ PutPointer
  BY <1>4 DEF PutSnapshot, PutPointer
<1>5. CASE Kill
  BY <1>5 DEF Kill, TypeOK
<1> QED
  BY <1>1, <1>2, <1>3, <1>4, <1>5 DEF Next

\* The safety half of ComesUpReadable: whoever connects to a server none of whose
\* copies of the seed was killed finds a catalog that can be read, however often
\* it was killed at other times (the first-run check of server.mjs).
THEOREM UninterruptedReadable == BackupSpec => [](~interrupted => BootstrapWorks)
<1>1. InitBackup => BootInv
  BY DEF InitBackup, Init, BootInv
<1>2. BootInv /\ TypeOK /\ [BackupNext]_<<vars, backup>> => BootInv'
  <2>1. ASSUME BootInv, UNCHANGED vars PROVE BootInv'
    BY <2>1 DEF vars, BootInv, Readable
  <2>2. [BackupNext]_<<vars, backup>> => Next \/ UNCHANGED vars
    BY DEF BackupNext, Server, StartBackup, StartWalk, VisitPointer, VisitSnapshots, Visit,
           EndWalk, Disturbed
  <2> QED
    BY <2>1, <2>2, BootStep
<1>3. BootInv => (~interrupted => BootstrapWorks)
  BY DEF BootInv, BootstrapWorks
<1> QED
  BY <1>1, <1>2, <1>3, BootTypes, PTL DEF BackupSpec

=============================================================================
