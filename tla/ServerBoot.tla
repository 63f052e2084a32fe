------------------------------ MODULE ServerBoot ------------------------------
(***************************************************************************)
(* How the server comes up on its data directory (server.mjs): the first   *)
(* run copies config/seed-catalog into it file by file, every later run    *)
(* leaves it alone, and the process may be killed at any moment and is     *)
(* started again by its service unit.  The publish path is here only as    *)
(* the order in which it writes its two files; CatalogStore is its model.  *)
(***************************************************************************)
EXTENDS Integers, FiniteSets

CONSTANTS
    MaxVersion,   \* bound on the versions published
    MaxKills      \* bound on the number of times the process is killed

ASSUME BootAssumption == MaxVersion \in Nat \ {0} /\ MaxKills \in Nat

SeedVersion == 1

VARIABLES
    pointer,      \* catalog-current-v1.json: absent, torn, or the version it names
    snapshots,    \* versions whose snapshot is complete on disk
    proc,         \* what the process is doing
    copied,       \* seed files the running copy has finished
    kills,        \* times it was killed so far
    interrupted   \* history: it was once killed in the middle of the copy

vars == <<pointer, snapshots, proc, copied, kills, interrupted>>

\* As SeedFiles would be if the copy were not recursive.
SeedFilesShallow == {"catalog-current-v1.json"}

SeedFiles == {"catalog-current-v1.json", "catalog-snapshots-v1"}
NoFile == 0
Torn == -1

Init ==
    /\ pointer = NoFile
    /\ snapshots = {}
    /\ proc = "down"
    /\ copied = {}
    /\ kills = 0
    /\ interrupted = FALSE

Start ==
    /\ proc = "down"
    /\ proc' = "boot"
    /\ copied' = {}
    /\ UNCHANGED <<pointer, snapshots, kills, interrupted>>

\* As PointerExists would be if the seed were copied on every start.
PointerNeverExists == FALSE

\* existsSync: a torn file exists.
PointerExists == pointer # NoFile

Boot ==
    /\ proc = "boot"
    /\ proc' = IF PointerExists THEN "serving" ELSE "copying"
    /\ UNCHANGED <<pointer, snapshots, copied, kills, interrupted>>

\* cpSync takes the entries in the order of the directory, which is unspecified,
\* and creates a file before it has its bytes.
CreatePointer ==
    /\ proc = "copying"
    /\ "catalog-current-v1.json" \notin copied
    /\ pointer' = Torn
    /\ UNCHANGED <<snapshots, proc, copied, kills, interrupted>>

FillPointer ==
    /\ proc = "copying"
    /\ pointer = Torn
    /\ pointer' = SeedVersion
    /\ copied' = copied \cup {"catalog-current-v1.json"}
    /\ UNCHANGED <<snapshots, proc, kills, interrupted>>

\* A torn snapshot fails its SHA-256 check, which is as good as none.
CopySnapshot ==
    /\ proc = "copying"
    /\ pointer # Torn
    /\ "catalog-snapshots-v1" \notin copied
    /\ snapshots' = snapshots \cup {SeedVersion}
    /\ copied' = copied \cup {"catalog-snapshots-v1"}
    /\ UNCHANGED <<pointer, proc, kills, interrupted>>

Listen ==
    /\ proc = "copying"
    /\ copied = SeedFiles
    /\ proc' = "serving"
    /\ UNCHANGED <<pointer, snapshots, copied, kills, interrupted>>

\* r2CatalogSnapshot succeeds.
Readable == pointer \in snapshots

\* As PutSnapshot would be if a publish cleared away what is no longer current.
PutSnapshotPruned ==
    /\ proc = "serving"
    /\ Readable
    /\ pointer < MaxVersion
    /\ snapshots' = {pointer, pointer + 1}
    /\ UNCHANGED <<pointer, proc, copied, kills, interrupted>>

\* A publish starts by reading, writes the snapshot, then the pointer.
PutSnapshot ==
    /\ proc = "serving"
    /\ Readable
    /\ pointer < MaxVersion
    /\ snapshots' = snapshots \cup {pointer + 1}
    /\ UNCHANGED <<pointer, proc, copied, kills, interrupted>>

PutPointer ==
    /\ proc = "serving"
    /\ Readable
    /\ pointer + 1 \in snapshots
    /\ pointer' = pointer + 1
    /\ UNCHANGED <<snapshots, proc, copied, kills, interrupted>>

Kill ==
    /\ proc # "down"
    /\ kills < MaxKills
    /\ kills' = kills + 1
    /\ proc' = "down"
    /\ interrupted' = (interrupted \/ proc = "copying")
    /\ UNCHANGED <<pointer, snapshots, copied>>

Copy == CreatePointer \/ FillPointer \/ CopySnapshot

Next == Start \/ Boot \/ Copy \/ Listen \/ PutSnapshot \/ PutPointer \/ Kill

\* The service unit says Restart=always and start-up is straight-line code.
\* Nobody has to publish, and the process need not be killed.
Fairness == WF_vars(Start) /\ WF_vars(Boot) /\ WF_vars(Copy) /\ WF_vars(Listen)

Spec == Init /\ [][Next]_vars /\ Fairness

-----------------------------------------------------------------------------

TypeOK ==
    /\ pointer \in {NoFile, Torn} \cup 1..MaxVersion
    /\ snapshots \subseteq 1..MaxVersion
    /\ proc \in {"down", "boot", "copying", "serving"}
    /\ copied \subseteq SeedFiles
    /\ kills \in 0..MaxKills
    /\ interrupted \in BOOLEAN

\* "On first run, seed an empty catalog so the panel bootstrap works before
\* anything is published": a server that listens has a catalog it can read.
BootstrapWorks == proc = "serving" => Readable

\* Whoever publishes keeps what was published: no restart puts the seed, or
\* any earlier version, back in place of the current one.
RestartKeepsCatalog == [][pointer > NoFile => pointer' >= pointer]_vars

\* If no kill falls into the copy of the seed, the server ends up listening on a
\* catalog it can read, however often it is killed at other times.
ComesUpReadable == []~interrupted => <>[](proc = "serving" /\ Readable)

=============================================================================
