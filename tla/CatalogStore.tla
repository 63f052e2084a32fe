----------------------------- MODULE CatalogStore -----------------------------
(***************************************************************************)
(* The versioned catalog as the server runs it: the object store on disk   *)
(* (stores/catalog-bucket.mjs), the publish path that moves it             *)
(* (api/catalog-publish.js, api/catalog-snapshot.js) as the two writing    *)
(* routes drive it (api/worker-api-routes.js), and the requests that only  *)
(* read it, all in one Node process that may be killed at any await.       *)
(* A step is the code between two awaits on the disk or on the backend.    *)
(***************************************************************************)
EXTENDS CatalogData

CONSTANT MaxCrashes   \* bound on the number of times the process is killed

ASSUME CrashAssumption == MaxCrashes \in Nat

VARIABLES
    pointer,     \* line named by catalog-current-v1.json
    snapshots,   \* lines whose snapshot object is in the bucket
    queue,       \* puts in the bucket's promise queue; the head is running
    up,          \* the process is running
    crashes,     \* times it was killed so far
    pc,          \* the await each request is at
    body,        \* what each publisher posts
    seen1,       \* line the route handler read (currentCatalog)
    seen2,       \* line publishCatalog read (snapshot)
    answer,      \* what each client was told
    committed    \* history: publishers whose pointer write was renamed in

disk    == <<pointer, snapshots>>
process == <<queue, up, crashes>>
vars    == <<disk, process, pc, body, seen1, seen2, answer, committed>>

ReadSteps == {"get1", "snap1", "get2", "snap2"}
PutSteps  == {"putSnap", "snapFile", "snapMeta", "putPtr", "ptrFile", "ptrMeta"}
Steps     == {"idle", "admit", "linkPtr", "done"} \cup ReadSteps \cup PutSteps
Answers   == {"none", "ok", "conflict", "rejected", "error", "lost"}

InFlight(r) == pc[r] \notin {"idle", "done"}

\* As Turn would be if puts did not wait for one another.
TurnUnqueued(r) == \E i \in DOMAIN queue : queue[i] = r

\* A promise queue of one lane: a put runs when every earlier one has settled.
Turn(r) == queue # <<>> /\ Head(queue) = r

Enqueue(r) == queue' = Append(queue, r)
Settle     == queue' = Tail(queue)

Goto(r, step) == pc' = [pc EXCEPT ![r] = step] /\ UNCHANGED answer
Finish(r, a)  == pc' = [pc EXCEPT ![r] = "done"] /\ answer' = [answer EXCEPT ![r] = a]

Fresh    == [r \in Clients |-> <<>>]
NewLine(r) == Append(seen2[r], Written(body[r], Latest(seen1[r]), Latest(seen2[r])))

\* The catalog as the server finds it: every version has its snapshot, the last
\* one is current.
Init ==
    /\ pointer = Earlier
    /\ snapshots = {SubSeq(Earlier, 1, n) : n \in 1..Len(Earlier)}
    /\ queue = <<>>
    /\ up = TRUE
    /\ crashes = 0
    /\ pc = [r \in Clients |-> "idle"]
    /\ body \in Bodies
    /\ seen1 = Fresh
    /\ seen2 = Fresh
    /\ answer = [r \in Clients |-> "none"]
    /\ committed = {}

-----------------------------------------------------------------------------
(* Reading: r2CatalogSnapshot gets the pointer, then the snapshot it names. *)

Arrive(r) ==
    /\ up
    /\ pc[r] = "idle"
    /\ Goto(r, "get1")
    /\ UNCHANGED <<disk, process, body, seen1, seen2, committed>>

ReadPointer(r) ==
    /\ pc[r] = "get1"
    /\ seen1' = [seen1 EXCEPT ![r] = pointer]
    /\ Goto(r, "snap1")
    /\ UNCHANGED <<disk, process, body, seen2, committed>>

ReadSnapshot(r) ==
    /\ pc[r] = "snap1"
    /\ \/ seen1[r] \notin snapshots /\ Finish(r, "error")
       \/ seen1[r] \in snapshots /\ r \in Readers /\ Finish(r, "ok")
       \/ seen1[r] \in snapshots /\ r \in Publishers /\ Goto(r, "admit")
    /\ UNCHANGED <<disk, process, body, seen1, seen2, committed>>

-----------------------------------------------------------------------------
(* The writing routes, from the answer of the session backend on.          *)

\* verifyToken failed.
SessionInvalid(r) ==
    /\ pc[r] = "admit"
    /\ Finish(r, "rejected")
    /\ UNCHANGED <<disk, process, body, seen1, seen2, committed>>

\* The editor's base version is checked before anything else about the body.
CurrentBase(r) == body[r].base = Version(seen1[r])

Admit(r) ==
    /\ pc[r] = "admit"
    /\ \/ ~CurrentBase(r) /\ Finish(r, "conflict")
       \/ CurrentBase(r) /\ ~Admissible(body[r], Latest(seen1[r])) /\ Finish(r, "rejected")
       \/ CurrentBase(r) /\ Admissible(body[r], Latest(seen1[r])) /\ Goto(r, "get2")
    /\ UNCHANGED <<disk, process, body, seen1, seen2, committed>>

\* publishCatalog reads the catalog a second time.
ReadPointerAgain(r) ==
    /\ pc[r] = "get2"
    /\ seen2' = [seen2 EXCEPT ![r] = pointer]
    /\ Goto(r, "snap2")
    /\ UNCHANGED <<disk, process, body, seen1, committed>>

\* As ExpectedVersion would be if publishCatalog trusted the route's check.
ExpectedVersionUnchecked(r) == TRUE

\* expectedVersion, compared with what publishCatalog read.
ExpectedVersion(r) == body[r].base = Version(seen2[r])

\* As InRange would be if the version before the write were checked.
InRangeBeforeWrite(r) == Version(seen2[r]) <= MaxVersion

\* validateR2CatalogFileContract, on the version about to be written.
InRange(r) == Version(NewLine(r)) <= MaxVersion

ReadSnapshotAgain(r) ==
    /\ pc[r] = "snap2"
    /\ \/ seen2[r] \notin snapshots /\ Finish(r, "error") /\ UNCHANGED queue
       \/ seen2[r] \in snapshots /\ ~ExpectedVersion(r) /\ Finish(r, "conflict") /\ UNCHANGED queue
       \/ /\ seen2[r] \in snapshots /\ ExpectedVersion(r) /\ ~InRange(r)
          /\ Finish(r, "error") /\ UNCHANGED queue
       \/ /\ seen2[r] \in snapshots /\ ExpectedVersion(r) /\ InRange(r)
          /\ Enqueue(r) /\ Goto(r, "putSnap")
    /\ UNCHANGED <<disk, up, crashes, body, seen1, seen2, committed>>

-----------------------------------------------------------------------------
(* putImmutableR2Snapshot: If-None-Match "*", an identical object is        *)
(* accepted as written.                                                    *)

\* As SnapshotCheck would be if the put of the snapshot were not awaited and lost.
SnapshotNotAwaited(r) ==
    /\ pc[r] = "putSnap"
    /\ Turn(r)
    /\ Settle
    /\ Goto(r, "linkPtr")
    /\ UNCHANGED <<disk, up, crashes, body, seen1, seen2, committed>>

SnapshotCheck(r) ==
    /\ pc[r] = "putSnap"
    /\ Turn(r)
    /\ \/ NewLine(r) \in snapshots /\ Settle /\ Goto(r, "linkPtr")
       \/ NewLine(r) \notin snapshots /\ UNCHANGED queue /\ Goto(r, "snapFile")
    /\ UNCHANGED <<disk, up, crashes, body, seen1, seen2, committed>>

\* The rename makes the object visible; its metadata file is written after it.
SnapshotRename(r) ==
    /\ pc[r] = "snapFile"
    /\ Turn(r)
    /\ snapshots' = snapshots \cup {NewLine(r)}
    /\ Goto(r, "snapMeta")
    /\ UNCHANGED <<pointer, process, body, seen1, seen2, committed>>

SnapshotDone(r) ==
    /\ pc[r] = "snapMeta"
    /\ Turn(r)
    /\ Settle
    /\ Goto(r, "linkPtr")
    /\ UNCHANGED <<disk, up, crashes, body, seen1, seen2, committed>>

-----------------------------------------------------------------------------
(* putR2CurrentPointer: conditional on the ETag of the pointer that was     *)
(* read; null from the bucket is a conflict.                               *)

PointerEnqueue(r) ==
    /\ pc[r] = "linkPtr"
    /\ Enqueue(r)
    /\ Goto(r, "putPtr")
    /\ UNCHANGED <<disk, up, crashes, body, seen1, seen2, committed>>

\* As EtagMatches would be for an unconditional put.
EtagIgnored(r) == pointer # <<>>

EtagMatches(r) == pointer = seen2[r]

\* As PointerCheck would be if the null of a failed precondition passed for a put.
PointerNullAccepted(r) ==
    /\ pc[r] = "putPtr"
    /\ Turn(r)
    /\ \/ ~EtagMatches(r) /\ Settle /\ Finish(r, "ok")
       \/ EtagMatches(r) /\ UNCHANGED queue /\ Goto(r, "ptrFile")
    /\ UNCHANGED <<disk, up, crashes, body, seen1, seen2, committed>>

PointerCheck(r) ==
    /\ pc[r] = "putPtr"
    /\ Turn(r)
    /\ \/ ~EtagMatches(r) /\ Settle /\ Finish(r, "conflict")
       \/ EtagMatches(r) /\ UNCHANGED queue /\ Goto(r, "ptrFile")
    /\ UNCHANGED <<disk, up, crashes, body, seen1, seen2, committed>>

PointerRename(r) ==
    /\ pc[r] = "ptrFile"
    /\ Turn(r)
    /\ pointer' = NewLine(r)
    /\ committed' = committed \cup {r}
    /\ Goto(r, "ptrMeta")
    /\ UNCHANGED <<snapshots, process, body, seen1, seen2>>

PointerDone(r) ==
    /\ pc[r] = "ptrMeta"
    /\ Turn(r)
    /\ Settle
    /\ Finish(r, "ok")
    /\ UNCHANGED <<disk, up, crashes, body, seen1, seen2, committed>>

-----------------------------------------------------------------------------
(* Failures.                                                               *)

\* As IoError would be if every failed put were taken for a failed precondition.
IoErrorAsConflict(r) ==
    /\ pc[r] \in PutSteps /\ Turn(r) /\ Settle
    /\ Finish(r, "conflict")
    /\ UNCHANGED <<disk, up, crashes, body, seen1, seen2, committed>>

\* As IoError would be if a put that throws left the queue rejected.
IoErrorUnsettled(r) ==
    /\ pc[r] \in ReadSteps \/ (pc[r] \in PutSteps /\ Turn(r))
    /\ Finish(r, "error")
    /\ UNCHANGED <<disk, process, body, seen1, seen2, committed>>

\* Any await on the disk may throw: the request answers 500 and a put that was
\* running settles.  After a rename the object stays, only its metadata is lost.
IoError(r) ==
    /\ \/ pc[r] \in ReadSteps /\ UNCHANGED queue
       \/ pc[r] \in PutSteps /\ Turn(r) /\ Settle
    /\ Finish(r, "error")
    /\ UNCHANGED <<disk, up, crashes, body, seen1, seen2, committed>>

\* The process is killed: its memory goes, what was renamed stays.
Crash ==
    /\ up
    /\ crashes < MaxCrashes
    /\ up' = FALSE
    /\ crashes' = crashes + 1
    /\ queue' = <<>>
    /\ pc' = [r \in Clients |-> IF InFlight(r) THEN "done" ELSE pc[r]]
    /\ answer' = [r \in Clients |-> IF InFlight(r) THEN "lost" ELSE answer[r]]
    /\ UNCHANGED <<disk, body, seen1, seen2, committed>>

\* The service unit restarts it; the pointer exists, so nothing is seeded.
Restart ==
    /\ ~up
    /\ up' = TRUE
    /\ UNCHANGED <<disk, queue, crashes, pc, body, seen1, seen2, answer, committed>>

Read(r)  == ReadPointer(r) \/ ReadSnapshot(r)
Route(r) == SessionInvalid(r) \/ Admit(r) \/ ReadPointerAgain(r) \/ ReadSnapshotAgain(r)
Put(r)   == \/ SnapshotCheck(r) \/ SnapshotRename(r) \/ SnapshotDone(r) \/ PointerEnqueue(r)
            \/ PointerCheck(r) \/ PointerRename(r) \/ PointerDone(r)

Progress(r) == Read(r) \/ Route(r) \/ Put(r) \/ IoError(r)

Next ==
    \/ \E r \in Clients : Arrive(r) \/ Progress(r)
    \/ Crash
    \/ Restart

\* Every await of a running process settles, and the service unit says
\* Restart=always.  Clients need not come, and the process need not be killed.
Fairness == WF_vars(Restart) /\ \A r \in Clients : WF_vars(Progress(r))

SafeSpec == Init /\ [][Next]_vars
Spec     == SafeSpec /\ Fairness

-----------------------------------------------------------------------------
(* Properties.                                                             *)

TypeOK ==
    /\ pointer \in Lines
    /\ snapshots \subseteq Lines
    /\ queue \in Seq(Publishers)
    /\ up \in BOOLEAN
    /\ crashes \in 0..MaxCrashes
    /\ pc \in [Clients -> Steps]
    /\ \A r \in Readers : pc[r] \in {"idle", "get1", "snap1", "done"}
    /\ body \in Bodies
    /\ seen1 \in [Clients -> Seq(Entry)]
    /\ seen2 \in [Clients -> Seq(Entry)]
    /\ answer \in [Clients -> Answers]
    /\ committed \subseteq Publishers

\* The pointer never names a snapshot that is not in the bucket, neither now nor
\* for a request that read an earlier pointer and has still to fetch its
\* snapshot: no interleaving, crash or half-failed publish makes a read of
\* /catalog/* or /api/config fail with "missing or unreadable".
PointedSnapshotExists ==
    /\ pointer \in snapshots
    /\ \A r \in Clients : /\ pc[r] = "snap1" => seen1[r] \in snapshots
                          /\ pc[r] = "snap2" => seen2[r] \in snapshots

\* What a publisher is told is true: "ok" only when its version was made current,
\* a conflict or a refusal only when nothing of it was.  (An error or a lost
\* connection tells nothing: the pointer may have moved.)
AnswerTruthful ==
    \A r \in Publishers : /\ answer[r] = "ok" => r \in committed
                          /\ answer[r] \in {"conflict", "rejected"} => r \notin committed

\* A publisher is told of a conflict only if the catalog was at another version
\* than its base at some moment it looked; when its base was current on arrival,
\* someone else's publish has been committed.
ConflictHasCause ==
    \A r \in Publishers : answer[r] = "conflict" =>
        \/ Version(seen1[r]) # body[r].base
        \/ Version(pointer) > body[r].base

\* Every version ever published is one the App can run: the profiles were
\* validated against the settings they are stored with, although the two are
\* merged from different reads and other publishers change either in between.
CatalogExecutable ==
    \A line \in snapshots : Executable(Latest(line).profiles, Latest(line).settings)

\* Optimistic locking: a step that moves the pointer adds exactly one version to
\* the current one, made by one publisher that targeted the current version and
\* has not committed before.  Nobody's version is overwritten, and a publish is
\* never applied to a version other than the one its author loaded.
NoLostUpdate ==
    [][pointer' # pointer =>
         \E r \in Publishers :
            /\ r \notin committed
            /\ committed' = committed \cup {r}
            /\ body[r].base = Version(pointer)
            /\ pointer' = Append(pointer, Apply(body[r], Latest(pointer)))]_vars

\* Every request that arrived is answered, or lost with the process, whatever
\* puts are queued before it and however they end.
EveryRequestEnds == \A r \in Clients : InFlight(r) ~> pc[r] = "done"

-----------------------------------------------------------------------------
(* What the store implements.  A request looks at the catalog when it reads *)
(* the pointer, the last such reading counts; a publish takes effect when   *)
(* its pointer is renamed in.                                              *)

State(r) == CASE pc[r] = "idle" -> "idle"
              [] pc[r] = "done" -> "done"
              [] OTHER          -> "pending"

View(r) == IF seen2[r] # <<>> THEN seen2[r] ELSE seen1[r]

Register == INSTANCE CatalogRegister WITH
    line    <- pointer,
    state   <- [r \in Clients |-> State(r)],
    view    <- [r \in Clients |-> View(r)],
    applied <- committed

\* To its clients the catalog is one atomic register: every publish and every
\* read happens at a single moment between its arrival and its answer.
AtomicRegister == Register!Spec

=============================================================================
