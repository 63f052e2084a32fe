-------------------------- MODULE CatalogStoreProofs --------------------------
(***************************************************************************)
(* The safety of CatalogStore for any number of publishers, readers,       *)
(* profiles, capabilities, versions and crashes.                           *)
(***************************************************************************)
EXTENDS CatalogStore, SequenceTheorems, TLAPS

-----------------------------------------------------------------------------
(* The inductive invariant.                                                *)

\* line l is m or an ancestor of m.
Past(l, m) == Len(l) <= Len(m) /\ \A i \in 1..Len(l) : l[i] = m[i]

\* The versions are numbered from 1 and every publish adds one.
Numbered(line) == \A i \in 1..Len(line) : line[i].version = i

Running == {"snapFile", "snapMeta", "ptrFile", "ptrMeta"}
Staged  == {"putSnap", "linkPtr", "putPtr"} \cup Running
Stored  == Staged \ {"putSnap", "snapFile"}
Early   == {"idle", "get1", "snap1", "admit", "get2"}

StoreInv ==
    /\ pointer \in snapshots
    /\ \A line \in snapshots :
          Numbered(line) /\ Executable(Latest(line).profiles, Latest(line).settings)

SeenInv == \A r \in Clients :
    /\ seen1[r] # <<>> => seen1[r] \in snapshots /\ Past(seen1[r], pointer)
    /\ seen2[r] # <<>> => seen2[r] \in snapshots /\ Past(seen2[r], pointer)
    /\ pc[r] \notin {"idle", "get1", "done"} => seen1[r] # <<>>
    /\ pc[r] \in Staged \cup {"snap2"} => seen2[r] # <<>> /\ Len(seen1[r]) <= Len(seen2[r])
    /\ pc[r] \in Early => seen2[r] = <<>>

\* What a publisher has checked stays true of what it holds.
StagedInv == \A r \in Publishers :
    /\ pc[r] \in Staged \cup {"get2", "snap2"} =>
          CurrentBase(r) /\ Admissible(body[r], Latest(seen1[r]))
    /\ pc[r] \in Staged => ExpectedVersion(r) /\ InRange(r)
    /\ pc[r] \in Stored => NewLine(r) \in snapshots

\* Only the head of the queue is between a check and its write.
QueueInv == \A r \in Publishers :
    /\ pc[r] \in Running => Turn(r)
    /\ pc[r] = "ptrFile" => EtagMatches(r)

AnswerInv == \A r \in Publishers :
    /\ pc[r] = "ptrMeta" => r \in committed
    /\ r \in committed => pc[r] \in {"ptrMeta", "done"}
    /\ pc[r] # "done" => answer[r] = "none"
    /\ answer[r] = "conflict" => seen1[r] # <<>>

IInv == /\ TypeOK /\ StoreInv /\ SeenInv /\ StagedInv /\ QueueInv /\ AnswerInv
        /\ AnswerTruthful /\ ConflictHasCause

-----------------------------------------------------------------------------
(* Entries and lines.                                                      *)

\* The last entry of a line is an entry.
LEMMA LatestEntry ==
    ASSUME NEW line \in Lines
    PROVE  Latest(line) \in Entry /\ Len(line) \in Nat \ {0}
<1>1. Len(line) \in Nat \ {0}
  BY EmptySeq DEF Lines
<1>2. line[Len(line)] \in Entry
  BY <1>1, ElementOfSeq DEF Lines
<1> QED
  BY <1>1, <1>2 DEF Latest

\* The versions an earlier run left, up to any of them.
LEMMA EarlierLine ==
    ASSUME NEW n \in 1..Len(Earlier)
    PROVE  /\ SubSeq(Earlier, 1, n) \in Lines
           /\ Numbered(SubSeq(Earlier, 1, n))
           /\ Latest(SubSeq(Earlier, 1, n)) = Earlier[n]
<1>1. Earlier \in Seq(Entry) /\ Len(Earlier) \in Nat
  BY EarlierAssumption, LenProperties DEF Lines
<1>2. /\ SubSeq(Earlier, 1, n) \in Seq(Entry)
      /\ Len(SubSeq(Earlier, 1, n)) = n
      /\ \A i \in 1..n : SubSeq(Earlier, 1, n)[i] = Earlier[i]
  BY <1>1, SubSeqProperties
<1>3. SubSeq(Earlier, 1, n) # <<>>
  BY <1>1, <1>2, EmptySeq
<1> QED
  BY <1>1, <1>2, <1>3, EarlierAssumption DEF Lines, Numbered, Latest

\* What publishCatalog writes carries the next version, and is an entry while that is in range.
LEMMA WrittenFields ==
    ASSUME NEW r \in Publishers, NEW q \in Requests[r], NEW read \in Entry, NEW entry \in Entry
    PROVE  /\ Written(q, read, entry).version = entry.version + 1
           /\ entry.version + 1 <= MaxVersion => Written(q, read, entry) \in Entry
<1>1. q \in Request
  BY CatalogAssumption
<1>2. FinalProfiles(q, read.profiles) \in ProfileMap
  BY <1>1 DEF FinalProfiles, Request, Entry, ProfileMap
<1>3. FinalSettings(q, entry.settings) \in SUBSET Caps
  BY <1>1 DEF FinalSettings, Request, Entry
<1> QED
  BY <1>2, <1>3, CatalogAssumption DEF Written, Entry

\* What a publisher posts is one of its requests.
LEMMA BodyRequest ==
    ASSUME TypeOK, NEW r \in Publishers
    PROVE  body[r] \in Requests[r] /\ body[r].base \in Nat
<1>1. body[r] \in Requests[r]
  BY DEF TypeOK, Bodies
<1>2. body[r] \in Request
  BY <1>1, CatalogAssumption
<1> QED
  BY <1>1, <1>2, CatalogAssumption DEF Request

\* An ancestor of a line is an ancestor of the line's children.
LEMMA PastAppend ==
    ASSUME NEW S, NEW l \in Seq(S), NEW m \in Seq(S), NEW e \in S, Past(l, m)
    PROVE  Past(l, Append(m, e))
BY AppendProperties, LenProperties DEF Past

\* Two ancestors of one line that are of one length are the same.
LEMMA PastEqual ==
    ASSUME NEW S, NEW l \in Seq(S), NEW m \in Seq(S), NEW n \in Seq(S),
           Past(l, n), Past(m, n), Len(l) = Len(m)
    PROVE  l = m
<1>1. \A i \in 1..Len(l) : l[i] = m[i]
  BY DEF Past
<1> QED
  BY <1>1, SeqEqual

\* The version of a numbered line is its length.
LEMMA NumberedVersion ==
    ASSUME NEW line \in Lines, Numbered(line)
    PROVE  Version(line) = Len(line)
BY LatestEntry DEF Numbered, Version, Latest

\* An entry with the next version keeps a line numbered.
LEMMA NumberedAppend ==
    ASSUME NEW line \in Lines, Numbered(line), NEW e \in Entry, e.version = Version(line) + 1
    PROVE  Numbered(Append(line, e)) /\ Append(line, e) \in Lines
           /\ Latest(Append(line, e)) = e
<1>1. line \in Seq(Entry) /\ Version(line) = Len(line) /\ Len(line) \in Nat
  BY LatestEntry, NumberedVersion DEF Lines
<1>2. Append(line, e) \in Seq(Entry) /\ Append(line, e) # <<>>
      /\ Len(Append(line, e)) = Len(line) + 1
      /\ (\A i \in 1..Len(line) : Append(line, e)[i] = line[i])
      /\ Append(line, e)[Len(line) + 1] = e
  BY <1>1, AppendProperties
<1> QED
  BY <1>1, <1>2 DEF Numbered, Lines, Latest

\* Of two numbered lines of one descent the ancestor has the smaller version.
LEMMA PastNumbered ==
    ASSUME NEW l \in Lines, NEW m \in Lines, Numbered(l), Numbered(m), Past(l, m)
    PROVE  /\ Version(l) = Len(l) /\ Version(m) = Len(m)
           /\ Version(l) <= Version(m) /\ Version(l) \in Nat /\ Version(m) \in Nat
BY LatestEntry, NumberedVersion DEF Past

-----------------------------------------------------------------------------
(* What a staged publish is about to write.                                *)

\* A staged publish read the same line twice, so what it is about to write is its
\* request applied to that line, and executable.
LEMMA StagedLine ==
    ASSUME IInv, NEW r \in Publishers, pc[r] \in Staged
    PROVE  /\ seen1[r] = seen2[r]
           /\ seen2[r] \in Lines
           /\ Numbered(seen2[r])
           /\ NewLine(r) = Append(seen2[r], Apply(body[r], Latest(seen2[r])))
           /\ Apply(body[r], Latest(seen2[r])) \in Entry
           /\ NewLine(r) \in Lines
           /\ Numbered(NewLine(r))
           /\ Executable(Latest(NewLine(r)).profiles, Latest(NewLine(r)).settings)
           /\ body[r].base = Version(seen2[r])
           /\ Past(seen2[r], NewLine(r))
<1> r \in Clients
  BY DEF Clients
<1>1. /\ seen1[r] \in snapshots /\ Past(seen1[r], pointer) /\ seen1[r] \in Lines
      /\ seen2[r] \in snapshots /\ Past(seen2[r], pointer) /\ seen2[r] \in Lines
      /\ pointer \in Lines /\ body[r] \in Requests[r]
  BY DEF IInv, SeenInv, TypeOK, Bodies, Staged, Early, Running
<1>2. Numbered(seen1[r]) /\ Numbered(seen2[r])
  BY <1>1 DEF IInv, StoreInv
<1>3. Len(seen1[r]) = Len(seen2[r])
  BY <1>1, <1>2, NumberedVersion DEF IInv, StagedInv, CurrentBase, ExpectedVersion
<1>4. seen1[r] = seen2[r]
  BY <1>1, <1>3, PastEqual DEF Lines
<1> DEFINE e == Apply(body[r], Latest(seen2[r]))
<1>5. NewLine(r) = Append(seen2[r], e)
  BY <1>4 DEF NewLine, Apply
<1>6. Latest(seen2[r]) \in Entry
  BY <1>1, LatestEntry
<1>7. e.version = Version(seen2[r]) + 1 /\ (e.version <= MaxVersion => e \in Entry)
  BY <1>1, <1>6, WrittenFields DEF Apply, Version
<1>8. InRange(r)
  BY DEF IInv, StagedInv
<1>9. Latest(NewLine(r)) = e
  <2>1. Len(seen2[r]) \in Nat /\ seen2[r] \in Seq(Entry)
    BY <1>1, LatestEntry DEF Lines
  <2> HIDE DEF e
  <2>2. seen2[r] \in Seq(Entry \cup {e}) /\ e \in Entry \cup {e}
    BY <2>1, SeqMonotonic
  <2> QED
    BY <1>5, <2>1, <2>2, AppendProperties DEF Latest
<1>10. e \in Entry
  BY <1>7, <1>8, <1>9 DEF InRange, Version
<1>11. NewLine(r) \in Lines /\ Numbered(NewLine(r))
  BY <1>1, <1>2, <1>5, <1>7, <1>10, NumberedAppend
<1>12. Executable(e.profiles, e.settings)
  BY <1>4 DEF IInv, StagedInv, Admissible, Apply, Written
<1>13. Past(seen2[r], NewLine(r))
  <2> HIDE DEF e
  <2>1. Past(seen2[r], seen2[r])
    BY <1>1, LatestEntry DEF Past
  <2> QED
    BY <1>1, <1>5, <1>10, <2>1, PastAppend DEF Lines
<1>14. body[r].base = Version(seen2[r])
  BY DEF IInv, StagedInv, ExpectedVersion
<1> QED
  BY <1>1, <1>2, <1>4, <1>5, <1>9, <1>10, <1>11, <1>12, <1>13, <1>14

\* The versions a request reads, and the current one, are in the order of reading.
LEMMA SeenVersions ==
    ASSUME IInv, NEW r \in Clients, seen1[r] # <<>>, seen2[r] # <<>>,
           Len(seen1[r]) <= Len(seen2[r])
    PROVE  /\ Version(seen1[r]) \in Nat /\ Version(seen2[r]) \in Nat /\ Version(pointer) \in Nat
           /\ Version(seen1[r]) <= Version(seen2[r]) /\ Version(seen2[r]) <= Version(pointer)
<1>1. /\ pointer \in Lines /\ seen1[r] \in Lines /\ seen2[r] \in Lines
      /\ Numbered(pointer) /\ Numbered(seen1[r]) /\ Numbered(seen2[r])
      /\ Past(seen1[r], pointer) /\ Past(seen2[r], pointer)
  BY DEF IInv, SeenInv, StoreInv, TypeOK
<1> QED
  BY <1>1, PastNumbered

\* A pointer that is no longer the one a publish read is a later version.
LEMMA SupersededVersion ==
    ASSUME IInv, NEW r \in Publishers, pc[r] \in Staged, pointer # seen2[r]
    PROVE  Version(pointer) > body[r].base
<1>1. /\ seen2[r] \in Lines /\ Numbered(seen2[r]) /\ body[r].base = Version(seen2[r])
  BY StagedLine
<1>2. pointer \in Lines /\ Numbered(pointer) /\ Past(seen2[r], pointer)
  BY DEF IInv, SeenInv, StoreInv, TypeOK, Clients
<1>3. Past(pointer, pointer)
  BY <1>2, LatestEntry DEF Past
<1>4. Len(seen2[r]) # Len(pointer)
  BY <1>1, <1>2, <1>3, PastEqual DEF Lines
<1> QED
  BY <1>1, <1>2, <1>4, PastNumbered, LatestEntry DEF Past

-----------------------------------------------------------------------------
(* The steps.                                                              *)

\* The invariant holds of what an earlier run left.
LEMMA InitIInv == Init => IInv
<1> SUFFICES ASSUME Init PROVE IInv
  OBVIOUS
<1>1. /\ Earlier \in Lines /\ Len(Earlier) \in 1..Len(Earlier)
      /\ SubSeq(Earlier, 1, Len(Earlier)) = Earlier
  <2>1. Earlier \in Seq(Entry) /\ Len(Earlier) \in Nat \ {0}
    BY EarlierAssumption, LatestEntry DEF Lines
  <2>2. /\ SubSeq(Earlier, 1, Len(Earlier)) \in Seq(Entry)
        /\ Len(SubSeq(Earlier, 1, Len(Earlier))) = Len(Earlier)
        /\ \A i \in 1..Len(Earlier) : SubSeq(Earlier, 1, Len(Earlier))[i] = Earlier[i]
    BY <2>1, SubSeqProperties
  <2>3. SubSeq(Earlier, 1, Len(Earlier)) = Earlier
    BY <2>1, <2>2, SeqEqual
  <2> QED
    BY <2>1, <2>3, EarlierAssumption
<1>2. TypeOK
  <2>1. snapshots \subseteq Lines
    BY EarlierLine DEF Init
  <2> QED
    BY <1>1, <2>1, CrashAssumption DEF Init, TypeOK, Fresh, Steps, Answers, Clients
<1>3. StoreInv
  <2>1. pointer \in snapshots
    BY <1>1 DEF Init
  <2>2. ASSUME NEW line \in snapshots
        PROVE  Numbered(line) /\ Executable(Latest(line).profiles, Latest(line).settings)
    <3>1. PICK n \in 1..Len(Earlier) : line = SubSeq(Earlier, 1, n)
      BY <2>2 DEF Init
    <3> QED
      BY <3>1, EarlierLine, EarlierAssumption
  <2> QED
    BY <2>1, <2>2 DEF StoreInv
<1>4. SeenInv
  BY DEF Init, SeenInv, Fresh, Staged, Early, Running
<1>5. StagedInv /\ QueueInv
  BY DEF Init, StagedInv, QueueInv, Staged, Stored, Running, Clients
<1>6. AnswerInv /\ AnswerTruthful /\ ConflictHasCause
  BY DEF Init, AnswerInv, AnswerTruthful, ConflictHasCause, Clients
<1> QED
  BY <1>2, <1>3, <1>4, <1>5, <1>6 DEF IInv

\* Steps that leave the disk, the bodies, the readings and the committed alone,
\* and move one request on: what they must show is about that request only.
Quiet == UNCHANGED <<disk, up, crashes, body, seen1, seen2, committed>>

\* The queue is as it was, or something joined its end, or its head, r, left.
QueueStep(r) == \/ UNCHANGED queue
                \/ r \in Publishers /\ Enqueue(r)
                \/ r \in Publishers /\ Turn(r) /\ Settle

\* The conjuncts of the invariant that are about r once it is at pc'[r].
Arrived(r) ==
    /\ r \in Readers => pc'[r] \in {"idle", "get1", "snap1", "done"}
    /\ pc'[r] \notin {"idle", "get1", "done"} => seen1[r] # <<>>
    /\ pc'[r] \in Staged \cup {"snap2"} => seen2[r] # <<>> /\ Len(seen1[r]) <= Len(seen2[r])
    /\ pc'[r] \in Early => seen2[r] = <<>>
    /\ r \in Publishers =>
          /\ pc'[r] \in Staged \cup {"get2", "snap2"} =>
                CurrentBase(r) /\ Admissible(body[r], Latest(seen1[r]))
          /\ pc'[r] \in Staged => ExpectedVersion(r) /\ InRange(r)
          /\ pc'[r] \in Stored => NewLine(r) \in snapshots
          /\ pc'[r] \in Running => Turn(r) /\ UNCHANGED queue
          /\ pc'[r] = "ptrFile" => EtagMatches(r)
          /\ pc'[r] = "ptrMeta" => r \in committed
          /\ r \in committed => pc'[r] \in {"ptrMeta", "done"}
          /\ pc'[r] # "done" => answer'[r] = "none"
          /\ answer'[r] = "conflict" =>
                /\ seen1[r] # <<>> /\ r \notin committed
                /\ Version(seen1[r]) # body[r].base \/ Version(pointer) > body[r].base
          /\ answer'[r] = "rejected" => r \notin committed
          /\ answer'[r] = "ok" => r \in committed

\* A step that leaves the queue alone, adds to its end or settles the turn of the
\* request that moves takes nobody else's turn away.
LEMMA TurnKept ==
    ASSUME TypeOK, NEW r \in Clients, NEW s \in Publishers, s # r, Turn(s), QueueStep(r)
    PROVE  Turn(s)'
<1>1. queue \in Seq(Publishers) /\ queue # <<>>
  BY DEF TypeOK, Turn
<1>2. CASE UNCHANGED queue
  BY <1>2 DEF Turn
<1>3. CASE r \in Publishers /\ Enqueue(r)
  BY <1>1, <1>3, HeadTailAppend, AppendProperties DEF Turn, Enqueue
<1>4. CASE r \in Publishers /\ Turn(r) /\ Settle
  BY <1>4 DEF Turn
<1> QED
  BY <1>2, <1>3, <1>4 DEF QueueStep

\* A step that touches neither the disk nor what a request has seen keeps the
\* invariant if the one request that moves has what its next await asks for.
LEMMA QuietStep ==
    ASSUME IInv, NEW r \in Clients, Quiet, QueueStep(r), Arrived(r),
           NEW step \in Steps, NEW a \in Answers,
           pc' = [pc EXCEPT ![r] = step], answer' = [answer EXCEPT ![r] = a]
    PROVE  IInv'
<1> USE DEF Quiet, disk
<1>1. TypeOK'
  <2>1. queue' \in Seq(Publishers)
    <3>1. queue \in Seq(Publishers)
      BY DEF IInv, TypeOK
    <3>2. CASE UNCHANGED queue
      BY <3>1, <3>2
    <3>3. CASE r \in Publishers /\ Enqueue(r)
      BY <3>1, <3>3, AppendProperties DEF Enqueue
    <3>4. CASE r \in Publishers /\ Turn(r) /\ Settle
      BY <3>1, <3>4, HeadTailProperties DEF Turn, Settle
    <3> QED
      BY <3>2, <3>3, <3>4 DEF QueueStep
  <2>2. pc' \in [Clients -> Steps] /\ answer' \in [Clients -> Answers]
    BY DEF IInv, TypeOK
  <2>3. \A s \in Readers : pc'[s] \in {"idle", "get1", "snap1", "done"}
    BY DEF IInv, TypeOK, Arrived, Clients
  <2> QED
    BY <2>1, <2>2, <2>3 DEF IInv, TypeOK
<1>2. StoreInv'
  BY DEF IInv, StoreInv
<1>3. \A s \in Clients : s # r => pc'[s] = pc[s] /\ answer'[s] = answer[s]
  BY DEF IInv, TypeOK
<1>4. SeenInv'
  BY <1>3 DEF IInv, SeenInv, Arrived
<1>5. StagedInv'
  BY <1>3 DEF IInv, StagedInv, Arrived, CurrentBase, ExpectedVersion, InRange, NewLine, Clients
<1>6. QueueInv'
  <2> SUFFICES ASSUME NEW s \in Publishers
               PROVE  /\ pc'[s] \in Running => Turn(s)'
                      /\ pc'[s] = "ptrFile" => EtagMatches(s)'
    BY DEF QueueInv
  <2>1. CASE s = r
    BY <2>1 DEF Arrived, Turn, EtagMatches
  <2>2. CASE s # r
    <3>1. pc'[s] = pc[s]
      BY <1>3, <2>2 DEF Clients
    <3>2. pc[s] \in Running => Turn(s)'
      BY <2>2, TurnKept DEF IInv, QueueInv
    <3> QED
      BY <3>1, <3>2 DEF IInv, QueueInv, EtagMatches
  <2> QED
    BY <2>1, <2>2
<1>7. AnswerInv' /\ AnswerTruthful' /\ ConflictHasCause'
  BY <1>3 DEF IInv, AnswerInv, AnswerTruthful, ConflictHasCause, Arrived, Clients
<1> QED
  BY <1>1, <1>2, <1>4, <1>5, <1>6, <1>7 DEF IInv

\* The same, for a step of one request by Goto or Finish.
LEMMA QuietMove ==
    ASSUME IInv, NEW r \in Clients, Quiet, QueueStep(r), Arrived(r),
           \/ \E step \in Steps : Goto(r, step)
           \/ \E a \in Answers : Finish(r, a)
    PROVE  IInv'
<1>1. CASE \E step \in Steps : Goto(r, step)
  <2>1. answer' = [answer EXCEPT ![r] = answer[r]] /\ answer[r] \in Answers
    BY <1>1 DEF IInv, TypeOK, Goto
  <2>2. PICK step \in Steps : pc' = [pc EXCEPT ![r] = step]
    BY <1>1 DEF Goto
  <2> QED
    BY <2>1, <2>2, QuietStep
<1>2. CASE \E a \in Answers : Finish(r, a)
  <2>1. "done" \in Steps
    BY DEF Steps
  <2> QED
    BY <1>2, <2>1, QuietStep DEF Finish
<1> QED
  BY <1>1, <1>2

\* Only publishers get past the reading of a snapshot.
LEMMA PublisherSteps ==
    ASSUME TypeOK, NEW r \in Clients, pc[r] \notin {"idle", "get1", "snap1", "done"}
    PROVE  r \in Publishers
BY DEF TypeOK, Clients

\* Every action but the readings of the pointer, the renames and the crash is quiet.
LEMMA QuietActions ==
    ASSUME IInv, NEW r \in Clients,
           \/ Arrive(r) \/ ReadSnapshot(r) \/ SessionInvalid(r) \/ Admit(r)
           \/ ReadSnapshotAgain(r) \/ SnapshotCheck(r) \/ SnapshotDone(r)
           \/ PointerEnqueue(r) \/ PointerCheck(r) \/ PointerDone(r) \/ IoError(r)
    PROVE  IInv'
<1> USE DEF Goto, Finish
<1>0. /\ TypeOK /\ SeenInv /\ StagedInv /\ QueueInv /\ AnswerInv
      /\ pc \in [Clients -> Steps] /\ answer \in [Clients -> Answers]
  BY DEF IInv, TypeOK
<1>1. CASE Arrive(r)
  <2>1. Quiet /\ QueueStep(r)
    BY <1>1 DEF Arrive, process, disk, Quiet, QueueStep
  <2>2. Arrived(r)
    BY <1>0, <1>1 DEF Arrive, Arrived, AnswerInv, SeenInv, Staged, Stored, Early, Running, IInv,
                      AnswerTruthful, ConflictHasCause
  <2> QED
    BY <1>1, <2>1, <2>2, QuietMove DEF Arrive, Steps, ReadSteps
<1>2. CASE ReadSnapshot(r)
  <2>1. Quiet /\ QueueStep(r)
    BY <1>2 DEF ReadSnapshot, process, disk, Quiet, QueueStep
  <2>2. Arrived(r)
    BY <1>0, <1>2, CatalogAssumption
       DEF ReadSnapshot, Arrived, AnswerInv, SeenInv, Staged, Stored, Early, Running,
           IInv, StoreInv, Clients
  <2> QED
    BY <1>2, <2>1, <2>2, QuietMove DEF ReadSnapshot, Steps, Answers
<1>3. CASE SessionInvalid(r)
  <2>1. Quiet /\ QueueStep(r)
    BY <1>3 DEF SessionInvalid, process, disk, Quiet, QueueStep
  <2>2. Arrived(r)
    BY <1>0, <1>3 DEF SessionInvalid, Arrived, AnswerInv, SeenInv, Staged, Stored, Early, Running
  <2> QED
    BY <1>3, <2>1, <2>2, QuietMove DEF SessionInvalid, Answers
<1>4. CASE Admit(r)
  <2>1. Quiet /\ QueueStep(r)
    BY <1>4 DEF Admit, process, disk, Quiet, QueueStep
  <2>2. r \in Publishers
    BY <1>0, <1>4, PublisherSteps DEF Admit
  <2>3. Arrived(r)
    BY <1>0, <1>4, <2>2, CatalogAssumption
       DEF Admit, CurrentBase, Arrived, AnswerInv, SeenInv, Staged, Stored, Early, Running
  <2> QED
    BY <1>4, <2>1, <2>3, QuietMove DEF Admit, Steps, ReadSteps, Answers
<1>5. CASE ReadSnapshotAgain(r)
  <2>1. r \in Publishers
    BY <1>0, <1>5, PublisherSteps DEF ReadSnapshotAgain
  <2>2. Quiet /\ QueueStep(r)
    BY <1>5, <2>1 DEF ReadSnapshotAgain, disk, Quiet, QueueStep
  <2>3. /\ seen1[r] # <<>> /\ seen2[r] # <<>> /\ Len(seen1[r]) <= Len(seen2[r])
        /\ CurrentBase(r) /\ r \notin committed
        /\ Admissible(body[r], Latest(seen1[r])) /\ answer[r] = "none"
    BY <1>0, <1>5, <2>1 DEF ReadSnapshotAgain, SeenInv, StagedInv, AnswerInv
  <2>4. ~ExpectedVersion(r) => Version(pointer) > body[r].base
    BY <1>0, <2>3, SeenVersions DEF CurrentBase, ExpectedVersion
  <2>5. CASE Enqueue(r) /\ Goto(r, "putSnap") /\ ExpectedVersion(r) /\ InRange(r)
    <3>1. pc'[r] = "putSnap" /\ answer'[r] = "none"
      BY <1>0, <2>3, <2>5
    <3>2. Arrived(r)
      BY <2>1, <2>3, <2>5, <3>1, CatalogAssumption DEF Arrived, Staged, Stored, Early, Running
    <3> QED
      BY <2>2, <2>5, <3>2, QuietMove DEF Steps, PutSteps
  <2>6. CASE Finish(r, "error")
    <3>1. pc'[r] = "done" /\ answer'[r] = "error"
      BY <1>0, <2>6
    <3>2. Arrived(r)
      BY <2>1, <2>3, <3>1, CatalogAssumption DEF Arrived, Staged, Stored, Early, Running
    <3> QED
      BY <2>2, <2>6, <3>2, QuietMove DEF Answers
  <2>7. CASE Finish(r, "conflict") /\ ~ExpectedVersion(r)
    <3>1. pc'[r] = "done" /\ answer'[r] = "conflict"
      BY <1>0, <2>7
    <3>2. Arrived(r)
      BY <2>1, <2>3, <2>4, <2>7, <3>1, CatalogAssumption DEF Arrived, Staged, Stored, Early, Running
    <3> QED
      BY <2>2, <2>7, <3>2, QuietMove DEF Answers
  <2> QED
    BY <1>5, <2>5, <2>6, <2>7 DEF ReadSnapshotAgain
<1>6. CASE SnapshotCheck(r)
  <2>1. r \in Publishers
    BY <1>0, <1>6, PublisherSteps DEF SnapshotCheck
  <2>2. Quiet /\ QueueStep(r)
    BY <1>6, <2>1 DEF SnapshotCheck, disk, Quiet, QueueStep
  <2>3. Arrived(r)
    BY <1>0, <1>6, <2>1, CatalogAssumption
       DEF SnapshotCheck, Arrived, AnswerInv, SeenInv, StagedInv, Staged, Stored, Early, Running
  <2> QED
    BY <1>6, <2>2, <2>3, QuietMove DEF SnapshotCheck, Steps, PutSteps
<1>7. CASE SnapshotDone(r)
  <2>1. r \in Publishers
    BY <1>0, <1>7, PublisherSteps DEF SnapshotDone
  <2>2. Quiet /\ QueueStep(r)
    BY <1>7, <2>1 DEF SnapshotDone, disk, Quiet, QueueStep
  <2>3. Arrived(r)
    BY <1>0, <1>7, <2>1, CatalogAssumption
       DEF SnapshotDone, Arrived, AnswerInv, SeenInv, StagedInv, Staged, Stored, Early, Running
  <2> QED
    BY <1>7, <2>2, <2>3, QuietMove DEF SnapshotDone, Steps, PutSteps
<1>8. CASE PointerEnqueue(r)
  <2>1. r \in Publishers
    BY <1>0, <1>8, PublisherSteps DEF PointerEnqueue
  <2>2. Quiet /\ QueueStep(r)
    BY <1>8, <2>1 DEF PointerEnqueue, disk, Quiet, QueueStep
  <2>3. Arrived(r)
    BY <1>0, <1>8, <2>1, CatalogAssumption
       DEF PointerEnqueue, Arrived, AnswerInv, SeenInv, StagedInv, Staged, Stored, Early, Running
  <2> QED
    BY <1>8, <2>2, <2>3, QuietMove DEF PointerEnqueue, Steps, PutSteps
<1>9. CASE PointerCheck(r)
  <2>1. r \in Publishers
    BY <1>0, <1>9, PublisherSteps DEF PointerCheck
  <2>2. Quiet /\ QueueStep(r)
    BY <1>9, <2>1 DEF PointerCheck, disk, Quiet, QueueStep
  <2>3. ~EtagMatches(r) => Version(pointer) > body[r].base
    BY <1>0, <1>9, <2>1, SupersededVersion DEF PointerCheck, EtagMatches, Staged
  <2>4. Arrived(r)
    BY <1>0, <1>9, <2>1, <2>3, CatalogAssumption
       DEF PointerCheck, Arrived, AnswerInv, SeenInv, StagedInv, Staged, Stored, Early, Running
  <2> QED
    BY <1>9, <2>2, <2>4, QuietMove DEF PointerCheck, Steps, PutSteps, Answers
<1>10. CASE PointerDone(r)
  <2>1. r \in Publishers
    BY <1>0, <1>10, PublisherSteps DEF PointerDone
  <2>2. Quiet /\ QueueStep(r)
    BY <1>10, <2>1 DEF PointerDone, disk, Quiet, QueueStep
  <2>3. Arrived(r)
    BY <1>0, <1>10, <2>1, CatalogAssumption
       DEF PointerDone, Arrived, AnswerInv, Staged, Stored, Early, Running
  <2> QED
    BY <1>10, <2>2, <2>3, QuietMove DEF PointerDone, Answers
<1>11. CASE IoError(r)
  <2>1. pc[r] \in PutSteps => r \in Publishers
    BY <1>0, PublisherSteps DEF PutSteps
  <2>2. Quiet /\ QueueStep(r)
    BY <1>11, <2>1 DEF IoError, disk, Quiet, QueueStep
  <2>3. Arrived(r)
    BY <1>0, <1>11 DEF IoError, Arrived, Staged, Stored, Early, Running
  <2> QED
    BY <1>11, <2>2, <2>3, QuietMove DEF IoError, Answers
<1> QED
  BY <1>1, <1>2, <1>3, <1>4, <1>5, <1>6, <1>7, <1>8, <1>9, <1>10, <1>11

\* The first reading of the pointer keeps the invariant.
LEMMA ReadPointerStep ==
    ASSUME IInv, NEW r \in Clients, ReadPointer(r)
    PROVE  IInv'
<1> USE DEF ReadPointer, Goto, disk, process
<1>1. /\ pc' = [pc EXCEPT ![r] = "snap1"] /\ seen1' = [seen1 EXCEPT ![r] = pointer]
      /\ pointer \in Lines /\ pointer \in snapshots /\ Past(pointer, pointer)
      /\ pc \in [Clients -> Steps] /\ seen1 \in [Clients -> Seq(Entry)]
  <2>1. pointer \in Lines
    BY DEF IInv, TypeOK
  <2>2. Past(pointer, pointer)
    BY <2>1, LatestEntry DEF Past
  <2> QED
    BY <2>1, <2>2 DEF IInv, TypeOK, StoreInv
<1>2. pc'[r] = "snap1" /\ seen1'[r] = pointer
      /\ \A s \in Clients : s # r => pc'[s] = pc[s] /\ seen1'[s] = seen1[s]
  BY <1>1
<1>3. TypeOK'
  BY <1>1 DEF IInv, TypeOK, Steps, ReadSteps, Lines
<1>4. StoreInv'
  BY DEF IInv, StoreInv
<1>5. SeenInv'
  BY <1>1, <1>2 DEF IInv, SeenInv, Lines, Staged, Early, Running
<1>6. StagedInv'
  BY <1>2 DEF IInv, StagedInv, CurrentBase, ExpectedVersion, InRange, NewLine, Clients,
              Staged, Stored, Running
<1>7. QueueInv'
  BY <1>2 DEF IInv, QueueInv, Running, Turn, EtagMatches, Clients
<1>8. AnswerInv' /\ AnswerTruthful' /\ ConflictHasCause'
  BY <1>1, <1>2 DEF IInv, AnswerInv, AnswerTruthful, ConflictHasCause, Clients, Lines
<1> QED
  BY <1>3, <1>4, <1>5, <1>6, <1>7, <1>8 DEF IInv

\* So does the second.
LEMMA ReadPointerAgainStep ==
    ASSUME IInv, NEW r \in Clients, ReadPointerAgain(r)
    PROVE  IInv'
<1> USE DEF ReadPointerAgain, Goto, disk, process
<1>1. /\ pc' = [pc EXCEPT ![r] = "snap2"] /\ seen2' = [seen2 EXCEPT ![r] = pointer]
      /\ pointer \in Lines /\ pointer \in snapshots /\ Past(pointer, pointer)
      /\ pc \in [Clients -> Steps] /\ seen2 \in [Clients -> Seq(Entry)]
  <2>1. pointer \in Lines
    BY DEF IInv, TypeOK
  <2>2. Past(pointer, pointer)
    BY <2>1, LatestEntry DEF Past
  <2> QED
    BY <2>1, <2>2 DEF IInv, TypeOK, StoreInv
<1>2. pc'[r] = "snap2" /\ seen2'[r] = pointer
      /\ \A s \in Clients : s # r => pc'[s] = pc[s] /\ seen2'[s] = seen2[s]
  BY <1>1
<1>3. r \in Publishers
  BY PublisherSteps DEF IInv
<1>4. TypeOK'
  BY <1>1, <1>3, CatalogAssumption DEF IInv, TypeOK, Steps, ReadSteps, Lines
<1>5. StoreInv'
  BY DEF IInv, StoreInv
<1>6. SeenInv'
  <2>1. seen1[r] # <<>> /\ Len(seen1[r]) <= Len(pointer)
    BY DEF IInv, SeenInv, Past
  <2> QED
    BY <1>1, <1>2, <2>1 DEF IInv, SeenInv, Lines, Staged, Early, Running
<1>7. StagedInv'
  BY <1>2 DEF IInv, StagedInv, CurrentBase, ExpectedVersion, InRange, NewLine, Clients,
              Staged, Stored, Running
<1>8. QueueInv'
  BY <1>2 DEF IInv, QueueInv, Running, Turn, EtagMatches, Clients
<1>9. AnswerInv' /\ AnswerTruthful' /\ ConflictHasCause'
  BY <1>2 DEF IInv, AnswerInv, AnswerTruthful, ConflictHasCause, Clients
<1> QED
  BY <1>4, <1>5, <1>6, <1>7, <1>8, <1>9 DEF IInv

\* A new snapshot is numbered and executable.
LEMMA SnapshotRenameStep ==
    ASSUME IInv, NEW r \in Clients, SnapshotRename(r)
    PROVE  IInv'
<1> USE DEF SnapshotRename, Goto, process
<1>1. r \in Publishers
  BY PublisherSteps DEF IInv
<1>2. /\ pc' = [pc EXCEPT ![r] = "snapMeta"] /\ snapshots' = snapshots \cup {NewLine(r)}
      /\ NewLine(r) \in Lines /\ Numbered(NewLine(r))
      /\ Executable(Latest(NewLine(r)).profiles, Latest(NewLine(r)).settings)
      /\ pc \in [Clients -> Steps]
  BY <1>1, StagedLine DEF IInv, TypeOK, Staged, Running
<1>3. pc'[r] = "snapMeta" /\ \A s \in Clients : s # r => pc'[s] = pc[s]
  BY <1>2
<1>4. TypeOK'
  BY <1>1, <1>2, CatalogAssumption DEF IInv, TypeOK, Steps, PutSteps
<1>5. StoreInv'
  BY <1>2 DEF IInv, StoreInv
<1>6. SeenInv'
  BY <1>2, <1>3 DEF IInv, SeenInv, Staged, Early, Running
<1>7. StagedInv'
  BY <1>2, <1>3 DEF IInv, StagedInv, CurrentBase, ExpectedVersion, InRange, NewLine, Clients,
                    Staged, Stored, Running
<1>8. QueueInv'
  BY <1>3 DEF IInv, QueueInv, Running, Turn, EtagMatches, Clients
<1>9. AnswerInv' /\ AnswerTruthful' /\ ConflictHasCause'
  BY <1>3 DEF IInv, AnswerInv, AnswerTruthful, ConflictHasCause, Clients
<1> QED
  BY <1>4, <1>5, <1>6, <1>7, <1>8, <1>9 DEF IInv

\* The pointer moves to a child of the line it named.
LEMMA PointerRenameMoves ==
    ASSUME IInv, NEW r \in Clients, PointerRename(r)
    PROVE  /\ r \in Publishers \ committed
           /\ body[r].base = Version(pointer)
           /\ Admissible(body[r], Latest(pointer))
           /\ pointer' = Append(pointer, Apply(body[r], Latest(pointer)))
           /\ pointer' = NewLine(r)
           /\ Apply(body[r], Latest(pointer)) \in Entry
           /\ Version(pointer') = Version(pointer) + 1
<1> USE DEF PointerRename
<1>1. r \in Publishers /\ pc[r] \in Staged
  BY PublisherSteps DEF IInv, Staged, Running
<1>2. pointer = seen2[r] /\ r \notin committed
  BY <1>1 DEF IInv, QueueInv, EtagMatches, AnswerInv
<1>3. Admissible(body[r], Latest(pointer))
  BY <1>1, <1>2, StagedLine DEF IInv, StagedInv
<1>4. Latest(pointer) \in Entry /\ pointer \in Lines /\ Numbered(pointer) /\ body[r] \in Requests[r]
  BY <1>1, LatestEntry DEF IInv, TypeOK, Bodies, StoreInv
<1>5. Apply(body[r], Latest(pointer)).version = Version(pointer) + 1
      /\ Apply(body[r], Latest(pointer)) \in Entry
  BY <1>1, <1>2, <1>4, WrittenFields, StagedLine DEF Apply, Version
<1>6. Latest(Append(pointer, Apply(body[r], Latest(pointer))))
          = Apply(body[r], Latest(pointer))
  BY <1>4, <1>5, NumberedAppend
<1> QED
  BY <1>1, <1>2, <1>3, <1>5, <1>6, StagedLine DEF Version

\* The rename of the pointer keeps the invariant.
LEMMA PointerRenameStep ==
    ASSUME IInv, NEW r \in Clients, PointerRename(r)
    PROVE  IInv'
<1> USE DEF PointerRename, Goto, process
<1>1. r \in Publishers /\ pc[r] \in Staged /\ pc[r] \in Stored /\ pc[r] \in Running
  BY PublisherSteps DEF IInv, Staged, Stored, Running
<1>2. /\ pc' = [pc EXCEPT ![r] = "ptrMeta"] /\ pointer' = NewLine(r)
      /\ NewLine(r) \in Lines /\ NewLine(r) \in snapshots
      /\ pc \in [Clients -> Steps] /\ Turn(r)
  BY <1>1, StagedLine DEF IInv, TypeOK, StagedInv
<1>3. pc'[r] = "ptrMeta" /\ \A s \in Clients : s # r => pc'[s] = pc[s]
  BY <1>2
<1>4. /\ pointer \in Lines /\ Version(pointer') = Version(pointer) + 1
      /\ Version(pointer) \in Nat
      /\ \A l \in Lines : Past(l, pointer) => Past(l, pointer')
  <2>1. pointer \in Lines /\ Numbered(pointer)
    BY DEF IInv, TypeOK, StoreInv
  <2>2. Version(pointer) \in Nat
    BY <2>1, LatestEntry, NumberedVersion
  <2>3. ASSUME NEW l \in Lines, Past(l, pointer) PROVE Past(l, pointer')
    BY <2>1, <2>3, PointerRenameMoves, PastAppend DEF Lines
  <2> QED
    BY <2>1, <2>2, <2>3, PointerRenameMoves
<1>5. TypeOK'
  BY <1>1, <1>2, CatalogAssumption DEF IInv, TypeOK, Steps, PutSteps
<1>6. StoreInv'
  BY <1>2 DEF IInv, StoreInv
<1>7. SeenInv'
  BY <1>3, <1>4 DEF IInv, SeenInv, TypeOK, Staged, Early, Running
<1>8. StagedInv'
  BY <1>3 DEF IInv, StagedInv, CurrentBase, ExpectedVersion, InRange, NewLine, Clients,
              Staged, Stored, Running
<1>9. QueueInv'
  <2> SUFFICES ASSUME NEW s \in Publishers
               PROVE  /\ pc'[s] \in Running => Turn(s)'
                      /\ pc'[s] = "ptrFile" => EtagMatches(s)'
    BY DEF QueueInv
  <2>1. CASE s = r
    BY <1>2, <1>3, <2>1 DEF Turn
  <2>2. CASE s # r
    BY <1>2, <1>3, <2>2 DEF IInv, QueueInv, Turn, Running, Clients
  <2> QED
    BY <2>1, <2>2
<1>10. AnswerInv'
  BY <1>3 DEF IInv, AnswerInv, Clients
<1>11. AnswerTruthful'
  BY <1>1, <1>3 DEF IInv, AnswerTruthful, AnswerInv
<1>12. ConflictHasCause'
  <2> SUFFICES ASSUME NEW s \in Publishers, answer[s] = "conflict"
               PROVE  \/ Version(seen1[s]) # body[s].base
                      \/ Version(pointer') > body[s].base
    BY DEF ConflictHasCause
  <2>1. body[s].base \in Nat
    BY BodyRequest DEF IInv
  <2> QED
    BY <1>4, <2>1 DEF IInv, ConflictHasCause
<1> QED
  BY <1>5, <1>6, <1>7, <1>8, <1>9, <1>10, <1>11, <1>12 DEF IInv

\* A kill keeps the invariant.
LEMMA CrashStep ==
    ASSUME IInv, Crash
    PROVE  IInv'
<1> USE DEF Crash, disk
<1>1. \A r \in Clients : /\ InFlight(r) => pc'[r] = "done" /\ answer'[r] = "lost"
                         /\ ~InFlight(r) => pc'[r] = pc[r] /\ answer'[r] = answer[r]
                         /\ pc'[r] \in {"idle", "done"}
  BY DEF InFlight
<1>2. TypeOK'
  <2>1. pc' \in [Clients -> Steps] /\ answer' \in [Clients -> Answers]
    BY DEF IInv, TypeOK, Steps, Answers
  <2>2. \A r \in Readers : pc'[r] \in {"idle", "get1", "snap1", "done"}
    BY <1>1 DEF Clients
  <2>3. crashes' \in 0..MaxCrashes /\ up' \in BOOLEAN
    <3>1. crashes \in 0..MaxCrashes /\ crashes < MaxCrashes /\ crashes' = crashes + 1
      BY DEF IInv, TypeOK
    <3>2. crashes' \in 0..MaxCrashes
      BY <3>1, CrashAssumption
    <3> QED
      BY <3>2
  <2>4. queue' \in Seq(Publishers)
    BY EmptySeq
  <2> QED
    BY <2>1, <2>2, <2>3, <2>4 DEF IInv, TypeOK
<1>3. StoreInv'
  BY DEF IInv, StoreInv
<1>4. SeenInv'
  BY <1>1 DEF IInv, SeenInv, Staged, Early, Running
<1>5. StagedInv' /\ QueueInv'
  BY <1>1 DEF StagedInv, QueueInv, Staged, Stored, Running, Clients
<1>6. AnswerInv' /\ AnswerTruthful' /\ ConflictHasCause'
  BY <1>1 DEF IInv, AnswerInv, AnswerTruthful, ConflictHasCause, Clients, InFlight
<1> QED
  BY <1>2, <1>3, <1>4, <1>5, <1>6 DEF IInv

\* Every step keeps the invariant.
LEMMA IInvStep == IInv /\ [Next]_vars => IInv'
<1> SUFFICES ASSUME IInv, [Next]_vars PROVE IInv'
  OBVIOUS
<1>1. ASSUME NEW r \in Clients, Arrive(r) \/ Progress(r) PROVE IInv'
  BY <1>1, QuietActions, ReadPointerStep, ReadPointerAgainStep, SnapshotRenameStep,
     PointerRenameStep DEF Progress, Read, Route, Put
<1>2. CASE Crash
  BY <1>2, CrashStep
<1>3. CASE Restart
  BY <1>3 DEF Restart, disk, IInv, TypeOK, StoreInv, SeenInv, StagedInv, QueueInv, AnswerInv,
              AnswerTruthful, ConflictHasCause, CurrentBase, ExpectedVersion, InRange,
              NewLine, Turn, EtagMatches
<1>4. CASE UNCHANGED vars
  BY <1>4 DEF vars, process, disk, IInv, TypeOK, StoreInv, SeenInv, StagedInv, QueueInv,
              AnswerInv, AnswerTruthful, ConflictHasCause, CurrentBase, ExpectedVersion,
              InRange, NewLine, Turn, EtagMatches
<1> QED
  BY <1>1, <1>2, <1>3, <1>4 DEF Next

-----------------------------------------------------------------------------
(* The theorems.                                                           *)

\* The inductive invariant holds of every run of the server.
THEOREM Invariance == SafeSpec => []IInv
BY InitIInv, IInvStep, PTL DEF SafeSpec

\* Type correctness.
THEOREM TypeCorrect == SafeSpec => []TypeOK
BY Invariance, PTL DEF IInv

\* No read ever finds the snapshot it was pointed to missing, in any interleaving
\* of publishes, failures and crashes.
THEOREM ReadsSucceed == SafeSpec => []PointedSnapshotExists
<1>1. IInv => PointedSnapshotExists
  BY DEF IInv, StoreInv, SeenInv, PointedSnapshotExists
<1> QED
  BY <1>1, Invariance, PTL

\* Success means the version was published, a refusal that it was not
\* (publishCatalog in catalog-publish.js and the routes that call it).
THEOREM AnswersHonest == SafeSpec => []AnswerTruthful
BY Invariance, PTL DEF IInv

\* A publisher is told of a conflict only when another version than its base was
\* there (the three checks that throw CatalogPublishConflictError: of the route,
\* of publishCatalog, and of the pointer's ETag in putR2CurrentPointer).
THEOREM ConflictsCaused == SafeSpec => []ConflictHasCause
BY Invariance, PTL DEF IInv

\* Every version in the bucket is executable by the adapters stored with it.
THEOREM VersionsExecutable == SafeSpec => []CatalogExecutable
<1>1. IInv => CatalogExecutable
  BY DEF IInv, StoreInv, CatalogExecutable
<1> QED
  BY <1>1, Invariance, PTL

\* Every step that moves the pointer appends one publisher's version to the one it targeted.
LEMMA NoLostUpdateStep ==
    ASSUME IInv, Next
    PROVE  pointer' # pointer =>
             \E r \in Publishers :
                /\ r \notin committed
                /\ committed' = committed \cup {r}
                /\ body[r].base = Version(pointer)
                /\ pointer' = Append(pointer, Apply(body[r], Latest(pointer)))
<1> SUFFICES ASSUME pointer' # pointer
             PROVE  \E r \in Publishers :
                      /\ r \notin committed
                      /\ committed' = committed \cup {r}
                      /\ body[r].base = Version(pointer)
                      /\ pointer' = Append(pointer, Apply(body[r], Latest(pointer)))
  OBVIOUS
<1>1. PICK r \in Clients : PointerRename(r)
  BY DEF Next, Progress, Read, Route, Put, Arrive, ReadPointer, ReadSnapshot, SessionInvalid,
         Admit, ReadPointerAgain, ReadSnapshotAgain, SnapshotCheck, SnapshotRename,
         SnapshotDone, PointerEnqueue, PointerCheck, PointerDone, IoError, Crash, Restart, disk
<1>2. committed' = committed \cup {r}
  BY <1>1 DEF PointerRename
<1> QED
  BY <1>1, <1>2, PointerRenameMoves

\* Optimistic locking: no version is ever overwritten, and no publish is applied
\* to a version other than its base.
THEOREM UpdatesKept == SafeSpec => NoLostUpdate
<1>1. IInv /\ [Next]_vars =>
        [pointer' # pointer =>
           \E r \in Publishers :
              /\ r \notin committed
              /\ committed' = committed \cup {r}
              /\ body[r].base = Version(pointer)
              /\ pointer' = Append(pointer, Apply(body[r], Latest(pointer)))]_vars
  BY NoLostUpdateStep
<1> QED
  BY <1>1, Invariance, PTL DEF SafeSpec, NoLostUpdate

-----------------------------------------------------------------------------
(* The store implements the register.                                      *)

\* What the store holds is what the register's operators expect.
LEMMA RegisterData ==
    /\ Register!Clients = Clients
    /\ Register!Bodies = Bodies
    /\ \A l : Register!Latest(l) = Latest(l) /\ Register!Version(l) = Version(l)
    /\ \A q, e : Register!Apply(q, e) = Apply(q, e)
    /\ \A q, e : Register!Admissible(q, e) = Admissible(q, e)
<1>1. /\ Register!Clients = Clients
      /\ Register!Bodies = Bodies
      /\ \A l : Register!Latest(l) = Latest(l) /\ Register!Version(l) = Version(l)
  BY DEF Register!Clients, Clients, Register!Bodies, Bodies, Register!Latest, Latest,
         Register!Version, Version
<1>2. \A q, e : Register!FinalProfiles(q, e) = FinalProfiles(q, e)
  BY DEF Register!FinalProfiles, FinalProfiles, Register!HasProfiles, HasProfiles
<1>3. \A q, e : Register!FinalSettings(q, e) = FinalSettings(q, e)
  BY DEF Register!FinalSettings, FinalSettings
<1>4. \A q, e : Register!Apply(q, e) = Apply(q, e)
  BY <1>2, <1>3 DEF Register!Apply, Apply, Register!Written, Written
<1>5. \A q, e : Register!Admissible(q, e) = Admissible(q, e)
  BY <1>2, <1>3 DEF Register!Admissible, Admissible, Register!HasProfiles, HasProfiles,
                    Register!Executable, Executable
<1> QED
  BY <1>1, <1>4, <1>5

\* What an earlier run left is the initial register.
LEMMA RegisterInit == Init => Register!Init
<1> SUFFICES ASSUME Init PROVE Register!Init
  OBVIOUS
<1>1. [r \in Clients |-> State(r)] = [r \in Clients |-> "idle"]
  BY DEF Init, State
<1>2. [r \in Clients |-> View(r)] = [r \in Clients |-> <<>>]
  BY DEF Init, View, Fresh
<1> QED
  BY <1>1, <1>2, RegisterData DEF Init, Register!Init

\* A request that moves on without being answered is still pending, one that is
\* answered is done; neither changes what the register holds.
LEMMA GotoMaps ==
    ASSUME TypeOK, NEW r \in Clients, NEW step \in Steps \ {"idle", "done"}, InFlight(r),
           Goto(r, step), UNCHANGED <<pointer, body, seen1, seen2, committed>>
    PROVE  UNCHANGED Register!vars
<1>1. \A s \in Clients : State(s)' = State(s) /\ View(s)' = View(s)
  BY DEF TypeOK, Goto, InFlight, State, View
<1>2. [s \in Clients |-> State(s)]' = [s \in Clients |-> State(s)]
      /\ [s \in Clients |-> View(s)]' = [s \in Clients |-> View(s)]
  BY <1>1
<1> QED
  BY <1>2 DEF Register!vars, Goto

\* An answer of the store is an answer of the register when it is justified there.
LEMMA FinishMaps ==
    ASSUME TypeOK, NEW r \in Clients, InFlight(r), NEW a \in {"ok", "conflict", "rejected", "error"},
           Register!Justified(r, a),
           Finish(r, a), UNCHANGED <<pointer, body, seen1, seen2, committed>>
    PROVE  Register!Next
<1>1. \A s \in Clients : /\ View(s)' = View(s)
                         /\ State(s)' = IF s = r THEN "done" ELSE State(s)
  BY DEF TypeOK, Finish, InFlight, State, View
<1>2. State(r) = "pending"
  BY DEF InFlight, State
<1>3. [s \in Clients |-> State(s)]' = [[s \in Clients |-> State(s)] EXCEPT ![r] = "done"]
  BY <1>1
<1>4. [s \in Clients |-> View(s)]' = [s \in Clients |-> View(s)]
  BY <1>1
<1>5. Register!Answer(r)
  BY <1>2, <1>3, <1>4 DEF Register!Answer, Finish
<1> QED
  BY <1>5, RegisterData DEF Register!Next

\* Every step of the store is a step of the register, or none.
LEMMA RegisterStep == IInv /\ IInv' /\ [Next]_vars => [Register!Next]_(Register!vars)
<1> SUFFICES ASSUME IInv, IInv', [Next]_vars
             PROVE  Register!Next \/ UNCHANGED Register!vars
  OBVIOUS
<1>0. TypeOK /\ SeenInv /\ AnswerInv
  BY DEF IInv
<1>1. ASSUME NEW r \in Clients, Arrive(r) PROVE Register!Next
  <2>1. [s \in Clients |-> State(s)]' = [[s \in Clients |-> State(s)] EXCEPT ![r] = "pending"]
        /\ State(r) = "idle"
    BY <1>0, <1>1 DEF TypeOK, Arrive, Goto, State
  <2>2. [s \in Clients |-> View(s)]' = [s \in Clients |-> View(s)]
    BY <1>1 DEF Arrive, View
  <2>3. Register!Submit(r)
    BY <1>1, <2>1, <2>2 DEF Register!Submit, Arrive, Goto, disk
  <2> QED
    BY <2>3, RegisterData DEF Register!Next
<1>2. ASSUME NEW r \in Clients, ReadPointer(r) PROVE Register!Next
  <2>1. /\ [s \in Clients |-> State(s)]' = [s \in Clients |-> State(s)]
        /\ State(r) = "pending"
    BY <1>0, <1>2 DEF TypeOK, ReadPointer, Goto, State
  <2>2. seen2[r] = <<>>
    BY <1>0, <1>2 DEF ReadPointer, SeenInv, Early
  <2>3. [s \in Clients |-> View(s)]' = [[s \in Clients |-> View(s)] EXCEPT ![r] = pointer]
    BY <1>0, <1>2, <2>2 DEF TypeOK, ReadPointer, View
  <2>4. Register!Look(r)
    BY <1>2, <2>1, <2>3 DEF Register!Look, ReadPointer, Goto, disk
  <2> QED
    BY <2>4, RegisterData DEF Register!Next
<1>3. ASSUME NEW r \in Clients, ReadPointerAgain(r) PROVE Register!Next
  <2>1. /\ [s \in Clients |-> State(s)]' = [s \in Clients |-> State(s)]
        /\ State(r) = "pending"
    BY <1>0, <1>3 DEF TypeOK, ReadPointerAgain, Goto, State
  <2>2. pointer # <<>>
    BY <1>0 DEF TypeOK, Lines
  <2>3. [s \in Clients |-> View(s)]' = [[s \in Clients |-> View(s)] EXCEPT ![r] = pointer]
    BY <1>0, <1>3, <2>2 DEF TypeOK, ReadPointerAgain, View
  <2>4. Register!Look(r)
    BY <1>3, <2>1, <2>3 DEF Register!Look, ReadPointerAgain, Goto, disk
  <2> QED
    BY <2>4, RegisterData DEF Register!Next
<1>4. ASSUME NEW r \in Clients, PointerRename(r) PROVE Register!Next
  <2>1. /\ [s \in Clients |-> State(s)]' = [s \in Clients |-> State(s)]
        /\ State(r) = "pending"
    BY <1>0, <1>4 DEF TypeOK, PointerRename, Goto, State
  <2>2. [s \in Clients |-> View(s)]' = [s \in Clients |-> View(s)]
    BY <1>4 DEF PointerRename, View
  <2>3. Register!Publish(r)
    BY <1>4, <2>1, <2>2, PointerRenameMoves, RegisterData
       DEF Register!Publish, PointerRename, Goto
  <2> QED
    BY <2>3, RegisterData DEF Register!Next
<1>5. ASSUME NEW r \in Clients, Progress(r), ~ReadPointer(r), ~ReadPointerAgain(r),
             ~PointerRename(r)
      PROVE  Register!Next \/ UNCHANGED Register!vars
  <2>1. UNCHANGED <<pointer, body, seen1, seen2, committed>> /\ InFlight(r)
    BY <1>5 DEF Progress, Read, Route, Put, ReadSnapshot, SessionInvalid, Admit,
                ReadSnapshotAgain, SnapshotCheck, SnapshotRename, SnapshotDone,
                PointerEnqueue, PointerCheck, PointerDone, IoError, disk, InFlight,
                ReadSteps, PutSteps
  <2> DEFINE Moves == \E step \in Steps \ {"idle", "done"} : Goto(r, step)
  <2>2. \/ Moves
        \/ Finish(r, "error")
        \/ ReadSnapshot(r) /\ r \in Readers /\ Finish(r, "ok")
        \/ PointerDone(r)
        \/ SessionInvalid(r)
        \/ Admit(r) /\ Finish(r, "rejected")
        \/ Admit(r) /\ ~CurrentBase(r) /\ Finish(r, "conflict")
        \/ ReadSnapshotAgain(r) /\ ~ExpectedVersion(r) /\ Finish(r, "conflict")
        \/ PointerCheck(r) /\ ~EtagMatches(r) /\ Finish(r, "conflict")
    BY <1>5 DEF Progress, Read, Route, Put, ReadSnapshot, SessionInvalid, Admit,
                ReadSnapshotAgain, SnapshotCheck, SnapshotRename, SnapshotDone,
                PointerEnqueue, PointerCheck, PointerDone, IoError, Steps, ReadSteps, PutSteps
  <2>3. CASE Moves
    BY <1>0, <2>1, <2>3, GotoMaps
  <2> DEFINE V == [s \in Clients |-> View(s)]
  <2>4. V[r] = View(r)
    OBVIOUS
  <2>5. Register!Justified(r, "error")
    BY DEF Register!Justified
  <2>6. CASE Finish(r, "error")
    BY <1>0, <2>1, <2>5, <2>6, FinishMaps
  <2>7. CASE ReadSnapshot(r) /\ r \in Readers /\ Finish(r, "ok")
    <3>1. View(r) # <<>> /\ r \notin Publishers
      BY <1>0, <2>7, CatalogAssumption DEF ReadSnapshot, SeenInv, View
    <3>2. Register!Justified(r, "ok")
      BY <2>4, <3>1 DEF Register!Justified
    <3> QED
      BY <1>0, <2>1, <2>7, <3>2, FinishMaps
  <2>8. CASE PointerDone(r)
    <3>1. r \in Publishers /\ r \in committed
      BY <1>0, <2>8, PublisherSteps DEF PointerDone, AnswerInv
    <3>2. Register!Justified(r, "ok")
      BY <3>1 DEF Register!Justified
    <3> QED
      BY <1>0, <2>1, <2>8, <3>2, FinishMaps DEF PointerDone
  <2>9. ASSUME pc[r] \in {"admit", "snap2", "putPtr"}
        PROVE  r \in Publishers \ committed
    BY <1>0, <2>9, PublisherSteps DEF AnswerInv
  <2>10. CASE SessionInvalid(r) \/ (Admit(r) /\ Finish(r, "rejected"))
    <3>1. Register!Justified(r, "rejected")
      BY <2>9, <2>10 DEF Register!Justified, SessionInvalid, Admit
    <3> QED
      BY <1>0, <2>1, <2>10, <3>1, FinishMaps DEF SessionInvalid
  <2>11. CASE Admit(r) /\ ~CurrentBase(r) /\ Finish(r, "conflict")
    <3>1. View(r) = seen1[r] /\ seen1[r] # <<>>
      BY <1>0, <2>11 DEF Admit, SeenInv, Early, View
    <3>2. Register!Justified(r, "conflict")
      BY <2>4, <2>9, <2>11, <3>1, RegisterData DEF Register!Justified, Admit, CurrentBase
    <3> QED
      BY <1>0, <2>1, <2>11, <3>2, FinishMaps
  <2>12. CASE ReadSnapshotAgain(r) /\ ~ExpectedVersion(r) /\ Finish(r, "conflict")
    <3>1. View(r) = seen2[r] /\ seen2[r] # <<>>
      BY <1>0, <2>12 DEF ReadSnapshotAgain, SeenInv, View
    <3>2. Register!Justified(r, "conflict")
      BY <2>4, <2>9, <2>12, <3>1, RegisterData
         DEF Register!Justified, ReadSnapshotAgain, ExpectedVersion
    <3> QED
      BY <1>0, <2>1, <2>12, <3>2, FinishMaps
  <2>13. CASE PointerCheck(r) /\ ~EtagMatches(r) /\ Finish(r, "conflict")
    <3>1. r \in Publishers /\ pc[r] \in Staged
      BY <2>9, <2>13 DEF PointerCheck, Staged
    <3>2. Version(pointer) > body[r].base
      BY <2>13, <3>1, SupersededVersion DEF EtagMatches
    <3>3. Version(pointer) # body[r].base
      <4>1. body[r].base \in Nat
        BY <1>0, <3>1, BodyRequest
      <4>2. pointer \in Lines /\ Numbered(pointer)
        BY DEF IInv, TypeOK, StoreInv
      <4>3. Version(pointer) \in Nat
        BY <4>2, LatestEntry, NumberedVersion
      <4> QED
        BY <3>2, <4>1, <4>3
    <3>4. Register!Justified(r, "conflict")
      BY <2>9, <2>13, <3>3, RegisterData DEF Register!Justified, PointerCheck
    <3> QED
      BY <1>0, <2>1, <2>13, <3>4, FinishMaps
  <2> HIDE DEF Moves
  <2> QED
    BY <2>2, <2>3, <2>6, <2>7, <2>8, <2>10, <2>11, <2>12, <2>13
<1>6. CASE Crash
  <2>1. [s \in Clients |-> State(s)]' =
          [s \in Clients |-> IF State(s) = "pending" THEN "done" ELSE State(s)]
    BY <1>6 DEF Crash, State, InFlight
  <2>2. answer' = [s \in Clients |-> IF State(s) = "pending" THEN "lost" ELSE answer[s]]
    BY <1>6 DEF Crash, State, InFlight
  <2>3. [s \in Clients |-> View(s)]' = [s \in Clients |-> View(s)]
    BY <1>6 DEF Crash, View
  <2>4. Register!LosePending
    BY <1>6, <2>1, <2>2, <2>3, RegisterData DEF Register!LosePending, Crash, disk
  <2> QED
    BY <2>4 DEF Register!Next
<1>7. CASE Restart \/ UNCHANGED vars
  <2>1. UNCHANGED <<pointer, pc, body, seen1, seen2, answer, committed>>
    BY <1>7 DEF Restart, vars, disk
  <2>2. [s \in Clients |-> State(s)]' = [s \in Clients |-> State(s)]
        /\ [s \in Clients |-> View(s)]' = [s \in Clients |-> View(s)]
    BY <2>1 DEF State, View
  <2>3. UNCHANGED Register!vars
    BY <2>1, <2>2 DEF Register!vars
  <2> QED
    BY <2>3
<1> QED
  BY <1>1, <1>2, <1>3, <1>4, <1>5, <1>6, <1>7 DEF Next

\* To any number of clients the catalog is one atomic register.
THEOREM Refinement == SafeSpec => AtomicRegister
BY RegisterInit, RegisterStep, Invariance, PTL DEF SafeSpec, AtomicRegister, Register!Spec

=============================================================================
