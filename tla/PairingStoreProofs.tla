-------------------------- MODULE PairingStoreProofs --------------------------
(***************************************************************************)
(* What the pairing tickets guarantee, for any requests, tickets, gates,   *)
(* limits and lifetimes, and any number of faults.                         *)
(***************************************************************************)
EXTENDS PairingStore, SequenceTheorems, TLAPS

Actors == Requests \cup {Sweeper}

-----------------------------------------------------------------------------
(* Control: who has which lock, and who the transaction.                   *)

Waiting == {"locked", "begin", "work", "commit"}
Running == {"begin", "work", "commit"}

Members(q) == {q[i] : i \in 1..Len(q)}
NoDup(q)   == \A i, j \in 1..Len(q) : q[i] = q[j] => i = j

\* Whoever is in a queue waits for that object, once; whoever runs is at its head.
LockInv ==
    /\ \A n \in Objects : NoDup(locks[n])
    /\ \A n \in Objects, r \in Requests :
          r \in Members(locks[n]) => pc[r] \in Waiting /\ Name(r) = n
    /\ \A n \in Objects : Sweeper \in Members(locks[n]) => sweep.at = n
    /\ \A r \in Requests : pc[r] \in Running => Holds(r, Name(r))

\* One callback runs at a time, inside the transaction it began,
TxnInv == \A r \in Requests : txn = r <=> pc[r] \in {"work", "commit"}

\* and what it read is still there.
GotInv ==
    \A r \in Requests : pc[r] = "work" =>
        got[r] = IF IsRate(r) THEN db.rate[Name(r)] ELSE db.ticket[Name(r)]

\* A client is answered at the end, and told ok after its last call.
DoneInv ==
    \A r \in Requests : /\ answer[r] # None => pc[r] = "done"
                        /\ answer[r] = "ok" => IsLast(r)

Control == TypeOK /\ LockInv /\ TxnInv /\ GotInv /\ DoneInv

-----------------------------------------------------------------------------
(* Rate limits.                                                            *)

\* Whoever counts in gate g.
CountsIn(r, g) == pc[r] \in Running /\ Name(r) = g

\* A window in which gate g may still let somebody through.
OpenWindow(g, w) ==
    w >= WindowOf(now) \/ \E r \in Requests : CountsIn(r, g) /\ window[r] = w

\* What was let through is counted, or was when the counter was wiped.
Counted(d, g, w) == Limit * wiped[g][w] + (IF d.rate[g].window = w THEN d.rate[g].count ELSE 0)

CountedInv(d) ==
    \A g \in Gates :
        /\ d.rate[g].window <= WindowOf(now)
        /\ \A r \in Requests : CountsIn(r, g) => d.rate[g].window <= window[r]
        /\ \A w \in Windows : d.rate[g].window = w \/ OpenWindow(g, w) =>
              granted[g][w] <= Counted(d, g, w)

\* A call counts in a window that has begun, and has counted itself at its COMMIT.
PassingInv ==
    \A g \in Gates, r \in Requests : CountsIn(r, g) =>
        /\ window[r] <= WindowOf(now)
        /\ pc[r] = "commit" /\ allowed[r] =>
              /\ db.rate[g].window = window[r]
              /\ granted[g][window[r]] + 1 <= Counted(db, g, window[r])

RateInv ==
    /\ RateLimited
    /\ CountedInv(db)
    /\ txn # None => CountedInv(saved)
    /\ PassingInv

-----------------------------------------------------------------------------
(* Queues.                                                                 *)

LEMMA AppendQueue ==
    ASSUME NEW q \in Seq(Actors), NEW p \in Actors
    PROVE  /\ Append(q, p) \in Seq(Actors)
           /\ Append(q, p) # <<>>
           /\ Members(Append(q, p)) = Members(q) \cup {p}
           /\ NoDup(q) /\ p \notin Members(q) => NoDup(Append(q, p))
           /\ q # <<>> => Head(Append(q, p)) = Head(q)
<1>1. /\ Append(q, p) \in Seq(Actors) /\ Append(q, p) # <<>>
      /\ Len(Append(q, p)) = Len(q) + 1 /\ Len(q) \in Nat
      /\ \A i \in 1..Len(q) : Append(q, p)[i] = q[i]
      /\ Append(q, p)[Len(q) + 1] = p
  BY AppendProperties, LenProperties
<1>2. Members(Append(q, p)) = Members(q) \cup {p}
  BY <1>1 DEF Members
<1>3. ASSUME NoDup(q), p \notin Members(q) PROVE NoDup(Append(q, p))
  <2> SUFFICES ASSUME NEW i \in 1..(Len(q) + 1), NEW j \in 1..(Len(q) + 1),
                      Append(q, p)[i] = Append(q, p)[j]
               PROVE  i = j
    BY <1>1 DEF NoDup
  <2>1. \A k \in 1..Len(q) : q[k] # p
    BY <1>3 DEF Members
  <2> QED
    BY <1>1, <1>3, <2>1 DEF NoDup
<1>4. q # <<>> => Head(Append(q, p)) = Head(q)
  BY HeadTailAppend
<1> QED
  BY <1>1, <1>2, <1>3, <1>4

LEMMA TailQueue ==
    ASSUME NEW q \in Seq(Actors), q # <<>>, NoDup(q)
    PROVE  /\ Tail(q) \in Seq(Actors) /\ NoDup(Tail(q))
           /\ Members(Tail(q)) \subseteq Members(q) \ {Head(q)}
           /\ Head(q) \in Members(q)
<1>1. /\ Tail(q) \in Seq(Actors) /\ Len(Tail(q)) = Len(q) - 1 /\ Len(q) \in Nat \ {0}
      /\ \A i \in 1..Len(Tail(q)) : Tail(q)[i] = q[i + 1]
  BY HeadTailProperties, EmptySeq
<1>2. Head(q) = q[1]
  BY <1>1
<1>3. NoDup(Tail(q))
  BY <1>1 DEF NoDup
<1>4. ASSUME NEW p \in Members(Tail(q)) PROVE p \in Members(q) /\ p # Head(q)
  <2>1. PICK i \in 1..Len(Tail(q)) : p = Tail(q)[i]
    BY <1>4 DEF Members
  <2>2. p = q[i + 1] /\ i + 1 \in 1..Len(q) /\ i + 1 # 1 /\ 1 \in 1..Len(q)
    BY <1>1, <2>1
  <2> QED
    BY <2>2, <1>2 DEF Members, NoDup
<1>5. Head(q) \in Members(q)
  BY <1>1, <1>2 DEF Members
<1> QED
  BY <1>1, <1>3, <1>4, <1>5

\* What joining the queue of n does to the locks.
LEMMA Enqueued ==
    ASSUME TypeOK, LockInv, NEW n \in Objects, NEW p \in Actors,
           p \notin Members(locks[n]), locks' = Queued(p, n)
    PROVE  /\ locks' \in [Objects -> Seq(Actors)]
           /\ \A m \in Objects : NoDup(locks'[m])
           /\ \A m \in Objects : m # n => Members(locks'[m]) = Members(locks[m])
           /\ Members(locks'[n]) = Members(locks[n]) \cup {p}
           /\ \A m \in Objects, r \in Requests : Holds(r, m) => Holds(r, m)'
<1>1. locks \in [Objects -> Seq(Actors)]
  BY DEF TypeOK, Actors
<1>2. locks' = [locks EXCEPT ![n] = Append(locks[n], p)]
  BY DEF Queued
<1>3. locks[n] \in Seq(Actors) /\ NoDup(locks[n])
  BY <1>1 DEF LockInv
<1>4. locks'[n] = Append(locks[n], p) /\ \A m \in Objects : m # n => locks'[m] = locks[m]
  BY <1>1, <1>2
<1>5. locks' \in [Objects -> Seq(Actors)]
  BY <1>1, <1>2, <1>3, AppendQueue
<1>6. \A m \in Objects : NoDup(locks'[m])
  BY <1>3, <1>4, AppendQueue DEF LockInv
<1>7. \A m \in Objects, r \in Requests : Holds(r, m) => Holds(r, m)'
  BY <1>3, <1>4, AppendQueue DEF Holds
<1> QED
  BY <1>3, <1>4, <1>5, <1>6, <1>7, AppendQueue

\* What leaving it does.
LEMMA Dequeued ==
    ASSUME TypeOK, LockInv, NEW n \in Objects, NEW p, Holds(p, n), locks' = Released(n)
    PROVE  /\ locks' \in [Objects -> Seq(Actors)]
           /\ \A m \in Objects : NoDup(locks'[m])
           /\ \A m \in Objects : Members(locks'[m]) \subseteq Members(locks[m])
           /\ p \in Members(locks[n]) /\ p \notin Members(locks'[n])
           /\ \A m \in Objects : m # n => locks'[m] = locks[m]
<1>1. locks \in [Objects -> Seq(Actors)]
  BY DEF TypeOK, Actors
<1>2. locks[n] \in Seq(Actors) /\ NoDup(locks[n]) /\ locks[n] # <<>> /\ Head(locks[n]) = p
  BY <1>1 DEF LockInv, Holds
<1>3. locks'[n] = Tail(locks[n]) /\ \A m \in Objects : m # n => locks'[m] = locks[m]
  BY <1>1 DEF Released
<1>4. /\ Tail(locks[n]) \in Seq(Actors) /\ NoDup(Tail(locks[n]))
      /\ Members(Tail(locks[n])) \subseteq Members(locks[n]) \ {p} /\ p \in Members(locks[n])
  BY <1>2, TailQueue
<1>5. locks' \in [Objects -> Seq(Actors)]
  BY <1>1, <1>4 DEF Released
<1>6. \A m \in Objects : NoDup(locks'[m])
  BY <1>3, <1>4 DEF LockInv
<1> QED
  BY <1>3, <1>4, <1>5, <1>6

-----------------------------------------------------------------------------
(* Requests and what they call.                                            *)

\* A request calls its gates and then its ticket.
LEMMA Calls ==
    ASSUME NEW r \in Requests, stage \in [Requests -> Nat \ {0}], stage[r] <= Len(Script[r])
    PROVE  /\ Name(r) \in Objects /\ TicketOf(r) \in Tickets
           /\ Name(r) \in Tickets <=> IsLast(r)
           /\ IsLast(r) => Name(r) = TicketOf(r)
           /\ Name(r) \in Gates <=> ~IsLast(r)
<1>1. /\ Script[r] \in Seq(Objects) /\ Len(Script[r]) \in Nat /\ stage[r] \in 1..Len(Script[r])
  BY PairingAssumption, LenProperties
<1>2. Name(r) \in Objects
  BY <1>1, ElementOfSeq DEF Name
<1>3. TicketOf(r) \in Tickets
  BY PairingAssumption DEF TicketOf
<1>4. IsLast(r) => Name(r) = TicketOf(r)
  BY DEF IsLast, Name, TicketOf
<1>5. ~IsLast(r) => Name(r) \in Gates
  <2>1. ~IsLast(r) => stage[r] \in 1..(Len(Script[r]) - 1)
    BY <1>1 DEF IsLast
  <2> QED
    BY <2>1, PairingAssumption DEF Name
<1> QED
  BY <1>2, <1>3, <1>4, <1>5, PairingAssumption

\* The window of a moment.
LEMMA WindowFacts ==
    ASSUME NEW t \in Nat
    PROVE  /\ WindowOf(t) \in Nat /\ WindowOf(t) <= t
           /\ WindowOf(t + 1) >= WindowOf(t)
           /\ WindowOf(t) % Window = 0
<1> USE PairingAssumption DEF WindowOf
<1>1. WindowOf(t) \in Nat /\ WindowOf(t) <= t
  OBVIOUS
<1>2. WindowOf(t + 1) >= WindowOf(t)
  OBVIOUS
<1>3. WindowOf(t) % Window = 0
  OBVIOUS
<1> QED
  BY <1>1, <1>2, <1>3

LEMMA NowFacts ==
    ASSUME TypeOK
    PROVE  now \in Nat /\ WindowOf(now) \in Windows /\ WindowOf(now) \in Nat
<1>1. now \in Nat /\ now <= MaxTime /\ MaxTime \in Nat
  BY PairingAssumption DEF TypeOK
<1>2. WindowOf(now) \in Nat /\ WindowOf(now) <= now /\ WindowOf(now) % Window = 0
  BY <1>1, WindowFacts
<1> QED
  BY <1>1, <1>2 DEF Windows

-----------------------------------------------------------------------------
(* Writes to the database.                                                 *)

\* The records that stand for nothing stored.
LEMMA NothingStored ==
    /\ NoTicket \in TicketRecord /\ NoCount \in RateRecord /\ NoAlarm \in Nat \cup {NoAlarm}
BY PairingAssumption DEF NoTicket, NoCount, TicketRecord, RateRecord

\* A wipe touches one object.
LEMMA WipeWritten ==
    ASSUME NEW n \in Objects, db \in Database
    PROVE  /\ Wiped(n) \in Database /\ Wiped(n).alarm = [db.alarm EXCEPT ![n] = NoAlarm]
           /\ \A t \in Tickets : Wiped(n).ticket[t] = IF t = n THEN NoTicket ELSE db.ticket[t]
           /\ \A g \in Gates : Wiped(n).rate[g] = IF g = n THEN NoCount ELSE db.rate[g]
<1> DEFINE d == NoAlarmAt(n)
<1>1. d = [db EXCEPT !.alarm[n] = NoAlarm]
  BY DEF NoAlarmAt
<1> HIDE DEF d
<1>2. d \in Database /\ d.ticket = db.ticket /\ d.rate = db.rate
      /\ d.alarm = [db.alarm EXCEPT ![n] = NoAlarm]
  BY <1>1, NothingStored DEF Database
<1>3. db.ticket \in [Tickets -> TicketRecord] /\ db.rate \in [Gates -> RateRecord]
  BY DEF Database
<1>4. CASE n \in Tickets
  <2>1. Wiped(n) = [d EXCEPT !.ticket[n] = NoTicket]
    BY <1>4 DEF Wiped, d
  <2>2. Wiped(n) \in Database /\ Wiped(n).alarm = d.alarm /\ Wiped(n).rate = d.rate
        /\ Wiped(n).ticket = [d.ticket EXCEPT ![n] = NoTicket]
    BY <1>2, <1>4, <2>1, NothingStored DEF Database
  <2>3. \A g \in Gates : g # n
    BY <1>4, PairingAssumption
  <2> QED
    BY <1>2, <1>3, <2>2, <2>3
<1>5. CASE n \in Gates
  <2>1. n \notin Tickets
    BY <1>5, PairingAssumption
  <2>2. Wiped(n) = [d EXCEPT !.rate[n] = NoCount]
    BY <2>1 DEF Wiped, d
  <2>3. Wiped(n) \in Database /\ Wiped(n).alarm = d.alarm /\ Wiped(n).ticket = d.ticket
        /\ Wiped(n).rate = [d.rate EXCEPT ![n] = NoCount]
    BY <1>2, <1>5, <2>2, NothingStored DEF Database
  <2> QED
    BY <1>2, <1>3, <2>1, <2>3
<1> QED
  BY <1>4, <1>5 DEF Objects

-----------------------------------------------------------------------------
(* Steps and queues.                                                       *)

\* A request leaves its object.
LEMMA LeaveLocks ==
    ASSUME TypeOK, LockInv, NEW r \in Requests, Holds(r, Name(r)), locks' = Released(Name(r)),
           pc' = [pc EXCEPT ![r] = "returned"], UNCHANGED <<stage, sweep>>
    PROVE  LockInv' /\ locks' \in [Objects -> Seq(Actors)]
<1>1. Name(r) \in Objects
  BY Calls DEF TypeOK
<1>2. /\ locks' \in [Objects -> Seq(Actors)]
      /\ \A m \in Objects : NoDup(locks'[m])
      /\ \A m \in Objects : Members(locks'[m]) \subseteq Members(locks[m])
      /\ r \notin Members(locks'[Name(r)])
      /\ \A m \in Objects : m # Name(r) => locks'[m] = locks[m]
  BY <1>1, Dequeued
<1>3. \A s \in Requests : Name(s)' = Name(s)
  BY DEF Name
<1>4. \A s \in Requests : s # r => pc'[s] = pc[s]
  BY DEF TypeOK
<1>5. \A m \in Objects, s \in Requests :
         s \in Members(locks'[m]) => pc'[s] \in Waiting /\ Name(s)' = m
  BY <1>2, <1>3, <1>4 DEF LockInv
<1>6. ASSUME NEW s \in Requests, pc'[s] \in Running PROVE Holds(s, Name(s))'
  <2>1. s # r
    BY <1>6 DEF Running, TypeOK
  <2>2. Holds(s, Name(s))
    BY <1>4, <1>6, <2>1 DEF LockInv
  <2>3. Name(s) # Name(r) /\ Name(s) \in Objects
    BY <2>1, <2>2, Calls DEF Holds, TypeOK
  <2> QED
    BY <1>2, <1>3, <2>2, <2>3 DEF Holds
<1> QED
  BY <1>2, <1>5, <1>6 DEF LockInv

\* A request at the head of its queue goes on.
LEMMA MoveLocks ==
    ASSUME TypeOK, LockInv, NEW r \in Requests, Holds(r, Name(r)), NEW step \in Running,
           pc' = [pc EXCEPT ![r] = step], UNCHANGED <<locks, stage, sweep>>
    PROVE  LockInv'
<1>1. \A s \in Requests : Name(s)' = Name(s) /\ (s # r => pc'[s] = pc[s])
  BY DEF Name, TypeOK
<1>2. pc'[r] \in Running /\ pc'[r] \in Waiting
  BY DEF Running, Waiting, TypeOK
<1> QED
  BY <1>1, <1>2 DEF LockInv, Holds

\* A request that waits for nothing is in no queue.
LEMMA NotQueued ==
    ASSUME LockInv, NEW r \in Requests, pc[r] \in {"idle", "returned", "done"},
           NEW n \in Objects
    PROVE  r \notin Members(locks[n])
BY DEF LockInv, Waiting

\* A request calls its next object.
LEMMA JoinLocks ==
    ASSUME TypeOK, LockInv, NEW r \in Requests, pc[r] \in {"idle", "returned"},
           NEW i \in 1..Len(Script[r]), Call(r, i), UNCHANGED sweep
    PROVE  LockInv' /\ locks' \in [Objects -> Seq(Actors)] /\ Name(r)' = Script[r][i]
<1>1. Script[r] \in Seq(Objects) /\ Script[r][i] \in Objects
  BY PairingAssumption, ElementOfSeq
<1>2. r \in Actors /\ r \notin Members(locks[Script[r][i]]) /\ locks' = Queued(r, Script[r][i])
  BY <1>1, NotQueued DEF Actors, Call
<1>3. /\ locks' \in [Objects -> Seq(Actors)]
      /\ \A m \in Objects : NoDup(locks'[m])
      /\ \A m \in Objects : m # Script[r][i] => Members(locks'[m]) = Members(locks[m])
      /\ Members(locks'[Script[r][i]]) = Members(locks[Script[r][i]]) \cup {r}
      /\ \A m \in Objects, s \in Requests : Holds(s, m) => Holds(s, m)'
  BY <1>1, <1>2, Enqueued
<1>4. Name(r)' = Script[r][i] /\ pc'[r] = "locked"
  BY DEF Name, Call, TypeOK
<1>5. \A s \in Requests : s # r => Name(s)' = Name(s) /\ pc'[s] = pc[s]
  BY DEF Name, Call, TypeOK
<1>6. \A m \in Objects, s \in Requests :
         s \in Members(locks'[m]) => pc'[s] \in Waiting /\ Name(s)' = m
  <2> SUFFICES ASSUME NEW m \in Objects, NEW s \in Requests, s \in Members(locks'[m])
               PROVE  pc'[s] \in Waiting /\ Name(s)' = m
    OBVIOUS
  <2>1. CASE s = r
    <3>1. r \notin Members(locks[m])
      BY NotQueued
    <3> QED
      BY <2>1, <3>1, <1>3, <1>4 DEF Waiting
  <2>2. CASE s # r
    <3>1. s \in Members(locks[m])
      BY <2>2, <1>3
    <3> QED
      BY <2>2, <3>1, <1>5 DEF LockInv
  <2> QED
    BY <2>1, <2>2
<1>7. \A m \in Objects : Sweeper \in Members(locks'[m]) => sweep'.at = m
  <2>1. Sweeper # r
    BY PairingAssumption
  <2> QED
    BY <2>1, <1>3 DEF LockInv
<1>8. ASSUME NEW s \in Requests, pc'[s] \in Running PROVE Holds(s, Name(s))'
  <2>1. s # r
    BY <1>4, <1>8 DEF Running
  <2>2. Holds(s, Name(s)) /\ Name(s) \in Objects /\ Name(s)' = Name(s)
    BY <1>5, <1>8, <2>1, Calls DEF LockInv, TypeOK
  <2>3. Holds(s, Name(s)) => locks'[Name(s)] # <<>> /\ Head(locks'[Name(s)]) = s
    BY <1>3, <2>2 DEF Holds
  <2> QED
    BY <2>2, <2>3 DEF Holds
<1> QED
  BY <1>3, <1>4, <1>6, <1>7, <1>8 DEF LockInv

\* The sweep joins a queue and leaves it.
LEMMA SweepLocks ==
    ASSUME TypeOK, LockInv, UNCHANGED <<pc, stage>>,
           \/ \E n \in sweep.due : /\ sweep.at = None
                                    /\ sweep' = [sweep EXCEPT !.at = n]
                                    /\ locks' = Queued(Sweeper, n)
           \/ sweep.at # None /\ Holds(Sweeper, sweep.at) /\ locks' = Released(sweep.at)
    PROVE  LockInv' /\ locks' \in [Objects -> Seq(Actors)]
<1>1. \A s \in Requests : Name(s)' = Name(s)
  BY DEF Name
<1>2. CASE \E n \in sweep.due : /\ sweep.at = None
                               /\ sweep' = [sweep EXCEPT !.at = n]
                               /\ locks' = Queued(Sweeper, n)
  <2>1. PICK n \in sweep.due : /\ sweep.at = None
                               /\ sweep' = [sweep EXCEPT !.at = n]
                               /\ locks' = Queued(Sweeper, n)
    BY <1>2
  <2>2. n \in Objects /\ sweep'.at = n /\ Sweeper \in Actors
    BY <2>1 DEF TypeOK, Actors
  <2>3. \A m \in Objects : Sweeper \notin Members(locks[m])
    BY <2>1, PairingAssumption DEF LockInv
  <2>4. /\ locks' \in [Objects -> Seq(Actors)]
        /\ \A m \in Objects : NoDup(locks'[m])
        /\ \A m \in Objects : m # n => Members(locks'[m]) = Members(locks[m])
        /\ Members(locks'[n]) = Members(locks[n]) \cup {Sweeper}
        /\ \A m \in Objects, s \in Requests : Holds(s, m) => Holds(s, m)'
    BY <2>1, <2>2, <2>3, Enqueued
  <2>5. \A m \in Objects, s \in Requests :
           s \in Members(locks'[m]) => pc'[s] \in Waiting /\ Name(s)' = m
    <3>1. \A s \in Requests : s # Sweeper
      BY PairingAssumption
    <3> QED
      BY <3>1, <2>4, <1>1 DEF LockInv
  <2>6. \A m \in Objects : Sweeper \in Members(locks'[m]) => sweep'.at = m
    BY <2>2, <2>3, <2>4
  <2>7. ASSUME NEW s \in Requests, pc'[s] \in Running PROVE Holds(s, Name(s))'
    <3>1. Holds(s, Name(s)) /\ Name(s) \in Objects
      BY <2>7, Calls DEF LockInv, TypeOK
    <3>2. locks'[Name(s)] # <<>> /\ Head(locks'[Name(s)]) = s
      BY <3>1, <2>4 DEF Holds
    <3> QED
      BY <3>2, <1>1 DEF Holds
  <2> QED
    BY <2>4, <2>5, <2>6, <2>7 DEF LockInv
<1>3. CASE sweep.at # None /\ Holds(Sweeper, sweep.at) /\ locks' = Released(sweep.at)
  <2>1. sweep.at \in Objects
    BY <1>3 DEF TypeOK
  <2>2. /\ locks' \in [Objects -> Seq(Actors)]
        /\ \A m \in Objects : NoDup(locks'[m])
        /\ \A m \in Objects : Members(locks'[m]) \subseteq Members(locks[m])
        /\ Sweeper \notin Members(locks'[sweep.at])
        /\ \A m \in Objects : m # sweep.at => locks'[m] = locks[m]
    BY <1>3, <2>1, Dequeued
  <2>3. \A m \in Objects : Sweeper \notin Members(locks'[m])
    BY <2>2 DEF LockInv
  <2>4. ASSUME NEW s \in Requests, pc'[s] \in Running PROVE Holds(s, Name(s))'
    <3>1. Holds(s, Name(s)) /\ Name(s) \in Objects
      BY <2>4, Calls DEF LockInv, TypeOK
    <3>2. Name(s) # sweep.at
      BY <3>1, <1>3, PairingAssumption DEF Holds
    <3> QED
      BY <3>1, <3>2, <2>2, <1>1 DEF Holds
  <2> QED
    BY <1>1, <2>2, <2>3, <2>4 DEF LockInv
<1> QED
  BY <1>2, <1>3

-----------------------------------------------------------------------------
(* The control invariant.                                                  *)

LEMMA InitControl == Init => Control
<1> SUFFICES ASSUME Init PROVE Control
  OBVIOUS
<1>1. /\ NoTicket \in TicketRecord /\ NoCount \in RateRecord /\ 0 \in Windows
      /\ \A r \in Requests : Len(Script[r]) \in Nat
  BY PairingAssumption, NothingStored, LenProperties DEF Windows
<1>2. locks \in [Objects -> Seq(Requests \cup {Sweeper})]
  BY EmptySeq DEF Init
<1>3. db \in Database /\ saved \in Database
  BY <1>1 DEF Init, Database
<1>4. TypeOK
  BY <1>1, <1>2, <1>3, PairingAssumption DEF Init, TypeOK
<1>5. \A n \in Objects : locks[n] = <<>> /\ Len(locks[n]) = 0
  BY EmptySeq DEF Init
<1>6. \A n \in Objects : NoDup(locks[n]) /\ Members(locks[n]) = {}
  BY <1>5 DEF NoDup, Members
<1>7. LockInv
  BY <1>6 DEF Init, LockInv, Running
<1>8. TxnInv /\ GotInv /\ DoneInv
  BY PairingAssumption DEF IsLast, Init, TxnInv, GotInv, DoneInv, None
<1> QED
  BY <1>4, <1>7, <1>8 DEF Control

\* A request calls an object.
LEMMA CallControl ==
    ASSUME Control, NEW r \in Requests, pc[r] \in {"idle", "returned"},
           NEW i \in 1..Len(Script[r]), Call(r, i),
           UNCHANGED <<now, base, answer, sweep, faults, granted, wiped>>
    PROVE  Control'
<1> USE DEF Control, base
<1>1. LockInv' /\ locks' \in [Objects -> Seq(Actors)]
  BY JoinLocks
<1>2. now \in Nat /\ now + TTL \in Nat /\ i \in Nat \ {0} /\ i <= Len(Script[r])
  BY PairingAssumption, LenProperties DEF TypeOK
<1>3. TypeOK'
  BY <1>1, <1>2 DEF TypeOK, Call, Actors
<1>4. TxnInv' /\ DoneInv'
  BY DEF IsLast, TypeOK, Call, TxnInv, DoneInv, None
<1>5. GotInv'
  BY DEF TypeOK, Call, GotInv, IsRate, Name
<1> QED
  BY <1>1, <1>3, <1>4, <1>5

LEMMA ArriveControl == ASSUME Control, NEW r \in Requests, Arrive(r) PROVE Control'
<1>1. 1 \in 1..Len(Script[r])
  BY PairingAssumption, LenProperties
<1> QED
  BY <1>1, CallControl DEF Arrive

LEMMA AdvanceControl == ASSUME Control, NEW r \in Requests, Advance(r) PROVE Control'
<1>1. CASE ~IsLast(r) /\ Call(r, stage[r] + 1) /\ UNCHANGED answer
  <2>1. stage[r] + 1 \in 1..Len(Script[r])
    BY <1>1, PairingAssumption, LenProperties DEF Control, TypeOK, IsLast
  <2> QED
    BY <1>1, <2>1, CallControl DEF Advance
<1>2. CASE (Answer(r, "refused") \/ (Answer(r, "ok") /\ IsLast(r))) /\ UNCHANGED locks
  <2> USE <1>2 DEF Control, Advance, Answer, base
  <2>1. TypeOK'
    BY DEF TypeOK
  <2>2. LockInv'
    <3>1. \A n \in Objects : r \notin Members(locks[n])
      BY NotQueued
    <3>2. \A s \in Requests : Name(s)' = Name(s) /\ (s # r => pc'[s] = pc[s])
      BY DEF TypeOK, Name
    <3>3. pc'[r] \notin Running
      BY DEF TypeOK, Running
    <3>4. UNCHANGED <<locks, sweep>>
      OBVIOUS
    <3> QED
      BY <3>1, <3>2, <3>3, <3>4 DEF LockInv, Holds
  <2>3. TxnInv' /\ DoneInv'
    <3>1. \A s \in Requests : IsLast(s)' <=> IsLast(s)
      BY DEF IsLast
    <3>2. DoneInv'
      BY <3>1 DEF DoneInv, TypeOK
    <3>3. TxnInv'
      BY DEF TypeOK, TxnInv
    <3> QED
      BY <3>2, <3>3
  <2>4. GotInv'
    BY DEF TypeOK, GotInv, IsRate, Name
  <2> QED
    BY <2>1, <2>2, <2>3, <2>4
<1>3. \/ ~IsLast(r) /\ Call(r, stage[r] + 1) /\ UNCHANGED answer
      \/ (Answer(r, "refused") \/ (Answer(r, "ok") /\ IsLast(r))) /\ UNCHANGED locks
  BY SMT DEF Advance, Answer, Call
<1> QED
  BY <1>1, <1>2, <1>3

LEMMA IssueAlarmControl == ASSUME Control, NEW r \in Requests, IssueAlarm(r) PROVE Control'
<1> USE DEF Control
<1>1. Holds(r, Name(r)) /\ Name(r) \in Objects /\ pc[r] = "locked"
  BY Calls DEF IssueAlarm, TypeOK
<1>2. CASE UNCHANGED db /\ locks' = Released(Name(r)) /\ Step(r, "returned")
           /\ allowed' = [allowed EXCEPT ![r] = FALSE]
  <2>1. LockInv' /\ locks' \in [Objects -> Seq(Actors)]
    BY <1>1, <1>2, LeaveLocks DEF IssueAlarm, Step
  <2>2. TypeOK'
    BY <1>2, <2>1 DEF IssueAlarm, Step, TypeOK, Actors
  <2>3. TxnInv' /\ DoneInv' /\ GotInv'
    BY <1>1, <1>2 DEF IsLast, IssueAlarm, Step, TypeOK, TxnInv, DoneInv, GotInv, IsRate, Name
  <2> QED
    BY <2>1, <2>2, <2>3
<1>3. CASE SetAlarm(Name(r), expires[r] + Grace) /\ Step(r, "begin") /\ UNCHANGED <<locks, allowed>>
  <2>1. expires[r] + Grace \in Nat
    BY PairingAssumption DEF TypeOK
  <2>2. db' \in Database /\ db'.ticket = db.ticket /\ db'.rate = db.rate
    BY <1>1, <1>3, <2>1 DEF SetAlarm, Database, TypeOK
  <2>3. LockInv'
    BY <1>1, <1>3, MoveLocks DEF IssueAlarm, Step, Running
  <2>4. TypeOK'
    BY <1>3, <2>2 DEF IssueAlarm, Step, TypeOK
  <2>5. TxnInv' /\ DoneInv' /\ GotInv'
    BY <1>1, <1>3, <2>2 DEF IsLast, IssueAlarm, Step, TypeOK, TxnInv, DoneInv, GotInv, IsRate, Name
  <2> QED
    BY <2>3, <2>4, <2>5
<1> QED
  BY <1>2, <1>3 DEF IssueAlarm

LEMMA RateAlarmControl == ASSUME Control, NEW r \in Requests, RateAlarm(r) PROVE Control'
<1> USE DEF Control
<1>1. Holds(r, Name(r)) /\ Name(r) \in Objects /\ pc[r] = "locked"
  BY Calls DEF RateAlarm, TypeOK
<1>2. WindowOf(now) \in Windows /\ WindowOf(now) + Window + Grace \in Nat
  BY NowFacts, PairingAssumption
<1>3. db' \in Database /\ db'.ticket = db.ticket /\ db'.rate = db.rate
  BY <1>1, <1>2 DEF RateAlarm, SetAlarm, Database, TypeOK
<1>4. LockInv'
  BY <1>1, MoveLocks DEF RateAlarm, Step, Running
<1>5. TypeOK'
  BY <1>2, <1>3 DEF RateAlarm, Step, TypeOK
<1>6. TxnInv' /\ DoneInv' /\ GotInv'
  BY <1>1, <1>3 DEF IsLast, RateAlarm, Step, TypeOK, TxnInv, DoneInv, GotInv, IsRate, Name
<1> QED
  BY <1>4, <1>5, <1>6

LEMMA BeginControl == ASSUME Control, NEW r \in Requests, Begin(r) PROVE Control'
<1> USE DEF Control
<1>1. Holds(r, Name(r)) /\ Name(r) \in Objects /\ pc[r] \in {"locked", "begin"}
  BY Calls DEF Begin, Ready, TypeOK, LockInv, Running
<1>2. LockInv'
  BY <1>1, MoveLocks DEF Begin, Step, Running
<1>3. (IF IsRate(r) THEN db.rate[Name(r)] ELSE db.ticket[Name(r)]) \in TicketRecord \cup RateRecord
  BY <1>1, PairingAssumption DEF IsRate, TypeOK, Database, Objects
<1>4. TypeOK'
  BY <1>3 DEF Begin, Step, TypeOK
<1>5. TxnInv' /\ DoneInv'
  BY <1>1, PairingAssumption DEF IsLast, Begin, Step, TypeOK, TxnInv, DoneInv
<1>6. GotInv'
  BY <1>1 DEF Begin, Step, TypeOK, GotInv, IsRate, Name
<1> QED
  BY <1>2, <1>4, <1>5, <1>6

LEMMA BeginNestedControl == ASSUME Control, NEW r \in Requests, BeginNested(r) PROVE Control'
<1> USE DEF Control
<1>1. Holds(r, Name(r)) /\ Name(r) \in Objects /\ pc[r] \in {"locked", "begin"}
  BY Calls DEF BeginNested, Ready, TypeOK, LockInv, Running
<1>2. LockInv' /\ locks' \in [Objects -> Seq(Actors)]
  BY <1>1, LeaveLocks DEF BeginNested, Step
<1>3. TypeOK'
  BY <1>2 DEF BeginNested, Step, TypeOK, Actors, base
<1>4. TxnInv' /\ DoneInv' /\ GotInv'
  BY <1>1 DEF IsLast, BeginNested, Step, TypeOK, TxnInv, DoneInv, GotInv, IsRate, Name, base
<1> QED
  BY <1>2, <1>3, <1>4

\* What the transaction of r read is what the database holds.
LEMMA ReadStill ==
    ASSUME Control, NEW r \in Requests, pc[r] = "work"
    PROVE  /\ IsRate(r) => /\ Name(r) \in Gates /\ got[r] = db.rate[Name(r)]
                           /\ Count(r) = IF db.rate[Name(r)].window = window[r]
                                         THEN db.rate[Name(r)].count ELSE 0
                           /\ Count(r) \in 0..Limit
           /\ ~IsRate(r) => /\ IsLast(r) /\ Name(r) = TicketOf(r) /\ Name(r) \in Tickets
                            /\ got[r] = db.ticket[TicketOf(r)]
<1> USE DEF Control
<1>1. /\ Name(r) \in Gates <=> ~IsLast(r)
      /\ Name(r) \in Tickets <=> IsLast(r)
      /\ IsLast(r) => Name(r) = TicketOf(r)
  BY Calls DEF TypeOK
<1>2. CASE IsRate(r)
  <2>1. got[r] = db.rate[Name(r)] /\ Name(r) \in Gates
    BY <1>2 DEF GotInv, IsRate
  <2>2. db.rate[Name(r)] \in RateRecord
    BY <2>1 DEF TypeOK, Database
  <2> QED
    BY <1>2, <2>1, <2>2, PairingAssumption DEF Count, RateRecord
<1>3. CASE ~IsRate(r)
  BY <1>1, <1>3 DEF GotInv, IsRate
<1> QED
  BY <1>2, <1>3

\* What a callback writes.
LEMMA WorkWrites ==
    ASSUME Control, NEW r \in Requests, Work(r)
    PROVE  /\ db' \in Database /\ db'.alarm = db.alarm /\ allowed' \in [Requests -> BOOLEAN]
           /\ \A s \in Requests : s # r => allowed'[s] = allowed[s]
           /\ \/ /\ IsIssue(r) /\ allowed'[r] /\ db'.rate = db.rate
                 /\ db.ticket[TicketOf(r)].status = "absent"
                 /\ db'.ticket = [db.ticket EXCEPT ![TicketOf(r)] =
                                     [status |-> "issued", expires |-> expires[r]]]
              \/ /\ IsRedeem(r) /\ allowed'[r] /\ db'.rate = db.rate
                 /\ db.ticket[TicketOf(r)].status = "issued" /\ r \notin Mismatched
                 /\ db'.ticket = [db.ticket EXCEPT ![TicketOf(r)] =
                                     [status |-> "consumed", expires |-> db.ticket[TicketOf(r)].expires]]
              \/ /\ IsRate(r) /\ allowed'[r] /\ db'.ticket = db.ticket
                 /\ Count(r) < Limit
                 /\ db'.rate = [db.rate EXCEPT ![Name(r)] =
                                   [window |-> window[r], count |-> Count(r) + 1]]
              \/ ~allowed'[r] /\ db' = db
<1> USE DEF Control
<1>1. /\ pc[r] = "work" /\ db \in Database /\ expires[r] \in Nat /\ window[r] \in Int
      /\ allowed \in [Requests -> BOOLEAN]
  BY PairingAssumption DEF Work, TypeOK, Windows
<1>2. /\ Name(r) \in Gates <=> ~IsLast(r)
      /\ Name(r) \in Tickets <=> IsLast(r)
      /\ IsLast(r) => Name(r) = TicketOf(r)
  BY Calls DEF TypeOK
<1>3. CASE IsIssue(r) /\ CanIssue(r)
           /\ db' = [db EXCEPT !.ticket[Name(r)] = [status |-> "issued", expires |-> expires[r]]]
           /\ allowed' = [allowed EXCEPT ![r] = TRUE]
  <2>1. Name(r) \in Tickets /\ Name(r) = TicketOf(r) /\ db.ticket[TicketOf(r)].status = "absent"
    BY <1>1, <1>2, <1>3, ReadStill, PairingAssumption DEF IsIssue, IsRate, CanIssue
  <2>2. [status |-> "issued", expires |-> expires[r]] \in TicketRecord
    BY <1>1 DEF TicketRecord
  <2>3. db' \in Database /\ db'.alarm = db.alarm /\ db'.rate = db.rate
        /\ db'.ticket = [db.ticket EXCEPT ![TicketOf(r)] = [status |-> "issued", expires |-> expires[r]]]
    BY <1>1, <1>3, <2>1, <2>2 DEF Database
  <2> QED
    BY <1>1, <1>3, <2>1, <2>3
<1>4. CASE IsRedeem(r) /\ CanRedeem(r)
           /\ db' = [db EXCEPT !.ticket[Name(r)].status = "consumed"]
           /\ allowed' = [allowed EXCEPT ![r] = TRUE]
  <2>1. Name(r) \in Tickets /\ Name(r) = TicketOf(r) /\ db.ticket[TicketOf(r)].status = "issued"
    BY <1>1, <1>2, <1>4, ReadStill, PairingAssumption DEF IsRedeem, IsRate, CanRedeem
  <2>2. db.ticket[TicketOf(r)] \in TicketRecord
    BY <1>1, <2>1 DEF Database
  <2>3. [db.ticket[TicketOf(r)] EXCEPT !.status = "consumed"]
        = [status |-> "consumed", expires |-> db.ticket[TicketOf(r)].expires]
    BY <2>2 DEF TicketRecord
  <2>4. [status |-> "consumed", expires |-> db.ticket[TicketOf(r)].expires] \in TicketRecord
    BY <2>2 DEF TicketRecord
  <2>5. db' = [db EXCEPT !.ticket[TicketOf(r)] = [db.ticket[TicketOf(r)] EXCEPT !.status = "consumed"]]
    BY <1>1, <1>4, <2>1 DEF Database
  <2>6. db' \in Database /\ db'.alarm = db.alarm /\ db'.rate = db.rate
        /\ db'.ticket = [db.ticket EXCEPT ![TicketOf(r)] =
                            [status |-> "consumed", expires |-> db.ticket[TicketOf(r)].expires]]
    BY <1>1, <2>1, <2>3, <2>4, <2>5 DEF Database
  <2> QED
    BY <1>1, <1>4, <2>1, <2>6 DEF CanRedeem
<1>5. CASE IsRate(r) /\ CanPass(r)
           /\ db' = [db EXCEPT !.rate[Name(r)] = [window |-> window[r], count |-> Count(r) + 1]]
           /\ allowed' = [allowed EXCEPT ![r] = TRUE]
  <2>1. Name(r) \in Gates /\ Count(r) \in 0..Limit /\ Count(r) < Limit
    BY <1>1, <1>5, ReadStill DEF CanPass
  <2>2. [window |-> window[r], count |-> Count(r) + 1] \in RateRecord
    BY <1>1, <2>1, PairingAssumption DEF RateRecord
  <2>3. db' \in Database /\ db'.alarm = db.alarm /\ db'.ticket = db.ticket
        /\ db'.rate = [db.rate EXCEPT ![Name(r)] = [window |-> window[r], count |-> Count(r) + 1]]
    BY <1>1, <1>5, <2>1, <2>2 DEF Database
  <2> QED
    BY <1>1, <1>5, <2>1, <2>3
<1>6. CASE allowed' = [allowed EXCEPT ![r] = FALSE] /\ UNCHANGED db
  BY <1>1, <1>6
<1> QED
  BY <1>3, <1>4, <1>5, <1>6 DEF Work

LEMMA WorkControl == ASSUME Control, NEW r \in Requests, Work(r) PROVE Control'
<1> USE DEF Control
<1>1. Holds(r, Name(r)) /\ Name(r) \in Objects /\ pc[r] = "work"
  BY Calls DEF Work, TypeOK, LockInv, Running
<1>2. LockInv'
  BY <1>1, MoveLocks DEF Work, Step, Running
<1>3. db' \in Database /\ allowed' \in [Requests -> BOOLEAN]
  BY WorkWrites
<1>4. TypeOK'
  BY <1>3 DEF Work, Step, TypeOK
<1>5. TxnInv' /\ DoneInv'
  BY <1>1 DEF IsLast, Work, Step, TypeOK, TxnInv, DoneInv
<1>6. \A s \in Requests : pc'[s] # "work"
  BY <1>1 DEF Work, Step, TypeOK, TxnInv
<1>7. GotInv'
  BY <1>6 DEF GotInv
<1> QED
  BY <1>2, <1>4, <1>5, <1>7

LEMMA CommitControl == ASSUME Control, NEW r \in Requests, Commit(r) PROVE Control'
<1> USE DEF Control
<1>1. Holds(r, Name(r)) /\ Name(r) \in Objects /\ pc[r] = "commit" /\ txn = r
  BY Calls DEF Commit, TypeOK, LockInv, Running, TxnInv
<1>2. LockInv' /\ locks' \in [Objects -> Seq(Actors)]
  BY <1>1, LeaveLocks DEF Commit, Step
<1>3. granted' \in [Gates -> [Windows -> Nat]]
  BY DEF Commit, TypeOK, IsRate
<1>4. TypeOK'
  BY <1>2, <1>3 DEF Commit, Step, TypeOK, Actors
<1>5. TxnInv' /\ DoneInv'
  BY <1>1, PairingAssumption DEF IsLast, Commit, Step, TypeOK, TxnInv, DoneInv
<1>6. GotInv'
  BY <1>1 DEF Commit, Step, TypeOK, GotInv, TxnInv, IsRate, Name
<1> QED
  BY <1>2, <1>4, <1>5, <1>6

LEMMA SqlErrorControl == ASSUME Control, NEW r \in Requests, SqlError(r) PROVE Control'
<1> USE DEF Control
<1>1. Holds(r, Name(r)) /\ Name(r) \in Objects /\ pc[r] \in {"locked", "begin", "work", "commit"}
  BY Calls DEF SqlError, TypeOK, LockInv, Running
<1>2. LockInv' /\ locks' \in [Objects -> Seq(Actors)]
  BY <1>1, LeaveLocks DEF SqlError, Step
<1>3. db' \in Database /\ txn' \in Requests \cup {None} /\ faults' \in 0..MaxFaults
  BY PairingAssumption DEF SqlError, Fault, TypeOK
<1>4. TypeOK'
  BY <1>2, <1>3 DEF SqlError, Step, TypeOK, Actors
<1>5. CASE pc[r] \in {"locked", "begin"} /\ UNCHANGED <<db, txn>>
  <2>1. TxnInv' /\ DoneInv' /\ GotInv'
    BY <1>1, <1>5 DEF IsLast, SqlError, Step, TypeOK, TxnInv, DoneInv, GotInv, IsRate, Name
  <2> QED
    BY <1>2, <1>4, <2>1
<1>6. CASE pc[r] \in {"work", "commit"} /\ db' = saved /\ txn' = None
  <2>1. TxnInv' /\ DoneInv'
    BY <1>1, <1>6, PairingAssumption DEF IsLast, SqlError, Step, TypeOK, TxnInv, DoneInv
  <2>2. \A s \in Requests : pc'[s] # "work"
    BY <1>1, <1>6 DEF SqlError, Step, TypeOK, TxnInv
  <2> QED
    BY <1>2, <1>4, <2>1, <2>2 DEF GotInv
<1> QED
  BY <1>2, <1>4, <1>5, <1>6 DEF SqlError

LEMMA SweepListControl == ASSUME Control, SweepList PROVE Control'
<1> USE DEF Control, SweepList, base, calls
<1>1. TypeOK'
  BY DEF TypeOK, Due
<1>2. LockInv'
  <2>1. sweep.at = None
    BY DEF TypeOK
  <2> QED
    BY <2>1 DEF LockInv, Holds, Name
<1>3. TxnInv' /\ DoneInv' /\ GotInv'
  BY DEF IsLast, TxnInv, DoneInv, GotInv, IsRate, Name
<1> QED
  BY <1>1, <1>2, <1>3

LEMMA SweepJoinControl == ASSUME Control, SweepJoin PROVE Control'
<1> USE DEF Control, SweepJoin, base, calls
<1>1. LockInv' /\ locks' \in [Objects -> Seq(Actors)]
  BY SweepLocks
<1>2. TypeOK'
  BY <1>1 DEF TypeOK, Actors
<1>3. TxnInv' /\ DoneInv' /\ GotInv'
  BY DEF IsLast, TxnInv, DoneInv, GotInv, IsRate, Name
<1> QED
  BY <1>1, <1>2, <1>3

\* A wipe leaves alone what a callback reads.
LEMMA SweepApart ==
    ASSUME Control, sweep.at # None, Holds(Sweeper, sweep.at)
    PROVE  /\ sweep.at \in Objects /\ sweep.at \in sweep.due
           /\ \A r \in Requests : pc[r] \in Running => Name(r) # sweep.at
<1>1. sweep.at \in Objects /\ sweep.at \in sweep.due
  BY DEF Control, TypeOK
<1>2. \A r \in Requests : pc[r] \in Running => Name(r) # sweep.at
  BY PairingAssumption DEF Control, LockInv, Holds
<1> QED
  BY <1>1, <1>2

LEMMA SweepWipeControl == ASSUME Control, SweepWipe PROVE Control'
<1> USE DEF Control, SweepWipe, calls
<1>1. LockInv' /\ locks' \in [Objects -> Seq(Actors)]
  BY SweepLocks
<1>2. sweep.at \in Objects /\ \A r \in Requests : pc[r] \in Running => Name(r) # sweep.at
  BY SweepApart
<1>3. /\ db' \in Database
      /\ \A t \in Tickets : t # sweep.at => db'.ticket[t] = db.ticket[t]
      /\ \A g \in Gates : g # sweep.at => db'.rate[g] = db.rate[g]
  BY <1>2, WipeWritten DEF TypeOK
<1>4. wiped' \in [Gates -> [Windows -> Nat]]
  BY NowFacts DEF TypeOK
<1>5. TypeOK'
  BY <1>1, <1>3, <1>4 DEF TypeOK, Actors
<1>6. TxnInv' /\ DoneInv'
  BY DEF IsLast, TxnInv, DoneInv
<1>7. GotInv'
  <2> SUFFICES ASSUME NEW r \in Requests, pc[r] = "work"
               PROVE  got[r] = IF IsRate(r) THEN db'.rate[Name(r)] ELSE db'.ticket[Name(r)]
    BY DEF GotInv, IsRate, Name
  <2>1. Name(r) # sweep.at /\ Name(r) \in Objects
    BY <1>2, Calls DEF Running, TypeOK
  <2>2. got[r] = IF IsRate(r) THEN db.rate[Name(r)] ELSE db.ticket[Name(r)]
    BY DEF GotInv
  <2> QED
    BY <2>1, <2>2, <1>3 DEF IsRate, Objects
<1> QED
  BY <1>1, <1>5, <1>6, <1>7

\* The alarm row is gone, the record is not.
LEMMA AlarmGone ==
    ASSUME TypeOK, NEW n \in Objects
    PROVE  /\ NoAlarmAt(n) \in Database
           /\ NoAlarmAt(n).ticket = db.ticket /\ NoAlarmAt(n).rate = db.rate
           /\ NoAlarmAt(n).alarm = [db.alarm EXCEPT ![n] = NoAlarm]
BY DEF NoAlarmAt, TypeOK, Database

LEMMA SweepErrorControl == ASSUME Control, SweepError PROVE Control'
<1> USE DEF Control, SweepError, calls
<1>1. LockInv' /\ locks' \in [Objects -> Seq(Actors)]
  BY SweepLocks
<1>2. db' \in Database /\ db'.ticket = db.ticket /\ db'.rate = db.rate
  BY SweepApart, AlarmGone DEF TypeOK
<1>3. faults' \in 0..MaxFaults
  BY PairingAssumption DEF Fault, TypeOK
<1>4. TypeOK'
  BY <1>1, <1>2, <1>3 DEF TypeOK, Actors
<1>5. TxnInv' /\ DoneInv' /\ GotInv'
  BY <1>2 DEF IsLast, TxnInv, DoneInv, GotInv, IsRate, Name
<1> QED
  BY <1>1, <1>4, <1>5

\* A restart forgets every lock and every call.
LEMMA RestartedControl ==
    ASSUME Control, Restarted, db' \in Database
    PROVE  Control'
<1> USE DEF Control, Restarted
<1>1. locks' \in [Objects -> Seq(Requests \cup {Sweeper})] /\ faults' \in 0..MaxFaults
  BY EmptySeq, PairingAssumption DEF Fault, TypeOK
<1>2. TypeOK'
  BY <1>1 DEF TypeOK
<1>3. \A n \in Objects : NoDup(locks'[n]) /\ Members(locks'[n]) = {}
  <2>1. \A n \in Objects : locks'[n] = <<>> /\ Len(locks'[n]) = 0
    BY EmptySeq
  <2> QED
    BY <2>1 DEF NoDup, Members
<1>4. \A r \in Requests : pc'[r] \in {"idle", "done"}
  BY DEF InFlight, TypeOK
<1>5. LockInv'
  BY <1>3, <1>4 DEF LockInv, Running
<1>6. TxnInv' /\ GotInv'
  BY <1>4, PairingAssumption DEF TxnInv, GotInv
<1>7. DoneInv'
  BY DEF IsLast, DoneInv, InFlight, TypeOK
<1> QED
  BY <1>2, <1>5, <1>6, <1>7

LEMMA KillControl == ASSUME Control, Kill \/ KillInSweep PROVE Control'
<1>1. CASE Kill
  BY <1>1, RestartedControl DEF Kill, Control, TypeOK
<1>2. CASE KillInSweep
  <2>1. db' \in Database
    BY <1>2, SweepApart, AlarmGone DEF KillInSweep, Control
  <2> QED
    BY <1>2, <2>1, RestartedControl DEF KillInSweep
<1> QED
  BY <1>1, <1>2

LEMMA TickControl == ASSUME Control, Tick PROVE Control'
<1> USE DEF Control, Tick, base, calls
<1>1. TypeOK'
  BY PairingAssumption DEF TypeOK
<1>2. LockInv'
  BY DEF LockInv, Holds, Name
<1>3. TxnInv' /\ DoneInv' /\ GotInv'
  BY DEF IsLast, TxnInv, DoneInv, GotInv, IsRate, Name
<1> QED
  BY <1>1, <1>2, <1>3

LEMMA ControlInductive == Control /\ [Next]_vars => Control'
<1> SUFFICES ASSUME Control, [Next]_vars PROVE Control'
  OBVIOUS
<1>1. ASSUME NEW r \in Requests, Arrive(r) \/ Progress(r) \/ SqlError(r) PROVE Control'
  BY <1>1, ArriveControl, AdvanceControl, IssueAlarmControl, RateAlarmControl, BeginControl,
     BeginNestedControl, WorkControl, CommitControl, SqlErrorControl DEF Progress
<1>2. CASE Sweep \/ SweepError
  BY <1>2, SweepListControl, SweepJoinControl, SweepWipeControl, SweepErrorControl DEF Sweep
<1>3. CASE Tick \/ Kill \/ KillInSweep
  BY <1>3, TickControl, KillControl
<1>4. CASE UNCHANGED vars
  <2> USE <1>4 DEF vars, base, calls, Control
  <2>1. TypeOK'
    BY DEF TypeOK
  <2>2. LockInv'
    BY DEF LockInv, Holds, Name
  <2>3. TxnInv' /\ DoneInv' /\ GotInv'
    BY DEF IsLast, TxnInv, DoneInv, GotInv, IsRate, Name
  <2> QED
    BY <2>1, <2>2, <2>3
<1> QED
  BY <1>1, <1>2, <1>3, <1>4 DEF Next

LEMMA ControlInvariant == SafeSpec => []Control
BY InitControl, ControlInductive, PTL DEF SafeSpec


\* Every variable keeps its shape, through any interleaving of the requests, the
\* sweep, SQLite errors and restarts.
THEOREM PairingTypes == SafeSpec => []TypeOK
<1>1. Control => TypeOK
  BY DEF Control
<1> QED
  BY <1>1, ControlInvariant, PTL

-----------------------------------------------------------------------------
(* Counting what a gate lets through.                                      *)

LEMMA Allowance ==
    ASSUME NEW x \in Nat
    PROVE  Limit \in Nat /\ Limit * x \in Nat /\ Limit * (1 + x) = Limit * x + Limit
BY PairingAssumption

LEMMA CountTypes ==
    ASSUME TypeOK, NEW g \in Gates, NEW d \in Database
    PROVE  /\ d.rate[g].window \in Int /\ d.rate[g].count \in Nat /\ d.rate[g].count <= Limit
           /\ WindowOf(now) \in Windows
           /\ \A w \in Windows : /\ w \in Nat /\ granted[g][w] \in Nat /\ wiped[g][w] \in Nat
                                 /\ Limit * wiped[g][w] \in Nat
                                 /\ Counted(d, g, w) \in Nat
                                 /\ Counted(d, g, w) <= Limit * wiped[g][w] + Limit
<1>1. d.rate[g] \in RateRecord
  BY DEF Database
<1>2. d.rate[g].window \in Int /\ d.rate[g].count \in Nat /\ d.rate[g].count <= Limit
  BY <1>1, PairingAssumption DEF RateRecord
<1>3. ASSUME NEW w \in Windows
      PROVE  /\ w \in Nat /\ granted[g][w] \in Nat /\ wiped[g][w] \in Nat
             /\ Limit * wiped[g][w] \in Nat
  <2>1. w \in Nat /\ granted[g][w] \in Nat /\ wiped[g][w] \in Nat
    <3>1. w \in 0..MaxTime /\ MaxTime \in Nat
      BY PairingAssumption DEF Windows
    <3>2. granted[g][w] \in Nat /\ wiped[g][w] \in Nat
      BY DEF TypeOK
    <3> QED
      BY <3>1, <3>2
  <2> QED
    BY <2>1, Allowance
<1>4. ASSUME NEW w \in Windows
      PROVE  /\ Counted(d, g, w) \in Nat
             /\ Counted(d, g, w) <= Limit * wiped[g][w] + Limit
  <2> DEFINE x == Limit * wiped[g][w]
             y == IF d.rate[g].window = w THEN d.rate[g].count ELSE 0
  <2>1. x \in Nat /\ y \in Nat /\ y <= Limit /\ Limit \in Nat
    BY <1>2, <1>3, PairingAssumption
  <2>2. Counted(d, g, w) = x + y
    BY DEF Counted
  <2> HIDE DEF x, y
  <2>3. x + y \in Nat /\ x + y <= x + Limit
    BY <2>1
  <2> QED
    BY <2>2, <2>3 DEF x
<1> QED
  BY <1>2, <1>3, <1>4, NowFacts

\* One request at a time counts in a gate.
LEMMA OneCounts ==
    ASSUME Control, NEW g \in Gates, NEW r \in Requests, NEW s \in Requests,
           CountsIn(r, g), CountsIn(s, g)
    PROVE  r = s
BY DEF Control, LockInv, Holds, CountsIn

\* A step in which nobody new counts, and nothing is counted.
LEMMA QuietRates ==
    ASSUME Control, RateInv, UNCHANGED <<now, granted, wiped>>,
           \A g \in Gates, r \in Requests : CountsIn(r, g)' =>
              /\ CountsIn(r, g) /\ window'[r] = window[r]
              /\ pc'[r] = "commit" /\ allowed'[r] => pc[r] = "commit" /\ allowed[r],
           db'.rate = db.rate,
           \/ saved' = saved /\ txn' \in {txn, None}
           \/ saved' = db
    PROVE  RateInv'
<1>1. RateLimited'
  BY DEF RateInv, RateLimited
<1>2. \A g \in Gates, w \in Windows : OpenWindow(g, w)' => OpenWindow(g, w)
  BY DEF OpenWindow
<1>3. \A g \in Gates, w \in Windows : /\ Counted(db, g, w)' = Counted(db, g, w)
                                      /\ saved' = saved => Counted(saved, g, w)' = Counted(saved, g, w)
                                      /\ saved' = db => Counted(saved, g, w)' = Counted(db, g, w)
  BY DEF Counted
<1>4. CountedInv(db)'
  BY <1>2, <1>3 DEF RateInv, CountedInv
<1>5. txn' # None => CountedInv(saved)'
  <2>1. CASE saved' = saved /\ txn' \in {txn, None}
    BY <1>2, <1>3, <2>1 DEF RateInv, CountedInv
  <2>2. CASE saved' = db
    BY <1>2, <1>3, <2>2 DEF RateInv, CountedInv
  <2> QED
    BY <2>1, <2>2
<1>6. ASSUME NEW g \in Gates, NEW r \in Requests, CountsIn(r, g)'
      PROVE  /\ window'[r] <= WindowOf(now)
             /\ pc'[r] = "commit" /\ allowed'[r] =>
                  /\ db'.rate[g].window = window'[r]
                  /\ granted[g][window'[r]] + 1 <= Counted(db', g, window'[r])
  <2>1. /\ window'[r] = window[r] /\ window[r] <= WindowOf(now)
        /\ pc[r] = "commit" /\ allowed[r] =>
             /\ db.rate[g].window = window[r]
             /\ granted[g][window[r]] + 1 <= Counted(db, g, window[r])
    BY <1>6 DEF RateInv, PassingInv
  <2>2. Counted(db', g, window[r]) = Counted(db, g, window[r])
    BY DEF Counted
  <2> QED
    BY <1>6, <2>1, <2>2
<1>7. PassingInv'
  BY <1>6 DEF PassingInv, Counted, WindowOf
<1> QED
  BY <1>1, <1>4, <1>5, <1>7 DEF RateInv

\* A rollback: the counters are again what they were, and so is what was let through.
LEMMA RollbackRates ==
    ASSUME Control, RateInv, UNCHANGED <<now, granted, wiped>>,
           \A g \in Gates, r \in Requests : CountsIn(r, g)' =>
              CountsIn(r, g) /\ window'[r] = window[r] /\ pc'[r] # "commit",
           txn # None, db' = saved, txn' = None
    PROVE  RateInv'
<1>1. RateLimited'
  BY DEF RateInv, RateLimited
<1>2. \A g \in Gates, w \in Windows : OpenWindow(g, w)' => OpenWindow(g, w)
  BY DEF OpenWindow
<1>3. \A g \in Gates, w \in Windows : Counted(db, g, w)' = Counted(saved, g, w)
  BY DEF Counted
<1>4. CountedInv(db)'
  BY <1>2, <1>3 DEF RateInv, CountedInv
<1>5. PassingInv'
  BY DEF RateInv, PassingInv
<1> QED
  BY <1>1, <1>4, <1>5 DEF RateInv

-----------------------------------------------------------------------------
(* The steps.                                                              *)

\* Whoever counts in a gate is at its rate call.
LEMMA CountsAtRate ==
    ASSUME Control, NEW g \in Gates, NEW r \in Requests, CountsIn(r, g)
    PROVE  Name(r) \in Gates /\ ~IsLast(r) /\ IsRate(r)
BY Calls DEF CountsIn, IsRate, Control, TypeOK

\* A request that does not begin to count.
LEMMA StillCounts ==
    ASSUME NEW r \in Requests, NEW g \in Gates, UNCHANGED <<stage, window, allowed>>,
           pc'[r] \in Running => pc[r] \in Running,
           pc'[r] = "commit" => pc[r] = "commit",
           CountsIn(r, g)'
    PROVE  /\ CountsIn(r, g) /\ window'[r] = window[r]
           /\ pc'[r] = "commit" /\ allowed'[r] => pc[r] = "commit" /\ allowed[r]
BY DEF CountsIn, Name

LEMMA CallRates ==
    ASSUME Control, RateInv, NEW r \in Requests, Arrive(r) \/ Advance(r) PROVE RateInv'
<1>1. /\ UNCHANGED <<now, db, saved, txn, granted, wiped, window, allowed>>
      /\ pc'[r] \in {"locked", "done"}
      /\ \A s \in Requests : s # r => pc'[s] = pc[s] /\ stage'[s] = stage[s]
  BY DEF Arrive, Advance, Call, Answer, base, Control, TypeOK
<1>2. \A g \in Gates, s \in Requests : CountsIn(s, g)' => s # r /\ CountsIn(s, g) /\ pc'[s] = pc[s]
  BY <1>1 DEF CountsIn, Name, Running
<1> QED
  BY <1>1, <1>2, QuietRates

LEMMA IssueAlarmRates ==
    ASSUME Control, RateInv, NEW r \in Requests, IssueAlarm(r) PROVE RateInv'
<1>1. /\ UNCHANGED <<now, saved, txn, granted, wiped, window, stage>>
      /\ Name(r) \in Tickets /\ pc'[r] \in {"returned", "begin"}
      /\ \A s \in Requests : s # r => pc'[s] = pc[s] /\ allowed'[s] = allowed[s]
  BY DEF IssueAlarm, IsIssue, Step, Control, TypeOK
<1>2. db'.rate = db.rate
  BY DEF IssueAlarm, SetAlarm, Control, TypeOK, Database
<1>3. \A g \in Gates, s \in Requests :
         CountsIn(s, g)' => s # r /\ CountsIn(s, g) /\ pc'[s] = pc[s] /\ allowed'[s] = allowed[s]
  BY <1>1, PairingAssumption DEF CountsIn, Name
<1> QED
  BY <1>1, <1>2, <1>3, QuietRates

\* A rate call takes the window of the moment.
LEMMA RateAlarmRates ==
    ASSUME Control, RateInv, NEW r \in Requests, RateAlarm(r) PROVE RateInv'
<1>1. /\ UNCHANGED <<now, saved, txn, granted, wiped, stage, allowed>>
      /\ pc'[r] = "begin" /\ window'[r] = WindowOf(now)
      /\ \A s \in Requests : s # r => pc'[s] = pc[s] /\ window'[s] = window[s]
  BY DEF RateAlarm, Step, Control, TypeOK
<1>2. db'.rate = db.rate
  BY DEF RateAlarm, SetAlarm, Control, TypeOK, Database
<1>3. \A g \in Gates, s \in Requests :
         CountsIn(s, g)' => IF s = r THEN window'[s] = WindowOf(now) /\ pc'[s] = "begin"
                            ELSE CountsIn(s, g) /\ window'[s] = window[s] /\ pc'[s] = pc[s]
  BY <1>1 DEF CountsIn, Name
<1>4. WindowOf(now) \in Nat
  BY NowFacts DEF Control
<1>5. \A g \in Gates, w \in Windows : OpenWindow(g, w)' => OpenWindow(g, w)
  <2> SUFFICES ASSUME NEW g \in Gates, NEW w \in Windows, OpenWindow(g, w)'
               PROVE  OpenWindow(g, w)
    OBVIOUS
  <2>1. CASE w >= WindowOf(now)
    BY <2>1 DEF OpenWindow
  <2>2. CASE \E s \in Requests : CountsIn(s, g)' /\ window'[s] = w
    <3>1. PICK s \in Requests : CountsIn(s, g)' /\ window'[s] = w
      BY <2>2
    <3>2. CASE s = r
      <4>1. w = WindowOf(now)
        BY <1>1, <3>1, <3>2
      <4> QED
        BY <1>4, <4>1 DEF OpenWindow
    <3>3. CASE s # r
      BY <1>3, <3>1, <3>3 DEF OpenWindow
    <3> QED
      BY <3>2, <3>3
  <2>3. WindowOf(now)' = WindowOf(now)
    BY <1>1 DEF WindowOf
  <2> QED
    BY <2>1, <2>2, <2>3 DEF OpenWindow
<1>6. ASSUME NEW d, NEW e, CountedInv(d), e.rate = d.rate
      PROVE  \A g \in Gates :
                /\ e.rate[g].window <= WindowOf(now)
                /\ \A s \in Requests : CountsIn(s, g)' => e.rate[g].window <= window'[s]
                /\ \A w \in Windows : e.rate[g].window = w \/ OpenWindow(g, w)' =>
                      granted[g][w] <= Counted(e, g, w)
  <2>1. \A g \in Gates, w \in Windows : Counted(e, g, w) = Counted(d, g, w)
    BY <1>6 DEF Counted
  <2> QED
    BY <1>3, <1>5, <1>6, <2>1 DEF CountedInv
<1>7. CountedInv(db)' /\ (txn' # None => CountedInv(saved)')
  BY <1>1, <1>2, <1>6 DEF RateInv, CountedInv, Counted, WindowOf
<1>8. PassingInv'
  <2> SUFFICES ASSUME NEW g \in Gates, NEW s \in Requests, CountsIn(s, g)'
               PROVE  /\ window'[s] <= WindowOf(now)
                      /\ pc'[s] = "commit" /\ allowed'[s] =>
                            /\ db'.rate[g].window = window'[s]
                            /\ granted[g][window'[s]] + 1 <= Counted(db', g, window'[s])
    BY <1>1 DEF PassingInv, Counted, WindowOf
  <2>1. CASE s = r
    BY <1>1, <1>4, <2>1
  <2>2. CASE s # r
    <3>1. Counted(db', g, window[s]) = Counted(db, g, window[s])
      BY <1>2 DEF Counted
    <3> QED
      BY <1>1, <1>2, <1>3, <2>2, <3>1 DEF RateInv, PassingInv
  <2> QED
    BY <2>1, <2>2
<1> QED
  BY <1>1, <1>7, <1>8 DEF RateInv, RateLimited

LEMMA BeginRates ==
    ASSUME Control, RateInv, NEW r \in Requests, Begin(r) PROVE RateInv'
<1>1. /\ UNCHANGED <<now, db, granted, wiped, window, stage, allowed>> /\ saved' = db
      /\ pc'[r] = "work" /\ (pc[r] = "begin" \/ Name(r) \in Tickets)
      /\ \A s \in Requests : s # r => pc'[s] = pc[s]
  BY DEF Begin, Ready, IsRedeem, Step, Control, TypeOK
<1>2. \A g \in Gates, s \in Requests :
         CountsIn(s, g)' => CountsIn(s, g) /\ (pc'[s] = "commit" => pc[s] = "commit")
  BY <1>1, PairingAssumption DEF CountsIn, Name, Running
<1> QED
  BY <1>1, <1>2, QuietRates

\* A call that ends without anything written.
LEMMA LeaveRates ==
    ASSUME Control, RateInv, NEW r \in Requests, UNCHANGED <<now, granted, wiped, window, stage>>,
           pc' = [pc EXCEPT ![r] = "returned"],
           \A s \in Requests : s # r => allowed'[s] = allowed[s],
           db'.rate = db.rate, saved' = saved, txn' \in {txn, None}
    PROVE  RateInv'
<1>1. pc'[r] = "returned" /\ \A s \in Requests : s # r => pc'[s] = pc[s]
  BY DEF Control, TypeOK
<1>2. \A g \in Gates, s \in Requests :
         CountsIn(s, g)' => s # r /\ CountsIn(s, g) /\ pc'[s] = pc[s] /\ allowed'[s] = allowed[s]
  BY <1>1 DEF CountsIn, Name, Running
<1> QED
  BY <1>2, QuietRates

LEMMA BeginNestedRates ==
    ASSUME Control, RateInv, NEW r \in Requests, BeginNested(r) PROVE RateInv'
<1>1. \A s \in Requests : s # r => allowed'[s] = allowed[s]
  BY DEF BeginNested, Control, TypeOK
<1> QED
  BY <1>1, LeaveRates DEF BeginNested, Step, base

LEMMA SqlErrorRates ==
    ASSUME Control, RateInv, NEW r \in Requests, SqlError(r) PROVE RateInv'
<1>1. \A s \in Requests : s # r => allowed'[s] = allowed[s]
  BY DEF SqlError, Control, TypeOK
<1>2. CASE UNCHANGED <<db, txn>>
  BY <1>1, <1>2, LeaveRates DEF SqlError, Step
<1>3. CASE pc[r] \in {"work", "commit"} /\ db' = saved /\ txn' = None
  <2>1. txn = r /\ r # None /\ \A s \in Requests : s # r => pc[s] # "commit"
    BY <1>3, PairingAssumption DEF Control, TxnInv
  <2>2. pc'[r] = "returned" /\ \A s \in Requests : s # r => pc'[s] = pc[s]
    BY DEF SqlError, Step, Control, TypeOK
  <2>3. \A g \in Gates, s \in Requests :
           CountsIn(s, g)' => CountsIn(s, g) /\ window'[s] = window[s] /\ pc'[s] # "commit"
    BY <2>1, <2>2 DEF SqlError, CountsIn, Name, Running
  <2> QED
    BY <1>3, <2>1, <2>3, RollbackRates DEF SqlError
<1> QED
  BY <1>2, <1>3 DEF SqlError

\* A call that passes counts itself in its window.
LEMMA PassRates ==
    ASSUME Control, RateInv, NEW r \in Requests, NEW g \in Gates, CountsIn(r, g),
           pc[r] = "work", pc'[r] = "commit", \A s \in Requests : s # r => pc'[s] = pc[s],
           UNCHANGED <<now, saved, txn, granted, wiped, window, stage>>,
           Count(r) = (IF db.rate[g].window = window[r] THEN db.rate[g].count ELSE 0),
           Count(r) \in Nat, db' \in Database,
           db'.rate = [db.rate EXCEPT ![g] = [window |-> window[r], count |-> Count(r) + 1]]
    PROVE  RateInv'
<1> DEFINE v == window[r]
<1>1. /\ \A h \in Gates, s \in Requests : CountsIn(s, h)' <=> CountsIn(s, h)
      /\ \A h \in Gates, w \in Windows : OpenWindow(h, w)' <=> OpenWindow(h, w)
  <2>1. \A h \in Gates, s \in Requests : CountsIn(s, h)' <=> CountsIn(s, h)
    BY DEF CountsIn, Name, Running
  <2> QED
    BY <2>1 DEF OpenWindow, WindowOf
<1>2. /\ v \in Windows /\ v \in Nat /\ WindowOf(now) \in Nat /\ v <= WindowOf(now)
      /\ db \in Database /\ db.rate[g].window \in Int /\ db.rate[g].window <= v
  <2>1. v \in Windows /\ db \in Database
    BY DEF Control, TypeOK
  <2>2. v \in Nat
    BY <2>1, PairingAssumption DEF Windows
  <2>3. v <= WindowOf(now) /\ db.rate[g].window <= v
    BY DEF RateInv, PassingInv, CountedInv
  <2> QED
    BY <2>1, <2>2, <2>3, CountTypes, NowFacts DEF Control
<1>3. /\ db'.rate[g].window = v /\ db'.rate[g].count = Count(r) + 1
      /\ \A h \in Gates : h # g => db'.rate[h] = db.rate[h]
  BY <1>2 DEF Database
<1>4. granted[g][v] + 1 <= Counted(db', g, v)
  <2> DEFINE x == Limit * wiped[g][v]
  <2>1. x \in Nat /\ granted[g][v] \in Nat
    BY <1>2, CountTypes DEF Control
  <2>2. OpenWindow(g, v)
    BY DEF OpenWindow
  <2>3. granted[g][v] <= Counted(db, g, v) /\ Counted(db, g, v) = x + Count(r)
    BY <1>2, <2>2 DEF RateInv, CountedInv, Counted
  <2>4. Counted(db', g, v) = x + (Count(r) + 1)
    BY <1>3 DEF Counted
  <2> HIDE DEF x
  <2> QED
    BY <2>1, <2>3, <2>4
<1>5. CountedInv(db)'
  <2> SUFFICES ASSUME NEW h \in Gates
               PROVE  /\ db'.rate[h].window <= WindowOf(now)
                      /\ \A s \in Requests : CountsIn(s, h) => db'.rate[h].window <= window[s]
                      /\ \A w \in Windows : db'.rate[h].window = w \/ OpenWindow(h, w) =>
                            granted[h][w] <= Counted(db', h, w)
    BY <1>1 DEF CountedInv, Counted, WindowOf
  <2>1. CASE h # g
    <3>1. db'.rate[h] = db.rate[h] /\ \A w \in Windows : Counted(db', h, w) = Counted(db, h, w)
      BY <1>3, <2>1 DEF Counted
    <3> QED
      BY <3>1 DEF RateInv, CountedInv
  <2>2. CASE h = g
    <3>1. \A s \in Requests : CountsIn(s, g) => s = r
      BY OneCounts
    <3>2. ASSUME NEW w \in Windows, w = v PROVE granted[g][w] <= Counted(db', g, w)
      <4>1. granted[g][v] \in Nat /\ Counted(db', g, v) \in Nat
        BY <1>2, CountTypes DEF Control
      <4> QED
        BY <1>4, <3>2, <4>1
    <3>3. ASSUME NEW w \in Windows, w # v, OpenWindow(g, w)
          PROVE  granted[g][w] <= Counted(db', g, w)
      <4>1. w \in Nat /\ w >= WindowOf(now)
        BY <3>1, <3>3, CountTypes, <1>2 DEF OpenWindow, Control
      <4>2. db.rate[g].window # w /\ db'.rate[g].window # w
        BY <1>2, <1>3, <3>3, <4>1
      <4>3. Counted(db', g, w) = Counted(db, g, w)
        BY <4>2 DEF Counted
      <4> QED
        BY <3>3, <4>3 DEF RateInv, CountedInv
    <3> QED
      BY <1>2, <1>3, <2>2, <3>1, <3>2, <3>3
  <2> QED
    BY <2>1, <2>2
<1>6. txn' # None => CountedInv(saved)'
  BY <1>1 DEF RateInv, CountedInv, Counted, WindowOf
<1>7. PassingInv'
  <2> SUFFICES ASSUME NEW h \in Gates, NEW s \in Requests, CountsIn(s, h)
               PROVE  /\ window[s] <= WindowOf(now)
                      /\ pc'[s] = "commit" =>
                            /\ db'.rate[h].window = window[s]
                            /\ granted[h][window[s]] + 1 <= Counted(db', h, window[s])
    BY <1>1 DEF PassingInv, Counted, WindowOf
  <2>1. CASE s = r
    <3>1. h = g
      BY <2>1 DEF CountsIn
    <3> QED
      BY <1>2, <1>3, <1>4, <2>1, <3>1
  <2>2. CASE s # r
    <3>1. pc'[s] # "commit"
      BY <2>2 DEF Control, TxnInv
    <3> QED
      BY <3>1 DEF RateInv, PassingInv
  <2> QED
    BY <2>1, <2>2
<1>8. RateLimited'
  BY DEF RateInv, RateLimited
<1> QED
  BY <1>5, <1>6, <1>7, <1>8 DEF RateInv

LEMMA WorkRates ==
    ASSUME Control, RateInv, NEW r \in Requests, Work(r) PROVE RateInv'
<1>1. /\ pc[r] = "work" /\ pc'[r] = "commit"
      /\ UNCHANGED <<now, saved, txn, granted, wiped, window, stage>>
      /\ \A s \in Requests : s # r => pc'[s] = pc[s]
  BY DEF Work, Step, Control, TypeOK
<1>2. /\ db' \in Database
      /\ \A s \in Requests : s # r => allowed'[s] = allowed[s]
  BY WorkWrites
<1>3. \A g \in Gates, s \in Requests : CountsIn(s, g)' <=> CountsIn(s, g)
  BY <1>1 DEF CountsIn, Name, Running
<1>4. CASE (IsIssue(r) \/ IsRedeem(r)) /\ db'.rate = db.rate
  <2>1. Name(r) \in Tickets
    BY <1>4 DEF IsIssue, IsRedeem
  <2>2. \A g \in Gates : ~CountsIn(r, g)
    BY <2>1, PairingAssumption DEF CountsIn
  <2> QED
    BY <1>1, <1>2, <1>3, <1>4, <2>2, QuietRates
<1>5. CASE /\ IsRate(r) /\ db'.rate = [db.rate EXCEPT ![Name(r)] =
                                         [window |-> window[r], count |-> Count(r) + 1]]
  <2>1. /\ Name(r) \in Gates /\ Count(r) \in 0..Limit
        /\ Count(r) = IF db.rate[Name(r)].window = window[r] THEN db.rate[Name(r)].count ELSE 0
    BY <1>1, <1>5, ReadStill
  <2>2. Count(r) \in Nat
    BY <2>1, PairingAssumption
  <2>3. CountsIn(r, Name(r))
    BY <1>1 DEF CountsIn, Running
  <2> QED
    BY <1>1, <1>2, <1>5, <2>1, <2>2, <2>3, PassRates
<1>6. CASE ~allowed'[r] /\ db' = db
  BY <1>1, <1>2, <1>3, <1>6, QuietRates
<1> QED
  BY <1>4, <1>5, <1>6, WorkWrites

\* A call is let through when it has counted itself.
LEMMA CommitRates ==
    ASSUME Control, RateInv, NEW r \in Requests, Commit(r) PROVE RateInv'
<1>1. /\ pc[r] = "commit" /\ pc'[r] = "returned" /\ txn' = None /\ txn = r
      /\ UNCHANGED <<now, db, saved, wiped, window, stage, allowed>>
      /\ \A s \in Requests : s # r => pc'[s] = pc[s] /\ pc[s] # "commit"
  BY DEF Commit, Step, Control, TypeOK, TxnInv
<1>2. CASE UNCHANGED granted
  <2>1. pc' = [pc EXCEPT ![r] = "returned"] /\ \A s \in Requests : s # r => allowed'[s] = allowed[s]
    BY <1>1 DEF Commit, Step
  <2> QED
    BY <1>1, <1>2, <2>1, LeaveRates
<1>3. CASE IsRate(r) /\ allowed[r] /\ granted' = [granted EXCEPT ![Name(r)][window[r]] = @ + 1]
  <2> DEFINE g == Name(r)
             v == window[r]
  <2>1. g \in Gates /\ v \in Windows /\ CountsIn(r, g) /\ db \in Database
    BY <1>1, <1>3 DEF IsRate, CountsIn, Running, Control, TypeOK
  <2>2. /\ granted'[g][v] = granted[g][v] + 1
        /\ \A h \in Gates, w \in Windows : h # g \/ w # v => granted'[h][w] = granted[h][w]
    BY <1>3, <2>1 DEF Control, TypeOK
  <2>3. db.rate[g].window = v /\ granted'[g][v] <= Counted(db, g, v)
    BY <1>1, <1>3, <2>1, <2>2 DEF RateInv, PassingInv
  <2>4. \A h \in Gates, s \in Requests :
           CountsIn(s, h)' => CountsIn(s, h) /\ window'[s] = window[s] /\ pc'[s] # "commit"
    BY <1>1 DEF CountsIn, Name, Running
  <2>5. \A h \in Gates, w \in Windows : /\ OpenWindow(h, w)' => OpenWindow(h, w)
                                        /\ Counted(db, h, w)' = Counted(db, h, w)
    BY <1>1, <2>4 DEF OpenWindow, Counted, WindowOf
  <2>6. CountedInv(db)'
    <3> SUFFICES ASSUME NEW h \in Gates
                 PROVE  /\ db.rate[h].window <= WindowOf(now)
                        /\ \A s \in Requests : CountsIn(s, h) => db.rate[h].window <= window[s]
                        /\ \A w \in Windows : db.rate[h].window = w \/ OpenWindow(h, w) =>
                              granted'[h][w] <= Counted(db, h, w)
      BY <1>1, <2>4, <2>5 DEF CountedInv, WindowOf
    <3>1. \A w \in Windows : db.rate[h].window = w \/ OpenWindow(h, w) =>
             granted'[h][w] <= Counted(db, h, w)
      <4> SUFFICES ASSUME NEW w \in Windows, db.rate[h].window = w \/ OpenWindow(h, w)
                   PROVE  granted'[h][w] <= Counted(db, h, w)
        OBVIOUS
      <4>1. CASE h = g /\ w = v
        BY <2>3, <4>1
      <4>2. CASE h # g \/ w # v
        BY <2>2, <4>2 DEF RateInv, CountedInv
      <4> QED
        BY <4>1, <4>2
    <3> QED
      BY <3>1 DEF RateInv, CountedInv
  <2>7. PassingInv'
    BY <1>1, <2>4 DEF RateInv, PassingInv, WindowOf
  <2>8. RateLimited'
    <3> SUFFICES ASSUME NEW h \in Gates, NEW w \in Windows
                 PROVE  granted'[h][w] <= Limit * (1 + wiped[h][w])
      BY <1>1 DEF RateLimited
    <3>1. CASE h = g /\ w = v
      <4>1. /\ Counted(db, g, v) <= Limit * wiped[g][v] + Limit /\ Counted(db, g, v) \in Nat
            /\ Limit * wiped[g][v] \in Nat /\ granted[g][v] \in Nat
            /\ Limit * (1 + wiped[g][v]) = Limit * wiped[g][v] + Limit /\ Limit \in Nat
        BY <2>1, CountTypes, Allowance DEF Control
      <4> QED
        BY <2>2, <2>3, <3>1, <4>1
    <3>2. CASE h # g \/ w # v
      BY <2>2, <3>2 DEF RateInv, RateLimited
    <3> QED
      BY <3>1, <3>2
  <2> QED
    BY <1>1, <2>6, <2>7, <2>8 DEF RateInv
<1> QED
  BY <1>2, <1>3 DEF Commit

\* A wipe lets the window of the moment begin again, and is counted.
LEMMA WipeRates ==
    ASSUME Control, RateInv, NEW n \in Gates,
           UNCHANGED <<now, saved, txn, pc, stage, window, allowed, granted>>,
           \A s \in Requests : ~CountsIn(s, n),
           \A g \in Gates : db'.rate[g] = IF g = n THEN NoCount ELSE db.rate[g],
           wiped' = [wiped EXCEPT ![n][WindowOf(now)] = @ + 1]
    PROVE  RateInv'
<1> DEFINE v == WindowOf(now)
           C(d, g, w) == Limit * wiped'[g][w] + (IF d.rate[g].window = w THEN d.rate[g].count ELSE 0)
<1>1. v \in Windows /\ v \in Nat /\ db \in Database /\ saved \in Database
  BY NowFacts DEF Control, TypeOK
<1>2. /\ wiped'[n][v] = wiped[n][v] + 1
      /\ \A g \in Gates, w \in Windows : g # n \/ w # v => wiped'[g][w] = wiped[g][w]
  BY <1>1 DEF Control, TypeOK
<1>3. /\ \A g \in Gates, s \in Requests : CountsIn(s, g)' <=> CountsIn(s, g)
      /\ \A g \in Gates, w \in Windows : OpenWindow(g, w)' <=> OpenWindow(g, w)
  <2>1. \A g \in Gates, s \in Requests : CountsIn(s, g)' <=> CountsIn(s, g)
    BY DEF CountsIn, Name
  <2> QED
    BY <2>1 DEF OpenWindow, WindowOf
<1>4. \A w \in Windows : /\ w \in Nat /\ granted[n][w] \in Nat /\ Limit * wiped[n][w] \in Nat
                         /\ wiped[n][w] \in Nat
  BY <1>1, CountTypes DEF Control
<1>5. Limit \in Nat /\ Limit * wiped'[n][v] = Limit * wiped[n][v] + Limit
  <2>1. Limit * (1 + wiped[n][v]) = Limit * wiped[n][v] + Limit /\ Limit \in Nat
    BY <1>1, <1>4, Allowance
  <2>2. wiped'[n][v] = 1 + wiped[n][v]
    BY <1>1, <1>2, <1>4
  <2> QED
    BY <2>1, <2>2
<1>6. \A d \in Database, w \in Windows :
         /\ Counted(d, n, w) \in Nat /\ Counted(d, n, w) <= Limit * wiped[n][w] + Limit
         /\ d.rate[n].window \in Int /\ d.rate[n].count \in Nat
  BY CountTypes DEF Control
<1>7. ASSUME NEW w \in Windows, OpenWindow(n, w) PROVE granted[n][w] <= Limit * wiped'[n][w]
  <2>1. w >= v
    BY <1>7 DEF OpenWindow
  <2>2. granted[n][w] <= Counted(db, n, w)
    BY <1>7 DEF RateInv, CountedInv
  <2>3. CASE w = v
    BY <1>1, <1>4, <1>5, <1>6, <2>2, <2>3
  <2>4. CASE w # v
    <3>1. db.rate[n].window # w
      BY <1>1, <1>4, <1>6, <2>1, <2>4 DEF RateInv, CountedInv
    <3>2. Counted(db, n, w) = Limit * wiped[n][w] /\ wiped'[n][w] = wiped[n][w]
      BY <1>2, <1>4, <2>4, <3>1 DEF Counted
    <3> QED
      BY <2>2, <3>2
  <2> QED
    BY <2>3, <2>4
<1>8. CountedInv(db)'
  <2> SUFFICES ASSUME NEW g \in Gates
               PROVE  /\ db'.rate[g].window <= WindowOf(now)
                      /\ \A s \in Requests : CountsIn(s, g) => db'.rate[g].window <= window[s]
                      /\ \A w \in Windows : db'.rate[g].window = w \/ OpenWindow(g, w) =>
                            granted[g][w] <= C(db', g, w)
    BY <1>3 DEF CountedInv, Counted, WindowOf
  <2>1. CASE g # n
    <3>1. db'.rate[g] = db.rate[g]
      BY <2>1
    <3>2. \A w \in Windows : C(db', g, w) = Counted(db, g, w)
      BY <1>2, <2>1, <3>1 DEF Counted
    <3> QED
      BY <3>1, <3>2 DEF RateInv, CountedInv
  <2>2. CASE g = n
    <3>1. db'.rate[n].window = -1 /\ db'.rate[n].count = 0
      BY DEF NoCount
    <3>2. \A w \in Windows : w # -1
      BY <1>4
    <3>3. ASSUME NEW w \in Windows, OpenWindow(n, w) PROVE granted[n][w] <= C(db', n, w)
      <4>1. granted[n][w] <= Limit * wiped'[n][w]
        BY <1>7, <3>3
      <4>2. C(db', n, w) = Limit * wiped'[n][w] + 0
        BY <3>1
      <4>3. Limit * wiped'[n][w] \in Nat
        BY <1>2, <1>4, <1>5
      <4> QED
        BY <4>1, <4>2, <4>3
    <3> QED
      BY <1>1, <2>2, <3>1, <3>2, <3>3
  <2> QED
    BY <2>1, <2>2
<1>9. ASSUME txn # None PROVE CountedInv(saved)'
  <2> SUFFICES ASSUME NEW g \in Gates
               PROVE  /\ saved.rate[g].window <= WindowOf(now)
                      /\ \A s \in Requests : CountsIn(s, g) => saved.rate[g].window <= window[s]
                      /\ \A w \in Windows : saved.rate[g].window = w \/ OpenWindow(g, w) =>
                            granted[g][w] <= C(saved, g, w)
    BY <1>3 DEF CountedInv, Counted, WindowOf
  <2>1. /\ saved.rate[g].window <= WindowOf(now)
        /\ \A s \in Requests : CountsIn(s, g) => saved.rate[g].window <= window[s]
        /\ \A w \in Windows : saved.rate[g].window = w \/ OpenWindow(g, w) =>
              granted[g][w] <= Counted(saved, g, w)
    BY <1>9 DEF RateInv, CountedInv
  <2>2. CASE g # n
    BY <1>2, <2>1, <2>2 DEF Counted
  <2>3. ASSUME g = n, NEW w \in Windows, granted[n][w] <= Counted(saved, n, w)
        PROVE  granted[n][w] <= C(saved, n, w)
    <3> DEFINE y == IF saved.rate[n].window = w THEN saved.rate[n].count ELSE 0
    <3>1. y \in Nat /\ Counted(saved, n, w) = Limit * wiped[n][w] + y
      BY <1>1, <1>6 DEF Counted
    <3>2. C(saved, n, w) = Limit * wiped'[n][w] + y
      OBVIOUS
    <3> HIDE DEF y, C
    <3>3. CASE w = v
      BY <1>4, <1>5, <2>3, <3>1, <3>2, <3>3
    <3>4. CASE w # v
      BY <1>2, <1>4, <2>3, <3>1, <3>2, <3>4
    <3> QED
      BY <3>3, <3>4
  <2> QED
    BY <2>1, <2>2, <2>3
<1>10. PassingInv'
  <2> SUFFICES ASSUME NEW g \in Gates, NEW s \in Requests, CountsIn(s, g)
               PROVE  /\ window[s] <= WindowOf(now)
                      /\ pc[s] = "commit" /\ allowed[s] =>
                            /\ db'.rate[g].window = window[s]
                            /\ granted[g][window[s]] + 1 <= C(db', g, window[s])
    BY <1>3 DEF PassingInv, Counted, WindowOf
  <2>1. g # n /\ window[s] \in Windows
    BY DEF Control, TypeOK
  <2>2. db'.rate[g] = db.rate[g] /\ C(db', g, window[s]) = Counted(db, g, window[s])
    BY <1>2, <2>1 DEF Counted
  <2> QED
    BY <2>2 DEF RateInv, PassingInv
<1>11. RateLimited'
  <2> SUFFICES ASSUME NEW g \in Gates, NEW w \in Windows
               PROVE  granted[g][w] <= Limit * (1 + wiped'[g][w])
    BY DEF RateLimited
  <2>1. granted[g][w] <= Limit * (1 + wiped[g][w])
    BY DEF RateInv, RateLimited
  <2>2. CASE g = n /\ w = v
    <3>1. /\ Limit * (1 + wiped[n][v]) = Limit * wiped[n][v] + Limit
          /\ Limit * (1 + wiped'[n][v]) = Limit * wiped'[n][v] + Limit
      BY <1>1, <1>2, <1>4, Allowance
    <3> QED
      BY <1>1, <1>4, <1>5, <2>1, <2>2, <3>1
  <2>3. CASE g # n \/ w # v
    BY <1>2, <2>1, <2>3
  <2> QED
    BY <2>2, <2>3
<1> QED
  BY <1>8, <1>9, <1>10, <1>11 DEF RateInv

LEMMA SweepWipeRates == ASSUME Control, RateInv, SweepWipe PROVE RateInv'
<1> DEFINE n == sweep.at
<1>1. n \in Objects /\ (\A s \in Requests : pc[s] \in Running => Name(s) # n) /\ db \in Database
  BY SweepApart DEF SweepWipe, Control, TypeOK
<1>2. \A g \in Gates : db'.rate[g] = IF g = n THEN NoCount ELSE db.rate[g]
  BY <1>1, WipeWritten DEF SweepWipe
<1>3. UNCHANGED <<now, saved, txn, pc, stage, window, allowed, granted>>
  BY DEF SweepWipe, calls
<1>4. CASE n \in Gates
  <2>1. \A s \in Requests : ~CountsIn(s, n)
    BY <1>1 DEF CountsIn
  <2> QED
    BY <1>2, <1>3, <1>4, <2>1, WipeRates DEF SweepWipe
<1>5. CASE n \notin Gates
  <2>1. db'.rate = db.rate
    <3>1. db.rate \in [Gates -> RateRecord] /\ db'.rate \in [Gates -> RateRecord]
      BY <1>1, WipeWritten DEF SweepWipe, Database
    <3> QED
      BY <1>2, <1>5, <3>1
  <2>2. \A g \in Gates, s \in Requests : CountsIn(s, g)' => CountsIn(s, g)
    BY <1>3 DEF CountsIn, Name
  <2> QED
    BY <1>3, <1>5, <2>1, <2>2, QuietRates DEF SweepWipe
<1> QED
  BY <1>4, <1>5

LEMMA SweepRates ==
    ASSUME Control, RateInv, SweepList \/ SweepJoin \/ SweepError PROVE RateInv'
<1>1. UNCHANGED <<now, saved, txn, pc, stage, window, allowed, granted, wiped>>
  BY DEF SweepList, SweepJoin, SweepError, base, calls
<1>2. db'.rate = db.rate
  BY SweepApart, AlarmGone DEF SweepList, SweepJoin, SweepError, base, Control
<1>3. \A g \in Gates, s \in Requests : CountsIn(s, g)' => CountsIn(s, g)
  BY <1>1 DEF CountsIn, Name
<1> QED
  BY <1>1, <1>2, <1>3, QuietRates

\* A window closes when the next one begins.
LEMMA TickRates == ASSUME Control, RateInv, Tick PROVE RateInv'
<1>1. UNCHANGED <<db, saved, txn, pc, stage, window, allowed, granted, wiped>>
  BY DEF Tick, base, calls
<1>2. /\ WindowOf(now) \in Nat /\ WindowOf(now)' \in Nat /\ WindowOf(now)' >= WindowOf(now)
  <2>1. now \in Nat /\ now' = now + 1
    BY PairingAssumption DEF Tick, Control, TypeOK
  <2>2. /\ WindowOf(now) \in Nat /\ WindowOf(now + 1) \in Nat
        /\ WindowOf(now + 1) >= WindowOf(now)
    BY <2>1, WindowFacts
  <2> QED
    BY <2>1, <2>2 DEF WindowOf
<1>3. \A w \in Windows : w \in Nat
  BY PairingAssumption DEF Windows
<1>4. \A g \in Gates, s \in Requests : CountsIn(s, g)' <=> CountsIn(s, g)
  BY <1>1 DEF CountsIn, Name
<1>5. \A g \in Gates, w \in Windows : OpenWindow(g, w)' => OpenWindow(g, w)
  BY <1>1, <1>2, <1>3, <1>4 DEF OpenWindow
<1>6. ASSUME NEW d \in Database, CountedInv(d)
      PROVE  \A g \in Gates :
                /\ d.rate[g].window <= WindowOf(now)'
                /\ \A s \in Requests : CountsIn(s, g)' => d.rate[g].window <= window[s]
                /\ \A w \in Windows : d.rate[g].window = w \/ OpenWindow(g, w)' =>
                      granted[g][w] <= Counted(d, g, w)
  <2>1. \A g \in Gates : d.rate[g].window \in Int
    BY CountTypes DEF Control
  <2> QED
    BY <1>2, <1>4, <1>5, <1>6, <2>1 DEF CountedInv
<1>7. CountedInv(db)' /\ (txn # None => CountedInv(saved)')
  BY <1>1, <1>6 DEF RateInv, CountedInv, Counted, Control, TypeOK
<1>8. \A s \in Requests : window[s] \in Nat
  BY <1>3 DEF Control, TypeOK
<1>9. PassingInv'
  BY <1>1, <1>2, <1>4, <1>8 DEF RateInv, PassingInv, Counted
<1> QED
  BY <1>1, <1>7, <1>9 DEF RateInv, RateLimited

LEMMA KillRates == ASSUME Control, RateInv, Kill \/ KillInSweep PROVE RateInv'
<1>1. /\ UNCHANGED <<now, saved, stage, window, allowed, granted, wiped>> /\ txn' = None
      /\ \A s \in Requests : pc'[s] \notin Running
  <2>1. Restarted
    BY DEF Kill, KillInSweep
  <2>2. \A s \in Requests : pc'[s] \in {"idle", "done"}
    BY <2>1 DEF Restarted, InFlight, Control, TypeOK
  <2> QED
    BY <2>1, <2>2 DEF Restarted, Running
<1>2. \A g \in Gates, s \in Requests : ~CountsIn(s, g)'
  BY <1>1 DEF CountsIn
<1>3. CASE txn # None /\ db' = saved
  BY <1>1, <1>2, <1>3, RollbackRates
<1>4. CASE db'.rate = db.rate
  BY <1>1, <1>2, <1>4, QuietRates
<1>5. KillInSweep => db'.rate = db.rate
  BY SweepApart, AlarmGone DEF KillInSweep, Control
<1> QED
  BY <1>3, <1>4, <1>5 DEF Kill

LEMMA InitRates == Init => RateInv
<1> SUFFICES ASSUME Init PROVE RateInv
  OBVIOUS
<1>1. TypeOK /\ \A w \in Windows : w \in Nat
  BY InitControl, PairingAssumption DEF Control, Windows
<1>2. \A g \in Gates : db.rate[g].window = -1 /\ db.rate[g].count = 0
  BY DEF Init, NoCount
<1>3. /\ \A g \in Gates, w \in Windows : granted[g][w] = 0 /\ wiped[g][w] = 0
      /\ \A g \in Gates, s \in Requests : ~CountsIn(s, g)
      /\ txn = None
  BY DEF Init, CountsIn, Running
<1>4. RateLimited
  BY <1>3, PairingAssumption DEF RateLimited
<1>5. CountedInv(db)
  <2>1. WindowOf(now) \in Nat
    BY <1>1, NowFacts
  <2>2. \A g \in Gates, w \in Windows : Counted(db, g, w) = 0
    BY <1>1, <1>2, <1>3, PairingAssumption DEF Counted
  <2> QED
    BY <1>2, <1>3, <2>1, <2>2 DEF CountedInv
<1>6. PassingInv
  BY <1>3 DEF PassingInv
<1> QED
  BY <1>3, <1>4, <1>5, <1>6 DEF RateInv

LEMMA RatesInductive == Control /\ RateInv /\ [Next]_vars => RateInv'
<1> SUFFICES ASSUME Control, RateInv, [Next]_vars PROVE RateInv'
  OBVIOUS
<1>1. ASSUME NEW r \in Requests, Arrive(r) \/ Progress(r) \/ SqlError(r) PROVE RateInv'
  BY <1>1, CallRates, IssueAlarmRates, RateAlarmRates, BeginRates, BeginNestedRates, WorkRates,
     CommitRates, SqlErrorRates DEF Progress
<1>2. CASE Sweep \/ SweepError
  BY <1>2, SweepRates, SweepWipeRates DEF Sweep
<1>3. CASE Tick \/ Kill \/ KillInSweep
  BY <1>3, TickRates, KillRates
<1>4. CASE UNCHANGED vars
  <2>1. \A g \in Gates, s \in Requests : CountsIn(s, g)' => CountsIn(s, g)
    BY <1>4 DEF CountsIn, Name, vars, calls
  <2> QED
    BY <1>4, <2>1, QuietRates DEF vars, base, calls
<1> QED
  BY <1>1, <1>2, <1>3, <1>4 DEF Next

\* In a window a gate lets no more through than its limit, for every time the sweep
\* has wiped its counter in that window; a rollback or a restart, which takes back
\* what a transaction counted, lets nobody through twice (rate in
\* app-pairing-store.js, transaction and sweepDue in pairing-store.mjs).
THEOREM LimitsKept == SafeSpec => []RateLimited
<1>1. Init => RateInv
  BY InitRates
<1>2. Control /\ RateInv /\ [Next]_vars => RateInv'
  BY RatesInductive
<1>3. RateInv => RateLimited
  BY DEF RateInv
<1> QED
  BY <1>1, <1>2, <1>3, ControlInvariant, PTL DEF SafeSpec

-----------------------------------------------------------------------------
(* Alarms, as long as nothing fails.                                       *)

Stored(d, t)  == d.ticket[t].status # "absent"
Covered(d)    == \A t \in Tickets : Stored(d, t) => d.alarm[t] # NoAlarm

\* An issuer has set the alarm of its ticket, which nobody takes away while it
\* has the ticket's lock.
CoverInv ==
    /\ Covered(db)
    /\ txn # None => Covered(saved)
    /\ \A i \in Issuers : IsIssue(i) /\ pc[i] \in {"begin", "work"} => db.alarm[Name(i)] # NoAlarm

\* A step that takes no alarm away, and stores no ticket that had none.
LEMMA QuietCover ==
    ASSUME CoverInv, UNCHANGED <<saved, txn>>,
           \A t \in Tickets : /\ db.alarm[t] # NoAlarm => db'.alarm[t] # NoAlarm
                              /\ Stored(db', t) => Stored(db, t),
           \A i \in Issuers : IsIssue(i)' /\ pc'[i] \in {"begin", "work"} =>
               IsIssue(i) /\ Name(i)' = Name(i) /\ pc[i] \in {"begin", "work"}
    PROVE  CoverInv'
BY DEF CoverInv, Covered, IsIssue

LEMMA RequestCover ==
    ASSUME Control, CoverInv, NEW r \in Requests, Arrive(r) \/ Progress(r)
    PROVE  CoverInv'
<1>1. Name(r) \in Objects /\ Issuers \subseteq Requests /\ Gates \cap Tickets = {}
  <2>1. Name(r) \in Objects
    BY Calls DEF Control, TypeOK
  <2>2. Issuers \subseteq Requests
    BY DEF Requests
  <2> QED
    BY <2>1, <2>2, PairingAssumption
<1>2. /\ expires[r] + Grace # NoAlarm
      /\ pc \in [Requests -> {"idle", "locked", "begin", "work", "commit", "returned", "done"}]
      /\ stage \in [Requests -> Nat \ {0}]
      /\ DOMAIN db.alarm = Objects
  <2>1. expires[r] \in Nat
    BY DEF Control, TypeOK
  <2>2. expires[r] + Grace # NoAlarm
    BY <2>1, PairingAssumption DEF NoAlarm
  <2> QED
    BY <2>2 DEF Control, TypeOK, Database
<1>3. CASE Arrive(r) \/ Advance(r)
  <2>1. UNCHANGED <<db, saved, txn>> /\ pc'[r] \notin {"begin", "work"}
    BY <1>2, <1>3 DEF Arrive, Advance, Call, Answer, base
  <2>2. \A i \in Issuers : i # r => pc'[i] = pc[i] /\ stage'[i] = stage[i]
    BY <1>1, <1>2, <1>3 DEF Arrive, Advance, Call, Answer
  <2> QED
    BY <2>1, <2>2, QuietCover DEF IsIssue, Name
<1>4. CASE IssueAlarm(r) /\ Step(r, "returned") /\ UNCHANGED db
  <2>1. UNCHANGED <<saved, txn, stage>> /\ pc'[r] = "returned"
        /\ \A i \in Issuers : i # r => pc'[i] = pc[i]
    BY <1>1, <1>2, <1>4 DEF IssueAlarm, Step
  <2> QED
    BY <1>4, <2>1, QuietCover DEF IsIssue, Name
<1>5. CASE IssueAlarm(r) /\ db' = [db EXCEPT !.alarm[Name(r)] = expires[r] + Grace]
  <2>1. /\ db'.ticket = db.ticket /\ db'.alarm[Name(r)] # NoAlarm
        /\ \A n \in Objects : n # Name(r) => db'.alarm[n] = db.alarm[n]
    BY <1>1, <1>2, <1>5 DEF Database
  <2>2. UNCHANGED <<saved, txn, stage>> /\ \A i \in Issuers : i # r => pc'[i] = pc[i]
    BY <1>1, <1>2, <1>5 DEF IssueAlarm, Step
  <2>3. Covered(db)' /\ (txn' # None => Covered(saved)')
    BY <2>1, <2>2 DEF CoverInv, Covered, Stored, Objects
  <2>4. ASSUME NEW i \in Issuers, IsIssue(i)', pc'[i] \in {"begin", "work"}
        PROVE  db'.alarm[Name(i)'] # NoAlarm
    BY <2>1, <2>2, <2>4 DEF CoverInv, IsIssue, Name, Objects
  <2> QED
    BY <2>3, <2>4 DEF CoverInv
<1>6. CASE RateAlarm(r)
  <2>1. /\ db'.ticket = db.ticket
        /\ \A t \in Tickets : db'.alarm[t] = db.alarm[t]
    BY <1>1, <1>6 DEF RateAlarm, SetAlarm, IsRate, Database, Objects
  <2>2. UNCHANGED <<saved, txn, stage>> /\ \A i \in Issuers : i # r => pc'[i] = pc[i]
    BY <1>1, <1>6 DEF RateAlarm, Step
  <2>3. ~IsIssue(r)'
    BY <1>1, <1>6, <2>2 DEF RateAlarm, IsIssue, IsRate, Name
  <2> QED
    BY <2>1, <2>2, <2>3, QuietCover DEF IsIssue, Name, Stored
<1>7. CASE Begin(r)
  <2>1. UNCHANGED <<db, stage>> /\ saved' = db /\ \A i \in Issuers : i # r => pc'[i] = pc[i]
    BY <1>1, <1>7 DEF Begin, Step
  <2>2. IsIssue(r) => pc[r] = "begin"
    BY <1>7, PairingAssumption DEF Begin, Ready, IsIssue, IsRedeem
  <2> QED
    BY <2>1, <2>2 DEF CoverInv, Covered, IsIssue, Name, Stored
<1>8. CASE BeginNested(r)
  BY <1>1, <1>2, <1>8, QuietCover DEF BeginNested, Step, base, IsIssue, Name
<1>9. CASE Work(r)
  <2>1. UNCHANGED <<saved, txn, stage>> /\ pc'[r] = "commit" /\ txn = r /\ pc[r] = "work"
        /\ \A i \in Issuers : i # r => pc'[i] = pc[i]
    BY <1>1, <1>2, <1>9 DEF Work, Step, Control, TxnInv
  <2>2. db'.alarm = db.alarm
    BY <1>9, WorkWrites
  <2>3. ASSUME NEW t \in Tickets, Stored(db', t) PROVE db.alarm[t] # NoAlarm
    <3>1. CASE IsIssue(r) /\ t = Name(r)
      BY <2>1, <3>1 DEF CoverInv, IsIssue
    <3>2. CASE ~(IsIssue(r) /\ t = Name(r))
      <4>1. /\ IsIssue(r) => Name(r) = TicketOf(r)
            /\ TicketOf(r) \in Tickets /\ DOMAIN db.ticket = Tickets
        BY Calls DEF Control, TypeOK, Database, IsIssue
      <4>2. Stored(db, t)
        BY <1>9, <2>3, <3>2, <4>1, WorkWrites DEF Stored
      <4> QED
        BY <4>2 DEF CoverInv, Covered
    <3> QED
      BY <3>1, <3>2
  <2> QED
    BY <2>1, <2>2, <2>3 DEF CoverInv, Covered, IsIssue, Name, Stored
<1>10. CASE Commit(r)
  <2>1. UNCHANGED <<db, saved, stage>> /\ txn' = None /\ pc'[r] = "returned"
        /\ \A i \in Issuers : i # r => pc'[i] = pc[i]
    BY <1>1, <1>2, <1>10 DEF Commit, Step
  <2> QED
    BY <2>1 DEF CoverInv, Covered, IsIssue, Name, Stored
<1> QED
  BY <1>3, <1>4, <1>5, <1>6, <1>7, <1>8, <1>9, <1>10 DEF Progress, IssueAlarm, SetAlarm

\* A wipe takes the ticket with its alarm, and waits for its issuer.
LEMMA SweepCover ==
    ASSUME Control, CoverInv, Sweep
    PROVE  CoverInv'
<1>1. CASE SweepList \/ SweepJoin
  BY <1>1, QuietCover DEF SweepList, SweepJoin, base, calls, IsIssue, Name
<1>2. CASE SweepWipe
  <2>1. /\ sweep.at \in Objects
        /\ \A s \in Requests : pc[s] \in Running => Name(s) # sweep.at
    BY <1>2, SweepApart DEF SweepWipe
  <2>2. /\ db'.alarm = [db.alarm EXCEPT ![sweep.at] = NoAlarm]
        /\ \A t \in Tickets : db'.ticket[t] = IF t = sweep.at THEN NoTicket ELSE db.ticket[t]
    BY <1>2, <2>1, WipeWritten DEF SweepWipe, Control, TypeOK
  <2>3. UNCHANGED <<saved, txn, pc, stage>> /\ DOMAIN db.alarm = Objects
    BY <1>2 DEF SweepWipe, calls, Control, TypeOK, Database
  <2>4. Covered(db)'
    BY <2>2, <2>3 DEF CoverInv, Covered, Stored, NoTicket, Objects
  <2>5. ASSUME NEW i \in Issuers, IsIssue(i), pc[i] \in {"begin", "work"}
        PROVE  db'.alarm[Name(i)] # NoAlarm
    BY <2>1, <2>2, <2>3, <2>5 DEF CoverInv, Running, Requests, IsIssue, Objects
  <2> QED
    BY <2>3, <2>4, <2>5 DEF CoverInv, Covered, IsIssue, Name, Stored
<1> QED
  BY <1>1, <1>2 DEF Sweep

LEMMA CoverInductive ==
    Control /\ (faults = 0 => CoverInv) /\ [Next]_vars => (faults = 0 => CoverInv)'
<1> SUFFICES ASSUME Control, faults = 0 => CoverInv, [Next]_vars, faults' = 0 PROVE CoverInv'
  OBVIOUS
<1>1. CASE UNCHANGED vars
  BY <1>1, QuietCover DEF vars, base, calls, IsIssue, Name
<1>2. CASE \/ \E r \in Requests : SqlError(r)
           \/ SweepError \/ Kill \/ KillInSweep
  <2>1. faults \in Nat /\ faults' = faults + 1
    BY <1>2, PairingAssumption DEF SqlError, SweepError, Kill, KillInSweep, Restarted, Fault,
       Control, TypeOK
  <2> QED
    BY <2>1
<1>3. CASE \/ \E r \in Requests : Arrive(r) \/ Progress(r)
           \/ Sweep
  <2>1. faults' = faults
    BY <1>3 DEF Arrive, Progress, Advance, IssueAlarm, RateAlarm, Begin, BeginNested, Work,
       Commit, Sweep, SweepList, SweepJoin, SweepWipe
  <2> QED
    BY <1>3, <2>1, RequestCover, SweepCover
<1>4. CASE Tick
  BY <1>4, QuietCover DEF Tick, base, calls, IsIssue, Name
<1> QED
  BY <1>1, <1>2, <1>3, <1>4 DEF Next

\* As long as no statement fails and nobody kills the process, a stored ticket has
\* its alarm, whatever requests and sweeps do in between: the comment of issue in
\* app-pairing-store.js is right but for rollbacks and half a wipe.
THEOREM AlarmsKept == SafeSpec => [](faults = 0 => TicketHasAlarm)
<1>1. Init => (faults = 0 => CoverInv)
  <2>1. Init => \A t \in Tickets : ~Stored(db, t)
    BY DEF Init, Stored, NoTicket
  <2>2. Init => txn = None /\ \A i \in Issuers : pc[i] = "idle"
    BY DEF Init, Requests
  <2> QED
    BY <2>1, <2>2 DEF CoverInv, Covered
<1>2. Control /\ (faults = 0 => CoverInv) /\ [Next]_vars => (faults = 0 => CoverInv)'
  BY CoverInductive
<1>3. (faults = 0 => CoverInv) => (faults = 0 => TicketHasAlarm)
  BY DEF CoverInv, Covered, Stored, TicketHasAlarm, Durable
<1> QED
  BY <1>1, <1>2, <1>3, ControlInvariant, PTL DEF SafeSpec

=============================================================================
