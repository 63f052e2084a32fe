-------------------------- MODULE PairingTicketProofs -------------------------
(***************************************************************************)
(* What the pairing tickets guarantee, for any requests, tickets, gates,   *)
(* limits and lifetimes, and any number of faults: a ticket is redeemed    *)
(* once, a redemption is kept, an issued ticket is honoured, and the store *)
(* implements a register of tickets (TicketRegister).                      *)
(***************************************************************************)
EXTENDS PairingStoreProofs

-----------------------------------------------------------------------------
(* Tickets.                                                                *)

\* The request was told, or will be told unless something fails, that its ticket
\* is issued or redeemed.
Granted(r) ==
    \/ answer[r] = "ok"
    \/ pc[r] \in {"commit", "returned"} /\ allowed[r] /\ IsLast(r)

Called(i) == IsLast(i) /\ pc[i] # "idle"
Past(i)   == IsLast(i) /\ pc[i] \in {"returned", "done"}

\* The alarm of a ticket was set for the end of its life,
AlarmInv ==
    \A i \in Issuers, d \in {db, saved} :
        d.alarm[TicketOf(i)] # NoAlarm =>
            Called(i) /\ d.alarm[TicketOf(i)] = expires[i] + Grace

\* so the sweep has it on its list only then.
DueInv ==
    \A i \in Issuers : TicketOf(i) \in sweep.due => Called(i) /\ now >= expires[i] + Grace

\* A ticket is stored by its issuer, which does so once.
IssuedInv ==
    \A i \in Issuers :
        /\ db.ticket[TicketOf(i)].status # "absent" =>
              IsLast(i) /\ pc[i] \in {"commit", "returned", "done"}
        /\ txn # None /\ saved.ticket[TicketOf(i)].status # "absent" => Past(i)

\* What was issued stays, also in what another's rollback would restore.
HonouredInv ==
    \A i \in Issuers : Granted(i) /\ now < expires[i] =>
        /\ db.ticket[TicketOf(i)].status # "absent"
        /\ txn \notin {None, i} => saved.ticket[TicketOf(i)].status # "absent"

\* What was consumed stays so, and nobody is left to issue it again.
ConsumedInv ==
    \A r \in Redeemers : Granted(r) =>
        /\ db.ticket[TicketOf(r)].status # "issued"
        /\ txn \notin {None, r} => saved.ticket[TicketOf(r)].status # "issued"
        /\ \A i \in Issuers : TicketOf(i) = TicketOf(r) => Past(i)

OnceInv ==
    \A r, s \in Redeemers : Granted(r) /\ Granted(s) /\ TicketOf(r) = TicketOf(s) => r = s

TicketInv == AlarmInv /\ DueInv /\ IssuedInv /\ HonouredInv /\ ConsumedInv /\ OnceInv

-----------------------------------------------------------------------------
(* Steps that leave the tickets' records alone.                            *)

\* What every step does with a request but the one that grants it: it goes on.
Moves(r) ==
    /\ Called(r) => Called(r)' /\ expires'[r] = expires[r]
    /\ Past(r) => Past(r)'
    /\ IsLast(r) /\ pc[r] \in {"commit", "returned", "done"} =>
          IsLast(r)' /\ pc'[r] \in {"commit", "returned", "done"}
    /\ Granted(r)' => Granted(r)

LEMMA GrantedCalled == ASSUME DoneInv, NEW r \in Requests, Granted(r) PROVE Called(r)
BY DEF DoneInv, Granted, Called, None

LEMMA MembersOf == Issuers \subseteq Requests /\ Redeemers \subseteq Requests
BY DEF Requests

\* Two issuers do not share a ticket.
LEMMA OneIssuer ==
    ASSUME NEW i \in Issuers, NEW j \in Issuers, TicketOf(i) = TicketOf(j) PROVE i = j
BY PairingAssumption DEF TicketOf

LEMMA ClockNumbers ==
    ASSUME TypeOK, NEW r \in Requests
    PROVE  now \in Nat /\ expires[r] \in Nat /\ Grace \in Nat /\ TicketOf(r) \in Tickets
BY PairingAssumption, Calls DEF TypeOK

\* An alarm that is set was set for the end of the ticket; one that is due has come.
LEMMA AlarmDue ==
    ASSUME Control, TicketInv, NEW i \in Issuers,
           expires'[i] \in Nat, now' \in Nat, now' >= now, Moves(i),
           \/ db'.alarm[TicketOf(i)] \in {db.alarm[TicketOf(i)], NoAlarm}
           \/ Called(i)' /\ db'.alarm[TicketOf(i)] = expires'[i] + Grace,
           saved' \in {saved, db},
           \/ sweep'.due \subseteq sweep.due
           \/ /\ TicketOf(i) \in sweep'.due =>
                   db.alarm[TicketOf(i)] # NoAlarm /\ db.alarm[TicketOf(i)] <= now
    PROVE  /\ \A d \in {db', saved'} :
                 d.alarm[TicketOf(i)] # NoAlarm =>
                    Called(i)' /\ d.alarm[TicketOf(i)] = expires'[i] + Grace
           /\ TicketOf(i) \in sweep'.due => Called(i)' /\ now' >= expires'[i] + Grace
<1>1. i \in Requests /\ now \in Nat /\ expires[i] \in Nat /\ Grace \in Nat
  BY ClockNumbers, MembersOf DEF Control
<1>2. \A d \in {db, saved} :
         d.alarm[TicketOf(i)] # NoAlarm =>
            /\ Called(i)' /\ d.alarm[TicketOf(i)] = expires'[i] + Grace
            /\ Called(i) /\ expires'[i] = expires[i]
  BY <1>1 DEF TicketInv, AlarmInv, Moves
<1>3. TicketOf(i) \in sweep.due => Called(i)' /\ now >= expires'[i] + Grace
  BY <1>1 DEF TicketInv, DueInv, Moves
<1>4. ASSUME TicketOf(i) \in sweep'.due PROVE Called(i)' /\ now' >= expires'[i] + Grace
  <2>1. Called(i)' /\ now >= expires'[i] + Grace
    BY <1>1, <1>2, <1>3, <1>4
  <2> QED
    BY <2>1, <1>1
<1> QED
  BY <1>2, <1>4

\* A step that writes no ticket record.
LEMMA QuietTickets ==
    ASSUME Control, Control', TicketInv, now' >= now,
           \A r \in Requests : Moves(r),
           db'.ticket = db.ticket,
           \A i \in Issuers : \/ db'.alarm[TicketOf(i)] \in {db.alarm[TicketOf(i)], NoAlarm}
                              \/ Called(i)' /\ db'.alarm[TicketOf(i)] = expires'[i] + Grace,
           \/ saved' = saved /\ txn' \in {txn, None}
           \/ saved' = db /\ txn = None,
           \/ sweep'.due \subseteq sweep.due
           \/ \A i \in Issuers : TicketOf(i) \in sweep'.due =>
                 db.alarm[TicketOf(i)] # NoAlarm /\ db.alarm[TicketOf(i)] <= now
    PROVE  TicketInv'
<1>1. /\ now \in Nat /\ now' \in Nat /\ expires' \in [Requests -> Nat]
      /\ expires \in [Requests -> Nat] /\ Issuers \subseteq Requests /\ Redeemers \subseteq Requests
  <2>1. now \in Nat /\ now' \in Nat
    BY PairingAssumption DEF Control, TypeOK
  <2>2. expires \in [Requests -> Nat] /\ expires' \in [Requests -> Nat]
    BY DEF Control, TypeOK
  <2> QED
    BY <2>1, <2>2, MembersOf
<1>2. AlarmInv' /\ DueInv'
  BY <1>1, AlarmDue DEF AlarmInv, DueInv, TicketOf
<1>3. ASSUME NEW i \in Issuers
      PROVE  /\ db'.ticket[TicketOf(i)].status # "absent" =>
                   IsLast(i)' /\ pc'[i] \in {"commit", "returned", "done"}
             /\ txn' # None /\ saved'.ticket[TicketOf(i)].status # "absent" => Past(i)'
  <2>1. /\ db.ticket[TicketOf(i)].status # "absent" =>
              IsLast(i) /\ pc[i] \in {"commit", "returned", "done"}
        /\ txn # None /\ saved.ticket[TicketOf(i)].status # "absent" => Past(i)
    BY DEF TicketInv, IssuedInv
  <2>2. txn = None => pc[i] # "commit"
    BY <1>1, PairingAssumption DEF Control, TxnInv
  <2>3. IsLast(i) /\ pc[i] \in {"returned", "done"} => Past(i)
    BY DEF Past
  <2> QED
    BY <1>1, <2>1, <2>2, <2>3 DEF Moves
<1>4. ASSUME NEW i \in Issuers, Granted(i)', now' < expires'[i]
      PROVE  /\ db'.ticket[TicketOf(i)].status # "absent"
             /\ txn' \notin {None, i} => saved'.ticket[TicketOf(i)].status # "absent"
  <2>1. Granted(i) /\ Called(i) /\ expires'[i] = expires[i]
    BY <1>1, <1>4, GrantedCalled DEF Moves, Control
  <2>2. now < expires[i]
    BY <1>1, <1>4, <2>1
  <2>3. /\ db.ticket[TicketOf(i)].status # "absent"
        /\ txn \notin {None, i} => saved.ticket[TicketOf(i)].status # "absent"
    BY <2>1, <2>2 DEF TicketInv, HonouredInv
  <2> QED
    BY <2>3
<1>5. ASSUME NEW r \in Redeemers, Granted(r)'
      PROVE  /\ db'.ticket[TicketOf(r)].status # "issued"
             /\ txn' \notin {None, r} => saved'.ticket[TicketOf(r)].status # "issued"
             /\ \A i \in Issuers : TicketOf(i) = TicketOf(r) => Past(i)'
  <2>1. r \in Requests /\ Granted(r)
    BY <1>1, <1>5 DEF Moves
  <2>2. /\ db.ticket[TicketOf(r)].status # "issued"
        /\ txn \notin {None, r} => saved.ticket[TicketOf(r)].status # "issued"
        /\ \A i \in Issuers : TicketOf(i) = TicketOf(r) => Past(i)
    BY <2>1 DEF TicketInv, ConsumedInv
  <2> QED
    BY <1>1, <2>2 DEF Moves
<1>6. OnceInv'
  BY <1>1 DEF TicketInv, OnceInv, Moves, TicketOf
<1> QED
  BY <1>2, <1>3, <1>4, <1>5, <1>6 DEF TicketInv, IssuedInv, HonouredInv, ConsumedInv, TicketOf

\* A rollback: whoever had the transaction is not granted what it asked for.
LEMMA RollbackTickets ==
    ASSUME Control, Control', TicketInv, UNCHANGED <<now, saved>>,
           \A r \in Requests : Moves(r),
           txn # None, \A r \in Requests : r = txn => ~Granted(r)', db' = saved, txn' = None,
           sweep'.due \subseteq sweep.due
    PROVE  TicketInv'
<1>1. /\ \A r \in Requests : now \in Nat /\ expires[r] \in Nat /\ expires'[r] \in Nat
      /\ Issuers \subseteq Requests /\ Redeemers \subseteq Requests
  BY PairingAssumption, MembersOf DEF Control, TypeOK
<1>2. AlarmInv' /\ DueInv'
  <2>1. \A i \in Issuers :
           saved.alarm[TicketOf(i)] # NoAlarm =>
              Called(i)' /\ saved.alarm[TicketOf(i)] = expires'[i] + Grace
    BY <1>1 DEF TicketInv, AlarmInv, Moves
  <2>2. \A i \in Issuers : TicketOf(i) \in sweep'.due => Called(i)' /\ now' >= expires'[i] + Grace
    BY <1>1 DEF TicketInv, DueInv, Moves
  <2> QED
    BY <2>1, <2>2 DEF AlarmInv, DueInv, TicketOf
<1>3. \A i \in Issuers :
         db'.ticket[TicketOf(i)].status # "absent" =>
            IsLast(i)' /\ pc'[i] \in {"commit", "returned", "done"}
  BY <1>1 DEF TicketInv, IssuedInv, Moves, Past
<1>4. ASSUME NEW i \in Issuers, Granted(i)', now' < expires'[i]
      PROVE  db'.ticket[TicketOf(i)].status # "absent"
  <2>1. Granted(i) /\ Called(i) /\ expires'[i] = expires[i] /\ i # txn
    BY <1>1, <1>4, GrantedCalled DEF Moves, Control
  <2> QED
    BY <1>4, <2>1 DEF TicketInv, HonouredInv
<1>5. ASSUME NEW r \in Redeemers, Granted(r)'
      PROVE  /\ db'.ticket[TicketOf(r)].status # "issued"
             /\ \A i \in Issuers : TicketOf(i) = TicketOf(r) => Past(i)'
  <2>1. Granted(r) /\ r # txn
    BY <1>1, <1>5 DEF Moves
  <2>2. /\ saved.ticket[TicketOf(r)].status # "issued"
        /\ \A i \in Issuers : TicketOf(i) = TicketOf(r) => Past(i)
    BY <2>1 DEF TicketInv, ConsumedInv
  <2> QED
    BY <1>1, <2>2 DEF Moves
<1>6. OnceInv'
  BY <1>1 DEF TicketInv, OnceInv, Moves, TicketOf
<1> QED
  BY <1>2, <1>3, <1>4, <1>5, <1>6 DEF TicketInv, IssuedInv, HonouredInv, ConsumedInv, TicketOf

-----------------------------------------------------------------------------
(* The steps of a request.                                                 *)

\* Whoever the step is not about.
LEMMA StillMoves ==
    ASSUME NEW s \in Requests, pc'[s] = pc[s], stage'[s] = stage[s], expires'[s] = expires[s],
           allowed'[s] = allowed[s], answer'[s] = answer[s]
    PROVE  Moves(s) /\ (Granted(s)' <=> Granted(s))
BY DEF Moves, Called, Past, Granted, IsLast

\* Who is under way and is not allowed what it asked for.
LEMMA RefusedMoves ==
    ASSUME Control, NEW r \in Requests, pc[r] \in {"locked", "begin", "work", "commit"},
           pc'[r] \in {"commit", "returned", "done"}, pc[r] = "commit" => pc'[r] # "commit",
           stage'[r] = stage[r], expires'[r] = expires[r],
           pc'[r] # "done" => allowed'[r] = FALSE, answer'[r] # "ok"
    PROVE  Moves(r) /\ ~Granted(r)'
BY DEF Moves, Called, Past, Granted, IsLast

LEMMA ArriveTickets == ASSUME Control, Control', TicketInv, NEW r \in Requests, Arrive(r) PROVE TicketInv'
<1> USE DEF Arrive, Call, base
<1>1. \A s \in Requests : s # r => Moves(s)
  BY StillMoves DEF Control, TypeOK
<1>2. Moves(r)
  <2>1. answer[r] # "ok" /\ pc[r] = "idle" /\ pc'[r] = "locked"
    BY DEF Control, DoneInv, TypeOK, None
  <2> QED
    BY <2>1 DEF Moves, Called, Past, Granted
<1>3. now' >= now
  BY PairingAssumption DEF Control, TypeOK
<1> QED
  BY <1>1, <1>2, <1>3, QuietTickets

LEMMA AdvanceTickets == ASSUME Control, Control', TicketInv, NEW r \in Requests, Advance(r) PROVE TicketInv'
<1> USE DEF Advance, Call, Answer, base
<1>1. \A s \in Requests : s # r => Moves(s)
  BY StillMoves DEF Control, TypeOK
<1>2. /\ pc[r] = "returned" /\ answer[r] # "ok"
      /\ \/ pc'[r] = "done" /\ answer'[r] = "refused" /\ UNCHANGED <<stage, expires>>
         \/ pc'[r] = "done" /\ allowed[r] /\ IsLast(r) /\ UNCHANGED <<stage, expires>>
         \/ ~IsLast(r) /\ pc'[r] = "locked" /\ UNCHANGED answer
  BY DEF Control, DoneInv, TypeOK, None
<1>3. Moves(r)
  BY <1>2 DEF Moves, Called, Past, Granted, IsLast
<1>4. now' >= now
  BY PairingAssumption DEF Control, TypeOK
<1> QED
  BY <1>1, <1>3, <1>4, QuietTickets

LEMMA IssueAlarmTickets == ASSUME Control, Control', TicketInv, NEW r \in Requests, IssueAlarm(r) PROVE TicketInv'
<1> USE DEF IssueAlarm, Step
<1>1. \A s \in Requests : s # r => Moves(s)
  BY StillMoves DEF Control, TypeOK
<1>2. /\ r \in Issuers /\ IsLast(r) /\ Name(r) = TicketOf(r) /\ TicketOf(r) \in Tickets
      /\ pc[r] = "locked" /\ answer[r] # "ok"
  BY Calls DEF IsIssue, Control, TypeOK, DoneInv, None
<1>3. /\ Moves(r)
      /\ db'.alarm # db.alarm => Called(r)'
  <2>1. CASE Step(r, "returned") /\ allowed' = [allowed EXCEPT ![r] = FALSE] /\ UNCHANGED db
    <3>1. pc'[r] = "returned" /\ allowed'[r] = FALSE
      BY <2>1 DEF Control, TypeOK
    <3> QED
      BY <1>2, <2>1, <3>1 DEF Moves, Called, Past, Granted, IsLast
  <2>2. CASE Step(r, "begin")
    <3>1. pc'[r] = "begin"
      BY <2>2 DEF Control, TypeOK
    <3> QED
      BY <1>2, <3>1 DEF Moves, Called, Past, Granted, IsLast
  <2> QED
    BY <2>1, <2>2
<1>4. /\ db'.ticket = db.ticket
      /\ \A t \in Objects : t # TicketOf(r) => db'.alarm[t] = db.alarm[t]
      /\ \/ UNCHANGED db
         \/ Called(r)' /\ db'.alarm[TicketOf(r)] = expires[r] + Grace
  <2>1. CASE UNCHANGED db
    BY <2>1
  <2>2. CASE SetAlarm(Name(r), expires[r] + Grace) /\ Step(r, "begin")
    <3>1. Called(r)'
      BY <1>2, <2>2 DEF Called, IsLast, Control, TypeOK
    <3>2. db' = [db EXCEPT !.alarm[TicketOf(r)] = expires[r] + Grace] /\ TicketOf(r) \in Objects
      BY <1>2, <2>2 DEF SetAlarm, Objects
    <3> QED
      BY <3>1, <3>2 DEF Control, TypeOK, Database
  <2> QED
    BY <2>1, <2>2
<1>5. \A i \in Issuers : \/ db'.alarm[TicketOf(i)] \in {db.alarm[TicketOf(i)], NoAlarm}
                         \/ Called(i)' /\ db'.alarm[TicketOf(i)] = expires'[i] + Grace
  <2>1. \A i \in Issuers : TicketOf(i) \in Objects
    BY ClockNumbers, MembersOf DEF Control, Objects
  <2> QED
    BY <1>2, <1>4, <2>1, OneIssuer
<1>6. now' >= now
  BY PairingAssumption DEF Control, TypeOK
<1> QED
  BY <1>1, <1>3, <1>4, <1>5, <1>6, QuietTickets

LEMMA RateAlarmTickets == ASSUME Control, Control', TicketInv, NEW r \in Requests, RateAlarm(r) PROVE TicketInv'
<1> USE DEF RateAlarm, Step
<1>1. \A s \in Requests : s # r => Moves(s)
  BY StillMoves DEF Control, TypeOK
<1>2. ~IsLast(r) /\ Name(r) \in Gates /\ answer[r] # "ok"
  BY Calls DEF IsRate, Control, TypeOK, DoneInv, None
<1>3. Moves(r)
  BY <1>2 DEF Moves, Called, Past, Granted, IsLast
<1>4. db'.ticket = db.ticket /\ \A t \in Tickets : db'.alarm[t] = db.alarm[t]
  BY <1>2, PairingAssumption DEF SetAlarm, Objects, Control, TypeOK, Database
<1>5. \A i \in Issuers : TicketOf(i) \in Tickets
  BY ClockNumbers, MembersOf DEF Control
<1>6. now' >= now
  BY PairingAssumption DEF Control, TypeOK
<1> QED
  BY <1>1, <1>3, <1>4, <1>5, <1>6, QuietTickets

LEMMA BeginTickets == ASSUME Control, Control', TicketInv, NEW r \in Requests, Begin(r) PROVE TicketInv'
<1> USE DEF Begin, Step
<1>1. \A s \in Requests : s # r => Moves(s)
  BY StillMoves DEF Control, TypeOK
<1>2. pc[r] \in {"locked", "begin"} /\ pc'[r] = "work" /\ answer[r] # "ok"
  BY DEF Ready, Control, TypeOK, DoneInv, None
<1>3. Moves(r)
  BY <1>2 DEF Moves, Called, Past, Granted, IsLast
<1>4. now' >= now
  BY PairingAssumption DEF Control, TypeOK
<1> QED
  BY <1>1, <1>3, <1>4, QuietTickets

LEMMA BeginNestedTickets == ASSUME Control, Control', TicketInv, NEW r \in Requests, BeginNested(r) PROVE TicketInv'
<1> USE DEF BeginNested, Step, base
<1>1. \A s \in Requests : s # r => Moves(s)
  BY StillMoves DEF Control, TypeOK
<1>2. pc[r] \in {"locked", "begin"} /\ pc'[r] = "returned" /\ allowed'[r] = FALSE /\ answer'[r] # "ok"
  BY DEF Ready, Control, TypeOK, DoneInv, None
<1>3. Moves(r)
  BY <1>2, RefusedMoves
<1>4. now' >= now
  BY PairingAssumption DEF Control, TypeOK
<1> QED
  BY <1>1, <1>3, <1>4, QuietTickets

LEMMA CommitTickets == ASSUME Control, Control', TicketInv, NEW r \in Requests, Commit(r) PROVE TicketInv'
<1> USE DEF Commit, Step
<1>1. \A s \in Requests : s # r => Moves(s)
  BY StillMoves DEF Control, TypeOK
<1>2. pc[r] = "commit" /\ pc'[r] = "returned" /\ UNCHANGED <<stage, expires, allowed, answer>>
  BY DEF Control, TypeOK
<1>3. Moves(r)
  BY <1>2 DEF Moves, Called, Past, Granted, IsLast
<1>4. now' >= now
  BY PairingAssumption DEF Control, TypeOK
<1> QED
  BY <1>1, <1>3, <1>4, QuietTickets

LEMMA SqlErrorTickets == ASSUME Control, Control', TicketInv, NEW r \in Requests, SqlError(r) PROVE TicketInv'
<1> USE DEF SqlError, Step
<1>1. \A s \in Requests : s # r => Moves(s)
  BY StillMoves DEF Control, TypeOK
<1>2. /\ pc[r] \in {"locked", "begin", "work", "commit"}
      /\ pc'[r] = "returned" /\ allowed'[r] = FALSE /\ answer'[r] # "ok"
  BY DEF Control, TypeOK, DoneInv, None
<1>3. Moves(r) /\ ~Granted(r)'
  BY <1>2, RefusedMoves
<1>4. CASE UNCHANGED <<db, txn>>
  <2>1. now' >= now
    BY PairingAssumption DEF Control, TypeOK
  <2> QED
    BY <1>1, <1>3, <1>4, <2>1, QuietTickets
<1>5. CASE pc[r] \in {"work", "commit"} /\ db' = saved /\ txn' = None
  <2>1. txn = r /\ r # None
    BY <1>5, PairingAssumption DEF Control, TxnInv
  <2> QED
    BY <1>1, <1>3, <1>5, <2>1, RollbackTickets
<1> QED
  BY <1>4, <1>5

\* The callback that stores a ticket is its issuer's, and nobody has redeemed it.
LEMMA StoreTickets ==
    ASSUME Control, Control', TicketInv, NEW r \in Issuers, UNCHANGED <<now, saved, txn, sweep>>,
           pc[r] = "work", pc'[r] = "commit", IsLast(r), IsLast(r)', expires' = expires,
           \A s \in Requests : s # r => Moves(s) /\ (Granted(s)' <=> Granted(s)),
           db'.alarm = db.alarm, db.ticket[TicketOf(r)].status = "absent",
           db'.ticket = [db.ticket EXCEPT ![TicketOf(r)] =
                            [status |-> "issued", expires |-> expires[r]]]
    PROVE  TicketInv'
<1>1. /\ Issuers \subseteq Requests /\ Redeemers \subseteq Requests
      /\ \A s \in Redeemers : s # r
      /\ \A s \in Requests : TicketOf(s) \in Tickets
      /\ db.ticket \in [Tickets -> TicketRecord]
  <2>1. \A s \in Redeemers : s # r
    BY PairingAssumption
  <2>2. \A s \in Requests : TicketOf(s) \in Tickets
    BY ClockNumbers DEF Control
  <2>3. db.ticket \in [Tickets -> TicketRecord]
    BY DEF Control, TypeOK, Database
  <2> QED
    BY <2>1, <2>2, <2>3, MembersOf
<1>2. /\ Called(r) /\ Called(r)' /\ ~Past(r) /\ txn = r
      /\ \A i \in Issuers : Called(i) => Called(i)'
  BY <1>1 DEF Called, Past, Control, TxnInv, Moves
<1>3. /\ db'.ticket[TicketOf(r)].status = "issued"
      /\ \A i \in Issuers : i # r => db'.ticket[TicketOf(i)] = db.ticket[TicketOf(i)]
  BY <1>1, OneIssuer
<1>4. AlarmInv' /\ DueInv'
  BY <1>2 DEF TicketInv, AlarmInv, DueInv, TicketOf
<1>5. ASSUME NEW i \in Issuers
      PROVE  /\ db'.ticket[TicketOf(i)].status # "absent" =>
                   IsLast(i)' /\ pc'[i] \in {"commit", "returned", "done"}
             /\ saved.ticket[TicketOf(i)].status # "absent" => Past(i)'
  <2>1. /\ db.ticket[TicketOf(i)].status # "absent" =>
              IsLast(i) /\ pc[i] \in {"commit", "returned", "done"}
        /\ saved.ticket[TicketOf(i)].status # "absent" => Past(i)
    BY <1>1, <1>2, PairingAssumption DEF TicketInv, IssuedInv
  <2> QED
    BY <1>1, <1>2, <1>3, <2>1 DEF Moves
<1>6. HonouredInv'
  <2> SUFFICES ASSUME NEW i \in Issuers, Granted(i)', now < expires[i]
               PROVE  /\ db'.ticket[TicketOf(i)].status # "absent"
                      /\ txn \notin {None, i} => saved.ticket[TicketOf(i)].status # "absent"
    BY DEF HonouredInv, TicketOf
  <2>1. CASE i = r
    BY <1>2, <1>3, <2>1
  <2>2. CASE i # r
    BY <1>1, <1>3, <2>2 DEF TicketInv, HonouredInv
  <2> QED
    BY <2>1, <2>2
<1>7. ASSUME NEW s \in Redeemers, Granted(s)'
      PROVE  /\ db'.ticket[TicketOf(s)].status # "issued"
             /\ txn \notin {None, s} => saved.ticket[TicketOf(s)].status # "issued"
             /\ \A i \in Issuers : TicketOf(i) = TicketOf(s) => Past(i)'
  <2>1. /\ db.ticket[TicketOf(s)].status # "issued"
        /\ txn \notin {None, s} => saved.ticket[TicketOf(s)].status # "issued"
        /\ \A i \in Issuers : TicketOf(i) = TicketOf(s) => Past(i)
    BY <1>1, <1>7 DEF TicketInv, ConsumedInv
  <2>2. TicketOf(s) # TicketOf(r)
    BY <1>2, <2>1
  <2> QED
    BY <1>1, <1>2, <2>1, <2>2 DEF Moves
<1>8. OnceInv'
  BY <1>1 DEF TicketInv, OnceInv, TicketOf
<1> QED
  BY <1>4, <1>5, <1>6, <1>7, <1>8 DEF TicketInv, IssuedInv, ConsumedInv, TicketOf

\* The callback that consumes a ticket is the first to do so, after its issuer's.
LEMMA ConsumeTickets ==
    ASSUME Control, Control', TicketInv, NEW r \in Redeemers, UNCHANGED <<now, saved, txn, sweep>>,
           pc[r] = "work", expires' = expires,
           \A s \in Requests : s # r => Moves(s) /\ (Granted(s)' <=> Granted(s)),
           db'.alarm = db.alarm, db.ticket[TicketOf(r)].status = "issued",
           db'.ticket = [db.ticket EXCEPT ![TicketOf(r)] =
                            [status |-> "consumed", expires |-> db.ticket[TicketOf(r)].expires]]
    PROVE  TicketInv'
<1>1. /\ Issuers \subseteq Requests /\ Redeemers \subseteq Requests
      /\ \A s \in Issuers : s # r
      /\ \A s \in Requests : TicketOf(s) \in Tickets
      /\ db.ticket \in [Tickets -> TicketRecord]
  <2>1. \A s \in Issuers : s # r
    BY PairingAssumption
  <2>2. \A s \in Requests : TicketOf(s) \in Tickets
    BY ClockNumbers DEF Control
  <2>3. db.ticket \in [Tickets -> TicketRecord]
    BY DEF Control, TypeOK, Database
  <2> QED
    BY <2>1, <2>2, <2>3, MembersOf
<1>2. txn = r /\ \A i \in Issuers : pc[i] # "commit" /\ (Called(i) => Called(i)')
  BY <1>1 DEF Control, TxnInv, Moves
<1>3. /\ db'.ticket[TicketOf(r)].status = "consumed"
      /\ \A s \in Requests : TicketOf(s) # TicketOf(r) => db'.ticket[TicketOf(s)] = db.ticket[TicketOf(s)]
  BY <1>1
<1>4. AlarmInv' /\ DueInv'
  BY <1>2 DEF TicketInv, AlarmInv, DueInv, TicketOf
<1>5. ASSUME NEW i \in Issuers
      PROVE  /\ db'.ticket[TicketOf(i)].status # "absent" =>
                   IsLast(i)' /\ pc'[i] \in {"commit", "returned", "done"}
             /\ saved.ticket[TicketOf(i)].status # "absent" => Past(i)'
  <2>1. /\ db.ticket[TicketOf(i)].status # "absent" =>
              IsLast(i) /\ pc[i] \in {"commit", "returned", "done"}
        /\ saved.ticket[TicketOf(i)].status # "absent" => Past(i)
    BY <1>1, <1>2, PairingAssumption DEF TicketInv, IssuedInv
  <2>2. db'.ticket[TicketOf(i)].status # "absent" => db.ticket[TicketOf(i)].status # "absent"
    BY <1>1, <1>3
  <2> QED
    BY <1>1, <2>1, <2>2 DEF Moves
<1>6. HonouredInv'
  <2> SUFFICES ASSUME NEW i \in Issuers, Granted(i)', now < expires[i]
               PROVE  /\ db'.ticket[TicketOf(i)].status # "absent"
                      /\ txn \notin {None, i} => saved.ticket[TicketOf(i)].status # "absent"
    BY DEF HonouredInv, TicketOf
  <2>1. /\ db.ticket[TicketOf(i)].status # "absent"
        /\ txn \notin {None, i} => saved.ticket[TicketOf(i)].status # "absent"
    BY <1>1 DEF TicketInv, HonouredInv
  <2> QED
    BY <1>1, <1>3, <2>1
<1>7. ASSUME NEW s \in Redeemers, s # r, Granted(s)
      PROVE  /\ db.ticket[TicketOf(s)].status # "issued" /\ TicketOf(s) # TicketOf(r)
             /\ txn \notin {None, s} => saved.ticket[TicketOf(s)].status # "issued"
             /\ \A i \in Issuers : TicketOf(i) = TicketOf(s) => Past(i)
  BY <1>7 DEF TicketInv, ConsumedInv
<1>8. ASSUME NEW s \in Redeemers, Granted(s)'
      PROVE  /\ db'.ticket[TicketOf(s)].status # "issued"
             /\ txn \notin {None, s} => saved.ticket[TicketOf(s)].status # "issued"
             /\ \A i \in Issuers : TicketOf(i) = TicketOf(s) => Past(i)'
  <2>1. CASE s = r
    <3>1. \A i \in Issuers : TicketOf(i) = TicketOf(r) => IsLast(i) /\ pc[i] \in {"returned", "done"}
      BY <1>2 DEF TicketInv, IssuedInv
    <3>2. \A i \in Issuers : TicketOf(i) = TicketOf(r) => Past(i)'
      BY <1>1, <3>1 DEF Past, Moves
    <3> QED
      BY <1>2, <1>3, <2>1, <3>2
  <2>2. CASE s # r
    <3>1. Granted(s)
      BY <1>1, <1>8, <2>2
    <3> QED
      BY <1>1, <1>3, <1>7, <2>2, <3>1 DEF Moves
  <2> QED
    BY <2>1, <2>2
<1>9. OnceInv'
  <2> SUFFICES ASSUME NEW s \in Redeemers, NEW u \in Redeemers,
                      Granted(s)', Granted(u)', TicketOf(s) = TicketOf(u)
               PROVE  s = u
    BY DEF OnceInv, TicketOf
  <2>1. s # r /\ u # r => s = u
    BY <1>1 DEF TicketInv, OnceInv
  <2>2. (s = r) <=> (u = r)
    BY <1>1, <1>7
  <2> QED
    BY <2>1, <2>2
<1> QED
  BY <1>4, <1>5, <1>6, <1>8, <1>9 DEF TicketInv, IssuedInv, ConsumedInv, TicketOf

LEMMA WorkTickets == ASSUME Control, Control', TicketInv, NEW r \in Requests, Work(r) PROVE TicketInv'
<1>1. /\ pc[r] = "work" /\ pc'[r] = "commit" /\ answer'[r] # "ok"
      /\ UNCHANGED <<now, saved, txn, stage, expires, answer, sweep>>
      /\ \A s \in Requests : s # r => pc'[s] = pc[s]
  BY DEF Work, Step, Control, TypeOK, DoneInv, None
<1>2. \A s \in Requests : s # r => allowed'[s] = allowed[s]
  BY WorkWrites
<1>3. \A s \in Requests : s # r => Moves(s) /\ (Granted(s)' <=> Granted(s))
  BY <1>1, <1>2, StillMoves
<1>4. /\ IsLast(r)' <=> IsLast(r)
      /\ IsLast(r) <=> Name(r) \in Tickets
      /\ Name(r) \in Gates => ~IsLast(r)
  BY <1>1, Calls DEF IsLast, Control, TypeOK
<1>5. now' >= now
  BY <1>1, PairingAssumption DEF Control, TypeOK
<1>6. CASE IsIssue(r) /\ db.ticket[TicketOf(r)].status = "absent"
           /\ db'.ticket = [db.ticket EXCEPT ![TicketOf(r)] =
                               [status |-> "issued", expires |-> expires[r]]]
  <2>1. r \in Issuers /\ IsLast(r) /\ IsLast(r)'
    BY <1>4, <1>6 DEF IsIssue
  <2>2. db'.alarm = db.alarm
    BY WorkWrites
  <2> QED
    BY <1>1, <1>3, <1>6, <2>1, <2>2, StoreTickets
<1>7. CASE IsRedeem(r) /\ db.ticket[TicketOf(r)].status = "issued"
           /\ db'.ticket = [db.ticket EXCEPT ![TicketOf(r)] =
                               [status |-> "consumed", expires |-> db.ticket[TicketOf(r)].expires]]
  <2>1. db'.alarm = db.alarm
    BY WorkWrites
  <2> QED
    BY <1>1, <1>3, <1>7, <2>1, ConsumeTickets DEF IsRedeem
<1>8. CASE IsRate(r) /\ db'.ticket = db.ticket
  <2>1. Moves(r)
    BY <1>1, <1>4, <1>8 DEF IsRate, Moves, Called, Past, Granted
  <2>2. db'.alarm = db.alarm
    BY WorkWrites
  <2> QED
    BY <1>1, <1>3, <1>5, <1>8, <2>1, <2>2, QuietTickets
<1>9. CASE ~allowed'[r] /\ db' = db
  <2>1. allowed'[r] = FALSE
    BY <1>9, WorkWrites
  <2>2. Moves(r)
    BY <1>1, <2>1, RefusedMoves
  <2> QED
    BY <1>1, <1>3, <1>5, <1>9, <2>2, QuietTickets
<1> QED
  BY <1>6, <1>7, <1>8, <1>9, WorkWrites

-----------------------------------------------------------------------------
(* The steps of the sweep, of time and of restarts.                        *)

\* No request moves.
LEMMA NobodyMoves ==
    ASSUME UNCHANGED <<calls, answer>> PROVE \A s \in Requests : Moves(s)
BY StillMoves DEF calls

LEMMA SweepListTickets == ASSUME Control, Control', TicketInv, SweepList PROVE TicketInv'
<1>1. now' >= now
  BY PairingAssumption DEF Control, TypeOK, SweepList
<1>2. \A i \in Issuers : TicketOf(i) \in sweep'.due =>
         db.alarm[TicketOf(i)] # NoAlarm /\ db.alarm[TicketOf(i)] <= now
  BY DEF SweepList, Due
<1> QED
  BY <1>1, <1>2, NobodyMoves, QuietTickets DEF SweepList, base

LEMMA SweepJoinTickets == ASSUME Control, Control', TicketInv, SweepJoin PROVE TicketInv'
<1>1. now' >= now
  BY PairingAssumption DEF Control, TypeOK, SweepJoin
<1>2. sweep'.due = sweep.due
  BY DEF SweepJoin, Control, TypeOK
<1> QED
  BY <1>1, <1>2, NobodyMoves, QuietTickets DEF SweepJoin, base

\* What is wiped has outlived its time.
LEMMA SweepWipeTickets == ASSUME Control, Control', TicketInv, SweepWipe PROVE TicketInv'
<1> DEFINE n == sweep.at
<1>1. n \in Objects /\ n \in sweep.due /\ db \in Database
  BY SweepApart DEF SweepWipe, Control, TypeOK
<1>2. /\ db'.alarm = [db.alarm EXCEPT ![n] = NoAlarm]
      /\ \A t \in Tickets : db'.ticket[t] = IF t = n THEN NoTicket ELSE db.ticket[t]
  BY <1>1, WipeWritten DEF SweepWipe
<1>3. /\ UNCHANGED <<now, saved, txn, pc, stage, expires, allowed, answer>>
      /\ sweep'.due = sweep.due \ {n}
  BY DEF SweepWipe, calls
<1>4. \A r \in Requests : /\ Granted(r)' <=> Granted(r)
                          /\ Called(r)' <=> Called(r)
                          /\ Past(r)' <=> Past(r)
                          /\ IsLast(r)' <=> IsLast(r)
                          /\ TicketOf(r) \in Tickets
  BY <1>3, ClockNumbers DEF Granted, Called, Past, IsLast, Control
<1>5. Issuers \subseteq Requests /\ Redeemers \subseteq Requests
  BY MembersOf
<1>6. NoTicket.status = "absent"
  BY DEF NoTicket
<1>7. AlarmInv'
  <2> SUFFICES ASSUME NEW i \in Issuers, NEW d \in {db', saved}, d.alarm[TicketOf(i)] # NoAlarm
               PROVE  Called(i)' /\ d.alarm[TicketOf(i)] = expires[i] + Grace
    BY <1>3 DEF AlarmInv, TicketOf
  <2>1. TicketOf(i) \in Objects /\ db.alarm \in [Objects -> Nat \cup {NoAlarm}]
    BY <1>1, <1>4, <1>5 DEF Objects, Database
  <2>2. \/ d = saved
        \/ d.alarm[TicketOf(i)] = db.alarm[TicketOf(i)]
    BY <1>2, <2>1
  <2> QED
    BY <1>4, <1>5, <2>2 DEF TicketInv, AlarmInv
<1>8. DueInv'
  BY <1>3, <1>4, <1>5 DEF TicketInv, DueInv, TicketOf
<1>9. IssuedInv'
  BY <1>2, <1>3, <1>4, <1>5, <1>6 DEF TicketInv, IssuedInv, TicketOf
<1>10. HonouredInv'
  <2> SUFFICES ASSUME NEW i \in Issuers, Granted(i), now < expires[i]
               PROVE  /\ db'.ticket[TicketOf(i)].status # "absent"
                      /\ txn \notin {None, i} => saved.ticket[TicketOf(i)].status # "absent"
    BY <1>3, <1>4, <1>5 DEF HonouredInv, TicketOf
  <2>1. TicketOf(i) # n
    BY <1>1, <1>5, ClockNumbers DEF TicketInv, DueInv, Control
  <2> QED
    BY <1>2, <1>4, <1>5, <2>1 DEF TicketInv, HonouredInv
<1>11. ConsumedInv'
  BY <1>2, <1>3, <1>4, <1>5, <1>6 DEF TicketInv, ConsumedInv, TicketOf
<1>12. OnceInv'
  BY <1>4, <1>5 DEF TicketInv, OnceInv, TicketOf
<1> QED
  BY <1>7, <1>8, <1>9, <1>10, <1>11, <1>12 DEF TicketInv

LEMMA SweepErrorTickets == ASSUME Control, Control', TicketInv, SweepError PROVE TicketInv'
<1>1. now' >= now
  BY PairingAssumption DEF Control, TypeOK, SweepError
<1>2. sweep'.due \subseteq sweep.due
  BY DEF SweepError
<1>3. sweep.at \in Objects /\ db.alarm \in [Objects -> Nat \cup {NoAlarm}]
  BY SweepApart DEF SweepError, Control, TypeOK, Database
<1>4. db'.ticket = db.ticket /\ \A n \in Objects : db'.alarm[n] \in {db.alarm[n], NoAlarm}
  <2>1. CASE db' = db
    BY <2>1
  <2>2. CASE db' = NoAlarmAt(sweep.at)
    BY <1>3, <2>2, AlarmGone DEF Control
  <2> QED
    BY <2>1, <2>2 DEF SweepError
<1>5. \A i \in Issuers : TicketOf(i) \in Objects
  BY ClockNumbers, MembersOf DEF Control, Objects
<1> QED
  BY <1>1, <1>2, <1>4, <1>5, NobodyMoves, QuietTickets DEF SweepError

LEMMA TickTickets == ASSUME Control, Control', TicketInv, Tick PROVE TicketInv'
<1>1. now' >= now
  BY PairingAssumption DEF Control, TypeOK, Tick
<1> QED
  BY <1>1, NobodyMoves, QuietTickets DEF Tick, base

\* Whoever was under way is granted nothing.
LEMMA RestartMoves ==
    ASSUME Control, Restarted, NEW r \in Requests
    PROVE  Moves(r) /\ (pc[r] \in Running => ~Granted(r)')
<1>1. CASE InFlight(r)
  <2>1. pc'[r] = "done" /\ answer'[r] = "lost" /\ UNCHANGED <<stage, expires>>
    BY <1>1 DEF Restarted
  <2> QED
    BY <2>1 DEF Moves, Called, Past, Granted, IsLast
<1>2. CASE ~InFlight(r)
  <2>1. pc'[r] = pc[r] /\ answer'[r] = answer[r] /\ UNCHANGED <<stage, expires, allowed>>
    BY <1>2 DEF Restarted
  <2>2. pc[r] \notin Running
    BY <1>2 DEF InFlight, Running
  <2> QED
    BY <2>1, <2>2, StillMoves
<1> QED
  BY <1>1, <1>2

LEMMA KillTickets == ASSUME Control, Control', TicketInv, Kill \/ KillInSweep PROVE TicketInv'
<1>1. Restarted
  BY DEF Kill, KillInSweep
<1>2. /\ \A r \in Requests : Moves(r) /\ (pc[r] \in Running => ~Granted(r)')
      /\ UNCHANGED <<now, saved>> /\ txn' = None /\ sweep'.due = {}
  BY <1>1, RestartMoves DEF Restarted
<1>3. now' >= now
  BY <1>2, PairingAssumption DEF Control, TypeOK
<1>4. CASE txn # None /\ db' = saved
  <2>1. \A r \in Requests : r = txn => ~Granted(r)'
    BY <1>2 DEF Control, TxnInv, Running
  <2> QED
    BY <1>2, <1>4, <2>1, RollbackTickets
<1>5. CASE txn = None /\ db' = db
  BY <1>2, <1>3, <1>5, QuietTickets
<1>6. CASE KillInSweep
  <2>1. sweep.at \in Objects /\ db.alarm \in [Objects -> Nat \cup {NoAlarm}]
    BY <1>6, SweepApart DEF KillInSweep, Control, TypeOK, Database
  <2>2. db'.ticket = db.ticket /\ \A n \in Objects : db'.alarm[n] \in {db.alarm[n], NoAlarm}
    BY <1>6, <2>1, AlarmGone DEF KillInSweep, Control
  <2>3. \A i \in Issuers : TicketOf(i) \in Objects
    BY ClockNumbers, MembersOf DEF Control, Objects
  <2> QED
    BY <1>2, <1>3, <2>2, <2>3, QuietTickets
<1> QED
  BY <1>4, <1>5, <1>6 DEF Kill

-----------------------------------------------------------------------------
(* The invariant and what it gives.                                        *)

LEMMA InitTickets == Init => TicketInv
<1> SUFFICES ASSUME Init PROVE TicketInv
  OBVIOUS
<1>1. /\ \A t \in Tickets, d \in {db, saved} : d.ticket[t].status = "absent" /\ d.alarm[t] = NoAlarm
      /\ sweep.due = {}
      /\ \A r \in Requests : ~Granted(r)
  BY DEF Init, NoTicket, Granted, None, Objects
<1>2. \A r \in Requests : TicketOf(r) \in Tickets
  BY PairingAssumption DEF TicketOf
<1> QED
  BY <1>1, <1>2, MembersOf
     DEF TicketInv, AlarmInv, DueInv, IssuedInv, HonouredInv, ConsumedInv, OnceInv

LEMMA TicketsInductive == Control /\ Control' /\ TicketInv /\ [Next]_vars => TicketInv'
<1> SUFFICES ASSUME Control, Control', TicketInv, [Next]_vars PROVE TicketInv'
  OBVIOUS
<1>1. ASSUME NEW r \in Requests, Arrive(r) \/ Progress(r) \/ SqlError(r) PROVE TicketInv'
  BY <1>1, ArriveTickets, AdvanceTickets, IssueAlarmTickets, RateAlarmTickets, BeginTickets,
     BeginNestedTickets, WorkTickets, CommitTickets, SqlErrorTickets DEF Progress
<1>2. CASE Sweep \/ SweepError
  BY <1>2, SweepListTickets, SweepJoinTickets, SweepWipeTickets, SweepErrorTickets DEF Sweep
<1>3. CASE Tick \/ Kill \/ KillInSweep
  BY <1>3, TickTickets, KillTickets
<1>4. CASE UNCHANGED vars
  <2>1. now' >= now
    BY <1>4, PairingAssumption DEF Control, TypeOK, vars
  <2> QED
    BY <1>4, <2>1, NobodyMoves, QuietTickets DEF vars, base
<1> QED
  BY <1>1, <1>2, <1>3, <1>4 DEF Next

LEMMA TicketInvariant == SafeSpec => [](Control /\ TicketInv)
<1>1. Init => TicketInv
  BY InitTickets
<1>2. Control /\ Control' /\ TicketInv /\ [Next]_vars => TicketInv'
  BY TicketsInductive
<1> QED
  BY <1>1, <1>2, ControlInvariant, PTL DEF SafeSpec

\* Of all who redeem a ticket, before or after errors, rollbacks of other objects'
\* transactions and restarts, one at most is told ok (redeem in
\* app-pairing-store.js, transaction in pairing-store.mjs).
THEOREM TicketsRedeemedOnce == SafeSpec => []RedeemedOnce
<1>1. TicketInv => RedeemedOnce
  BY DEF TicketInv, OnceInv, RedeemedOnce, Granted
<1> QED
  BY <1>1, TicketInvariant, PTL

\* When a redeemer is told ok the consumption is in the file, and no rollback,
\* restart or later call makes the ticket good again.
THEOREM ConsumptionsKept == SafeSpec => []ConsumptionDurable
<1>1. ASSUME Control, TicketInv PROVE ConsumptionDurable
  <2> SUFFICES ASSUME NEW r \in Redeemers, answer[r] = "ok"
               PROVE  Durable.ticket[TicketOf(r)].status # "issued"
    BY DEF ConsumptionDurable
  <2>1. txn # r
    BY <1>1, MembersOf DEF Control, TxnInv, DoneInv, None
  <2> QED
    BY <1>1, <2>1 DEF TicketInv, ConsumedInv, Granted, Durable
<1> QED
  BY <1>1, TicketInvariant, PTL

\* Until it expires, a ticket whose issuer was told ok is in the file, issued or
\* consumed: no other object's rollback, no restart and no sweep takes it away.
THEOREM TicketsHonoured == SafeSpec => []IssuedTicketHonoured
<1>1. ASSUME Control, TicketInv PROVE IssuedTicketHonoured
  <2> SUFFICES ASSUME NEW i \in Issuers, answer[i] = "ok", now < expires[i]
               PROVE  Durable.ticket[TicketOf(i)].status # "absent"
    BY DEF IssuedTicketHonoured
  <2>1. txn # i
    BY <1>1, MembersOf DEF Control, TxnInv, DoneInv, None
  <2> QED
    BY <1>1, <2>1 DEF TicketInv, HonouredInv, Granted, Durable
<1> QED
  BY <1>1, TicketInvariant, PTL

-----------------------------------------------------------------------------
(* The register of tickets.                                                *)

\* A record is its issuer's, with the life the issuer gave it,
StoredInv ==
    \A t \in Tickets, d \in {db, saved} :
        \/ d.ticket[t] = NoTicket
        \/ \E i \in Issuers : /\ TicketOf(i) = t /\ Called(i)
                              /\ d.ticket[t].expires = expires[i]

\* which starts with the call.
LifeInv ==
    \A i \in Issuers : /\ expires[i] <= now + TTL
                       /\ Called(i) => expires[i] > 0

\* What the callback has written and COMMIT will make last,
Pending(r) == pc[r] = "commit" /\ allowed[r] /\ IsLast(r)

Effect(r, old, new) ==
    \/ r \in Issuers /\ old.status = "absent" /\ new = [status |-> "issued", expires |-> expires[r]]
    \/ /\ r \in Redeemers \ Mismatched /\ old.status = "issued"
       /\ new = [old EXCEPT !.status = "consumed"]

Over(old, new) == new = NoTicket /\ now >= old.expires + Grace

\* and what else the connection has written since BEGIN: the sweep forgot tickets
\* that are over, but never the one the transaction is about.
ApartInv ==
    \A r \in Requests, t \in Tickets : txn = r =>
        \/ IsLast(r) /\ t = TicketOf(r) /\ Pending(r) /\ Effect(r, saved.ticket[t], db.ticket[t])
        \/ ~(IsLast(r) /\ t = TicketOf(r) /\ Pending(r)) /\ db.ticket[t] = saved.ticket[t]
        \/ ~(IsLast(r) /\ t = TicketOf(r)) /\ Over(saved.ticket[t], db.ticket[t])

RegisterInv == StoredInv /\ LifeInv /\ ApartInv

-----------------------------------------------------------------------------
(* What a step does to the calls of the issuers, and to the records.       *)

Steady(r) == /\ pc'[r] = pc[r] /\ stage'[r] = stage[r]
             /\ allowed'[r] = allowed[r] /\ expires'[r] = expires[r] /\ answer'[r] = answer[r]

LEMMA ClockSteps ==
    ASSUME Control, [Next]_vars PROVE now' \in {now, now + 1} /\ (now' # now => Tick)
BY DEF Next, Progress, Sweep, Arrive, Advance, IssueAlarm, RateAlarm, Begin, BeginNested,
       Work, Commit, SqlError, SweepList, SweepJoin, SweepWipe, SweepError, Tick, Kill,
       KillInSweep, Restarted, vars

\* A request is alone in its steps.
LEMMA OneMoves ==
    ASSUME Control, NEW r \in Requests, NEW s \in Requests, s # r,
           Arrive(r) \/ Progress(r) \/ SqlError(r)
    PROVE  Steady(s)
<1>1. CASE Arrive(r) \/ Advance(r)
  BY <1>1 DEF Steady, Arrive, Advance, Call, Answer, Control, TypeOK
<1>2. CASE IssueAlarm(r) \/ RateAlarm(r) \/ Begin(r) \/ BeginNested(r) \/ Commit(r) \/ SqlError(r)
  BY <1>2 DEF Steady, IssueAlarm, RateAlarm, Begin, BeginNested, Commit, SqlError, Step,
              Control, TypeOK
<1>3. CASE Work(r)
  <2>1. allowed'[s] = allowed[s]
    BY <1>3, WorkWrites
  <2> QED
    BY <1>3, <2>1 DEF Steady, Work, Step, Control, TypeOK
<1> QED
  BY <1>1, <1>2, <1>3 DEF Progress

\* An issuer's call to its ticket fixes the expiry once; no later step undoes it.
LEMMA IssuerSteps ==
    ASSUME Control, [Next]_vars, NEW i \in Issuers
    PROVE  \/ (Called(i)' <=> Called(i)) /\ expires'[i] = expires[i]
           \/ ~Called(i) /\ expires'[i] = now + TTL
<1>0. i \in Requests
  BY MembersOf
<1>1. ASSUME Steady(i) PROVE (Called(i)' <=> Called(i)) /\ expires'[i] = expires[i]
  BY <1>1 DEF Steady, Called, IsLast
<1>2. ASSUME NEW k \in 1..Len(Script[i]), Call(i, k), pc[i] = "idle" \/ ~IsLast(i)
      PROVE  \/ (Called(i)' <=> Called(i)) /\ expires'[i] = expires[i]
             \/ ~Called(i) /\ expires'[i] = now + TTL
  <2>1. ~Called(i) /\ stage'[i] = k
    BY <1>0, <1>2 DEF Called, Call, Control, TypeOK
  <2>2. CASE Script[i][k] \in Tickets
    BY <1>0, <1>2, <2>1, <2>2 DEF Call, Control, TypeOK
  <2>3. CASE Script[i][k] \notin Tickets
    <3>1. k # Len(Script[i]) /\ expires'[i] = expires[i]
      BY <1>0, <1>2, <2>3, PairingAssumption DEF Call
    <3> QED
      BY <2>1, <3>1 DEF Called, IsLast
  <2> QED
    BY <2>2, <2>3
<1>3. CASE Arrive(i)
  <2>1. 1 \in 1..Len(Script[i])
    BY <1>0, PairingAssumption, LenProperties
  <2> QED
    BY <1>2, <1>3, <2>1 DEF Arrive
<1>4. CASE Advance(i)
  <2>1. CASE ~IsLast(i) /\ Call(i, stage[i] + 1)
    <3>1. stage[i] + 1 \in 1..Len(Script[i])
      BY <1>0, <2>1, PairingAssumption, LenProperties DEF IsLast, Control, TypeOK
    <3> QED
      BY <1>2, <2>1, <3>1
  <2>2. CASE UNCHANGED <<stage, expires>> /\ pc'[i] = "done"
    BY <1>4, <2>2 DEF Advance, Called, IsLast
  <2> QED
    BY <1>0, <1>4, <2>1, <2>2 DEF Advance, Answer, Control, TypeOK
<1>5. CASE IssueAlarm(i) \/ RateAlarm(i) \/ Begin(i) \/ BeginNested(i) \/ Work(i) \/ Commit(i)
           \/ SqlError(i)
  <2>1. pc[i] # "idle" /\ pc'[i] # "idle" /\ UNCHANGED <<stage, expires>>
    BY <1>0, <1>5 DEF IssueAlarm, RateAlarm, Begin, BeginNested, Work, Commit, SqlError, Step, Ready,
                      Control, TypeOK
  <2> QED
    BY <2>1 DEF Called, IsLast
<1>6. CASE Sweep \/ SweepError \/ Tick \/ UNCHANGED vars
  BY <1>1, <1>6 DEF Steady, Sweep, SweepList, SweepJoin, SweepWipe, SweepError, Tick, vars, calls
<1>7. CASE Restarted
  BY <1>0, <1>7 DEF Restarted, InFlight, Called, IsLast
<1>8. ASSUME NEW r \in Requests, r # i, Arrive(r) \/ Progress(r) \/ SqlError(r)
      PROVE  Steady(i)
  BY <1>0, <1>8, OneMoves
<1> QED
  BY <1>1, <1>3, <1>4, <1>5, <1>6, <1>7, <1>8 DEF Next, Progress, Kill, KillInSweep

\* Nothing happens to the records, nor to whoever has the transaction.
Quiet ==
    /\ db'.ticket = db.ticket /\ saved' = saved /\ txn' = txn
    /\ \A r \in Requests : txn = r => Steady(r)

Rollback == txn # None /\ db' = saved /\ saved' = saved /\ txn' = None

LEMMA StoreSteps ==
    ASSUME Control, [Next]_vars
    PROVE  \/ Quiet \/ Rollback \/ SweepWipe
           \/ \E r \in Requests : Begin(r) \/ Work(r) \/ Commit(r)
<1>1. ASSUME NEW r \in Requests,
             Arrive(r) \/ Advance(r) \/ IssueAlarm(r) \/ RateAlarm(r) \/ BeginNested(r)
      PROVE  Quiet
  <2>1. txn # r
    BY <1>1 DEF Arrive, Advance, IssueAlarm, RateAlarm, BeginNested, Ready, Control, TxnInv
  <2>2. \A s \in Requests : s # r => Steady(s)
    BY <1>1, OneMoves DEF Progress
  <2>3. UNCHANGED <<saved, txn>>
    BY <1>1 DEF Arrive, Advance, IssueAlarm, RateAlarm, BeginNested, base
  <2>4. db'.ticket = db.ticket
    <3>1. CASE UNCHANGED db
      BY <3>1
    <3>2. ASSUME NEW n, NEW at, SetAlarm(n, at) PROVE db'.ticket = db.ticket
      BY <3>2 DEF SetAlarm, Control, TypeOK, Database
    <3> QED
      BY <1>1, <3>1, <3>2 DEF Arrive, Advance, IssueAlarm, RateAlarm, BeginNested, base
  <2> QED
    BY <2>1, <2>2, <2>3, <2>4 DEF Quiet
<1>2. ASSUME NEW r \in Requests, SqlError(r) PROVE Quiet \/ Rollback
  <2>1. CASE pc[r] \in {"work", "commit"}
    <3>1. txn = r /\ r # None
      BY <2>1, PairingAssumption DEF Control, TxnInv
    <3> QED
      BY <1>2, <2>1, <3>1 DEF SqlError, Rollback
  <2>2. CASE pc[r] \in {"locked", "begin"}
    <3>1. txn # r
      BY <2>2 DEF Control, TxnInv
    <3>2. \A s \in Requests : s # r => Steady(s)
      BY <1>2, OneMoves
    <3> QED
      BY <1>2, <2>2, <3>1, <3>2 DEF SqlError, Quiet
  <2> QED
    BY <1>2, <2>1, <2>2 DEF SqlError
<1>3. CASE SweepList \/ SweepJoin \/ Tick \/ UNCHANGED vars
  BY <1>3 DEF SweepList, SweepJoin, Tick, vars, base, calls, Quiet, Steady
<1>4. CASE SweepError
  <2>1. db'.ticket = db.ticket
    BY <1>4, SweepApart, AlarmGone DEF SweepError, Control
  <2> QED
    BY <1>4, <2>1 DEF SweepError, calls, Quiet, Steady
<1>5. CASE Kill \/ KillInSweep
  <2>1. UNCHANGED saved /\ txn' = None
    BY <1>5 DEF Kill, KillInSweep, Restarted
  <2>2. CASE txn # None
    BY <1>5, <2>1, <2>2 DEF Kill, KillInSweep, Rollback
  <2>3. CASE txn = None
    <3>1. db'.ticket = db.ticket
      BY <1>5, <2>3, SweepApart, AlarmGone DEF Kill, KillInSweep, Control
    <3>2. \A r \in Requests : txn # r
      BY <2>3, PairingAssumption
    <3> QED
      BY <2>1, <2>3, <3>1, <3>2 DEF Quiet
  <2> QED
    BY <2>2, <2>3
<1> QED
  BY <1>1, <1>2, <1>3, <1>4, <1>5 DEF Next, Progress, Sweep

-----------------------------------------------------------------------------
(* The invariant of the records.                                           *)

LEMMA RecordData ==
    ASSUME Control
    PROVE  /\ db.ticket \in [Tickets -> TicketRecord] /\ saved.ticket \in [Tickets -> TicketRecord]
           /\ \A r \in Requests : TicketOf(r) \in Tickets /\ expires[r] \in Nat
           /\ \A t \in Tickets : db.ticket[t].expires \in Nat /\ saved.ticket[t].expires \in Nat
           /\ now \in Nat /\ Grace \in Nat /\ TTL \in Nat \ {0}
<1>1. db.ticket \in [Tickets -> TicketRecord] /\ saved.ticket \in [Tickets -> TicketRecord]
  BY DEF Control, TypeOK, Database
<1>2. \A t \in Tickets : db.ticket[t].expires \in Nat /\ saved.ticket[t].expires \in Nat
  BY <1>1 DEF TicketRecord
<1>3. now \in Nat /\ Grace \in Nat /\ TTL \in Nat \ {0}
  BY PairingAssumption DEF Control, TypeOK
<1> QED
  BY <1>1, <1>2, <1>3, ClockNumbers DEF Control

LEMMA ClockGoesOn == ASSUME Control, Control', [Next]_vars PROVE now' \in Nat /\ now \in Nat /\ now' >= now
<1>1. now \in Nat /\ now' \in Nat
  BY RecordData, PairingAssumption DEF Control, TypeOK
<1> QED
  BY <1>1, ClockSteps

LEMMA LifeStep == ASSUME Control, Control', LifeInv, [Next]_vars PROVE LifeInv'
<1> SUFFICES ASSUME NEW i \in Issuers
             PROVE  expires'[i] <= now' + TTL /\ (Called(i)' => expires'[i] > 0)
  BY DEF LifeInv
<1>1. /\ i \in Requests /\ now \in Nat /\ now' \in Nat /\ now' >= now /\ TTL \in Nat \ {0}
      /\ expires[i] \in Nat
  BY MembersOf, RecordData, ClockGoesOn
<1>2. expires[i] <= now + TTL /\ (Called(i) => expires[i] > 0)
  BY DEF LifeInv
<1>3. CASE (Called(i)' <=> Called(i)) /\ expires'[i] = expires[i]
  <2>1. expires'[i] <= now' + TTL
    BY <1>1, <1>2, <1>3
  <2> QED
    BY <1>2, <1>3, <2>1
<1>4. CASE expires'[i] = now + TTL
  BY <1>1, <1>4
<1> QED
  BY <1>3, <1>4, IssuerSteps

\* The record the callback writes, if it writes one.
LEMMA WorkRecords ==
    ASSUME Control, NEW r \in Requests, Work(r)
    PROVE  /\ UNCHANGED <<now, saved, txn, stage, expires>> /\ txn = r
           /\ pc[r] = "work" /\ pc'[r] = "commit"
           /\ db'.ticket \in [Tickets -> TicketRecord]
           /\ \A t \in Tickets : db'.ticket[t] # db.ticket[t] => IsLast(r) /\ t = TicketOf(r)
           /\ \/ db'.ticket = db.ticket /\ ~Pending(r)'
              \/ /\ IsLast(r) /\ Pending(r)'
                 /\ Effect(r, db.ticket[TicketOf(r)], db'.ticket[TicketOf(r)])
<1>1. /\ UNCHANGED <<now, saved, txn, stage, expires>> /\ txn = r
      /\ pc[r] = "work" /\ pc'[r] = "commit"
  BY DEF Work, Step, Control, TypeOK, TxnInv
<1>2. /\ IsLast(r)' <=> IsLast(r)
      /\ Name(r) \in Tickets <=> IsLast(r)
      /\ Name(r) \in Gates <=> ~IsLast(r)
      /\ TicketOf(r) \in Tickets
  BY <1>1, Calls DEF IsLast, Control, TypeOK
<1>3. db.ticket \in [Tickets -> TicketRecord] /\ db'.ticket \in [Tickets -> TicketRecord]
  BY RecordData, WorkWrites DEF Database
<1>4. CASE IsIssue(r) /\ allowed'[r] /\ db.ticket[TicketOf(r)].status = "absent"
           /\ db'.ticket = [db.ticket EXCEPT ![TicketOf(r)] =
                               [status |-> "issued", expires |-> expires[r]]]
  <2>1. Effect(r, db.ticket[TicketOf(r)], db'.ticket[TicketOf(r)])
    BY <1>2, <1>3, <1>4 DEF Effect, IsIssue
  <2>2. IsLast(r) /\ Pending(r)'
    BY <1>1, <1>2, <1>4 DEF Pending, IsIssue
  <2> QED
    BY <1>1, <1>3, <1>4, <2>1, <2>2
<1>5. CASE IsRedeem(r) /\ allowed'[r] /\ db.ticket[TicketOf(r)].status = "issued" /\ r \notin Mismatched
           /\ db'.ticket = [db.ticket EXCEPT ![TicketOf(r)] =
                               [status |-> "consumed", expires |-> db.ticket[TicketOf(r)].expires]]
  <2>1. [db.ticket[TicketOf(r)] EXCEPT !.status = "consumed"]
          = [status |-> "consumed", expires |-> db.ticket[TicketOf(r)].expires]
    BY <1>2, <1>3 DEF TicketRecord
  <2>2. db'.ticket[TicketOf(r)] = [db.ticket[TicketOf(r)] EXCEPT !.status = "consumed"]
    BY <1>2, <1>3, <1>5, <2>1
  <2>3. Effect(r, db.ticket[TicketOf(r)], db'.ticket[TicketOf(r)])
    BY <1>5, <2>2 DEF Effect, IsRedeem
  <2>4. IsLast(r) /\ Pending(r)'
    BY <1>1, <1>2, <1>5 DEF Pending, IsRedeem
  <2> QED
    BY <1>1, <1>3, <1>5, <2>3, <2>4
<1>6. CASE db'.ticket = db.ticket /\ (IsRate(r) \/ ~allowed'[r])
  BY <1>1, <1>2, <1>3, <1>6 DEF Pending, IsRate
<1>7. ASSUME ~allowed'[r], db' = db PROVE db'.ticket = db.ticket
  BY <1>7
<1> QED
  BY <1>4, <1>5, <1>6, <1>7, WorkWrites

\* What a wipe does to the records.
LEMMA WipeRecords ==
    ASSUME Control, TicketInv, StoredInv, SweepWipe
    PROVE  /\ UNCHANGED <<now, saved, txn>> /\ \A r \in Requests : Steady(r)
           /\ \A t \in Tickets :
                 \/ db'.ticket[t] = db.ticket[t]
                 \/ /\ Over(db.ticket[t], db'.ticket[t])
                    /\ \A r \in Requests : txn = r => Name(r) # t
<1>1. UNCHANGED <<now, saved, txn, calls, answer>>
  BY DEF SweepWipe
<1>2. sweep.at \in Objects /\ sweep.at \in sweep.due /\ db \in Database
  BY SweepApart DEF SweepWipe, Control, TypeOK
<1>3. \A t \in Tickets : db'.ticket[t] = IF t = sweep.at THEN NoTicket ELSE db.ticket[t]
  BY <1>2, WipeWritten DEF SweepWipe
<1>4. \A r \in Requests : txn = r => Name(r) # sweep.at
  BY SweepApart DEF SweepWipe, Control, TxnInv, Running
<1>5. ASSUME NEW t \in Tickets, t = sweep.at, db.ticket[t] # NoTicket
      PROVE  Over(db.ticket[t], NoTicket)
  <2>1. PICK i \in Issuers : TicketOf(i) = t /\ db.ticket[t].expires = expires[i]
    BY <1>5 DEF StoredInv
  <2> QED
    BY <1>2, <1>5, <2>1 DEF TicketInv, DueInv, Over
<1> QED
  BY <1>1, <1>3, <1>4, <1>5 DEF calls, Steady

LEMMA StoredStep ==
    ASSUME Control, Control', TicketInv, StoredInv, [Next]_vars PROVE StoredInv'
<1>1. ASSUME NEW t \in Tickets, NEW x,
             \E i \in Issuers : TicketOf(i) = t /\ Called(i) /\ x = expires[i]
      PROVE  \E i \in Issuers : TicketOf(i) = t /\ Called(i)' /\ x = expires'[i]
  BY <1>1, IssuerSteps
<1>2. ASSUME NEW t \in Tickets, NEW old \in {db, saved}, NEW new,
             new = old.ticket[t] \/ new = NoTicket
      PROVE  \/ new = NoTicket
             \/ \E i \in Issuers : TicketOf(i) = t /\ Called(i)' /\ new.expires = expires'[i]
  BY <1>1, <1>2 DEF StoredInv
<1>3. ASSUME NEW t \in Tickets, NEW d \in {db', saved'},
             \/ \E old \in {db, saved} : d.ticket[t] = old.ticket[t]
             \/ d.ticket[t] = NoTicket
      PROVE  \/ d.ticket[t] = NoTicket
             \/ \E i \in Issuers : TicketOf(i) = t /\ Called(i)' /\ d.ticket[t].expires = expires'[i]
  BY <1>2, <1>3
<1>4. CASE Quiet \/ Rollback \/ \E r \in Requests : Begin(r) \/ Commit(r)
  <2>1. \A t \in Tickets, d \in {db', saved'} : \E old \in {db, saved} : d.ticket[t] = old.ticket[t]
    BY <1>4 DEF Quiet, Rollback, Begin, Commit
  <2> QED
    BY <1>3, <2>1 DEF StoredInv, TicketOf
<1>5. CASE SweepWipe
  <2>1. \A t \in Tickets, d \in {db', saved'} :
           \/ \E old \in {db, saved} : d.ticket[t] = old.ticket[t]
           \/ d.ticket[t] = NoTicket
    BY <1>5, WipeRecords DEF Over
  <2> QED
    BY <1>3, <2>1 DEF StoredInv, TicketOf
<1>6. ASSUME NEW r \in Requests, Work(r) PROVE StoredInv'
  <2> DEFINE tk == TicketOf(r)
  <2>1. \A t \in Tickets, d \in {db', saved'} :
           \/ \E old \in {db, saved} : d.ticket[t] = old.ticket[t]
           \/ d = db' /\ t = tk
    BY <1>6, WorkRecords
  <2>2. CASE db'.ticket = db.ticket
    <3>1. \A t \in Tickets, d \in {db', saved'} : \E old \in {db, saved} : d.ticket[t] = old.ticket[t]
      BY <2>1, <2>2
    <3> QED
      BY <1>3, <3>1 DEF StoredInv, TicketOf
  <2>3. CASE IsLast(r) /\ Effect(r, db.ticket[tk], db'.ticket[tk])
    <3>1. tk \in Tickets /\ db.ticket \in [Tickets -> TicketRecord]
      BY RecordData
    <3>2. \E i \in Issuers : TicketOf(i) = tk /\ Called(i) /\ db'.ticket[tk].expires = expires[i]
      <4>1. CASE /\ r \in Issuers
                 /\ db'.ticket[tk] = [status |-> "issued", expires |-> expires[r]]
        <5>1. Called(r)
          BY <1>6, <2>3 DEF Called, Work
        <5>2. db'.ticket[tk].expires = expires[r]
          BY <4>1
        <5> QED
          BY <4>1, <5>1, <5>2
      <4>2. CASE /\ db.ticket[tk].status = "issued"
                 /\ db'.ticket[tk] = [db.ticket[tk] EXCEPT !.status = "consumed"]
        <5>1. db.ticket[tk] # NoTicket
          BY <4>2 DEF NoTicket
        <5>2. db'.ticket[tk].expires = db.ticket[tk].expires
          BY <3>1, <4>2 DEF TicketRecord
        <5> QED
          BY <3>1, <5>1, <5>2 DEF StoredInv
      <4> QED
        BY <2>3, <4>1, <4>2 DEF Effect
    <3>3. \E i \in Issuers : TicketOf(i) = tk /\ Called(i)' /\ db'.ticket[tk].expires = expires'[i]
      BY <1>1, <3>1, <3>2
    <3> QED
      BY <1>3, <2>1, <3>3 DEF StoredInv, TicketOf
  <2> QED
    BY <1>6, <2>2, <2>3, WorkRecords
<1> QED
  BY <1>4, <1>5, <1>6, StoreSteps

LEMMA ApartStep ==
    ASSUME Control, Control', TicketInv, RegisterInv, [Next]_vars PROVE ApartInv'
<1> USE DEF RegisterInv
<1>0. /\ \A r \in Requests : r # None /\ TicketOf(r) \in Tickets
      /\ now \in Nat /\ now' \in Nat /\ now' >= now /\ Grace \in Nat
      /\ \A t \in Tickets : saved.ticket[t].expires \in Nat
  BY PairingAssumption, RecordData, ClockGoesOn
<1>1. CASE txn' = None
  BY <1>0, <1>1 DEF ApartInv
\* The transaction and its records stay, time may pass.
<1>2. ASSUME saved' = saved, NEW r \in Requests, txn = r, Steady(r), NEW t \in Tickets,
             db'.ticket[t] = db.ticket[t]
      PROVE  \/ IsLast(r)' /\ t = TicketOf(r) /\ Pending(r)' /\ Effect(r, saved.ticket[t], db.ticket[t])'
             \/ ~(IsLast(r)' /\ t = TicketOf(r) /\ Pending(r)') /\ db'.ticket[t] = saved.ticket[t]
             \/ ~(IsLast(r)' /\ t = TicketOf(r)) /\ Over(saved.ticket[t], db.ticket[t])'
  <2>1. (IsLast(r)' <=> IsLast(r)) /\ (Pending(r)' <=> Pending(r))
    BY <1>2 DEF Steady, IsLast, Pending
  <2>2. Effect(r, saved.ticket[t], db.ticket[t]) => Effect(r, saved.ticket[t], db.ticket[t])'
    BY <1>2 DEF Steady, Effect
  <2>3. Over(saved.ticket[t], db.ticket[t]) => Over(saved.ticket[t], db.ticket[t])'
    <3>1. now >= saved.ticket[t].expires + Grace => now' >= saved.ticket[t].expires + Grace
      BY <1>0
    <3> QED
      BY <1>2, <3>1 DEF Over
  <2> QED
    BY <1>2, <2>1, <2>2, <2>3 DEF ApartInv
<1>3. CASE Quiet
  <2>1. \A r \in Requests, t \in Tickets : txn' = r =>
           saved' = saved /\ txn = r /\ Steady(r) /\ db'.ticket[t] = db.ticket[t]
    BY <1>3 DEF Quiet
  <2> QED
    BY <1>2, <2>1 DEF ApartInv, TicketOf
<1>4. CASE Rollback \/ \E r \in Requests : Commit(r)
  BY <1>1, <1>4 DEF Rollback, Commit
<1>5. ASSUME NEW r \in Requests, Begin(r) PROVE ApartInv'
  <2>1. txn' = r /\ saved' = db /\ db' = db /\ ~Pending(r)'
    BY <1>5 DEF Begin, Step, Pending, Control, TypeOK
  <2> QED
    BY <2>1 DEF ApartInv, TicketOf
<1>6. ASSUME NEW r \in Requests, Work(r) PROVE ApartInv'
  <2> DEFINE tk == TicketOf(r)
  <2>1. /\ UNCHANGED <<now, saved, txn, stage, expires>> /\ txn = r /\ ~Pending(r)
        /\ \A t \in Tickets : db'.ticket[t] # db.ticket[t] => IsLast(r) /\ t = tk
        /\ \/ db'.ticket = db.ticket /\ ~Pending(r)'
           \/ /\ IsLast(r) /\ Pending(r)'
              /\ Effect(r, db.ticket[tk], db'.ticket[tk])
    BY <1>6, WorkRecords DEF Pending
  <2>2. \A t \in Tickets : \/ db.ticket[t] = saved.ticket[t]
                           \/ ~(IsLast(r) /\ t = tk) /\ Over(saved.ticket[t], db.ticket[t])
    BY <2>1 DEF ApartInv
  <2> SUFFICES ASSUME NEW t \in Tickets
               PROVE  \/ IsLast(r)' /\ t = tk /\ Pending(r)' /\ Effect(r, saved.ticket[t], db.ticket[t])'
                      \/ ~(IsLast(r)' /\ t = tk /\ Pending(r)') /\ db'.ticket[t] = saved.ticket[t]
                      \/ ~(IsLast(r)' /\ t = tk) /\ Over(saved.ticket[t], db.ticket[t])'
    BY <2>1 DEF ApartInv, TicketOf
  <2>3. IsLast(r)' <=> IsLast(r)
    BY <2>1 DEF IsLast
  <2>4. CASE IsLast(r) /\ t = tk
    <3>1. db.ticket[t] = saved.ticket[t]
      BY <2>2, <2>4
    <3>2. Effect(r, db.ticket[tk], db'.ticket[tk]) => Effect(r, saved.ticket[t], db.ticket[t])'
      BY <2>1, <2>4, <3>1 DEF Effect
    <3> QED
      BY <2>1, <2>3, <2>4, <3>1, <3>2
  <2>5. CASE ~(IsLast(r) /\ t = tk)
    <3>1. db'.ticket[t] = db.ticket[t]
      BY <2>1, <2>5
    <3>2. Over(saved.ticket[t], db.ticket[t]) => Over(saved.ticket[t], db.ticket[t])'
      BY <2>1, <3>1 DEF Over
    <3> QED
      BY <2>1, <2>2, <2>3, <2>5, <3>1, <3>2
  <2> QED
    BY <2>4, <2>5
<1>7. CASE SweepWipe
  <2>1. /\ UNCHANGED <<now, saved, txn>> /\ \A r \in Requests : Steady(r)
        /\ \A t \in Tickets :
              \/ db'.ticket[t] = db.ticket[t]
              \/ /\ Over(db.ticket[t], db'.ticket[t])
                 /\ \A r \in Requests : txn = r => Name(r) # t
    BY <1>7, WipeRecords
  <2> SUFFICES ASSUME NEW r \in Requests, NEW t \in Tickets, txn = r
               PROVE  \/ IsLast(r)' /\ t = TicketOf(r) /\ Pending(r)' /\ Effect(r, saved.ticket[t], db.ticket[t])'
                      \/ ~(IsLast(r)' /\ t = TicketOf(r) /\ Pending(r)') /\ db'.ticket[t] = saved.ticket[t]
                      \/ ~(IsLast(r)' /\ t = TicketOf(r)) /\ Over(saved.ticket[t], db.ticket[t])'
    BY <2>1 DEF ApartInv, TicketOf
  <2>2. CASE db'.ticket[t] = db.ticket[t]
    BY <1>2, <2>1, <2>2
  <2>3. CASE Over(db.ticket[t], db'.ticket[t]) /\ Name(r) # t
    <3>1. ~(IsLast(r) /\ t = TicketOf(r)) /\ (IsLast(r)' <=> IsLast(r))
      BY <2>1, <2>3, Calls DEF Control, TypeOK, Steady, IsLast
    <3>2. db.ticket[t] = saved.ticket[t] \/ Over(saved.ticket[t], db.ticket[t])
      BY <3>1 DEF ApartInv
    <3>3. Over(saved.ticket[t], db.ticket[t])'
      BY <2>1, <2>3, <3>2 DEF Over
    <3> QED
      BY <3>1, <3>3
  <2> QED
    BY <2>1, <2>2, <2>3
<1> QED
  BY <1>3, <1>4, <1>5, <1>6, <1>7, StoreSteps

LEMMA InitRegisterInv == Init => RegisterInv
<1> SUFFICES ASSUME Init PROVE RegisterInv
  OBVIOUS
<1>1. StoredInv
  BY DEF Init, StoredInv
<1>2. \A i \in Issuers : expires[i] = 0 /\ ~Called(i)
  BY MembersOf DEF Init, Called
<1>3. LifeInv
  <2>1. now = 0 /\ TTL \in Nat /\ now <= now + TTL
    BY PairingAssumption DEF Init
  <2> QED
    BY <1>2, <2>1 DEF LifeInv
<1>4. ApartInv
  BY PairingAssumption DEF Init, ApartInv
<1> QED
  BY <1>1, <1>3, <1>4 DEF RegisterInv

LEMMA RegisterInvariant == SafeSpec => [](Control /\ TicketInv /\ RegisterInv)
<1>1. Control /\ Control' /\ TicketInv /\ RegisterInv /\ [Next]_vars => RegisterInv'
  BY StoredStep, LifeStep, ApartStep DEF RegisterInv
<1> QED
  BY <1>1, InitRegisterInv, TicketInvariant, PTL DEF SafeSpec

-----------------------------------------------------------------------------
(* Each step of the store is one of the register, or leaves it as it is.    *)

LEMMA RegisterData ==
    /\ Register!Clients = Requests
    /\ Register!Record = TicketRecord /\ Register!Blank = NoTicket
BY DEF Register!Clients, Register!Record, Register!Blank, Requests, TicketRecord, NoTicket

LEMMA RegisterInit == Init => Register!Init
<1> SUFFICES ASSUME Init PROVE Register!Init
  OBVIOUS
<1>1. now = 0 /\ Durable.ticket = [t \in Tickets |-> NoTicket]
  BY DEF Init, Durable
<1>2. \A r \in Requests : Phase(r) = "open"
  BY DEF Init, Phase, None
<1> QED
  BY <1>1, <1>2, RegisterData DEF Register!Init

\* What may happen to a request besides being told: nothing, or its end without effect.
Ends(r) == Phase(r)' = Phase(r) \/ (Phase(r) # "ok" /\ Phase(r)' = "over")

LEMMA SteadyPhase == ASSUME NEW r \in Requests, Steady(r) PROVE Phase(r)' = Phase(r)
BY DEF Steady, Phase, IsLast

LEMMA PhaseSteps ==
    ASSUME Control, Control', [Next]_vars, NEW r \in Requests
    PROVE  \/ Ends(r)
           \/ Advance(r) /\ Phase(r) = "granted" /\ Phase(r)' = "ok"
           \/ Commit(r) /\ Pending(r) /\ Phase(r) = "open" /\ Phase(r)' = "granted"
<1>1. CASE Steady(r)
  BY <1>1, SteadyPhase DEF Ends
<1>2. pc[r] # "done" => answer[r] # "ok"
  BY DEF Control, DoneInv, None
<1>3. CASE Arrive(r)
  <2>1. pc[r] = "idle" /\ pc'[r] = "locked" /\ answer'[r] = answer[r]
    BY <1>3 DEF Arrive, Call, Control, TypeOK
  <2> QED
    BY <1>2, <2>1 DEF Phase, Ends
<1>4. CASE Advance(r)
  <2>1. /\ pc[r] = "returned" /\ answer[r] # "ok" /\ allowed' = allowed
    BY <1>2, <1>4 DEF Advance, Answer, Call
  <2>2. CASE ~allowed[r] /\ pc'[r] = "done" /\ answer'[r] = "refused"
    BY <2>1, <2>2 DEF Phase, Ends
  <2>3. CASE allowed[r] /\ IsLast(r) /\ pc'[r] = "done" /\ answer'[r] = "ok"
    BY <1>4, <2>1, <2>3 DEF Phase
  <2>4. CASE allowed[r] /\ ~IsLast(r) /\ pc'[r] = "locked" /\ answer' = answer
    BY <2>1, <2>4 DEF Phase, Ends
  <2> QED
    BY <1>4, <2>2, <2>3, <2>4 DEF Advance, Answer, Call, Control, TypeOK
<1>5. CASE IssueAlarm(r) \/ RateAlarm(r) \/ Begin(r) \/ BeginNested(r) \/ Work(r) \/ SqlError(r)
  <2>1. /\ pc[r] \in {"locked", "begin", "work", "commit"} /\ answer' = answer
        /\ \/ pc'[r] \in {"begin", "work", "commit"}
           \/ pc'[r] = "returned" /\ ~allowed'[r]
    BY <1>5 DEF IssueAlarm, RateAlarm, Begin, BeginNested, Work, SqlError, Step, Ready, Control, TypeOK
  <2> QED
    BY <1>2, <2>1 DEF Phase, Ends
<1>6. CASE Commit(r)
  <2>1. /\ pc[r] = "commit" /\ pc'[r] = "returned" /\ UNCHANGED <<stage, allowed, answer>>
        /\ answer[r] # "ok" /\ (IsLast(r)' <=> IsLast(r))
    BY <1>2, <1>6 DEF Commit, Step, IsLast, Control, TypeOK
  <2>2. Phase(r) = "open"
    BY <2>1 DEF Phase
  <2>3. CASE allowed[r] /\ IsLast(r)
    BY <1>6, <2>1, <2>2, <2>3 DEF Phase, Pending
  <2>4. CASE ~(allowed[r] /\ IsLast(r))
    <3>1. Phase(r)' \in {"open", "over"}
      BY <2>1, <2>4 DEF Phase
    <3> QED
      BY <2>2, <3>1 DEF Ends
  <2> QED
    BY <2>3, <2>4
<1>7. CASE Sweep \/ SweepError \/ Tick \/ UNCHANGED vars
  BY <1>1, <1>7 DEF Steady, Sweep, SweepList, SweepJoin, SweepWipe, SweepError, Tick, vars, calls
<1>8. CASE Restarted
  <2>1. CASE InFlight(r)
    <3>1. pc[r] # "done" /\ pc'[r] = "done" /\ answer'[r] = "lost"
      BY <1>8, <2>1 DEF Restarted, InFlight
    <3>2. Phase(r) # "ok" /\ Phase(r)' = "over"
      BY <1>2, <3>1 DEF Phase
    <3> QED
      BY <3>2 DEF Ends
  <2>2. CASE ~InFlight(r)
    BY <1>1, <1>8, <2>2 DEF Restarted, Steady
  <2> QED
    BY <2>1, <2>2
<1>9. ASSUME NEW s \in Requests, s # r, Arrive(s) \/ Progress(s) \/ SqlError(s)
      PROVE  Steady(r)
  BY <1>9, OneMoves
<1> QED
  BY <1>1, <1>3, <1>4, <1>5, <1>6, <1>7, <1>8, <1>9 DEF Next, Progress, Kill, KillInSweep

\* What is in the file of a ticket changes by the COMMIT of a call about it, or
\* because the ticket is over.
LEMMA DurableSteps ==
    ASSUME Control, Control', TicketInv, RegisterInv, [Next]_vars
    PROVE  /\ Durable.ticket \in [Tickets -> TicketRecord]
           /\ Durable'.ticket \in [Tickets -> TicketRecord]
           /\ \A t \in Tickets :
                 \/ Durable'.ticket[t] = Durable.ticket[t]
                 \/ Over(Durable.ticket[t], Durable'.ticket[t])
                 \/ \E r \in Requests :
                       /\ Commit(r) /\ IsLast(r) /\ Pending(r) /\ t = TicketOf(r)
                       /\ Effect(r, Durable.ticket[t], Durable'.ticket[t])
<1>1. /\ Durable.ticket \in [Tickets -> TicketRecord]
      /\ Durable'.ticket \in [Tickets -> TicketRecord]
  BY DEF Durable, Control, TypeOK, Database
<1>2. \A r \in Requests : r # None
  BY PairingAssumption
<1>3. CASE Quiet \/ Rollback \/ \E r \in Requests : Begin(r)
  BY <1>1, <1>2, <1>3 DEF Quiet, Rollback, Begin, Durable
<1>4. ASSUME NEW r \in Requests, Work(r) PROVE Durable' = Durable
  BY <1>2, <1>4, WorkRecords DEF Durable
<1>5. CASE SweepWipe
  BY <1>1, <1>5, WipeRecords DEF RegisterInv, Durable
<1>6. ASSUME NEW r \in Requests, Commit(r), NEW t \in Tickets
      PROVE  \/ Durable'.ticket[t] = Durable.ticket[t]
             \/ Over(Durable.ticket[t], Durable'.ticket[t])
             \/ /\ IsLast(r) /\ Pending(r) /\ t = TicketOf(r)
                /\ Effect(r, Durable.ticket[t], Durable'.ticket[t])
  <2>1. txn = r /\ Durable = saved /\ Durable' = db
    BY <1>2, <1>6 DEF Commit, Durable, Control, TxnInv
  <2> QED
    BY <2>1 DEF RegisterInv, ApartInv
<1> QED
  BY <1>1, <1>3, <1>4, <1>5, <1>6, StoreSteps

\* The register's steps, from what happens to each ticket and each request.
LEMMA ForgetStep ==
    ASSUME Durable'.ticket \in [Tickets -> TicketRecord], now' = now,
           \A t \in Tickets : \/ Durable'.ticket[t] = Durable.ticket[t]
                              \/ Over(Durable.ticket[t], Durable'.ticket[t]),
           \A r \in Requests : Ends(r)
    PROVE  Register!Forget
<1> DEFINE S == {r \in Requests : Phase(r) # "ok" /\ Phase(r)' = "over"}
<1>1. Register!Kept(Tickets)
  BY RegisterData DEF Register!Kept, Over
<1>2. [r \in Requests |-> Phase(r)]' =
        [r \in Requests |-> IF r \in S THEN "over" ELSE [s \in Requests |-> Phase(s)][r]]
  BY DEF Ends
<1>3. S \in SUBSET {r \in Requests : [s \in Requests |-> Phase(s)][r] # "ok"}
  OBVIOUS
<1> HIDE DEF S
<1> QED
  BY <1>1, <1>2, <1>3, RegisterData DEF Register!Forget

LEMMA GrantStep ==
    ASSUME Control, RegisterInv,
           Durable.ticket \in [Tickets -> TicketRecord],
           Durable'.ticket \in [Tickets -> TicketRecord], now' = now,
           NEW r \in Requests, IsLast(r), pc[r] = "commit", txn = r,
           Effect(r, Durable.ticket[TicketOf(r)], Durable'.ticket[TicketOf(r)]),
           \A t \in Tickets \ {TicketOf(r)} : \/ Durable'.ticket[t] = Durable.ticket[t]
                                              \/ Over(Durable.ticket[t], Durable'.ticket[t]),
           Phase(r) = "open", Phase(r)' = "granted",
           \A s \in Requests : s # r => Phase(s)' = Phase(s)
    PROVE  Register!Next
<1> DEFINE tk == TicketOf(r)
           new == Durable'.ticket[tk]
           phases == [s \in Requests |-> Phase(s)]
<1>1. tk \in Tickets /\ [s \in Requests |-> TicketOf(s)][r] = tk
  BY RecordData
<1>2. Register!Kept(Tickets \ {tk})
  BY RegisterData DEF Register!Kept, Over
<1>3. phases' = [phases EXCEPT ![r] = "granted"] /\ phases[r] = "open"
  OBVIOUS
<1>4. Register!Grant(r, new)
  BY <1>1, <1>2, <1>3, RegisterData DEF Register!Grant
<1>5. CASE /\ r \in Issuers /\ Durable.ticket[tk].status = "absent"
           /\ new = [status |-> "issued", expires |-> expires[r]]
  <2>1. expires[r] \in 1..(now + TTL)
    <3>1. Called(r)
      BY DEF Called
    <3> QED
      BY <1>5, <3>1, RecordData DEF RegisterInv, LifeInv
  <2>2. Register!Grant(r, [status |-> "issued", expires |-> expires[r]])
    BY <1>4, <1>5
  <2>3. Register!Issue(r)
    BY <1>1, <1>5, <2>1, <2>2 DEF Register!Issue
  <2> QED
    BY <1>5, <2>3 DEF Register!Next
<1>6. CASE /\ r \in Redeemers \ Mismatched /\ Durable.ticket[tk].status = "issued"
           /\ new = [Durable.ticket[tk] EXCEPT !.status = "consumed"]
  <2>1. Register!Grant(r, [Durable.ticket[tk] EXCEPT !.status = "consumed"])
    BY <1>4, <1>6
  <2>2. Register!Redeem(r)
    BY <1>1, <1>6, <2>1 DEF Register!Redeem
  <2> QED
    BY <1>6, <2>2 DEF Register!Next
<1> QED
  BY <1>5, <1>6 DEF Effect

LEMMA RegisterStep ==
    ASSUME Control, Control', TicketInv, RegisterInv, [Next]_vars
    PROVE  [Register!Next]_(Register!vars)
<1> DEFINE phases == [s \in Requests |-> Phase(s)]
<1>1. CASE Tick
  <2>1. UNCHANGED <<db, saved, txn, calls, answer>> /\ now' = now + 1
    BY <1>1 DEF Tick, base
  <2>2. Durable' = Durable
    BY <2>1 DEF Durable
  <2>3. phases' = phases
    BY <2>1, SteadyPhase DEF calls, Steady
  <2> HIDE DEF phases
  <2>4. Register!Tick
    BY <2>1, <2>2, <2>3 DEF Register!Tick, phases
  <2> QED
    BY <2>4 DEF Register!Next
<1>2. ASSUME NEW r \in Requests, Advance(r), Phase(r) = "granted", Phase(r)' = "ok"
      PROVE  Register!Next
  <2>1. \A s \in Requests : s # r => Phase(s)' = Phase(s)
    BY <1>2, OneMoves, SteadyPhase DEF Progress
  <2>2. phases' = [phases EXCEPT ![r] = "ok"] /\ phases[r] = "granted"
    BY <1>2, <2>1
  <2>3. Durable' = Durable /\ now' = now
    BY <1>2 DEF Advance, base, Durable
  <2> HIDE DEF phases
  <2>4. Register!Tell(r)
    BY <2>2, <2>3 DEF Register!Tell, phases
  <2> QED
    BY <2>4, RegisterData DEF Register!Next
<1>3. ASSUME NEW r \in Requests, Commit(r), Pending(r), IsLast(r)
      PROVE  Register!Next
  <2>1. txn = r /\ pc[r] = "commit" /\ now' = now
    BY <1>3 DEF Commit, Control, TxnInv
  <2>2. Durable = saved /\ Durable' = db
    BY <1>3, <2>1, PairingAssumption DEF Commit, Durable
  <2>3. \A s \in Requests : s # r => Phase(s)' = Phase(s)
    BY <1>3, OneMoves, SteadyPhase DEF Progress
  <2>4. Phase(r) = "open" /\ Phase(r)' = "granted"
    BY <1>3, <2>1 DEF Commit, Step, Pending, Phase, IsLast, Control, TypeOK, DoneInv, None
  <2>5. /\ Durable.ticket \in [Tickets -> TicketRecord]
        /\ Durable'.ticket \in [Tickets -> TicketRecord]
    BY DurableSteps
  <2>6. Effect(r, Durable.ticket[TicketOf(r)], Durable'.ticket[TicketOf(r)])
    BY <1>3, <2>1, <2>2, RecordData DEF RegisterInv, ApartInv
  <2>7. \A t \in Tickets \ {TicketOf(r)} : \/ Durable'.ticket[t] = Durable.ticket[t]
                                           \/ Over(Durable.ticket[t], Durable'.ticket[t])
    BY <2>1, <2>2 DEF RegisterInv, ApartInv
  <2> QED
    BY <1>3, <2>1, <2>3, <2>4, <2>5, <2>6, <2>7, GrantStep
<1>4. CASE /\ ~Tick
           /\ ~\E r \in Requests : Advance(r) /\ Phase(r) = "granted" /\ Phase(r)' = "ok"
           /\ ~\E r \in Requests : Commit(r) /\ Pending(r) /\ IsLast(r)
  <2>1. now' = now
    BY <1>4, ClockSteps
  <2>2. \A r \in Requests : Ends(r)
    BY <1>4, PhaseSteps DEF Pending
  <2>3. Register!Forget
    BY <1>4, <2>1, <2>2, DurableSteps, ForgetStep
  <2> QED
    BY <2>3 DEF Register!Next
<1> QED
  BY <1>1, <1>2, <1>3, <1>4

\* To any number of issuers and redeemers each ticket is one atomic record in the
\* file, whatever is rolled back, fails or is killed in between (issue and redeem
\* in app-pairing-store.js, transaction and alarm sweep in pairing-store.mjs).
THEOREM TicketRefinement == SafeSpec => TicketsAtomic
BY RegisterInit, RegisterStep, RegisterInvariant, PTL DEF SafeSpec, TicketsAtomic, Register!Spec

=============================================================================
