----------------------------- MODULE PairingStore -----------------------------
(***************************************************************************)
(* One-time pairing tickets: the issue and redeem endpoints                *)
(* (api/app-pairing-routes.js, app-pairing-tickets.js), the objects they   *)
(* call, one per ticket and one per rate limit (app-pairing-store.js), and *)
(* the SQLite store under them (stores/pairing-store.mjs).                 *)
(*                                                                         *)
(* Calls to one object run one at a time, but all objects write through    *)
(* one database connection, and a transaction is open across awaits: what  *)
(* another object writes meanwhile, outside any transaction of its own, is *)
(* kept or lost with it.  Every await lets any other request in; the event *)
(* loop of a given Node version may allow fewer interleavings, not more.   *)
(***************************************************************************)
EXTENDS Integers, Sequences, FiniteSets

CONSTANTS
    Issuers,      \* requests to /api/app-pair/v1/issue, one each
    Redeemers,    \* requests to /api/app-pair/v1/redeem, one each
    Tickets,      \* ticket objects (ticket-v1:<hash>)
    Gates,        \* rate objects (rate-v1:issue-global, ...)
    Script,       \* the objects a request calls: rate limits, then a ticket
    Mismatched,   \* redeemers whose origin, key or application is not the ticket's
    Sweeper,      \* the alarm sweep of the store
    Limit,        \* requests a rate object allows in a window
    Window,       \* its length
    TTL,          \* lifetime of a ticket
    Grace,        \* how long after its end a record is kept
    MaxTime,      \* bound on the clock
    MaxFaults     \* bound on kills and SQLite errors together

Requests == Issuers \cup Redeemers
Objects  == Tickets \cup Gates

None == "none"

ASSUME PairingAssumption ==
    /\ Limit \in Nat \ {0} /\ Window \in Nat \ {0} /\ TTL \in Nat \ {0}
    /\ Grace \in Nat /\ MaxTime \in Nat /\ MaxFaults \in Nat
    /\ Issuers \cap Redeemers = {} /\ Tickets \cap Gates = {}
    /\ Sweeper \notin Requests /\ None \notin Requests \cup Objects
    /\ Mismatched \subseteq Redeemers
    /\ Script \in [Requests -> Seq(Objects)]
    /\ \A r \in Requests : /\ Len(Script[r]) > 0
                           /\ Script[r][Len(Script[r])] \in Tickets
                           /\ \A i \in 1..(Len(Script[r]) - 1) : Script[r][i] \in Gates
    \* createTicket draws 32 random bytes: no ticket is issued twice.
    /\ \A r, s \in Issuers : Script[r][Len(Script[r])] = Script[s][Len(Script[s])] => r = s

VARIABLES
    now,       \* the clock
    db,        \* the database as the connection sees it
    saved,     \* the database as it was at BEGIN, what ROLLBACK or a kill goes back to
    txn,       \* who has the transaction open, or None
    locks,     \* for each object, who waits for it; the head has it
    pc,        \* the await each request is at
    stage,     \* which of its calls a request is in
    expires,   \* expiry an issuer asks for
    window,    \* window start a rate call computed
    got,       \* what a transaction read
    allowed,   \* what the last call decided
    answer,    \* what each client was told
    sweep,     \* what the sweep is doing: the names left, and the one it waits for
    faults,    \* kills and errors so far
    granted,   \* history: for each gate and window, how many were allowed
    wiped      \* history: for each gate and window, how often it was wiped

calls  == <<pc, stage, expires, window, got, allowed>>
base   == <<db, saved, txn>>
vars   == <<now, base, locks, calls, answer, sweep, faults, granted, wiped>>

TicketRecord == [status : {"absent", "issued", "consumed"}, expires : Nat]
RateRecord   == [window : Int, count : 0..Limit]
NoTicket == [status |-> "absent", expires |-> 0]
NoCount  == [window |-> -1, count |-> 0]
NoAlarm  == -1
Windows  == {w \in 0..MaxTime : w % Window = 0}
WindowOf(t) == (t \div Window) * Window

Name(r)     == Script[r][stage[r]]
IsLast(r)   == stage[r] = Len(Script[r])
IsRate(r)   == Name(r) \in Gates
IsIssue(r)  == r \in Issuers /\ Name(r) \in Tickets
IsRedeem(r) == r \in Redeemers /\ Name(r) \in Tickets
InFlight(r) == pc[r] \notin {"idle", "done"}

\* withLock: a chain of promises per name; whoever is first runs.
Holds(p, n)   == locks[n] # <<>> /\ Head(locks[n]) = p
Queued(p, n)  == [locks EXCEPT ![n] = Append(@, p)]
Released(n)   == [locks EXCEPT ![n] = Tail(@)]

Init ==
    /\ now = 0
    /\ db = [ticket |-> [t \in Tickets |-> NoTicket],
             rate   |-> [g \in Gates |-> NoCount],
             alarm  |-> [n \in Objects |-> NoAlarm]]
    /\ saved = db
    /\ txn = None
    /\ locks = [n \in Objects |-> <<>>]
    /\ pc = [r \in Requests |-> "idle"]
    /\ stage = [r \in Requests |-> 1]
    /\ expires = [r \in Requests |-> 0]
    /\ window = [r \in Requests |-> 0]
    /\ got = [r \in Requests |-> NoTicket]
    /\ allowed = [r \in Requests |-> FALSE]
    /\ answer = [r \in Requests |-> None]
    /\ sweep = [due |-> {}, at |-> None]
    /\ faults = 0
    /\ granted = [g \in Gates |-> [w \in Windows |-> 0]]
    /\ wiped = [g \in Gates |-> [w \in Windows |-> 0]]

-----------------------------------------------------------------------------
(* The endpoints: one call after another, each must allow the next.        *)

\* The issuer fixes the expiry of the ticket just before it calls its object.
Call(r, i) ==
    /\ stage' = [stage EXCEPT ![r] = i]
    /\ locks' = Queued(r, Script[r][i])
    /\ expires' = IF r \in Issuers /\ Script[r][i] \in Tickets
                  THEN [expires EXCEPT ![r] = now + TTL] ELSE expires
    /\ pc' = [pc EXCEPT ![r] = "locked"]
    /\ UNCHANGED <<window, got, allowed>>

Arrive(r) ==
    /\ pc[r] = "idle"
    /\ Call(r, 1)
    /\ UNCHANGED <<now, base, answer, sweep, faults, granted, wiped>>

Answer(r, a) ==
    /\ pc' = [pc EXCEPT ![r] = "done"]
    /\ answer' = [answer EXCEPT ![r] = a]
    /\ UNCHANGED <<stage, expires, window, got, allowed>>

Advance(r) ==
    /\ pc[r] = "returned"
    /\ \/ ~allowed[r] /\ Answer(r, "refused") /\ UNCHANGED locks
       \/ allowed[r] /\ IsLast(r) /\ Answer(r, "ok") /\ UNCHANGED locks
       \/ allowed[r] /\ ~IsLast(r) /\ Call(r, stage[r] + 1) /\ UNCHANGED answer
    /\ UNCHANGED <<now, base, sweep, faults, granted, wiped>>

-----------------------------------------------------------------------------
(* The objects.  Each storage operation runs its statement at once and then *)
(* yields.                                                                 *)

SetAlarm(n, at) == db' = [db EXCEPT !.alarm[n] = at]

Step(r, step) == pc' = [pc EXCEPT ![r] = step]

\* As IssueAlarm would be if the alarm were counted from the moment of the issue.
IssueAlarmEarly(r) ==
    /\ pc[r] = "locked" /\ IsIssue(r) /\ Holds(r, Name(r))
    /\ now < expires[r]
    /\ SetAlarm(Name(r), now + Grace)
    /\ Step(r, "begin")
    /\ UNCHANGED <<now, saved, txn, locks, stage, expires, window, got, allowed, answer,
                   sweep, faults, granted, wiped>>

\* issue: an expired request is refused, then the alarm is set before the write.
IssueAlarm(r) ==
    /\ pc[r] = "locked" /\ IsIssue(r) /\ Holds(r, Name(r))
    /\ \/ /\ now >= expires[r]
          /\ allowed' = [allowed EXCEPT ![r] = FALSE]
          /\ locks' = Released(Name(r))
          /\ Step(r, "returned")
          /\ UNCHANGED db
       \/ /\ now < expires[r]
          /\ SetAlarm(Name(r), expires[r] + Grace)
          /\ Step(r, "begin")
          /\ UNCHANGED <<locks, allowed>>
    /\ UNCHANGED <<now, saved, txn, stage, expires, window, got, answer, sweep, faults,
                   granted, wiped>>

\* rate: the window is the one of this moment.
RateAlarm(r) ==
    /\ pc[r] = "locked" /\ IsRate(r) /\ Holds(r, Name(r))
    /\ window' = [window EXCEPT ![r] = WindowOf(now)]
    /\ SetAlarm(Name(r), WindowOf(now) + Window + Grace)
    /\ Step(r, "begin")
    /\ UNCHANGED <<now, saved, txn, locks, stage, expires, got, allowed, answer, sweep,
                   faults, granted, wiped>>

Ready(r) == pc[r] = "begin" \/ (pc[r] = "locked" /\ IsRedeem(r) /\ Holds(r, Name(r)))

\* BEGIN IMMEDIATE, and the read at the start of every callback.
Begin(r) ==
    /\ Ready(r)
    /\ txn = None
    /\ txn' = r
    /\ saved' = db
    /\ got' = [got EXCEPT ![r] = IF IsRate(r) THEN db.rate[Name(r)] ELSE db.ticket[Name(r)]]
    /\ Step(r, "work")
    /\ UNCHANGED <<now, db, locks, stage, expires, window, allowed, answer, sweep, faults,
                   granted, wiped>>

\* As BeginNested would be if the lock of a call that throws were not passed on.
BeginNestedStuck(r) ==
    /\ Ready(r)
    /\ txn # None
    /\ allowed' = [allowed EXCEPT ![r] = FALSE]
    /\ Step(r, "returned")
    /\ UNCHANGED <<now, base, locks, stage, expires, window, got, answer, sweep, faults,
                   granted, wiped>>

\* BEGIN inside another object's transaction throws: the call answers 503.
BeginNested(r) ==
    /\ Ready(r)
    /\ txn # None
    /\ locks' = Released(Name(r))
    /\ allowed' = [allowed EXCEPT ![r] = FALSE]
    /\ Step(r, "returned")
    /\ UNCHANGED <<now, base, stage, expires, window, got, answer, sweep, faults, granted, wiped>>

\* As CanRedeem would be if the stored status were not checked.
CanRedeemAgain(r) == got[r].status # "absent" /\ r \notin Mismatched /\ now < got[r].expires

CanIssue(r) == got[r].status = "absent"
CanRedeem(r) == got[r].status = "issued" /\ r \notin Mismatched /\ now < got[r].expires
Count(r) == IF got[r].window = window[r] THEN got[r].count ELSE 0
\* As CanPass would be with an inclusive limit.
CanPassInclusive(r) == Count(r) <= Limit

CanPass(r) == Count(r) < Limit

\* The rest of the callback: check, write, return.
Work(r) ==
    /\ pc[r] = "work"
    /\ \/ /\ IsIssue(r) /\ CanIssue(r)
          /\ db' = [db EXCEPT !.ticket[Name(r)] = [status |-> "issued", expires |-> expires[r]]]
          /\ allowed' = [allowed EXCEPT ![r] = TRUE]
       \/ /\ IsRedeem(r) /\ CanRedeem(r)
          /\ db' = [db EXCEPT !.ticket[Name(r)].status = "consumed"]
          /\ allowed' = [allowed EXCEPT ![r] = TRUE]
       \/ /\ IsRate(r) /\ CanPass(r)
          /\ db' = [db EXCEPT !.rate[Name(r)] = [window |-> window[r], count |-> Count(r) + 1]]
          /\ allowed' = [allowed EXCEPT ![r] = TRUE]
       \/ /\ \/ IsIssue(r) /\ ~CanIssue(r)
             \/ IsRedeem(r) /\ ~CanRedeem(r)
             \/ IsRate(r) /\ ~CanPass(r)
          /\ allowed' = [allowed EXCEPT ![r] = FALSE]
          /\ UNCHANGED db
    /\ Step(r, "commit")
    /\ UNCHANGED <<now, saved, txn, locks, stage, expires, window, got, answer, sweep,
                   faults, granted, wiped>>

\* As Commit would be if a redemption were answered before its COMMIT.
CommitLater(r) ==
    /\ pc[r] = "commit"
    /\ txn' = IF IsRedeem(r) THEN txn ELSE None
    /\ locks' = Released(Name(r))
    /\ Step(r, "returned")
    /\ UNCHANGED <<now, db, saved, stage, expires, window, got, allowed, answer, sweep,
                   faults, granted, wiped>>

Commit(r) ==
    /\ pc[r] = "commit"
    /\ txn' = None
    /\ locks' = Released(Name(r))
    /\ Step(r, "returned")
    /\ granted' = IF IsRate(r) /\ allowed[r]
                  THEN [granted EXCEPT ![Name(r)][window[r]] = @ + 1] ELSE granted
    /\ UNCHANGED <<now, db, saved, stage, expires, window, got, allowed, answer, sweep,
                   faults, wiped>>

-----------------------------------------------------------------------------
(* The sweep, every 15 seconds: the list of due alarms is read once, then   *)
(* each object is waited for and wiped.                                    *)

Due == {n \in Objects : db.alarm[n] # NoAlarm /\ db.alarm[n] <= now}

SweepList ==
    /\ sweep.due = {}
    /\ Due # {}
    /\ sweep' = [due |-> Due, at |-> None]
    /\ UNCHANGED <<now, base, locks, calls, answer, faults, granted, wiped>>

SweepJoin ==
    /\ sweep.at = None
    /\ \E n \in sweep.due : /\ sweep' = [sweep EXCEPT !.at = n]
                            /\ locks' = Queued(Sweeper, n)
    /\ UNCHANGED <<now, base, calls, answer, faults, granted, wiped>>

NoAlarmAt(n) == [db EXCEPT !.alarm[n] = NoAlarm]
\* As Wiped would be if an alarm only went off.
WipedAlarmOnly(n) == NoAlarmAt(n)

Wiped(n) == IF n \in Tickets THEN [NoAlarmAt(n) EXCEPT !.ticket[n] = NoTicket]
                             ELSE [NoAlarmAt(n) EXCEPT !.rate[n] = NoCount]

\* The alarm row goes first, then everything the object has stored.
SweepWipe ==
    /\ sweep.at # None /\ Holds(Sweeper, sweep.at)
    /\ db' = Wiped(sweep.at)
    /\ wiped' = IF sweep.at \in Gates
                THEN [wiped EXCEPT ![sweep.at][WindowOf(now)] = @ + 1] ELSE wiped
    /\ locks' = Released(sweep.at)
    /\ sweep' = [due |-> sweep.due \ {sweep.at}, at |-> None]
    /\ UNCHANGED <<now, saved, txn, calls, answer, faults, granted>>

-----------------------------------------------------------------------------
(* Time and faults.                                                        *)

Tick ==
    /\ now < MaxTime
    /\ now' = now + 1
    /\ UNCHANGED <<base, locks, calls, answer, sweep, faults, granted, wiped>>

Fault == faults < MaxFaults /\ faults' = faults + 1

\* As SqlError would be if COMMIT ran whatever happened before.
SqlErrorCommitted(r) ==
    /\ Fault
    /\ \/ pc[r] \in {"locked", "begin"} /\ Holds(r, Name(r)) /\ UNCHANGED <<db, txn>>
       \/ pc[r] \in {"work", "commit"} /\ txn' = None /\ UNCHANGED db
    /\ locks' = Released(Name(r))
    /\ allowed' = [allowed EXCEPT ![r] = FALSE]
    /\ Step(r, "returned")
    /\ UNCHANGED <<now, saved, stage, expires, window, got, answer, sweep, granted, wiped>>

\* A statement of a call fails: an open transaction is rolled back, with
\* everything written through the connection since it began.
SqlError(r) ==
    /\ Fault
    /\ \/ pc[r] \in {"locked", "begin"} /\ Holds(r, Name(r)) /\ UNCHANGED <<db, txn>>
       \/ pc[r] \in {"work", "commit"} /\ db' = saved /\ txn' = None
    /\ locks' = Released(Name(r))
    /\ allowed' = [allowed EXCEPT ![r] = FALSE]
    /\ Step(r, "returned")
    /\ UNCHANGED <<now, saved, stage, expires, window, got, answer, sweep, granted, wiped>>

\* A wipe fails, before or after the alarm row is gone; the rest of the sweep is
\* given up.
SweepError ==
    /\ Fault
    /\ sweep.at # None /\ Holds(Sweeper, sweep.at)
    /\ db' \in {db, NoAlarmAt(sweep.at)}
    /\ locks' = Released(sweep.at)
    /\ sweep' = [due |-> {}, at |-> None]
    /\ UNCHANGED <<now, saved, txn, calls, answer, granted, wiped>>

\* The process is killed and started again: an open transaction never happened.
Restarted ==
    /\ Fault
    /\ txn' = None
    /\ locks' = [n \in Objects |-> <<>>]
    /\ pc' = [r \in Requests |-> IF InFlight(r) THEN "done" ELSE pc[r]]
    /\ answer' = [r \in Requests |-> IF InFlight(r) THEN "lost" ELSE answer[r]]
    /\ sweep' = [due |-> {}, at |-> None]
    /\ UNCHANGED <<now, saved, stage, expires, window, got, allowed, granted, wiped>>

Kill == db' = (IF txn = None THEN db ELSE saved) /\ Restarted

\* Killed between the two statements of a wipe, each its own commit.
KillInSweep ==
    /\ sweep.at # None /\ Holds(Sweeper, sweep.at)
    /\ txn = None
    /\ db' = NoAlarmAt(sweep.at)
    /\ Restarted

Progress(r) == \/ Advance(r) \/ IssueAlarm(r) \/ RateAlarm(r) \/ Begin(r) \/ BeginNested(r)
               \/ Work(r) \/ Commit(r)
Sweep       == SweepList \/ SweepJoin \/ SweepWipe

Next ==
    \/ \E r \in Requests : Arrive(r) \/ Progress(r) \/ SqlError(r)
    \/ Sweep \/ SweepError \/ Tick \/ Kill \/ KillInSweep

\* Awaits on the synchronous database settle, the interval fires, time passes.
Fairness == WF_vars(Sweep) /\ WF_vars(Tick) /\ \A r \in Requests : WF_vars(Progress(r))

SafeSpec == Init /\ [][Next]_vars
Spec     == SafeSpec /\ Fairness

-----------------------------------------------------------------------------
(* Properties.                                                             *)

\* What is in the file, whatever transaction is open.
Durable == IF txn = None THEN db ELSE saved

Database == [ticket : [Tickets -> TicketRecord],
             rate   : [Gates -> RateRecord],
             alarm  : [Objects -> Nat \cup {NoAlarm}]]

TypeOK ==
    /\ now \in 0..MaxTime
    /\ db \in Database /\ saved \in Database
    /\ txn \in Requests \cup {None}
    /\ locks \in [Objects -> Seq(Requests \cup {Sweeper})]
    /\ pc \in [Requests -> {"idle", "locked", "begin", "work", "commit", "returned", "done"}]
    /\ stage \in [Requests -> Nat \ {0}] /\ \A r \in Requests : stage[r] <= Len(Script[r])
    /\ expires \in [Requests -> Nat] /\ window \in [Requests -> Windows]
    /\ got \in [Requests -> TicketRecord \cup RateRecord]
    /\ allowed \in [Requests -> BOOLEAN]
    /\ answer \in [Requests -> {None, "ok", "refused", "lost"}]
    /\ sweep \in [due : SUBSET Objects, at : Objects \cup {None}] /\ sweep.at \in sweep.due \cup {None}
    /\ faults \in 0..MaxFaults
    /\ granted \in [Gates -> [Windows -> Nat]] /\ wiped \in [Gates -> [Windows -> Nat]]

TicketOf(r) == Script[r][Len(Script[r])]

\* A ticket opens the catalog once: of all who redeem it, before or after errors,
\* rollbacks of other objects' transactions and restarts, one at most is told ok.
RedeemedOnce ==
    \A r, s \in Redeemers : /\ answer[r] = "ok" /\ answer[s] = "ok"
                            /\ TicketOf(r) = TicketOf(s)
                            => r = s

\* A redeemed ticket stays redeemed: when the client is told ok the consumption is
\* in the file, and no rollback or restart makes the ticket good again.
ConsumptionDurable ==
    \A r \in Redeemers : answer[r] = "ok" => Durable.ticket[TicketOf(r)].status # "issued"

\* What the issuer was told holds: until it expires, a ticket handed out is in the
\* file, unless a redeemer's transaction has consumed it.
IssuedTicketHonoured ==
    \A i \in Issuers : answer[i] = "ok" /\ now < expires[i] =>
        Durable.ticket[TicketOf(i)].status # "absent"

\* A window lets no more through than its limit, for every time the sweep wiped
\* the counter in it: a wipe in the window, from a list read before the object was
\* armed again, gives the allowance anew, nothing else does.
RateLimited ==
    \A g \in Gates, w \in Windows : granted[g][w] <= Limit * (1 + wiped[g][w])

\* "a successfully persisted ticket can therefore never be left without an alarm"
TicketHasAlarm ==
    \A t \in Tickets : Durable.ticket[t].status # "absent" => Durable.alarm[t] # NoAlarm

\* Every request is answered or lost in a restart; no lock stays taken.
EveryRequestEnds == \A r \in Requests : InFlight(r) ~> pc[r] = "done"

\* Without faults a ticket, redeemed or not, is wiped once its time is over (a
\* ticket whose time the bounded clock reaches).
Outlives(t) == Durable.ticket[t].status # "absent" /\ Durable.ticket[t].expires + Grace <= MaxTime

TicketsForgotten ==
    [](faults = 0) => \A t \in Tickets : Outlives(t) ~> Durable.ticket[t].status = "absent"

-----------------------------------------------------------------------------
(* What the tickets implement.  A call takes effect when its transaction is *)
(* committed.                                                              *)

Phase(r) == CASE answer[r] = "ok"                                  -> "ok"
              [] pc[r] = "returned" /\ allowed[r] /\ IsLast(r)     -> "granted"
              [] \/ pc[r] = "returned" /\ ~allowed[r]
                 \/ pc[r] = "done" /\ answer[r] # "ok"             -> "over"
              [] OTHER                                             -> "open"

Register == INSTANCE TicketRegister WITH
    Ticket <- [r \in Requests |-> TicketOf(r)],
    clock  <- now,
    record <- Durable.ticket,
    phase  <- [r \in Requests |-> Phase(r)]

\* To its clients each ticket is one atomic record in the file: an issue and a
\* redemption happen at once and for good before they are told, whatever another
\* object's transaction, an error or a restart undoes, and a record is only
\* forgotten when it has been over for the grace time.
TicketsAtomic == Register!Spec

=============================================================================
