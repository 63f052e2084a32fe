---------------------------- MODULE TicketRegister ----------------------------
(***************************************************************************)
(* What the pairing endpoints promise: a register of tickets in which an   *)
(* issue and a redemption happen in one step, for good, before the client  *)
(* is told; a redemption uses the ticket up, and a ticket disappears only  *)
(* when it has been over for the grace time.  Everything else (locks,      *)
(* transactions, rate limits, the sweep, errors and restarts) can only end *)
(* a request without an effect, or forget a ticket that is over.           *)
(***************************************************************************)
EXTENDS Naturals

CONSTANTS
    Issuers, Redeemers, Tickets,
    Ticket,       \* the ticket each request is about
    Mismatched,   \* redeemers the ticket was not issued to
    TTL,          \* lifetime of a ticket
    Grace         \* how long after its end a ticket is remembered

VARIABLES
    clock,
    record,    \* what is kept of each ticket
    phase      \* of each request: "open", "granted", then "ok", or "over"

vars == <<clock, record, phase>>

Clients == Issuers \cup Redeemers
Record  == [status : {"absent", "issued", "consumed"}, expires : Nat]
Blank   == [status |-> "absent", expires |-> 0]

Init ==
    /\ clock = 0
    /\ record = [t \in Tickets |-> Blank]
    /\ phase = [r \in Clients |-> "open"]

\* What a step may do to the tickets it is not about.
Kept(S) ==
    \A t \in S : \/ record'[t] = record[t]
                 \/ record'[t] = Blank /\ clock >= record[t].expires + Grace

Grant(r, new) ==
    /\ phase[r] = "open"
    /\ phase' = [phase EXCEPT ![r] = "granted"]
    /\ record' \in [Tickets -> Record]
    /\ record'[Ticket[r]] = new
    /\ Kept(Tickets \ {Ticket[r]})
    /\ UNCHANGED clock

Issue(i) ==
    /\ record[Ticket[i]].status = "absent"
    /\ \E end \in 1..(clock + TTL) : Grant(i, [status |-> "issued", expires |-> end])

Redeem(r) ==
    /\ r \notin Mismatched
    /\ record[Ticket[r]].status = "issued"
    /\ Grant(r, [record[Ticket[r]] EXCEPT !.status = "consumed"])

\* The client is told of what is already kept.
Tell(r) ==
    /\ phase[r] = "granted"
    /\ phase' = [phase EXCEPT ![r] = "ok"]
    /\ UNCHANGED <<clock, record>>

\* Tickets that are over are forgotten; requests are refused, or their answers lost.
Forget ==
    /\ record' \in [Tickets -> Record] /\ Kept(Tickets)
    /\ \E S \in SUBSET {r \in Clients : phase[r] # "ok"} :
          phase' = [r \in Clients |-> IF r \in S THEN "over" ELSE phase[r]]
    /\ UNCHANGED clock

Tick == clock' = clock + 1 /\ UNCHANGED <<record, phase>>

Next ==
    \/ \E i \in Issuers : Issue(i)
    \/ \E r \in Redeemers : Redeem(r)
    \/ \E r \in Clients : Tell(r)
    \/ Forget \/ Tick

Spec == Init /\ [][Next]_vars

=============================================================================
