--------------------------- MODULE CatalogRegister ---------------------------
(***************************************************************************)
(* What the catalog promises its clients: one register that holds the line *)
(* of published versions.  A publish is applied to it in one step, at most *)
(* once, and only to the version it was based on; a read returns a line    *)
(* the register held between the arrival of the request and its answer.    *)
(***************************************************************************)
EXTENDS CatalogData

VARIABLES
    line,      \* the published versions, oldest first
    state,     \* "idle", "pending" or "done"
    body,      \* what each publisher posts
    view,      \* the line each client last looked at, <<>> if it has not
    answer,    \* what each client was told
    applied    \* publishers whose request is in the line

vars == <<line, state, body, view, answer, applied>>

Init ==
    /\ line = Earlier
    /\ state = [r \in Clients |-> "idle"]
    /\ body \in Bodies
    /\ view = [r \in Clients |-> <<>>]
    /\ answer = [r \in Clients |-> "none"]
    /\ applied = {}

Submit(r) ==
    /\ state[r] = "idle"
    /\ state' = [state EXCEPT ![r] = "pending"]
    /\ UNCHANGED <<line, body, view, answer, applied>>

Look(r) ==
    /\ state[r] = "pending"
    /\ view' = [view EXCEPT ![r] = line]
    /\ UNCHANGED <<line, state, body, answer, applied>>

\* The whole publish, on the version it targets and on no other.
Publish(r) ==
    /\ state[r] = "pending"
    /\ r \in Publishers \ applied
    /\ body[r].base = Version(line)
    /\ Admissible(body[r], Latest(line))
    /\ line' = Append(line, Apply(body[r], Latest(line)))
    /\ applied' = applied \cup {r}
    /\ UNCHANGED <<state, body, view, answer>>

\* What may be said of a request: success of a publisher means its version was
\* published, success of a reader means it looked; a conflict means that another
\* version than the base was seen, or is there now; a refusal, that nothing was
\* published.  An error or a lost answer says nothing.
Justified(r, a) ==
    \/ a = "ok" /\ IF r \in Publishers THEN r \in applied ELSE view[r] # <<>>
    \/ /\ a = "conflict" /\ r \in Publishers \ applied
       /\ Version(line) # body[r].base \/ (view[r] # <<>> /\ Version(view[r]) # body[r].base)
    \/ a = "rejected" /\ r \in Publishers \ applied
    \/ a = "error"

Answer(r) ==
    /\ state[r] = "pending"
    /\ \E a \in {"ok", "conflict", "rejected", "error"} :
          Justified(r, a) /\ answer' = [answer EXCEPT ![r] = a]
    /\ state' = [state EXCEPT ![r] = "done"]
    /\ UNCHANGED <<line, body, view, applied>>

\* The server dies: no pending request will be answered.
LosePending ==
    /\ state'  = [r \in Clients |-> IF state[r] = "pending" THEN "done" ELSE state[r]]
    /\ answer' = [r \in Clients |-> IF state[r] = "pending" THEN "lost" ELSE answer[r]]
    /\ UNCHANGED <<line, body, view, applied>>

Next ==
    \/ \E r \in Clients : Submit(r) \/ Look(r) \/ Publish(r) \/ Answer(r)
    \/ LosePending

Spec == Init /\ [][Next]_vars

=============================================================================
