--------------------------- MODULE MCPairingStore ---------------------------
(* TLC instances of PairingStore.                                            *)
EXTENDS PairingStore, TLC

CONSTANTS i1, i2, r1, r2, t1, t2, g1

\* One ticket and two who redeem it; the gate shares the connection with it.
OneTicket == i1 :> <<g1, t1>> @@ r1 :> <<g1, t1>> @@ r2 :> <<t1>>

\* Two tickets, each with its own object, and a redeemer of the first.
TwoTickets == i1 :> <<t1>> @@ i2 :> <<t2>> @@ r1 :> <<t1>>

=============================================================================
