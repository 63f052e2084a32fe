SPECIFICATION Spec
CONSTANTS
    i1 = i1
    i2 = i2
    r1 = r1
    r2 = r2
    t1 = t1
    t2 = t2
    g1 = g1
    Issuers = {i1, i2}
    Redeemers = {r1}
    Tickets = {t1, t2}
    Gates = {}
    Script <- TwoTickets
    Mismatched = {r1}
    Sweeper = Sweeper
    Limit = 1
    Window = 2
    TTL = 1
    Grace = 1
    MaxTime = 3
    MaxFaults = 1
CHECK_DEADLOCK FALSE
PROPERTIES
    EveryRequestEnds
    TicketsForgotten
