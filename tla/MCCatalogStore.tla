--------------------------- MODULE MCCatalogStore ---------------------------
(* TLC instance of CatalogStore: what earlier runs left and who posts what.  *)
EXTENDS CatalogStore, TLC

CONSTANTS a, b, c, p1, p2, k1   \* publishers, profile ids, a capability

Only(i, cap) == [j \in Profiles |-> IF j = i THEN cap ELSE Absent]
Nothing      == [j \in Profiles |-> Absent]

Publish(base, incoming, replace) ==
    [route |-> "publish", base |-> base, incoming |-> incoming, replace |-> replace,
     adapters |-> FALSE, settings |-> {}]
Settings(base, incoming, settings) ==
    [route |-> "settings", base |-> base, incoming |-> incoming, replace |-> FALSE,
     adapters |-> TRUE, settings |-> settings]

\* The seed, and a save that brought an adapter.
MCEarlier == <<Seed, [Seed EXCEPT !.version = 2, !.settings = {k1}]>>

\* One adds a profile the adapter carries; another takes the adapter away or
\* replaces the profiles, on the same version, or comes for the last version an App
\* accepts; the third for the version in between.
MCRequests ==
    a :> { Publish(2, Only(p1, k1), FALSE) } @@
    b :> { Settings(2, Nothing, {}), Publish(2, Only(p2, k1), TRUE),
           Settings(4, Only(p1, k1), {k1}) } @@
    c :> { Publish(3, Only(p2, k1), FALSE) }

=============================================================================
