--------------------------- MODULE MCNotification ---------------------------
(* TLC instance of Notification: adapters, settings and events.              *)
EXTENDS Notification

CONSTANT a1   \* the App

Timeouts(s, p) == [n \in Rounds |-> IF n = "summary" THEN s ELSE p]

\* An adapter of version 1 with templates added by hand, of version 2 with and
\* without a rule for the answer, of version 3 with deliveries of unequal patience.
V1 == [version |-> 1, wellFormed |-> TRUE, templates |-> {"runtime.failure"}, checksBody |-> TRUE,
       timeouts |-> Timeouts(0, 0), expansive |-> {}]
V2 == [V1 EXCEPT !.version = 2, !.templates = {"submission.summary", "runtime.failure"}]
V2Status == [V2 EXCEPT !.templates = {"submission.summary"}, !.checksBody = FALSE]
V3 == [V1 EXCEPT !.version = 3, !.templates = {}, !.timeouts = Timeouts(2, 1)]
V3Expansive == [V3 EXCEPT !.expansive = {"summary"}, !.timeouts = Timeouts(1, 2)]
V3Patient == [V3 EXCEPT !.timeouts = Timeouts(2, 3)]
Broken == [V2 EXCEPT !.wellFormed = FALSE]

On(adapter) == [disabled |-> FALSE, diagnostics |-> TRUE, adapter |-> adapter]

MCFirstSettings ==
    {On(None), On(V1), On(V2), On(V2Status), On(V3), On(V3Expansive), On(V3Patient), On(Broken)}
MCSavedSettings ==
    {On(V1), On(V3), On(V3Patient), [On(V3) EXCEPT !.disabled = TRUE], [On(V2) EXCEPT !.diagnostics = FALSE]}

Round(success, filled, long) ==
    [key |-> TRUE, version |-> 3, type |-> "submission.round", wellFormed |-> TRUE,
     success |-> success, filled |-> filled, long |-> long]
Plain(type) ==
    [Round(TRUE, {}, FALSE) EXCEPT !.version = 2, !.type = type]

MCEvents ==
    { Round(TRUE, {"missingItems"}, FALSE), Round(TRUE, {"unconfirmedIdentifiers"}, FALSE),
      Round(FALSE, {"errors"}, TRUE), Plain("submission.summary"), Plain("runtime.failure"),
      [Plain("submission.summary") EXCEPT !.key = FALSE],
      [Plain("submission.summary") EXCEPT !.wellFormed = FALSE], [Round(TRUE, {}, FALSE) EXCEPT !.version = 2] }

=============================================================================
