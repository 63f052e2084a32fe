--------------------------- MODULE MCPanelEditing ---------------------------
(* TLC instances of PanelEditing.                                            *)
EXTENDS PanelEditing, TLC

CONSTANTS p1, p2, f1

\* One panel works in the dialog while the other one publishes.
DialogAndPublish == p1 :> {"order", "settings"} @@ p2 :> {"publish"}

\* Two panels that publish the same profile.
PublishBoth == p1 :> {"publish"} @@ p2 :> {"publish"}

\* One panel, alone, that publishes and orders.
Alone == p1 :> {"publish", "order"}

\* Nothing is written after the last version: its states are not explored further.
Unfinished == Version < MaxVersion

=============================================================================
