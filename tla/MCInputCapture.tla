--------------------------- MODULE MCInputCapture ---------------------------
(* The whole of capturing, on one or two sessions.                          *)
EXTENDS InputCapture, TLC

OneLayout == {"full"}
TwoLayouts == {"full", "partial"}
Edges == [l \in Layouts |-> IF l = "full" THEN BarrierId ELSE {}]
Symmetry == Permutations(Session)
AllBarriers == {BarrierId \cup {Malformed}}
=============================================================================
