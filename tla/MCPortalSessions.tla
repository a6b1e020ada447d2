-------------------------- MODULE MCPortalSessions --------------------------
(* The portal against every Wayland thread.                                 *)
EXTENDS PortalSessions, TLC

OneLayout == {"full"}
TwoLayouts == {"full", "partial"}
Edges == [l \in Layouts |-> BarrierId]
AllBarriers == {BarrierId \cup {Malformed}}
Symmetry == Permutations(Session)
=============================================================================
