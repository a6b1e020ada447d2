-------------------------- MODULE MCWaylandThread --------------------------
(* The Wayland thread against every portal, on two barriers.                *)
EXTENDS WaylandThread

\* Two layouts: in the second one only the barriers of SomeEdges still lie on
\* an output edge.
CONSTANTS SomeEdges

OneLayout == {"full"}
TwoLayouts == {"full", "partial"}
Edges == [l \in Layouts |-> IF l = "full" THEN BarrierId ELSE SomeEdges]
=============================================================================
