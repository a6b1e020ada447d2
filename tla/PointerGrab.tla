---------------------------- MODULE PointerGrab ----------------------------
(***************************************************************************)
(* What the Wayland thread promises the rest of the program: one pointer,   *)
(* held by at most one barrier, taken only from a barrier on offer, each    *)
(* taking reported before anything that follows it (wayland/mod.rs          *)
(* WaylandEvent).  A grab may end unreported: because it was asked for, or  *)
(* because an output, a layer or the pointer itself went away.              *)
(***************************************************************************)
EXTENDS Sequences

CONSTANTS Barrier, Nobody

VARIABLES holder, offered, reports

vars == <<holder, offered, reports>>

Free == holder = Nobody

Init ==
    /\ Free
    /\ offered = {}
    /\ reports = <<>>

Take(b) ==
    /\ Free
    /\ b \in offered
    /\ holder' = b
    /\ reports' = Append(reports, [type |-> "Activated", barrier |-> b])
    /\ UNCHANGED offered

Lose ==
    /\ ~Free
    /\ holder' = Nobody
    /\ reports' = Append(reports, [type |-> "CaptureLost"])
    /\ UNCHANGED offered

\* The grab ends, and perhaps some of the offer with it, without a loss.
Drop ==
    /\ holder' = Nobody
    /\ offered' \subseteq offered
    /\ \/ UNCHANGED reports
       \/ reports' = Append(reports, [type |-> "OutputsChanged"])

\* Edges are offered one by one as they map, and withdrawn at will; a barrier
\* that holds the pointer is not offered anew.
Offer(b) ==
    /\ holder # b
    /\ offered' = offered \cup {b}
    /\ UNCHANGED <<holder, reports>>

Withdraw ==
    /\ offered' \in SUBSET offered
    /\ UNCHANGED <<holder, reports>>

LayoutChanges ==
    /\ reports' = Append(reports, [type |-> "OutputsChanged"])
    /\ UNCHANGED <<holder, offered>>

Consume ==
    /\ reports # <<>>
    /\ reports' = Tail(reports)
    /\ UNCHANGED <<holder, offered>>

Next ==
    \/ \E b \in Barrier : Take(b) \/ Offer(b)
    \/ Lose
    \/ Drop
    \/ Withdraw
    \/ LayoutChanges
    \/ Consume

Spec == Init /\ [][Next]_vars
=============================================================================
