--------------------------- MODULE PendingPastes ---------------------------
(***************************************************************************)
(* What the portal promises about pastes it cannot serve by itself: they    *)
(* wait in the order they came, never more than Capacity of them; each      *)
(* leaves once, because somebody answers it, because it is the oldest of    *)
(* too many, or because all of them are given up together.                  *)
(***************************************************************************)
EXTENDS Integers, Sequences, SequencesExt

CONSTANTS
    Paste,
    Capacity    \* not 0

VARIABLE waiting

Init == waiting = <<>>

\* A new one comes last; the oldest makes room for it.
Wait ==
    /\ waiting' # <<>>
    /\ Last(waiting') \in Paste
    /\ Front(waiting') = IF Len(waiting) < Capacity THEN waiting ELSE Tail(waiting)

Answer(i) == waiting' = RemoveAt(waiting, i)

GiveUp == waiting' = <<>>

Next ==
    \/ Wait
    \/ \E i \in DOMAIN waiting : Answer(i)
    \/ GiveUp

Spec == Init /\ [][Next]_waiting
=============================================================================
