---------------------------- MODULE MCClipboard ----------------------------
(* The clipboard of two sessions with two calls at a time.                  *)
EXTENDS Clipboard, TLC

\* Bound: the device goes only while nothing is under way.
LossWhenSettled == device /\ ~device' => Settled

Symmetry == Permutations(Task) \cup Permutations(Session)
=============================================================================
