---------------------------- MODULE MCPlacement ----------------------------
(* Outputs side by side, in one column and apart; depth 4, inset 2.         *)
EXTENDS Placement

At(name, x, y, width, height) ==
    [name |-> name, x |-> x, y |-> y, width |-> width, height |-> height]
Beam(id, x1, y1, x2, y2) == [id |-> id, x1 |-> x1, y1 |-> y1, x2 |-> x2, y2 |-> y2]

Main == At(2, 0, 0, 5, 4)
Beside == At(1, 5, 1, 4, 4)
Below == At(3, 0, 4, 4, 3)
Left == At(4, -3, -2, 3, 4)
Screens == {{Main}, {Main, Beside}, {Main, Below}, {Main, Left}, {Beside}, {Main, Beside, Below}}

\* Full edges, parts of one, edges two outputs share, lines beyond them all.
Beams == {Beam(1, 5, 0, 5, 4), Beam(2, 0, 9, 0, -9), Beam(3, 5, 2, 5, 5),
          Beam(4, 0, 4, 5, 4), Beam(5, 1, 0, 3, 0), Beam(6, -9, 7, 9, 7),
          Beam(7, 2, 0, 2, 4), Beam(8, 5, 4, 5, 4), Beam(9, 0, 0, 5, 4), Beam(10, 9, 0, 9, 5),
          Beam(11, 0, 5, 0, 7)}
Pairs == {{b, c} : b, c \in Beams} \cup {{}}
Spots == {<<1, 0>>, <<4, 3>>, <<-1, 2>>, <<3, 5>>}
=============================================================================
