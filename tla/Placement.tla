----------------------------- MODULE Placement -----------------------------
(***************************************************************************)
(* Where things are on the screens: the zones niri reports (niri.rs), the   *)
(* region of the EIS devices (region_of), the surface a barrier is put on   *)
(* (place and create_surface) and where the cursor leaves and comes back    *)
(* (begin_capture, end_capture).                                            *)
(*                                                                         *)
(* Coordinates and positions are whole logical pixels.  The layout stays    *)
(* what it is: a change takes the surfaces' outputs or the zones away,      *)
(* which is WaylandThread's and PortalSessions' concern.                    *)
(***************************************************************************)
EXTENDS Integers, Sequences, FiniteSets, SequencesExt

CONSTANTS
    Layouts,         \* sets of outputs that may be there together
    Requests,        \* sets of barriers clients may ask for together
    Hint,            \* cursor positions clients may release with
    BARRIER_DEPTH,   \* 64 in the code
    RELEASE_INSET,   \* 8
    MaxU32           \* the largest u32

Barrier == [id : Nat, x1 : Int, y1 : Int, x2 : Int, y2 : Int]
Output == [name : Nat, x : Int, y : Int, width : Nat, height : Nat]

\* Names stand for their rank in the order of strings.  An output is larger than
\* the inset.
ASSUME PlacementAssumption ==
    /\ RELEASE_INSET \in Nat \ {0}
    /\ BARRIER_DEPTH \in Nat /\ BARRIER_DEPTH > RELEASE_INSET + 1
    /\ MaxU32 \in Nat
    /\ Requests \subseteq SUBSET Barrier
    /\ Hint \subseteq Int \X Int
    /\ \A outputs \in Layouts :
          /\ outputs \subseteq Output /\ IsFiniteSet(outputs)
          /\ \A o \in outputs : o.width > RELEASE_INSET /\ o.height > RELEASE_INSET
          /\ \A o, p \in outputs : o.name = p.name => o = p

VARIABLES
    outputs,    \* the compositor's outputs
    armed,      \* the barriers last armed
    surfaces,   \* State.surfaces: those that were placed
    capture,    \* State.capture: what an Option holds is a set of one, or empty
    cursor      \* the compositor's cursor; locked while there is a capture

vars == <<outputs, armed, surfaces, capture, cursor>>

Edge == {"Left", "Right", "Top", "Bottom"}
PlacedBarrier == [id : Nat, edge : Edge, output : Nat, size : Nat \X Nat,
                  margin : Int \X Int, origin : Int \X Int]

Least(a, b) == IF a <= b THEN a ELSE b
Most(a, b) == IF a >= b THEN a ELSE b

----------------------------------------------------------------------------
(* niri.                                                                    *)

Zone(o) == [width |-> o.width, height |-> o.height, x |-> o.x, y |-> o.y]

\* Mutant of Before: outputs in one column stay as niri returned them.
BeforeByColumn(o, p) == o.x < p.x

\* The order of the zones: by x, y and name.
Before(o, p) ==
    \/ o.x < p.x
    \/ o.x = p.x /\ o.y < p.y
    \/ o.x = p.x /\ o.y = p.y /\ o.name < p.name

\* sort_by.  No two outputs of a layout are alike.
Sorted(returned) ==
    LET order == CHOOSE p \in SetToSeqs(DOMAIN returned) :
                    \A i, j \in DOMAIN returned :
                        i < j => ~Before(returned[p[j]], returned[p[i]])
    IN [i \in DOMAIN returned |-> returned[order[i]]]

\* outputs(): niri returns the outputs in any order.
Zones(returned) == [i \in DOMAIN returned |-> Zone(Sorted(returned)[i])]

NoBounds == [left |-> 0, top |-> 0, right |-> -1, bottom |-> -1]

\* Mutant of Widen: the first zone is taken to start at the origin.
WidenFromOrigin(bounds, z) ==
    [left |-> Least(bounds.left, z.x), top |-> Least(bounds.top, z.y),
     right |-> Most(bounds.right, z.x + z.width),
     bottom |-> Most(bounds.bottom, z.y + z.height)]

Widen(bounds, z) ==
    CASE z.width = 0 \/ z.height = 0 -> bounds
      [] bounds = NoBounds -> [left |-> z.x, top |-> z.y,
                               right |-> z.x + z.width, bottom |-> z.y + z.height]
      [] OTHER -> [left |-> Least(bounds.left, z.x), top |-> Least(bounds.top, z.y),
                   right |-> Most(bounds.right, z.x + z.width),
                   bottom |-> Most(bounds.bottom, z.y + z.height)]

NoRegion == [width |-> 0, height |-> 0]

\* The bounds after so many zones.
Bounds(zones) ==
    LET after[i \in 0..Len(zones)] ==
            IF i = 0 THEN NoBounds ELSE Widen(after[i - 1], zones[i])
    IN after

\* region_of: the bounding box, if there is one and it can be represented.
RegionOf(zones) ==
    LET b == Bounds(zones)[Len(zones)]
        width == b.right - b.left
        height == b.bottom - b.top
    IN IF b = NoBounds \/ width > MaxU32 \/ height > MaxU32
         THEN NoRegion ELSE [width |-> width, height |-> height]
----------------------------------------------------------------------------
(* place.                                                                   *)

IsVertical(b) == b.x1 = b.x2
IsHorizontal(b) == b.y1 = b.y2

\* The barrier's extent along its axis, clipped to the output.
Clipped(b, o) ==
    IF IsVertical(b)
      THEN <<Most(Least(b.y1, b.y2), o.y), Least(Most(b.y1, b.y2), o.y + o.height)>>
      ELSE <<Most(Least(b.x1, b.x2), o.x), Least(Most(b.x1, b.x2), o.x + o.width)>>

\* Mutant of PlaceOn: the surface starts on the line of the barrier.
PlaceOnLine(b, o) ==
    LET along == Clipped(b, o)
        length == along[2] - along[1]
    IN IF IsVertical(b)
         THEN [id |-> b.id, edge |-> IF b.x1 = o.x + o.width THEN "Right" ELSE "Left",
               output |-> o.name, size |-> <<BARRIER_DEPTH, length>>,
               margin |-> <<along[1] - o.y, 0>>, origin |-> <<b.x1, along[1]>>]
         ELSE [id |-> b.id, edge |-> IF b.y1 = o.y + o.height THEN "Bottom" ELSE "Top",
               output |-> o.name, size |-> <<length, BARRIER_DEPTH>>,
               margin |-> <<0, along[1] - o.x>>, origin |-> <<along[1], b.y1>>]

\* A surface that reaches inward from the edge of the output.
PlaceOn(b, o) ==
    LET along == Clipped(b, o)
        length == along[2] - along[1]
        right == o.x + o.width
        bottom == o.y + o.height
    IN IF IsVertical(b)
         THEN [id |-> b.id, edge |-> IF b.x1 = right THEN "Right" ELSE "Left",
               output |-> o.name, size |-> <<BARRIER_DEPTH, length>>,
               margin |-> <<along[1] - o.y, 0>>,
               origin |-> <<IF b.x1 = right THEN right - BARRIER_DEPTH ELSE o.x, along[1]>>]
         ELSE [id |-> b.id, edge |-> IF b.y1 = bottom THEN "Bottom" ELSE "Top",
               output |-> o.name, size |-> <<length, BARRIER_DEPTH>>,
               margin |-> <<0, along[1] - o.x>>,
               origin |-> <<along[1], IF b.y1 = bottom THEN bottom - BARRIER_DEPTH ELSE o.y>>]

\* Mutant of Fits: a barrier on the line of an edge, but beyond its ends.
FitsBeyond(b, o) ==
    IF IsVertical(b) THEN b.x1 \in {o.x, o.x + o.width}
                     ELSE IsHorizontal(b) /\ b.y1 \in {o.y, o.y + o.height}

\* Mutant of Fits: a horizontal barrier is looked for on the upper edge only.
FitsUpper(b, o) ==
    /\ Clipped(b, o)[1] < Clipped(b, o)[2]
    /\ IF IsVertical(b) THEN b.x1 \in {o.x, o.x + o.width}
                        ELSE IsHorizontal(b) /\ b.y1 = o.y

\* The barrier has a part of its own on an edge of the output.
Fits(b, o) ==
    /\ Clipped(b, o)[1] < Clipped(b, o)[2]
    /\ IF IsVertical(b) THEN b.x1 \in {o.x, o.x + o.width}
                        ELSE IsHorizontal(b) /\ b.y1 \in {o.y, o.y + o.height}

\* place_one: on the first output it fits on, in the order there is, or nowhere.
PlaceOne(b, layout) ==
    LET fitting == {i \in DOMAIN layout : Fits(b, layout[i])}
    IN {PlaceOn(b, layout[i]) : i \in {i \in fitting : \A j \in fitting : i <= j}}

\* place, without the barriers it rejects.
Place(barriers, layout) == UNION {PlaceOne(b, layout) : b \in barriers}

\* Mutant of InputStrip: the strip starts beyond the far side of the surface.
InputStripBeyond(s) ==
    LET w == s.size[1]
        h == s.size[2]
    IN CASE s.edge = "Left" -> <<0, 0, 1, h>>
         [] s.edge = "Right" -> <<w, 0, 1, h>>
         [] s.edge = "Top" -> <<0, 0, w, 1>>
         [] s.edge = "Bottom" -> <<0, h, w, 1>>

\* input_strip: x, y, width and height within the surface.
InputStrip(s) ==
    LET w == s.size[1]
        h == s.size[2]
    IN CASE s.edge = "Left" -> <<0, 0, 1, h>>
         [] s.edge = "Right" -> <<w - 1, 0, 1, h>>
         [] s.edge = "Top" -> <<0, 0, w, 1>>
         [] s.edge = "Bottom" -> <<0, h - 1, w, 1>>

Clamp(n, lo, hi) == Most(lo, Least(n, hi))

\* Mutant of ReleaseHint: the inset counts from the far side of the surface.
ReleaseHintFromFar(s, along) ==
    LET w == s.size[1]
        h == s.size[2]
    IN CASE s.edge = "Left" -> <<w - 1 - RELEASE_INSET, Clamp(along, 0, h - 1)>>
         [] s.edge = "Right" -> <<w + RELEASE_INSET, Clamp(along, 0, h - 1)>>
         [] s.edge = "Top" -> <<Clamp(along, 0, w - 1), h - 1 - RELEASE_INSET>>
         [] s.edge = "Bottom" -> <<Clamp(along, 0, w - 1), h + RELEASE_INSET>>

\* release_hint: inward of the strip, at this position along the edge.
ReleaseHint(s, along) ==
    LET w == s.size[1]
        h == s.size[2]
    IN CASE s.edge = "Left" -> <<RELEASE_INSET, Clamp(along, 0, h - 1)>>
         [] s.edge = "Right" -> <<w - 1 - RELEASE_INSET, Clamp(along, 0, h - 1)>>
         [] s.edge = "Top" -> <<Clamp(along, 0, w - 1), RELEASE_INSET>>
         [] s.edge = "Bottom" -> <<Clamp(along, 0, w - 1), h - 1 - RELEASE_INSET>>

\* A position along the edge of s.
Along(s, p) == IF s.edge \in {"Left", "Right"} THEN p[2] ELSE p[1]

\* usable_hint: on the surface.
Usable(s, p) ==
    /\ p[1] - s.origin[1] \in 0..s.size[1]
    /\ p[2] - s.origin[2] \in 0..s.size[2]
----------------------------------------------------------------------------
(* The compositor (external).                                               *)

\* The screen position of a surface with the anchor and the margins that
\* create_surface gives it.
Position(s) ==
    LET o == CHOOSE o \in outputs : o.name = s.output
    IN CASE s.edge = "Right" -> <<o.x + o.width - s.size[1], o.y + s.margin[1]>>
         [] s.edge = "Bottom" -> <<o.x + s.margin[2], o.y + o.height - s.size[2]>>
         [] OTHER -> <<o.x + s.margin[2], o.y + s.margin[1]>>

\* A position on the surface, on the screen.
Onto(s, p) == <<Position(s)[1] + p[1], Position(s)[2] + p[2]>>

InBox(p, x, y, w, h) ==
    x <= p[1] /\ p[1] < x + w /\ y <= p[2] /\ p[2] < y + h

\* A screen position that is in the input region of s.
InStrip(p, s) ==
    LET at == Position(s)
        strip == InputStrip(s)
    IN InBox(p, at[1] + strip[1], at[2] + strip[2], strip[3], strip[4])

OnOutput(p, o) == InBox(p, o.x, o.y, o.width, o.height)

\* The whole screen positions of an output.
Pixels(o) == (o.x..(o.x + o.width - 1)) \X (o.y..(o.y + o.height - 1))
----------------------------------------------------------------------------

PlacementTypeOK ==
    /\ outputs \in Layouts
    /\ armed \subseteq Barrier
    /\ surfaces \subseteq PlacedBarrier
    /\ capture \subseteq [placed : surfaces, entry_along : Int]
    /\ \A c, d \in capture : c = d
    /\ cursor \in Int \X Int

Init ==
    /\ outputs \in Layouts
    /\ armed = {}
    /\ surfaces = {}
    /\ capture = {}
    /\ cursor \in {<<o.x, o.y>> : o \in outputs}

\* Arm: ignored during a capture.
Arm(barriers) ==
    /\ capture = {}
    /\ armed' = barriers
    /\ \E layout \in SetToSeqs(outputs) : surfaces' = Place(barriers, layout)
    /\ UNCHANGED <<outputs, capture, cursor>>

\* Mutant of EntryAlong: the position on the screen, not on the surface.
EntryAlongOnScreen(s, position) == Along(s, position)

\* begin_capture: the position along the edge, on the surface.
EntryAlong(s, position) == Along(s, position) - Along(s, s.origin)

\* The pointer enters the strip of s at p; the compositor reports where on the
\* surface, the thread adds the origin.
BeginCapture(s, p) ==
    /\ capture = {}
    /\ InStrip(p, s)
    /\ cursor' = p
    /\ LET local == <<p[1] - Position(s)[1], p[2] - Position(s)[2]>>
           position == <<s.origin[1] + local[1], s.origin[2] + local[2]>>
       IN capture' = {[placed |-> s, entry_along |-> EntryAlong(s, position)]}
    /\ UNCHANGED <<outputs, armed, surfaces>>

\* end_capture, with the client's cursor_position or without: the compositor
\* takes the cursor to the hint on the surface.
EndCapture(hint) ==
    \E c \in capture :
        LET s == c.placed
            along == IF \E p \in hint : Usable(s, p)
                       THEN Along(s, CHOOSE p \in hint : Usable(s, p)) - Along(s, s.origin)
                       ELSE c.entry_along
        IN /\ cursor' = Onto(s, ReleaseHint(s, along))
           /\ capture' = {}
           /\ UNCHANGED <<outputs, armed, surfaces>>

Next ==
    \/ \E barriers \in Requests : Arm(barriers)
    \/ \E s \in surfaces : \E o \in outputs : \E p \in Pixels(o) : BeginCapture(s, p)
    \/ EndCapture({})
    \/ \E p \in Hint : EndCapture({p})

Spec == Init /\ [][Next]_vars
----------------------------------------------------------------------------
(* Properties.                                                              *)

\* A screen position on the inner side of the barrier's line, where it runs
\* along an edge of the output.
Guards(b, o, p) ==
    /\ OnOutput(p, o)
    /\ \/ /\ IsVertical(b)
          /\ Least(b.y1, b.y2) <= p[2] /\ p[2] < Most(b.y1, b.y2)
          /\ \/ p[1] = o.x + o.width - 1 /\ b.x1 = o.x + o.width
             \/ p[1] = o.x /\ b.x1 = o.x
       \/ /\ IsHorizontal(b)
          /\ Least(b.x1, b.x2) <= p[1] /\ p[1] < Most(b.x1, b.x2)
          /\ \/ p[2] = o.y + o.height - 1 /\ b.y1 = o.y + o.height
             \/ p[2] = o.y /\ b.y1 = o.y

\* Every surface takes input exactly where a barrier that was asked for borders
\* its output, wherever anchor, margins, clipping and the strip put it: nothing
\* "swallows clicks well inside the display" (state.rs:193).
StripsGuardBarriers ==
    \A s \in surfaces : \E b \in armed, o \in outputs :
        /\ s.id = b.id /\ s.output = o.name
        /\ \A p \in UNION {Pixels(q) : q \in outputs} : InStrip(p, s) <=> Guards(b, o, p)

\* The origin recorded for a surface is where the compositor shows it, so that a
\* position on the surface is turned back into the right one on the screen
\* (mod.rs:59).
OriginsAreTrue == \A s \in surfaces : s.origin = Position(s)

\* Only what borders no output is dropped (mod.rs:226).
OnlyStrayBarriersDropped ==
    \A b \in armed :
        (\E o \in outputs : \E p \in Pixels(o) : Guards(b, o, p))
          <=> \E s \in surfaces : s.id = b.id

\* A capture ends with the cursor on the output, inward of the strip it came
\* through (mod.rs:45), whatever position the client asked for.
ReleasesClearOfStrip ==
    [][\A c \in capture : capture' = {} =>
         /\ ~InStrip(cursor', c.placed)
         /\ \E o \in outputs : o.name = c.placed.output /\ OnOutput(cursor', o)]_vars

\* And without a position on the surface, the cursor is back where it left along
\* the edge (state.rs:353).
ReturnsWhereItLeft ==
    [][\A c \in capture : EndCapture({}) \/ (\E p \in Hint : ~Usable(c.placed, p) /\ EndCapture({p}))
         => Along(c.placed, cursor') = Along(c.placed, cursor)]_vars

\* niri's order does not show: the same outputs are the same zones, so a zone_set
\* is not given up, and its barriers with it, for nothing (niri.rs:94).
ZonesAreStable ==
    \A r, q \in SetToSeqs(outputs) : Zones(r) = Zones(q)

\* The EIS region is as large as the box around the outputs, wherever they are
\* and however they are returned, and is refused only if it is too large.
RegionIsBoundingBox ==
    \A r \in SetToSeqs(outputs) :
        LET left == CHOOSE n \in {o.x : o \in outputs} : \A o \in outputs : n <= o.x
            top == CHOOSE n \in {o.y : o \in outputs} : \A o \in outputs : n <= o.y
            width == CHOOSE n \in {o.x + o.width - left : o \in outputs} :
                        \A o \in outputs : o.x + o.width - left <= n
            height == CHOOSE n \in {o.y + o.height - top : o \in outputs} :
                        \A o \in outputs : o.y + o.height - top <= n
        IN RegionOf(Zones(r)) = IF width <= MaxU32 /\ height <= MaxU32
                                  THEN [width |-> width, height |-> height] ELSE NoRegion
=============================================================================
