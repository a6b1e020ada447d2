-------------------------- MODULE PlacementProofs --------------------------
(***************************************************************************)
(* Proofs about the placement of barriers, for every layout: a surface is    *)
(* where its barrier borders the output, and a capture ends inward of it.    *)
(***************************************************************************)
EXTENDS Placement, FiniteSetTheorems, WellFoundedInduction, TLAPS

----------------------------------------------------------------------------
(* The inductive invariant.                                                 *)

\* s lies along an edge of o, within its ends.
OnEdge(s, o) ==
    /\ s.output = o.name
    /\ \/ /\ s.edge \in {"Left", "Right"}
          /\ s.size[1] = BARRIER_DEPTH /\ s.size[2] >= 1
          /\ s.origin[1] = IF s.edge = "Left" THEN o.x ELSE o.x + o.width - BARRIER_DEPTH
          /\ o.y <= s.origin[2] /\ s.origin[2] + s.size[2] <= o.y + o.height
          /\ s.margin[1] = s.origin[2] - o.y /\ s.margin[2] = 0
       \/ /\ s.edge \in {"Top", "Bottom"}
          /\ s.size[2] = BARRIER_DEPTH /\ s.size[1] >= 1
          /\ s.origin[2] = IF s.edge = "Top" THEN o.y ELSE o.y + o.height - BARRIER_DEPTH
          /\ o.x <= s.origin[1] /\ s.origin[1] + s.size[1] <= o.x + o.width
          /\ s.margin[2] = s.origin[1] - o.x /\ s.margin[1] = 0

\* Every surface is what place made of a barrier that was asked for.
SurfacesInv ==
    \A s \in surfaces : \E b \in armed, o \in outputs : Fits(b, o) /\ s = PlaceOn(b, o)

\* A capture remembers where along its edge the cursor is locked.
CaptureInv ==
    \A c \in capture :
        /\ c.entry_along = Along(c.placed, cursor) - Along(c.placed, c.placed.origin)
        /\ InStrip(cursor, c.placed)

PlacementInv == PlacementTypeOK /\ SurfacesInv /\ CaptureInv
----------------------------------------------------------------------------
(* The operators.                                                           *)

\* Where place puts a surface: along an edge of the output, within its ends.
LEMMA PlacedOnEdge ==
    ASSUME NEW b \in Barrier, NEW o \in Output, Fits(b, o)
    PROVE  /\ PlaceOn(b, o) \in PlacedBarrier
           /\ OnEdge(PlaceOn(b, o), o)
  <1>1. RELEASE_INSET \in Nat /\ BARRIER_DEPTH \in Nat
    BY PlacementAssumption
  <1>2. Clipped(b, o) \in Int \X Int /\ Clipped(b, o)[1] < Clipped(b, o)[2]
    BY SMTT(30) DEF Clipped, Fits, Barrier, Output, Least, Most
  <1>3. CASE IsVertical(b)
    <2>1. o.y <= Clipped(b, o)[1] /\ Clipped(b, o)[2] <= o.y + o.height
      BY <1>3 DEF Clipped, Barrier, Output, Least, Most
    <2>2. QED
      BY <1>1, <1>2, <1>3, <2>1, SMTT(30)
        DEF PlaceOn, PlacedBarrier, OnEdge, Edge, Fits, Barrier, Output
  <1>4. CASE ~IsVertical(b)
    <2>1. o.x <= Clipped(b, o)[1] /\ Clipped(b, o)[2] <= o.x + o.width
      BY <1>4 DEF Clipped, Barrier, Output, Least, Most
    <2>2. QED
      BY <1>1, <1>2, <1>4, <2>1, SMTT(30)
        DEF PlaceOn, PlacedBarrier, OnEdge, Edge, Fits, Barrier, Output
  <1>5. QED
    BY <1>3, <1>4

\* The names of the outputs tell them apart.
LEMMA OneOutputOfAName ==
    ASSUME outputs \in Layouts, NEW o \in outputs
    PROVE  /\ o \in Output /\ o.width > RELEASE_INSET /\ o.height > RELEASE_INSET
           /\ (CHOOSE p \in outputs : p.name = o.name) = o
  BY PlacementAssumption

\* Anchor and margins put such a surface where its origin says.
LEMMA PositionIsOrigin ==
    ASSUME outputs \in Layouts, NEW s \in PlacedBarrier, NEW o \in outputs, OnEdge(s, o)
    PROVE  Position(s) = s.origin
  <1>1. (CHOOSE p \in outputs : p.name = s.output) = o /\ o \in Output
    BY OneOutputOfAName DEF OnEdge
  <1>2. s.origin = <<s.origin[1], s.origin[2]>>
    BY DEF PlacedBarrier
  <1>3. BARRIER_DEPTH \in Nat
    BY PlacementAssumption
  <1>4. Position(s) =
          CASE s.edge = "Right" -> <<o.x + o.width - s.size[1], o.y + s.margin[1]>>
            [] s.edge = "Bottom" -> <<o.x + s.margin[2], o.y + o.height - s.size[2]>>
            [] OTHER -> <<o.x + s.margin[2], o.y + s.margin[1]>>
    BY <1>1 DEF Position
  <1>5. /\ s.edge \in Edge /\ s.size \in Nat \X Nat
        /\ s.margin \in Int \X Int /\ s.origin \in Int \X Int
    BY DEF PlacedBarrier
  <1>6. CASE s.edge = "Right"
    <2>1. s.origin[1] = o.x + o.width - s.size[1] /\ s.origin[2] = o.y + s.margin[1]
      BY <1>1, <1>3, <1>5, <1>6 DEF OnEdge, Output
    <2>2. QED
      BY <1>2, <1>4, <1>6, <2>1
  <1>7. CASE s.edge = "Bottom"
    <2>1. s.origin[1] = o.x + s.margin[2] /\ s.origin[2] = o.y + o.height - s.size[2]
      BY <1>1, <1>3, <1>5, <1>7 DEF OnEdge, Output
    <2>2. QED
      BY <1>2, <1>4, <1>7, <2>1
  <1>8. CASE s.edge \in {"Left", "Top"}
    <2>1. s.origin[1] = o.x + s.margin[2] /\ s.origin[2] = o.y + s.margin[1]
      BY <1>1, <1>3, <1>5, <1>8 DEF OnEdge, Output
    <2>2. QED
      BY <1>2, <1>4, <1>8, <2>1
  <1>9. QED
    BY <1>5, <1>6, <1>7, <1>8 DEF Edge

\* place takes its surfaces from barriers that fit the outputs it is given.
LEMMA PlacedFromFitting ==
    ASSUME NEW B, NEW layout \in SetToSeqs(outputs), NEW s \in Place(B, layout)
    PROVE  \E b \in B, o \in outputs : Fits(b, o) /\ s = PlaceOn(b, o)
  <1>1. PICK b \in B : s \in PlaceOne(b, layout)
    BY DEF Place
  <1>2. PICK i \in DOMAIN layout : Fits(b, layout[i]) /\ s = PlaceOn(b, layout[i])
    BY <1>1 DEF PlaceOne
  <1>3. layout[i] \in outputs
    BY <1>2 DEF SetToSeqs
  <1>4. QED
    BY <1>2, <1>3

\* Every surface has its output.
LEMMA SurfaceOnEdge ==
    ASSUME PlacementInv, NEW s \in surfaces
    PROVE  \E o \in outputs : o \in Output /\ OnEdge(s, o)
  <1>1. PICK b \in armed, o \in outputs : Fits(b, o) /\ s = PlaceOn(b, o)
    BY DEF PlacementInv, SurfacesInv
  <1>2. b \in Barrier /\ o \in Output
    BY OneOutputOfAName DEF PlacementInv, PlacementTypeOK
  <1>3. QED
    BY <1>1, <1>2, PlacedOnEdge

\* Such a surface, its place and its strip, in numbers.
LEMMA StripInNumbers ==
    ASSUME outputs \in Layouts, NEW s \in PlacedBarrier, NEW o \in outputs, OnEdge(s, o),
           NEW p \in Int \X Int
    PROVE  InStrip(p, s) <=>
             /\ s.edge = "Left" => p[1] = o.x
             /\ s.edge = "Right" => p[1] = o.x + o.width - 1
             /\ s.edge = "Top" => p[2] = o.y
             /\ s.edge = "Bottom" => p[2] = o.y + o.height - 1
             /\ s.edge \in {"Left", "Right"} =>
                  s.origin[2] <= p[2] /\ p[2] < s.origin[2] + s.size[2]
             /\ s.edge \in {"Top", "Bottom"} =>
                  s.origin[1] <= p[1] /\ p[1] < s.origin[1] + s.size[1]
  <1>1. Position(s) = s.origin
    BY PositionIsOrigin
  <1>2. BARRIER_DEPTH \in Nat /\ o \in Output
    BY PlacementAssumption, OneOutputOfAName
  <1>3. /\ s.edge \in Edge /\ s.size \in Nat \X Nat
        /\ s.origin \in Int \X Int
    BY DEF PlacedBarrier
  <1>4. CASE s.edge = "Left"
    BY <1>1, <1>2, <1>3, <1>4 DEF InStrip, InputStrip, InBox, OnEdge, Output
  <1>5. CASE s.edge = "Right"
    BY <1>1, <1>2, <1>3, <1>5 DEF InStrip, InputStrip, InBox, OnEdge, Output
  <1>6. CASE s.edge = "Top"
    BY <1>1, <1>2, <1>3, <1>6 DEF InStrip, InputStrip, InBox, OnEdge, Output
  <1>7. CASE s.edge = "Bottom"
    BY <1>1, <1>2, <1>3, <1>7 DEF InStrip, InputStrip, InBox, OnEdge, Output
  <1>8. QED
    BY <1>3, <1>4, <1>5, <1>6, <1>7 DEF Edge

\* The strip is where the barrier borders the output.
LEMMA StripIsGuard ==
    ASSUME outputs \in Layouts, NEW b \in Barrier, NEW o \in outputs, Fits(b, o),
           NEW p \in Int \X Int
    PROVE  InStrip(p, PlaceOn(b, o)) <=> Guards(b, o, p)
  <1> DEFINE s == PlaceOn(b, o)
  <1>1. o \in Output /\ o.width > 0 /\ o.height > 0
    <2>1. RELEASE_INSET \in Nat
      BY PlacementAssumption
    <2>2. QED
      BY <2>1, OneOutputOfAName DEF Output
  <1>2. s \in PlacedBarrier /\ OnEdge(s, o)
    BY <1>1, PlacedOnEdge
  <1>3. Clipped(b, o) \in Int \X Int /\ Clipped(b, o)[1] < Clipped(b, o)[2]
    BY <1>1, SMTT(30) DEF Clipped, Fits, Barrier, Output, Least, Most
  <1>4. CASE IsVertical(b)
    <2>1. b.y1 # b.y2
      BY <1>1, <1>3, <1>4 DEF Clipped, Barrier, Output, Least, Most
    <2>2. /\ s.edge = IF b.x1 = o.x + o.width THEN "Right" ELSE "Left"
          /\ s.origin[2] = Clipped(b, o)[1]
          /\ s.size[2] = Clipped(b, o)[2] - Clipped(b, o)[1]
      BY <1>4 DEF PlaceOn
    <2>3. s.edge = "Left" => b.x1 = o.x
      BY <1>4, <2>2 DEF Fits
    <2>4. InStrip(p, s) <=>
            /\ p[1] = IF b.x1 = o.x + o.width THEN o.x + o.width - 1 ELSE o.x
            /\ Clipped(b, o)[1] <= p[2] /\ p[2] < Clipped(b, o)[2]
      BY <1>2, <1>3, <2>2, StripInNumbers
    <2>5. Guards(b, o, p) <=>
            /\ p[1] = IF b.x1 = o.x + o.width THEN o.x + o.width - 1 ELSE o.x
            /\ Clipped(b, o)[1] <= p[2] /\ p[2] < Clipped(b, o)[2]
      BY <1>1, <1>4, <2>1, <2>2, <2>3, SMTT(30)
        DEF Guards, IsHorizontal, OnOutput, InBox, Clipped, Barrier, Output, Least, Most
    <2>6. QED
      BY <2>4, <2>5
  <1>5. CASE ~IsVertical(b)
    <2>1. b.y1 = b.y2 /\ b.x1 # b.x2
      BY <1>5 DEF Fits, IsHorizontal, IsVertical
    <2>2. /\ s.edge = IF b.y1 = o.y + o.height THEN "Bottom" ELSE "Top"
          /\ s.origin[1] = Clipped(b, o)[1]
          /\ s.size[1] = Clipped(b, o)[2] - Clipped(b, o)[1]
      BY <1>5 DEF PlaceOn
    <2>3. s.edge = "Top" => b.y1 = o.y
      BY <1>5, <2>2 DEF Fits
    <2>4. InStrip(p, s) <=>
            /\ p[2] = IF b.y1 = o.y + o.height THEN o.y + o.height - 1 ELSE o.y
            /\ Clipped(b, o)[1] <= p[1] /\ p[1] < Clipped(b, o)[2]
      BY <1>2, <1>3, <2>2, StripInNumbers
    <2>5. Guards(b, o, p) <=>
            /\ p[2] = IF b.y1 = o.y + o.height THEN o.y + o.height - 1 ELSE o.y
            /\ Clipped(b, o)[1] <= p[1] /\ p[1] < Clipped(b, o)[2]
      BY <1>1, <1>5, <2>1, <2>2, <2>3, SMTT(30)
        DEF Guards, IsVertical, IsHorizontal, OnOutput, InBox, Clipped, Barrier, Output, Least, Most
    <2>6. QED
      BY <2>4, <2>5
  <1>6. QED
    BY <1>4, <1>5

\* Where a capture leaves the cursor: on the output, inward of the strip, and at
\* the asked position along the edge as far as the surface goes.
LEMMA ReleaseInNumbers ==
    ASSUME outputs \in Layouts, NEW s \in PlacedBarrier, NEW o \in outputs, OnEdge(s, o),
           NEW along \in Int
    PROVE  LET p == Onto(s, ReleaseHint(s, along))
           IN /\ p \in Int \X Int
              /\ ~InStrip(p, s)
              /\ OnOutput(p, o)
              /\ s.edge \in {"Left", "Right"} /\ along \in 0..(s.size[2] - 1)
                   => p[2] = s.origin[2] + along
              /\ s.edge \in {"Top", "Bottom"} /\ along \in 0..(s.size[1] - 1)
                   => p[1] = s.origin[1] + along
  <1> DEFINE p == Onto(s, ReleaseHint(s, along))
  <1>1. /\ RELEASE_INSET \in Nat /\ RELEASE_INSET > 0
        /\ BARRIER_DEPTH \in Nat /\ BARRIER_DEPTH > RELEASE_INSET + 1
    BY PlacementAssumption
  <1>2. /\ o \in Output /\ o.width > RELEASE_INSET /\ o.height > RELEASE_INSET
        /\ Position(s) = s.origin
    BY OneOutputOfAName, PositionIsOrigin
  <1>3. /\ s.edge \in Edge /\ s.size \in Nat \X Nat
        /\ s.origin \in Int \X Int
    BY DEF PlacedBarrier
  <1>4. s.edge \in {"Left", "Right"} =>
          /\ p \in Int \X Int
          /\ s.origin[2] <= p[2] /\ p[2] < s.origin[2] + s.size[2]
          /\ along \in 0..(s.size[2] - 1) => p[2] = s.origin[2] + along
          /\ p[1] = IF s.edge = "Left" THEN o.x + RELEASE_INSET
                                       ELSE o.x + o.width - 1 - RELEASE_INSET
    BY <1>1, <1>2, <1>3, SMTT(30)
      DEF Onto, ReleaseHint, Clamp, Least, Most, OnEdge, Output
  <1>5. s.edge \in {"Top", "Bottom"} =>
          /\ p \in Int \X Int
          /\ s.origin[1] <= p[1] /\ p[1] < s.origin[1] + s.size[1]
          /\ along \in 0..(s.size[1] - 1) => p[1] = s.origin[1] + along
          /\ p[2] = IF s.edge = "Top" THEN o.y + RELEASE_INSET
                                      ELSE o.y + o.height - 1 - RELEASE_INSET
    BY <1>1, <1>2, <1>3, SMTT(30)
      DEF Onto, ReleaseHint, Clamp, Least, Most, OnEdge, Output
  <1>6. p \in Int \X Int
    BY <1>3, <1>4, <1>5 DEF Edge
  <1>7. ~InStrip(p, s)
    BY <1>1, <1>2, <1>3, <1>4, <1>5, <1>6, StripInNumbers DEF Edge, Output
  <1>8. OnOutput(p, o)
    BY <1>1, <1>2, <1>3, <1>4, <1>5, <1>6 DEF Edge, Output, OnEdge, OnOutput, InBox
  <1>9. QED
    BY <1>3, <1>4, <1>5, <1>6, <1>7, <1>8
----------------------------------------------------------------------------
(* The invariant is one.                                                    *)

LEMMA InitEstablishes == Init => PlacementInv
  <1> SUFFICES ASSUME Init PROVE PlacementInv
    OBVIOUS
  <1>1. cursor \in Int \X Int
    BY OneOutputOfAName DEF Init, Output
  <1>2. QED
    BY <1>1 DEF Init, PlacementInv, PlacementTypeOK, SurfacesInv, CaptureInv

\* What ends a capture may return to is a position along the edge.
LEMMA EndCaptureAlong ==
    ASSUME PlacementInv, NEW hint \in SUBSET Hint, EndCapture(hint)
    PROVE  \E c \in capture, along \in Int :
             /\ cursor' = Onto(c.placed, ReleaseHint(c.placed, along))
             /\ (\A p \in hint : ~Usable(c.placed, p)) => along = c.entry_along
             /\ capture' = {} /\ UNCHANGED <<outputs, armed, surfaces>>
  <1>1. PICK c \in capture :
          LET s == c.placed
              along == IF \E p \in hint : Usable(s, p)
                         THEN Along(s, CHOOSE p \in hint : Usable(s, p)) - Along(s, s.origin)
                         ELSE c.entry_along
          IN /\ cursor' = Onto(s, ReleaseHint(s, along))
             /\ capture' = {}
             /\ UNCHANGED <<outputs, armed, surfaces>>
    BY DEF EndCapture
  <1> DEFINE s == c.placed
  <1>2. s \in PlacedBarrier /\ c.entry_along \in Int
    BY DEF PlacementInv, PlacementTypeOK
  <1>3. s.origin \in Int \X Int
    BY <1>2 DEF PlacedBarrier
  <1>4. CASE \E p \in hint : Usable(s, p)
    <2> DEFINE q == CHOOSE p \in hint : Usable(s, p)
               along == Along(s, q) - Along(s, s.origin)
    <2>1. q \in Int \X Int
      <3>1. Hint \subseteq Int \X Int
        BY PlacementAssumption
      <3>2. q \in hint
        BY <1>4
      <3>3. QED
        BY <3>1, <3>2
    <2>2. along \in Int
      BY <1>3, <2>1 DEF Along
    <2>3. cursor' = Onto(s, ReleaseHint(s, along))
      BY <1>1, <1>4
    <2>4. QED
      BY <1>1, <1>4, <2>2, <2>3
  <1>5. CASE ~\E p \in hint : Usable(s, p)
    BY <1>1, <1>2, <1>5
  <1>6. QED
    BY <1>4, <1>5

LEMMA ArmPreserves ==
    ASSUME PlacementInv, NEW B \in Requests, Arm(B)
    PROVE  PlacementInv'
  <1>1. PICK layout \in SetToSeqs(outputs) : surfaces' = Place(B, layout)
    BY DEF Arm
  <1>2. /\ outputs' = outputs /\ capture' = {} /\ cursor' = cursor /\ armed' = B
        /\ B \subseteq Barrier
    BY PlacementAssumption DEF Arm
  <1>3. SurfacesInv'
    BY <1>1, <1>2, PlacedFromFitting DEF SurfacesInv
  <1>4. surfaces' \subseteq PlacedBarrier
    <2>1. \A o \in outputs : o \in Output
      BY OneOutputOfAName DEF PlacementInv, PlacementTypeOK
    <2>2. QED
      BY <1>2, <1>3, <2>1, PlacedOnEdge DEF SurfacesInv
  <1>5. QED
    BY <1>2, <1>3, <1>4 DEF PlacementInv, PlacementTypeOK, CaptureInv

LEMMA BeginCapturePreserves ==
    ASSUME PlacementInv, NEW s \in surfaces, NEW o \in outputs, NEW p \in Pixels(o),
           BeginCapture(s, p)
    PROVE  PlacementInv'
  <1>1. s \in PlacedBarrier /\ o \in Output
    BY OneOutputOfAName DEF PlacementInv, PlacementTypeOK
  <1>2. p \in Int \X Int
    BY <1>1 DEF Pixels, Output
  <1>3. Position(s) = s.origin
    BY SurfaceOnEdge, PositionIsOrigin, <1>1 DEF PlacementInv, PlacementTypeOK
  <1>4. s.origin \in Int \X Int
    BY <1>1 DEF PlacedBarrier
  <1>5. /\ cursor' = p /\ UNCHANGED <<outputs, armed, surfaces>> /\ InStrip(p, s)
        /\ capture' = {[placed |-> s, entry_along |-> Along(s, p) - Along(s, s.origin)]}
    <2>1. s.origin[1] + (p[1] - s.origin[1]) = p[1] /\ s.origin[2] + (p[2] - s.origin[2]) = p[2]
      BY <1>2, <1>4
    <2>2. QED
      BY <1>3, <2>1 DEF BeginCapture, EntryAlong, Along
  <1>6. Along(s, p) - Along(s, s.origin) \in Int
    BY <1>2, <1>4 DEF Along
  <1>7. InStrip(cursor, s)'
    BY <1>5 DEF InStrip, InBox, Position
  <1>8. QED
    BY <1>2, <1>5, <1>6, <1>7 DEF PlacementInv, PlacementTypeOK, SurfacesInv, CaptureInv, Along

LEMMA EndCapturePreserves ==
    ASSUME PlacementInv, NEW hint \in SUBSET Hint, EndCapture(hint)
    PROVE  PlacementInv'
  <1>1. PICK c \in capture, along \in Int :
          /\ cursor' = Onto(c.placed, ReleaseHint(c.placed, along))
          /\ capture' = {} /\ UNCHANGED <<outputs, armed, surfaces>>
    BY EndCaptureAlong
  <1>2. c.placed \in surfaces /\ c.placed \in PlacedBarrier /\ outputs \in Layouts
    BY DEF PlacementInv, PlacementTypeOK
  <1>3. cursor' \in Int \X Int
    BY <1>1, <1>2, SurfaceOnEdge, ReleaseInNumbers
  <1>4. QED
    BY <1>1, <1>3 DEF PlacementInv, PlacementTypeOK, SurfacesInv, CaptureInv

LEMMA StepPreserves == PlacementInv /\ [Next]_vars => PlacementInv'
  <1> SUFFICES ASSUME PlacementInv, [Next]_vars PROVE PlacementInv'
    OBVIOUS
  <1>1. CASE UNCHANGED vars
    BY <1>1 DEF vars, PlacementInv, PlacementTypeOK, SurfacesInv, CaptureInv,
                InStrip, Position
  <1>2. ASSUME NEW B \in Requests, Arm(B) PROVE PlacementInv'
    BY <1>2, ArmPreserves
  <1>3. ASSUME NEW s \in surfaces, NEW o \in outputs, NEW p \in Pixels(o), BeginCapture(s, p)
        PROVE  PlacementInv'
    BY <1>3, BeginCapturePreserves
  <1>4. CASE EndCapture({})
    BY <1>4, EndCapturePreserves
  <1>5. ASSUME NEW p \in Hint, EndCapture({p}) PROVE PlacementInv'
    BY <1>5, EndCapturePreserves
  <1>6. QED
    BY <1>1, <1>2, <1>3, <1>4, <1>5 DEF Next
----------------------------------------------------------------------------
(* The results.                                                             *)

\* Every surface is where place puts a barrier that was asked for, and every
\* capture holds the cursor in the strip of its surface and remembers where.
THEOREM InvHolds == Spec => []PlacementInv
  BY InitEstablishes, StepPreserves, PTL DEF Spec

\* The state always has its types.
THEOREM TypesHold == Spec => []PlacementTypeOK
  <1>1. PlacementInv => PlacementTypeOK
    BY DEF PlacementInv
  <1>2. QED
    BY <1>1, InvHolds, PTL

\* In any layout the recorded origin of a surface is its place on the screen, so
\* create_surface's anchor and margins agree with place_one (mod.rs:59).
THEOREM OriginsHold == Spec => []OriginsAreTrue
  <1>1. PlacementInv => OriginsAreTrue
    BY SurfaceOnEdge, PositionIsOrigin DEF PlacementInv, PlacementTypeOK, OriginsAreTrue
  <1>2. QED
    BY <1>1, InvHolds, PTL

\* In any layout the surfaces take input exactly where the barriers border the
\* outputs.
THEOREM StripsHold == Spec => []StripsGuardBarriers
  <1>1. PlacementInv => StripsGuardBarriers
    <2> SUFFICES ASSUME PlacementInv, NEW s \in surfaces
                 PROVE  \E b \in armed, o \in outputs :
                          /\ s.id = b.id /\ s.output = o.name
                          /\ \A p \in UNION {Pixels(q) : q \in outputs} :
                                InStrip(p, s) <=> Guards(b, o, p)
      BY DEF StripsGuardBarriers
    <2>1. PICK b \in armed, o \in outputs : Fits(b, o) /\ s = PlaceOn(b, o)
      BY DEF PlacementInv, SurfacesInv
    <2>2. outputs \in Layouts /\ b \in Barrier /\ \A q \in outputs : q \in Output
      BY OneOutputOfAName DEF PlacementInv, PlacementTypeOK
    <2>3. \A p \in UNION {Pixels(q) : q \in outputs} : p \in Int \X Int
      BY <2>2 DEF Pixels, Output
    <2>4. s.id = b.id /\ s.output = o.name
      BY <2>1 DEF PlaceOn
    <2>5. QED
      BY <2>1, <2>2, <2>3, <2>4, StripIsGuard
  <1>2. QED
    BY <1>1, InvHolds, PTL

\* The two that end a capture are the only steps that do.
LEMMA OnlyEndCaptureEnds ==
    ASSUME PlacementInv, [Next]_vars, NEW c \in capture, capture' = {}
    PROVE  \E hint \in SUBSET Hint : EndCapture(hint)
  <1>1. capture # {} /\ capture' # capture
    OBVIOUS
  <1>2. EndCapture({}) \/ \E p \in Hint : EndCapture({p})
    BY <1>1 DEF Next, vars, Arm, BeginCapture
  <1>3. QED
    BY <1>2

\* In any layout, whatever the client asks for, a capture ends on its output and
\* clear of the strip it began in.
THEOREM ReleasesHold == Spec => ReleasesClearOfStrip
  <1> DEFINE A == \A c \in capture : capture' = {} =>
                    /\ ~InStrip(cursor', c.placed)
                    /\ \E o \in outputs : o.name = c.placed.output /\ OnOutput(cursor', o)
  <1>1. PlacementInv /\ [Next]_vars => [A]_vars
    <2> SUFFICES ASSUME PlacementInv, [Next]_vars, NEW c \in capture, capture' = {}
                 PROVE  /\ ~InStrip(cursor', c.placed)
                        /\ \E o \in outputs : o.name = c.placed.output /\ OnOutput(cursor', o)
      OBVIOUS
    <2>1. PICK hint \in SUBSET Hint : EndCapture(hint)
      BY OnlyEndCaptureEnds
    <2>2. \A d \in capture : d = c
      BY DEF PlacementInv, PlacementTypeOK
    <2>3. PICK along \in Int : cursor' = Onto(c.placed, ReleaseHint(c.placed, along))
      BY <2>1, <2>2, EndCaptureAlong
    <2>4. c.placed \in surfaces /\ c.placed \in PlacedBarrier /\ outputs \in Layouts
      BY DEF PlacementInv, PlacementTypeOK
    <2>5. PICK o \in outputs : OnEdge(c.placed, o)
      BY <2>4, SurfaceOnEdge
    <2>6. o.name = c.placed.output
      BY <2>5 DEF OnEdge
    <2>7. QED
      BY <2>3, <2>4, <2>5, <2>6, ReleaseInNumbers
  <1>2. QED
    BY <1>1, InvHolds, PTL DEF Spec, ReleasesClearOfStrip

\* In any layout a capture without a usable position ends where it began along
\* the edge: the clamp never moves it.
THEOREM ReturnsHold == Spec => ReturnsWhereItLeft
  <1> DEFINE A == \A c \in capture :
                    EndCapture({}) \/ (\E p \in Hint : ~Usable(c.placed, p) /\ EndCapture({p}))
                      => Along(c.placed, cursor') = Along(c.placed, cursor)
  <1>1. PlacementInv /\ [Next]_vars => [A]_vars
    <2> SUFFICES ASSUME PlacementInv, NEW c \in capture, NEW hint \in SUBSET Hint,
                        \A p \in hint : ~Usable(c.placed, p), EndCapture(hint)
                 PROVE  Along(c.placed, cursor') = Along(c.placed, cursor)
      OBVIOUS
    <2> DEFINE s == c.placed
    <2>1. \A d \in capture : d = c
      BY DEF PlacementInv, PlacementTypeOK
    <2>2. cursor' = Onto(s, ReleaseHint(s, c.entry_along))
      BY <2>1, EndCaptureAlong
    <2>3. /\ s \in surfaces /\ s \in PlacedBarrier /\ outputs \in Layouts
          /\ c.entry_along \in Int /\ cursor \in Int \X Int
      BY DEF PlacementInv, PlacementTypeOK
    <2>4. PICK o \in outputs : OnEdge(s, o)
      BY <2>3, SurfaceOnEdge
    <2>5. c.entry_along = Along(s, cursor) - Along(s, s.origin) /\ InStrip(cursor, s)
      BY DEF PlacementInv, CaptureInv
    <2>6. s.origin \in Int \X Int /\ s.size \in Nat \X Nat /\ s.edge \in Edge
      BY <2>3 DEF PlacedBarrier
    <2>7. CASE s.edge \in {"Left", "Right"}
      <3>1. c.entry_along \in 0..(s.size[2] - 1)
        BY <2>3, <2>4, <2>5, <2>6, <2>7, StripInNumbers DEF Along
      <3>2. cursor'[2] = s.origin[2] + c.entry_along
        BY <2>2, <2>3, <2>4, <2>7, <3>1, ReleaseInNumbers
      <3>3. QED
        BY <2>3, <2>5, <2>6, <2>7, <3>2 DEF Along
    <2>8. CASE s.edge \in {"Top", "Bottom"}
      <3>1. c.entry_along \in 0..(s.size[1] - 1)
        BY <2>3, <2>4, <2>5, <2>6, <2>8, StripInNumbers DEF Along
      <3>2. cursor'[1] = s.origin[1] + c.entry_along
        BY <2>2, <2>3, <2>4, <2>8, <3>1, ReleaseInNumbers
      <3>3. QED
        BY <2>3, <2>5, <2>6, <2>8, <3>2 DEF Along
    <2>9. QED
      BY <2>6, <2>7, <2>8 DEF Edge
  <1>2. QED
    BY <1>1, InvHolds, PTL DEF Spec, ReturnsWhereItLeft

\* The constant position (1, 0), which state.rs:351 means to leave aside, is on
\* the surface of a barrier that starts at the origin: on the left edge of such
\* an output it takes the cursor to the corner, wherever it left.
THEOREM ConstantHintPins ==
    ASSUME PlacementInv, NEW c \in capture, <<1, 0>> \in Hint,
           c.placed.edge = "Left", c.placed.origin = <<0, 0>>,
           EndCapture({<<1, 0>>})
    PROVE  cursor' = <<RELEASE_INSET, 0>>
  <1> DEFINE s == c.placed
             hint == {<<1, 0>>}
  <1>1. /\ s \in surfaces /\ s \in PlacedBarrier /\ outputs \in Layouts
        /\ \A d \in capture : d = c
    BY DEF PlacementInv, PlacementTypeOK
  <1>2. PICK o \in outputs : OnEdge(s, o)
    BY <1>1, SurfaceOnEdge
  <1>3. /\ RELEASE_INSET \in Nat
        /\ BARRIER_DEPTH \in Nat /\ BARRIER_DEPTH > RELEASE_INSET + 1
    BY PlacementAssumption
  <1>4. s.size \in Nat \X Nat /\ s.size[1] = BARRIER_DEPTH /\ s.size[2] >= 1
    BY <1>1, <1>2 DEF OnEdge, PlacedBarrier
  <1>5. Usable(s, <<1, 0>>)
    BY <1>3, <1>4 DEF Usable
  <1>6. (CHOOSE p \in hint : Usable(s, p)) = <<1, 0>>
    BY <1>5
  <1>7. Along(s, <<1, 0>>) - Along(s, s.origin) = 0
    BY DEF Along
  <1>8. cursor' = Onto(s, ReleaseHint(s, 0))
    BY <1>1, <1>5, <1>6, <1>7 DEF EndCapture
  <1>9. Position(s) = <<0, 0>>
    BY <1>1, <1>2, PositionIsOrigin
  <1>10. ReleaseHint(s, 0) = <<RELEASE_INSET, 0>>
    BY <1>4 DEF ReleaseHint, Clamp, Least, Most
  <1>11. QED
    BY <1>3, <1>8, <1>9, <1>10 DEF Onto
----------------------------------------------------------------------------
(* Nothing else is dropped.                                                 *)

\* A set of positions has a first one.
LEMMA FirstPosition ==
    ASSUME NEW T, T \subseteq Nat, T # {}
    PROVE  \E i \in T : \A j \in T : i <= j
  <1>1. PICK i \in T : \A j \in T : <<j, i>> \notin OpToRel(<, Nat)
    BY NatLessThanWellFounded, WFMin
  <1>2. \A j \in Nat : <<j, i>> \in OpToRel(<, Nat) <=> j < i
    BY DEF OpToRel
  <1>3. \A j \in T : ~(j < i)
    BY <1>1, <1>2
  <1>4. \A j \in T : i <= j
    BY <1>3
  <1>5. QED
    BY <1>4

\* Whatever order the outputs are in, all of them are there, once each.
LEMMA EveryOrderHasAll ==
    ASSUME NEW S, IsFiniteSet(S), NEW s \in SetToSeqs(S)
    PROVE  /\ DOMAIN s = 1..Cardinality(S) /\ Cardinality(S) \in Nat
           /\ \A i \in DOMAIN s : s[i] \in S
           /\ \A i, j \in DOMAIN s : s[i] = s[j] => i = j
           /\ \A x \in S : \E i \in DOMAIN s : s[i] = x
  <1> DEFINE n == Cardinality(S)
  <1>1. n \in Nat
    BY FS_CardinalityType
  <1>2. s \in [1..n -> S] /\ \A i, j \in 1..n : i # j => s[i] # s[j]
    BY DEF SetToSeqs
  <1>3. IsFiniteSet(1..n) /\ Cardinality(1..n) = n
    BY <1>1, FS_Interval
  <1>4. s \in Injection(1..n, S)
    BY <1>2 DEF Injection, IsInjective
  <1>5. s \in Surjection(1..n, S)
    BY <1>3, <1>4, FS_Injection
  <1>6. \A x \in S : \E i \in 1..n : s[i] = x
    BY <1>5 DEF Surjection
  <1>7. QED
    BY <1>1, <1>2, <1>6

\* A barrier fits an output just when it guards a pixel of it.
LEMMA FitsIfGuards ==
    ASSUME NEW b \in Barrier, NEW o \in Output, o.width > 0, o.height > 0
    PROVE  Fits(b, o) <=> \E p \in Pixels(o) : Guards(b, o, p)
  <1>1. ASSUME Fits(b, o) PROVE \E p \in Pixels(o) : Guards(b, o, p)
    <2>1. CASE IsVertical(b)
      <3> DEFINE p == <<IF b.x1 = o.x THEN o.x ELSE o.x + o.width - 1, Clipped(b, o)[1]>>
      <3>1. p \in Pixels(o)
        BY <1>1, <2>1, SMTT(30) DEF Fits, Clipped, Pixels, Barrier, Output, Least, Most
      <3>2. Guards(b, o, p)
        BY <1>1, <2>1, SMTT(30)
          DEF Fits, Clipped, Guards, OnOutput, InBox, Barrier, Output, Least, Most
      <3>3. QED
        BY <3>1, <3>2
    <2>2. CASE ~IsVertical(b)
      <3> DEFINE p == <<Clipped(b, o)[1], IF b.y1 = o.y THEN o.y ELSE o.y + o.height - 1>>
      <3>1. p \in Pixels(o)
        BY <1>1, <2>2, SMTT(30) DEF Fits, Clipped, Pixels, Barrier, Output, Least, Most
      <3>2. Guards(b, o, p)
        BY <1>1, <2>2, SMTT(30)
          DEF Fits, Clipped, Guards, OnOutput, InBox, Barrier, Output, Least, Most
      <3>3. QED
        BY <3>1, <3>2
    <2>3. QED
      BY <2>1, <2>2
  <1>2. ASSUME NEW p \in Pixels(o), Guards(b, o, p) PROVE Fits(b, o)
    <2>1. p[1] \in Int /\ p[2] \in Int
      BY DEF Pixels, Output
    <2>2. CASE IsVertical(b)
      <3>1. /\ Least(b.y1, b.y2) <= p[2] /\ p[2] < Most(b.y1, b.y2)
            /\ b.x1 \in {o.x, o.x + o.width}
        BY <1>2, <2>1, <2>2 DEF Guards, IsVertical, IsHorizontal, Barrier, Least, Most
      <3>2. o.y <= p[2] /\ p[2] < o.y + o.height
        BY <1>2 DEF Guards, OnOutput, InBox
      <3>3. QED
        BY <2>1, <2>2, <3>1, <3>2, SMTT(30) DEF Fits, Clipped, Barrier, Output, Least, Most
    <2>3. CASE ~IsVertical(b)
      <3>1. /\ Least(b.x1, b.x2) <= p[1] /\ p[1] < Most(b.x1, b.x2)
            /\ IsHorizontal(b) /\ b.y1 \in {o.y, o.y + o.height}
        BY <1>2, <2>3 DEF Guards
      <3>2. o.x <= p[1] /\ p[1] < o.x + o.width
        BY <1>2 DEF Guards, OnOutput, InBox
      <3>3. QED
        BY <2>1, <2>3, <3>1, <3>2, SMTT(30) DEF Fits, Clipped, Barrier, Output, Least, Most
    <2>4. QED
      BY <2>2, <2>3
  <1>3. QED
    BY <1>1, <1>2

\* What fits any output is placed, whichever output it comes upon first.
LEMMA FittingIsPlaced ==
    ASSUME outputs \in Layouts, NEW B \in SUBSET Barrier, NEW layout \in SetToSeqs(outputs),
           NEW b \in B, NEW o \in outputs, Fits(b, o)
    PROVE  \E s \in Place(B, layout) : s.id = b.id
  <1> DEFINE fitting == {i \in DOMAIN layout : Fits(b, layout[i])}
  <1>1. DOMAIN layout \subseteq Nat /\ \E i \in DOMAIN layout : layout[i] = o
    BY EveryOrderHasAll, PlacementAssumption
  <1>2. PICK i \in fitting : \A j \in fitting : i <= j
    BY <1>1, FirstPosition
  <1>3. PlaceOn(b, layout[i]) \in PlaceOne(b, layout)
    BY <1>2 DEF PlaceOne
  <1>4. PlaceOn(b, layout[i]).id = b.id
    BY DEF PlaceOn
  <1>5. QED
    BY <1>3, <1>4 DEF Place

\* Every armed barrier that fits an output has its surface.
FittingPlaced ==
    /\ armed \in Requests \cup {{}}
    /\ \A b \in armed, o \in outputs : Fits(b, o) => \E s \in surfaces : s.id = b.id

LEMMA FittingStaysPlaced == PlacementInv /\ FittingPlaced /\ [Next]_vars => FittingPlaced'
  <1> SUFFICES ASSUME PlacementInv, FittingPlaced, [Next]_vars PROVE FittingPlaced'
    OBVIOUS
  <1>1. ASSUME NEW B \in Requests, Arm(B) PROVE FittingPlaced'
    <2>1. PICK layout \in SetToSeqs(outputs) : surfaces' = Place(B, layout)
      BY <1>1 DEF Arm
    <2>2. outputs' = outputs /\ armed' = B /\ B \in SUBSET Barrier /\ outputs \in Layouts
      BY <1>1, PlacementAssumption DEF Arm, PlacementInv, PlacementTypeOK
    <2>3. QED
      BY <2>1, <2>2, FittingIsPlaced DEF FittingPlaced
  <1>2. CASE UNCHANGED <<outputs, armed, surfaces>>
    BY <1>2 DEF FittingPlaced
  <1>3. QED
    BY <1>1, <1>2 DEF Next, vars, BeginCapture, EndCapture

\* In any layout, and in whatever order its outputs are tried, place rejects a
\* barrier only if it borders no output (mod.rs:226).  A rejected barrier is
\* known by its id, so those of one request have to differ.
THEOREM OnlyStrayDropped ==
    ASSUME \A B \in Requests : \A b, c \in B : b.id = c.id => b = c
    PROVE  Spec => []OnlyStrayBarriersDropped
  <1>1. Init => FittingPlaced
    BY DEF Init, FittingPlaced
  <1>2. PlacementInv /\ FittingPlaced => OnlyStrayBarriersDropped
    <2> SUFFICES ASSUME PlacementInv, FittingPlaced, NEW b \in armed
                 PROVE  (\E o \in outputs : \E p \in Pixels(o) : Guards(b, o, p))
                          <=> \E s \in surfaces : s.id = b.id
      BY DEF OnlyStrayBarriersDropped
    <2>1. /\ outputs \in Layouts /\ b \in Barrier /\ RELEASE_INSET \in Nat
          /\ \A o \in outputs : o \in Output /\ o.width > RELEASE_INSET /\ o.height > RELEASE_INSET
      BY PlacementAssumption, OneOutputOfAName DEF PlacementInv, PlacementTypeOK
    <2>2. \A o \in outputs : Fits(b, o) <=> \E p \in Pixels(o) : Guards(b, o, p)
      <3> SUFFICES ASSUME NEW o \in outputs
                   PROVE  Fits(b, o) <=> \E p \in Pixels(o) : Guards(b, o, p)
        OBVIOUS
      <3>1. o \in Output /\ o.width > 0 /\ o.height > 0
        BY <2>1 DEF Output
      <3>2. QED
        BY <2>1, <3>1, FitsIfGuards
    <2>3. ASSUME NEW s \in surfaces, s.id = b.id PROVE \E o \in outputs : Fits(b, o)
      <3>1. PICK c \in armed, o \in outputs : Fits(c, o) /\ s = PlaceOn(c, o)
        BY DEF PlacementInv, SurfacesInv
      <3>2. c.id = b.id
        BY <2>3, <3>1 DEF PlaceOn
      <3>3. c = b
        BY <3>2 DEF FittingPlaced
      <3>4. QED
        BY <3>1, <3>3
    <2>4. QED
      BY <2>2, <2>3 DEF FittingPlaced
  <1>3. QED
    BY <1>1, <1>2, FittingStaysPlaced, InvHolds, PTL DEF Spec
----------------------------------------------------------------------------
(* The order of the zones.                                                  *)

\* niri's order tells any two outputs of a layout apart.
LEMMA BeforeOrders ==
    ASSUME outputs \in Layouts, NEW o \in outputs, NEW p \in outputs, NEW q \in outputs
    PROVE  /\ ~Before(o, o)
           /\ Before(o, p) => ~Before(p, o)
           /\ Before(o, p) /\ Before(p, q) => Before(o, q)
           /\ Before(o, p) \/ Before(p, o) \/ o = p
  <1>1. o \in Output /\ p \in Output /\ q \in Output /\ (o.name = p.name => o = p)
    BY PlacementAssumption
  <1>2. /\ o.x \in Int /\ o.y \in Int /\ o.name \in Nat
        /\ p.x \in Int /\ p.y \in Int /\ p.name \in Nat
        /\ q.x \in Int /\ q.y \in Int /\ q.name \in Nat
    BY <1>1 DEF Output
  <1>3. QED
    BY <1>1, <1>2 DEF Before

\* A sequence of outputs in niri's order.
InOrder(s) == \A i, j \in DOMAIN s : i < j => Before(s[i], s[j])

\* One more output has its place among others that are in order: behind those
\* that come before it.
LEMMA PlaceInOrder ==
    ASSUME outputs \in Layouts, NEW S \in SUBSET outputs, NEW x \in outputs \ S,
           NEW m \in Nat, NEW g \in [1..m -> S], InOrder(g)
    PROVE  \E k \in 0..m : /\ \A i \in 1..m : i <= k => Before(g[i], x)
                           /\ \A i \in 1..m : k < i => Before(x, g[i])
  <1> DEFINE K == {k \in 0..m : \A i \in 1..m : k < i => Before(x, g[i])}
  <1>1. m \in K /\ K \subseteq Nat
    OBVIOUS
  <1>2. PICK k \in K : \A j \in K : k <= j
    BY <1>1, FirstPosition
  <1>3. ASSUME NEW i \in 1..m, i <= k PROVE Before(g[i], x)
    <2>1. k - 1 \in 0..m /\ k - 1 \notin K /\ k \in 1..m
      BY <1>2, <1>3
    <2>2. PICK j \in 1..m : k - 1 < j /\ ~Before(x, g[j])
      BY <2>1
    <2>3. j = k
      BY <1>2, <2>2
    <2>4. Before(g[k], x)
      BY <2>1, <2>2, <2>3, BeforeOrders
    <2>5. i = k \/ Before(g[i], g[k])
      BY <1>3, <2>1 DEF InOrder
    <2>6. g[i] \in outputs /\ g[k] \in outputs
      BY <2>1
    <2>7. QED
      BY <2>4, <2>5, <2>6, BeforeOrders
  <1>4. QED
    BY <1>2, <1>3

\* So it can be inserted.
LEMMA InsertInOrder ==
    ASSUME outputs \in Layouts, NEW S \in SUBSET outputs, NEW x \in outputs \ S,
           NEW m \in Nat, NEW g \in [1..m -> S], InOrder(g)
    PROVE  \E f \in [1..(m + 1) -> S \cup {x}] : InOrder(f)
  <1>1. PICK k \in 0..m : /\ \A i \in 1..m : i <= k => Before(g[i], x)
                          /\ \A i \in 1..m : k < i => Before(x, g[i])
    BY PlaceInOrder
  <1> DEFINE f == [i \in 1..(m + 1) |-> IF i <= k THEN g[i] ELSE IF i = k + 1 THEN x ELSE g[i - 1]]
  <1>2. f \in [1..(m + 1) -> S \cup {x}]
    OBVIOUS
  <1>3. ASSUME NEW i \in 1..(m + 1), NEW j \in 1..(m + 1), i < j PROVE Before(f[i], f[j])
    <2>1. CASE j <= k
      <3>1. i \in 1..m /\ j \in 1..m /\ f[i] = g[i] /\ f[j] = g[j]
        BY <1>3, <2>1
      <3>2. QED
        BY <1>3, <3>1 DEF InOrder
    <2>2. CASE i <= k /\ j = k + 1
      BY <1>1, <2>2
    <2>3. CASE i <= k /\ j > k + 1
      <3>1. i \in 1..m /\ j - 1 \in 1..m /\ i < j - 1 /\ f[i] = g[i] /\ f[j] = g[j - 1]
        BY <2>3
      <3>2. QED
        BY <3>1 DEF InOrder
    <2>4. CASE i = k + 1
      <3>1. j - 1 \in 1..m /\ k < j - 1 /\ f[i] = x /\ f[j] = g[j - 1]
        BY <1>3, <2>4
      <3>2. QED
        BY <1>1, <3>1
    <2>5. CASE i > k + 1
      <3>1. i - 1 \in 1..m /\ j - 1 \in 1..m /\ i - 1 < j - 1 /\ f[i] = g[i - 1] /\ f[j] = g[j - 1]
        BY <1>3, <2>5
      <3>2. QED
        BY <3>1 DEF InOrder
    <2>6. QED
      BY <1>3, <2>1, <2>2, <2>3, <2>4, <2>5
  <1>4. InOrder(f)
    BY <1>3 DEF InOrder
  <1>5. QED
    BY <1>2, <1>4

\* The outputs of a layout can be put in order: of the subsets that cannot, one
\* would be smallest, and is not, for want of the empty one.
LEMMA CanBeOrdered ==
    ASSUME outputs \in Layouts
    PROVE  \E f \in [1..Cardinality(outputs) -> outputs] : InOrder(f)
  <1> DEFINE Ordered(S) == \E f \in [1..Cardinality(S) -> S] : InOrder(f)
             Bad == {n \in Nat : \E S \in SUBSET outputs : Cardinality(S) = n /\ ~Ordered(S)}
  <1>1. IsFiniteSet(outputs)
    BY PlacementAssumption
  <1>2. \A S \in SUBSET outputs : IsFiniteSet(S) /\ Cardinality(S) \in Nat
    BY <1>1, FS_Subset, FS_CardinalityType
  <1>3. ASSUME NEW n \in Bad, \A j \in Bad : n <= j PROVE FALSE
    <2>1. PICK S \in SUBSET outputs : Cardinality(S) = n /\ ~Ordered(S)
      OBVIOUS
    <2>2. CASE S = {}
      <3> DEFINE f == [i \in 1..0 |-> i]
      <3>1. Cardinality(S) = 0
        BY <2>2, FS_EmptySet
      <3>2. f \in [1..Cardinality(S) -> S] /\ InOrder(f)
        BY <3>1 DEF InOrder
      <3>3. QED
        BY <2>1, <3>2
    <2>3. CASE S # {}
      <3>1. PICK x \in S : TRUE
        BY <2>3
      <3> DEFINE R == S \ {x}
                 m == Cardinality(R)
      <3>2. R \in SUBSET outputs /\ m \in Nat /\ Cardinality(S) \in Nat /\ m = Cardinality(S) - 1
        BY <1>2, <3>1, FS_RemoveElement
      <3>3. Ordered(R)
        <4>1. m < n
          BY <2>1, <3>2
        <4>2. m \notin Bad
          BY <1>3, <3>2, <4>1
        <4>3. QED
          BY <3>2, <4>2
      <3>4. PICK g \in [1..m -> R] : InOrder(g)
        BY <3>3
      <3> HIDE DEF m, R
      <3>5. x \in outputs \ R /\ R \cup {x} = S
        BY <3>1 DEF R
      <3>6. \E f \in [1..(m + 1) -> R \cup {x}] : InOrder(f)
        BY <3>2, <3>4, <3>5, InsertInOrder
      <3>7. m + 1 = Cardinality(S)
        BY <3>2
      <3>8. QED
        BY <2>1, <3>5, <3>6, <3>7
    <2>4. QED
      BY <2>2, <2>3
  <1>4. Bad \subseteq Nat
    OBVIOUS
  <1>5. Bad = {}
    BY <1>3, <1>4, FirstPosition
  <1>6. QED
    BY <1>2, <1>5

\* In one way only: the first place where two such orders differ has in each
\* an output that the other has later.
LEMMA OneOrder ==
    ASSUME outputs \in Layouts, NEW f \in SetToSeqs(outputs), NEW g \in SetToSeqs(outputs),
           InOrder(f), InOrder(g)
    PROVE  f = g
  <1> DEFINE n == Cardinality(outputs)
             D == {i \in 1..n : f[i] # g[i]}
  <1>1. IsFiniteSet(outputs)
    BY PlacementAssumption
  <1>2. /\ n \in Nat /\ f \in [1..n -> outputs] /\ g \in [1..n -> outputs]
        /\ \A x \in outputs : \E i \in 1..n : f[i] = x
        /\ \A x \in outputs : \E i \in 1..n : g[i] = x
        /\ \A i, j \in 1..n : f[i] = f[j] => i = j
        /\ \A i, j \in 1..n : g[i] = g[j] => i = j
    <2>1. f \in [1..n -> outputs] /\ g \in [1..n -> outputs] /\ n \in Nat
      BY <1>1, FS_CardinalityType DEF SetToSeqs
    <2>2. /\ \A x \in outputs : \E i \in 1..n : f[i] = x
          /\ \A i, j \in 1..n : f[i] = f[j] => i = j
      <3>1. /\ \A x \in outputs : \E i \in DOMAIN f : f[i] = x
            /\ \A i, j \in DOMAIN f : f[i] = f[j] => i = j
        BY <1>1, EveryOrderHasAll
      <3>2. QED
        BY <2>1, <3>1
    <2>3. /\ \A x \in outputs : \E i \in 1..n : g[i] = x
          /\ \A i, j \in 1..n : g[i] = g[j] => i = j
      <3>1. /\ \A x \in outputs : \E i \in DOMAIN g : g[i] = x
            /\ \A i, j \in DOMAIN g : g[i] = g[j] => i = j
        BY <1>1, EveryOrderHasAll
      <3>2. QED
        BY <2>1, <3>1
    <2>4. QED
      BY <2>1, <2>2, <2>3
  <1>3. ASSUME NEW i \in D, \A j \in D : i <= j PROVE FALSE
    <2>1. PICK j \in 1..n : g[j] = f[i]
      BY <1>2
    <2>2. PICK k \in 1..n : f[k] = g[i]
      BY <1>2
    <2>3. i < j
      <3>1. j # i
        BY <2>1
      <3>2. j < i => f[j] = g[j]
        BY <1>3
      <3>3. QED
        BY <1>2, <2>1, <3>1, <3>2
    <2>4. i < k
      <3>1. k # i
        BY <2>2
      <3>2. k < i => f[k] = g[k]
        BY <1>3
      <3>3. QED
        BY <1>2, <2>2, <3>1, <3>2
    <2>5. Before(g[i], f[i]) /\ Before(f[i], g[i])
      BY <1>2, <2>1, <2>2, <2>3, <2>4 DEF InOrder
    <2>6. QED
      BY <1>2, <2>5, BeforeOrders
  <1>4. D \subseteq Nat
    BY <1>2
  <1>5. D = {}
    BY <1>3, <1>4, FirstPosition
  <1>6. QED
    BY <1>2, <1>5

\* What sort_by makes of the outputs in any order.
LEMMA SortedInOrder ==
    ASSUME outputs \in Layouts, NEW r \in SetToSeqs(outputs)
    PROVE  Sorted(r) \in SetToSeqs(outputs) /\ InOrder(Sorted(r))
  <1> DEFINE n == Cardinality(outputs)
             Fine(p) == \A i, j \in DOMAIN r : i < j => ~Before(r[p[j]], r[p[i]])
             order == CHOOSE p \in SetToSeqs(DOMAIN r) : Fine(p)
  <1>1. /\ IsFiniteSet(outputs) /\ n \in Nat /\ DOMAIN r = 1..n /\ r \in [1..n -> outputs]
        /\ \A x \in outputs : \E i \in 1..n : r[i] = x
        /\ \A i, j \in 1..n : r[i] = r[j] => i = j
    <2>1. r \in [1..n -> outputs] /\ IsFiniteSet(outputs)
      BY PlacementAssumption DEF SetToSeqs
    <2>2. QED
      BY <2>1, EveryOrderHasAll
  <1>2. SetToSeqs(DOMAIN r) = {p \in [1..n -> 1..n] : \A i, j \in 1..n : i # j => p[i] # p[j]}
    <2>1. Cardinality(1..n) = n
      BY <1>1, FS_Interval
    <2>2. QED
      BY <1>1, <2>1 DEF SetToSeqs
  <1>3. PICK f \in [1..n -> outputs] : InOrder(f)
    BY CanBeOrdered
  <1> HIDE DEF n
  <1>4. \E p \in SetToSeqs(DOMAIN r) : Fine(p)
    <2> DEFINE p == [i \in 1..n |-> CHOOSE j \in 1..n : r[j] = f[i]]
    <2>1. \A i \in 1..n : p[i] \in 1..n /\ r[p[i]] = f[i]
      BY <1>1, <1>3
    <2>2. ASSUME NEW i \in 1..n, NEW j \in 1..n, i # j PROVE p[i] # p[j]
      <3>1. f[i] # f[j]
        BY <1>1, <1>3, <2>2, BeforeOrders DEF InOrder
      <3>2. QED
        BY <2>1, <3>1
    <2>3. p \in SetToSeqs(DOMAIN r)
      BY <1>2, <2>1, <2>2
    <2>4. Fine(p)
      BY <1>1, <1>3, <2>1, BeforeOrders DEF InOrder
    <2>5. QED
      BY <2>3, <2>4
  <1>5. order \in SetToSeqs(DOMAIN r) /\ Fine(order)
    BY <1>4
  <1>6. Sorted(r) = [i \in 1..n |-> r[order[i]]]
    BY <1>1 DEF Sorted
  <1> HIDE DEF order
  <1>7. \A i \in 1..n : order[i] \in 1..n /\ Sorted(r)[i] = r[order[i]] /\ Sorted(r)[i] \in outputs
    BY <1>1, <1>2, <1>5, <1>6
  <1>8. \A i, j \in 1..n : i # j => Sorted(r)[i] # Sorted(r)[j]
    <2>1. ASSUME NEW i \in 1..n, NEW j \in 1..n, i # j PROVE Sorted(r)[i] # Sorted(r)[j]
      <3>1. order[i] # order[j]
        BY <1>2, <1>5, <2>1
      <3>2. QED
        BY <1>1, <1>7, <3>1
    <2>2. QED
      BY <2>1
  <1>9. Sorted(r) \in SetToSeqs(outputs)
    BY <1>6, <1>7, <1>8 DEF SetToSeqs, n
  <1>10. ASSUME NEW i \in 1..n, NEW j \in 1..n, i < j PROVE Before(Sorted(r)[i], Sorted(r)[j])
    <2>1. ~Before(Sorted(r)[j], Sorted(r)[i])
      BY <1>1, <1>5, <1>7, <1>10
    <2>2. Sorted(r)[i] # Sorted(r)[j]
      BY <1>1, <1>8, <1>10
    <2>3. QED
      BY <1>7, <2>1, <2>2, BeforeOrders
  <1>11. QED
    BY <1>6, <1>9, <1>10 DEF InOrder

\* In any layout niri's order does not show in the zones, so that a query without
\* a change of the outputs never takes a client's barriers away (niri.rs:94).
THEOREM ZonesStay == Spec => []ZonesAreStable
  <1>1. PlacementInv => ZonesAreStable
    <2> SUFFICES ASSUME outputs \in Layouts, NEW r \in SetToSeqs(outputs),
                        NEW q \in SetToSeqs(outputs)
                 PROVE  Zones(r) = Zones(q)
      BY DEF PlacementInv, PlacementTypeOK, ZonesAreStable
    <2>1. Sorted(r) = Sorted(q)
      BY SortedInOrder, OneOrder
    <2>2. DOMAIN r = DOMAIN q
      BY DEF SetToSeqs
    <2>3. QED
      BY <2>1, <2>2 DEF Zones
  <1>2. QED
    BY <1>1, InvHolds, PTL
----------------------------------------------------------------------------
(* The region.                                                              *)

\* The loop of region_of does what it says: up to any zone there are bounds.
LEMMA BoundsByZone ==
    ASSUME NEW zones, NEW n \in Nat, Len(zones) = n
    PROVE  /\ Bounds(zones)[0] = NoBounds
           /\ \A i \in 1..n : Bounds(zones)[i] = Widen(Bounds(zones)[i - 1], zones[i])
  <1> DEFINE Loop(g, m) == g = [i \in 0..m |-> IF i = 0 THEN NoBounds ELSE Widen(g[i - 1], zones[i])]
             Bad == {m \in Nat : ~\E g : Loop(g, m)}
  <1>1. ASSUME NEW m \in Bad, \A j \in Bad : m <= j PROVE FALSE
    <2>1. CASE m = 0
      <3> DEFINE g == [i \in 0..0 |-> NoBounds]
      <3>1. g = [i \in 0..0 |-> IF i = 0 THEN NoBounds ELSE Widen(g[i - 1], zones[i])]
        OBVIOUS
      <3>2. QED
        BY <2>1, <3>1
    <2>2. CASE m > 0
      <3>1. m - 1 \in Nat /\ m - 1 \notin Bad
        <4>1. m - 1 \in Nat /\ ~(m <= m - 1)
          BY <2>2
        <4>2. QED
          BY <1>1, <4>1
      <3>2. PICK g : Loop(g, m - 1)
        BY <3>1
      <3>3. \A i \in 0..(m - 1) : g[i] = IF i = 0 THEN NoBounds ELSE Widen(g[i - 1], zones[i])
        BY <3>2
      <3> DEFINE h == [i \in 0..m |-> IF i < m THEN g[i] ELSE Widen(g[m - 1], zones[m])]
      <3>4. ASSUME NEW i \in 0..m
            PROVE  h[i] = IF i = 0 THEN NoBounds ELSE Widen(h[i - 1], zones[i])
        <4>1. CASE i = 0
          BY <2>2, <3>3, <4>1
        <4>2. CASE i # 0
          <5>1. i - 1 \in 0..m /\ i - 1 < m
            BY <4>2
          <5>2. h[i - 1] = g[i - 1]
            BY <5>1
          <5>3. i < m => h[i] = g[i] /\ i \in 0..(m - 1)
            OBVIOUS
          <5>4. i < m \/ i = m
            OBVIOUS
          <5>5. i = m => h[i] = Widen(g[i - 1], zones[i])
            OBVIOUS
          <5>6. i < m => h[i] = Widen(g[i - 1], zones[i])
            BY <3>3, <4>2, <5>3
          <5> HIDE DEF h
          <5>7. QED
            BY <4>2, <5>2, <5>4, <5>5, <5>6
        <4>3. QED
          BY <4>1, <4>2
      <3>5. Loop(h, m)
        BY <3>4
      <3>6. QED
        BY <3>5
    <2>3. QED
      BY <2>1, <2>2
  <1>2. Bad = {}
    <2>1. Bad \subseteq Nat
      OBVIOUS
    <2>2. QED
      BY <1>1, <2>1, FirstPosition
  <1>3. \E g : Loop(g, n)
    BY <1>2
  <1>4. Bounds(zones) = CHOOSE g : Loop(g, n)
    BY DEF Bounds
  <1>5. Loop(Bounds(zones), n)
    BY <1>3, <1>4
  <1>6. \A i \in 0..n : Bounds(zones)[i] = IF i = 0 THEN NoBounds ELSE Widen(Bounds(zones)[i - 1], zones[i])
    BY <1>5
  <1>7. QED
    BY <1>6

\* b is the box around the first i outputs of s.
Boxes(b, s, i) ==
    /\ b.left \in Int /\ b.top \in Int /\ b.right \in Int /\ b.bottom \in Int
    /\ b.left < b.right
    /\ \A j \in 1..i : /\ b.left <= s[j].x /\ s[j].x + s[j].width <= b.right
                       /\ b.top <= s[j].y /\ s[j].y + s[j].height <= b.bottom
    /\ \E j \in 1..i : b.left = s[j].x
    /\ \E j \in 1..i : b.top = s[j].y
    /\ \E j \in 1..i : b.right = s[j].x + s[j].width
    /\ \E j \in 1..i : b.bottom = s[j].y + s[j].height

\* The first zone is its own box.
LEMMA FirstBox ==
    ASSUME NEW s, s[1] \in Output, s[1].width > 0, s[1].height > 0
    PROVE  Boxes(Widen(NoBounds, Zone(s[1])), s, 1)
  <1> DEFINE o == s[1]
             b == [left |-> o.x, top |-> o.y, right |-> o.x + o.width, bottom |-> o.y + o.height]
  <1>1. o.x \in Int /\ o.y \in Int /\ o.width \in Nat /\ o.height \in Nat
    BY DEF Output
  <1>2. Widen(NoBounds, Zone(o)) = b
    BY <1>1 DEF Widen, Zone
  <1>3. Boxes(b, s, 1)
    BY <1>1 DEF Boxes
  <1>4. QED
    BY <1>2, <1>3

\* Each zone after it widens the box.
LEMMA NextBox ==
    ASSUME NEW s, NEW b, NEW i \in Nat, i >= 1, Boxes(b, s, i),
           \A j \in 1..(i + 1) : s[j] \in Output, s[i + 1].width > 0, s[i + 1].height > 0
    PROVE  Boxes(Widen(b, Zone(s[i + 1])), s, i + 1)
  <1> DEFINE o == s[i + 1]
             c == [left |-> Least(b.left, o.x), top |-> Least(b.top, o.y),
                   right |-> Most(b.right, o.x + o.width),
                   bottom |-> Most(b.bottom, o.y + o.height)]
  <1>1. o.x \in Int /\ o.y \in Int /\ o.width \in Nat /\ o.height \in Nat
    BY DEF Output
  <1>2. /\ b.left \in Int /\ b.top \in Int /\ b.right \in Int /\ b.bottom \in Int
        /\ b.left < b.right
    BY DEF Boxes
  <1>3. b # NoBounds
    BY <1>2 DEF NoBounds
  <1>4. Widen(b, Zone(o)) = c
    BY <1>1, <1>3 DEF Widen, Zone
  <1>5. /\ c.left \in Int /\ c.top \in Int /\ c.right \in Int /\ c.bottom \in Int
        /\ c.left <= b.left /\ c.left <= o.x /\ c.left \in {b.left, o.x}
        /\ c.top <= b.top /\ c.top <= o.y /\ c.top \in {b.top, o.y}
        /\ b.right <= c.right /\ o.x + o.width <= c.right /\ c.right \in {b.right, o.x + o.width}
        /\ b.bottom <= c.bottom /\ o.y + o.height <= c.bottom
        /\ c.bottom \in {b.bottom, o.y + o.height}
    BY <1>1, <1>2 DEF Least, Most
  <1> HIDE DEF c
  <1>6. c.left < c.right
    BY <1>2, <1>5
  <1>7. ASSUME NEW j \in 1..(i + 1)
        PROVE  /\ c.left <= s[j].x /\ s[j].x + s[j].width <= c.right
               /\ c.top <= s[j].y /\ s[j].y + s[j].height <= c.bottom
    <2>1. CASE j = i + 1
      BY <1>5, <2>1
    <2>2. CASE j \in 1..i
      <3>1. /\ b.left <= s[j].x /\ s[j].x + s[j].width <= b.right
            /\ b.top <= s[j].y /\ s[j].y + s[j].height <= b.bottom
        BY <2>2 DEF Boxes
      <3>2. QED
        BY <1>2, <1>5, <2>2, <3>1 DEF Output
    <2>3. QED
      BY <2>1, <2>2
  <1>8. 1..i \subseteq 1..(i + 1) /\ i + 1 \in 1..(i + 1)
    OBVIOUS
  <1>9. \E j \in 1..(i + 1) : c.left = s[j].x
    BY <1>5, <1>8 DEF Boxes
  <1>10. \E j \in 1..(i + 1) : c.top = s[j].y
    BY <1>5, <1>8 DEF Boxes
  <1>11. \E j \in 1..(i + 1) : c.right = s[j].x + s[j].width
    BY <1>5, <1>8 DEF Boxes
  <1>12. \E j \in 1..(i + 1) : c.bottom = s[j].y + s[j].height
    BY <1>5, <1>8 DEF Boxes
  <1>13. Boxes(c, s, i + 1)
    BY <1>5, <1>6, <1>7, <1>9, <1>10, <1>11, <1>12 DEF Boxes
  <1>14. QED
    BY <1>4, <1>13

\* The bounds of the zones are the box around the outputs, in any order.
LEMMA BoundsAreBox ==
    ASSUME outputs \in Layouts, outputs # {}, NEW s \in SetToSeqs(outputs),
           NEW zones, Len(zones) = Cardinality(outputs),
           \A i \in DOMAIN s : zones[i] = Zone(s[i])
    PROVE  Boxes(Bounds(zones)[Len(zones)], s, Len(zones))
  <1> DEFINE n == Cardinality(outputs)
             b == Bounds(zones)
             Bad == {i \in 1..n : ~Boxes(b[i], s, i)}
  <1>1. n \in Nat \ {0} /\ DOMAIN s = 1..n /\ \A i \in 1..n : s[i] \in outputs
    <2>1. IsFiniteSet(outputs)
      BY PlacementAssumption
    <2>2. n # 0
      BY <2>1, FS_EmptySet
    <2>3. QED
      BY <2>1, <2>2, EveryOrderHasAll
  <1>2. \A i \in 1..n : s[i] \in Output /\ s[i].width > 0 /\ s[i].height > 0
    <2> SUFFICES ASSUME NEW i \in 1..n
                 PROVE  s[i] \in Output /\ s[i].width > 0 /\ s[i].height > 0
      OBVIOUS
    <2>1. /\ s[i] \in Output /\ RELEASE_INSET \in Nat
          /\ s[i].width > RELEASE_INSET /\ s[i].height > RELEASE_INSET
      BY <1>1, OneOutputOfAName, PlacementAssumption
    <2>2. QED
      BY <2>1 DEF Output
  <1>3. b[0] = NoBounds /\ \A i \in 1..n : b[i] = Widen(b[i - 1], Zone(s[i]))
    BY <1>1, BoundsByZone
  <1> HIDE DEF n, b
  <1>4. ASSUME NEW m \in Bad, \A j \in Bad : m <= j PROVE FALSE
    <2>1. m \in 1..n /\ ~Boxes(b[m], s, m)
      OBVIOUS
    <2>2. CASE m = 1
      <3>1. 1 \in 1..n /\ 1 - 1 = 0
        BY <1>1
      <3>2. b[1] = Widen(NoBounds, Zone(s[1]))
        BY <1>3, <3>1
      <3>3. Boxes(b[1], s, 1)
        BY <1>2, <3>1, <3>2, FirstBox
      <3>4. QED
        BY <2>1, <2>2, <3>3
    <2>3. CASE m # 1
      <3> DEFINE i == m - 1
      <3>1. i \in 1..n /\ i \in Nat /\ i >= 1 /\ i + 1 = m /\ ~(m <= i)
        BY <1>1, <2>1, <2>3
      <3>2. Boxes(b[i], s, i)
        BY <1>4, <3>1
      <3>3. /\ \A j \in 1..(i + 1) : s[j] \in Output
            /\ s[i + 1].width > 0 /\ s[i + 1].height > 0
        BY <1>1, <1>2, <2>1, <3>1
      <3>4. b[m] = Widen(b[i], Zone(s[i + 1]))
        BY <1>3, <2>1, <3>1
      <3> HIDE DEF i
      <3>5. Boxes(Widen(b[i], Zone(s[i + 1])), s, i + 1)
        BY <3>1, <3>2, <3>3, NextBox
      <3>6. QED
        BY <2>1, <3>1, <3>4, <3>5
    <2>4. QED
      BY <2>2, <2>3
  <1>5. Bad \subseteq Nat
    BY <1>1
  <1>6. Bad = {}
    BY <1>4, <1>5, FirstPosition
  <1>7. n \in 1..n
    BY <1>1
  <1>8. QED
    BY <1>6, <1>7 DEF n, b

\* What a box around all of them has for its sides.
LEMMA BoxSides ==
    ASSUME outputs \in Layouts, NEW s \in SetToSeqs(outputs), NEW b,
           Boxes(b, s, Cardinality(outputs))
    PROVE  /\ b.left = CHOOSE n \in {o.x : o \in outputs} : \A o \in outputs : n <= o.x
           /\ b.top = CHOOSE n \in {o.y : o \in outputs} : \A o \in outputs : n <= o.y
           /\ b.right - b.left = CHOOSE n \in {o.x + o.width - b.left : o \in outputs} :
                                    \A o \in outputs : o.x + o.width - b.left <= n
           /\ b.bottom - b.top = CHOOSE n \in {o.y + o.height - b.top : o \in outputs} :
                                    \A o \in outputs : o.y + o.height - b.top <= n
  <1> DEFINE m == Cardinality(outputs)
  <1>1. /\ \A i \in 1..m : s[i] \in outputs
        /\ \A o \in outputs : \E i \in 1..m : s[i] = o
    <2>1. IsFiniteSet(outputs)
      BY PlacementAssumption
    <2>2. QED
      BY <2>1, EveryOrderHasAll
  <1>2. \A o \in outputs : o.x \in Int /\ o.y \in Int /\ o.width \in Int /\ o.height \in Int
    BY OneOutputOfAName DEF Output
  <1>3. b.left \in Int /\ b.top \in Int /\ b.right \in Int /\ b.bottom \in Int
    BY DEF Boxes
  <1>4. \A o \in outputs : /\ b.left <= o.x /\ o.x + o.width <= b.right
                           /\ b.top <= o.y /\ o.y + o.height <= b.bottom
    BY <1>1 DEF Boxes
  <1>5. /\ \E o \in outputs : b.left = o.x
        /\ \E o \in outputs : b.top = o.y
        /\ \E o \in outputs : b.right = o.x + o.width
        /\ \E o \in outputs : b.bottom = o.y + o.height
    BY <1>1 DEF Boxes
  <1> HIDE DEF m
  <1>6. b.left = CHOOSE n \in {o.x : o \in outputs} : \A o \in outputs : n <= o.x
    <2>1. b.left \in {o.x : o \in outputs} /\ \A o \in outputs : b.left <= o.x
      BY <1>4, <1>5
    <2>2. ASSUME NEW n \in {o.x : o \in outputs}, \A o \in outputs : n <= o.x
          PROVE  n = b.left
      <3>1. n \in Int /\ b.left <= n
        BY <1>2, <2>1
      <3>2. n <= b.left
        BY <1>5, <2>2
      <3>3. QED
        BY <1>3, <3>1, <3>2
    <2>3. QED
      BY <2>1, <2>2
  <1>7. b.top = CHOOSE n \in {o.y : o \in outputs} : \A o \in outputs : n <= o.y
    <2>1. b.top \in {o.y : o \in outputs} /\ \A o \in outputs : b.top <= o.y
      BY <1>4, <1>5
    <2>2. ASSUME NEW n \in {o.y : o \in outputs}, \A o \in outputs : n <= o.y
          PROVE  n = b.top
      <3>1. n \in Int /\ b.top <= n
        BY <1>2, <2>1
      <3>2. n <= b.top
        BY <1>5, <2>2
      <3>3. QED
        BY <1>3, <3>1, <3>2
    <2>3. QED
      BY <2>1, <2>2
  <1>8. b.right - b.left = CHOOSE n \in {o.x + o.width - b.left : o \in outputs} :
                              \A o \in outputs : o.x + o.width - b.left <= n
    <2> DEFINE W == {o.x + o.width - b.left : o \in outputs}
               w == b.right - b.left
    <2>1. w \in W /\ \A o \in outputs : o.x + o.width - b.left <= w
      BY <1>2, <1>3, <1>4, <1>5
    <2>2. \A n \in W : n \in Int /\ n <= w
      BY <1>2, <1>3, <1>4
    <2>3. ASSUME NEW n \in W, \A o \in outputs : o.x + o.width - b.left <= n PROVE n = w
      <3>1. n \in Int /\ n <= w
        BY <2>2
      <3>2. PICK o \in outputs : b.right = o.x + o.width
        BY <1>5
      <3>3. w <= n
        BY <1>2, <1>3, <2>3, <3>1, <3>2
      <3>4. QED
        BY <1>3, <3>1, <3>3
    <2>4. QED
      BY <2>1, <2>3
  <1>9. b.bottom - b.top = CHOOSE n \in {o.y + o.height - b.top : o \in outputs} :
                              \A o \in outputs : o.y + o.height - b.top <= n
    <2> DEFINE H == {o.y + o.height - b.top : o \in outputs}
               h == b.bottom - b.top
    <2>1. h \in H /\ \A o \in outputs : o.y + o.height - b.top <= h
      BY <1>2, <1>3, <1>4, <1>5
    <2>2. \A n \in H : n \in Int /\ n <= h
      BY <1>2, <1>3, <1>4
    <2>3. ASSUME NEW n \in H, \A o \in outputs : o.y + o.height - b.top <= n PROVE n = h
      <3>1. n \in Int /\ n <= h
        BY <2>2
      <3>2. PICK o \in outputs : b.bottom = o.y + o.height
        BY <1>5
      <3>3. h <= n
        BY <1>2, <1>3, <2>3, <3>1, <3>2
      <3>4. QED
        BY <1>3, <3>1, <3>3
    <2>4. QED
      BY <2>1, <2>3
  <1>10. QED
    BY <1>6, <1>7, <1>8, <1>9

\* In any layout the region of the EIS devices is as large as the box around the
\* outputs, wherever that box lies and in whatever order niri returned them.
THEOREM RegionIsBox == Spec => []RegionIsBoundingBox
  <1>1. Init => outputs # {}
    BY DEF Init
  <1>2. outputs # {} /\ [Next]_vars => (outputs # {})'
    BY DEF Next, vars, Arm, BeginCapture, EndCapture
  <1>3. PlacementInv /\ outputs # {} => RegionIsBoundingBox
    <2> SUFFICES ASSUME outputs \in Layouts, outputs # {}, NEW r \in SetToSeqs(outputs)
                 PROVE  LET left == CHOOSE n \in {o.x : o \in outputs} : \A o \in outputs : n <= o.x
                            top == CHOOSE n \in {o.y : o \in outputs} : \A o \in outputs : n <= o.y
                            width == CHOOSE n \in {o.x + o.width - left : o \in outputs} :
                                        \A o \in outputs : o.x + o.width - left <= n
                            height == CHOOSE n \in {o.y + o.height - top : o \in outputs} :
                                        \A o \in outputs : o.y + o.height - top <= n
                        IN RegionOf(Zones(r)) = IF width <= MaxU32 /\ height <= MaxU32
                                                  THEN [width |-> width, height |-> height]
                                                  ELSE NoRegion
      BY DEF PlacementInv, PlacementTypeOK, RegionIsBoundingBox
    <2> DEFINE m == Cardinality(outputs)
               zones == Zones(r)
               s == Sorted(r)
               b == Bounds(zones)[Len(zones)]
               left == CHOOSE n \in {o.x : o \in outputs} : \A o \in outputs : n <= o.x
               top == CHOOSE n \in {o.y : o \in outputs} : \A o \in outputs : n <= o.y
               Width(l) == CHOOSE n \in {o.x + o.width - l : o \in outputs} :
                              \A o \in outputs : o.x + o.width - l <= n
               Height(t) == CHOOSE n \in {o.y + o.height - t : o \in outputs} :
                               \A o \in outputs : o.y + o.height - t <= n
    <2>1. s \in SetToSeqs(outputs)
      BY SortedInOrder
    <2>2. m \in Nat /\ DOMAIN r = 1..m /\ DOMAIN s = 1..m
      <3>1. IsFiniteSet(outputs)
        BY PlacementAssumption
      <3>2. QED
        BY <2>1, <3>1, EveryOrderHasAll
    <2>3. zones = [i \in 1..m |-> Zone(s[i])]
      BY <2>2 DEF Zones
    <2>4. Len(zones) = m
      BY <2>2, <2>3
    <2>5. Boxes(b, s, m)
      BY <2>1, <2>2, <2>3, <2>4, BoundsAreBox
    <2> HIDE DEF b
    <2>6. b.left = left /\ b.top = top
      BY <2>1, <2>5, BoxSides
    <2>7. b.right - b.left = Width(left) /\ b.bottom - b.top = Height(top)
      <3>1. b.right - b.left = Width(b.left) /\ b.bottom - b.top = Height(b.top)
        BY <2>1, <2>5, BoxSides
      <3> HIDE DEF Width, Height, left, top
      <3>2. QED
        BY <2>6, <3>1
    <2>8. /\ b # NoBounds /\ MaxU32 \in Int
          /\ b.right - b.left \in Int /\ b.bottom - b.top \in Int
      BY <2>5, PlacementAssumption DEF Boxes, NoBounds
    <2>9. RegionOf(zones) = IF b.right - b.left <= MaxU32 /\ b.bottom - b.top <= MaxU32
                              THEN [width |-> b.right - b.left, height |-> b.bottom - b.top]
                              ELSE NoRegion
      BY <2>8 DEF RegionOf, b
    <2>10. QED
      BY <2>7, <2>9
  <1>4. QED
    BY <1>1, <1>2, <1>3, InvHolds, PTL DEF Spec
=============================================================================
