--------------------------- MODULE WaylandThread ---------------------------
(***************************************************************************)
(* The Wayland thread (wayland/state.rs): barrier surfaces on the screen    *)
(* edges, and the capture that a crossing starts.  One thread runs every    *)
(* callback, so every action below is one callback or one command.          *)
(*                                                                         *)
(* `grabs` is not state of the thread: it is what the compositor has        *)
(* granted to the layer surface of each barrier, as the thread's requests   *)
(* leave it.  A lock freezes the pointer, "keyboard" is exclusive keyboard  *)
(* focus, "region" an input region of the whole 64-pixel-deep surface       *)
(* instead of its outer pixel.                                              *)
(*                                                                         *)
(* A surface is identified by its barrier id.  That is enough: Arm is       *)
(* ignored while a capture holds on to a layer, so two layers of one        *)
(* barrier are never alive together (a client's ids are taken as distinct). *)
(***************************************************************************)
EXTENDS Channels

CONSTANTS
    MaxEvents,   \* bound: events waiting when the outside world adds one
    MaxInputs    \* bound: inputs waiting in one place when another is added

ASSUME WaylandAssumption ==
    /\ MaxEvents \in Nat
    /\ MaxInputs \in Nat
    /\ {"none", "nobody"} \cap BarrierId = {}

VARIABLES
    surfaces,    \* barriers with a listed surface (AppState.surfaces)
    drawn,       \* those of them that have a buffer, hence are mapped
    capture,     \* AppState.capture
    pointer,     \* whether there is a wl_pointer
    grabs        \* compositor side: what each barrier's layer holds

threadVars == <<surfaces, drawn, capture, pointer, grabs>>

Grab == {"lock", "keyboard", "region"}

\* eis is NoConn until the portal hands over the session's connection; pending
\* holds what was seen before that; inputs counts motions, keys, buttons and
\* scrolls; idle says that last_input is idle_timeout ago or more.
Capture == [barrier : BarrierId, eis : Conn \cup {NoConn},
            pending : Seq(Nat), inputs : Nat, idle : BOOLEAN]
NoCapture == [barrier |-> "none"]
Capturing == capture # NoCapture

ThreadTypeOK ==
    /\ surfaces \subseteq BarrierId
    /\ drawn \subseteq surfaces
    /\ capture \in Capture \cup {NoCapture}
    /\ pointer \in BOOLEAN
    /\ grabs \in [BarrierId -> SUBSET Grab]

ThreadInit ==
    /\ surfaces = {}
    /\ drawn = {}
    /\ capture = NoCapture
    /\ pointer = TRUE
    /\ grabs = [b \in BarrierId |-> {}]

----------------------------------------------------------------------------
(* Helpers shared by the handlers.                                          *)

\* Mutant of KeepOnly: the buffers of dropped surfaces are still counted.
KeepOnlyKeepingBuffers(S) ==
    /\ surfaces' = S
    /\ drawn' = drawn
    /\ grabs' = [b \in BarrierId |->
                    IF b \in S \/ (Capturing /\ capture.barrier = b)
                      THEN grabs[b] ELSE {}]

\* Dropping a surface destroys its layer, and with the layer whatever it held,
\* unless the running capture keeps a reference to it.
KeepOnly(S) ==
    /\ surfaces' = S
    /\ drawn' = drawn \cap S
    /\ grabs' = [b \in BarrierId |->
                    IF b \in S \/ (Capturing /\ capture.barrier = b)
                      THEN grabs[b] ELSE {}]

\* Mutant of EndTheCapture: keyboard interactivity is left exclusive.
EndTheCaptureKeepingKeyboard ==
    /\ capture' = NoCapture
    /\ grabs' = IF Capturing THEN [grabs EXCEPT ![capture.barrier] = {"keyboard"}] ELSE grabs

\* end_capture: nothing to do without a capture; otherwise unlock, give the
\* keyboard back and shrink the input region to the strip.
EndTheCapture ==
    /\ capture' = NoCapture
    /\ grabs' = IF Capturing THEN [grabs EXCEPT ![capture.barrier] = {}] ELSE grabs

----------------------------------------------------------------------------
(* Commands, in channel order.                                              *)

NextCmd(type) == cmds # <<>> /\ Head(cmds).type = type /\ cmds' = Tail(cmds)

\* Mutant of HandleArm: the surfaces are torn down before the capture is looked at.
HandleArmTearingDownFirst ==
    /\ NextCmd("Arm")
    /\ surfaces' = IF Capturing THEN {} ELSE Head(cmds).barriers \cap OnEdge[layout]
    /\ drawn' = {}
    /\ grabs' = [b \in BarrierId |->
                    IF Capturing /\ capture.barrier = b THEN grabs[b] ELSE {}]
    /\ UNCHANGED <<capture, pointer, events, eisq, taskVars, layout>>

\* arm: ignored during a capture; else every surface is replaced.
HandleArm ==
    /\ NextCmd("Arm")
    /\ IF Capturing
         THEN UNCHANGED threadVars
         ELSE /\ surfaces' = Head(cmds).barriers \cap OnEdge[layout]
              /\ drawn' = {}
              /\ grabs' = [b \in BarrierId |-> {}]
              /\ UNCHANGED <<capture, pointer>>
    /\ UNCHANGED <<events, eisq, taskVars, layout>>

HandleDisarm ==
    /\ NextCmd("Disarm")
    /\ KeepOnly({})
    /\ UNCHANGED <<capture, pointer, events, eisq, taskVars, layout>>

\* Mutant of HandleAttachEis: pending is read and not drained.
HandleAttachEisWithoutDraining ==
    /\ NextCmd("AttachEis")
    /\ LET c == Head(cmds).eis
       IN IF Capturing
            THEN /\ SendEis(c, [i \in DOMAIN capture.pending |-> Input(capture.pending[i])])
                 /\ capture' = [capture EXCEPT !.eis = c]
            ELSE UNCHANGED <<eisq, capture>>
    /\ UNCHANGED <<surfaces, drawn, pointer, grabs, events, taskVars, layout>>

\* attach_eis: whatever happened between the crossing and the handover first.
HandleAttachEis ==
    /\ NextCmd("AttachEis")
    /\ LET c == Head(cmds).eis
       IN IF Capturing
            THEN /\ SendEis(c, [i \in DOMAIN capture.pending |-> Input(capture.pending[i])])
                 /\ capture' = [capture EXCEPT !.eis = c, !.pending = <<>>]
            ELSE UNCHANGED <<eisq, capture>>
    /\ UNCHANGED <<surfaces, drawn, pointer, grabs, events, taskVars, layout>>

HandleEndCapture ==
    /\ NextCmd("EndCapture")
    /\ EndTheCapture
    /\ UNCHANGED <<surfaces, drawn, pointer, events, eisq, taskVars, layout>>

HandleCmd == HandleArm \/ HandleDisarm \/ HandleAttachEis \/ HandleEndCapture

----------------------------------------------------------------------------
(* Callbacks from the compositor.                                           *)

\* LayerShellHandler::configure: the first one draws, so that the layer maps.
Configure(b) ==
    /\ b \in surfaces \ drawn
    /\ drawn' = drawn \cup {b}
    /\ UNCHANGED <<surfaces, capture, pointer, grabs, chanVars>>

\* PointerEventKind::Enter on a barrier: begin_capture.
BeginCapture(b) ==
    /\ Len(events) < MaxEvents
    /\ b \in drawn
    /\ ~Capturing
    /\ pointer
    /\ capture' = [barrier |-> b, eis |-> NoConn, pending |-> <<>>,
                   inputs |-> 0, idle |-> FALSE]
    /\ grabs' = [grabs EXCEPT ![b] = Grab]
    /\ SendEvent(Activated(b))
    /\ UNCHANGED <<surfaces, drawn, pointer, cmds, eisq, taskVars, layout>>

\* The rank the next input of the capture gets; ranks wrap, since only their
\* order in a queue matters.
NextRank == 1 + (capture.inputs % (MaxInputs + 1))

\* A motion, key, button or scroll while capturing: forward, forward_frame.
Forward ==
    /\ Capturing
    /\ Len(capture.pending) < MaxInputs
    /\ capture.eis # NoConn => Len(eisq[capture.eis]) < MaxInputs
    /\ LET fed == [capture EXCEPT !.inputs = NextRank, !.idle = FALSE]
       IN IF capture.eis = NoConn
            THEN /\ capture' = [fed EXCEPT !.pending = Append(@, NextRank)]
                 /\ UNCHANGED eisq
            ELSE /\ capture' = fed
                 /\ SendEis(capture.eis, <<Input(NextRank)>>)
    /\ UNCHANGED <<surfaces, drawn, pointer, grabs, cmds, events, taskVars, layout>>

\* Mutant of Lose: a loss is reported whether there was a capture or not.
LoseAnyway ==
    /\ EndTheCapture
    /\ SendEvent(CaptureLost)
    /\ UNCHANGED <<surfaces, drawn, pointer, cmds, eisq, taskVars, layout>>

\* A capture ends without the client asking, and the portal is told.
Lose ==
    /\ Capturing
    /\ EndTheCapture
    /\ SendEvent(CaptureLost)
    /\ UNCHANGED <<surfaces, drawn, pointer, cmds, eisq, taskVars, layout>>

\* PointerConstraintsHandler::unlocked.
Unlocked == "unlock" \in Faults /\ Lose
\* press_key with Ctrl+Alt+Escape.
PanicKey == "panic" \in Faults /\ Lose
\* Mutant of Watchdog: a capture that has no EIS handle yet is not watched.
WatchdogOfAttached == Capturing /\ capture.eis # NoConn /\ capture.idle /\ Lose
\* check_watchdog, after every turn of the event loop.
Watchdog == Capturing /\ capture.idle /\ Lose

\* idle_timeout goes by without an input.
TimePasses ==
    /\ Capturing
    /\ ~capture.idle
    /\ capture' = [capture EXCEPT !.idle = TRUE]
    /\ UNCHANGED <<surfaces, drawn, pointer, grabs, chanVars>>

\* new_output and update_output only report.
OutputUpdated ==
    /\ "output" \in Faults
    /\ Len(events) < MaxEvents
    /\ layout' \in Layouts
    /\ SendEvent(OutputsChanged)
    /\ UNCHANGED <<threadVars, cmds, eisq, taskVars>>

\* output_destroyed: end_capture, disarm, report.  No CaptureLost is sent.
OutputDestroyed ==
    /\ "output" \in Faults
    /\ Len(events) < MaxEvents
    /\ layout' \in Layouts
    /\ capture' = NoCapture
    /\ surfaces' = {}
    /\ drawn' = {}
    /\ grabs' = [b \in BarrierId |-> {}]
    /\ SendEvent(OutputsChanged)
    /\ UNCHANGED <<pointer, cmds, eisq, taskVars>>

\* LayerShellHandler::closed: the compositor withdraws a layer.
LayerClosed(b) ==
    /\ "layer" \in Faults
    /\ b \in surfaces \/ (Capturing /\ capture.barrier = b)
    /\ capture' = IF Capturing /\ capture.barrier = b THEN NoCapture ELSE capture
    /\ surfaces' = surfaces \ {b}
    /\ drawn' = drawn \ {b}
    /\ grabs' = [grabs EXCEPT ![b] = {}]
    /\ UNCHANGED <<pointer, chanVars>>

\* SeatHandler: the pointer goes away, and comes back.
PointerRemoved ==
    /\ "pointer" \in Faults
    /\ pointer
    /\ pointer' = FALSE
    /\ EndTheCapture
    /\ UNCHANGED <<surfaces, drawn, chanVars>>

PointerAdded ==
    /\ ~pointer
    /\ pointer' = TRUE
    /\ UNCHANGED <<surfaces, drawn, capture, grabs, chanVars>>

Callback ==
    \/ \E b \in BarrierId : Configure(b) \/ LayerClosed(b)
    \/ Forward
    \/ Unlocked
    \/ PanicKey
    \/ TimePasses
    \/ OutputUpdated
    \/ OutputDestroyed
    \/ PointerRemoved
    \/ PointerAdded

----------------------------------------------------------------------------
(* The thread on its own: the portal may send it anything and EIS           *)
(* connections come and go, so what holds here holds for every portal.      *)
(* (A connection is attached while fewer than MaxInputs inputs wait in it.) *)

PortalSends ==
    /\ Len(cmds) < MaxCmds
    /\ \E m \in {Disarm, EndCapture} \cup {Arm(B) : B \in SUBSET BarrierId}
                  \cup {AttachEis(c) : c \in {d \in Conn : Len(eisq[d]) < MaxInputs}} :
          SendCmds(<<m>>)
    /\ UNCHANGED <<threadVars, events, eisq, taskVars, layout>>

PortalTakes ==
    /\ events # <<>>
    /\ events' = Tail(events)
    /\ UNCHANGED <<threadVars, cmds, eisq, taskVars, layout>>

EisConnects(c) ==
    /\ eisLive' = eisLive \cup {c}
    /\ UNCHANGED <<threadVars, cmds, events, eisq, closed, eisLabel, layout>>

EisTakes(c) ==
    /\ eisq[c] # <<>>
    /\ eisq' = [eisq EXCEPT ![c] = Tail(@)]
    /\ UNCHANGED <<threadVars, cmds, events, taskVars, layout>>

EisDies(c) ==
    /\ "eis" \in Faults
    /\ eisLive' = eisLive \ {c}
    /\ eisq' = [eisq EXCEPT ![c] = <<>>]
    /\ UNCHANGED <<threadVars, cmds, events, closed, eisLabel, layout>>

ThreadEnvironment ==
    \/ PortalSends
    \/ PortalTakes
    \/ \E c \in Conn : EisConnects(c) \/ EisTakes(c) \/ EisDies(c)

ThreadNext ==
    \/ HandleCmd
    \/ Callback
    \/ \E b \in BarrierId : BeginCapture(b)
    \/ Watchdog
    \/ ThreadEnvironment

allThreadVars == <<threadVars, chanVars>>

\* The event loop is dispatched for ever and checks the watchdog every 200 ms;
\* time passes.  Nothing else is owed: not an input, not a portal.
ThreadFairness ==
    /\ WF_allThreadVars(HandleCmd)
    /\ WF_allThreadVars(Watchdog)
    /\ WF_allThreadVars(TimePasses)

ThreadAlone == ChannelsInit /\ ThreadInit

ThreadSpec ==
    /\ ThreadAlone
    /\ [][ThreadNext]_allThreadVars
    /\ ThreadFairness

----------------------------------------------------------------------------
(* Properties.                                                              *)

\* Nothing on the screen is grabbed but by the capture that is running, and
\* that one has all three grabs.  Surfaces come and go under it (Disarm, Arm,
\* a closed layer, an unplugged output or pointer), and every path out of a
\* capture has to undo all three on the layer it was taken on.
GrabsFollowCapture ==
    \A b \in BarrierId :
        grabs[b] = IF Capturing /\ capture.barrier = b THEN Grab ELSE {}

\* What a step of a capture that goes on does with its inputs: what was waiting,
\* and what is new, is sent on from the front or still waiting.
Conserves ==
    Capturing /\ capture' # NoCapture =>
      LET fresh == IF capture'.inputs = capture.inputs
                     THEN <<>> ELSE <<capture'.inputs>>
          due == capture.pending \o fresh
          sent == SubSeq(due, 1, Len(due) - Len(capture'.pending))
          c == capture'.eis
      IN /\ due = sent \o capture'.pending
         /\ c = NoConn => sent = <<>>
         /\ c # NoConn => capture'.pending = <<>>
         /\ c \in eisLive /\ c \in eisLive' /\ Len(eisq'[c]) >= Len(eisq[c]) =>
              eisq'[c] = eisq[c] \o [i \in DOMAIN sent |-> Input(sent[i])]

\* What the user does from the crossing on goes to the client once, in order
\* and without a gap: it waits in pending until the EIS handle arrives, is then
\* flushed ahead of what follows, and a second handle does not repeat it.
InputConserved == [][Conserves]_allThreadVars

\* A capture does not go on in silence: unless it is fed again and again it
\* ends, whatever the portal, the client and the compositor do or fail to do.
SilentCaptureEnds ==
    <>[]Capturing => []<><<Forward>>_allThreadVars

(* The grab as its users see it: PointerGrab, with the holder read off what  *)
(* the compositor has locked.                                               *)
Locked == {b \in BarrierId : "lock" \in grabs[b]}

Holder == IF Locked = {} THEN "nobody" ELSE CHOOSE b \in Locked : TRUE

Grabbing == INSTANCE PointerGrab
              WITH Barrier <- BarrierId, Nobody <- "nobody",
                   holder <- Holder, offered <- drawn, reports <- events

\* The thread implements PointerGrab: the pointer is taken by one armed barrier
\* at a time, every taking is reported in order, and a loss is only ever
\* reported of a grab that was held.
ImplementsPointerGrab == Grabbing!Spec
=============================================================================
