---------------------------- MODULE DataControl ----------------------------
(***************************************************************************)
(* The Wayland thread's half of the clipboard (wayland/clipboard.rs) and    *)
(* the compositor it watches through ext-data-control.                      *)
(*                                                                         *)
(* A selection is known by its rank among all the compositor ever had, an   *)
(* empty one included.  A mime type list and the offer or source that       *)
(* carries it are abstracted to that rank, and so is the pipe of a paste:   *)
(* it is known by the selection it was pasted from.                         *)
(*                                                                         *)
(* The clipboard's commands and events travel on the channels of capturing, *)
(* in order; the others' messages between them only add delay, so cmds and  *)
(* events are here what those channels hold for the clipboard.              *)
(***************************************************************************)
EXTENDS Integers, Sequences, FiniteSets

CONSTANTS
    Session,        \* session handles
    Task,           \* bound: one element per D-Bus call that may be under way
    MaxSelections,  \* bound: selections ever made
    MaxAtLoss       \* bound: selections made before the device goes, and that
                    \* only while nothing is on its way

ASSUME DataControlAssumption ==
    /\ MaxSelections \in Nat
    /\ MaxAtLoss \in Nat
    /\ {"control", "others"} \cap Session = {}

VARIABLES
    current,     \* compositor: the selection in force
    maker,       \* and who made it: "others" are local applications, or nobody
    wire,        \* compositor to thread: what the thread has not read yet
    device,      \* ClipboardState.device is there
    source,      \* ClipboardState.source, by the selection it made, or None
    offer,       \* ClipboardState.offer, likewise
    cmds,        \* WaylandCmd channel
    events,      \* WaylandEvent channel
    ignored      \* the last claim found no device and was dropped

compositorVars == <<current, maker, wire>>
clientVars == <<device, source, offer, ignored>>
dataControlVars == <<compositorVars, clientVars, cmds, events>>

None == 0
Ours == Session \cup {"control"}

----------------------------------------------------------------------------
(* Messages.                                                                *)

ClipboardClaim(by) == [type |-> "Claim", by |-> by]
ClipboardRelease == [type |-> "Release"]
ClipboardRead(t) == [type |-> "Read", reply |-> t]

WaylandCmd == [type : {"Claim"}, by : Ours]
                \cup [type : {"Read"}, reply : Task]
                \cup {ClipboardRelease}

Selection(n) == [type |-> "Selection", n |-> n]
Send(n) == [type |-> "Send", n |-> n]
Cancelled(n) == [type |-> "Cancelled", n |-> n]

Wire == [type : {"Selection", "Send", "Cancelled"}, n : Nat \ {None}]

ClipboardSelection(n, is_ours) ==
    [type |-> "Selection", mime_types |-> n, is_ours |-> is_ours]
ClipboardSend(n) == [type |-> "Send", fd |-> n]
ClipboardCancelled == [type |-> "Cancelled"]

WaylandEvent == [type : {"Selection"}, mime_types : Nat, is_ours : BOOLEAN]
                  \cup [type : {"Send"}, fd : Nat \ {None}]
                  \cup {ClipboardCancelled}

DataControlTypeOK ==
    /\ current \in Nat \ {None}
    /\ maker \in Ours \cup {"others"}
    /\ wire \in Seq(Wire)
    /\ device \in BOOLEAN
    /\ source \in 0..current
    /\ offer \in 0..current
    /\ cmds \in Seq(WaylandCmd)
    /\ events \in Seq(WaylandEvent)
    /\ ignored \in BOOLEAN

\* The keyboard's seat capability, and with it the device, is still to come.
DataControlInit ==
    /\ current = 1
    /\ maker = "others"
    /\ wire = <<>>
    /\ device = FALSE
    /\ source = None
    /\ offer = None
    /\ cmds = <<>>
    /\ events = <<>>
    /\ ignored = FALSE

----------------------------------------------------------------------------
(* The compositor (external).                                               *)

\* A new selection takes the place of the one in force: the source displaced,
\* if it is one of this process, is cancelled, and the device told, in the
\* order the compositor likes.  A request reaches the compositor at once: what
\* it does in between could as well have been done before.
Replace(by) ==
    /\ current' = current + 1
    /\ maker' = by
    /\ LET displaced == IF maker \in Ours THEN <<Cancelled(current)>> ELSE <<>>
           told == IF device THEN <<Selection(current + 1)>> ELSE <<>>
       IN wire' \in {wire \o displaced \o told, wire \o told \o displaced}

\* A local application copies.
LocalCopy ==
    /\ Replace("others")
    /\ UNCHANGED <<clientVars, cmds, events>>

\* A local application pastes what this process claimed.
LocalPaste ==
    /\ maker \in Ours
    /\ wire' = Append(wire, Send(current))
    /\ UNCHANGED <<current, maker, clientVars, cmds, events>>

----------------------------------------------------------------------------
(* Commands.                                                                *)

NextCmd(type) == cmds # <<>> /\ Head(cmds).type = type /\ cmds' = Tail(cmds)

\* Mutant of HandleClaim: the source is kept without a device to set it on.
HandleClaimAnyway ==
    /\ NextCmd("Claim")
    /\ ignored' = ~device
    /\ source' = current + 1
    /\ IF device THEN Replace(Head(cmds).by) ELSE UNCHANGED compositorVars
    /\ UNCHANGED <<device, offer, events>>

\* claim: a new source takes the selection and replaces the old one.  (Nobody
\* sends a claim without mime types, which would be a release.)
HandleClaim ==
    /\ NextCmd("Claim")
    /\ ignored' = ~device
    /\ IF device
         THEN Replace(Head(cmds).by) /\ source' = current + 1
         ELSE UNCHANGED <<compositorVars, source>>
    /\ UNCHANGED <<device, offer, events>>

\* release: with a device the selection is set to nothing, whoever holds it by
\* now; without one, destroying the source empties it where it is in force.
HandleRelease ==
    /\ NextCmd("Release")
    /\ source' = None
    /\ IF source # None /\ (device \/ source = current)
         THEN Replace("others")
         ELSE UNCHANGED compositorVars
    /\ UNCHANGED <<device, offer, events, ignored>>

----------------------------------------------------------------------------
(* Events from the compositor.                                              *)

NextOnWire(type) == wire # <<>> /\ Head(wire).type = type /\ wire' = Tail(wire)

\* Mutant of SelectionEvent: the offer there is stays.
SelectionEventKeepingOffer ==
    /\ NextOnWire("Selection")
    /\ offer' = IF offer = None THEN Head(wire).n ELSE offer
    /\ events' = Append(events, ClipboardSelection(Head(wire).n, source # None))
    /\ UNCHANGED <<current, maker, device, source, cmds, ignored>>

\* Event::Selection: the offer is replaced and the portal told, with whether
\* there is a source of ours at this moment.
SelectionEvent ==
    /\ NextOnWire("Selection")
    /\ offer' = Head(wire).n
    /\ events' = Append(events, ClipboardSelection(Head(wire).n, source # None))
    /\ UNCHANGED <<current, maker, device, source, cmds, ignored>>

\* Event::Send: of a source that has been replaced it is dropped, and the
\* pipe with it.
SendEvent ==
    /\ NextOnWire("Send")
    /\ events' = IF Head(wire).n = source
                   THEN Append(events, ClipboardSend(source)) ELSE events
    /\ UNCHANGED <<current, maker, clientVars, cmds>>

\* Mutant of CancelledEvent: whichever source is cancelled, the claim is gone.
CancelledEventOfAny ==
    /\ NextOnWire("Cancelled")
    /\ source' = None
    /\ events' = Append(events, ClipboardCancelled)
    /\ UNCHANGED <<current, maker, device, offer, cmds, ignored>>

\* Event::Cancelled: only the current source's ends the claim.
CancelledEvent ==
    /\ NextOnWire("Cancelled")
    /\ IF Head(wire).n = source
         THEN source' = None /\ events' = Append(events, ClipboardCancelled)
         ELSE UNCHANGED <<source, events>>
    /\ UNCHANGED <<current, maker, device, offer, cmds, ignored>>

\* watch_seat, when a seat gains its keyboard: the new device is told at once
\* what is on the clipboard.
WatchSeat ==
    /\ ~device
    /\ device' = TRUE
    /\ wire' = Append(wire, Selection(current))
    /\ UNCHANGED <<current, maker, source, offer, cmds, events, ignored>>

\* Event::Finished: the device is gone.  It is the last the compositor sends
\* for it, and the thread is taken to have read all before it.
Finished ==
    /\ device
    /\ current <= MaxAtLoss /\ events = <<>> /\ cmds = <<>>
    /\ wire = <<>>
    /\ device' = FALSE
    /\ UNCHANGED <<compositorVars, source, offer, cmds, events, ignored>>

HandleCmd == HandleClaim \/ HandleRelease
WireEvent == SelectionEvent \/ SendEvent \/ CancelledEvent
=============================================================================
