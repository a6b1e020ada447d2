------------------------------ MODULE Channels ------------------------------
(***************************************************************************)
(* What the parts of niri-input-portal share: the three kinds of queue      *)
(* they talk over and the output layout all of them read.                   *)
(*                                                                         *)
(*   cmds    the calloop channel, D-Bus tasks to the Wayland thread         *)
(*           (wayland/mod.rs WaylandCmd);                                   *)
(*   events  the tokio channel, Wayland thread to pump_wayland_events       *)
(*           (wayland/mod.rs WaylandEvent);                                 *)
(*   eisq    one tokio channel per EIS connection, everybody to its task    *)
(*           (eis_server.rs EisCommand);                                    *)
(*   closed  the tokio channel on which an EIS task that ended leaves its   *)
(*           session label for handle_eis_closed.                           *)
(*                                                                         *)
(* All of them are unbounded, in order and lossless while both ends live.   *)
(* The clipboard's commands and events are not part of this module.         *)
(***************************************************************************)
EXTENDS Integers, Sequences, FiniteSets

CONSTANTS
    Session,     \* session handles (D-Bus object paths)
    BarrierId,   \* barrier ids a client may choose, all non-zero
    MaxConns,    \* bound: EIS connections ever spawned
    MaxCmds,     \* bound: commands waiting when a caller adds one
    Layouts,     \* output layouts the compositor may present
    OnEdge,      \* OnEdge[l]: the barriers that lie on an output edge in l
    Faults       \* which of the things that go wrong the instance lets happen

ASSUME ChannelAssumption ==
    /\ MaxConns \in Nat
    /\ MaxCmds \in Nat
    /\ OnEdge \in [Layouts -> SUBSET BarrierId]
    /\ Faults \subseteq {"output", "layer", "pointer", "unlock", "panic", "eis"}

VARIABLES
    cmds, events, eisq, closed,
    eisLive,     \* connections whose task still runs
    eisLabel,    \* the session each connection was spawned for
    layout       \* the outputs niri and the compositor show right now

taskVars == <<closed, eisLive, eisLabel>>
chanVars == <<cmds, events, eisq, taskVars, layout>>

Conn == 1..MaxConns
NoConn == 0          \* Option<EisHandle>::None
Unspawned == "unspawned"

----------------------------------------------------------------------------
(* Messages.  A coordinate, a key code or a cursor hint is left out: no      *)
(* property of these modules depends on one.                                *)

Arm(B) == [type |-> "Arm", barriers |-> B]
Disarm == [type |-> "Disarm"]
AttachEis(c) == [type |-> "AttachEis", eis |-> c]
EndCapture == [type |-> "EndCapture"]

WaylandCmd == [type : {"Arm"}, barriers : SUBSET BarrierId]
                \cup [type : {"AttachEis"}, eis : Conn]
                \cup {Disarm, EndCapture}

Activated(b) == [type |-> "Activated", barrier |-> b]
CaptureLost == [type |-> "CaptureLost"]
OutputsChanged == [type |-> "OutputsChanged"]

WaylandEvent == [type : {"Activated"}, barrier : BarrierId]
                  \cup {CaptureLost, OutputsChanged}

\* An input event together with the Frame that closes it is one message; n is
\* its rank among the inputs of the capture it was taken in.
Input(n) == [type |-> "Input", n |-> n]
StartEmulating(seq) == [type |-> "StartEmulating", sequence |-> seq]
StopEmulating == [type |-> "StopEmulating"]

EisCommand == [type : {"Input"}, n : Nat]
                \cup [type : {"StartEmulating"}, sequence : Nat]
                \cup {StopEmulating}

----------------------------------------------------------------------------

SendCmds(s) == cmds' = cmds \o s
SendEvent(e) == events' = Append(events, e)

\* EisHandle::send: a command for a connection whose task has ended is dropped.
SendEisAll(C, s) ==
    eisq' = [c \in Conn |-> IF c \in C \cap eisLive THEN eisq[c] \o s ELSE eisq[c]]
SendEis(c, s) == SendEisAll({c}, s)

ChannelsTypeOK ==
    /\ cmds \in Seq(WaylandCmd)
    /\ events \in Seq(WaylandEvent)
    /\ eisq \in [Conn -> Seq(EisCommand)]
    /\ eisLive \subseteq Conn
    /\ eisLabel \in [Conn -> Session \cup {Unspawned}]
    /\ closed \in Seq(Session)
    /\ layout \in Layouts

ChannelsInit ==
    /\ cmds = <<>>
    /\ events = <<>>
    /\ eisq = [c \in Conn |-> <<>>]
    /\ eisLive = {}
    /\ eisLabel = [c \in Conn |-> Unspawned]
    /\ closed = <<>>
    /\ layout \in Layouts
=============================================================================
