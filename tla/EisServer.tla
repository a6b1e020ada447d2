----------------------------- MODULE EisServer -----------------------------
(***************************************************************************)
(* The EIS connection tasks (eis_server.rs run): each waits for commands    *)
(* and for its client at once.  A task drops commands until the handshake   *)
(* is done, makes devices when the client binds them, and keeps one         *)
(* `emulating` flag for all of them.  It ends when the client goes away or  *)
(* breaks the protocol, and then leaves its session label in `closed`.      *)
(***************************************************************************)
EXTENDS Channels

CONSTANT Device     \* the kinds of device a client can bind

VARIABLES
    phase,      \* "handshake", then "connected"
    devices,    \* the devices made so far
    emulating,  \* Devices.emulating
    stream      \* client side: the sequence each device was started with, or 0

eisVars == <<phase, devices, emulating, stream>>

EisTypeOK ==
    /\ phase \in [Conn -> {"handshake", "connected"}]
    /\ devices \in [Conn -> SUBSET Device]
    /\ emulating \in [Conn -> BOOLEAN]
    /\ stream \in [Conn -> [Device -> Nat]]
    /\ \A c \in Conn, d \in Device :
          stream[c][d] # 0 => emulating[c] /\ d \in devices[c]

EisInit ==
    /\ phase = [c \in Conn |-> "handshake"]
    /\ devices = [c \in Conn |-> {}]
    /\ emulating = [c \in Conn |-> FALSE]
    /\ stream = [c \in Conn |-> [d \in Device |-> 0]]

----------------------------------------------------------------------------

\* drive_handshake.
HandshakeDone(c) ==
    /\ c \in eisLive
    /\ phase[c] = "handshake"
    /\ phase' = [phase EXCEPT ![c] = "connected"]
    /\ UNCHANGED <<devices, emulating, stream, chanVars>>

\* drive_requests, EisRequest::Bind: a kind that is already there is kept, a
\* new device is resumed but not started.
Bind(c, kinds) ==
    /\ c \in eisLive
    /\ phase[c] = "connected"
    /\ ~(kinds \subseteq devices[c])
    /\ devices' = [devices EXCEPT ![c] = @ \cup kinds]
    /\ UNCHANGED <<phase, emulating, stream, chanVars>>

Receive(c) ==
    /\ c \in eisLive
    /\ eisq[c] # <<>>
    /\ eisq' = [eisq EXCEPT ![c] = Tail(@)]

\* Before the handshake is done there is nothing to emit on.
DropCommand(c) ==
    /\ Receive(c)
    /\ phase[c] = "handshake"
    /\ UNCHANGED <<eisVars, cmds, events, taskVars, layout>>

\* Mutant of Told: a stop is noted in the flag, and no device is told.
ToldStarts(c, n) ==
    [d \in Device |-> IF n # 0 /\ d \in devices[c] THEN n ELSE stream[c][d]]

\* What the devices of c are started with once all of them are told n.
Told(c, n) == [d \in Device |-> IF d \in devices[c] THEN n ELSE stream[c][d]]

\* Devices::apply.  A second start and a second stop are ignored; an input goes
\* out whether or not its device emulates.
Apply(c) ==
    /\ Receive(c)
    /\ phase[c] = "connected"
    /\ LET cmd == Head(eisq[c])
           Tell(n) == stream' = [stream EXCEPT ![c] = Told(c, n)]
       IN CASE cmd.type = "StartEmulating" /\ ~emulating[c] ->
                 /\ Tell(cmd.sequence)
                 /\ emulating' = [emulating EXCEPT ![c] = TRUE]
            [] cmd.type = "StopEmulating" /\ emulating[c] ->
                 /\ Tell(0)
                 /\ emulating' = [emulating EXCEPT ![c] = FALSE]
            [] OTHER -> UNCHANGED <<stream, emulating>>
    /\ UNCHANGED <<phase, devices, cmds, events, taskVars, layout>>

\* Mutant of TaskDies: the connection is reported instead of its session.
TaskDiesUnlabelled(c) ==
    /\ "eis" \in Faults
    /\ c \in eisLive
    /\ eisLive' = eisLive \ {c}
    /\ eisq' = [eisq EXCEPT ![c] = <<>>]
    /\ closed' = Append(closed, c)
    /\ UNCHANGED <<eisVars, cmds, events, eisLabel, layout>>

\* The client disconnects, or the socket or the protocol fails.
TaskDies(c) ==
    /\ "eis" \in Faults
    /\ c \in eisLive
    /\ eisLive' = eisLive \ {c}
    /\ eisq' = [eisq EXCEPT ![c] = <<>>]
    /\ closed' = Append(closed, eisLabel[c])
    /\ UNCHANGED <<eisVars, cmds, events, eisLabel, layout>>

Command(c) == DropCommand(c) \/ Apply(c)

Client(c) ==
    \/ HandshakeDone(c)
    \/ \E kinds \in SUBSET Device : Bind(c, kinds)
    \/ TaskDies(c)
=============================================================================
