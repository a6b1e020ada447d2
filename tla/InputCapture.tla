---------------------------- MODULE InputCapture ----------------------------
(***************************************************************************)
(* niri-input-portal as a whole, as far as capturing goes: the Wayland      *)
(* thread, the portal's tasks and the EIS tasks, over their queues, with    *)
(* clients that call what they like and a user who crosses edges.           *)
(***************************************************************************)
EXTENDS WaylandThread, PortalSessions, EisServer

vars == <<threadVars, portalVars, eisVars, chanVars>>

Init == ChannelsInit /\ ThreadInit /\ PortalInit /\ EisInit

\* A crossing, as long as there are ids left (bound MaxActivations).
Crossing ==
    /\ next_activation + CrossingsDue <= MaxActivations
    /\ \E b \in BarrierId : BeginCapture(b)

ThreadSteps ==
    /\ HandleCmd \/ Callback \/ Crossing \/ Watchdog
    /\ UNCHANGED <<portalVars, eisVars>>

PortalSteps ==
    /\ Calling \/ Answering \/ Releasing \/ Pumping
    /\ UNCHANGED <<threadVars, eisVars>>

EisSteps ==
    /\ \E c \in Conn : Command(c) \/ Client(c)
    /\ UNCHANGED <<threadVars, portalVars>>

Next == ThreadSteps \/ PortalSteps \/ EisSteps

\* The event loop and the runtime keep going, and time passes.  Users, clients,
\* compositor and EIS peers owe nothing.
Fairness ==
    /\ WF_vars(HandleCmd /\ UNCHANGED <<portalVars, eisVars>>)
    /\ WF_vars(Watchdog /\ UNCHANGED <<portalVars, eisVars>>)
    /\ WF_vars(TimePasses /\ UNCHANGED <<portalVars, eisVars>>)
    /\ WF_vars(Pumping /\ UNCHANGED <<threadVars, eisVars>>)
    /\ WF_vars(Answering /\ UNCHANGED <<threadVars, eisVars>>)
    /\ \A r \in Releaser : WF_vars(ReleaserSteps(r) /\ UNCHANGED <<threadVars, eisVars>>)
    /\ \A c \in Conn : WF_vars(Command(c) /\ UNCHANGED <<threadVars, portalVars>>)

Spec == Init /\ [][Next]_vars /\ Fairness

\* A session that has been created, given all barriers, connected and enabled.
EnabledEntry(c, zone_set) ==
    [registered |-> TRUE, started |-> TRUE, granted |-> TRUE, enabled |-> TRUE,
     eis |-> c, activation_id |-> 0, zone_set |-> zone_set, zones |-> layout,
     barriers |-> BarrierId, accepted |-> zone_set]

\* Every session has a connection and a zone set of its own.
SessionsSetUp(conn, zs) ==
    /\ \A s, t \in Session : s # t => conn[s] # conn[t] /\ zs[s] # zs[t]
    /\ sessions = [s \in Session |-> EnabledEntry(conn[s], zs[s])]
    /\ eisLive = {conn[s] : s \in Session}
    /\ eisLabel = [c \in Conn |-> IF \E s \in Session : conn[s] = c
                      THEN CHOOSE s \in Session : conn[s] = c ELSE Unspawned]

\* A later start: every session is enabled (CreateSession, SetPointerBarriers,
\* ConnectToEIS, Enable), and its client has shaken hands and bound its devices;
\* nothing is on its way, and no surface is up yet (the last Arm is still to be
\* handled).
SetUp ==
    /\ ThreadInit
    /\ layout \in Layouts
    /\ \E conn \in [Session -> Conn], zs \in [Session -> 1..Cardinality(Session)] :
         SessionsSetUp(conn, zs)
    /\ cmds = <<Arm(BarrierId)>>
    /\ events = <<>>
    /\ eisq = [c \in Conn |-> <<>>]
    /\ closed = <<>>
    /\ next_zone_set = Cardinality(Session) + 1
    /\ next_activation = 1
    /\ calls = {}
    /\ pump = Idle
    /\ releasers = [r \in Releaser |-> NotReleasing]
    /\ heard = [s \in Session |-> 0]
    /\ newest = [s \in Session |-> 0]
    /\ answered = [s \in Session |-> {}]
    /\ phase = [c \in Conn |-> IF c \in eisLive THEN "connected" ELSE "handshake"]
    /\ devices = [c \in Conn |-> IF c \in eisLive THEN Device ELSE {}]
    /\ emulating = [c \in Conn |-> FALSE]
    /\ stream = [c \in Conn |-> [d \in Device |-> 0]]

SetUpSpec == SetUp /\ [][Next]_vars /\ Fairness

----------------------------------------------------------------------------
(* Properties.                                                              *)

\* Nothing is under way: every queue is empty and no task is between two steps.
Settled ==
    /\ cmds = <<>> /\ events = <<>> /\ closed = <<>>
    /\ \A c \in Conn : eisq[c] = <<>>
    /\ calls = {}
    /\ pump = Idle
    /\ \A r \in Releaser : releasers[r] = NotReleasing

\* Once all is settled, the sequence each of the client's devices was started
\* with is the activation its session is in, 0 meaning neither (portal.rs:1162).
\* Starts and stops are sent by five handlers, in the order of a lock the EIS
\* task knows nothing of, and a start is ignored while one is in force.
StreamMatchesActivation ==
    Settled =>
        \A s \in Session :
            LET c == sessions[s].eis
            IN c \in eisLive /\ phase[c] = "connected" =>
                 \A d \in devices[c] : stream[c][d] = sessions[s].activation_id

\* In particular the sequence is the activation_id while there is one.
SequenceIsActivation ==
    Settled =>
        \A s \in Session :
            LET c == sessions[s].eis
            IN sessions[s].activation_id # 0 /\ c \in eisLive =>
                 \A d \in devices[c] : stream[c][d] = sessions[s].activation_id

\* On one connection the sequences rise: no start is overtaken or repeated.
SequencesRise ==
    \A c \in Conn : \A i \in DOMAIN eisq[c] :
        eisq[c][i].type = "StartEmulating" =>
            /\ eisq[c][i].sequence < next_activation
            /\ \A d \in Device : stream[c][d] < eisq[c][i].sequence
            /\ \A j \in 1..(i - 1) : eisq[c][j].type = "StartEmulating" =>
                  eisq[c][j].sequence < eisq[c][i].sequence

\* Once all is settled, the edges of an enabled session have their surfaces: a
\* Release, a forced release and a loss all leave them armed, though Arm is
\* ignored during a capture and the commands may arrive in the next one.
EdgesStayArmed ==
    Settled =>
        \A s \in Session : sessions[s].enabled =>
            sessions[s].barriers \cap OnEdge[layout] \subseteq surfaces

\* Once all is settled, what is captured goes to nobody but a client whose session
\* is active: though AttachEis may reach the thread in a later capture than the
\* one it was sent for (state.rs:329), and a Release of one session ends what may
\* by now be the capture of another (state.rs:148), the last word is right.
OnlyActiveIsFed ==
    Settled /\ Capturing /\ capture.eis # NoConn =>
        \E s \in Session :
            sessions[s].eis = capture.eis /\ sessions[s].activation_id # 0

\* A non-zero activation_id stands for a capture that is running (portal.rs:122).
ActivationIsCapture ==
    Settled => \A s \in Session : sessions[s].activation_id # 0 => Capturing

\* A capture does not outlive the connection it feeds (eis_server.rs:202).
CaptureHasLiveConnection ==
    Settled /\ Capturing /\ capture.eis # NoConn => capture.eis \in eisLive

\* ForceRelease gives the pointer back whatever the clients and their EIS
\* connections do: from the moment the call has run under the lock, the
\* capture in place comes to an end.
ForceReleaseWorks ==
    \A r \in Releaser : releasers[r].at = "unlock" ~> ~Capturing

\* Control.Disarm keeps the edges down "until a client re-enables"
\* (portal.rs:940): for good, where no client ever does.
DisarmHolds == releasers["control"].disarm ~> [](surfaces = {})
=============================================================================
