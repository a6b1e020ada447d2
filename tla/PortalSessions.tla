--------------------------- MODULE PortalSessions ---------------------------
(***************************************************************************)
(* The portal side of input capture (portal.rs): the session map, the D-Bus *)
(* methods of InputCapture, Session and Control, pump_wayland_events,       *)
(* handle_eis_closed and force_release_all.                                 *)
(*                                                                         *)
(* Every D-Bus call is a tokio task of its own, the pump and the EIS        *)
(* watcher are two more; the sessions mutex is all that orders them.  One   *)
(* action is therefore one stretch of a task under that lock (with the      *)
(* sends made under it), and whatever a task does after an unlock or an     *)
(* await is a further action, with what it remembers in `calls`, `pump` or  *)
(* `releasers`.  Calls the code refuses change nothing and are left out, as *)
(* is the clipboard, which has a lock of its own.                           *)
(***************************************************************************)
EXTENDS Channels

CONSTANTS
    MaxCalls,        \* bound: calls that have read the outputs, not yet locked
    MaxZoneSets,     \* bound: zone set ids handed out
    MaxActivations,  \* bound: activation ids handed out
    MaxQueued,       \* bound: EIS commands waiting when a caller adds one
    BarrierSets,     \* the sets of barriers clients submit
    Methods          \* the D-Bus methods called in the instance

\* A barrier without an id or position, with the id 0, or not axis-aligned.
Malformed == "malformed"

ASSUME PortalAssumption ==
    /\ {MaxCalls, MaxZoneSets, MaxActivations, MaxQueued} \subseteq Nat
    /\ Malformed \notin BarrierId
    /\ BarrierSets \subseteq SUBSET (BarrierId \cup {Malformed})

VARIABLES
    sessions,        \* State.sessions; Gone where the map has no entry
    next_zone_set, next_activation,
    calls,           \* calls between niri::outputs() and the lock
    pump,            \* where pump_wayland_events stands
    releasers,       \* where the callers of force_release_all stand
    heard,           \* per client: the activation it was last told of, or 0
    newest,          \* per client: the largest activation ever announced
    answered         \* per session: the (zone set, layout) pairs GetZones gave

portalVars == <<sessions, next_zone_set, next_activation, calls, pump,
                releasers, heard, newest, answered>>

NoZones == "no zones"

\* granted: the negotiated capabilities are not zero.  accepted is not in the
\* code: the zone set SetPointerBarriers last accepted barriers for.
Entry == [registered : BOOLEAN, started : BOOLEAN, granted : BOOLEAN,
          enabled : BOOLEAN, eis : Conn \cup {NoConn}, activation_id : Nat,
          zone_set : Nat, zones : Layouts \cup {NoZones},
          barriers : SUBSET BarrierId, accepted : Nat]

Gone == [registered |-> FALSE, started |-> FALSE, granted |-> FALSE,
         enabled |-> FALSE, eis |-> NoConn, activation_id |-> 0,
         zone_set |-> 0, zones |-> NoZones, barriers |-> {}, accepted |-> 0]

Call == [method : {"CreateSession", "CreateSession2", "Export", "GetZones"},
         session : Session, outputs : Layouts]

\* The pump between two locks: a crossing whose session was found, an Activated
\* signal to emit, a CaptureLost being worked through, a Deactivated to emit.
Lost == [session : Session, barriers : SUBSET BarrierId]
Pump == [at : {"idle"}]
          \cup [at : {"crossing"}, session : Session]
          \cup [at : {"announce"}, session : Session, id : Nat]
          \cup [at : {"lost"}, todo : SUBSET Lost]
          \cup [at : {"tell"}, now : Lost, id : Nat, todo : SUBSET Lost]
Idle == [at |-> "idle"]

\* force_release_all runs for a Control call and for handle_eis_closed.  One
\* Control call at a time is let in.
Releaser == {"control", "eis"}
Release == [at : {"idle", "found", "unlock", "tell"},
            todo : SUBSET Session, disarm : BOOLEAN]
NotReleasing == [at |-> "idle", todo |-> {}, disarm |-> FALSE]

PortalTypeOK ==
    /\ sessions \in [Session -> Entry]
    /\ next_zone_set \in Nat
    /\ next_activation \in Nat
    /\ calls \subseteq Call
    /\ pump \in Pump
    /\ releasers \in [Releaser -> Release]
    /\ heard \in [Session -> Nat]
    /\ newest \in [Session -> Nat]
    /\ answered \in [Session -> SUBSET (Nat \X Layouts)]

PortalInit ==
    /\ sessions = [s \in Session |-> Gone]
    /\ next_zone_set = 1
    /\ next_activation = 1
    /\ calls = {}
    /\ pump = Idle
    /\ releasers = [r \in Releaser |-> NotReleasing]
    /\ heard = [s \in Session |-> 0]
    /\ newest = [s \in Session |-> 0]
    /\ answered = [s \in Session |-> {}]

----------------------------------------------------------------------------

\* A call comes in: the instance has it, and the queues have room for more.
Called(method) ==
    /\ method \in Methods
    /\ Len(cmds) < MaxCmds
    /\ \A c \in Conn : Len(eisq[c]) < MaxQueued

\* Mutant of Capturers: sessions whose connection is dead are passed over.
CapturersAlive == {s \in Session : sessions[s].activation_id # 0 /\ sessions[s].eis \in eisLive}

Capturers == {s \in Session : sessions[s].activation_id # 0}
ConnsOf(S) == {sessions[s].eis : s \in S} \ {NoConn}

----------------------------------------------------------------------------
(* Session lifecycle.                                                       *)

\* create, up to niri::outputs().  xdg-desktop-portal does not reuse a handle
\* while a session has it.
CreateBegins(s, method) ==
    /\ Called(method)
    /\ Cardinality(calls) < MaxCalls
    /\ next_zone_set + Cardinality(calls) <= MaxZoneSets
    /\ ~sessions[s].registered
    /\ \A call \in calls : call.session = s => call.method = "GetZones"
    /\ calls' = calls \cup {[method |-> method, session |-> s, outputs |-> layout]}
    /\ UNCHANGED <<sessions, next_zone_set, next_activation, pump, releasers,
                   heard, newest, answered, chanVars>>

\* Only CreateSession grants capabilities and starts.
NewEntry(call) ==
    [Gone EXCEPT !.registered = TRUE, !.zone_set = next_zone_set, !.zones = call.outputs,
                 !.started = (call.method = "CreateSession"),
                 !.granted = (call.method = "CreateSession")]

\* create, under the lock.
CreateInserts(call) ==
    /\ call.method \in {"CreateSession", "CreateSession2"}
    /\ sessions' = [sessions EXCEPT ![call.session] = NewEntry(call)]
    /\ next_zone_set' = next_zone_set + 1
    /\ calls' = (calls \ {call}) \cup {[call EXCEPT !.method = "Export"]}
    /\ UNCHANGED <<next_activation, pump, releasers, heard, newest, answered, chanVars>>

\* object_server.at; if it fails the session is taken out again.
CreateExports(call) ==
    /\ call.method = "Export"
    /\ calls' = calls \ {call}
    /\ \/ UNCHANGED sessions
       \/ sessions' = [sessions EXCEPT ![call.session] = Gone]
    /\ UNCHANGED <<next_zone_set, next_activation, pump, releasers, heard,
                   newest, answered, chanVars>>

Start(s) ==
    /\ Called("Start")
    /\ sessions[s].registered
    /\ ~sessions[s].started
    /\ sessions' = [sessions EXCEPT ![s].started = TRUE, ![s].granted = TRUE]
    /\ UNCHANGED <<next_zone_set, next_activation, calls, pump, releasers,
                   heard, newest, answered, chanVars>>

\* The Session object exists once exported.  No EndCapture, no Disarm and no
\* StopEmulating is sent for the session that goes.
Close(s) ==
    /\ Called("Close")
    /\ sessions[s].registered
    /\ \A call \in calls : call.session = s => call.method # "Export"
    /\ sessions' = [sessions EXCEPT ![s] = Gone]
    /\ heard' = [heard EXCEPT ![s] = 0]
    /\ answered' = [answered EXCEPT ![s] = {}]
    /\ UNCHANGED <<next_zone_set, next_activation, calls, pump, releasers,
                   newest, chanVars>>

----------------------------------------------------------------------------
(* Zones, barriers, EIS.                                                    *)

GetZonesBegins(s) ==
    /\ Called("GetZones")
    /\ sessions[s].registered
    /\ Cardinality(calls) < MaxCalls
    /\ next_zone_set + Cardinality(calls) <= MaxZoneSets
    /\ calls' = calls \cup {[method |-> "GetZones", session |-> s, outputs |-> layout]}
    /\ UNCHANGED <<sessions, next_zone_set, next_activation, pump, releasers,
                   heard, newest, answered, chanVars>>

\* Under the lock: a changed layout moves zone_set on and voids the barriers.
GetZonesAnswers(call) ==
    /\ call.method = "GetZones"
    /\ calls' = calls \ {call}
    /\ LET s == call.session
           changed == sessions[s].zones # call.outputs
           id == IF changed THEN next_zone_set ELSE sessions[s].zone_set
       IN IF ~sessions[s].registered
            THEN UNCHANGED <<sessions, next_zone_set, answered>>
            ELSE /\ next_zone_set' = next_zone_set + (IF changed THEN 1 ELSE 0)
                 /\ sessions' = [sessions EXCEPT
                       ![s].zone_set = id,
                       ![s].zones = call.outputs,
                       ![s].barriers = IF changed THEN {} ELSE @]
                 /\ answered' = [answered EXCEPT ![s] = @ \cup {<<id, call.outputs>>}]
    /\ UNCHANGED <<next_activation, pump, releasers, heard, newest, chanVars>>

\* Mutant of Current: a stale zone set is accepted.
CurrentUnchecked(s, zone_set) == TRUE

Current(s, zone_set) == zone_set = sessions[s].zone_set

\* Mutant of Accepted: the barriers are taken as they come.
AcceptedAsSubmitted(B) == B

\* Each is checked by itself, and only those that are well formed get through.
Accepted(B) == B \ {Malformed}

\* zone_set is whatever the client passes; a stale one leaves all as it was.
SetPointerBarriers(s, B, zone_set) ==
    /\ Called("SetPointerBarriers")
    /\ sessions[s].registered
    /\ Current(s, zone_set)
    /\ sessions' = [sessions EXCEPT ![s].barriers = Accepted(B), ![s].accepted = zone_set]
    /\ UNCHANGED <<next_zone_set, next_activation, calls, pump, releasers,
                   heard, newest, answered, chanVars>>

\* connect_to_eis and eis_server::spawn.
ConnectToEIS(s, c) ==
    /\ Called("ConnectToEIS")
    /\ sessions[s].registered
    /\ sessions[s].eis = NoConn
    /\ eisLabel[c] = Unspawned
    /\ \A d \in Conn : d < c => eisLabel[d] # Unspawned
    /\ eisLabel' = [eisLabel EXCEPT ![c] = s]
    /\ eisLive' = eisLive \cup {c}
    /\ sessions' = [sessions EXCEPT ![s].eis = c]
    /\ UNCHANGED <<next_zone_set, next_activation, calls, pump, releasers,
                   heard, newest, answered, cmds, events, eisq, closed, layout>>

----------------------------------------------------------------------------
(* Enable, Disable, Release.                                                *)

Enable(s) ==
    /\ Called("Enable")
    /\ sessions[s].registered
    /\ sessions[s].started
    /\ sessions[s].eis # NoConn
    /\ sessions' = [sessions EXCEPT ![s].enabled = TRUE]
    /\ SendCmds(<<Arm(sessions[s].barriers)>>)
    /\ UNCHANGED <<next_zone_set, next_activation, calls, pump, releasers,
                   heard, newest, answered, events, eisq, taskVars, layout>>

\* Only Disarm is sent: no EndCapture, and no StopEmulating.
Disable(s) ==
    /\ Called("Disable")
    /\ sessions[s].registered
    /\ sessions' = [sessions EXCEPT ![s].enabled = FALSE, ![s].activation_id = 0]
    /\ SendCmds(<<Disarm>>)
    /\ heard' = [heard EXCEPT ![s] = 0]
    /\ UNCHANGED <<next_zone_set, next_activation, calls, pump, releasers,
                   newest, answered, events, eisq, taskVars, layout>>

\* Mutant of ReleaseCapture: the surfaces are armed again and nothing unlocked.
ReleaseCaptureKeepingLock(s) ==
    /\ Called("Release")
    /\ sessions[s].registered
    /\ sessions' = [sessions EXCEPT ![s].activation_id = 0]
    /\ SendEisAll(ConnsOf({s}), <<StopEmulating>>)
    /\ SendCmds(IF sessions[s].enabled THEN <<Arm(sessions[s].barriers)>> ELSE <<>>)
    /\ heard' = [heard EXCEPT ![s] = 0]
    /\ UNCHANGED <<next_zone_set, next_activation, calls, pump, releasers,
                   newest, answered, events, taskVars, layout>>

\* InputCapture.Release: stop the stream, unlock, and only then arm again.  The
\* two commands are one append here; senders that hold no lock, the pump's Arm
\* after a loss and a forced release, come before both or after both.
ReleaseCapture(s) ==
    /\ Called("Release")
    /\ sessions[s].registered
    /\ sessions' = [sessions EXCEPT ![s].activation_id = 0]
    /\ SendEisAll(ConnsOf({s}), <<StopEmulating>>)
    /\ SendCmds(IF sessions[s].enabled
                  THEN <<EndCapture, Arm(sessions[s].barriers)>> ELSE <<EndCapture>>)
    /\ heard' = [heard EXCEPT ![s] = 0]
    /\ UNCHANGED <<next_zone_set, next_activation, calls, pump, releasers,
                   newest, answered, events, taskVars, layout>>

----------------------------------------------------------------------------
(* force_release_all, for r: a Control call or the EIS watcher.             *)

\* Mutant of ReleaseAll: the sessions' clients are not told to stop streaming.
ReleaseAllWithoutStop(r, disarm) ==
    /\ sessions' = [s \in Session |-> [sessions[s] EXCEPT !.activation_id = 0]]
    /\ releasers' = [releasers EXCEPT ![r] =
                       [at |-> "unlock", todo |-> Capturers, disarm |-> disarm]]
    /\ UNCHANGED <<next_zone_set, next_activation, calls, pump, heard, newest,
                   answered, cmds, events, eisq, taskVars, layout>>

\* Under the lock: every active session is told to stop streaming.
ReleaseAll(r, disarm) ==
    /\ sessions' = [s \in Session |-> [sessions[s] EXCEPT !.activation_id = 0]]
    /\ SendEisAll(ConnsOf(Capturers), <<StopEmulating>>)
    /\ releasers' = [releasers EXCEPT ![r] =
                       [at |-> "unlock", todo |-> Capturers, disarm |-> disarm]]
    /\ UNCHANGED <<next_zone_set, next_activation, calls, pump, heard, newest,
                   answered, cmds, events, taskVars, layout>>

ForceRelease ==
    /\ Called("ForceRelease")
    /\ releasers["control"].at = "idle"
    /\ ReleaseAll("control", FALSE)

ControlDisarm ==
    /\ Called("Disarm")
    /\ releasers["control"].at = "idle"
    /\ ReleaseAll("control", TRUE)

\* Mutant of EisClosed: the report is taken and dropped.
EisClosedIgnored ==
    /\ releasers["eis"].at = "idle"
    /\ closed # <<>>
    /\ closed' = Tail(closed)
    /\ UNCHANGED <<sessions, next_zone_set, next_activation, calls, pump, releasers,
                   heard, newest, answered, cmds, events, eisq, eisLive, eisLabel, layout>>

\* handle_eis_closed looks under the lock, and releases under another one.
EisClosed ==
    /\ releasers["eis"].at = "idle"
    /\ closed # <<>>
    /\ closed' = Tail(closed)
    /\ releasers' = IF Head(closed) \in Capturers
                      THEN [releasers EXCEPT !["eis"].at = "found"] ELSE releasers
    /\ UNCHANGED <<sessions, next_zone_set, next_activation, calls, pump, heard,
                   newest, answered, cmds, events, eisq, eisLive, eisLabel, layout>>

EisClosedReleases == releasers["eis"].at = "found" /\ ReleaseAll("eis", FALSE)

\* Mutant of ReleaseUnlocks: the pointer is only freed if a session was active.
ReleaseUnlocksForSessions(r) ==
    /\ releasers[r].at = "unlock"
    /\ SendCmds(IF releasers[r].todo = {} THEN <<>> ELSE <<EndCapture>>)
    /\ releasers' = [releasers EXCEPT ![r].at = "tell"]
    /\ UNCHANGED <<sessions, next_zone_set, next_activation, calls, pump, heard,
                   newest, answered, events, eisq, taskVars, layout>>

\* After the unlock: free the pointer first.
ReleaseUnlocks(r) ==
    /\ releasers[r].at = "unlock"
    /\ SendCmds(<<EndCapture>>)
    /\ releasers' = [releasers EXCEPT ![r].at = "tell"]
    /\ UNCHANGED <<sessions, next_zone_set, next_activation, calls, pump, heard,
                   newest, answered, events, eisq, taskVars, layout>>

\* Then Deactivated, with activation_id 0, for one session after the other.
ReleaseTells(r, s) ==
    /\ releasers[r].at = "tell"
    /\ s \in releasers[r].todo
    /\ heard' = [heard EXCEPT ![s] = 0]
    /\ releasers' = [releasers EXCEPT ![r].todo = @ \ {s}]
    /\ UNCHANGED <<sessions, next_zone_set, next_activation, calls, pump,
                   newest, answered, chanVars>>

\* Control.Disarm tears the surfaces down last.
ReleaseDone(r) ==
    /\ releasers[r].at = "tell"
    /\ releasers[r].todo = {}
    /\ releasers' = [releasers EXCEPT ![r] = NotReleasing]
    /\ IF releasers[r].disarm THEN SendCmds(<<Disarm>>) ELSE UNCHANGED cmds
    /\ UNCHANGED <<sessions, next_zone_set, next_activation, calls, pump, heard,
                   newest, answered, events, eisq, taskVars, layout>>

ReleaserSteps(r) ==
    \/ r = "eis" /\ (EisClosed \/ EisClosedReleases)
    \/ ReleaseUnlocks(r)
    \/ ReleaseDone(r)
    \/ \E s \in Session : ReleaseTells(r, s)

Releasing == \E r \in Releaser : ReleaserSteps(r)

----------------------------------------------------------------------------
(* pump_wayland_events.                                                     *)

NextEvent(type) ==
    /\ pump = Idle
    /\ events # <<>>
    /\ Head(events).type = type
    /\ events' = Tail(events)

\* session_for_barrier: any enabled session with that barrier, if there is one.
PumpActivated ==
    /\ NextEvent("Activated")
    /\ LET owners == {s \in Session : sessions[s].enabled
                                        /\ Head(events).barrier \in sessions[s].barriers}
       IN IF owners = {} THEN pump' = Idle
          ELSE \E s \in owners : pump' = [at |-> "crossing", session |-> s]
    /\ UNCHANGED <<sessions, next_zone_set, next_activation, calls, releasers,
                   heard, newest, answered, cmds, eisq, taskVars, layout>>

\* Mutant of MayActivate: what was found before the lock is taken as still true.
MayActivateUnchecked(s) == sessions[s].activation_id = 0

\* Enabled still, and not in a run already.
MayActivate(s) == sessions[s].enabled /\ sessions[s].activation_id = 0

\* Mutant of TakeId: the counter is read and not moved on.
TakeNoId == UNCHANGED next_activation

TakeId == next_activation' = next_activation + 1

\* activate takes an id, then the lock, then looks at the session again.
Activate ==
    /\ pump.at = "crossing"
    /\ TakeId
    /\ LET s == pump.session
       IN IF MayActivate(s)
            THEN /\ sessions' = [sessions EXCEPT ![s].activation_id = next_activation]
                 /\ SendEisAll(ConnsOf({s}), <<StartEmulating(next_activation)>>)
                 /\ cmds' = IF sessions[s].eis = NoConn THEN cmds
                            ELSE Append(cmds, AttachEis(sessions[s].eis))
                 /\ pump' = [at |-> "announce", session |-> s, id |-> next_activation]
            ELSE /\ pump' = Idle
                 /\ UNCHANGED <<sessions, eisq, cmds>>
    /\ UNCHANGED <<next_zone_set, calls, releasers, heard, newest, answered,
                   events, taskVars, layout>>

\* Mutant of AnnounceActivated: the signal is not emitted.
AnnounceActivatedInSilence ==
    /\ pump.at = "announce"
    /\ pump' = Idle
    /\ UNCHANGED <<sessions, next_zone_set, next_activation, calls, releasers,
                   heard, newest, answered, chanVars>>

\* Mutant of AnnounceActivated: the signal is emitted again and again.
AnnounceActivatedAgain ==
    /\ pump.at = "announce"
    /\ pump' \in {Idle, pump}
    /\ heard' = [heard EXCEPT ![pump.session] = pump.id]
    /\ newest' = [newest EXCEPT ![pump.session] = pump.id]
    /\ UNCHANGED <<sessions, next_zone_set, next_activation, calls, releasers,
                   answered, chanVars>>

\* The signal goes out after the unlock.
AnnounceActivated ==
    /\ pump.at = "announce"
    /\ pump' = Idle
    /\ heard' = [heard EXCEPT ![pump.session] = pump.id]
    /\ newest' = [newest EXCEPT ![pump.session] = pump.id]
    /\ UNCHANGED <<sessions, next_zone_set, next_activation, calls, releasers,
                   answered, chanVars>>

\* CaptureLost: the active sessions and their barriers are read in one go ...
PumpCaptureLost ==
    /\ NextEvent("CaptureLost")
    /\ pump' = [at |-> "lost",
                todo |-> {[session |-> s, barriers |-> sessions[s].barriers] : s \in Capturers}]
    /\ UNCHANGED <<sessions, next_zone_set, next_activation, calls, releasers,
                   heard, newest, answered, cmds, eisq, taskVars, layout>>

\* ... then each is deactivated, if it still is active ...
Deactivate(l) ==
    /\ pump.at = "lost"
    /\ l \in pump.todo
    /\ LET s == l.session
       IN /\ pump' = [at |-> "tell", now |-> l, id |-> sessions[s].activation_id,
                      todo |-> pump.todo \ {l}]
          /\ sessions' = [sessions EXCEPT ![s].activation_id = 0]
          /\ SendEisAll(ConnsOf({s} \cap Capturers), <<StopEmulating>>)
    /\ UNCHANGED <<next_zone_set, next_activation, calls, releasers, heard,
                   newest, answered, cmds, events, taskVars, layout>>

\* ... and its barriers are put back as they were read.
AnnounceDeactivated ==
    /\ pump.at = "tell"
    /\ pump' = [at |-> "lost", todo |-> pump.todo]
    /\ heard' = IF pump.id = 0 THEN heard ELSE [heard EXCEPT ![pump.now.session] = 0]
    /\ SendCmds(<<Arm(pump.now.barriers)>>)
    /\ UNCHANGED <<sessions, next_zone_set, next_activation, calls, releasers,
                   newest, answered, events, eisq, taskVars, layout>>

CaptureLostDone ==
    /\ pump.at = "lost"
    /\ pump.todo = {}
    /\ pump' = Idle
    /\ UNCHANGED <<sessions, next_zone_set, next_activation, calls, releasers,
                   heard, newest, answered, chanVars>>

\* OutputsChanged only emits ZonesChanged.
PumpOutputsChanged ==
    /\ NextEvent("OutputsChanged")
    /\ UNCHANGED <<portalVars, cmds, eisq, taskVars, layout>>

Pumping ==
    \/ PumpActivated
    \/ Activate
    \/ AnnounceActivated
    \/ PumpCaptureLost
    \/ \E l \in (IF pump.at = "lost" THEN pump.todo ELSE {}) : Deactivate(l)
    \/ AnnounceDeactivated
    \/ CaptureLostDone
    \/ PumpOutputsChanged

----------------------------------------------------------------------------

Calling ==
    \/ \E s \in Session :
          \/ \E method \in {"CreateSession", "CreateSession2"} : CreateBegins(s, method)
          \/ Start(s)
          \/ Close(s)
          \/ GetZonesBegins(s)
          \/ \E B \in BarrierSets, id \in 1..MaxZoneSets : SetPointerBarriers(s, B, id)
          \/ \E c \in Conn : ConnectToEIS(s, c)
          \/ Enable(s)
          \/ Disable(s)
          \/ ReleaseCapture(s)
    \/ ForceRelease
    \/ ControlDisarm

Answering ==
    \E call \in calls : CreateInserts(call) \/ CreateExports(call) \/ GetZonesAnswers(call)

----------------------------------------------------------------------------
(* The portal on its own: the Wayland thread may report anything in any     *)
(* order, take commands when it likes, and EIS connections die.             *)

\* Bound on the ids to come: crossings waiting or under way included.
CrossingsDue == Cardinality({i \in DOMAIN events : events[i].type = "Activated"})
                  + (IF pump.at = "crossing" THEN 1 ELSE 0)

ThreadReports ==
    /\ events = <<>>
    /\ \/ /\ next_activation + CrossingsDue <= MaxActivations
          /\ \E b \in BarrierId : SendEvent(Activated(b))
          /\ UNCHANGED layout
       \/ SendEvent(CaptureLost) /\ UNCHANGED layout
       \/ "output" \in Faults /\ SendEvent(OutputsChanged) /\ layout' \in Layouts
    /\ UNCHANGED <<portalVars, cmds, eisq, taskVars>>

\* The portal never looks at what it has sent; the others take all of it at a time.
OthersTake ==
    /\ cmds # <<>> \/ \E c \in Conn : eisq[c] # <<>>
    /\ cmds' = <<>>
    /\ eisq' = [c \in Conn |-> <<>>]
    /\ UNCHANGED <<portalVars, events, taskVars, layout>>

TaskEnds(c) ==
    /\ "eis" \in Faults
    /\ c \in eisLive
    /\ eisLive' = eisLive \ {c}
    /\ closed' = Append(closed, eisLabel[c])
    /\ UNCHANGED <<portalVars, cmds, events, eisq, eisLabel, layout>>

PortalEnvironment == ThreadReports \/ \E c \in Conn : TaskEnds(c)

PortalNext ==
    \/ Calling
    \/ Answering
    \/ Releasing
    \/ Pumping
    \/ OthersTake
    \/ PortalEnvironment

allPortalVars == <<portalVars, chanVars>>

\* The runtime polls every task that can go on; clients owe nothing.
PortalFairness ==
    /\ WF_allPortalVars(Pumping)
    /\ WF_allPortalVars(Answering)
    /\ \A r \in Releaser : WF_allPortalVars(ReleaserSteps(r))

PortalAlone == ChannelsInit /\ PortalInit

PortalSpec ==
    /\ PortalAlone
    /\ [][PortalNext]_allPortalVars
    /\ PortalFairness

----------------------------------------------------------------------------
(* Properties.                                                              *)

\* Input is only ever captured for a session that may have it: whatever calls,
\* crossings and releases interleave, a session in a capture run is enabled,
\* and an enabled one exists, was started with capabilities, and has somewhere
\* to send the input.  activate looks the session up, lets the lock go, and
\* only then marks it, while Close and Disable run beside it.
ActiveIsAuthorised ==
    \A s \in Session :
        /\ sessions[s].activation_id # 0 => sessions[s].enabled
        /\ sessions[s].enabled => /\ sessions[s].registered
                                  /\ sessions[s].started
                                  /\ sessions[s].granted
                                  /\ sessions[s].eis # NoConn

\* No two sessions share an activation, and no id is in use before it has been
\* handed out.
ActivationsDistinct ==
    \A s \in Session :
        /\ sessions[s].activation_id < next_activation
        /\ \A t \in Session \ {s} : sessions[s].activation_id # 0 =>
               sessions[s].activation_id # sessions[t].activation_id

\* A client can tell runs apart by their ids: each Activated it gets names a
\* larger one, although id, lock and signal are three steps.
AnnouncedInOrder ==
    [][\A s \in Session : heard'[s] \notin {0, heard[s]} => heard'[s] > newest[s]]_allPortalVars

\* deactivate never ends a run its client has not been told of: the Activated
\* for that id went out first, and was the last one.
DeactivatedWasAnnounced ==
    pump.at = "tell" /\ pump.id # 0 => newest[pump.now.session] = pump.id

\* The zone set a client quotes stands for the layout it was shown with it:
\* barriers in force were chosen for the layout the session now holds, even
\* when GetZones calls that read different layouts finish in any order.
BarriersMatchZones ==
    \A s \in Session : \A r \in answered[s] :
        /\ r[1] = sessions[s].zone_set => r[2] = sessions[s].zones
        /\ sessions[s].barriers # {} /\ r[1] = sessions[s].accepted =>
             r[2] = sessions[s].zones

\* A loss the thread reports ends the runs in flight, whatever else goes on.
LossEndsRun ==
    \A s \in Session, n \in 1..MaxActivations :
        (sessions[s].activation_id = n /\ \E i \in DOMAIN events : events[i] = CaptureLost)
          ~> sessions[s].activation_id # n

\* A session whose connection is reported dead does not stay in its run.
DeadConnectionEndsRun ==
    \A s \in Session, n \in 1..MaxActivations :
        sessions[s].activation_id = n /\ (\E i \in DOMAIN closed : closed[i] = s)
          ~> sessions[s].activation_id # n
=============================================================================
