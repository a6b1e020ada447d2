# niri-input-portal: a TLA+ model of input capture and clipboard

niri-input-portal is the niri backend of the InputCapture portal: clients (Synergy,
Deskflow) put barriers on screen edges, the pointer crosses one, and from then on mouse and
keyboard go to the client over EIS until somebody gives them back. If a step of that is
missed the desktop is left with a locked pointer and a grabbed keyboard, so the question
throughout is who holds the pointer, who believes so, and what ends it.

Paths are relative to the repository's crate: `portal.rs` is `src/src/portal.rs`.

## 1. Inventory

| Part | Where | State | Operations |
|---|---|---|---|
| Wayland thread | `wayland/state.rs` | `surfaces`, `capture`, `pointer`; in the compositor, the lock, keyboard focus and input region of each layer | commands Arm, Disarm, AttachEis, EndCapture; callbacks of compositor, seat and outputs; watchdog |
| Portal | `portal.rs` | the session map, the counters `next_zone_set` and `next_activation` | D-Bus methods of InputCapture, Session and Control; `pump_wayland_events`; `handle_eis_closed`; `force_release_all` |
| EIS tasks | `eis_server.rs` | per connection: handshake, devices, `emulating` | commands from the two above; handshake, Bind and disconnect from the client |
| Channels | `wayland/mod.rs`, `eis_server.rs` | four kinds of unbounded queue | send, receive |
| Clipboard | `portal.rs`, `wayland/clipboard.rs` | `ClipboardTracker`: what is on the clipboard, its owner, parked pastes; `ClipboardState`: device, source, offer; in the compositor, the selection | the Clipboard interface, Close, `Control.ClipboardClaim`; claim, release, read; the events of source and device |
| Placement | `wayland/mod.rs`, `wayland/state.rs`, `region_of` | the surfaces, the capture's `entry_along` | `place`, `input_strip`, `release_hint`, `create_surface`, `usable_hint`, `region_of` |
| niri query | `niri.rs` | none | `outputs`, and the order of what it returns |
| Start, shutdown | `main.rs` | none | `serve`, `release_everything` |

How they interact: every D-Bus call, the pump and the EIS watcher are tokio tasks ordered
only by the sessions mutex. They send commands to the Wayland thread, which sends events
back to the pump; both send to the EIS tasks; an EIS task that ends leaves its session label
for the watcher. Nobody waits for an answer to a command, so every party acts on what it last
heard. Hard here: what is read under one lock and used under the next (`activate`,
`CaptureLost`, `get_zones`), signals emitted after the lock, two queues that lead to the same
EIS task, commands that arrive in a capture later than the one they were sent for, the
many ways a capture ends, and the clipboard's owner, which two locks, a channel each way and
the compositor's own cancellations keep apart from the claim it stands for. `PROJECT.json` lists each hazard at its line.

What makes each part correct: the thread gives back everything it took and loses no input;
the portal lets only authorised sessions capture and its signals tell the truth in order;
an EIS stream is started, under its activation's number, when its session is active and
stopped when it is not; a capture always has some way to end, begins only at an edge somebody put a barrier on and
ends clear of it; and a paste is asked of the session whose content it is.

## 2. Modules

    Channels ── WaylandThread ──┐
        │          └ PointerGrab (abstract, refined by WaylandThread)
        ├────── PortalSessions ─┼── InputCapture ── InputCaptureProofs ── CaptureSettledProofs
        └────── EisServer ──────┘
    DataControl ── Clipboard ── ClipboardProofs
                       └ PendingPastes (abstract, refined by Clipboard)
    Placement ── PlacementProofs
    proofs: WaylandThreadProofs, PortalSessionsProofs, InputCaptureProofs,
            CaptureSettledProofs, ClipboardProofs, PlacementProofs
    model checking: MCWaylandThread, MCPortalSessions, MCInputCapture,
                    MCClipboard, MCPlacement

Capturing and clipboard share the process and two channels but no state that either looks
at, so each has a composition of its own; what the other puts on a channel is delay. Geometry
is apart from both: the capturing modules know of it only which barriers lie on an edge
(`OnEdge`).

**Channels** declares the queues, their messages and the output layout. Coordinates, key
codes and cursor hints are left out. An input with the Frame that closes it is one message
and carries only its rank.

**WaylandThread**: one action per command or callback, since the thread runs one at a time.
`grabs` is the compositor's side: what the thread's requests leave granted to each layer
(`lock`, `keyboard`, `region`). Clock time is one bit, `capture.idle`: `idle_timeout` has gone
by since the last input. Which barriers lie on an output edge is the constant `OnEdge[layout]`,
in place of `place`. Barrier ids of one client are taken to be distinct. `ThreadSpec` puts
the thread in an environment that sends any command, and in which EIS connections come and go:
what holds there holds for every portal.

**PointerGrab** is the thread's promise in one page: at most one barrier holds the pointer, it
is taken only from a barrier on offer, every taking is reported before what follows it, and a
loss is reported only of a grab that was held. `WaylandThread!Grabbing` is the refinement
mapping: the holder is read off the locks, the offer is the set of drawn surfaces, the reports
are the event channel.

**PortalSessions**: one action per stretch of a task under the mutex. A task that unlocks and
goes on keeps what it remembers in `calls` (outputs read, lock not taken), `pump` (the pump's
place and its snapshot) or `releasers` (each caller of `force_release_all`). `heard` and
`newest` are what the client was last told, `answered` what GetZones returned, and
`accepted` which zone set the barriers were accepted for; these are observations and guard
nothing. SetPointerBarriers may list barriers that are `Malformed` (no position, no id), of which only
the rest is kept (`Accepted`). Refused calls change nothing and are left out. The model is kinder than
the program in three places: a handle is not created anew while a session has it (xdg-desktop-portal
sees to that), Close does not come before the Session object is exported, and the EndCapture and
Arm of one Release are put on the queue together, where another task's command could come between.

| Action | Code |
|---|---|
| `CreateBegins`, `CreateInserts`, `CreateExports` | `create`: outputs, insert, export or roll back |
| `GetZonesBegins`, `GetZonesAnswers` | `get_zones` before and under the lock |
| `Start`, `SetPointerBarriers`, `ConnectToEIS`, `Enable`, `Disable`, `ReleaseCapture`, `Close` | the method of that name |
| `ForceRelease`, `ControlDisarm`, `ReleaseAll`, `ReleaseUnlocks`, `ReleaseTells`, `ReleaseDone` | `Control`, `force_release_all` |
| `EisClosed`, `EisClosedReleases` | `handle_eis_closed`: look, then release |
| `PumpActivated`, `Activate`, `AnnounceActivated` | `session_for_barrier`, `activate` |
| `PumpCaptureLost`, `Deactivate`, `AnnounceDeactivated`, `CaptureLostDone` | the CaptureLost arm, `deactivate` |

**EisServer**: `HandshakeDone`, `Bind`, `DropCommand`, `Apply` and `TaskDies` per connection.
`stream` is the client's side: the sequence each of its devices was last started with.

**InputCapture** composes the three over the shared queues. `Spec` starts from nothing;
`SetUpSpec` from sessions that are created, connected, bound and enabled, to spend the bounds on
capturing (`SessionsSetUp`). That state is reached by CreateSession, SetPointerBarriers, ConnectToEIS and
Enable; zone sets and connections are numbered in any order.

**DataControl** is the Wayland thread's ext-data-control client and the compositor it
watches. Mime types, offers, sources and pipes are abstracted to one number: the rank of the
selection they belong to among all there ever were. That is enough to tell a stale answer
from a fresh one, and a cancellation of this claim from one of the last. `Replace` is the
compositor: a new selection cancels the source it displaces and is told to the device, in
either order, and what it says is on its way (`wire`) until the thread reads it. The model is
kinder than the protocol in two places: a request reaches the compositor at once (what it
does in between could as well have been done before the request), and the device goes
(`Finished`) only when all it said has been read.

**Clipboard** is the portal's half over DataControl. The tracker and the session map have a
mutex each, so `SetSelection` is three actions (check the session, own, send the claim),
`Close` up to four, a release two (send, then clear); `tasks` says where each call stands
and `pump` where the announcement of a selection stands. `overtaken` notes whether the last claim
sent took the selection without being the record's: Control's, or one sent after another
call had taken the record; it is an observation and guards nothing. `owned_by_session`, which is only
printed, is left out.

| Action | Code |
|---|---|
| `SetSelection`, `Own`, `SendClaim`; `UnsetSelection` | `set_selection` |
| `SendRelease`, `Disown` | `release_clipboard_claim` |
| `Close`, `CheckOwner` | the clipboard half of `Close` |
| `SelectionWrite`, `SelectionRead`, `HandleRead` | `selection_write`, `selection_read` |
| `BeginTransfer`, `TakeTransfer`, `ClearTransfers` | `ClipboardTracker` |
| `PumpSelection`, `PumpSend`, `PumpCancelled`, `PumpList`, `PumpTell` | the clipboard arms of the pump, `announce_selection` |
| `HandleClaim`, `HandleRelease`, `SelectionEvent`, `SendEvent`, `CancelledEvent`, `WatchSeat`, `Finished` | `wayland/clipboard.rs` |

**PendingPastes** is what is promised of pastes that wait for an answer: in the order they
came, never more than the cap, each leaving once. The refinement mapping takes `waiting` to the
serials of `order`, each with its pipe, so pastes of one selection are told apart too.

**Placement** has the arithmetic, with the code's own case distinctions: `Fits` and `PlaceOn` are
`place_one`, `Zones` is `niri::outputs` with its order (`Sorted`, which is said rather than
computed: nothing comes after what sorts before it), `RegionOf` is `region_of` and `Bounds` its loop. Coordinates
are whole logical pixels. `Position` is the compositor (external): where anchor and margins
put a surface, which is said a second time by the surface's `origin`. The layout stands still
here; its changes are in WaylandThread and PortalSessions. Outputs have ranks for names, and
`Place` meets them in any order, since the thread lists them as the registry does.

## 3. Runs

Bounds: `MaxConns` EIS connections, `MaxCmds`, `MaxEvents`, `MaxQueued`, `MaxInputs` messages
waiting *before the outside world adds another* (steps the program takes by itself are never
held back by a queue), `MaxCalls` calls between outputs and lock, `MaxZoneSets` and
`MaxActivations` ids handed out.

| Run | Instance | States | Shows |
|---|---|---|---|
| `wayland_thread` | 2 barriers, 2 layouts, all faults, 2 inputs | 121 k | `GrabsFollowCapture`, `InputConserved`, `ImplementsPointerGrab`, `SilentCaptureEnds` (liveness) |
| `portal_sessions` | 2 sessions, 2 connections, 2 activations, symmetry | 4.0 M | `ActiveIsAuthorised`, `ActivationsDistinct`, `DeactivatedWasAnnounced`, `AnnouncedInOrder` |
| `portal_zones` | 1 session, 2 layouts, 2 calls under way, 3 zone sets, EIS deaths | 1.2 M | `BarriersMatchZones`, `LossEndsRun`, `DeadConnectionEndsRun` (liveness) |
| `capture_cycle` | whole program set up, 2 sessions on one edge, 2 activations, EIS deaths, losses, Enable, Release, symmetry | 2.7 M | `StreamMatchesActivation`, `SequencesRise`, `EdgesStayArmed`, `OnlyActiveIsFed` |
| `capture_lifecycle` | whole program from its start, 1 session, input that goes on, EIS deaths, Close | 193 k | `ForceReleaseWorks` (liveness), while the client may bind at any moment and the session go and come back |
| `clipboard` | 2 sessions and Control, 2 calls at once, 3 selections, 3 pastes, cap 2, symmetry | 2.8 M | `TransfersInOrder`, `OwnerHoldsSelection`, `ClientsKnowSelection`, `ReadsAreFresh`, `ImplementsPendingPastes` |
| `placement` | 6 layouts, pairs of 11 barriers, 4 hints | 11 k | `StripsGuardBarriers`, `OriginsAreTrue`, `OnlyStrayBarriersDropped`, `ReleasesClearOfStrip`, `ReturnsWhereItLeft`, `ZonesAreStable`, `RegionIsBoundingBox` |

Besides, each module's type invariant is checked once: `ThreadTypeOK`, `PortalTypeOK`,
`ChannelsTypeOK`, `EisTypeOK`, `ClipboardTypeOK`, `PlacementTypeOK`. `EisTypeOK` has the one
agreement inside an EIS task: a device is started only if it was made and the task is emulating.

Why the bounds are enough for these questions:

* Two activations are one run and the run after it, which is what a message can be late for;
  two sessions are the one acting and the one disturbed; two inputs have an order. A pair of
  commands (EndCapture, Arm) is sent at once and overtaken by a crossing whatever `MaxCmds` is.
* Three selections are a claim, what displaces or crosses it, and what comes after; two
  calls (`Task`) interleave lock by lock; three pastes overflow a cap of two
  (`MAX_PENDING_TRANSFERS`, 16 in the code). Two sessions can cross each other's claims, and
  Control, whose claim has no session, is a third party. `stale_cancel` takes four
  selections with one session. `MaxAtLoss` lets the device go in the first two
  selections' time, and the action constraint `LossWhenSettled` only while nothing is
  under way: that cuts states but no outcome of a claim, since a call on its way to the thread
  neither looks at the device nor touches it, so the loss may as well come before it; the
  thread drops the claim when it gets there. The theorems are without this constraint.
* Depth 4 and inset 2 (64 and 8 in the code) keep the order strip < inset < depth, which
  `PlacementAssumption` states and all the arithmetic depends on; the layouts have outputs
  side by side, in one column, apart and at negative coordinates, and the barriers whole
  edges, parts, shared edges, lines beyond them, points and a diagonal. `MaxU32` is 8, so that
  some boxes do not fit it. Outputs without size and an empty layout are not among
  them; `PlacementAssumption` leaves the first out of the theorems too.

`capture_lifecycle` and `clipboard` do not check for deadlock: with their ids
used up (connections and zone sets; selections and pastes) they can come to rest with nobody able to do more. The other
runs check it.

`StreamMatchesActivation`, `EdgesStayArmed`, `OnlyActiveIsFed`, `OwnerHoldsSelection` and
`ClientsKnowSelection` are about a program that has come to rest (`Settled`): in between,
messages on their way are meant to make the parts disagree. `capture_cycle` does not call
Disable, unplug outputs, or lose layers: with those, the first two are false, as the runs of
section 4 and the list there show.

Fairness: weak fairness of the event loop (commands are handled, the watchdog is looked at
every 200 ms, and time passes) and of each tokio task (pump, calls, each releaser, each EIS
task). The loop of `run` and the runtime justify exactly that. Nothing is assumed of users,
clients, compositor or EIS peers. `TimePasses` supposes a finite idle timeout:
`NIRI_INPUT_PORTAL_IDLE_TIMEOUT=0` switches the watchdog off and `SilentCaptureEnds` with it.
`MaxInputs = 1` in `capture_lifecycle` lets input go on for ever, so that the watchdog alone
cannot make `ForceReleaseWorks` true; and its one activation id does not keep the edge from
being crossed again around a forced release, since a crossing nobody owns takes no id. Clipboard and Placement assume no fairness: nothing is
claimed of them but safety.

## 4. Where the code and its comments disagree

Each run checks one statement of the repository that the code does not keep; the quoted line
and the cause are in `PROJECT.json`.

| Run | The statement | What happens |
|---|---|---|
| `unreported_loss` | activation_id is non-zero while a capture is in flight | an unplugged output (or closed layer, or lost pointer) ends the capture unreported; later crossings are dropped as noise |
| `sequence` | the EIS sequence equals the activation_id | Disable sends no StopEmulating, so the next start is ignored |
| `dead_connection` | a capture never outlives its connection | a connection that died between captures is fed by the next |
| `disarm_undone` | Control.Disarm holds until a client re-enables | Release arms again |
| `stale_cancel` | owner_session is the session that can answer a paste | the late cancellation of one claim wipes the owner of the next |

Proved instead of run: state.rs:351 means the constant hint (1, 0) of Synergy to be left aside,
but the position is on the surface of a barrier at the left or the top of an output at the
origin, so there it is used and takes the cursor to the corner wherever it left
(`ConstantHintPins`).

Seen in the state space as well, without a run of its own, because the repository promises
nothing definite about it:

* an Activated overtaken by the Deactivated of a forced release; input that reaches the EIS
  task after StopEmulating, because Release tells that task directly and the Wayland thread
  later; a device bound in a run, which is never started;
* edges armed again after a Disable, by a loss being handled that still acts on its snapshot;
  and an enabled session left without edges when it is disabled and enabled during a capture
  whose lock is then dropped (Arm is ignored by the thread, and the loss finds no session
  active);
* with two sessions, a Release of one whose EndCapture comes late ends the capture of the other,
  which stays marked active with nothing captured;
* a paste of the old owner's content parked after the new owner cleared the transfers, and
  answered by the new one; after a release, parked for nobody; a claim sent by SetSelection
  after Close, left to a session that is gone; a release that wipes a copy a local application
  made while its cancellation was on its way;
* an owner on record whose claim is gone, against the comment at portal.rs:146: Control's claim displaces a
  session's, whose Cancelled the thread then drops as stale, and the record keeps the session; and
  two sessions' crossed SetSelections can put one on record and leave the other's claim in
  force. `OwnerHoldsSelection` excepts exactly these (`overtaken`), and a claim that found no device (`ignored`);
* a barrier that runs along two outputs gets a surface on one of them only (`OnlyStrayBarriersDropped`
  asks for no more), a surface whose output moves keeps its old origin, and in a corner the strip
  of one edge lies under the cursor released from the other.

## 5. Theorems

The theorems hold for all values of the constants, under `ChannelAssumption`,
`WaylandAssumption`, `PortalAssumption`, `DataControlAssumption`, `ClipboardAssumption` and
`PlacementAssumption` (types of the bounds, that `OnEdge` is a function
into sets of barriers, that the values standing for no barrier or no session are not one, and
what the code fixes of layouts: depth beyond the inset, outputs of one name one output, outputs
larger than the inset, and that a malformed barrier is not one of the barriers). `CaptureStreams`, `CaptureSequences`, `CaptureEdges`, `CaptureFeedsActive` and
`OnlyStrayDropped` have hypotheses besides, named below.

* `PortalSessionsProofs`. `PortalInv` is the type invariant, `Sound` of every session (the
  conjuncts of `ActiveIsAuthorised`, with "granted" owed from Start on, before any Enable),
  `ActivationsDistinct` and `AnnouncementsInOrder`. The last is what makes the signals
  provable: it relates ids in the map, in the pump and already announced (an id in the map is the newest
  announced unless the pump is about to announce it, and the id being announced exceeds every one before it). Without
  it, neither `AnnouncedInOrder` nor `DeactivatedWasAnnounced` is inductive. Actions that do not touch
  the fields it speaks of are discharged together by `QuietKeeps`. `ZonesMatch` (`BarriersMatchZones`) stands on
  `ZonesInv` instead: a zone set is handed out once and belongs to one layout, and barriers
  there are were accepted for the zone set there is, so an answer of GetZones can agree with a
  session's zone set only if it carried the session's zones.
* `WaylandThreadProofs`. `ThreadInv` is the type invariant, `GrabsFollowCapture`,
  the type of the commands waiting, and that the barrier of the running capture, if its surface is
  still listed, is drawn, so that Configure never offers anew the edge that holds the pointer.
  Refinement: Init maps to Init, and
  each action to a step of PointerGrab or to a stutter; `ThreadInv` gives that the holder is
  the capture's barrier. `InputIsConserved` needs `FeedInv` as well: a capture that has its
  connection holds nothing in `pending`. Every step is then an input (`ForwardCases`), the
  handover (`AttachCases`) or one that feeds nothing (`Unfed`), and in each what is due is
  either all sent or all kept.
* `InputCaptureProofs`. `CaptureInv` joins the two with what EIS adds: queued sequences rise, lie above
  the streams started and below the ids to come. A step of one part preserves the others' invariants
  because it leaves their variables alone; the new work is in the handlers that send to `eisq`.
  `CaptureChannels` adds `QueuesInv`, that what is on a queue has a reader that knows it and
  that a connection that lives has its label; `CaptureZones` carries the portal's theorem over,
  `CaptureAnnounced` and `CaptureDeactivatesAnnounced` those about its signals, and
  `CaptureImplementsGrab` the refinement of PointerGrab: a step of the portal or of EIS leaves
  the grabs alone and at most takes a report. `InputConserved` itself is false of the whole, where the
  portal too writes to the EIS queues; `CaptureConserves` says it of the thread's steps.
  They hold of `Spec`, from the start of the program, for any number of sessions, connections
  and layouts, which is why `capture_lifecycle` can be small.
* `CaptureSettledProofs`, of `SetUpSpec`, with the properties of a program at rest. Each invariant
  says what is still on its way while the parts disagree, so that when nothing is on its way
  they agree. Each theorem names in its hypothesis the calls and faults that make it false, on `Methods`
  and `Faults`; with one of those, section 4 or the list there has the counterexample (a
  stop that Disable does not send, a device bound in a run, edges taken down on purpose), or
  nothing definite is promised. `capture_cycle` meets all the hypotheses.
  - `CaptureStreams`, no Disable and no connection made later: `StreamInv` reads the sequence
    a stream was started with and the commands that wait for it as one series of words; starts
    and stops alternate in it, and the last word is the session's activation (`Follows`). Five
    handlers and the thread add to it, the EIS task takes from it, and neither breaks the
    series. `CaptureSequences` gives `SequenceIsActivation` from the same invariant: what the
    run `sequence` finds is Disable's doing alone.
  - `CaptureEdges`, no call that changes a session's barriers or disarms, and no output or layer
    that goes: sessions then stand as they were set up (`Standing`), no Disarm is ever sent, and
    either the edges are armed or an Arm is on its way that no crossing comes before (`EdgesInv`).
  - `CaptureFeedsActive`, no Close, Disable, SetPointerBarriers or GetZones; Disarm and every fault
    are allowed. `FedInv` says of each connection that is fed, or
    that an AttachEis on its way would have fed, that its session is in a run, or an EndCapture or
    an AttachEis for one that is comes after, or all runs are about to end (`Renewed`). The last needs
    `LossInv`: if there is a capture while the portal works a loss through, its crossing has yet
    to be heard of, and whoever was active is in the snapshot of the loss.
* `ClipboardProofs`. `ClipboardInv` has, after the types, one conjunct per stretch of the way a selection takes.
  `WireInv`: what the thread does not know yet is on the wire, as a Selection for its offer
  and as a Cancelled for its source. `EventInv`: the latest the thread knows is in the last
  Selection event, or with the tracker. `ToldInv`, `OursInv`: what the pump is about to say,
  or has said, is the latest it knew, with `is_ours` true of it. `OwnerInv`: an owner on
  record has its claim in force, or on its way, or a call or a cancellation is still to take
  it off the record. `MakerInv`: unless overtaken, the owner on record made the selection in force,
  or its claim is the last on its way, or what takes it off the record is. Once all is settled
  every "on its way" is gone, and what is left is `OwnerHoldsSelection` and `ClientsKnowSelection`. The step of one part moves the news one
  stretch on, which is why none of the conjuncts is inductive by itself. `TransferInv` gives
  `TransfersInOrder` and, step by step, the refinement of PendingPastes.
* `PlacementProofs`, for every layout, set of barriers and hint: each surface is `PlaceOn` of
  an armed barrier (`SurfacesInv`), hence along an edge of its output and within its ends, and
  a capture remembers where on that edge the cursor is locked. From these follow
  `OriginsAreTrue`, `StripsGuardBarriers`, `ReleasesClearOfStrip`, `ReturnsWhereItLeft`, and
  `ConstantHintPins` as a fact about one step. `OnlyStrayDropped` adds that an armed barrier
  that fits an output has a surface (`FittingPlaced`). A rejected barrier is known by its id only,
  so the theorem supposes the ids of one request to differ, which the code leaves to the
  client. `ZonesStay` and `RegionIsBox` are about sequences of any length: `Before` is a
  total order on the outputs of a layout, so two sorted sequences of the same outputs cannot
  first differ anywhere; and the box of a prefix holds its outputs and touches one at each
  side (`Boxes`), where the first prefix without such a box would follow one with it. Both are
  induction by the first counterexample, which `WFMin` of WellFoundedInduction gives.

Every invariant, action property and refinement the passing runs check is thus also a theorem,
and was checked first. Model-checked only are the liveness properties, `SilentCaptureEnds`,
`LossEndsRun`, `DeadConnectionEndsRun` and `ForceReleaseWorks` (liveness and ENABLED are out of
the prover's reach); and that the five statements of section 4 fail, which is a matter of
one behaviour each.

## 6. Not modelled, and the plan

* Larger instances of `InputCapture`: two sessions with barriers of their own, or with Disable
  and ForceRelease among the calls, do not fit a run. `portal_sessions` has both sessions with
  all calls against any Wayland thread, and `wayland_thread` the thread against any portal.
* Shutdown: `release_everything` and `WaylandCmd::Shutdown`. With the process its connection
  goes, and the compositor takes back every grab it gave, so no grab survives whichever
  commands were handled; that 150 ms are enough to bring the cursor back is real time, and
  the order in which the last owner of the sender drops it is the runtime's.
* The settled properties are proved from `SetUpSpec`, where every session has all barriers. Clients that connect,
  set barriers and disable at will need a statement of what is meant to hold with them, which the
  repository does not give.
* Control's read-only methods, niri's JSON, D-Bus encoding, keymap transfer, shared-memory
  buffers, fractional positions, logging, installers: I/O or data no property speaks of.
