----------------------------- MODULE Clipboard -----------------------------
(***************************************************************************)
(* The clipboard as a whole: the portal's half (portal.rs: the Clipboard    *)
(* interface, ClipboardTracker, the clipboard calls of Session and Control  *)
(* and the clipboard events of the pump) over DataControl.                  *)
(*                                                                         *)
(* Every D-Bus call is a tokio task; the pump is one more.  Sessions and    *)
(* tracker have a mutex each, and no task holds both.  One action is what a *)
(* task does under one of them or one send; where it stands in between is   *)
(* in `tasks` or `pump`.  owned_by_session is only printed by Control's     *)
(* status and is left out.                                                  *)
(***************************************************************************)
EXTENDS DataControl, SequencesExt

CONSTANTS
    MAX_PENDING_TRANSFERS,  \* 16 in the code
    MaxPastes               \* bound: pastes ever made, below 2^32

ASSUME ClipboardAssumption ==
    /\ MAX_PENDING_TRANSFERS \in Nat \ {0}
    /\ MaxPastes \in Nat
    /\ "no session" \notin Session

VARIABLES
    access,         \* State.sessions: absent, there, or there with the clipboard
    mime_types,     \* ClipboardTracker: the selection as last heard of
    owner_session,  \* its owner, or NoOwner
    transfers,      \* parked pipes by serial
    order,          \* their serials, oldest first
    next_serial,
    tasks,          \* where each D-Bus call stands
    pump,           \* where pump_wayland_events stands
    told,           \* per client: the last SelectionOwnerChanged it got
    overtaken       \* observed, and read by properties only: the last claim
                    \* sent is not one of the owner on record, but Control's
                    \* or that of a session whose record another call took

trackerVars == <<mime_types, owner_session, transfers, order, next_serial>>
portalVars == <<access, trackerVars, tasks, pump, told, overtaken>>
vars == <<portalVars, dataControlVars>>

NoOwner == "no session"

\* own, claim: set_selection before the tracker's lock and before its send;
\* check: Close after the session is gone; release, disown: the two steps of
\* release_clipboard_claim; read: selection_read waiting for the thread.
Call == [at : {"idle", "release", "disown", "read"}]
          \cup [at : {"own", "claim", "check"}, session : Session]
Idle == [at |-> "idle"]

\* list: announce_selection before it has looked up the sessions; tell: with
\* those still to be told.
News == [mime_types : Nat, is_ours : BOOLEAN]
Pump == [at : {"idle"}]
          \cup [at : {"list"}, news : News]
          \cup [at : {"tell"}, news : News, to : SUBSET Session]

\* A client that was not told anything yet.
Untold == [mime_types |-> None, is_ours |-> FALSE]

ClipboardTypeOK ==
    /\ DataControlTypeOK
    /\ access \in [Session -> {"absent", "plain", "clipboard"}]
    /\ mime_types \in Nat
    /\ owner_session \in Session \cup {NoOwner}
    /\ transfers \in [DOMAIN transfers -> Nat \ {None}]
    /\ DOMAIN transfers \subseteq Nat \ {0}
    /\ order \in Seq(Nat)
    /\ next_serial \in Nat
    /\ tasks \in [Task -> Call]
    /\ pump \in Pump
    /\ told \in [Session -> News]
    /\ overtaken \in BOOLEAN

ClipboardInit ==
    /\ access = [s \in Session |-> "absent"]
    /\ mime_types = None
    /\ owner_session = NoOwner
    /\ transfers = [n \in {} |-> None]
    /\ order = <<>>
    /\ next_serial = 0
    /\ tasks = [t \in Task |-> Idle]
    /\ pump = Idle
    /\ told = [s \in Session |-> Untold]
    /\ overtaken = FALSE

Init == DataControlInit /\ ClipboardInit

----------------------------------------------------------------------------
(* ClipboardTracker.                                                        *)

\* Mutant of BeginTransfer: the latest makes room, not the oldest.
BeginTransferEvictingLatest(fd) ==
    LET serial == next_serial + 1
        parked == [n \in DOMAIN transfers \cup {serial} |->
                      IF n = serial THEN fd ELSE transfers[n]]
    IN /\ next_serial' = serial
       /\ IF Len(order) < MAX_PENDING_TRANSFERS
            THEN order' = Append(order, serial) /\ transfers' = parked
            ELSE /\ order' = Append(Front(order), serial)
                 /\ transfers' = [n \in DOMAIN parked \ {Last(order)} |-> parked[n]]

\* begin_transfer: a new serial, and the oldest goes if there are too many.
\* One at most: there never are more than MAX_PENDING_TRANSFERS before.
BeginTransfer(fd) ==
    LET serial == next_serial + 1
        parked == [n \in DOMAIN transfers \cup {serial} |->
                      IF n = serial THEN fd ELSE transfers[n]]
    IN /\ next_serial' = serial
       /\ IF Len(order) < MAX_PENDING_TRANSFERS
            THEN order' = Append(order, serial) /\ transfers' = parked
            ELSE /\ order' = Append(Tail(order), serial)
                 /\ transfers' = [n \in DOMAIN parked \ {Head(order)} |-> parked[n]]

\* Mutant of TakeTransfer: the serial stays in order.
TakeTransferKeepingOrder(serial) ==
    /\ transfers' = [n \in DOMAIN transfers \ {serial} |-> transfers[n]]
    /\ UNCHANGED order

\* take_transfer: retain drops the serial from order, where it is once at most.
TakeTransfer(serial) ==
    /\ transfers' = [n \in DOMAIN transfers \ {serial} |-> transfers[n]]
    /\ order' = IF \E i \in DOMAIN order : order[i] = serial
                  THEN RemoveAt(order, CHOOSE i \in DOMAIN order : order[i] = serial)
                  ELSE order

\* clear_transfers.
ClearTransfers ==
    /\ transfers' = [n \in {} |-> None]
    /\ order' = <<>>

----------------------------------------------------------------------------
(* Calls.                                                                   *)

\* Selections that are made, or on their way: every call and every command
\* makes one at most.
Due == current + Len(cmds) + Cardinality({t \in Task : tasks[t] # Idle})

\* A call that may lead to a selection comes in.
CallBegins(t, call) ==
    /\ tasks[t] = Idle
    /\ Due < MaxSelections
    /\ tasks' = [tasks EXCEPT ![t] = call]

Goes(t, call) == tasks' = [tasks EXCEPT ![t] = call]

CreateSession(s) ==
    /\ access[s] = "absent"
    /\ access' = [access EXCEPT ![s] = "plain"]
    /\ told' = [told EXCEPT ![s] = Untold]
    /\ UNCHANGED <<trackerVars, tasks, pump, overtaken, dataControlVars>>

RequestClipboard(s) ==
    /\ access[s] = "plain"
    /\ access' = [access EXCEPT ![s] = "clipboard"]
    /\ UNCHANGED <<trackerVars, tasks, pump, told, overtaken, dataControlVars>>

\* set_selection, as far as session_has_clipboard: with mime types, without.
SetSelection(t, s) ==
    /\ access[s] = "clipboard"
    /\ CallBegins(t, [at |-> "own", session |-> s])
    /\ UNCHANGED <<access, trackerVars, pump, told, overtaken, dataControlVars>>

UnsetSelection(t, s) ==
    /\ access[s] = "clipboard"
    /\ CallBegins(t, [at |-> "release"])
    /\ UNCHANGED <<access, trackerVars, pump, told, overtaken, dataControlVars>>

\* set_selection, under the tracker's lock.
Own(t) ==
    /\ tasks[t].at = "own"
    /\ owner_session' = tasks[t].session
    /\ ClearTransfers
    /\ Goes(t, [at |-> "claim", session |-> tasks[t].session])
    /\ UNCHANGED <<access, mime_types, next_serial, pump, told, overtaken, dataControlVars>>

\* set_selection, after the unlock.
SendClaim(t) ==
    /\ tasks[t].at = "claim"
    /\ cmds' = Append(cmds, ClipboardClaim(tasks[t].session))
    /\ overtaken' = (owner_session # tasks[t].session)
    /\ Goes(t, Idle)
    /\ UNCHANGED <<access, trackerVars, pump, told, compositorVars, clientVars, events>>

\* Close: the session leaves the map; then owns_clipboard.
Close(t, s) ==
    /\ access[s] # "absent"
    /\ CallBegins(t, [at |-> "check", session |-> s])
    /\ access' = [access EXCEPT ![s] = "absent"]
    /\ UNCHANGED <<trackerVars, pump, told, overtaken, dataControlVars>>

CheckOwner(t) ==
    /\ tasks[t].at = "check"
    /\ Goes(t, IF owner_session = tasks[t].session THEN [at |-> "release"] ELSE Idle)
    /\ UNCHANGED <<access, trackerVars, pump, told, overtaken, dataControlVars>>

\* Mutant of SendRelease: the tracker is cleared first and the thread told last.
SendReleaseLast(t) ==
    \/ /\ tasks[t].at = "release"
       /\ owner_session' = NoOwner
       /\ ClearTransfers
       /\ Goes(t, [at |-> "disown"])
       /\ UNCHANGED <<access, mime_types, next_serial, pump, told, overtaken, dataControlVars>>
    \/ /\ tasks[t].at = "disown"
       /\ cmds' = Append(cmds, ClipboardRelease)
       /\ Goes(t, Idle)
       /\ UNCHANGED <<access, trackerVars, pump, told, overtaken, compositorVars, clientVars, events>>

\* release_clipboard_claim: the command first, then the tracker.
SendRelease(t) ==
    /\ tasks[t].at = "release"
    /\ cmds' = Append(cmds, ClipboardRelease)
    /\ Goes(t, [at |-> "disown"])
    /\ UNCHANGED <<access, trackerVars, pump, told, overtaken, compositorVars, clientVars, events>>

Disown(t) ==
    /\ tasks[t].at = "disown"
    /\ owner_session' = NoOwner
    /\ ClearTransfers
    /\ Goes(t, Idle)
    /\ UNCHANGED <<access, mime_types, next_serial, pump, told, overtaken, dataControlVars>>

\* Control.ClipboardClaim: a claim with no session behind it, or its release.
ControlClaim ==
    /\ Due < MaxSelections
    /\ cmds' = Append(cmds, ClipboardClaim("control"))
    /\ overtaken' = TRUE
    /\ UNCHANGED <<access, trackerVars, tasks, pump, told, compositorVars, clientVars, events>>

ControlRelease(t) ==
    /\ CallBegins(t, [at |-> "release"])
    /\ UNCHANGED <<access, trackerVars, pump, told, overtaken, dataControlVars>>

\* selection_write: any session with the clipboard, any serial.  Its check and
\* its take are one step: what may come in between, a Close at worst, changes
\* nothing the take looks at.
SelectionWrite(s, serial) ==
    /\ access[s] = "clipboard"
    /\ TakeTransfer(serial)
    /\ UNCHANGED <<access, mime_types, owner_session, next_serial, tasks, pump, told, overtaken,
                   dataControlVars>>

\* selection_read: past its check, the thread is asked and the call waits.
SelectionRead(t, s) ==
    /\ access[s] = "clipboard"
    /\ tasks[t] = Idle
    /\ Due < MaxSelections
    /\ cmds' = Append(cmds, ClipboardRead(t))
    /\ Goes(t, [at |-> "read"])
    /\ UNCHANGED <<access, trackerVars, pump, told, overtaken, compositorVars, clientVars, events>>

\* The thread answers with a pipe of the offer there is, if there is one.
HandleRead ==
    /\ NextCmd("Read")
    /\ Goes(Head(cmds).reply, Idle)
    /\ UNCHANGED <<access, trackerVars, pump, told, overtaken, compositorVars, clientVars, events>>

----------------------------------------------------------------------------
(* The pump.                                                                *)

NextEvent(type) ==
    pump = Idle /\ events # <<>> /\ Head(events).type = type /\ events' = Tail(events)

Announce(types, is_ours) ==
    pump' = [at |-> "list", news |-> [mime_types |-> types, is_ours |-> is_ours]]

\* ClipboardSelection: under the tracker's lock.
PumpSelection ==
    /\ NextEvent("Selection")
    /\ mime_types' = Head(events).mime_types
    /\ Announce(Head(events).mime_types, Head(events).is_ours)
    /\ UNCHANGED <<access, owner_session, transfers, order, next_serial, tasks, told, overtaken,
                   compositorVars, clientVars, cmds>>

\* ClipboardSend: the pipe is parked, whoever is or is not there to be asked.
PumpSend ==
    /\ NextEvent("Send")
    /\ BeginTransfer(Head(events).fd)
    /\ UNCHANGED <<access, mime_types, owner_session, tasks, pump, told, overtaken,
                   compositorVars, clientVars, cmds>>

\* ClipboardCancelled: owner and transfers go, and sessions hear of it.
PumpCancelled ==
    /\ NextEvent("Cancelled")
    /\ owner_session' = NoOwner
    /\ ClearTransfers
    /\ Announce(mime_types, FALSE)
    /\ UNCHANGED <<access, mime_types, next_serial, tasks, told, overtaken,
                   compositorVars, clientVars, cmds>>

Telling(news, to) ==
    IF to = {} THEN Idle ELSE [at |-> "tell", news |-> news, to |-> to]

\* announce_selection: clipboard_sessions, then one signal after the other.
PumpList ==
    /\ pump.at = "list"
    /\ pump' = Telling(pump.news, {s \in Session : access[s] = "clipboard"})
    /\ UNCHANGED <<access, trackerVars, tasks, told, overtaken, dataControlVars>>

\* A signal for a session that was closed meanwhile is heard by nobody, nor is
\* one for a session of the same handle that has not asked for the clipboard.
PumpTell(s) ==
    /\ pump.at = "tell"
    /\ s \in pump.to
    /\ told' = IF access[s] = "clipboard" THEN [told EXCEPT ![s] = pump.news] ELSE told
    /\ pump' = Telling(pump.news, pump.to \ {s})
    /\ UNCHANGED <<access, trackerVars, tasks, overtaken, dataControlVars>>
----------------------------------------------------------------------------

Calling ==
    \/ \E s \in Session : CreateSession(s) \/ RequestClipboard(s)
    \/ \E t \in Task, s \in Session :
          \/ SetSelection(t, s)
          \/ UnsetSelection(t, s)
          \/ Close(t, s)
          \/ SelectionRead(t, s)
    \/ \E s \in Session, serial \in 1..MaxPastes : SelectionWrite(s, serial)
    \/ ControlClaim
    \/ \E t \in Task : ControlRelease(t)

Answering ==
    \E t \in Task : \/ Own(t) \/ SendClaim(t)
                    \/ CheckOwner(t) \/ SendRelease(t) \/ Disown(t)

Pumping ==
    \/ PumpSelection \/ PumpSend \/ PumpCancelled
    \/ PumpList
    \/ \E s \in Session : PumpTell(s)

\* Pastes made and not parked yet.
PastesDue ==
    Cardinality({i \in DOMAIN wire : wire[i].type = "Send"})
      + Cardinality({i \in DOMAIN events : events[i].type = "Send"})

Copying == LocalCopy /\ Due < MaxSelections
Pasting == LocalPaste /\ next_serial + PastesDue < MaxPastes

ThreadSteps ==
    /\ HandleCmd \/ WireEvent \/ WatchSeat \/ Finished \/ Copying \/ Pasting
    /\ UNCHANGED portalVars

Next == Calling \/ Answering \/ Pumping \/ HandleRead \/ ThreadSteps

Spec == Init /\ [][Next]_vars

----------------------------------------------------------------------------
(* Properties.                                                              *)

\* Nothing is under way.
Settled ==
    /\ wire = <<>> /\ cmds = <<>> /\ events = <<>>
    /\ \A t \in Task : tasks[t] = Idle
    /\ pump = Idle

\* Parked pipes and their order agree, oldest first, and there are never more
\* than the cap (portal.rs:161): whatever is parked, taken, evicted and cleared
\* in between, so that what is evicted next is the oldest.
TransfersInOrder ==
    /\ Len(order) <= MAX_PENDING_TRANSFERS
    /\ DOMAIN transfers = {order[i] : i \in DOMAIN order}
    /\ \A i, j \in DOMAIN order : i < j => order[i] < order[j]
    /\ \A i \in DOMAIN order : order[i] <= next_serial

\* Once all is settled and a session is on record as the owner, the selection
\* is one claimed here, and the session on record has claimed it, whatever the
\* order in which claims and releases of several calls are sent and old
\* cancellations arrive.  There are two exceptions.  A last claim may have found
\* no device.  And a last claim may have been Control's, or have been sent after
\* another call had taken the record: the claim in force is that one, and the
\* record, against portal.rs:146-148, names a session whose claim is gone.
OwnerHoldsSelection ==
    Settled /\ owner_session # NoOwner /\ ~ignored =>
        /\ source = current
        /\ maker \in Ours
        /\ ~overtaken => maker = owner_session

\* Once all is settled, what a client was last told about the clipboard is what
\* is on it, with session_is_owner exactly if it was claimed here.
ClientsKnowSelection ==
    Settled /\ device =>
        \A s \in Session : access[s] = "clipboard" /\ told[s] # Untold =>
            /\ told[s].mime_types = current
            /\ told[s].is_ours <=> maker \in Ours

\* A read is answered from the selection the client was told of, or from a later
\* one: the offer the thread holds is never behind the news it has sent out.
ReadsAreFresh ==
    \A s \in Session : told[s].mime_types <= offer

\* The tracker keeps the promise of PendingPastes, where a paste is its pipe
\* with the serial it is parked under.
Pending == INSTANCE PendingPastes
             WITH Paste <- [serial : Nat, fd : Nat \ {None}],
                  Capacity <- MAX_PENDING_TRANSFERS,
                  waiting <- [i \in DOMAIN order |->
                                 [serial |-> order[i], fd |-> transfers[order[i]]]]

ImplementsPendingPastes == Pending!Spec

\* Once all is settled, the owner on record of a selection claimed for a session
\* is that session, "so `SelectionTransfer` goes to the one that can actually
\* answer it" (portal.rs:148).
OwnerCanAnswer ==
    Settled /\ source # None /\ maker \in Session => owner_session = maker
=============================================================================
