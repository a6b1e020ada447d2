------------------------ MODULE PortalSessionsProofs ------------------------
(***************************************************************************)
(* Proofs about PortalSessions, for any number of sessions, barriers,       *)
(* connections and calls: type correctness; that input is only captured for *)
(* a session that may have it; that activations are never shared; and that  *)
(* a client hears of its activations in order and of the end of one only    *)
(* after its beginning.                                                     *)
(*                                                                         *)
(* Most steps of the portal are quiet: they neither hand out an activation  *)
(* nor move the pump.  They are dealt with together (QuietKeeps), and what  *)
(* is left is the pump.                                                     *)
(***************************************************************************)
EXTENDS PortalSessions, TLAPS

\* ActiveIsAuthorised for one entry, and why it lasts: Enable looks at started
\* alone, which is as good as looking at the capabilities.
Sound(e) ==
    /\ e.activation_id # 0 => e.enabled
    /\ e.enabled => e.registered /\ e.started /\ e.eis # NoConn
    /\ e.started => e.granted

\* The last activation of s that is announced or is being announced.
Latest(s) == IF pump.at = "announce" /\ pump.session = s THEN pump.id ELSE newest[s]

\* An activation in force has been announced last, or is just being announced;
\* what is being announced is newer than what was.
AnnouncementsInOrder ==
    /\ \A s \in Session : newest[s] < next_activation
    /\ \A s \in Session : sessions[s].activation_id \in {0, Latest(s)}
    /\ pump.at = "announce" => /\ newest[pump.session] < pump.id
                               /\ pump.id < next_activation
    /\ DeactivatedWasAnnounced

\* The inductive invariant.  Of the outside, the portal's steps read only the
\* layout.
PortalInv ==
    /\ layout \in Layouts
    /\ PortalTypeOK
    /\ \A s \in Session : Sound(sessions[s])
    /\ ActivationsDistinct
    /\ AnnouncementsInOrder

PortalStep == Calling \/ Answering \/ Releasing \/ Pumping

\* A step that starts no run, and leaves every session's entry in order.
SessionsKept ==
    /\ sessions' \in [Session -> Entry]
    /\ \A s \in Session : /\ Sound(sessions'[s])
                          /\ sessions'[s].activation_id \in {0, sessions[s].activation_id}

QuietStep ==
    /\ SessionsKept
    /\ UNCHANGED <<next_activation, pump, newest>>
    /\ layout' \in Layouts
    /\ next_zone_set' \in Nat
    /\ calls' \subseteq Call
    /\ releasers' \in [Releaser -> Release]
    /\ heard' \in [Session -> Nat]
    /\ \A s \in Session : heard'[s] \in {0, heard[s]}
    /\ answered' \in [Session -> SUBSET (Nat \X Layouts)]

----------------------------------------------------------------------------
(* Entries.                                                                 *)

LEMMA GoneIsAnEntry == Gone \in Entry /\ Sound(Gone) /\ Gone.activation_id = 0
  BY DEF Gone, Entry, NoConn, NoZones, Sound

\* What the invariant says of one session.
LEMMA EntryOf ==
  ASSUME PortalInv, NEW s \in Session
  PROVE  /\ sessions[s] \in Entry
         /\ Sound(sessions[s])
         /\ sessions[s].activation_id \in Nat
         /\ sessions[s].activation_id < next_activation
  <1>1. sessions[s] \in Entry
        BY DEF PortalInv, PortalTypeOK
  <1>2. Sound(sessions[s])
        BY DEF PortalInv
  <1>3. sessions[s].activation_id \in Nat
        BY <1>1 DEF Entry
  <1> QED
      BY <1>1, <1>2, <1>3 DEF PortalInv, ActivationsDistinct

\* Handlers change one session at a time.
LEMMA OneSessionChanges ==
  ASSUME PortalInv, NEW s \in Session, NEW e \in Entry,
         Sound(e), e.activation_id \in {0, sessions[s].activation_id},
         sessions' = [sessions EXCEPT ![s] = e]
  PROVE  SessionsKept
  <1>1. sessions \in [Session -> Entry]
        BY DEF PortalInv, PortalTypeOK
  <1>2. ASSUME NEW t \in Session
        PROVE  /\ Sound(sessions'[t])
               /\ sessions'[t].activation_id \in {0, sessions[t].activation_id}
        BY <1>1, EntryOf, t = s \/ t # s
  <1> QED
      BY <1>1, <1>2 DEF SessionsKept

LEMMA NoSessionChanges == ASSUME PortalInv, UNCHANGED sessions PROVE SessionsKept
  BY EntryOf DEF PortalInv, PortalTypeOK, SessionsKept

----------------------------------------------------------------------------
(* Quiet steps.                                                             *)

LEMMA QuietKeeps == PortalInv /\ QuietStep => PortalInv'
  <1> SUFFICES ASSUME PortalInv, QuietStep PROVE PortalInv'
      OBVIOUS
  <1>1. PortalTypeOK' /\ layout' \in Layouts
        BY DEF PortalInv, PortalTypeOK, QuietStep, SessionsKept
  <1>2. \A s \in Session : Sound(sessions'[s])
        BY DEF QuietStep, SessionsKept
  <1>3. \A s \in Session : /\ sessions[s].activation_id < next_activation
                           /\ sessions'[s].activation_id \in {0, sessions[s].activation_id}
                           /\ 0 < next_activation
        BY EntryOf DEF QuietStep, SessionsKept, PortalInv, PortalTypeOK
  <1>4. ActivationsDistinct'
        BY <1>3 DEF PortalInv, ActivationsDistinct, QuietStep
  <1>5. AnnouncementsInOrder'
        BY <1>3 DEF PortalInv, AnnouncementsInOrder, DeactivatedWasAnnounced, Latest, QuietStep
  <1> QED
      BY <1>1, <1>2, <1>4, <1>5 DEF PortalInv

\* force_release_all takes every session out of its run at once.
LEMMA ReleaseAllIsQuiet ==
  ASSUME PortalInv, NEW r \in Releaser, NEW d \in BOOLEAN, ReleaseAll(r, d)
  PROVE  QuietStep
  <1>0. /\ PortalTypeOK
        /\ layout \in Layouts
        /\ \A s \in Session : heard[s] \in {0, heard[s]} /\ heard[s] \in Nat
        BY DEF PortalInv, PortalTypeOK
  <1>1. ASSUME NEW s \in Session
        PROVE  LET e == [sessions[s] EXCEPT !.activation_id = 0]
               IN e \in Entry /\ Sound(e) /\ e.activation_id = 0
        BY EntryOf DEF Entry, Sound
  <1>2. SessionsKept
        BY <1>1 DEF ReleaseAll, SessionsKept
  <1>3. [at |-> "unlock", todo |-> Capturers, disarm |-> d] \in Release
        BY DEF Release, Capturers
  <1> QED
      BY <1>0, <1>2, <1>3 DEF ReleaseAll, QuietStep, PortalTypeOK

\* The calls of clients and of the control interface are quiet.
LEMMA CallingIsQuiet == ASSUME PortalInv, Calling PROVE QuietStep
  <1> USE DEF chanVars
  <1>0. /\ PortalTypeOK
        /\ layout \in Layouts
        /\ \A s \in Session : heard[s] \in {0, heard[s]} /\ heard[s] \in Nat
        BY DEF PortalInv, PortalTypeOK
  <1>1. ASSUME NEW s \in Session, NEW method \in {"CreateSession", "CreateSession2"},
               CreateBegins(s, method)
        PROVE  QuietStep
    <2>1. [method |-> method, session |-> s, outputs |-> layout] \in Call
          BY <1>0, <1>1 DEF Call
    <2>2. SessionsKept
          BY <1>1, NoSessionChanges DEF CreateBegins
    <2> QED
        BY <1>0, <1>1, <2>1, <2>2 DEF CreateBegins, QuietStep, PortalTypeOK
  <1>2. ASSUME NEW s \in Session, Start(s) PROVE QuietStep
    <2> DEFINE e == [sessions[s] EXCEPT !.started = TRUE, !.granted = TRUE]
    <2>1. e \in Entry /\ Sound(e) /\ e.activation_id = sessions[s].activation_id
          BY EntryOf DEF Entry, Sound
    <2>2. sessions' = [sessions EXCEPT ![s] = e]
          BY <1>0, <1>2 DEF Start, PortalTypeOK
    <2>3. SessionsKept
          BY <2>1, <2>2, OneSessionChanges
    <2> QED
        BY <1>0, <1>2, <2>3 DEF Start, QuietStep, PortalTypeOK
  <1>3. ASSUME NEW s \in Session, Close(s) PROVE QuietStep
    <2>1. SessionsKept
          BY <1>3, OneSessionChanges, GoneIsAnEntry DEF Close
    <2> QED
        BY <1>0, <1>3, <2>1 DEF Close, QuietStep, PortalTypeOK
  <1>4. ASSUME NEW s \in Session, GetZonesBegins(s) PROVE QuietStep
    <2>1. [method |-> "GetZones", session |-> s, outputs |-> layout] \in Call
          BY <1>0 DEF Call
    <2>2. SessionsKept
          BY <1>4, NoSessionChanges DEF GetZonesBegins
    <2> QED
        BY <1>0, <1>4, <2>1, <2>2 DEF GetZonesBegins, QuietStep, PortalTypeOK
  <1>5. ASSUME NEW s \in Session, NEW B \in BarrierSets, NEW id \in 1..MaxZoneSets,
               SetPointerBarriers(s, B, id)
        PROVE  QuietStep
    <2> DEFINE e == [sessions[s] EXCEPT !.barriers = Accepted(B), !.accepted = id]
    <2>1. Accepted(B) \in SUBSET BarrierId /\ id \in Nat
          BY PortalAssumption DEF Accepted
    <2>2. e \in Entry /\ Sound(e) /\ e.activation_id = sessions[s].activation_id
          BY <2>1, EntryOf DEF Entry, Sound
    <2>3. sessions' = [sessions EXCEPT ![s] = e]
          BY <1>0, <1>5 DEF SetPointerBarriers, PortalTypeOK
    <2>4. SessionsKept
          BY <2>2, <2>3, OneSessionChanges
    <2> QED
        BY <1>0, <1>5, <2>4 DEF SetPointerBarriers, QuietStep, PortalTypeOK
  <1>6. ASSUME NEW s \in Session, NEW c \in Conn, ConnectToEIS(s, c) PROVE QuietStep
    <2> DEFINE e == [sessions[s] EXCEPT !.eis = c]
    <2>1. c # NoConn
          BY ChannelAssumption DEF Conn, NoConn
    <2>2. e \in Entry /\ Sound(e) /\ e.activation_id = sessions[s].activation_id
          BY <2>1, EntryOf DEF Entry, Sound
    <2>3. sessions' = [sessions EXCEPT ![s] = e]
          BY <1>0, <1>6 DEF ConnectToEIS, PortalTypeOK
    <2>4. SessionsKept
          BY <2>2, <2>3, OneSessionChanges
    <2> QED
        BY <1>0, <1>6, <2>4 DEF ConnectToEIS, QuietStep, PortalTypeOK
  <1>7. ASSUME NEW s \in Session, Enable(s) PROVE QuietStep
    <2> DEFINE e == [sessions[s] EXCEPT !.enabled = TRUE]
    <2>1. e \in Entry /\ Sound(e) /\ e.activation_id = sessions[s].activation_id
          BY <1>7, EntryOf DEF Enable, Entry, Sound
    <2>2. sessions' = [sessions EXCEPT ![s] = e]
          BY <1>0, <1>7 DEF Enable, PortalTypeOK
    <2>3. SessionsKept
          BY <2>1, <2>2, OneSessionChanges
    <2> QED
        BY <1>0, <1>7, <2>3 DEF Enable, QuietStep, PortalTypeOK
  <1>8. ASSUME NEW s \in Session, Disable(s) PROVE QuietStep
    <2> DEFINE e == [sessions[s] EXCEPT !.enabled = FALSE, !.activation_id = 0]
    <2>1. e \in Entry /\ Sound(e) /\ e.activation_id = 0
          BY EntryOf DEF Entry, Sound
    <2>2. sessions' = [sessions EXCEPT ![s] = e]
          BY <1>0, <1>8 DEF Disable, PortalTypeOK
    <2>3. SessionsKept
          BY <2>1, <2>2, OneSessionChanges
    <2> QED
        BY <1>0, <1>8, <2>3 DEF Disable, QuietStep, PortalTypeOK
  <1>9. ASSUME NEW s \in Session, ReleaseCapture(s) PROVE QuietStep
    <2> DEFINE e == [sessions[s] EXCEPT !.activation_id = 0]
    <2>1. e \in Entry /\ Sound(e) /\ e.activation_id = 0
          BY EntryOf DEF Entry, Sound
    <2>2. sessions' = [sessions EXCEPT ![s] = e]
          BY <1>0, <1>9 DEF ReleaseCapture, PortalTypeOK
    <2>3. SessionsKept
          BY <2>1, <2>2, OneSessionChanges
    <2> QED
        BY <1>0, <1>9, <2>3 DEF ReleaseCapture, QuietStep, PortalTypeOK
  <1>10. ASSUME NEW d \in BOOLEAN, ReleaseAll("control", d) PROVE QuietStep
         BY <1>10, ReleaseAllIsQuiet DEF Releaser
  <1> QED
      BY <1>1, <1>2, <1>3, <1>4, <1>5, <1>6, <1>7, <1>8, <1>9, <1>10
      DEF Calling, ForceRelease, ControlDisarm

\* So are the second halves of calls.
LEMMA AnsweringIsQuiet == ASSUME PortalInv, Answering PROVE QuietStep
  <1> USE DEF chanVars
  <1>0. /\ PortalTypeOK
        /\ layout \in Layouts
        /\ \A s \in Session : heard[s] \in {0, heard[s]} /\ heard[s] \in Nat
        BY DEF PortalInv, PortalTypeOK
  <1>1. ASSUME NEW call \in calls, CreateInserts(call) PROVE QuietStep
    <2> DEFINE e == NewEntry(call)
    <2>1. call \in Call /\ call.session \in Session /\ call.outputs \in Layouts
          BY <1>0 DEF PortalTypeOK, Call
    <2>2. next_zone_set \in Nat /\ next_zone_set + 1 \in Nat
          BY <1>0 DEF PortalTypeOK
    <2>3. e \in Entry /\ Sound(e) /\ e.activation_id = 0
          BY <2>1, <2>2, GoneIsAnEntry DEF NewEntry, Gone, Entry, Sound, NoConn
    <2>4. SessionsKept
          BY <1>1, <2>1, <2>3, OneSessionChanges DEF CreateInserts
    <2>5. [call EXCEPT !.method = "Export"] \in Call
          BY <2>1 DEF Call
    <2> QED
        BY <1>0, <1>1, <2>2, <2>4, <2>5 DEF CreateInserts, QuietStep, PortalTypeOK
  <1>2. ASSUME NEW call \in calls, CreateExports(call) PROVE QuietStep
    <2>1. call.session \in Session
          BY <1>0 DEF PortalTypeOK, Call
    <2>2. SessionsKept
          BY <1>2, <2>1, OneSessionChanges, GoneIsAnEntry, NoSessionChanges DEF CreateExports
    <2> QED
        BY <1>0, <1>2, <2>2 DEF CreateExports, QuietStep, PortalTypeOK
  <1>3. ASSUME NEW call \in calls, GetZonesAnswers(call) PROVE QuietStep
    <2> DEFINE s == call.session
               changed == sessions[s].zones # call.outputs
               id == IF changed THEN next_zone_set ELSE sessions[s].zone_set
               B == IF changed THEN {} ELSE sessions[s].barriers
               e == [sessions[s] EXCEPT !.zone_set = id, !.zones = call.outputs,
                                        !.barriers = B]
    <2>1. s \in Session /\ call.outputs \in Layouts
          BY <1>0 DEF PortalTypeOK, Call
    <2>2. calls' \subseteq Call
          BY <1>0, <1>3 DEF GetZonesAnswers, PortalTypeOK
    <2>3. CASE ~sessions[s].registered
          BY <1>0, <1>3, <2>2, <2>3, NoSessionChanges
          DEF GetZonesAnswers, QuietStep, PortalTypeOK
    <2>4. CASE sessions[s].registered
      <3>1. /\ id \in Nat
            /\ next_zone_set + (IF changed THEN 1 ELSE 0) \in Nat
            /\ B \in SUBSET BarrierId
            BY <1>0, <2>1, EntryOf DEF PortalTypeOK, Entry
      <3>2. e \in Entry /\ Sound(e) /\ e.activation_id = sessions[s].activation_id
        <4>1. ASSUME NEW i \in Nat, NEW C \in SUBSET BarrierId
              PROVE  LET f == [sessions[s] EXCEPT !.zone_set = i, !.zones = call.outputs,
                                                  !.barriers = C]
                     IN /\ f \in Entry
                        /\ Sound(f)
                        /\ f.activation_id = sessions[s].activation_id
              BY <2>1, EntryOf DEF Entry, Sound
        <4> HIDE DEF id, B
        <4> QED
            BY <3>1, <4>1
      <3>3. sessions' = [sessions EXCEPT ![s] = e]
            BY <1>0, <1>3, <2>1, <2>4 DEF GetZonesAnswers, PortalTypeOK
      <3>4. SessionsKept
            BY <2>1, <3>2, <3>3, OneSessionChanges
      <3>5. <<id, call.outputs>> \in Nat \X Layouts
            BY <2>1, <3>1
      <3>6. answered' = [answered EXCEPT ![s] = @ \cup {<<id, call.outputs>>}]
            BY <1>3, <2>4 DEF GetZonesAnswers
      <3>7. answered' \in [Session -> SUBSET (Nat \X Layouts)]
            BY <1>0, <2>1, <3>5, <3>6 DEF PortalTypeOK
      <3> QED
          BY <1>0, <1>3, <2>2, <2>4, <3>1, <3>4, <3>7
          DEF GetZonesAnswers, QuietStep, PortalTypeOK
    <2> QED
        BY <2>3, <2>4
  <1> QED
      BY <1>1, <1>2, <1>3 DEF Answering

\* And so is all that force_release_all does.
LEMMA ReleasingIsQuiet == ASSUME PortalInv, Releasing PROVE QuietStep
  <1> USE DEF chanVars
  <1>0. /\ PortalTypeOK
        /\ layout \in Layouts
        /\ \A s \in Session : heard[s] \in {0, heard[s]} /\ heard[s] \in Nat
        /\ \A r \in Releaser : /\ releasers[r] \in Release
                               /\ releasers[r].todo \in SUBSET Session
        BY DEF PortalInv, PortalTypeOK, Release
  <1>1. \A r \in Releaser : /\ [releasers[r] EXCEPT !.at = "found"] \in Release
                            /\ [releasers[r] EXCEPT !.at = "tell"] \in Release
        BY <1>0 DEF Release
  <1>2. NotReleasing \in Release
        BY DEF NotReleasing, Release
  <1>3. ASSUME EisClosed PROVE QuietStep
    <2>1. SessionsKept
          BY <1>3, NoSessionChanges DEF EisClosed
    <2>2. releasers' \in [Releaser -> Release]
          BY <1>0, <1>1, <1>3 DEF EisClosed, PortalTypeOK, Releaser
    <2> QED
        BY <1>0, <1>3, <2>1, <2>2 DEF EisClosed, QuietStep, PortalTypeOK
  <1>4. ASSUME EisClosedReleases PROVE QuietStep
        BY <1>4, ReleaseAllIsQuiet DEF EisClosedReleases, Releaser
  <1>5. ASSUME NEW r \in Releaser, ReleaseUnlocks(r) PROVE QuietStep
    <2>1. SessionsKept
          BY <1>5, NoSessionChanges DEF ReleaseUnlocks
    <2>2. releasers' \in [Releaser -> Release]
          BY <1>0, <1>1, <1>5 DEF ReleaseUnlocks, PortalTypeOK
    <2> QED
        BY <1>0, <1>5, <2>1, <2>2 DEF ReleaseUnlocks, QuietStep, PortalTypeOK
  <1>6. ASSUME NEW r \in Releaser, ReleaseDone(r) PROVE QuietStep
    <2>1. SessionsKept
          BY <1>6, NoSessionChanges DEF ReleaseDone
    <2> QED
        BY <1>0, <1>2, <1>6, <2>1 DEF ReleaseDone, QuietStep, PortalTypeOK
  <1>7. ASSUME NEW r \in Releaser, NEW s \in Session, ReleaseTells(r, s) PROVE QuietStep
    <2>1. SessionsKept
          BY <1>7, NoSessionChanges DEF ReleaseTells
    <2>2. [releasers[r] EXCEPT !.todo = releasers[r].todo \ {s}] \in Release
          BY <1>0 DEF Release
    <2>3. releasers' \in [Releaser -> Release]
          BY <1>0, <1>7, <2>2 DEF ReleaseTells, PortalTypeOK
    <2> QED
        BY <1>0, <1>7, <2>1, <2>3 DEF ReleaseTells, QuietStep, PortalTypeOK
  <1> QED
      BY <1>3, <1>4, <1>5, <1>6, <1>7 DEF Releasing, ReleaserSteps

----------------------------------------------------------------------------
(* The pump.                                                                *)

\* A step of the pump that starts and announces nothing.
LEMMA PumpMoves ==
  ASSUME PortalInv, SessionsKept, pump' \in Pump, heard' \in [Session -> Nat],
         UNCHANGED <<next_zone_set, next_activation, calls, releasers, newest,
                     answered, layout>>,
         pump.at # "announce", pump'.at # "announce", DeactivatedWasAnnounced'
  PROVE  PortalInv'
  <1>1. PortalTypeOK' /\ layout' \in Layouts /\ \A s \in Session : Sound(sessions'[s])
        BY DEF PortalInv, PortalTypeOK, SessionsKept
  <1>2. \A s \in Session : /\ sessions[s].activation_id < next_activation
                           /\ sessions'[s].activation_id \in {0, sessions[s].activation_id}
                           /\ 0 < next_activation
        BY EntryOf DEF SessionsKept, PortalInv, PortalTypeOK
  <1>3. ActivationsDistinct'
        BY <1>2 DEF PortalInv, ActivationsDistinct
  <1>4. AnnouncementsInOrder'
        BY <1>2 DEF PortalInv, AnnouncementsInOrder, Latest
  <1> QED
      BY <1>1, <1>3, <1>4 DEF PortalInv

LEMMA PumpingKeeps == ASSUME PortalInv, Pumping PROVE PortalInv'
  <1> USE DEF chanVars
  <1>0. PortalTypeOK /\ layout \in Layouts
        BY DEF PortalInv
  <1>1. ASSUME PumpActivated PROVE PortalInv'
    <2>1. pump.at = "idle"
          BY <1>1 DEF PumpActivated, NextEvent, Idle
    <2>2. pump' \in Pump /\ pump'.at \in {"idle", "crossing"}
          BY <1>1 DEF PumpActivated, Pump, Idle
    <2>3. SessionsKept
          BY <1>1, NoSessionChanges DEF PumpActivated
    <2> QED
        BY <1>0, <1>1, <2>1, <2>2, <2>3, PumpMoves
        DEF PumpActivated, PortalTypeOK, DeactivatedWasAnnounced
  <1>2. ASSUME PumpCaptureLost PROVE PortalInv'
    <2>1. pump.at = "idle"
          BY <1>2 DEF PumpCaptureLost, NextEvent, Idle
    <2>2. \A s \in Capturers : [session |-> s, barriers |-> sessions[s].barriers] \in Lost
          BY EntryOf DEF Capturers, Entry, Lost
    <2>3. pump' \in Pump /\ pump'.at = "lost"
          BY <1>2, <2>2 DEF PumpCaptureLost, Pump
    <2>4. SessionsKept
          BY <1>2, NoSessionChanges DEF PumpCaptureLost
    <2> QED
        BY <1>0, <1>2, <2>1, <2>3, <2>4, PumpMoves
        DEF PumpCaptureLost, PortalTypeOK, DeactivatedWasAnnounced
  <1>3. ASSUME pump.at = "lost", NEW l \in pump.todo, Deactivate(l) PROVE PortalInv'
    <2> DEFINE s == l.session
               e == [sessions[s] EXCEPT !.activation_id = 0]
    <2>1. pump.todo \subseteq Lost /\ l \in Lost /\ s \in Session
          BY <1>0, <1>3 DEF PortalTypeOK, Pump, Lost
    <2>2. e \in Entry /\ Sound(e) /\ e.activation_id = 0
          BY <2>1, EntryOf DEF Entry, Sound
    <2>3. sessions' = [sessions EXCEPT ![s] = e]
          BY <1>0, <1>3 DEF Deactivate, PortalTypeOK
    <2>4. SessionsKept
          BY <2>1, <2>2, <2>3, OneSessionChanges
    <2>5. pump' = [at |-> "tell", now |-> l, id |-> sessions[s].activation_id,
                   todo |-> pump.todo \ {l}]
          BY <1>3 DEF Deactivate
    <2>6. sessions[s].activation_id \in Nat
          BY <2>1, EntryOf
    <2>7. pump' \in Pump /\ pump'.at = "tell"
          BY <2>1, <2>5, <2>6 DEF Pump
    <2>8. DeactivatedWasAnnounced'
          BY <1>3, <2>1, <2>5
          DEF Deactivate, DeactivatedWasAnnounced, PortalInv, AnnouncementsInOrder, Latest
    <2> QED
        BY <1>0, <1>3, <2>4, <2>7, <2>8, PumpMoves DEF Deactivate, PortalTypeOK
  <1>4. ASSUME AnnounceDeactivated PROVE PortalInv'
    <2>1. pump.now \in Lost /\ pump.now.session \in Session /\ pump.todo \in SUBSET Lost
          BY <1>0, <1>4 DEF AnnounceDeactivated, PortalTypeOK, Pump, Lost
    <2>2. pump' \in Pump /\ pump'.at = "lost"
          BY <1>4, <2>1 DEF AnnounceDeactivated, Pump
    <2>3. heard' \in [Session -> Nat]
          BY <1>0, <1>4 DEF AnnounceDeactivated, PortalTypeOK
    <2>4. SessionsKept
          BY <1>4, NoSessionChanges DEF AnnounceDeactivated
    <2> QED
        BY <1>4, <2>2, <2>3, <2>4, PumpMoves DEF AnnounceDeactivated, DeactivatedWasAnnounced
  <1>5. ASSUME CaptureLostDone PROVE PortalInv'
    <2>1. pump' \in Pump /\ pump'.at = "idle"
          BY <1>5 DEF CaptureLostDone, Pump, Idle
    <2>2. SessionsKept
          BY <1>5, NoSessionChanges DEF CaptureLostDone
    <2> QED
        BY <1>0, <1>5, <2>1, <2>2, PumpMoves
        DEF CaptureLostDone, PortalTypeOK, DeactivatedWasAnnounced
  <1>6. ASSUME PumpOutputsChanged PROVE PortalInv'
    <2>1. SessionsKept
          BY <1>6, NoSessionChanges DEF PumpOutputsChanged, portalVars
    <2> QED
        BY <1>0, <1>6, <2>1, QuietKeeps
        DEF PumpOutputsChanged, portalVars, QuietStep, PortalTypeOK
  <1>7. ASSUME Activate PROVE PortalInv'
    <2> DEFINE s == pump.session
               n == next_activation
               e == [sessions[s] EXCEPT !.activation_id = n]
    <2>1. s \in Session /\ n \in Nat
          BY <1>0, <1>7 DEF Activate, TakeId, PortalTypeOK, Pump
    <2>2. CASE MayActivate(s)
      <3>1. e \in Entry /\ Sound(e) /\ e.activation_id = n
            BY <2>1, <2>2, EntryOf DEF MayActivate, Entry, Sound
      <3>2. sessions' = [sessions EXCEPT ![s] = e]
            BY <1>0, <1>7, <2>1, <2>2 DEF Activate, TakeId, PortalTypeOK
      <3>3. /\ sessions' \in [Session -> Entry]
            /\ \A t \in Session : /\ Sound(sessions'[t])
                                  /\ sessions'[t].activation_id =
                                       IF t = s THEN n ELSE sessions[t].activation_id
            BY <1>0, <2>1, <3>1, <3>2, EntryOf DEF PortalTypeOK
      <3>4. pump' = [at |-> "announce", session |-> s, id |-> n]
            BY <1>7, <2>2 DEF Activate, TakeId
      <3>5. pump' \in Pump
            BY <2>1, <3>4 DEF Pump
      <3>6. next_activation' = n + 1 /\ newest' = newest /\ pump.at = "crossing"
            BY <1>7 DEF Activate, TakeId
      <3>7. PortalTypeOK' /\ layout' \in Layouts
            BY <1>0, <1>7, <2>1, <3>3, <3>5, <3>6 DEF Activate, TakeId, PortalTypeOK
      <3>8. \A t \in Session : /\ sessions[t].activation_id \in Nat
                               /\ sessions[t].activation_id < n
                               /\ newest[t] \in Nat /\ newest[t] < n
            BY <1>0, EntryOf DEF PortalInv, AnnouncementsInOrder, PortalTypeOK
      <3>9. ActivationsDistinct'
            BY <2>1, <3>3, <3>6, <3>8 DEF PortalInv, ActivationsDistinct
      <3>10. AnnouncementsInOrder'
            BY <2>1, <3>3, <3>4, <3>6, <3>8
            DEF PortalInv, AnnouncementsInOrder, DeactivatedWasAnnounced, Latest
      <3> QED
          BY <3>3, <3>7, <3>9, <3>10 DEF PortalInv
    <2>3. CASE ~MayActivate(s)
      <3>1. pump' = Idle /\ Idle \in Pump /\ sessions' = sessions
            BY <1>7, <2>3 DEF Activate, TakeId, Idle, Pump
      <3>2. next_activation' = n + 1 /\ newest' = newest /\ pump.at = "crossing"
            BY <1>7 DEF Activate, TakeId
      <3>3. PortalTypeOK' /\ layout' \in Layouts /\ \A t \in Session : Sound(sessions'[t])
            BY <1>0, <1>7, <2>1, <3>1, <3>2 DEF Activate, TakeId, PortalTypeOK, PortalInv
      <3>4. \A t \in Session : /\ sessions[t].activation_id \in Nat
                               /\ sessions[t].activation_id < n
                               /\ newest[t] \in Nat /\ newest[t] < n
            BY <1>0, EntryOf DEF PortalInv, AnnouncementsInOrder, PortalTypeOK
      <3>5. ActivationsDistinct'
            BY <2>1, <3>1, <3>2, <3>4 DEF PortalInv, ActivationsDistinct
      <3>6. AnnouncementsInOrder'
            BY <2>1, <3>1, <3>2, <3>4
            DEF PortalInv, AnnouncementsInOrder, DeactivatedWasAnnounced, Latest, Idle
      <3> QED
          BY <3>3, <3>5, <3>6 DEF PortalInv
    <2> QED
        BY <2>2, <2>3
  <1>8. ASSUME AnnounceActivated PROVE PortalInv'
    <2> DEFINE s == pump.session
               n == pump.id
    <2>1. s \in Session /\ n \in Nat
          BY <1>0, <1>8 DEF AnnounceActivated, PortalTypeOK, Pump
    <2>2. newest[s] < n /\ n < next_activation
          BY <1>8 DEF AnnounceActivated, PortalInv, AnnouncementsInOrder
    <2>3. /\ pump' = Idle /\ Idle \in Pump
          /\ UNCHANGED <<sessions, next_activation>>
          /\ newest' = [newest EXCEPT ![s] = n]
          BY <1>8 DEF AnnounceActivated, Idle, Pump
    <2>4. PortalTypeOK' /\ layout' \in Layouts /\ \A t \in Session : Sound(sessions'[t])
          BY <1>0, <1>8, <2>1, <2>3 DEF AnnounceActivated, PortalTypeOK, PortalInv
    <2>5. ActivationsDistinct'
          BY <2>3 DEF PortalInv, ActivationsDistinct
    <2>6. \A t \in Session : newest[t] \in Nat /\ sessions[t].activation_id \in Nat
          BY <1>0, EntryOf DEF PortalTypeOK
    <2>7. \A t \in Session : newest'[t] = IF t = s THEN n ELSE newest[t]
          BY <1>0, <2>3 DEF PortalTypeOK
    <2>8. \A t \in Session : sessions[t].activation_id # 0 =>
             newest'[t] = sessions[t].activation_id
          BY <1>8, <2>7 DEF AnnounceActivated, PortalInv, AnnouncementsInOrder, Latest
    <2>9. AnnouncementsInOrder'
          BY <2>2, <2>3, <2>6, <2>7, <2>8
          DEF PortalInv, AnnouncementsInOrder, DeactivatedWasAnnounced, Latest, Idle
    <2> QED
        BY <2>4, <2>5, <2>9 DEF PortalInv
  <1> QED
      BY <1>1, <1>2, <1>3, <1>4, <1>5, <1>6, <1>7, <1>8 DEF Pumping

----------------------------------------------------------------------------
(* The theorems.                                                            *)

LEMMA PortalInvInit == layout \in Layouts /\ PortalInit => PortalInv
  <1> SUFFICES ASSUME layout \in Layouts, PortalInit PROVE PortalInv
      OBVIOUS
  <1>1. PortalTypeOK
    <2>1. Idle \in Pump /\ NotReleasing \in Release
          BY DEF Idle, Pump, NotReleasing, Release
    <2> QED
        BY <2>1, GoneIsAnEntry DEF PortalInit, PortalTypeOK
  <1> QED
      BY <1>1, GoneIsAnEntry
      DEF PortalInit, PortalInv, ActivationsDistinct, AnnouncementsInOrder,
          DeactivatedWasAnnounced, Latest, Idle

LEMMA PortalStepKeeps == PortalInv /\ PortalStep => PortalInv'
  BY CallingIsQuiet, AnsweringIsQuiet, ReleasingIsQuiet, QuietKeeps, PumpingKeeps
  DEF PortalStep

\* Nothing outside the portal can break it, whatever the layout becomes.
LEMMA OutsideKeeps == PortalInv /\ UNCHANGED portalVars /\ layout' \in Layouts => PortalInv'
  <1> SUFFICES ASSUME PortalInv, UNCHANGED portalVars, layout' \in Layouts PROVE PortalInv'
      OBVIOUS
  <1>1. SessionsKept
        BY NoSessionChanges DEF portalVars
  <1> QED
      BY <1>1, QuietKeeps DEF QuietStep, portalVars, PortalInv, PortalTypeOK

LEMMA PortalNextKeeps == PortalInv /\ [PortalNext]_allPortalVars => PortalInv'
  <1> SUFFICES ASSUME PortalInv, [PortalNext]_allPortalVars PROVE PortalInv'
      OBVIOUS
  <1>1. CASE OthersTake \/ PortalEnvironment \/ UNCHANGED allPortalVars
    <2>1. UNCHANGED portalVars /\ layout' \in Layouts
          BY <1>1 DEF OthersTake, PortalEnvironment, ThreadReports, TaskEnds, allPortalVars,
                      chanVars, PortalInv
    <2> QED
        BY <2>1, OutsideKeeps
  <1> QED
      BY <1>1, PortalStepKeeps DEF PortalNext, PortalStep

THEOREM PortalInvariant == PortalSpec => []PortalInv
  <1>1. PortalAlone => PortalInv
        BY PortalInvInit DEF PortalAlone, ChannelsInit
  <1> QED
      BY <1>1, PortalNextKeeps, PTL DEF PortalSpec

\* Type correctness of the portal's state (portal.rs State, Session).
THEOREM PortalTypes == PortalSpec => []PortalTypeOK
  <1>1. PortalInv => PortalTypeOK
        BY DEF PortalInv
  <1> QED
      BY <1>1, PortalInvariant, PTL

\* However calls, crossings, releases and losses interleave, a session in a
\* capture run is enabled, and an enabled one may have the input.
THEOREM ActiveAuthorised == PortalSpec => []ActiveIsAuthorised
  <1>1. PortalInv => ActiveIsAuthorised
        BY DEF PortalInv, ActiveIsAuthorised, Sound
  <1> QED
      BY <1>1, PortalInvariant, PTL

\* Activation ids are not shared between sessions, nor used before their time.
THEOREM Distinct == PortalSpec => []ActivationsDistinct
  <1>1. PortalInv => ActivationsDistinct
        BY DEF PortalInv
  <1> QED
      BY <1>1, PortalInvariant, PTL

\* deactivate ends no run that its client has not been told of.
THEOREM DeactivatedAnnounced == PortalSpec => []DeactivatedWasAnnounced
  <1>1. PortalInv => DeactivatedWasAnnounced
        BY DEF PortalInv, AnnouncementsInOrder
  <1> QED
      BY <1>1, PortalInvariant, PTL

\* Each Activated a client gets names a larger activation than all before it.
LEMMA PortalStepAnnounces ==
  ASSUME PortalInv, PortalStep, NEW s \in Session, heard'[s] \notin {0, heard[s]}
  PROVE  heard'[s] > newest[s]
  <1>1. ~QuietStep
        BY DEF QuietStep
  <1>2. Pumping
        BY <1>1, CallingIsQuiet, AnsweringIsQuiet, ReleasingIsQuiet DEF PortalStep
  <1>3. heard \in [Session -> Nat] /\ newest \in [Session -> Nat] /\ pump \in Pump
        BY DEF PortalInv, PortalTypeOK
  <1>4. CASE AnnounceActivated
    <2>1. pump.session \in Session /\ pump.id \in Nat /\ newest[pump.session] < pump.id
          BY <1>3, <1>4 DEF AnnounceActivated, Pump, PortalInv, AnnouncementsInOrder
    <2>2. s = pump.session /\ heard'[s] = pump.id
          BY <1>3, <1>4, <2>1 DEF AnnounceActivated
    <2> QED
        BY <1>3, <2>1, <2>2
  <1>5. CASE AnnounceDeactivated
        BY <1>3, <1>5 DEF AnnounceDeactivated
  <1>6. CASE ~AnnounceActivated /\ ~AnnounceDeactivated
    <2>1. heard' = heard
          BY <1>2, <1>6
          DEF Pumping, PumpActivated, Activate, PumpCaptureLost, Deactivate,
              CaptureLostDone, PumpOutputsChanged, portalVars
    <2> QED
        BY <2>1
  <1> QED
      BY <1>4, <1>5, <1>6

THEOREM Announced == PortalSpec => AnnouncedInOrder
  <1> DEFINE Rising == \A s \in Session :
                         heard'[s] \notin {0, heard[s]} => heard'[s] > newest[s]
  <1>1. PortalInv /\ [PortalNext]_allPortalVars => [Rising]_allPortalVars
    <2> SUFFICES ASSUME PortalInv, PortalNext PROVE Rising
        OBVIOUS
    <2>1. CASE OthersTake \/ PortalEnvironment
          BY <2>1 DEF OthersTake, PortalEnvironment, ThreadReports, TaskEnds, portalVars
    <2>2. CASE PortalStep
          BY <2>2, PortalStepAnnounces
    <2> QED
        BY <2>1, <2>2 DEF PortalNext, PortalStep
  <1> QED
      BY <1>1, PortalInvariant, PTL DEF PortalSpec, AnnouncedInOrder
----------------------------------------------------------------------------
(* Zone sets and barriers.                                                  *)

\* BarriersMatchZones for one entry e, the answers A its client was given and
\* the next zone set n, and why it lasts: a zone set is handed out once, and
\* barriers there are were accepted for the zone set there is.
ZonesKnown(e, A, n) ==
    /\ e.registered => e.zone_set \in 1..(n - 1)
    /\ e.barriers # {} => e.accepted = e.zone_set
    /\ \A r \in A : /\ r[1] \in 1..(n - 1)
                    /\ r[1] = e.zone_set => r[2] = e.zones

ZonesInv ==
    /\ next_zone_set \in Nat \ {0}
    /\ \A s \in Session : ZonesKnown(sessions[s], answered[s], next_zone_set)

\* What ZonesKnown says of an entry.
SameZones(e, f) ==
    /\ e.registered = f.registered
    /\ e.zone_set = f.zone_set
    /\ e.zones = f.zones
    /\ e.barriers = f.barriers
    /\ e.accepted = f.accepted

\* A step that takes no zone set, answers nothing, and leaves alone the zones of
\* every session that does not go.
ZonesUntouched ==
    /\ UNCHANGED <<next_zone_set, answered>>
    /\ \A s \in Session : sessions'[s] = Gone \/ SameZones(sessions'[s], sessions[s])

LEMMA GoneIsKnown ==
  ASSUME NEW A, NEW n, \A r \in A : r[1] \in 1..(n - 1)
  PROVE  ZonesKnown(Gone, A, n)
  BY DEF ZonesKnown, Gone

LEMMA UntouchedKeepsZones == ZonesInv /\ ZonesUntouched => ZonesInv'
  <1> SUFFICES ASSUME ZonesInv, ZonesUntouched PROVE ZonesInv'
      OBVIOUS
  <1>1. ASSUME NEW s \in Session
        PROVE  ZonesKnown(sessions'[s], answered[s], next_zone_set)
    <2>1. ZonesKnown(sessions[s], answered[s], next_zone_set)
          BY DEF ZonesInv
    <2>2. CASE sessions'[s] = Gone
          BY <2>1, <2>2, GoneIsKnown DEF ZonesKnown
    <2>3. CASE SameZones(sessions'[s], sessions[s])
          BY <2>1, <2>3 DEF ZonesKnown, SameZones
    <2> QED
        BY <2>2, <2>3 DEF ZonesUntouched
  <1> QED
      BY <1>1 DEF ZonesInv, ZonesUntouched

\* Of the calls, Close and SetPointerBarriers are the ones that touch zones.
LEMMA CallingKeepsZones == ASSUME PortalInv, ZonesInv, Calling PROVE ZonesInv'
  <1> USE DEF chanVars
  <1>1. /\ sessions \in [Session -> Entry]
        /\ answered \in [Session -> SUBSET (Nat \X Layouts)]
        BY DEF PortalInv, PortalTypeOK
  <1>2. ASSUME NEW s \in Session, Close(s) PROVE ZonesInv'
    <2>1. ASSUME NEW t \in Session
          PROVE  ZonesKnown(sessions'[t], answered'[t], next_zone_set)
      <3>1. CASE t = s
        <4>1. sessions'[t] = Gone /\ answered'[t] = {}
              BY <1>1, <1>2, <3>1 DEF Close
        <4> QED
            BY <4>1, GoneIsKnown
      <3>2. CASE t # s
        <4>1. sessions'[t] = sessions[t] /\ answered'[t] = answered[t]
              BY <1>1, <1>2, <3>2 DEF Close
        <4> QED
            BY <4>1 DEF ZonesInv
      <3> QED
          BY <3>1, <3>2
    <2>2. next_zone_set' = next_zone_set
          BY <1>2 DEF Close
    <2> QED
        BY <2>1, <2>2 DEF ZonesInv
  <1>3. ASSUME NEW s \in Session, NEW B \in BarrierSets, NEW id \in 1..MaxZoneSets,
               SetPointerBarriers(s, B, id)
        PROVE  ZonesInv'
    <2>1. ASSUME NEW t \in Session
          PROVE  ZonesKnown(sessions'[t], answered[t], next_zone_set)
      <3>1. ZonesKnown(sessions[t], answered[t], next_zone_set)
            BY DEF ZonesInv
      <3>2. CASE t = s
        <4>1. sessions'[t] = [sessions[t] EXCEPT !.barriers = Accepted(B), !.accepted = id]
              BY <1>1, <1>3, <3>2 DEF SetPointerBarriers
        <4>2. id = sessions[t].zone_set
              BY <1>3, <3>2 DEF SetPointerBarriers, Current
        <4> QED
            BY <1>1, <3>1, <4>1, <4>2 DEF ZonesKnown, Entry
      <3>3. CASE t # s
            BY <1>1, <1>3, <3>1, <3>3 DEF SetPointerBarriers
      <3> QED
          BY <3>2, <3>3
    <2>2. UNCHANGED <<next_zone_set, answered>>
          BY <1>3 DEF SetPointerBarriers
    <2> QED
        BY <2>1, <2>2 DEF ZonesInv
  <1>4. ASSUME NEW s \in Session,
               \/ \E method \in {"CreateSession", "CreateSession2"} : CreateBegins(s, method)
               \/ GetZonesBegins(s)
        PROVE  ZonesUntouched
        BY <1>4 DEF CreateBegins, GetZonesBegins, ZonesUntouched, SameZones
  <1>5. ASSUME NEW s \in Session,
               Start(s) \/ (\E c \in Conn : ConnectToEIS(s, c)) \/ Enable(s) \/ Disable(s)
                 \/ ReleaseCapture(s)
        PROVE  ZonesUntouched
    <2>1. ASSUME NEW t \in Session PROVE SameZones(sessions'[t], sessions[t])
      <3>1. CASE t = s
            BY <1>1, <1>5, <3>1
            DEF Start, ConnectToEIS, Enable, Disable, ReleaseCapture, Entry, SameZones
      <3>2. CASE t # s
            BY <1>1, <1>5, <3>2
            DEF Start, ConnectToEIS, Enable, Disable, ReleaseCapture, SameZones
      <3> QED
          BY <3>1, <3>2
    <2> QED
        BY <1>5, <2>1 DEF Start, ConnectToEIS, Enable, Disable, ReleaseCapture, ZonesUntouched
  <1>6. ASSUME NEW d \in BOOLEAN, ReleaseAll("control", d) PROVE ZonesUntouched
        BY <1>1, <1>6 DEF ReleaseAll, Entry, ZonesUntouched, SameZones
  <1> QED
      BY <1>2, <1>3, <1>4, <1>5, <1>6, UntouchedKeepsZones
      DEF Calling, ForceRelease, ControlDisarm

\* create gives a zone set nobody was answered yet; get_zones gives one for
\* every layout it finds changed, and voids the barriers with it.
LEMMA AnsweringKeepsZones == ASSUME PortalInv, ZonesInv, Answering PROVE ZonesInv'
  <1> USE DEF chanVars
  <1>1. /\ sessions \in [Session -> Entry]
        /\ answered \in [Session -> SUBSET (Nat \X Layouts)]
        /\ calls \subseteq Call
        /\ next_zone_set \in Nat \ {0}
        BY DEF PortalInv, PortalTypeOK, ZonesInv
  <1>2. ASSUME NEW call \in calls, CreateInserts(call) PROVE ZonesInv'
    <2>1. ASSUME NEW t \in Session
          PROVE  ZonesKnown(sessions'[t], answered[t], next_zone_set + 1)
      <3>1. ZonesKnown(sessions[t], answered[t], next_zone_set)
            BY DEF ZonesInv
      <3>2. CASE t = call.session
        <4>1. sessions'[t] = NewEntry(call)
              BY <1>1, <1>2, <3>2 DEF CreateInserts
        <4>2. /\ sessions'[t].zone_set = next_zone_set
              /\ sessions'[t].barriers = {}
              BY <4>1 DEF NewEntry, Gone
        <4> QED
            BY <1>1, <3>1, <4>2 DEF ZonesKnown
      <3>3. CASE t # call.session
        <4>1. sessions'[t] = sessions[t]
              BY <1>1, <1>2, <3>3 DEF CreateInserts
        <4> QED
            BY <1>1, <3>1, <4>1 DEF ZonesKnown
      <3> QED
          BY <3>2, <3>3
    <2>2. next_zone_set' = next_zone_set + 1 /\ UNCHANGED answered
          BY <1>2 DEF CreateInserts
    <2> QED
        BY <1>1, <2>1, <2>2 DEF ZonesInv
  <1>3. ASSUME NEW call \in calls, CreateExports(call) PROVE ZonesInv'
    <2>1. ZonesUntouched
          BY <1>1, <1>3 DEF CreateExports, ZonesUntouched, SameZones
    <2> QED
        BY <2>1, UntouchedKeepsZones
  <1>4. ASSUME NEW call \in calls, GetZonesAnswers(call) PROVE ZonesInv'
    <2> DEFINE s == call.session
    <2>0. s \in Session
          BY <1>1 DEF Call
    <2>1. CASE ~sessions[s].registered
      <3>1. ZonesUntouched
            BY <1>4, <2>1 DEF GetZonesAnswers, ZonesUntouched, SameZones
      <3> QED
          BY <3>1, UntouchedKeepsZones
    <2>2. CASE sessions[s].registered /\ sessions[s].zones # call.outputs
      <3>1. /\ sessions' = [sessions EXCEPT ![s].zone_set = next_zone_set,
                                             ![s].zones = call.outputs,
                                             ![s].barriers = {}]
            /\ answered' = [answered EXCEPT ![s] = @ \cup {<<next_zone_set, call.outputs>>}]
            /\ next_zone_set' = next_zone_set + 1
            BY <1>4, <2>2 DEF GetZonesAnswers
      <3>2. ASSUME NEW t \in Session
            PROVE  ZonesKnown(sessions'[t], answered'[t], next_zone_set + 1)
        <4>1. ZonesKnown(sessions[t], answered[t], next_zone_set)
              BY DEF ZonesInv
        <4>2. CASE t = s
          <5>1. /\ sessions'[t].zone_set = next_zone_set
                /\ sessions'[t].zones = call.outputs
                /\ sessions'[t].barriers = {}
                /\ answered'[t] = answered[t] \cup {<<next_zone_set, call.outputs>>}
                BY <1>1, <3>1, <4>2 DEF Entry
          <5> QED
              BY <1>1, <4>1, <5>1 DEF ZonesKnown
        <4>3. CASE t # s
          <5>1. sessions'[t] = sessions[t] /\ answered'[t] = answered[t]
                BY <1>1, <3>1, <4>3
          <5> QED
              BY <1>1, <4>1, <5>1 DEF ZonesKnown
        <4> QED
            BY <4>2, <4>3
      <3>3. next_zone_set' = next_zone_set + 1 /\ next_zone_set + 1 \in Nat \ {0}
            BY <1>1, <3>1
      <3> QED
          BY <3>2, <3>3 DEF ZonesInv
    <2>3. CASE sessions[s].registered /\ sessions[s].zones = call.outputs
      <3>1. /\ sessions' = [sessions EXCEPT ![s].zone_set = sessions[s].zone_set,
                                             ![s].zones = call.outputs,
                                             ![s].barriers = sessions[s].barriers]
            /\ answered' = [answered EXCEPT
                              ![s] = @ \cup {<<sessions[s].zone_set, call.outputs>>}]
            /\ next_zone_set' = next_zone_set
            BY <1>1, <1>4, <2>3 DEF GetZonesAnswers
      <3>2. ASSUME NEW t \in Session
            PROVE  ZonesKnown(sessions'[t], answered'[t], next_zone_set)
        <4>1. ZonesKnown(sessions[t], answered[t], next_zone_set)
              BY DEF ZonesInv
        <4>2. CASE t = s
          <5>1. /\ SameZones(sessions'[t], sessions[t])
                /\ answered'[t] = answered[t] \cup {<<sessions[t].zone_set, sessions[t].zones>>}
                BY <1>1, <2>3, <3>1, <4>2 DEF Entry, SameZones
          <5> QED
              BY <2>3, <4>1, <4>2, <5>1 DEF ZonesKnown, SameZones
        <4>3. CASE t # s
          <5>1. sessions'[t] = sessions[t] /\ answered'[t] = answered[t]
                BY <1>1, <3>1, <4>3
          <5> QED
              BY <4>1, <5>1
        <4> QED
            BY <4>2, <4>3
      <3> QED
          BY <1>1, <3>1, <3>2 DEF ZonesInv
    <2> QED
        BY <2>1, <2>2, <2>3
  <1> QED
      BY <1>2, <1>3, <1>4 DEF Answering

\* Neither a forced release nor the pump looks at zones.
LEMMA OthersKeepZones ==
  ASSUME PortalInv, ZonesInv,
         Releasing \/ Pumping \/ OthersTake \/ PortalEnvironment \/ UNCHANGED allPortalVars
  PROVE  ZonesInv'
  <1> USE DEF chanVars
  <1>1. sessions \in [Session -> Entry] /\ pump \in Pump
        BY DEF PortalInv, PortalTypeOK
  <1>2. CASE Releasing
    <2>1. \A r, d : ReleaseAll(r, d) => ZonesUntouched
          BY <1>1 DEF ReleaseAll, Entry, ZonesUntouched, SameZones
    <2> QED
        BY <1>2, <2>1, UntouchedKeepsZones
        DEF Releasing, ReleaserSteps, EisClosed, EisClosedReleases, ReleaseUnlocks,
            ReleaseDone, ReleaseTells, ZonesInv
  <1>3. CASE Activate
    <2>1. pump.session \in Session
          BY <1>1, <1>3 DEF Activate, Pump
    <2>2. ASSUME NEW t \in Session PROVE SameZones(sessions'[t], sessions[t])
      <3>1. CASE t = pump.session
            BY <1>1, <1>3, <2>1, <3>1 DEF Activate, Entry, SameZones
      <3>2. CASE t # pump.session
            BY <1>1, <1>3, <2>1, <3>2 DEF Activate, SameZones
      <3> QED
          BY <3>1, <3>2
    <2> QED
        BY <1>3, <2>2, UntouchedKeepsZones DEF Activate, ZonesUntouched
  <1>4. ASSUME NEW l, Deactivate(l) PROVE ZonesInv'
    <2>1. ASSUME NEW t \in Session PROVE SameZones(sessions'[t], sessions[t])
          BY <1>1, <1>4 DEF Deactivate, Entry, SameZones
    <2> QED
        BY <1>4, <2>1, UntouchedKeepsZones DEF Deactivate, ZonesUntouched
  <1>5. CASE Pumping /\ ~Activate /\ ~(\E l : Deactivate(l))
    <2>1. UNCHANGED <<sessions, next_zone_set, answered>>
          BY <1>5 DEF Pumping, PumpActivated, AnnounceActivated, PumpCaptureLost,
                      AnnounceDeactivated, CaptureLostDone, PumpOutputsChanged, portalVars
    <2> QED
        BY <2>1 DEF ZonesInv
  <1>6. CASE OthersTake \/ PortalEnvironment \/ UNCHANGED allPortalVars
    <2>1. UNCHANGED <<sessions, next_zone_set, answered>>
          BY <1>6 DEF OthersTake, PortalEnvironment, ThreadReports, TaskEnds, allPortalVars,
                      portalVars
    <2> QED
        BY <2>1 DEF ZonesInv
  <1> QED
      BY <1>2, <1>3, <1>4, <1>5, <1>6

\* For any number of GetZones calls that read any layouts: the zone set a client
\* quotes stands for the layout it was shown with it, and barriers in force
\* belong to the layout the session holds (portal.rs:491, 575).
THEOREM ZonesMatch == PortalSpec => []BarriersMatchZones
  <1>1. PortalAlone => ZonesInv
        BY DEF PortalAlone, PortalInit, ZonesInv, ZonesKnown, Gone
  <1>2. PortalInv /\ ZonesInv /\ [PortalNext]_allPortalVars => ZonesInv'
        BY CallingKeepsZones, AnsweringKeepsZones, OthersKeepZones DEF PortalNext
  <1>3. ZonesInv => BarriersMatchZones
        BY DEF ZonesInv, ZonesKnown, BarriersMatchZones
  <1> QED
      BY <1>1, <1>2, <1>3, PortalInvariant, PTL DEF PortalSpec
=============================================================================
