------------------------ MODULE WaylandThreadProofs ------------------------
(***************************************************************************)
(* Proofs about WaylandThread, for any barriers, layouts and connections    *)
(* and whatever the portal sends: type correctness; that nothing is grabbed *)
(* but by the running capture; that the thread implements PointerGrab; and  *)
(* that captured input is conserved.                                        *)
(***************************************************************************)
EXTENDS WaylandThread, SequenceTheorems, TLAPS

\* The inductive invariant: commands are typed because Arm and AttachEis put
\* what they carry into the state; a surface that holds a capture is never
\* still waiting for its first configure.
ThreadInv ==
    /\ ThreadTypeOK
    /\ cmds \in Seq(WaylandCmd)
    /\ GrabsFollowCapture
    /\ Capturing => capture.barrier \notin surfaces \ drawn

ThreadStep ==
    \/ HandleCmd
    \/ Callback
    \/ \E b \in BarrierId : BeginCapture(b)
    \/ Watchdog

----------------------------------------------------------------------------
(* Helpers.                                                                 *)

LEMMA CaptureIsNotNone == \A c \in Capture : c.barrier \in BarrierId /\ c # NoCapture
  BY WaylandAssumption DEF Capture, NoCapture

\* Commands stay typed as they are taken and added.
LEMMA NextCmdTyped ==
  ASSUME NEW type, cmds \in Seq(WaylandCmd), NextCmd(type)
  PROVE  /\ cmds' \in Seq(WaylandCmd)
         /\ Head(cmds) \in WaylandCmd
         /\ Head(cmds).type = type
  BY DEF NextCmd

LEMMA ArmTyped ==
  ASSUME cmds \in Seq(WaylandCmd), NextCmd("Arm")
  PROVE  Head(cmds).barriers \in SUBSET BarrierId
  BY NextCmdTyped DEF WaylandCmd, Disarm, EndCapture

LEMMA AttachTyped ==
  ASSUME cmds \in Seq(WaylandCmd), NextCmd("AttachEis")
  PROVE  Head(cmds).eis \in Conn
  BY NextCmdTyped DEF WaylandCmd, Disarm, EndCapture

\* attach_eis keeps the capture one, on the same barrier.
LEMMA Attached ==
  ASSUME NEW c \in Capture, NEW e \in Conn
  PROVE  /\ [c EXCEPT !.eis = e, !.pending = <<>>] \in Capture
         /\ [c EXCEPT !.eis = e, !.pending = <<>>].barrier = c.barrier
  <1>1. <<>> \in Seq(Nat)
        OBVIOUS
  <1> QED
      BY <1>1 DEF Capture

\* end_capture undoes all that the capture held.
LEMMA EndTheCaptureKeeps ==
  ASSUME ThreadTypeOK, GrabsFollowCapture, EndTheCapture
  PROVE  /\ capture' = NoCapture
         /\ grabs' \in [BarrierId -> SUBSET Grab]
         /\ \A b \in BarrierId : grabs'[b] = {}
  BY CaptureIsNotNone DEF ThreadTypeOK, GrabsFollowCapture, EndTheCapture, Capturing

----------------------------------------------------------------------------
(* Every step of the thread keeps the invariant.                            *)

LEMMA ThreadStepKeeps == ThreadInv /\ ThreadStep => ThreadInv'
  <1> SUFFICES ASSUME ThreadInv, ThreadStep PROVE ThreadInv'
      OBVIOUS
  <1> USE DEF chanVars, threadVars
  <1>0. /\ ThreadTypeOK
        /\ cmds \in Seq(WaylandCmd)
        /\ GrabsFollowCapture
        /\ Capturing => /\ capture \in Capture
                        /\ capture.barrier \in BarrierId
                        /\ capture.barrier \notin surfaces \ drawn
        BY CaptureIsNotNone DEF ThreadInv, ThreadTypeOK, Capturing
  <1>1. ASSUME HandleArm PROVE ThreadInv'
    <2>1. cmds' \in Seq(WaylandCmd) /\ Head(cmds).barriers \in SUBSET BarrierId
          BY <1>0, <1>1, NextCmdTyped, ArmTyped DEF HandleArm
    <2> QED
        BY <1>0, <1>1, <2>1
        DEF HandleArm, ThreadInv, ThreadTypeOK, GrabsFollowCapture, Capturing
  <1>2. ASSUME HandleDisarm PROVE ThreadInv'
    <2>1. cmds' \in Seq(WaylandCmd)
          BY <1>0, <1>2, NextCmdTyped DEF HandleDisarm
    <2> QED
        BY <1>0, <1>2, <2>1
        DEF HandleDisarm, KeepOnly, ThreadInv, ThreadTypeOK, GrabsFollowCapture, Capturing
  <1>3. ASSUME HandleAttachEis PROVE ThreadInv'
    <2>1. cmds' \in Seq(WaylandCmd) /\ Head(cmds).eis \in Conn
          BY <1>0, <1>3, NextCmdTyped, AttachTyped DEF HandleAttachEis
    <2>2. CASE Capturing
      <3>1. capture' = [capture EXCEPT !.eis = Head(cmds).eis, !.pending = <<>>]
            BY <1>3, <2>2 DEF HandleAttachEis
      <3>2. capture' \in Capture /\ capture'.barrier = capture.barrier
            BY <1>0, <2>1, <2>2, <3>1, Attached
      <3>3. capture' # NoCapture
            BY <3>2, CaptureIsNotNone
      <3> QED
          BY <1>0, <1>3, <2>1, <2>2, <3>2, <3>3
          DEF HandleAttachEis, ThreadInv, ThreadTypeOK, GrabsFollowCapture, Capturing
    <2>3. CASE ~Capturing
          BY <1>0, <1>3, <2>1, <2>3
          DEF HandleAttachEis, ThreadInv, ThreadTypeOK, GrabsFollowCapture, Capturing
    <2> QED
        BY <2>2, <2>3
  <1>4. ASSUME HandleEndCapture PROVE ThreadInv'
    <2>1. cmds' \in Seq(WaylandCmd)
          BY <1>0, <1>4, NextCmdTyped DEF HandleEndCapture
    <2> QED
        BY <1>0, <1>4, <2>1, EndTheCaptureKeeps
        DEF HandleEndCapture, ThreadInv, ThreadTypeOK, GrabsFollowCapture, Capturing
  <1>5. ASSUME NEW b \in BarrierId, Configure(b) PROVE ThreadInv'
        BY <1>0, <1>5 DEF Configure, ThreadInv, ThreadTypeOK, GrabsFollowCapture, Capturing
  <1>6. ASSUME NEW b \in BarrierId, LayerClosed(b) PROVE ThreadInv'
        BY <1>0, <1>6 DEF LayerClosed, ThreadInv, ThreadTypeOK, GrabsFollowCapture, Capturing
  <1>7. ASSUME Forward PROVE ThreadInv'
    <2>1. NextRank \in Nat
          BY <1>0, <1>7, WaylandAssumption DEF Forward, NextRank, Capture
    <2> DEFINE fed == [capture EXCEPT !.inputs = NextRank, !.idle = FALSE]
               pending == Append(capture.pending, NextRank)
    <2>2. capture \in Capture /\ capture.pending \in Seq(Nat) /\ pending \in Seq(Nat)
          BY <1>0, <1>7, <2>1 DEF Forward, Capture
    <2>3. capture' = fed \/ capture' = [fed EXCEPT !.pending = pending]
      <3>1. fed.pending = capture.pending
            BY <2>2 DEF Capture
      <3>2. capture' = fed \/ capture' = [fed EXCEPT !.pending = Append(fed.pending, NextRank)]
            BY <1>7 DEF Forward
      <3> HIDE DEF fed
      <3> QED
          BY <3>1, <3>2
    <2>4. capture' \in Capture /\ capture'.barrier = capture.barrier
      <3>1. ASSUME NEW n \in Nat, NEW p \in Seq(Nat)
            PROVE  LET f == [capture EXCEPT !.inputs = n, !.idle = FALSE]
                   IN /\ f \in Capture /\ f.barrier = capture.barrier
                      /\ [f EXCEPT !.pending = p] \in Capture
                      /\ [f EXCEPT !.pending = p].barrier = capture.barrier
            BY <2>2 DEF Capture
      <3>2. /\ fed \in Capture /\ fed.barrier = capture.barrier
            /\ [fed EXCEPT !.pending = pending] \in Capture
            /\ [fed EXCEPT !.pending = pending].barrier = capture.barrier
        <4> HIDE DEF pending
        <4> QED
            BY <2>1, <2>2, <3>1
      <3> HIDE DEF fed, pending
      <3> QED
          BY <2>3, <3>2
    <2>5. capture' # NoCapture
          BY <2>4, CaptureIsNotNone
    <2> QED
        BY <1>0, <1>7, <2>4, <2>5
        DEF Forward, ThreadInv, ThreadTypeOK, GrabsFollowCapture, Capturing
  <1>8. ASSUME Lose PROVE ThreadInv'
        BY <1>0, <1>8, EndTheCaptureKeeps
        DEF Lose, ThreadInv, ThreadTypeOK, GrabsFollowCapture, Capturing
  <1>9. ASSUME TimePasses PROVE ThreadInv'
    <2>1. capture' \in Capture /\ capture'.barrier = capture.barrier
          BY <1>0, <1>9 DEF TimePasses, Capture
    <2>2. capture' # NoCapture
          BY <2>1, CaptureIsNotNone
    <2> QED
        BY <1>0, <1>9, <2>1, <2>2
        DEF TimePasses, ThreadInv, ThreadTypeOK, GrabsFollowCapture, Capturing
  <1>10. ASSUME OutputUpdated PROVE ThreadInv'
        BY <1>0, <1>10 DEF OutputUpdated, ThreadInv, ThreadTypeOK, GrabsFollowCapture, Capturing
  <1>11. ASSUME OutputDestroyed PROVE ThreadInv'
        BY <1>0, <1>11
        DEF OutputDestroyed, ThreadInv, ThreadTypeOK, GrabsFollowCapture, Capturing
  <1>12. ASSUME PointerRemoved PROVE ThreadInv'
        BY <1>0, <1>12, EndTheCaptureKeeps
        DEF PointerRemoved, ThreadInv, ThreadTypeOK, GrabsFollowCapture, Capturing
  <1>13. ASSUME PointerAdded PROVE ThreadInv'
        BY <1>0, <1>13 DEF PointerAdded, ThreadInv, ThreadTypeOK, GrabsFollowCapture, Capturing
  <1>14. ASSUME NEW b \in BarrierId, BeginCapture(b) PROVE ThreadInv'
    <2>1. capture' \in Capture /\ capture'.barrier = b
          BY <1>14 DEF BeginCapture, Capture
    <2>2. capture' # NoCapture
          BY <2>1, CaptureIsNotNone
    <2> QED
        BY <1>0, <1>14, <2>1, <2>2
        DEF BeginCapture, ThreadInv, ThreadTypeOK, GrabsFollowCapture, Capturing
  <1> QED
      BY <1>1, <1>2, <1>3, <1>4, <1>5, <1>6, <1>7, <1>8, <1>9, <1>10, <1>11, <1>12, <1>13, <1>14
      DEF ThreadStep, HandleCmd, Callback, Unlocked, PanicKey, Watchdog

LEMMA ThreadNextKeeps == ThreadInv /\ [ThreadNext]_allThreadVars => ThreadInv'
  <1> SUFFICES ASSUME ThreadInv, [ThreadNext]_allThreadVars PROVE ThreadInv'
      OBVIOUS
  <1>1. cmds \in Seq(WaylandCmd)
        BY DEF ThreadInv
  <1>2. CASE PortalSends
    <2>1. PICK m \in {Disarm, EndCapture} \cup {Arm(B) : B \in SUBSET BarrierId}
                       \cup {AttachEis(c) : c \in {d \in Conn : Len(eisq[d]) < MaxInputs}} :
                 cmds' = cmds \o <<m>>
          BY <1>2 DEF PortalSends, SendCmds
    <2>2. m \in WaylandCmd
          BY DEF WaylandCmd, Arm, AttachEis
    <2>3. cmds' \in Seq(WaylandCmd)
          BY <1>1, <2>1, <2>2
    <2> QED
        BY <1>2, <2>3
        DEF PortalSends, threadVars, ThreadInv, ThreadTypeOK, GrabsFollowCapture, Capturing
  <1>3. CASE \/ PortalTakes
             \/ \E c \in Conn : EisConnects(c) \/ EisTakes(c) \/ EisDies(c)
             \/ UNCHANGED allThreadVars
    <2>1. UNCHANGED <<threadVars, cmds>>
          BY <1>3 DEF PortalTakes, EisConnects, EisTakes, EisDies, allThreadVars, chanVars
    <2> QED
        BY <2>1 DEF threadVars, ThreadInv, ThreadTypeOK, GrabsFollowCapture, Capturing
  <1>4. CASE ThreadStep
        BY <1>4, ThreadStepKeeps
  <1> QED
      BY <1>2, <1>3, <1>4 DEF ThreadNext, ThreadStep, ThreadEnvironment

----------------------------------------------------------------------------
(* The theorems.                                                            *)

LEMMA ThreadInvInit == cmds = <<>> /\ ThreadInit => ThreadInv
  BY DEF ThreadInit, ThreadInv, ThreadTypeOK, GrabsFollowCapture, Capturing

THEOREM ThreadInvariant == ThreadSpec => []ThreadInv
  <1>1. ThreadAlone => ThreadInv
        BY ThreadInvInit DEF ThreadAlone, ChannelsInit
  <1> QED
      BY <1>1, ThreadNextKeeps, PTL DEF ThreadSpec

\* Type correctness of the Wayland thread's state (wayland/state.rs AppState).
THEOREM ThreadTypes == ThreadSpec => []ThreadTypeOK
  <1>1. ThreadInv => ThreadTypeOK
        BY DEF ThreadInv
  <1> QED
      BY <1>1, ThreadInvariant, PTL

\* Whatever the portal sends and the compositor does, every path out of a
\* capture gives back the pointer lock, the keyboard and the input region.
THEOREM GrabsGivenBack == ThreadSpec => []GrabsFollowCapture
  <1>1. ThreadInv => GrabsFollowCapture
        BY DEF ThreadInv
  <1> QED
      BY <1>1, ThreadInvariant, PTL

----------------------------------------------------------------------------
(* The thread implements PointerGrab.                                       *)

\* The holder the compositor knows is the barrier of the running capture.
LEMMA HolderIsCapture ==
  ThreadInv => Holder = IF Capturing THEN capture.barrier ELSE "nobody"
  <1> SUFFICES ASSUME ThreadInv
               PROVE  Holder = IF Capturing THEN capture.barrier ELSE "nobody"
      OBVIOUS
  <1>1. Capturing => capture.barrier \in BarrierId
        BY CaptureIsNotNone DEF ThreadInv, ThreadTypeOK, Capturing
  <1>2. Locked = IF Capturing THEN {capture.barrier} ELSE {}
        BY <1>1 DEF ThreadInv, GrabsFollowCapture, Locked, Grab
  <1> QED
      BY <1>2 DEF Holder

LEMMA StepIsGrabStep ==
  ASSUME ThreadInv, ThreadInv', [ThreadNext]_allThreadVars
  PROVE  [Grabbing!Next]_(Grabbing!vars)
  <1> USE DEF Grabbing!vars, chanVars, threadVars
  <1>0. /\ Holder = IF Capturing THEN capture.barrier ELSE "nobody"
        /\ Holder' = IF Capturing' THEN capture'.barrier ELSE "nobody"
        /\ Capturing => capture.barrier \in BarrierId /\ capture.barrier # "nobody"
        /\ drawn \subseteq surfaces
    <2>1. (Holder = IF Capturing THEN capture.barrier ELSE "nobody")'
          BY HolderIsCapture, PTL
    <2> QED
        BY <2>1, HolderIsCapture, CaptureIsNotNone, WaylandAssumption
        DEF ThreadInv, ThreadTypeOK, Capturing
  <1>1. CASE \/ HandleAttachEis \/ Forward \/ TimePasses \/ PointerAdded
             \/ PortalSends \/ (\E c \in Conn : EisConnects(c) \/ EisTakes(c) \/ EisDies(c))
             \/ UNCHANGED allThreadVars
    <2>1. UNCHANGED <<grabs, drawn, events>>
          BY <1>1 DEF HandleAttachEis, Forward, TimePasses, PointerAdded, PortalSends,
                      EisConnects, EisTakes, EisDies, allThreadVars
    <2> QED
        BY <2>1 DEF Holder, Locked
  <1>2. CASE HandleArm
        BY <1>0, <1>2 DEF HandleArm, Capturing, Grabbing!Next, Grabbing!Withdraw
  <1>3. CASE HandleDisarm
    <2>1. drawn' \in SUBSET drawn /\ UNCHANGED <<capture, events>>
          BY <1>3 DEF HandleDisarm, KeepOnly
    <2>2. Holder' = Holder
          BY <1>0, <2>1 DEF Capturing
    <2> QED
        BY <2>1, <2>2 DEF Grabbing!Next, Grabbing!Withdraw
  <1>4. CASE HandleEndCapture \/ PointerRemoved
    <2>1. capture' = NoCapture /\ UNCHANGED <<drawn, events>>
          BY <1>4 DEF HandleEndCapture, PointerRemoved, EndTheCapture
    <2> QED
        BY <1>0, <2>1 DEF Capturing, Grabbing!Next, Grabbing!Drop
  <1>5. ASSUME NEW b \in BarrierId, Configure(b) PROVE Grabbing!Next
    <2>1. Holder # b
          BY <1>0, <1>5, WaylandAssumption DEF Configure, ThreadInv
    <2>2. Holder' = Holder
          BY <1>5 DEF Configure, Holder, Locked
    <2> QED
        BY <1>5, <2>1, <2>2 DEF Configure, Grabbing!Next, Grabbing!Offer
  <1>6. ASSUME NEW b \in BarrierId, LayerClosed(b) PROVE Grabbing!Next
    <2>1. drawn' \subseteq drawn /\ UNCHANGED events
          BY <1>6 DEF LayerClosed
    <2>2. CASE Capturing /\ capture.barrier = b
      <3>1. Holder' = "nobody"
            BY <1>0, <1>6, <2>2 DEF LayerClosed, Capturing
      <3> QED
          BY <2>1, <3>1 DEF Grabbing!Next, Grabbing!Drop
    <2>3. CASE ~(Capturing /\ capture.barrier = b)
      <3>1. Holder' = Holder
            BY <1>0, <1>6, <2>3 DEF LayerClosed, Capturing
      <3> QED
          BY <2>1, <3>1 DEF Grabbing!Next, Grabbing!Withdraw
    <2> QED
        BY <2>2, <2>3
  <1>7. CASE Lose
    <2>1. Holder # "nobody" /\ Holder' = "nobody"
          BY <1>0, <1>7 DEF Lose, EndTheCapture, Capturing
    <2> QED
        BY <1>7, <2>1
        DEF Lose, SendEvent, CaptureLost, Grabbing!Next, Grabbing!Lose, Grabbing!Free
  <1>8. CASE OutputUpdated
        BY <1>8 DEF OutputUpdated, SendEvent, OutputsChanged, Holder, Locked,
                    Grabbing!Next, Grabbing!LayoutChanges
  <1>9. CASE OutputDestroyed
    <2>1. Holder' = "nobody"
          BY <1>0, <1>9 DEF OutputDestroyed, Capturing
    <2> QED
        BY <1>9, <2>1
        DEF OutputDestroyed, SendEvent, OutputsChanged, Grabbing!Next, Grabbing!Drop
  <1>10. ASSUME NEW b \in BarrierId, BeginCapture(b) PROVE Grabbing!Next
    <2>1. capture' # NoCapture /\ capture'.barrier = b
      <3>1. capture' \in Capture /\ capture'.barrier = b
            BY <1>10 DEF BeginCapture, Capture
      <3> QED
          BY <3>1, CaptureIsNotNone
    <2>2. Holder = "nobody" /\ Holder' = b
          BY <1>0, <1>10, <2>1 DEF BeginCapture, Capturing
    <2> QED
        BY <1>10, <2>2
        DEF BeginCapture, SendEvent, Activated, Grabbing!Next, Grabbing!Take, Grabbing!Free
  <1>11. CASE PortalTakes
        BY <1>11 DEF PortalTakes, Holder, Locked, Grabbing!Next, Grabbing!Consume
  <1> QED
      BY <1>1, <1>2, <1>3, <1>4, <1>5, <1>6, <1>7, <1>8, <1>9, <1>10, <1>11
      DEF ThreadNext, HandleCmd, Callback, Unlocked, PanicKey, Watchdog, ThreadEnvironment

\* One pointer, taken by one armed barrier at a time, every taking reported in
\* order, and no loss reported of a grab that was not held.
THEOREM ThreadImplementsPointerGrab == ThreadSpec => ImplementsPointerGrab
  <1>1. ThreadAlone => Grabbing!Init
    <2> SUFFICES ASSUME ChannelsInit, ThreadInit PROVE Grabbing!Init
        BY DEF ThreadAlone
    <2>1. Holder = "nobody"
          BY HolderIsCapture, ThreadInvInit DEF ChannelsInit, ThreadInit, Capturing
    <2> QED
        BY <2>1 DEF ChannelsInit, ThreadInit, Grabbing!Init, Grabbing!Free
  <1>2. ThreadInv /\ ThreadInv' /\ [ThreadNext]_allThreadVars => [Grabbing!Next]_(Grabbing!vars)
        BY StepIsGrabStep
  <1> QED
      BY <1>1, <1>2, ThreadInvariant, PTL DEF ThreadSpec, ImplementsPointerGrab, Grabbing!Spec

----------------------------------------------------------------------------
(* No captured input is lost, doubled or overtaken at the handover.         *)

\* A capture that has its connection holds nothing back.
FeedInv ==
    /\ eisq \in [Conn -> Seq(EisCommand)]
    /\ eisLive \subseteq Conn
    /\ Capturing /\ capture.eis # NoConn => capture.pending = <<>>

\* The inputs of a queue of ranks are commands EIS understands.
LEMMA InputsAreCommands ==
  ASSUME NEW p \in Seq(Nat)
  PROVE  [i \in DOMAIN p |-> Input(p[i])] \in Seq(EisCommand)
  <1> DEFINE e(i) == Input(p[i])
  <1>1. \A i \in 1..Len(p) : e(i) \in EisCommand
        BY DEF Input, EisCommand
  <1>2. Len(p) \in Nat /\ DOMAIN p = 1..Len(p)
        OBVIOUS
  <1> HIDE DEF e
  <1>3. [i \in 1..Len(p) |-> e(i)] \in Seq(EisCommand)
        BY <1>1, <1>2, IsASeq
  <1> QED
      BY <1>2, <1>3 DEF e

LEMMA OneInput ==
  ASSUME NEW n \in Nat
  PROVE  /\ <<Input(n)>> \in Seq(EisCommand)
         /\ [i \in DOMAIN <<n>> |-> Input(<<n>>[i])] = <<Input(n)>>
  <1>1. <<Input(n)>> \in Seq(EisCommand)
        BY DEF Input, EisCommand
  <1> DEFINE s == <<n>>
             q == [i \in DOMAIN s |-> Input(s[i])]
  <1>2. s \in Seq(Nat) /\ DOMAIN s = 1..1 /\ s[1] = n
        OBVIOUS
  <1> HIDE DEF s
  <1>3. q \in Seq(EisCommand)
        BY <1>2, InputsAreCommands
  <1>4. Len(q) = 1 /\ q[1] = Input(n)
        BY <1>2, <1>3
  <1>5. q = <<Input(n)>>
        BY <1>1, <1>3, <1>4, SeqEqual
  <1> QED
      BY <1>1, <1>5 DEF s

\* What send does to the queue of a connection that lives, and to the others.
LEMMA SendEisAppends ==
  ASSUME FeedInv, NEW d \in Conn, NEW s \in Seq(EisCommand), SendEis(d, s)
  PROVE  /\ eisq' \in [Conn -> Seq(EisCommand)]
         /\ d \in eisLive => eisq'[d] = eisq[d] \o s
  BY DEF FeedInv, SendEis, SendEisAll

\* What is due is split into nothing and all of it, or all of it and nothing.
LEMMA NothingOrAll ==
  ASSUME NEW due \in Seq(Nat)
  PROVE  /\ SubSeq(due, 1, Len(due) - Len(due)) = <<>>
         /\ SubSeq(due, 1, Len(due) - Len(<<>>)) = due
         /\ due = <<>> \o due
         /\ due = due \o <<>>
  <1>1. Len(due) \in Nat /\ Len(due) - Len(due) = 0 /\ Len(due) - Len(<<>>) = Len(due)
        OBVIOUS
  <1>2. SubSeq(due, 1, 0) = <<>>
        BY SubSeqEmpty
  <1>3. SubSeq(due, 1, Len(due)) = due
        BY SubSeqFull
  <1> QED
      BY <1>1, <1>2, <1>3, ConcatEmptySeq

\* Two inputs in a row differ in rank where one may wait.
LEMMA RanksDiffer ==
  ASSUME NEW n \in Nat, NEW m \in Nat, m >= 2
  PROVE  1 + (n % m) # n
  OBVIOUS

\* What an input does to the capture and to the queues.
LEMMA ForwardCases ==
  ASSUME ThreadInv, FeedInv, Forward
  PROVE  /\ NextRank \in Nat /\ NextRank # capture.inputs
         /\ capture \in Capture
         /\ capture'.eis = capture.eis /\ capture'.inputs = NextRank
         /\ \/ /\ capture.eis = NoConn
               /\ capture'.pending = Append(capture.pending, NextRank)
               /\ UNCHANGED eisq
            \/ /\ capture.eis \in Conn
               /\ capture'.pending = capture.pending
               /\ SendEis(capture.eis, <<Input(NextRank)>>)
  <1>1. capture \in Capture
        BY DEF ThreadInv, ThreadTypeOK, Forward, Capturing
  <1>2. capture.inputs \in Nat /\ capture.pending \in Seq(Nat) /\ MaxInputs >= 1
        BY <1>1, WaylandAssumption DEF Capture, Forward
  <1>3. NextRank \in Nat /\ NextRank # capture.inputs
    <2> DEFINE m == MaxInputs + 1
    <2>1. m \in Nat /\ m >= 2
          BY <1>2, WaylandAssumption
    <2>2. NextRank = 1 + (capture.inputs % m)
          BY DEF NextRank
    <2> HIDE DEF m
    <2> QED
        BY <1>2, <2>1, <2>2, RanksDiffer
  <1> DEFINE fed == [capture EXCEPT !.inputs = NextRank, !.idle = FALSE]
  <1>4. /\ fed.eis = capture.eis /\ fed.inputs = NextRank /\ fed.pending = capture.pending
        /\ \A q \in Seq(Nat) :
              LET g == [fed EXCEPT !.pending = q]
              IN g.eis = capture.eis /\ g.inputs = NextRank /\ g.pending = q
        BY <1>1 DEF Capture
  <1>5. Append(capture.pending, NextRank) \in Seq(Nat)
        BY <1>2, <1>3
  <1>6. CASE capture.eis = NoConn
    <2>1. capture' = [fed EXCEPT !.pending = Append(fed.pending, NextRank)] /\ UNCHANGED eisq
          BY <1>6 DEF Forward
    <2> HIDE DEF fed
    <2> QED
        BY <1>1, <1>3, <1>4, <1>5, <1>6, <2>1
  <1>7. CASE capture.eis # NoConn
    <2>1. capture' = fed /\ SendEis(capture.eis, <<Input(NextRank)>>)
          BY <1>7 DEF Forward
    <2>2. capture.eis \in Conn
          BY <1>1, <1>7 DEF Capture
    <2> HIDE DEF fed
    <2> QED
        BY <1>1, <1>3, <1>4, <1>7, <2>1, <2>2
  <1> QED
      BY <1>6, <1>7

\* And what the handover does.
LEMMA AttachCases ==
  ASSUME ThreadInv, FeedInv, HandleAttachEis, Capturing
  PROVE  LET d == Head(cmds).eis
         IN /\ d \in Conn
            /\ capture \in Capture
            /\ capture'.eis = d /\ capture'.inputs = capture.inputs
            /\ capture'.pending = <<>>
            /\ SendEis(d, [i \in DOMAIN capture.pending |-> Input(capture.pending[i])])
  <1>1. Head(cmds).eis \in Conn
        BY AttachTyped DEF ThreadInv, HandleAttachEis
  <1>2. capture \in Capture
        BY DEF ThreadInv, ThreadTypeOK, Capturing
  <1>3. capture' = [capture EXCEPT !.eis = Head(cmds).eis, !.pending = <<>>]
        BY DEF HandleAttachEis
  <1> QED
      BY <1>1, <1>2, <1>3 DEF HandleAttachEis, Capture

\* The steps that feed nothing: the capture stays, ends, begins, or goes idle,
\* and queues only lose what EIS takes or what dies with a connection.
Unfed ==
    /\ \/ capture' = capture
       \/ capture' = NoCapture
       \/ ~Capturing /\ capture'.eis = NoConn
       \/ Capturing /\ capture' = [capture EXCEPT !.idle = TRUE]
    /\ \/ UNCHANGED eisq /\ (UNCHANGED eisLive \/ \E d \in Conn : eisLive' = eisLive \cup {d})
       \/ \E d \in Conn : /\ eisq[d] # <<>> /\ eisq' = [eisq EXCEPT ![d] = Tail(@)]
                          /\ UNCHANGED eisLive
       \/ \E d \in Conn : /\ eisq' = [eisq EXCEPT ![d] = <<>>]
                          /\ eisLive' = eisLive \ {d}

\* Whatever the thread and its surroundings do is one of the three.
LEMMA FedOrUnfed ==
  ASSUME [ThreadNext]_allThreadVars
  PROVE  Forward \/ (HandleAttachEis /\ Capturing) \/ Unfed
  <1> USE DEF chanVars, threadVars, taskVars
  <1>1. CASE HandleCmd \/ Callback \/ Watchdog \/ \E b \in BarrierId : BeginCapture(b)
    <2>1. \A b \in BarrierId : BeginCapture(b) => Unfed
          BY DEF BeginCapture, Unfed
    <2>2. HandleArm \/ HandleDisarm \/ HandleEndCapture => Unfed
          BY DEF HandleArm, HandleDisarm, HandleEndCapture, EndTheCapture, Unfed
    <2>3. HandleAttachEis /\ ~Capturing => Unfed
          BY DEF HandleAttachEis, Unfed
    <2>4. \A b \in BarrierId : Configure(b) \/ LayerClosed(b) => Unfed
          BY DEF Configure, LayerClosed, Unfed
    <2>5. Lose \/ TimePasses => Unfed
          BY DEF Lose, EndTheCapture, TimePasses, Unfed
    <2>6. OutputUpdated \/ OutputDestroyed \/ PointerRemoved \/ PointerAdded => Unfed
          BY DEF OutputUpdated, OutputDestroyed, PointerRemoved, PointerAdded, EndTheCapture,
                 Unfed
    <2> QED
        BY <1>1, <2>1, <2>2, <2>3, <2>4, <2>5, <2>6
        DEF HandleCmd, Callback, Unlocked, PanicKey, Watchdog
  <1>2. CASE ThreadEnvironment
    <2>1. PortalSends \/ PortalTakes => Unfed
          BY DEF PortalSends, PortalTakes, Unfed
    <2>2. \A d \in Conn : EisConnects(d) \/ EisTakes(d) \/ EisDies(d) => Unfed
          BY DEF EisConnects, EisTakes, EisDies, Unfed
    <2> QED
        BY <1>2, <2>1, <2>2 DEF ThreadEnvironment
  <1>3. CASE UNCHANGED allThreadVars
        BY <1>3 DEF allThreadVars, Unfed
  <1> QED
      BY <1>1, <1>2, <1>3 DEF ThreadNext

LEMMA FeedInvKeeps ==
  ASSUME ThreadInv, FeedInv, [ThreadNext]_allThreadVars
  PROVE  FeedInv'
  <1>1. CASE Forward
    <2>1. <<Input(NextRank)>> \in Seq(EisCommand)
          BY <1>1, ForwardCases DEF Input, EisCommand
    <2>2. eisq' \in [Conn -> Seq(EisCommand)]
          BY <1>1, <2>1, ForwardCases, SendEisAppends DEF FeedInv
    <2>3. capture'.eis # NoConn => capture'.pending = <<>>
          BY <1>1, ForwardCases DEF FeedInv, Forward
    <2> QED
        BY <1>1, <2>2, <2>3 DEF FeedInv, Forward, taskVars
  <1>2. CASE HandleAttachEis /\ Capturing
    <2> DEFINE d == Head(cmds).eis
               inputs == [i \in DOMAIN capture.pending |-> Input(capture.pending[i])]
    <2>1. /\ d \in Conn /\ capture \in Capture /\ capture'.pending = <<>>
          /\ SendEis(d, inputs)
          BY <1>2, AttachCases
    <2>2. inputs \in Seq(EisCommand)
          BY <2>1, InputsAreCommands DEF Capture
    <2> HIDE DEF d, inputs
    <2>3. eisq' \in [Conn -> Seq(EisCommand)]
          BY <2>1, <2>2, SendEisAppends
    <2> QED
        BY <1>2, <2>1, <2>3 DEF FeedInv, HandleAttachEis, taskVars
  <1>3. CASE Unfed
    <2>1. Capturing' /\ capture'.eis # NoConn => capture'.pending = <<>>
      <3>1. Capturing => capture \in Capture
            BY DEF ThreadInv, ThreadTypeOK, Capturing
      <3> QED
          BY <1>3, <3>1 DEF Unfed, FeedInv, Capturing, Capture
    <2>2. \A d \in Conn : eisq[d] # <<>> => Tail(eisq[d]) \in Seq(EisCommand)
          BY DEF FeedInv
    <2>3. eisq' \in [Conn -> Seq(EisCommand)] /\ eisLive' \subseteq Conn
      <3>1. <<>> \in Seq(EisCommand)
            OBVIOUS
      <3>2. eisq' \in [Conn -> Seq(EisCommand)]
            BY <1>3, <2>2, <3>1 DEF Unfed, FeedInv
      <3>3. eisLive' \subseteq Conn
            BY <1>3 DEF Unfed, FeedInv
      <3> QED
          BY <3>2, <3>3
    <2> QED
        BY <2>1, <2>3 DEF FeedInv
  <1> QED
      BY <1>1, <1>2, <1>3, FedOrUnfed

LEMMA StepConserves ==
  ASSUME ThreadInv, FeedInv, [ThreadNext]_allThreadVars
  PROVE  Conserves
  <1> DEFINE c == capture'.eis
             fresh == IF capture'.inputs = capture.inputs THEN <<>> ELSE <<capture'.inputs>>
             due == capture.pending \o fresh
             sent == SubSeq(due, 1, Len(due) - Len(capture'.pending))
             Split == /\ due = sent \o capture'.pending
                      /\ c = NoConn => sent = <<>>
                      /\ c # NoConn => capture'.pending = <<>>
             Passed == c \in eisLive /\ c \in eisLive' /\ Len(eisq'[c]) >= Len(eisq[c]) =>
                         eisq'[c] = eisq[c] \o [i \in DOMAIN sent |-> Input(sent[i])]
  <1>1. SUFFICES ASSUME Capturing, capture' # NoCapture PROVE Split /\ Passed
        BY DEF Conserves
  <1>2. capture \in Capture /\ capture.pending \in Seq(Nat)
        BY <1>1 DEF ThreadInv, ThreadTypeOK, Capturing, Capture
  <1>3. CASE Forward
    <2>1. fresh = <<NextRank>> /\ due = Append(capture.pending, NextRank) /\ due \in Seq(Nat)
      <3>1. NextRank \in Nat /\ fresh = <<NextRank>>
            BY <1>3, ForwardCases
      <3>2. capture.pending \o <<NextRank>> = Append(capture.pending, NextRank)
            BY <1>2, <3>1
      <3>3. Append(capture.pending, NextRank) \in Seq(Nat)
            BY <1>2, <3>1
      <3> HIDE DEF fresh
      <3> QED
          BY <3>1, <3>2, <3>3
    <2>2. CASE capture.eis = NoConn
      <3>1. capture'.pending = due /\ c = NoConn /\ NoConn \notin eisLive
        <4>1. capture'.pending = Append(capture.pending, NextRank) /\ c = NoConn
              BY <1>3, <2>2, ForwardCases DEF Conn, NoConn
        <4>2. NoConn \notin eisLive
              BY DEF FeedInv, Conn, NoConn
        <4> QED
            BY <2>1, <4>1, <4>2
      <3>2. sent = <<>> /\ due = sent \o capture'.pending
            BY <2>1, <3>1, NothingOrAll
      <3> QED
          BY <3>1, <3>2
    <2>3. CASE capture.eis # NoConn
      <3>1. /\ capture'.pending = <<>> /\ c = capture.eis /\ c \in Conn
            /\ SendEis(c, <<Input(NextRank)>>)
            BY <1>1, <1>3, <2>3, ForwardCases DEF FeedInv
      <3>2. due = <<NextRank>> /\ sent = due /\ due = sent \o capture'.pending
        <4>1. capture.pending = <<>>
              BY <1>1, <2>3 DEF FeedInv
        <4>2. due = <<NextRank>>
              BY <2>1, <4>1
        <4> HIDE DEF due
        <4> QED
            BY <2>1, <3>1, <4>2, NothingOrAll
      <3>3. [i \in DOMAIN sent |-> Input(sent[i])] = <<Input(NextRank)>>
            BY <1>3, <3>2, ForwardCases, OneInput
      <3>4. <<Input(NextRank)>> \in Seq(EisCommand)
            BY <1>3, ForwardCases, OneInput
      <3>5. c \in eisLive => eisq'[c] = eisq[c] \o <<Input(NextRank)>>
            BY <3>1, <3>4, SendEisAppends
      <3> HIDE DEF sent, due, c
      <3> QED
          BY <3>1, <3>2, <3>3, <3>5, <2>3
    <2> QED
        BY <2>2, <2>3
  <1>4. CASE HandleAttachEis /\ Capturing
    <2> DEFINE inputs(s) == [i \in DOMAIN s |-> Input(s[i])]
    <2>1. /\ c \in Conn /\ c # NoConn /\ fresh = <<>> /\ capture'.pending = <<>>
          /\ SendEis(c, inputs(capture.pending))
          BY <1>4, AttachCases DEF Conn, NoConn
    <2>2. due = capture.pending /\ sent = due /\ due = sent \o capture'.pending
          BY <1>2, <2>1, NothingOrAll, ConcatEmptySeq
    <2>3. inputs(capture.pending) \in Seq(EisCommand)
          BY <1>2, InputsAreCommands
    <2>4. c \in eisLive => eisq'[c] = eisq[c] \o inputs(sent)
      <3> HIDE DEF c, sent, inputs
      <3> QED
          BY <2>1, <2>2, <2>3, SendEisAppends
    <2> QED
        BY <2>1, <2>2, <2>4
  <1>5. CASE Unfed
    <2>1. /\ c = capture.eis /\ c \in Conn \cup {NoConn}
          /\ fresh = <<>> /\ capture'.pending = capture.pending
          BY <1>1, <1>2, <1>5 DEF Unfed, Capture
    <2>2. due = capture.pending /\ sent = <<>> /\ due = sent \o capture'.pending
          BY <1>2, <2>1, NothingOrAll, ConcatEmptySeq
    <2>3. c # NoConn => capture'.pending = <<>>
          BY <1>1, <2>1 DEF FeedInv
    <2>4. c \in eisLive /\ c \in eisLive' /\ Len(eisq'[c]) >= Len(eisq[c]) =>
            eisq'[c] = eisq[c]
      <3> HIDE DEF c
      <3>1. \A q \in Seq(EisCommand) : q # <<>> => Len(Tail(q)) < Len(q)
            OBVIOUS
      <3> QED
          BY <1>5, <3>1 DEF Unfed, FeedInv
    <2>5. c \in eisLive => eisq[c] = eisq[c] \o [i \in DOMAIN <<>> |-> Input(<<>>[i])]
      <3>1. [i \in DOMAIN <<>> |-> Input(<<>>[i])] = <<>>
            OBVIOUS
      <3> QED
          BY <3>1, ConcatEmptySeq DEF FeedInv
    <2> QED
        BY <2>2, <2>3, <2>4, <2>5
  <1> QED
      BY <1>3, <1>4, <1>5, FedOrUnfed

\* Whatever the portal sends and the compositor does, what the user does from
\* the crossing on reaches the client once, in order and without a gap.
THEOREM InputIsConserved == ThreadSpec => InputConserved
  <1>1. ThreadAlone => FeedInv
        BY DEF ThreadAlone, ChannelsInit, ThreadInit, FeedInv, Capturing
  <1>2. ThreadInv /\ FeedInv /\ [ThreadNext]_allThreadVars => FeedInv'
        BY FeedInvKeeps
  <1>3. ThreadInv /\ FeedInv /\ [ThreadNext]_allThreadVars => [Conserves]_allThreadVars
        BY StepConserves
  <1> QED
      BY <1>1, <1>2, <1>3, ThreadInvariant, PTL DEF ThreadSpec, InputConserved
=============================================================================
