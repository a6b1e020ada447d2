------------------------- MODULE InputCaptureProofs -------------------------
(***************************************************************************)
(* Proofs about the whole, InputCapture: what PortalSessionsProofs and      *)
(* WaylandThreadProofs establish of the parts against any environment holds *)
(* of the parts together, and the sequences on an EIS connection rise.      *)
(***************************************************************************)
EXTENDS InputCapture, PortalSessionsProofs, WaylandThreadProofs

\* SequencesRise for one queue q, whose devices were started with f, while the
\* next activation is n.
QueueRises(q, f, n) ==
    \A i \in DOMAIN q : q[i].type = "StartEmulating" =>
        /\ q[i].sequence < n
        /\ \A d \in Device : f[d] < q[i].sequence
        /\ \A j \in 1..(i - 1) : q[j].type = "StartEmulating" =>
              q[j].sequence < q[i].sequence

\* No device has been started with a sequence that is not handed out yet.
EisInv ==
    /\ eisq \in [Conn -> Seq(EisCommand)]
    /\ EisTypeOK
    /\ \A c \in Conn : \A d \in Device : stream[c][d] < next_activation
    /\ \A c \in Conn : QueueRises(eisq[c], stream[c], next_activation)

CaptureInv == PortalInv /\ ThreadInv /\ EisInv

NoStart(s) == \A i \in DOMAIN s : s[i].type # "StartEmulating"

----------------------------------------------------------------------------
(* Queues.                                                                  *)

\* Inputs and stops may be added at any time.
LEMMA RisesWithMore ==
  ASSUME NEW q \in Seq(EisCommand), NEW s \in Seq(EisCommand), NoStart(s),
         NEW f, NEW n \in Nat, QueueRises(q, f, n)
  PROVE  /\ q \o s \in Seq(EisCommand)
         /\ QueueRises(q \o s, f, n)
  <1>1. q \o s \in Seq(EisCommand) /\ Len(q \o s) = Len(q) + Len(s)
        OBVIOUS
  <1>2. \A i \in 1..Len(q) : (q \o s)[i] = q[i]
        OBVIOUS
  <1>3. \A i \in DOMAIN (q \o s) : i \notin 1..Len(q) => (q \o s)[i].type # "StartEmulating"
        BY <1>1 DEF NoStart
  <1> QED
      BY <1>1, <1>2, <1>3 DEF QueueRises

\* A start with the next activation may be added, too, and the activation is
\* then taken.
LEMMA RisesWithStart ==
  ASSUME NEW q \in Seq(EisCommand), NEW n \in Nat, NEW f \in [Device -> Nat],
         \A d \in Device : f[d] < n, QueueRises(q, f, n)
  PROVE  /\ q \o <<StartEmulating(n)>> \in Seq(EisCommand)
         /\ QueueRises(q \o <<StartEmulating(n)>>, f, n + 1)
  <1> DEFINE m == StartEmulating(n)
             p == q \o <<m>>
  <1>1. m \in EisCommand /\ m.sequence = n
        BY DEF EisCommand, StartEmulating
  <1>2. p \in Seq(EisCommand) /\ Len(p) = Len(q) + 1
        BY <1>1
  <1>3. (\A i \in 1..Len(q) : p[i] = q[i]) /\ p[Len(q) + 1] = m
        BY <1>1
  <1>4. \A i \in 1..Len(q) : q[i] \in EisCommand
        OBVIOUS
  <1>5. \A i \in 1..Len(q) : q[i].type = "StartEmulating" => q[i].sequence \in Nat
        BY <1>4 DEF EisCommand, StopEmulating
  <1>6. DOMAIN p = 1..(Len(q) + 1) /\ DOMAIN q = 1..Len(q) /\ Len(q) \in Nat
        BY <1>2
  <1> HIDE DEF m, p
  <1>7. ASSUME NEW i \in DOMAIN p, p[i].type = "StartEmulating"
        PROVE  /\ p[i].sequence < n + 1
               /\ \A d \in Device : f[d] < p[i].sequence
               /\ \A j \in 1..(i - 1) : p[j].type = "StartEmulating" =>
                     p[j].sequence < p[i].sequence
    <2>1. CASE i \in 1..Len(q)
      <3>1. \A j \in 1..(i - 1) : p[j] = q[j]
            BY <1>3, <1>6, <2>1
      <3> QED
          BY <1>3, <1>5, <1>6, <1>7, <2>1, <3>1 DEF QueueRises
    <2>2. CASE i = Len(q) + 1
          BY <1>1, <1>3, <1>5, <1>6, <2>2 DEF QueueRises
    <2> QED
        BY <1>6, <2>1, <2>2
  <1>8. QueueRises(p, f, n + 1)
        BY <1>7 DEF QueueRises
  <1> QED
      BY <1>2, <1>8 DEF m, p

\* Taking the head of a queue keeps it; a start at the head makes way.
LEMMA RisesWithLess ==
  ASSUME NEW q \in Seq(EisCommand), q # <<>>, NEW f \in [Device -> Nat], NEW n \in Nat,
         QueueRises(q, f, n)
  PROVE  /\ Tail(q) \in Seq(EisCommand)
         /\ QueueRises(Tail(q), f, n)
         /\ Head(q).type = "StartEmulating" =>
              /\ Head(q).sequence \in Nat /\ Head(q).sequence < n
              /\ \A g : (\A d \in Device : g[d] \in {f[d], Head(q).sequence}) =>
                           QueueRises(Tail(q), g, n)
  <1>1. /\ Tail(q) \in Seq(EisCommand) /\ Len(Tail(q)) = Len(q) - 1
        /\ \A i \in 1..Len(Tail(q)) : Tail(q)[i] = q[i + 1]
        /\ Head(q) = q[1] /\ Head(q) \in EisCommand
        OBVIOUS
  <1>2. QueueRises(Tail(q), f, n)
        BY <1>1 DEF QueueRises
  <1>3. ASSUME Head(q).type = "StartEmulating"
        PROVE  Head(q).sequence \in Nat /\ Head(q).sequence < n
        BY <1>1, <1>3 DEF QueueRises, EisCommand, StopEmulating
  <1>4. ASSUME Head(q).type = "StartEmulating", NEW g,
               \A d \in Device : g[d] \in {f[d], Head(q).sequence}
        PROVE  QueueRises(Tail(q), g, n)
        BY <1>1, <1>2, <1>4 DEF QueueRises
  <1> QED
      BY <1>1, <1>2, <1>3, <1>4

\* SendEisAll adds to the queues of some connections.
LEMMA SendKeepsEis ==
  ASSUME EisInv, next_activation \in Nat, NEW C, NEW s \in Seq(EisCommand), NoStart(s),
         SendEisAll(C, s), UNCHANGED <<eisVars, next_activation>>
  PROVE  EisInv'
  <1> USE DEF eisVars
  <1>1. ASSUME NEW c \in Conn
        PROVE  /\ eisq'[c] \in Seq(EisCommand)
               /\ QueueRises(eisq'[c], stream[c], next_activation)
    <2>1. eisq[c] \in Seq(EisCommand) /\ QueueRises(eisq[c], stream[c], next_activation)
          BY DEF EisInv
    <2>2. eisq'[c] \in {eisq[c], eisq[c] \o s}
          BY DEF SendEisAll
    <2>3. eisq[c] \o s \in Seq(EisCommand)
          BY <2>1, RisesWithMore
    <2>4. QueueRises(eisq[c] \o s, stream[c], next_activation)
          BY <2>1, RisesWithMore
    <2> QED
        BY <2>1, <2>2, <2>3, <2>4
  <1>2. eisq' \in [Conn -> Seq(EisCommand)]
        BY <1>1 DEF SendEisAll
  <1>3. stream' = stream /\ next_activation' = next_activation /\ EisTypeOK'
        BY DEF EisInv, EisTypeOK
  <1>4. \A c \in Conn : QueueRises(eisq'[c], stream'[c], next_activation')
        BY <1>1, <1>3
  <1> QED
      BY <1>2, <1>3, <1>4 DEF EisInv

\* Ids that are handed out and not used do no harm.
LEMMA LaterKeepsEis ==
  ASSUME EisInv, next_activation \in Nat, UNCHANGED <<eisVars, eisq>>,
         next_activation' \in {next_activation, next_activation + 1}
  PROVE  EisInv'
  <1> USE DEF eisVars
  <1>1. EisTypeOK' /\ eisq' \in [Conn -> Seq(EisCommand)] /\ stream' = stream /\ eisq' = eisq
        BY DEF EisInv, EisTypeOK
  <1>2. ASSUME NEW c \in Conn, NEW i \in DOMAIN eisq[c], eisq[c][i].type = "StartEmulating"
        PROVE  eisq[c][i].sequence < next_activation'
    <2>1. eisq[c][i] \in EisCommand
          BY DEF EisInv
    <2>2. eisq[c][i].sequence \in Nat
          BY <1>2, <2>1 DEF EisCommand, StopEmulating
    <2> QED
        BY <1>2, <2>2 DEF EisInv, QueueRises
  <1>3. \A c \in Conn : QueueRises(eisq'[c], stream'[c], next_activation')
        BY <1>1, <1>2 DEF EisInv, QueueRises
  <1>4. \A c \in Conn : \A d \in Device : stream'[c][d] < next_activation'
        BY <1>1 DEF EisInv, EisTypeOK
  <1> QED
      BY <1>1, <1>3, <1>4 DEF EisInv

LEMMA StopTyped == <<StopEmulating>> \in Seq(EisCommand) /\ NoStart(<<StopEmulating>>)
  <1>1. StopEmulating \in EisCommand /\ StopEmulating.type # "StartEmulating"
        BY DEF EisCommand, StopEmulating
  <1> QED
      BY <1>1 DEF NoStart

\* activate starts the stream with the id it has taken.
LEMMA ActivateKeepsEis ==
  ASSUME PortalInv, EisInv, Activate, UNCHANGED eisVars
  PROVE  EisInv'
  <1> DEFINE n == next_activation
             s == pump.session
             C == ConnsOf({s})
  <1>1. n \in Nat /\ next_activation' = n + 1
        BY DEF PortalInv, PortalTypeOK, Activate, TakeId
  <1>2. CASE UNCHANGED eisq
        BY <1>1, <1>2, LaterKeepsEis
  <1>3. CASE SendEisAll(C, <<StartEmulating(n)>>)
    <2>1. ASSUME NEW c \in Conn
          PROVE  /\ eisq'[c] \in Seq(EisCommand)
                 /\ QueueRises(eisq'[c], stream[c], n + 1)
      <3>1. /\ eisq[c] \in Seq(EisCommand)
            /\ QueueRises(eisq[c], stream[c], n)
            /\ stream[c] \in [Device -> Nat]
            /\ \A d \in Device : stream[c][d] < n
            BY DEF EisInv, EisTypeOK
      <3>2. eisq'[c] \in {eisq[c], eisq[c] \o <<StartEmulating(n)>>}
            BY <1>3 DEF SendEisAll
      <3>3. CASE eisq'[c] = eisq[c]
        <4>1. \A i \in DOMAIN eisq[c] : eisq[c][i] \in EisCommand
              BY <3>1
        <4>2. \A i \in DOMAIN eisq[c] : eisq[c][i].type = "StartEmulating" =>
                 eisq[c][i].sequence \in Nat
              BY <4>1 DEF EisCommand, StopEmulating
        <4>3. QueueRises(eisq[c], stream[c], n + 1)
              BY <1>1, <3>1, <4>2 DEF QueueRises
        <4> QED
            BY <3>1, <3>3, <4>3
      <3>4. CASE eisq'[c] = eisq[c] \o <<StartEmulating(n)>>
            BY <1>1, <3>1, <3>4, RisesWithStart
      <3> QED
          BY <3>2, <3>3, <3>4
    <2>2. eisq' \in [Conn -> Seq(EisCommand)]
          BY <1>3, <2>1 DEF SendEisAll
    <2>3. EisTypeOK' /\ stream' = stream
          BY DEF EisInv, EisTypeOK, eisVars
    <2>4. \A c \in Conn : QueueRises(eisq'[c], stream'[c], next_activation')
          BY <1>1, <2>1, <2>3
    <2>5. \A c \in Conn : \A d \in Device : stream'[c][d] < next_activation'
          BY <1>1, <2>3 DEF EisInv, EisTypeOK
    <2> QED
        BY <2>2, <2>3, <2>4, <2>5 DEF EisInv
  <1> QED
      BY <1>2, <1>3 DEF Activate

LEMMA PortalStepKeepsEis ==
  ASSUME PortalInv, EisInv, PortalStep, UNCHANGED eisVars
  PROVE  EisInv'
  <1> USE DEF chanVars, taskVars, portalVars
  <1>0. next_activation \in Nat
        BY DEF PortalInv, PortalTypeOK
  <1>1. ASSUME NEW C, SendEisAll(C, <<StopEmulating>>), UNCHANGED next_activation PROVE EisInv'
        BY <1>0, <1>1, StopTyped, SendKeepsEis
  <1>2. ASSUME UNCHANGED <<eisq, next_activation>> PROVE EisInv'
        BY <1>0, <1>2, LaterKeepsEis
  <1>3. CASE Calling
    <2>1. ASSUME NEW s \in Session, ReleaseCapture(s) PROVE EisInv'
          BY <1>1, <2>1 DEF ReleaseCapture
    <2>2. ASSUME NEW d \in BOOLEAN, ReleaseAll("control", d) PROVE EisInv'
          BY <1>1, <2>2 DEF ReleaseAll
    <2>3. CASE UNCHANGED <<eisq, next_activation>>
          BY <1>2, <2>3
    <2> QED
        BY <1>3, <2>1, <2>2, <2>3
        DEF Calling, CreateBegins, Start, Close, GetZonesBegins, SetPointerBarriers,
            ConnectToEIS, Enable, Disable, ForceRelease, ControlDisarm
  <1>4. CASE Answering
        BY <1>2, <1>4 DEF Answering, CreateInserts, CreateExports, GetZonesAnswers
  <1>5. CASE Releasing
    <2>1. CASE ReleaseAll("eis", FALSE)
          BY <1>1, <2>1 DEF ReleaseAll
    <2>2. CASE UNCHANGED <<eisq, next_activation>>
          BY <1>2, <2>2
    <2> QED
        BY <1>5, <2>1, <2>2
        DEF Releasing, ReleaserSteps, EisClosed, EisClosedReleases, ReleaseUnlocks,
            ReleaseDone, ReleaseTells
  <1>6. CASE Pumping
    <2>1. CASE Activate
          BY <2>1, ActivateKeepsEis
    <2>2. ASSUME NEW l, Deactivate(l) PROVE EisInv'
          BY <1>1, <2>2 DEF Deactivate
    <2>3. CASE UNCHANGED <<eisq, next_activation>>
          BY <1>2, <2>3
    <2> QED
        BY <1>6, <2>1, <2>2, <2>3
        DEF Pumping, PumpActivated, AnnounceActivated, PumpCaptureLost, AnnounceDeactivated,
            CaptureLostDone, PumpOutputsChanged
  <1> QED
      BY <1>3, <1>4, <1>5, <1>6 DEF PortalStep

\* The thread only adds inputs: those it held back, and new ones.
LEMMA ThreadStepKeepsEis ==
  ASSUME ThreadInv, EisInv, next_activation \in Nat, ThreadStep,
         UNCHANGED <<eisVars, next_activation>>
  PROVE  EisInv'
  <1> USE DEF chanVars, threadVars, taskVars
  <1>1. \A n \in Nat : Input(n) \in EisCommand /\ Input(n).type # "StartEmulating"
        BY DEF Input, EisCommand
  <1>2. ASSUME UNCHANGED eisq PROVE EisInv'
        BY <1>2, LaterKeepsEis
  <1>3. ASSUME HandleAttachEis, Capturing PROVE EisInv'
    <2> DEFINE s == [i \in DOMAIN capture.pending |-> Input(capture.pending[i])]
    <2>1. capture.pending \in Seq(Nat)
          BY <1>3 DEF ThreadInv, ThreadTypeOK, Capturing, Capture
    <2>2. s \in Seq(EisCommand) /\ NoStart(s)
      <3>1. Len(capture.pending) \in Nat /\ DOMAIN capture.pending = 1..Len(capture.pending)
            BY <2>1
      <3>2. \A i \in DOMAIN capture.pending : capture.pending[i] \in Nat
            BY <2>1
      <3> QED
          BY <1>1, <3>1, <3>2 DEF NoStart
    <2>3. SendEisAll({Head(cmds).eis}, s)
          BY <1>3 DEF HandleAttachEis, SendEis
    <2> HIDE DEF s
    <2> QED
        BY <2>2, <2>3, SendKeepsEis
  <1>4. ASSUME Forward PROVE EisInv'
    <2>1. NextRank \in Nat
          BY <1>4, WaylandAssumption
          DEF Forward, NextRank, ThreadInv, ThreadTypeOK, Capturing, Capture
    <2>2. <<Input(NextRank)>> \in Seq(EisCommand) /\ NoStart(<<Input(NextRank)>>)
          BY <1>1, <2>1 DEF NoStart
    <2>3. UNCHANGED eisq \/ SendEisAll({capture.eis}, <<Input(NextRank)>>)
          BY <1>4 DEF Forward, SendEis
    <2> QED
        BY <1>2, <2>2, <2>3, SendKeepsEis
  <1> QED
      BY <1>2, <1>3, <1>4
      DEF ThreadStep, HandleCmd, HandleArm, HandleDisarm, HandleAttachEis, HandleEndCapture,
          Callback, Configure, LayerClosed, Unlocked, PanicKey, Watchdog, Lose, TimePasses,
          OutputUpdated, OutputDestroyed, PointerRemoved, PointerAdded, BeginCapture

\* The EIS task of one connection takes its commands in order.
LEMMA EisStepsKeepEis ==
  ASSUME EisInv, next_activation \in Nat, NEW c \in Conn, Command(c) \/ Client(c),
         UNCHANGED next_activation
  PROVE  EisInv'
  <1> USE DEF chanVars, taskVars, eisVars
  <1>0. /\ eisq \in [Conn -> Seq(EisCommand)]
        /\ stream \in [Conn -> [Device -> Nat]]
        /\ EisTypeOK
        /\ \A k \in Conn : QueueRises(eisq[k], stream[k], next_activation)
        /\ \A k \in Conn : \A d \in Device : stream[k][d] < next_activation
        BY DEF EisInv, EisTypeOK
  <1>1. CASE HandshakeDone(c)
        BY <1>0, <1>1 DEF HandshakeDone, EisInv, EisTypeOK
  <1>2. ASSUME NEW kinds \in SUBSET Device, Bind(c, kinds) PROVE EisInv'
        BY <1>0, <1>2 DEF Bind, EisInv, EisTypeOK
  <1>3. CASE TaskDies(c)
    <2>1. QueueRises(<<>>, stream[c], next_activation)
          BY DEF QueueRises
    <2>2. eisq' \in [Conn -> Seq(EisCommand)]
          BY <1>0, <1>3 DEF TaskDies
    <2>3. \A k \in Conn : QueueRises(eisq'[k], stream[k], next_activation)
          BY <1>0, <1>3, <2>1 DEF TaskDies
    <2> QED
        BY <1>0, <1>3, <2>2, <2>3 DEF TaskDies, EisInv, EisTypeOK
  <1>4. ASSUME Receive(c)
        PROVE  /\ eisq' \in [Conn -> Seq(EisCommand)]
               /\ \A k \in Conn : QueueRises(eisq'[k], stream[k], next_activation)
    <2>1. /\ eisq[c] \in Seq(EisCommand) /\ eisq[c] # <<>>
          /\ stream[c] \in [Device -> Nat]
          /\ QueueRises(eisq[c], stream[c], next_activation)
          BY <1>0, <1>4 DEF Receive
    <2>2. /\ Tail(eisq[c]) \in Seq(EisCommand)
          /\ QueueRises(Tail(eisq[c]), stream[c], next_activation)
          BY <2>1, RisesWithLess
    <2> QED
        BY <1>0, <1>4, <2>2 DEF Receive
  <1>5. CASE DropCommand(c)
        BY <1>0, <1>4, <1>5 DEF DropCommand, EisInv, EisTypeOK
  <1>6. CASE Apply(c)
    <2> DEFINE cmd == Head(eisq[c])
    <2>1. /\ eisq[c] \in Seq(EisCommand) /\ eisq[c] # <<>>
          /\ stream[c] \in [Device -> Nat]
          /\ QueueRises(eisq[c], stream[c], next_activation)
          /\ eisq' = [eisq EXCEPT ![c] = Tail(eisq[c])]
          BY <1>0, <1>6 DEF Apply, Receive
    <2>2. /\ phase' = phase /\ devices' = devices
          /\ emulating' \in [Conn -> BOOLEAN]
          BY <1>0, <1>6 DEF Apply, EisTypeOK
    <2>3. ASSUME NEW k \in Conn, NEW d \in Device, stream'[k][d] # 0
          PROVE  emulating'[k] /\ d \in devices'[k]
      <3>1. stream[k][d] # 0 => emulating[k] /\ d \in devices[k]
            BY DEF EisInv, EisTypeOK
      <3>2. CASE cmd.type = "StartEmulating" /\ ~emulating[c]
        <4>1. /\ stream' = [stream EXCEPT ![c] = Told(c, cmd.sequence)]
              /\ emulating' = [emulating EXCEPT ![c] = TRUE]
              BY <1>6, <3>2 DEF Apply
        <4>2. CASE k = c
          <5>1. emulating'[k]
                BY <1>0, <4>1, <4>2 DEF EisTypeOK
          <5>2. d \in devices[k]
                BY <1>0, <2>3, <3>1, <4>1, <4>2 DEF Told
          <5> QED
              BY <2>2, <5>1, <5>2
        <4>3. CASE k # c
          <5>1. stream'[k] = stream[k] /\ emulating'[k] = emulating[k]
                BY <1>0, <4>1, <4>3 DEF EisTypeOK
          <5> QED
              BY <2>2, <2>3, <3>1, <5>1
        <4> QED
            BY <4>2, <4>3
      <3>3. CASE cmd.type = "StopEmulating" /\ emulating[c]
        <4>1. /\ stream' = [stream EXCEPT ![c] = Told(c, 0)]
              /\ emulating' = [emulating EXCEPT ![c] = FALSE]
              BY <1>6, <3>3 DEF Apply
        <4>2. k # c
              BY <1>0, <2>3, <3>1, <4>1 DEF Told
        <4>3. stream'[k] = stream[k] /\ emulating'[k] = emulating[k]
              BY <1>0, <4>1, <4>2 DEF EisTypeOK
        <4> QED
            BY <2>2, <2>3, <3>1, <4>3
      <3>4. CASE ~(cmd.type = "StartEmulating" /\ ~emulating[c])
                 /\ ~(cmd.type = "StopEmulating" /\ emulating[c])
        <4>1. UNCHANGED <<stream, emulating>>
              BY <1>6, <3>4 DEF Apply
        <4> QED
            BY <2>2, <2>3, <3>1, <4>1
      <3> QED
          BY <3>2, <3>3, <3>4
    <2>4. CASE UNCHANGED stream
          BY <1>0, <1>4, <1>6, <2>2, <2>4, <2>3 DEF Apply, EisInv, EisTypeOK
    <2>5. CASE cmd.type = "StartEmulating" /\ stream' = [stream EXCEPT ![c] = Told(c, cmd.sequence)]
      <3>1. /\ cmd.sequence \in Nat /\ cmd.sequence < next_activation
            /\ \A g : (\A d \in Device : g[d] \in {stream[c][d], cmd.sequence}) =>
                         QueueRises(Tail(eisq[c]), g, next_activation)
            BY <2>1, <2>5, RisesWithLess
      <3>2. \A d \in Device : Told(c, cmd.sequence)[d] \in {stream[c][d], cmd.sequence}
            BY DEF Told
      <3>3. QueueRises(Tail(eisq[c]), Told(c, cmd.sequence), next_activation)
            BY <3>1, <3>2
      <3>4. /\ Told(c, cmd.sequence) \in [Device -> Nat]
            /\ \A d \in Device : Told(c, cmd.sequence)[d] < next_activation
            BY <1>0, <2>1, <3>1 DEF Told
      <3> HIDE DEF cmd
      <3>5. \A k \in Conn : QueueRises(eisq'[k], stream'[k], next_activation)
            BY <1>0, <2>1, <2>5, <3>3
      <3>6. /\ stream' \in [Conn -> [Device -> Nat]]
            /\ \A k \in Conn : \A d \in Device : stream'[k][d] < next_activation
            BY <1>0, <2>5, <3>4
      <3> QED
          BY <1>0, <1>4, <1>6, <2>2, <2>3, <3>5, <3>6 DEF Apply, EisInv, EisTypeOK
    <2>6. CASE stream' = [stream EXCEPT ![c] = Told(c, 0)]
      <3>1. QueueRises(Tail(eisq[c]), stream[c], next_activation)
            BY <2>1, RisesWithLess
      <3>2. /\ Tail(eisq[c]) \in Seq(EisCommand)
            /\ \A i \in DOMAIN Tail(eisq[c]) : Tail(eisq[c])[i] \in EisCommand
            BY <2>1
      <3>3. \A d \in Device : Told(c, 0)[d] \in {stream[c][d], 0} /\ Told(c, 0)[d] \in Nat
            BY <2>1 DEF Told
      <3>4. QueueRises(Tail(eisq[c]), Told(c, 0), next_activation)
        <4>1. \A i \in DOMAIN Tail(eisq[c]) : Tail(eisq[c])[i].type = "StartEmulating" =>
                 \A d \in Device : Told(c, 0)[d] <= stream[c][d]
              BY <2>1, <3>3
        <4>2. \A i \in DOMAIN Tail(eisq[c]) : Tail(eisq[c])[i].type = "StartEmulating" =>
                 Tail(eisq[c])[i].sequence \in Nat
              BY <3>2 DEF EisCommand, StopEmulating
        <4> QED
            BY <2>1, <3>1, <3>3, <4>1, <4>2 DEF QueueRises
      <3>5. /\ Told(c, 0) \in [Device -> Nat]
            /\ \A d \in Device : Told(c, 0)[d] < next_activation
            BY <1>0, <2>1 DEF Told
      <3> HIDE DEF cmd
      <3>6. \A k \in Conn : QueueRises(eisq'[k], stream'[k], next_activation)
            BY <1>0, <2>1, <2>6, <3>4
      <3>7. /\ stream' \in [Conn -> [Device -> Nat]]
            /\ \A k \in Conn : \A d \in Device : stream'[k][d] < next_activation
            BY <1>0, <2>6, <3>5
      <3> QED
          BY <1>0, <1>4, <1>6, <2>2, <2>3, <3>6, <3>7 DEF Apply, EisInv, EisTypeOK
    <2> QED
        BY <1>6, <2>4, <2>5, <2>6 DEF Apply
  <1> QED
      BY <1>1, <1>2, <1>3, <1>5, <1>6 DEF Command, Client

----------------------------------------------------------------------------
(* What the portal sends the thread is what the thread understands.         *)

LEMMA SendCmdsTyped ==
  ASSUME cmds \in Seq(WaylandCmd), NEW s \in Seq(WaylandCmd), SendCmds(s)
  PROVE  cmds' \in Seq(WaylandCmd)
  BY DEF SendCmds

LEMMA CmdTyped ==
  /\ EndCapture \in WaylandCmd
  /\ Disarm \in WaylandCmd
  /\ \A B \in SUBSET BarrierId : Arm(B) \in WaylandCmd
  /\ \A c \in Conn : AttachEis(c) \in WaylandCmd
  BY DEF WaylandCmd, Arm, AttachEis

LEMMA PortalStepKeepsCmds ==
  ASSUME PortalInv, cmds \in Seq(WaylandCmd), PortalStep
  PROVE  cmds' \in Seq(WaylandCmd)
  <1> USE DEF chanVars, taskVars, portalVars
  <1>1. \A s \in Session : /\ sessions[s].barriers \in SUBSET BarrierId
                           /\ sessions[s].eis \in Conn \cup {NoConn}
        BY EntryOf DEF Entry
  <1>2. CASE UNCHANGED cmds
        BY <1>2
  <1>3. ASSUME NEW s \in Session, Enable(s) PROVE cmds' \in Seq(WaylandCmd)
    <2>1. <<Arm(sessions[s].barriers)>> \in Seq(WaylandCmd)
          BY <1>1, CmdTyped
    <2> QED
        BY <1>3, <2>1, SendCmdsTyped DEF Enable
  <1>4. ASSUME NEW s \in Session, Disable(s) PROVE cmds' \in Seq(WaylandCmd)
    <2>1. <<Disarm>> \in Seq(WaylandCmd)
          BY CmdTyped
    <2> QED
        BY <1>4, <2>1, SendCmdsTyped DEF Disable
  <1>5. ASSUME NEW s \in Session, ReleaseCapture(s) PROVE cmds' \in Seq(WaylandCmd)
    <2>1. <<EndCapture>> \in Seq(WaylandCmd)
          BY CmdTyped
    <2>2. <<EndCapture, Arm(sessions[s].barriers)>> \in Seq(WaylandCmd)
          BY <1>1, CmdTyped
    <2> QED
        BY <1>5, <2>1, <2>2, SendCmdsTyped DEF ReleaseCapture
  <1>6. ASSUME NEW r \in Releaser, ReleaseUnlocks(r) \/ ReleaseDone(r)
        PROVE  cmds' \in Seq(WaylandCmd)
    <2>1. <<EndCapture>> \in Seq(WaylandCmd) /\ <<Disarm>> \in Seq(WaylandCmd)
          BY CmdTyped
    <2> QED
        BY <1>6, <2>1, SendCmdsTyped DEF ReleaseUnlocks, ReleaseDone
  <1>7. CASE Activate
    <2>1. pump.session \in Session
          BY <1>7 DEF Activate, PortalInv, PortalTypeOK, Pump
    <2> DEFINE m == AttachEis(sessions[pump.session].eis)
    <2>2. sessions[pump.session].eis # NoConn => m \in WaylandCmd
          BY <1>1, <2>1, CmdTyped
    <2>3. \/ UNCHANGED cmds
          \/ sessions[pump.session].eis # NoConn /\ cmds' = Append(cmds, m)
          BY <1>7 DEF Activate
    <2> HIDE DEF m
    <2> QED
        BY <2>2, <2>3
  <1>8. CASE AnnounceDeactivated
    <2>1. pump.now.barriers \in SUBSET BarrierId
          BY <1>8 DEF AnnounceDeactivated, PortalInv, PortalTypeOK, Pump, Lost
    <2>2. <<Arm(pump.now.barriers)>> \in Seq(WaylandCmd)
          BY <2>1, CmdTyped
    <2> QED
        BY <1>8, <2>2, SendCmdsTyped DEF AnnounceDeactivated
  <1> QED
      BY <1>2, <1>3, <1>4, <1>5, <1>6, <1>7, <1>8
      DEF PortalStep, Calling, CreateBegins, Start, Close, GetZonesBegins, SetPointerBarriers,
          ConnectToEIS, ForceRelease, ControlDisarm, ReleaseAll, Answering, CreateInserts,
          CreateExports, GetZonesAnswers, Releasing, ReleaserSteps, EisClosed,
          EisClosedReleases, ReleaseTells, Pumping, PumpActivated, AnnounceActivated,
          PumpCaptureLost, Deactivate, CaptureLostDone, PumpOutputsChanged

----------------------------------------------------------------------------
(* The whole.                                                               *)

LEMMA CaptureInvInit == Init => CaptureInv
  <1> SUFFICES ASSUME Init PROVE CaptureInv
      OBVIOUS
  <1>1. PortalInv /\ ThreadInv
        BY PortalInvInit, ThreadInvInit DEF Init, ChannelsInit
  <1>2. next_activation = 1
        BY DEF Init, PortalInit
  <1>3. eisq \in [Conn -> Seq(EisCommand)] /\ \A c \in Conn : eisq[c] = <<>>
        BY DEF Init, ChannelsInit
  <1>4. EisTypeOK /\ \A c \in Conn : \A d \in Device : stream[c][d] = 0
        BY DEF Init, EisInit, EisTypeOK
  <1>5. EisInv
        BY <1>2, <1>3, <1>4 DEF EisInv, QueueRises
  <1> QED
      BY <1>1, <1>5 DEF CaptureInv

LEMMA CaptureNextKeeps == CaptureInv /\ [Next]_vars => CaptureInv'
  <1> SUFFICES ASSUME CaptureInv, [Next]_vars PROVE CaptureInv'
      OBVIOUS
  <1>0. /\ PortalInv /\ ThreadInv /\ EisInv
        /\ next_activation \in Nat /\ layout \in Layouts
        /\ cmds \in Seq(WaylandCmd)
        BY DEF CaptureInv, PortalInv, PortalTypeOK, ThreadInv
  <1>1. CASE ThreadSteps
    <2>1. ThreadStep /\ UNCHANGED <<portalVars, eisVars>>
          BY <1>1 DEF ThreadSteps, ThreadStep, Crossing
    <2>2. layout' \in Layouts
          BY <1>0, <1>1
          DEF ThreadSteps, chanVars, HandleCmd, HandleArm, HandleDisarm, HandleAttachEis,
              HandleEndCapture, Callback, Configure, LayerClosed, Forward, Unlocked, PanicKey,
              Watchdog, Lose, TimePasses, OutputUpdated, OutputDestroyed, PointerRemoved,
              PointerAdded, Crossing, BeginCapture
    <2>3. PortalInv'
          BY <1>0, <2>1, <2>2, OutsideKeeps
    <2>4. ThreadInv'
          BY <1>0, <2>1, ThreadStepKeeps
    <2>5. EisInv'
          BY <1>0, <2>1, ThreadStepKeepsEis DEF portalVars
    <2> QED
        BY <2>3, <2>4, <2>5 DEF CaptureInv
  <1>2. CASE PortalSteps
    <2>1. PortalStep /\ UNCHANGED <<threadVars, eisVars>>
          BY <1>2 DEF PortalSteps, PortalStep
    <2>2. cmds' \in Seq(WaylandCmd)
          BY <1>0, <2>1, PortalStepKeepsCmds
    <2>3. PortalInv'
          BY <1>0, <2>1, PortalStepKeeps
    <2>4. ThreadInv'
          BY <1>0, <2>1, <2>2
          DEF ThreadInv, threadVars, ThreadTypeOK, GrabsFollowCapture, Capturing
    <2>5. EisInv'
          BY <1>0, <2>1, PortalStepKeepsEis
    <2> QED
        BY <2>3, <2>4, <2>5 DEF CaptureInv
  <1>3. CASE EisSteps \/ UNCHANGED vars
    <2>1. UNCHANGED <<threadVars, portalVars, cmds, layout>>
          BY <1>3 DEF EisSteps, vars, chanVars, taskVars, Command, Client, DropCommand, Apply,
                      HandshakeDone, Bind, TaskDies
    <2>2. PortalInv'
          BY <1>0, <2>1, OutsideKeeps
    <2>3. ThreadInv'
          BY <1>0, <2>1 DEF ThreadInv, threadVars, ThreadTypeOK, GrabsFollowCapture, Capturing
    <2>4. EisInv'
      <3>1. CASE EisSteps
            BY <1>0, <2>1, <3>1, EisStepsKeepEis DEF EisSteps, portalVars
      <3>2. CASE UNCHANGED vars
            BY <1>0, <3>2, LaterKeepsEis DEF vars, portalVars, chanVars
      <3> QED
          BY <1>3, <3>1, <3>2
    <2> QED
        BY <2>2, <2>3, <2>4 DEF CaptureInv
  <1> QED
      BY <1>1, <1>2, <1>3 DEF Next

THEOREM CaptureInvariant == Spec => []CaptureInv
  BY CaptureInvInit, CaptureNextKeeps, PTL DEF Spec

\* Input is only captured for a session that may have it, in the whole.
THEOREM CaptureAuthorised == Spec => []ActiveIsAuthorised
  <1>1. CaptureInv => ActiveIsAuthorised
        BY DEF CaptureInv, PortalInv, ActiveIsAuthorised, Sound
  <1> QED
      BY <1>1, CaptureInvariant, PTL

\* Nothing is grabbed but by the running capture, in the whole.
THEOREM CaptureGrabs == Spec => []GrabsFollowCapture
  <1>1. CaptureInv => GrabsFollowCapture
        BY DEF CaptureInv, ThreadInv
  <1> QED
      BY <1>1, CaptureInvariant, PTL

\* The sequences of start_emulating rise on every EIS connection.
THEOREM CaptureSequencesRise == Spec => []SequencesRise
  <1>1. CaptureInv => SequencesRise
        BY DEF CaptureInv, EisInv, QueueRises, SequencesRise
  <1> QED
      BY <1>1, CaptureInvariant, PTL

\* The barriers in force belong to the layout of their session, in the whole.
THEOREM CaptureZones == Spec => []BarriersMatchZones
  <1>1. Init => ZonesInv
        BY DEF Init, PortalInit, ZonesInv, ZonesKnown, Gone
  <1>2. CaptureInv /\ ZonesInv /\ [Next]_vars => ZonesInv'
    <2> SUFFICES ASSUME CaptureInv, ZonesInv, [Next]_vars PROVE ZonesInv'
        OBVIOUS
    <2>1. CASE PortalSteps
          BY <2>1, CallingKeepsZones, AnsweringKeepsZones, OthersKeepZones
          DEF PortalSteps, CaptureInv
    <2>2. CASE ThreadSteps \/ EisSteps \/ UNCHANGED vars
      <3>1. UNCHANGED portalVars
            BY <2>2 DEF ThreadSteps, EisSteps, vars
      <3> QED
          BY <3>1 DEF portalVars, ZonesInv
    <2> QED
        BY <2>1, <2>2 DEF Next
  <1>3. ZonesInv => BarriersMatchZones
        BY DEF ZonesInv, ZonesKnown, BarriersMatchZones
  <1> QED
      BY <1>1, <1>2, <1>3, CaptureInvariant, PTL DEF Spec

\* What the EIS tasks keep and what their clients have seen has its types.
THEOREM CaptureEisTypes == Spec => []EisTypeOK
  <1>1. CaptureInv => EisTypeOK
        BY DEF CaptureInv, EisInv
  <1> QED
      BY <1>1, CaptureInvariant, PTL

----------------------------------------------------------------------------
(* The queues.                                                              *)

\* A connection that lives was spawned for a session: its end can be reported.
QueuesInv ==
    /\ events \in Seq(WaylandEvent)
    /\ eisLive \subseteq Conn
    /\ eisLabel \in [Conn -> Session \cup {Unspawned}]
    /\ \A c \in eisLive : eisLabel[c] \in Session
    /\ closed \in Seq(Session)

LEMMA ThreadKeepsQueues ==
  ASSUME QueuesInv, ThreadStep
  PROVE  QueuesInv'
  <1> USE DEF chanVars, taskVars
  <1>1. UNCHANGED taskVars
        BY DEF ThreadStep, HandleCmd, HandleArm, HandleDisarm, HandleAttachEis, HandleEndCapture,
               Callback, Configure, LayerClosed, Forward, Unlocked, PanicKey, Watchdog, Lose,
               TimePasses, OutputUpdated, OutputDestroyed, PointerRemoved, PointerAdded,
               BeginCapture
  <1>2. \/ UNCHANGED events
        \/ \E m \in WaylandEvent : SendEvent(m)
    <2>1. /\ CaptureLost \in WaylandEvent
          /\ OutputsChanged \in WaylandEvent
          /\ \A b \in BarrierId : Activated(b) \in WaylandEvent
          BY DEF WaylandEvent, Activated
    <2> QED
        BY <2>1
        DEF ThreadStep, HandleCmd, HandleArm, HandleDisarm, HandleAttachEis, HandleEndCapture,
            Callback, Configure, LayerClosed, Forward, Unlocked, PanicKey, Watchdog, Lose,
            TimePasses, OutputUpdated, OutputDestroyed, PointerRemoved, PointerAdded,
            BeginCapture
  <1>3. events' \in Seq(WaylandEvent)
        BY <1>2 DEF QueuesInv, SendEvent
  <1> QED
      BY <1>1, <1>3 DEF QueuesInv

LEMMA PortalKeepsQueues ==
  ASSUME QueuesInv, PortalStep
  PROVE  QueuesInv'
  <1> USE DEF chanVars, taskVars, portalVars
  <1>1. ASSUME NEW s \in Session, NEW c \in Conn, ConnectToEIS(s, c) PROVE QueuesInv'
        BY <1>1 DEF ConnectToEIS, QueuesInv
  <1>2. CASE EisClosed
        BY <1>2 DEF EisClosed, QueuesInv
  <1>3. CASE \E type : NextEvent(type) /\ UNCHANGED taskVars
    <2>1. events' \in Seq(WaylandEvent)
          BY <1>3 DEF NextEvent, QueuesInv
    <2> QED
        BY <1>3, <2>1 DEF QueuesInv
  <1>4. CASE UNCHANGED <<events, taskVars>>
        BY <1>4 DEF QueuesInv
  <1> QED
      BY <1>1, <1>2, <1>3, <1>4
      DEF PortalStep, Calling, CreateBegins, Start, Close, GetZonesBegins, SetPointerBarriers,
          Enable, Disable, ReleaseCapture, ForceRelease, ControlDisarm, ReleaseAll, Answering,
          CreateInserts, CreateExports, GetZonesAnswers, Releasing, ReleaserSteps,
          EisClosedReleases, ReleaseUnlocks, ReleaseDone, ReleaseTells, Pumping, PumpActivated,
          Activate, AnnounceActivated, PumpCaptureLost, Deactivate, AnnounceDeactivated,
          CaptureLostDone, PumpOutputsChanged

LEMMA EisKeepsQueues ==
  ASSUME QueuesInv, NEW c \in Conn, Command(c) \/ Client(c)
  PROVE  QueuesInv'
  <1> USE DEF chanVars, taskVars
  <1>1. CASE TaskDies(c)
    <2>1. eisLabel[c] \in Session
          BY <1>1 DEF TaskDies, QueuesInv
    <2>2. closed' \in Seq(Session)
          BY <1>1, <2>1 DEF TaskDies, QueuesInv
    <2> QED
        BY <1>1, <2>2 DEF TaskDies, QueuesInv
  <1>2. CASE UNCHANGED <<events, taskVars>>
        BY <1>2 DEF QueuesInv
  <1> QED
      BY <1>1, <1>2 DEF Command, Client, DropCommand, Apply, Receive, HandshakeDone, Bind

LEMMA QueuesInvariant == Spec => []QueuesInv
  <1>1. Init => QueuesInv
        BY DEF Init, ChannelsInit, QueuesInv
  <1>2. QueuesInv /\ [Next]_vars => QueuesInv'
    <2> SUFFICES ASSUME QueuesInv, [Next]_vars PROVE QueuesInv'
        OBVIOUS
    <2>1. CASE ThreadSteps
          BY <2>1, ThreadKeepsQueues DEF ThreadSteps, ThreadStep, Crossing
    <2>2. CASE PortalSteps
          BY <2>2, PortalKeepsQueues DEF PortalSteps, PortalStep
    <2>3. CASE EisSteps
          BY <2>3, EisKeepsQueues DEF EisSteps
    <2>4. CASE UNCHANGED vars
          BY <2>4 DEF vars, chanVars, taskVars, QueuesInv
    <2> QED
        BY <2>1, <2>2, <2>3, <2>4 DEF Next
  <1> QED
      BY <1>1, <1>2, PTL DEF Spec

\* Whatever is on a queue is something its reader understands, a report of a
\* connection's end always names the session it was spawned for.
THEOREM CaptureChannels == Spec => []ChannelsTypeOK
  <1>1. CaptureInv /\ QueuesInv => ChannelsTypeOK
        BY DEF CaptureInv, ThreadInv, EisInv, PortalInv, QueuesInv, ChannelsTypeOK
  <1> QED
      BY <1>1, CaptureInvariant, QueuesInvariant, PTL

----------------------------------------------------------------------------
(* What a step of the whole does, as seen from its parts.                   *)

\* The portal takes events one by one; a step of the EIS tasks takes none.
LEMMA OthersConsume ==
  ASSUME PortalSteps \/ EisSteps \/ UNCHANGED vars
  PROVE  /\ UNCHANGED threadVars
         /\ UNCHANGED events \/ (events # <<>> /\ events' = Tail(events))
  <1> USE DEF chanVars, taskVars, portalVars, threadVars
  <1>1. CASE PortalSteps
    <2>1. UNCHANGED events \/ \E type : NextEvent(type)
          BY <1>1
          DEF PortalSteps, Calling, CreateBegins, Start, Close, GetZonesBegins,
              SetPointerBarriers, ConnectToEIS, Enable, Disable, ReleaseCapture, ForceRelease,
              ControlDisarm, ReleaseAll, EisClosed, Answering, CreateInserts, CreateExports,
              GetZonesAnswers, Releasing, ReleaserSteps, EisClosedReleases, ReleaseUnlocks,
              ReleaseDone, ReleaseTells, Pumping, PumpActivated, Activate, AnnounceActivated,
              PumpCaptureLost, Deactivate, AnnounceDeactivated, CaptureLostDone,
              PumpOutputsChanged
    <2> QED
        BY <1>1, <2>1 DEF PortalSteps, NextEvent
  <1>2. CASE EisSteps
    <2>1. UNCHANGED events
          BY <1>2 DEF EisSteps, Command, Client, DropCommand, Apply, Receive, HandshakeDone,
                      Bind, TaskDies
    <2> QED
        BY <1>2, <2>1 DEF EisSteps
  <1>3. CASE UNCHANGED vars
    <2>1. UNCHANGED threadVars
          BY <1>3 DEF vars
    <2>2. UNCHANGED events
          BY <1>3 DEF vars
    <2> QED
        BY <2>1, <2>2
  <1> QED
      BY <1>1, <1>2, <1>3

\* The thread does the same in the whole as among portals of any kind.
LEMMA ThreadStepsAreSteps == ThreadSteps => ThreadNext
  BY DEF ThreadSteps, ThreadNext, Crossing

\* In the whole program, too, one barrier at a time holds the pointer, every
\* taking is reported before what follows it, and a loss is reported only of a
\* grab that was held (wayland/mod.rs WaylandEvent).
THEOREM CaptureImplementsGrab == Spec => ImplementsPointerGrab
  <1>1. Init => Grabbing!Init
    <2> SUFFICES ASSUME Init PROVE Grabbing!Init
        OBVIOUS
    <2>1. Holder = "nobody"
          BY HolderIsCapture, ThreadInvInit DEF Init, ChannelsInit, ThreadInit, Capturing
    <2> QED
        BY <2>1 DEF Init, ChannelsInit, ThreadInit, Grabbing!Init, Grabbing!Free
  <1>2. CaptureInv /\ CaptureInv' /\ [Next]_vars => [Grabbing!Next]_(Grabbing!vars)
    <2> SUFFICES ASSUME CaptureInv, CaptureInv', [Next]_vars
                 PROVE  [Grabbing!Next]_(Grabbing!vars)
        OBVIOUS
    <2>1. CASE ThreadSteps
          BY <2>1, ThreadStepsAreSteps, StepIsGrabStep DEF CaptureInv
    <2>2. CASE PortalSteps \/ EisSteps \/ UNCHANGED vars
      <3>1. UNCHANGED <<Holder, drawn>>
        <4>1. grabs' = grabs /\ drawn' = drawn
              BY <2>2, OthersConsume DEF threadVars
        <4> QED
            BY <4>1 DEF Holder, Locked
      <3> QED
          BY <2>2, <3>1, OthersConsume DEF Grabbing!Next, Grabbing!Consume, Grabbing!vars
    <2> QED
        BY <2>1, <2>2 DEF Next
  <1> QED
      BY <1>1, <1>2, CaptureInvariant, PTL DEF Spec, ImplementsPointerGrab, Grabbing!Spec

\* Whatever else happens, the thread passes on what it captured once, in order
\* and without a gap: it waits for the session's connection, and goes to the end
\* of that connection's queue, to which the portal adds starts and stops.
THEOREM CaptureConserves == Spec => [][ThreadSteps => Conserves]_vars
  <1> DEFINE Fed == Capturing /\ capture.eis # NoConn => capture.pending = <<>>
  <1>1. Init => Fed
        BY DEF Init, ThreadInit, Capturing
  <1>2. CaptureInv /\ QueuesInv /\ Fed => ThreadInv /\ FeedInv
        BY DEF CaptureInv, EisInv, QueuesInv, FeedInv
  <1>3. CaptureInv /\ QueuesInv /\ Fed /\ [Next]_vars => Fed' /\ [ThreadSteps => Conserves]_vars
    <2> SUFFICES ASSUME CaptureInv, QueuesInv, Fed, [Next]_vars
                 PROVE  Fed' /\ (ThreadSteps => Conserves)
        OBVIOUS
    <2>1. CASE ThreadSteps
          BY <1>2, <2>1, ThreadStepsAreSteps, FeedInvKeeps, StepConserves DEF FeedInv
    <2>2. CASE ~ThreadSteps
          BY <2>2, OthersConsume DEF Next, threadVars, Capturing
    <2> QED
        BY <2>1, <2>2
  <1> QED
      BY <1>1, <1>3, CaptureInvariant, QueuesInvariant, PTL DEF Spec

\* In the whole program a client can tell runs apart by their ids, each larger
\* than all it was told before.
THEOREM CaptureAnnounced == Spec => AnnouncedInOrder
  <1> DEFINE Rising == \A s \in Session :
                         heard'[s] \notin {0, heard[s]} => heard'[s] > newest[s]
  <1>1. CaptureInv /\ [Next]_vars => [Rising]_allPortalVars
    <2> SUFFICES ASSUME CaptureInv, [Next]_vars PROVE Rising
        OBVIOUS
    <2>1. CASE PortalSteps
          BY <2>1, PortalStepAnnounces DEF PortalSteps, PortalStep, CaptureInv
    <2>2. CASE UNCHANGED portalVars
          BY <2>2 DEF portalVars
    <2> QED
        BY <2>1, <2>2 DEF Next, ThreadSteps, EisSteps, vars
  <1> QED
      BY <1>1, CaptureInvariant, PTL DEF Spec, AnnouncedInOrder

\* In the whole program no two runs share an id, and deactivate ends none that
\* its client was not told of.
THEOREM CaptureDeactivatesAnnounced ==
    Spec => [](ActivationsDistinct /\ DeactivatedWasAnnounced)
  <1>1. CaptureInv => ActivationsDistinct /\ DeactivatedWasAnnounced
        BY DEF CaptureInv, PortalInv, AnnouncementsInOrder, DeactivatedWasAnnounced
  <1> QED
      BY <1>1, CaptureInvariant, PTL
=============================================================================
