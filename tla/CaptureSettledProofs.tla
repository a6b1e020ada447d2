------------------------ MODULE CaptureSettledProofs ------------------------
(***************************************************************************)
(* Proofs about a program that has come to rest, for any number of sessions *)
(* on any edges: whatever messages were late, the last word was right.      *)
(* Each invariant says what is still on its way while the parts disagree.   *)
(***************************************************************************)
EXTENDS InputCaptureProofs, FiniteSetTheorems, SequenceTheorems

----------------------------------------------------------------------------
(* The later start.                                                         *)

\* Sessions have a connection each, so there are finitely many.
LEMMA SetUpSessions ==
  ASSUME SetUp
  PROVE  /\ IsFiniteSet(Session)
         /\ Cardinality(Session) \in Nat
  <1>1. PICK conn \in [Session -> Conn] : \A s, t \in Session : s # t => conn[s] # conn[t]
        BY DEF SetUp, SessionsSetUp
  <1>2. conn \in Injection(Session, Conn)
        BY <1>1 DEF Injection, IsInjective
  <1>3. IsFiniteSet(Conn)
        BY FS_Interval, ChannelAssumption DEF Conn
  <1>4. IsFiniteSet(Session)
        BY <1>2, <1>3, FS_Injection
  <1> QED
      BY <1>4, FS_CardinalityType

\* What the later start says of each session.
LEMMA SetUpEntry ==
  ASSUME SetUp, NEW s \in Session
  PROVE  /\ sessions[s] \in Entry
         /\ sessions[s].registered /\ sessions[s].started /\ sessions[s].granted
         /\ sessions[s].enabled
         /\ sessions[s].eis \in Conn
         /\ sessions[s].activation_id = 0
         /\ sessions[s].barriers = BarrierId
         /\ \A t \in Session : s # t => sessions[s].eis # sessions[t].eis
  <1>1. PICK conn \in [Session -> Conn], zs \in [Session -> 1..Cardinality(Session)] :
          SessionsSetUp(conn, zs)
        BY DEF SetUp
  <1>2. zs[s] \in Nat /\ conn[s] \in Conn /\ layout \in Layouts
        BY SetUpSessions DEF SetUp
  <1>3. sessions[s] = EnabledEntry(conn[s], zs[s])
        BY <1>1 DEF SessionsSetUp
  <1>4. sessions[s] \in Entry
    <2>1. EnabledEntry(conn[s], zs[s]) \in Entry
          BY <1>2 DEF EnabledEntry, Entry
    <2> QED
        BY <1>3, <2>1
  <1>5. \A t \in Session : sessions[t].eis = conn[t]
        BY <1>1 DEF SessionsSetUp, EnabledEntry
  <1>6. \A t \in Session : s # t => conn[s] # conn[t]
        BY <1>1 DEF SessionsSetUp
  <1>7. /\ sessions[s].registered /\ sessions[s].started /\ sessions[s].granted
        /\ sessions[s].enabled
        /\ sessions[s].activation_id = 0
        /\ sessions[s].barriers = BarrierId
        BY <1>3 DEF EnabledEntry
  <1> QED
      BY <1>2, <1>4, <1>5, <1>6, <1>7

LEMMA SetUpInv == SetUp => CaptureInv
  <1> SUFFICES ASSUME SetUp PROVE CaptureInv
      OBVIOUS
  <1>1. PortalTypeOK
    <2>1. sessions \in [Session -> Entry]
      <3>1. DOMAIN sessions = Session /\ sessions = [s \in DOMAIN sessions |-> sessions[s]]
            BY DEF SetUp, SessionsSetUp
      <3> QED
          BY <3>1, SetUpEntry
    <2>2. Idle \in Pump /\ NotReleasing \in Release
          BY DEF Idle, Pump, NotReleasing, Release
    <2>3. next_zone_set \in Nat
      <3>1. next_zone_set = Cardinality(Session) + 1
            BY DEF SetUp
      <3> QED
          BY <3>1, SetUpSessions
    <2> QED
        BY <2>1, <2>2, <2>3 DEF SetUp, PortalTypeOK
  <1>2. PortalInv
    <2>1. \A s \in Session : Sound(sessions[s])
          BY SetUpEntry DEF Sound, NoConn, Conn
    <2>2. \A s \in Session : sessions[s].activation_id = 0
          BY SetUpEntry
    <2>3. next_activation = 1 /\ newest = [s \in Session |-> 0] /\ pump = Idle
          BY DEF SetUp
    <2>4. ActivationsDistinct
          BY <2>2, <2>3 DEF ActivationsDistinct
    <2>5. AnnouncementsInOrder
          BY <2>2, <2>3 DEF AnnouncementsInOrder, DeactivatedWasAnnounced, Idle
    <2> QED
        BY <1>1, <2>1, <2>4, <2>5 DEF SetUp, PortalInv
  <1>3. ThreadInv
    <2>1. cmds \in Seq(WaylandCmd)
      <3>1. Arm(BarrierId) \in WaylandCmd
            BY CmdTyped
      <3>2. cmds = <<Arm(BarrierId)>>
            BY DEF SetUp
      <3> QED
          BY <3>1, <3>2
    <2> QED
        BY <2>1 DEF SetUp, ThreadInit, ThreadInv, ThreadTypeOK, GrabsFollowCapture, Capturing
  <1>4. EisInv
        BY DEF SetUp, EisInv, EisTypeOK, QueueRises
  <1> QED
      BY <1>2, <1>3, <1>4 DEF CaptureInv

\* All that holds of the whole from its start holds from the later one.
THEOREM SetUpInvariant == SetUpSpec => []CaptureInv
  BY SetUpInv, CaptureNextKeeps, PTL DEF SetUpSpec

----------------------------------------------------------------------------
(* The streams.                                                             *)

\* What a stream that carries activation n, or nothing, was last told, and then
\* what waits for its task.
Words(q, emulates, n) == <<IF emulates THEN StartEmulating(n) ELSE StopEmulating>> \o q

\* No start is ignored: between two of them there is a stop.
Alternates(p) ==
    \A i, k \in DOMAIN p :
        i < k /\ p[i].type = "StartEmulating" /\ p[k].type = "StartEmulating" =>
          \E j \in DOMAIN p : i < j /\ j < k /\ p[j].type = "StopEmulating"

\* The last word is the one for activation a; nothing but inputs comes after it.
EndsWith(p, a) ==
    \E i \in DOMAIN p :
        /\ p[i] = IF a = 0 THEN StopEmulating ELSE StartEmulating(a)
        /\ \A j \in DOMAIN p : i < j => p[j].type = "Input"

\* Where q waits for a task that has started its devices as f says, they will be
\* where activation a wants them.
Follows(q, emulates, f, a) ==
    \E n \in Nat :
        /\ \A d \in Device : f[d] = IF emulates THEN n ELSE 0
        /\ Alternates(Words(q, emulates, n))
        /\ EndsWith(Words(q, emulates, n), a)

\* The later start leaves nothing to shake hands for and no device to make.
StreamInv ==
    /\ next_activation # 0
    /\ eisLive \subseteq Conn
    /\ \A s, t \in Session : s # t /\ sessions[s].eis # NoConn =>
                                sessions[s].eis # sessions[t].eis
    /\ \A c \in eisLive : phase[c] = "connected" /\ devices[c] = Device
    /\ \A s \in Session, c \in eisLive : sessions[s].eis = c =>
          Follows(eisq[c], emulating[c], stream[c], sessions[s].activation_id)

LEMMA WordsTyped ==
  ASSUME NEW q \in Seq(EisCommand), NEW e \in BOOLEAN, NEW n \in Nat
  PROVE  /\ Words(q, e, n) \in Seq(EisCommand)
         /\ Len(Words(q, e, n)) = Len(q) + 1
         /\ Words(q, e, n)[1] = IF e THEN StartEmulating(n) ELSE StopEmulating
         /\ \A i \in DOMAIN q : Words(q, e, n)[i + 1] = q[i]
         /\ \A s \in Seq(EisCommand) : Words(q \o s, e, n) = Words(q, e, n) \o s
  <1> DEFINE w == IF e THEN StartEmulating(n) ELSE StopEmulating
  <1>1. w \in EisCommand
        BY DEF EisCommand, StartEmulating
  <1>2. Words(q, e, n) = <<w>> \o q
        BY DEF Words
  <1> HIDE DEF w
  <1>3. \A s \in Seq(EisCommand) : <<w>> \o (q \o s) = (<<w>> \o q) \o s
        BY <1>1, ConcatAssociative
  <1>4. \A s \in Seq(EisCommand) : Words(q \o s, e, n) = <<w>> \o (q \o s)
        BY DEF Words, w
  <1>5. /\ Words(q, e, n) \in Seq(EisCommand)
        /\ Len(Words(q, e, n)) = Len(q) + 1
        /\ Words(q, e, n)[1] = w
        /\ \A i \in DOMAIN q : Words(q, e, n)[i + 1] = q[i]
        BY <1>1, <1>2
  <1> QED
      BY <1>2, <1>3, <1>4, <1>5 DEF w

LEMMA NothingWaits ==
  ASSUME NEW e \in BOOLEAN, NEW n \in Nat
  PROVE  /\ DOMAIN Words(<<>>, e, n) = {1}
         /\ Words(<<>>, e, n)[1] = IF e THEN StartEmulating(n) ELSE StopEmulating
  <1> DEFINE w == IF e THEN StartEmulating(n) ELSE StopEmulating
  <1>1. Words(<<>>, e, n) = <<w>> \o <<>>
        BY DEF Words
  <1> HIDE DEF w
  <1>2. Words(<<>>, e, n) = <<w>>
        BY <1>1
  <1> QED
      BY <1>2 DEF w

\* What may be said after p: inputs at any time, a stop at any time, a start
\* after a stop.
LEMMA InputsMayFollow ==
  ASSUME NEW p \in Seq(EisCommand), NEW s \in Seq(EisCommand),
         \A i \in DOMAIN s : s[i].type = "Input",
         NEW a, Alternates(p), EndsWith(p, a)
  PROVE  Alternates(p \o s) /\ EndsWith(p \o s, a)
  <1> DEFINE r == p \o s
  <1>1. r \in Seq(EisCommand) /\ Len(r) = Len(p) + Len(s)
        OBVIOUS
  <1>2. /\ \A i \in DOMAIN p : r[i] = p[i] /\ i \in DOMAIN r
        /\ \A i \in DOMAIN r : i \notin DOMAIN p => r[i].type = "Input" /\ i > Len(p)
        OBVIOUS
  <1> HIDE DEF r
  <1>3. Alternates(r)
    <2>1. \A i \in DOMAIN r : r[i].type = "StartEmulating" => i \in DOMAIN p /\ r[i] = p[i]
          BY <1>2
    <2>2. \A j \in DOMAIN p : r[j] = p[j] /\ j \in DOMAIN r
          BY <1>2
    <2> SUFFICES ASSUME NEW i \in DOMAIN r, NEW k \in DOMAIN r, i < k,
                        r[i].type = "StartEmulating", r[k].type = "StartEmulating"
                 PROVE  \E j \in DOMAIN r : i < j /\ j < k /\ r[j].type = "StopEmulating"
        BY DEF Alternates
    <2>3. PICK j \in DOMAIN p : i < j /\ j < k /\ p[j].type = "StopEmulating"
          BY <2>1 DEF Alternates
    <2> QED
        BY <2>2, <2>3
  <1>4. EndsWith(r, a)
    <2>1. PICK i \in DOMAIN p : /\ p[i] = IF a = 0 THEN StopEmulating ELSE StartEmulating(a)
                                /\ \A j \in DOMAIN p : i < j => p[j].type = "Input"
          BY DEF EndsWith
    <2>2. \A j \in DOMAIN r : i < j => r[j].type = "Input"
          BY <1>1, <1>2, <2>1
    <2> QED
        BY <1>2, <2>1, <2>2 DEF EndsWith
  <1> QED
      BY <1>3, <1>4 DEF r

LEMMA StopMayFollow ==
  ASSUME NEW p \in Seq(EisCommand), Alternates(p)
  PROVE  Alternates(p \o <<StopEmulating>>) /\ EndsWith(p \o <<StopEmulating>>, 0)
  <1> DEFINE r == p \o <<StopEmulating>>
  <1>1. Len(r) = Len(p) + 1 /\ DOMAIN r = 1..(Len(p) + 1) /\ r[Len(p) + 1] = StopEmulating
        OBVIOUS
  <1>2. \A i \in 1..Len(p) : r[i] = p[i]
        OBVIOUS
  <1>3. DOMAIN p = 1..Len(p) /\ Len(p) \in Nat /\ StopEmulating.type # "StartEmulating"
        BY DEF StopEmulating
  <1> HIDE DEF r
  <1>4. Alternates(r)
        BY <1>1, <1>2, <1>3 DEF Alternates
  <1>5. EndsWith(r, 0)
        BY <1>1, <1>3 DEF EndsWith
  <1> QED
      BY <1>4, <1>5 DEF r

LEMMA StartMayFollow ==
  ASSUME NEW p \in Seq(EisCommand), NEW n \in Nat, n # 0, Alternates(p), EndsWith(p, 0)
  PROVE  /\ Alternates(p \o <<StartEmulating(n)>>)
         /\ EndsWith(p \o <<StartEmulating(n)>>, n)
  <1> DEFINE m == StartEmulating(n)
             r == p \o <<m>>
  <1>0. m \in EisCommand /\ m.type = "StartEmulating"
        BY DEF EisCommand, StartEmulating
  <1>1. Len(r) = Len(p) + 1 /\ DOMAIN r = 1..(Len(p) + 1) /\ r[Len(p) + 1] = m
        BY <1>0
  <1>2. \A i \in 1..Len(p) : r[i] = p[i]
        BY <1>0
  <1>3. DOMAIN p = 1..Len(p) /\ Len(p) \in Nat
        OBVIOUS
  <1>4. PICK i \in DOMAIN p : /\ p[i] = StopEmulating
                              /\ \A j \in DOMAIN p : i < j => p[j].type = "Input"
        BY DEF EndsWith
  <1>5. p[i].type = "StopEmulating"
        BY <1>4 DEF StopEmulating
  <1> HIDE DEF r, m
  <1>6. \A h, k \in DOMAIN r :
           h < k /\ r[h].type = "StartEmulating" /\ r[k].type = "StartEmulating" =>
             \E j \in DOMAIN r : h < j /\ j < k /\ r[j].type = "StopEmulating"
    <2> SUFFICES ASSUME NEW h \in DOMAIN r, NEW k \in DOMAIN r, h < k,
                        r[h].type = "StartEmulating", r[k].type = "StartEmulating"
                 PROVE  \E j \in DOMAIN r : h < j /\ j < k /\ r[j].type = "StopEmulating"
        OBVIOUS
    <2>1. CASE k \in DOMAIN p
          BY <1>1, <1>2, <1>3, <2>1 DEF Alternates
    <2>2. CASE k = Len(p) + 1
      <3>1. h \in DOMAIN p /\ p[h].type = "StartEmulating"
            BY <1>1, <1>2, <1>3, <2>2
      <3>2. h < i
            BY <1>3, <1>4, <1>5, <3>1
      <3> QED
          BY <1>1, <1>2, <1>3, <1>4, <1>5, <2>2, <3>2
    <2> QED
        BY <1>1, <1>3, <2>1, <2>2
  <1>7. EndsWith(r, n)
        BY <1>1, <1>3 DEF EndsWith, m
  <1> QED
      BY <1>6, <1>7 DEF Alternates, r, m

\* The first of p may be forgotten where a start or a stop comes second.
LEMMA FirstMakesWay ==
  ASSUME NEW p \in Seq(EisCommand), NEW r \in Seq(EisCommand), r # <<>>,
         Len(p) = Len(r) + 1, \A i \in DOMAIN r : r[i] = p[i + 1],
         p[2].type # "Input", NEW a, Alternates(p), EndsWith(p, a)
  PROVE  Alternates(r) /\ EndsWith(r, a)
  <1>1. /\ DOMAIN p = 1..(Len(r) + 1) /\ DOMAIN r = 1..Len(r) /\ Len(r) \in Nat
        /\ 2 \in DOMAIN p
        OBVIOUS
  <1>2. ASSUME NEW i \in DOMAIN r, NEW k \in DOMAIN r, i < k,
               r[i].type = "StartEmulating", r[k].type = "StartEmulating"
        PROVE  \E j \in DOMAIN r : i < j /\ j < k /\ r[j].type = "StopEmulating"
    <2>1. i + 1 \in DOMAIN p /\ k + 1 \in DOMAIN p /\ i + 1 < k + 1
          BY <1>1, <1>2
    <2>2. PICK j \in DOMAIN p : i + 1 < j /\ j < k + 1 /\ p[j].type = "StopEmulating"
          BY <1>2, <2>1 DEF Alternates
    <2>3. j - 1 \in DOMAIN r /\ i < j - 1 /\ j - 1 < k /\ r[j - 1] = p[j]
          BY <1>1, <2>2
    <2> QED
        BY <2>2, <2>3
  <1>3. PICK i \in DOMAIN p : /\ p[i] = IF a = 0 THEN StopEmulating ELSE StartEmulating(a)
                              /\ \A j \in DOMAIN p : i < j => p[j].type = "Input"
        BY DEF EndsWith
  <1>4. i # 1
        BY <1>1, <1>3
  <1>5. i - 1 \in DOMAIN r /\ r[i - 1] = p[i]
        BY <1>1, <1>4
  <1>6. \A j \in DOMAIN r : i - 1 < j => r[j].type = "Input"
        BY <1>1, <1>3
  <1> QED
      BY <1>2, <1>3, <1>5, <1>6 DEF Alternates, EndsWith

\* So may an input that comes second.
LEMMA InputMakesWay ==
  ASSUME NEW p \in Seq(EisCommand), NEW r \in Seq(EisCommand), r # <<>>,
         Len(p) = Len(r) + 1, r[1] = p[1],
         \A i \in DOMAIN r : i # 1 => r[i] = p[i + 1],
         p[2].type = "Input", NEW a, Alternates(p), EndsWith(p, a)
  PROVE  Alternates(r) /\ EndsWith(r, a)
  <1>1. /\ DOMAIN p = 1..(Len(r) + 1) /\ DOMAIN r = 1..Len(r) /\ Len(r) \in Nat
        /\ 1 \in DOMAIN r /\ 2 \in DOMAIN p
        OBVIOUS
  <1> DEFINE From(i) == IF i = 1 THEN 1 ELSE i + 1
             To(i) == IF i = 1 THEN 1 ELSE i - 1
  <1>2. \A i \in DOMAIN r : From(i) \in DOMAIN p /\ r[i] = p[From(i)]
        BY <1>1
  <1>3. \A i \in DOMAIN p : i # 2 => To(i) \in DOMAIN r /\ r[To(i)] = p[i]
        BY <1>1
  <1>4. ASSUME NEW i \in DOMAIN r, NEW k \in DOMAIN r, i < k,
               r[i].type = "StartEmulating", r[k].type = "StartEmulating"
        PROVE  \E j \in DOMAIN r : i < j /\ j < k /\ r[j].type = "StopEmulating"
    <2>1. From(i) < From(k)
          BY <1>1, <1>4
    <2>2. PICK j \in DOMAIN p : /\ From(i) < j /\ j < From(k)
                                /\ p[j].type = "StopEmulating"
          BY <1>2, <1>4, <2>1 DEF Alternates
    <2>3. j # 2
          BY <2>2
    <2>4. i < To(j) /\ To(j) < k
          BY <1>1, <2>2, <2>3
    <2> QED
        BY <1>3, <2>2, <2>3, <2>4
  <1>5. PICK i \in DOMAIN p : /\ p[i] = IF a = 0 THEN StopEmulating ELSE StartEmulating(a)
                              /\ \A j \in DOMAIN p : i < j => p[j].type = "Input"
        BY DEF EndsWith
  <1>6. p[i].type # "Input"
        BY <1>5 DEF StopEmulating, StartEmulating
  <1>7. i # 2
        BY <1>6
  <1>8. ASSUME NEW j \in DOMAIN r, To(i) < j
        PROVE  r[j].type = "Input"
    <2>1. i < From(j)
          BY <1>1, <1>7, <1>8
    <2> QED
        BY <1>2, <1>5, <2>1
  <1> QED
      BY <1>3, <1>4, <1>5, <1>7, <1>8 DEF Alternates, EndsWith

\* What the task makes of the head of its queue.
LEMMA HeadIsTaken ==
  ASSUME NEW q \in Seq(EisCommand), q # <<>>, NEW e \in BOOLEAN, NEW n \in Nat, NEW a,
         Alternates(Words(q, e, n)), EndsWith(Words(q, e, n), a)
  PROVE  /\ Head(q).type = "Input" =>
              /\ Alternates(Words(Tail(q), e, n))
              /\ EndsWith(Words(Tail(q), e, n), a)
         /\ Head(q).type = "StartEmulating" =>
              /\ ~e
              /\ Head(q).sequence \in Nat
              /\ Alternates(Words(Tail(q), TRUE, Head(q).sequence))
              /\ EndsWith(Words(Tail(q), TRUE, Head(q).sequence), a)
         /\ Head(q).type = "StopEmulating" =>
              /\ Alternates(Words(Tail(q), FALSE, 0))
              /\ EndsWith(Words(Tail(q), FALSE, 0), a)
  <1> DEFINE h == Head(q)
             t == Tail(q)
             p == Words(q, e, n)
  <1>1. /\ h \in EisCommand /\ t \in Seq(EisCommand) /\ Len(q) = Len(t) + 1
        /\ h = q[1] /\ \A i \in DOMAIN t : t[i] = q[i + 1]
        OBVIOUS
  <1>2. /\ p \in Seq(EisCommand) /\ Len(p) = Len(q) + 1
        /\ p[1] = IF e THEN StartEmulating(n) ELSE StopEmulating
        /\ \A i \in DOMAIN q : p[i + 1] = q[i]
        BY WordsTyped
  <1>3. p[2] = h /\ \A i \in DOMAIN t : p[i + 2] = t[i]
        BY <1>1, <1>2
  <1> HIDE DEF h, t, p
  <1>4. ASSUME NEW f \in BOOLEAN, NEW m \in Nat,
               h = IF f THEN StartEmulating(m) ELSE StopEmulating
        PROVE  Alternates(Words(t, f, m)) /\ EndsWith(Words(t, f, m), a)
    <2> DEFINE r == Words(t, f, m)
    <2>1. /\ r \in Seq(EisCommand) /\ Len(r) = Len(t) + 1 /\ r[1] = h
          /\ \A i \in DOMAIN t : r[i + 1] = t[i]
          BY <1>1, <1>4, WordsTyped
    <2> HIDE DEF r
    <2>2. r # <<>> /\ Len(p) = Len(r) + 1 /\ Len(t) \in Nat
          BY <1>1, <1>2, <2>1
    <2>3. \A i \in DOMAIN r : r[i] = p[i + 1]
      <3> SUFFICES ASSUME NEW i \in DOMAIN r PROVE r[i] = p[i + 1]
          OBVIOUS
      <3>1. CASE i = 1
            BY <1>3, <2>1, <3>1
      <3>2. CASE i # 1
        <4>1. i - 1 \in DOMAIN t /\ i = (i - 1) + 1 /\ i + 1 = (i - 1) + 2
              BY <1>1, <2>1, <3>2
        <4> QED
            BY <1>3, <2>1, <4>1
      <3> QED
          BY <3>1, <3>2
    <2>4. h.type # "Input"
          BY <1>4 DEF StartEmulating, StopEmulating
    <2>5. Alternates(p) /\ EndsWith(p, a)
          BY DEF p
    <2> QED
        BY <1>2, <1>3, <2>1, <2>2, <2>3, <2>4, <2>5, FirstMakesWay DEF r
  <1>5. ASSUME h.type = "StopEmulating"
        PROVE  Alternates(Words(t, FALSE, 0)) /\ EndsWith(Words(t, FALSE, 0), a)
    <2>1. h = StopEmulating
          BY <1>1, <1>5 DEF EisCommand
    <2> QED
        BY <1>4, <2>1
  <1>6. ASSUME h.type = "StartEmulating"
        PROVE  /\ ~e
               /\ h.sequence \in Nat
               /\ Alternates(Words(t, TRUE, h.sequence))
               /\ EndsWith(Words(t, TRUE, h.sequence), a)
    <2>1. h.sequence \in Nat /\ h = StartEmulating(h.sequence)
          BY <1>1, <1>6 DEF EisCommand, StartEmulating, StopEmulating
    <2>2. ~e
      <3> SUFFICES ASSUME e PROVE FALSE
          OBVIOUS
      <3>1. p[1].type = "StartEmulating" /\ p[2].type = "StartEmulating"
            BY <1>2, <1>3, <1>6 DEF StartEmulating
      <3>2. 1 \in DOMAIN p /\ 2 \in DOMAIN p /\ DOMAIN p \subseteq Nat
            BY <1>1, <1>2
      <3>3. PICK j \in DOMAIN p : 1 < j /\ j < 2
        <4>1. Alternates(p)
              BY DEF p
        <4> QED
            BY <3>1, <3>2, <4>1 DEF Alternates
      <3> QED
          BY <3>2, <3>3
    <2> QED
        BY <1>4, <2>1, <2>2
  <1>7. ASSUME h.type = "Input"
        PROVE  Alternates(Words(t, e, n)) /\ EndsWith(Words(t, e, n), a)
    <2> DEFINE r == Words(t, e, n)
    <2>0. /\ r \in Seq(EisCommand) /\ Len(r) = Len(t) + 1
          /\ r[1] = IF e THEN StartEmulating(n) ELSE StopEmulating
          /\ \A i \in DOMAIN t : r[i + 1] = t[i]
          BY <1>1, WordsTyped
    <2> HIDE DEF r
    <2>1. /\ r \in Seq(EisCommand) /\ Len(r) = Len(t) + 1 /\ r[1] = p[1]
          /\ \A i \in DOMAIN t : r[i + 1] = t[i]
          BY <1>2, <2>0
    <2>2. r # <<>> /\ Len(p) = Len(r) + 1 /\ Len(t) \in Nat
          BY <1>1, <1>2, <2>1
    <2>3. ASSUME NEW i \in DOMAIN r, i # 1
          PROVE  r[i] = p[i + 1]
      <3>1. i - 1 \in DOMAIN t /\ i = (i - 1) + 1 /\ i + 1 = (i - 1) + 2
            BY <1>1, <2>1, <2>3
      <3> QED
          BY <1>3, <2>1, <3>1
    <2>4. Alternates(p) /\ EndsWith(p, a)
          BY DEF p
    <2> QED
        BY <1>2, <1>3, <1>7, <2>1, <2>2, <2>3, <2>4, InputMakesWay DEF r
  <1> QED
      BY <1>5, <1>6, <1>7 DEF h, t

LEMMA FollowsAfterInputs ==
  ASSUME NEW q \in Seq(EisCommand), NEW s \in Seq(EisCommand),
         \A i \in DOMAIN s : s[i].type = "Input",
         NEW e \in BOOLEAN, NEW f, NEW a, Follows(q, e, f, a)
  PROVE  Follows(q \o s, e, f, a)
  <1>1. PICK n \in Nat : /\ \A d \in Device : f[d] = IF e THEN n ELSE 0
                         /\ Alternates(Words(q, e, n))
                         /\ EndsWith(Words(q, e, n), a)
        BY DEF Follows
  <1>2. /\ Words(q, e, n) \in Seq(EisCommand)
        /\ Words(q \o s, e, n) = Words(q, e, n) \o s
        BY WordsTyped
  <1>3. Alternates(Words(q \o s, e, n)) /\ EndsWith(Words(q \o s, e, n), a)
        BY <1>1, <1>2, InputsMayFollow
  <1> QED
      BY <1>1, <1>3 DEF Follows

LEMMA FollowsAfterStop ==
  ASSUME NEW q \in Seq(EisCommand), NEW e \in BOOLEAN, NEW f, NEW a, Follows(q, e, f, a)
  PROVE  Follows(q \o <<StopEmulating>>, e, f, 0)
  <1> DEFINE s == <<StopEmulating>>
  <1>1. PICK n \in Nat : /\ \A d \in Device : f[d] = IF e THEN n ELSE 0
                         /\ Alternates(Words(q, e, n))
        BY DEF Follows
  <1>2. s \in Seq(EisCommand)
        BY StopTyped
  <1>3. /\ Words(q, e, n) \in Seq(EisCommand)
        /\ Words(q \o s, e, n) = Words(q, e, n) \o s
        BY <1>2, WordsTyped
  <1>4. Alternates(Words(q \o s, e, n)) /\ EndsWith(Words(q \o s, e, n), 0)
        BY <1>1, <1>3, StopMayFollow
  <1> QED
      BY <1>1, <1>4 DEF Follows

LEMMA FollowsAfterStart ==
  ASSUME NEW q \in Seq(EisCommand), NEW e \in BOOLEAN, NEW f, Follows(q, e, f, 0),
         NEW m \in Nat, m # 0
  PROVE  Follows(q \o <<StartEmulating(m)>>, e, f, m)
  <1> DEFINE s == <<StartEmulating(m)>>
  <1>1. PICK n \in Nat : /\ \A d \in Device : f[d] = IF e THEN n ELSE 0
                         /\ Alternates(Words(q, e, n))
                         /\ EndsWith(Words(q, e, n), 0)
        BY DEF Follows
  <1>2. s \in Seq(EisCommand)
    <2>1. StartEmulating(m) \in EisCommand
          BY DEF EisCommand, StartEmulating
    <2> QED
        BY <2>1
  <1>3. /\ Words(q, e, n) \in Seq(EisCommand)
        /\ Words(q \o s, e, n) = Words(q, e, n) \o s
        BY <1>2, WordsTyped
  <1>4. Alternates(Words(q \o s, e, n)) /\ EndsWith(Words(q \o s, e, n), m)
        BY <1>1, <1>3, StartMayFollow
  <1> QED
      BY <1>1, <1>4 DEF Follows

\* What a step of the portal or the thread has to do to the queues.
LEMMA StreamsKept ==
  ASSUME StreamInv, UNCHANGED <<eisVars, eisLive>>, next_activation' # 0,
         \A s \in Session : sessions'[s].eis \in {sessions[s].eis, NoConn},
         \A s \in Session, c \in eisLive :
            /\ sessions[s].eis = c
            /\ sessions'[s].eis = c
            /\ Follows(eisq[c], emulating[c], stream[c], sessions[s].activation_id)
            => Follows(eisq'[c], emulating[c], stream[c], sessions'[s].activation_id)
  PROVE  StreamInv'
  <1> USE DEF eisVars
  <1>1. eisLive' \subseteq Conn /\ \A c \in eisLive' : phase'[c] = "connected" /\ devices'[c] = Device
        BY DEF StreamInv
  <1>2. \A s, t \in Session : s # t /\ sessions'[s].eis # NoConn => sessions'[s].eis # sessions'[t].eis
        BY DEF StreamInv
  <1>3. ASSUME NEW s \in Session, NEW c \in eisLive, sessions'[s].eis = c
        PROVE  Follows(eisq'[c], emulating'[c], stream'[c], sessions'[s].activation_id)
    <2>1. c # NoConn
          BY DEF StreamInv, Conn, NoConn
    <2>2. sessions[s].eis = c
          BY <1>3, <2>1
    <2>3. Follows(eisq[c], emulating[c], stream[c], sessions[s].activation_id)
          BY <2>2 DEF StreamInv
    <2>4. Follows(eisq'[c], emulating[c], stream[c], sessions'[s].activation_id)
          BY <1>3, <2>2, <2>3
    <2>5. emulating'[c] = emulating[c] /\ stream'[c] = stream[c]
          OBVIOUS
    <2> QED
        BY <2>4, <2>5
  <1> QED
      BY <1>1, <1>2, <1>3 DEF StreamInv

\* The thread adds inputs, and nothing else.
LEMMA ThreadSendsInputs ==
  ASSUME ThreadInv, ThreadStep
  PROVE  /\ UNCHANGED taskVars
         /\ \/ UNCHANGED eisq
            \/ \E C : \E s \in Seq(EisCommand) :
                  /\ \A i \in DOMAIN s : s[i].type = "Input"
                  /\ SendEisAll(C, s)
  <1> USE DEF chanVars, threadVars, taskVars
  <1>1. \A n \in Nat : Input(n) \in EisCommand /\ Input(n).type = "Input"
        BY DEF Input, EisCommand
  <1>2. ASSUME HandleAttachEis, Capturing
        PROVE  \E C : \E s \in Seq(EisCommand) : /\ \A i \in DOMAIN s : s[i].type = "Input"
                                                 /\ SendEisAll(C, s)
    <2> DEFINE s == [i \in DOMAIN capture.pending |-> Input(capture.pending[i])]
    <2>1. capture.pending \in Seq(Nat)
          BY <1>2 DEF ThreadInv, ThreadTypeOK, Capturing, Capture
    <2>2. Len(capture.pending) \in Nat /\ DOMAIN capture.pending = 1..Len(capture.pending)
          BY <2>1
    <2>3. \A i \in DOMAIN capture.pending : capture.pending[i] \in Nat
          BY <2>1
    <2>4. s \in Seq(EisCommand) /\ \A i \in DOMAIN s : s[i].type = "Input"
          BY <1>1, <2>2, <2>3
    <2>5. SendEisAll({Head(cmds).eis}, s)
          BY <1>2 DEF HandleAttachEis, SendEis
    <2> HIDE DEF s
    <2> QED
        BY <2>4, <2>5
  <1>3. ASSUME Forward, capture.eis # NoConn
        PROVE  \E C : \E s \in Seq(EisCommand) : /\ \A i \in DOMAIN s : s[i].type = "Input"
                                                 /\ SendEisAll(C, s)
    <2>1. NextRank \in Nat
          BY <1>3, WaylandAssumption
          DEF Forward, NextRank, ThreadInv, ThreadTypeOK, Capturing, Capture
    <2> DEFINE s == <<Input(NextRank)>>
    <2>2. s \in Seq(EisCommand) /\ \A i \in DOMAIN s : s[i].type = "Input"
          BY <1>1, <2>1
    <2>3. SendEisAll({capture.eis}, s)
          BY <1>3 DEF Forward, SendEis
    <2> HIDE DEF s
    <2> QED
        BY <2>2, <2>3
  <1>4. UNCHANGED taskVars
        BY DEF ThreadStep, HandleCmd, HandleArm, HandleDisarm, HandleAttachEis, HandleEndCapture,
               Callback, Configure, LayerClosed, Forward, Unlocked, PanicKey, Watchdog, Lose,
               TimePasses, OutputUpdated, OutputDestroyed, PointerRemoved, PointerAdded,
               BeginCapture
  <1>5. \/ UNCHANGED eisq
        \/ HandleAttachEis /\ Capturing
        \/ Forward /\ capture.eis # NoConn
        BY DEF ThreadStep, HandleCmd, HandleArm, HandleDisarm, HandleAttachEis, HandleEndCapture,
               Callback, Configure, LayerClosed, Forward, Unlocked, PanicKey, Watchdog, Lose,
               TimePasses, OutputUpdated, OutputDestroyed, PointerRemoved, PointerAdded,
               BeginCapture
  <1> QED
      BY <1>2, <1>3, <1>4, <1>5

LEMMA ThreadKeepsStreams ==
  ASSUME CaptureInv, StreamInv, ThreadStep, UNCHANGED <<portalVars, eisVars>>
  PROVE  StreamInv'
  <1>1. /\ ThreadInv
        /\ eisq \in [Conn -> Seq(EisCommand)]
        /\ emulating \in [Conn -> BOOLEAN]
        BY DEF CaptureInv, EisInv, EisTypeOK
  <1>2. UNCHANGED <<sessions, next_activation, eisLive>>
        BY <1>1, ThreadSendsInputs DEF portalVars, taskVars
  <1>3. ASSUME NEW c \in eisLive, NEW a, Follows(eisq[c], emulating[c], stream[c], a)
        PROVE  Follows(eisq'[c], emulating[c], stream[c], a)
    <2>0. c \in Conn
          BY DEF StreamInv
    <2>1. CASE UNCHANGED eisq
          BY <1>3, <2>1
    <2>2. ASSUME NEW C, NEW s \in Seq(EisCommand), \A i \in DOMAIN s : s[i].type = "Input",
                 SendEisAll(C, s)
          PROVE  Follows(eisq'[c], emulating[c], stream[c], a)
      <3>1. eisq'[c] \in {eisq[c], eisq[c] \o s}
            BY <2>0, <2>2 DEF SendEisAll
      <3>2. Follows(eisq[c] \o s, emulating[c], stream[c], a)
            BY <1>1, <1>3, <2>0, <2>2, FollowsAfterInputs
      <3> QED
          BY <1>3, <3>1, <3>2
    <2> QED
        BY <1>1, <2>1, <2>2, ThreadSendsInputs
  <1>4. next_activation' # 0
        BY <1>2 DEF StreamInv
  <1> QED
      BY <1>2, <1>3, <1>4, StreamsKept

\* A step that sends a stop to C and takes the sessions of C out of their runs,
\* and no others.
LEMMA StopsKeepStreams ==
  ASSUME CaptureInv, StreamInv, UNCHANGED <<eisVars, eisLive>>, next_activation' # 0,
         NEW C, SendEisAll(C, <<StopEmulating>>),
         \A s \in Session :
            \/ sessions'[s].eis = NoConn
            \/ /\ sessions'[s].eis = sessions[s].eis
               /\ \/ sessions'[s].activation_id = 0 /\ sessions[s].eis \in C
                  \/ /\ sessions'[s].activation_id = sessions[s].activation_id
                     /\ sessions[s].eis \notin C
  PROVE  StreamInv'
  <1>1. ASSUME NEW s \in Session, NEW c \in eisLive, sessions[s].eis = c, sessions'[s].eis = c,
               Follows(eisq[c], emulating[c], stream[c], sessions[s].activation_id)
        PROVE  Follows(eisq'[c], emulating[c], stream[c], sessions'[s].activation_id)
    <2>1. c \in Conn /\ c # NoConn
          BY DEF StreamInv, Conn, NoConn
    <2>2. CASE c \in C
      <3>1. eisq'[c] = eisq[c] \o <<StopEmulating>> /\ sessions'[s].activation_id = 0
            BY <1>1, <2>1, <2>2 DEF SendEisAll
      <3>2. eisq[c] \in Seq(EisCommand) /\ emulating[c] \in BOOLEAN
            BY <2>1 DEF CaptureInv, EisInv, EisTypeOK
      <3> QED
          BY <1>1, <3>1, <3>2, FollowsAfterStop
    <2>3. CASE c \notin C
      <3>1. eisq'[c] = eisq[c] /\ sessions'[s].activation_id = sessions[s].activation_id
            BY <1>1, <2>1, <2>3 DEF SendEisAll
      <3> QED
          BY <1>1, <3>1
    <2> QED
        BY <2>2, <2>3
  <1>2. \A s \in Session : sessions'[s].eis \in {sessions[s].eis, NoConn}
        OBVIOUS
  <1> QED
      BY <1>1, <1>2, StreamsKept

\* No stop is owed for a session that stays in its run, or goes altogether.
LEMMA EntriesKeepStreams ==
  ASSUME StreamInv, UNCHANGED <<eisVars, eisLive, eisq>>, next_activation' # 0,
         \A s \in Session :
            \/ /\ sessions'[s].eis = sessions[s].eis
               /\ sessions'[s].activation_id = sessions[s].activation_id
            \/ sessions'[s].eis = NoConn
  PROVE  StreamInv'
  <1>1. \A c \in eisLive : c # NoConn
        BY DEF StreamInv, Conn, NoConn
  <1> QED
      BY <1>1, StreamsKept

LEMMA ActivateKeepsStreams ==
  ASSUME CaptureInv, StreamInv, Activate, UNCHANGED eisVars
  PROVE  StreamInv'
  <1> DEFINE n == next_activation
             s == pump.session
  <1>1. /\ n \in Nat /\ n # 0 /\ next_activation' = n + 1
        /\ sessions \in [Session -> Entry] /\ s \in Session
        /\ UNCHANGED eisLive
        BY DEF Activate, TakeId, taskVars, StreamInv, CaptureInv, PortalInv, PortalTypeOK, Pump
  <1>2. CASE ~MayActivate(s)
        BY <1>1, <1>2, EntriesKeepStreams DEF Activate
  <1>3. CASE MayActivate(s)
    <2>1. /\ sessions' = [sessions EXCEPT ![s].activation_id = n]
          /\ SendEisAll(ConnsOf({s}), <<StartEmulating(n)>>)
          /\ sessions[s].activation_id = 0
          BY <1>3 DEF Activate, MayActivate
    <2>2. \A t \in Session : /\ sessions'[t].eis = sessions[t].eis
                             /\ sessions'[t].activation_id =
                                  IF t = s THEN n ELSE sessions[t].activation_id
          BY <1>1, <2>1 DEF Entry
    <2>3. ASSUME NEW t \in Session, NEW c \in eisLive, sessions[t].eis = c,
                 Follows(eisq[c], emulating[c], stream[c], sessions[t].activation_id)
          PROVE  Follows(eisq'[c], emulating[c], stream[c], sessions'[t].activation_id)
      <3>1. /\ c \in Conn /\ c # NoConn
            /\ eisq[c] \in Seq(EisCommand) /\ emulating[c] \in BOOLEAN
            BY DEF StreamInv, Conn, NoConn, CaptureInv, EisInv, EisTypeOK
      <3>2. CASE t = s
        <4>1. eisq'[c] = eisq[c] \o <<StartEmulating(n)>>
              BY <2>1, <2>3, <3>1, <3>2 DEF SendEisAll, ConnsOf
        <4> QED
            BY <1>1, <2>1, <2>2, <2>3, <3>1, <3>2, <4>1, FollowsAfterStart
      <3>3. CASE t # s
        <4>1. c # sessions[s].eis
              BY <1>1, <2>3, <3>1, <3>3 DEF StreamInv
        <4>2. eisq'[c] = eisq[c]
              BY <2>1, <3>1, <4>1 DEF SendEisAll, ConnsOf
        <4> QED
            BY <2>2, <2>3, <3>3, <4>2
      <3> QED
          BY <3>2, <3>3
    <2>4. next_activation' # 0
          BY <1>1
    <2> QED
        BY <1>1, <2>2, <2>3, <2>4, StreamsKept
  <1> QED
      BY <1>2, <1>3

\* Disable owes a stop, and a client that connects afresh may bind its devices
\* after the start.
LEMMA PortalKeepsStreams ==
  ASSUME {"Disable", "ConnectToEIS"} \cap Methods = {},
         CaptureInv, StreamInv, PortalStep, UNCHANGED eisVars
  PROVE  StreamInv'
  <1> USE DEF chanVars, taskVars, portalVars
  <1>1. /\ sessions \in [Session -> Entry]
        /\ next_activation # 0
        BY DEF CaptureInv, PortalInv, PortalTypeOK, StreamInv
  <1>2. CASE Activate
        BY <1>2, ActivateKeepsStreams
  <1>3. ASSUME NEW s \in Session, ReleaseCapture(s) PROVE StreamInv'
    <2>1. /\ sessions' = [sessions EXCEPT ![s].activation_id = 0]
          /\ SendEisAll(ConnsOf({s}), <<StopEmulating>>)
          /\ UNCHANGED <<eisLive, next_activation>>
          BY <1>3 DEF ReleaseCapture
    <2>2. \A t \in Session :
             /\ sessions'[t].eis = sessions[t].eis
             /\ sessions'[t].activation_id = IF t = s THEN 0 ELSE sessions[t].activation_id
          BY <1>1, <2>1 DEF Entry
    <2>3. CASE sessions[s].eis = NoConn
      <3>1. ConnsOf({s}) = {}
            BY <2>3 DEF ConnsOf
      <3>2. UNCHANGED eisq
            BY <2>1, <3>1 DEF SendEisAll, CaptureInv, EisInv
      <3> QED
          BY <1>1, <2>1, <2>2, <2>3, <3>2, EntriesKeepStreams
    <2>4. CASE sessions[s].eis # NoConn
      <3>1. \A t \in Session : sessions[t].eis \in ConnsOf({s}) <=> t = s
            BY <2>4 DEF ConnsOf, StreamInv
      <3> QED
          BY <1>1, <2>1, <2>2, <3>1, StopsKeepStreams
    <2> QED
        BY <2>3, <2>4
  <1>4. ASSUME NEW r \in Releaser, NEW d \in BOOLEAN, ReleaseAll(r, d) PROVE StreamInv'
    <2>1. /\ sessions' = [s \in Session |-> [sessions[s] EXCEPT !.activation_id = 0]]
          /\ SendEisAll(ConnsOf(Capturers), <<StopEmulating>>)
          /\ UNCHANGED <<eisLive, next_activation>>
          BY <1>4 DEF ReleaseAll
    <2>2. \A t \in Session :
             sessions'[t].eis = sessions[t].eis /\ sessions'[t].activation_id = 0
          BY <1>1, <2>1 DEF Entry
    <2>3. \A t \in Session : \/ sessions[t].eis = NoConn
                             \/ sessions[t].eis \in ConnsOf(Capturers)
                             \/ sessions[t].activation_id = 0
          BY DEF ConnsOf, Capturers
    <2> QED
        BY <1>1, <2>1, <2>2, <2>3, StopsKeepStreams
  <1>5. ASSUME NEW l, Deactivate(l) PROVE StreamInv'
    <2> DEFINE s == l.session
    <2>0. s \in Session
          BY <1>5 DEF Deactivate, CaptureInv, PortalInv, PortalTypeOK, Pump, Lost
    <2>1. /\ sessions' = [sessions EXCEPT ![s].activation_id = 0]
          /\ SendEisAll(ConnsOf({s} \cap Capturers), <<StopEmulating>>)
          /\ UNCHANGED <<eisLive, next_activation>>
          BY <1>5 DEF Deactivate
    <2>2. \A t \in Session :
             /\ sessions'[t].eis = sessions[t].eis
             /\ sessions'[t].activation_id = IF t = s THEN 0 ELSE sessions[t].activation_id
          BY <1>1, <2>0, <2>1 DEF Entry
    <2>3. CASE sessions[s].eis = NoConn \/ s \notin Capturers
      <3>1. ConnsOf({s} \cap Capturers) = {}
            BY <2>3 DEF ConnsOf
      <3>2. UNCHANGED eisq
            BY <2>1, <3>1 DEF SendEisAll, CaptureInv, EisInv
      <3>3. sessions[s].eis = NoConn \/ sessions[s].activation_id = 0
            BY <2>0, <2>3 DEF Capturers
      <3> QED
          BY <1>1, <2>1, <2>2, <3>2, <3>3, EntriesKeepStreams
    <2>4. CASE sessions[s].eis # NoConn /\ s \in Capturers
      <3>1. \A t \in Session : sessions[t].eis \in ConnsOf({s} \cap Capturers) <=> t = s
            BY <2>0, <2>4 DEF ConnsOf, StreamInv
      <3> HIDE DEF s
      <3> QED
          BY <1>1, <2>1, <2>2, <3>1, StopsKeepStreams
    <2> QED
        BY <2>3, <2>4
  <1>6. ASSUME NEW call, CreateInserts(call) \/ CreateExports(call) \/ GetZonesAnswers(call),
               call \in calls
        PROVE  StreamInv'
    <2>1. call.session \in Session
          BY <1>6 DEF CaptureInv, PortalInv, PortalTypeOK, Call
    <2>2. \A s \in Session :
             \/ /\ sessions'[s].eis = sessions[s].eis
                /\ sessions'[s].activation_id = sessions[s].activation_id
             \/ sessions'[s].eis = NoConn
      <3>1. CASE CreateInserts(call)
            BY <1>1, <2>1, <3>1 DEF CreateInserts, NewEntry, Gone, Entry
      <3>2. CASE CreateExports(call)
            BY <1>1, <2>1, <3>2 DEF CreateExports, Gone, Entry
      <3>3. CASE GetZonesAnswers(call)
            BY <1>1, <2>1, <3>3 DEF GetZonesAnswers, Entry
      <3> QED
          BY <1>6, <3>1, <3>2, <3>3
    <2>3. UNCHANGED <<eisLive, eisq, next_activation>>
          BY <1>6 DEF CreateInserts, CreateExports, GetZonesAnswers
    <2> QED
        BY <1>1, <2>2, <2>3, EntriesKeepStreams
  <1>7. ASSUME NEW s \in Session,
               \/ Start(s) \/ Close(s) \/ Enable(s)
               \/ \E B \in BarrierSets, id \in 1..MaxZoneSets : SetPointerBarriers(s, B, id)
        PROVE  StreamInv'
    <2>1. ASSUME NEW t \in Session
          PROVE  \/ /\ sessions'[t].eis = sessions[t].eis
                    /\ sessions'[t].activation_id = sessions[t].activation_id
                 \/ sessions'[t].eis = NoConn
      <3>1. CASE Start(s)
            BY <1>1, <3>1 DEF Start, Entry
      <3>2. CASE Close(s)
            BY <1>1, <3>2 DEF Close, Gone, Entry
      <3>3. CASE Enable(s)
            BY <1>1, <3>3 DEF Enable, Entry
      <3>4. ASSUME NEW B \in BarrierSets, NEW id \in 1..MaxZoneSets, SetPointerBarriers(s, B, id)
            PROVE  \/ /\ sessions'[t].eis = sessions[t].eis
                      /\ sessions'[t].activation_id = sessions[t].activation_id
                   \/ sessions'[t].eis = NoConn
            BY <1>1, <3>4 DEF SetPointerBarriers, Entry
      <3> QED
          BY <1>7, <3>1, <3>2, <3>3, <3>4
    <2>2. UNCHANGED <<eisLive, eisq, next_activation>>
          BY <1>7 DEF Start, Close, Enable, SetPointerBarriers
    <2> QED
        BY <1>1, <2>1, <2>2, EntriesKeepStreams
  <1>8. CASE UNCHANGED <<sessions, eisLive, eisq, next_activation>>
        BY <1>1, <1>8, EntriesKeepStreams
  <1>9. CASE Calling
    <2>1. CASE ForceRelease \/ ControlDisarm
          BY <1>4, <2>1 DEF ForceRelease, ControlDisarm, Releaser
    <2>2. ASSUME NEW s \in Session,
                 GetZonesBegins(s) \/ \E method \in {"CreateSession", "CreateSession2"} :
                                        CreateBegins(s, method)
          PROVE  StreamInv'
          BY <1>8, <2>2 DEF CreateBegins, GetZonesBegins
    <2>3. ASSUME NEW s \in Session,
                 \/ \E method \in {"CreateSession", "CreateSession2"} : CreateBegins(s, method)
                 \/ Start(s)
                 \/ Close(s)
                 \/ GetZonesBegins(s)
                 \/ \E B \in BarrierSets, id \in 1..MaxZoneSets : SetPointerBarriers(s, B, id)
                 \/ \E c \in Conn : ConnectToEIS(s, c)
                 \/ Enable(s)
                 \/ Disable(s)
                 \/ ReleaseCapture(s)
          PROVE  StreamInv'
      <3>1. CASE Disable(s) \/ \E c \in Conn : ConnectToEIS(s, c)
            BY <3>1 DEF Disable, ConnectToEIS, Called
      <3> QED
          BY <1>3, <1>7, <2>2, <2>3, <3>1
    <2> QED
        BY <1>9, <2>1, <2>3 DEF Calling
  <1>10. CASE Releasing
        BY <1>4, <1>8, <1>10
        DEF Releasing, ReleaserSteps, EisClosed, EisClosedReleases, ReleaseUnlocks,
            ReleaseDone, ReleaseTells, Releaser
  <1>11. CASE Pumping
        BY <1>2, <1>5, <1>8, <1>11
        DEF Pumping, PumpActivated, AnnounceActivated, PumpCaptureLost, AnnounceDeactivated,
            CaptureLostDone, PumpOutputsChanged
  <1>12. CASE Answering
        BY <1>6, <1>12 DEF Answering
  <1> QED
      BY <1>9, <1>10, <1>11, <1>12 DEF PortalStep

\* The task of a connection carries out what it is told.
LEMMA ApplyKeepsStreams ==
  ASSUME CaptureInv, StreamInv, NEW c \in Conn, Apply(c), UNCHANGED portalVars
  PROVE  StreamInv'
  <1> USE DEF taskVars, portalVars
  <1> DEFINE q == eisq[c]
             h == Head(q)
             e == emulating[c]
             f == stream[c]
  <1>1. /\ eisq \in [Conn -> Seq(EisCommand)]
        /\ emulating \in [Conn -> BOOLEAN]
        /\ stream \in [Conn -> [Device -> Nat]]
        BY DEF CaptureInv, EisInv, EisTypeOK
  <1>2. /\ c \in eisLive /\ q # <<>> /\ devices[c] = Device
        /\ q \in Seq(EisCommand) /\ e \in BOOLEAN
        /\ eisq' = [eisq EXCEPT ![c] = Tail(q)]
        /\ UNCHANGED <<phase, devices, eisLive, sessions, next_activation>>
        BY <1>1 DEF Apply, Receive, StreamInv
  <1>3. ASSUME NEW a, Follows(q, e, f, a)
        PROVE  Follows(eisq'[c], emulating'[c], stream'[c], a)
    <2>1. PICK n \in Nat : /\ \A d \in Device : f[d] = IF e THEN n ELSE 0
                           /\ Alternates(Words(q, e, n))
                           /\ EndsWith(Words(q, e, n), a)
          BY <1>3 DEF Follows
    <2>2. eisq'[c] = Tail(q)
          BY <1>1, <1>2
    <2>3. \A m : \A d \in Device : Told(c, m)[d] = m
          BY <1>2 DEF Told
    <2>4. CASE h.type = "Input"
      <3>1. emulating'[c] = e /\ stream'[c] = f
            BY <2>4 DEF Apply
      <3>2. Alternates(Words(Tail(q), e, n)) /\ EndsWith(Words(Tail(q), e, n), a)
            BY <1>2, <2>1, <2>4, HeadIsTaken
      <3> HIDE DEF q, e, f
      <3> QED
          BY <2>1, <2>2, <3>1, <3>2 DEF Follows
    <2>5. CASE h.type = "StartEmulating"
      <3>1. /\ ~e
            /\ h.sequence \in Nat
            /\ Alternates(Words(Tail(q), TRUE, h.sequence))
            /\ EndsWith(Words(Tail(q), TRUE, h.sequence), a)
            BY <1>2, <2>1, <2>5, HeadIsTaken
      <3>2. emulating'[c] = TRUE /\ stream'[c] = Told(c, h.sequence)
            BY <1>1, <2>5, <3>1 DEF Apply
      <3> HIDE DEF q, e, f, h
      <3> QED
          BY <2>2, <2>3, <3>1, <3>2 DEF Follows
    <2>6. CASE h.type = "StopEmulating"
      <3>1. Alternates(Words(Tail(q), FALSE, 0)) /\ EndsWith(Words(Tail(q), FALSE, 0), a)
            BY <1>2, <2>1, <2>6, HeadIsTaken
      <3>2. /\ emulating'[c] = FALSE
            /\ stream'[c] = IF e THEN Told(c, 0) ELSE f
            BY <1>1, <2>6 DEF Apply
      <3>3. \A d \in Device : stream'[c][d] = 0
            BY <2>1, <2>3, <3>2
      <3> HIDE DEF q, e, f
      <3> QED
          BY <2>2, <3>1, <3>2, <3>3 DEF Follows
    <2>7. h.type \in {"Input", "StartEmulating", "StopEmulating"}
          BY <1>2 DEF EisCommand, StopEmulating
    <2> QED
        BY <2>4, <2>5, <2>6, <2>7
  <1>4. \A k \in Conn \ {c} : /\ eisq'[k] = eisq[k] /\ emulating'[k] = emulating[k]
                              /\ stream'[k] = stream[k]
        BY <1>1, <1>2 DEF Apply
  <1>5. ASSUME NEW s \in Session, NEW k \in eisLive, sessions[s].eis = k
        PROVE  Follows(eisq'[k], emulating'[k], stream'[k], sessions[s].activation_id)
    <2>1. Follows(eisq[k], emulating[k], stream[k], sessions[s].activation_id) /\ k \in Conn
          BY <1>5 DEF StreamInv
    <2>2. CASE k = c
          BY <1>3, <2>1, <2>2
    <2>3. CASE k # c
          BY <1>4, <2>1, <2>3
    <2> QED
        BY <2>2, <2>3
  <1> QED
      BY <1>2, <1>5 DEF StreamInv

LEMMA EisKeepsStreams ==
  ASSUME CaptureInv, StreamInv, NEW c \in Conn, Command(c) \/ Client(c), UNCHANGED portalVars
  PROVE  StreamInv'
  <1> USE DEF taskVars, chanVars, portalVars, eisVars
  <1>1. CASE Apply(c)
        BY <1>1, ApplyKeepsStreams
  <1>2. CASE TaskDies(c)
    <2>1. /\ eisLive' = eisLive \ {c}
          /\ UNCHANGED <<phase, devices, emulating, stream, sessions, next_activation>>
          /\ \A k \in Conn \ {c} : eisq'[k] = eisq[k]
          BY <1>2 DEF TaskDies, CaptureInv, EisInv
    <2>2. ASSUME NEW s \in Session, NEW k \in eisLive', sessions[s].eis = k
          PROVE  Follows(eisq'[k], emulating[k], stream[k], sessions[s].activation_id)
      <3>1. k \in eisLive /\ k \in Conn \ {c}
            BY <2>1 DEF StreamInv
      <3>2. Follows(eisq[k], emulating[k], stream[k], sessions[s].activation_id)
            BY <2>2, <3>1 DEF StreamInv
      <3> QED
          BY <2>1, <3>1, <3>2
    <2> QED
        BY <2>1, <2>2 DEF StreamInv
  <1>3. ~HandshakeDone(c) /\ ~DropCommand(c) /\ \A kinds \in SUBSET Device : ~Bind(c, kinds)
        BY DEF HandshakeDone, DropCommand, Receive, Bind, StreamInv
  <1> QED
      BY <1>1, <1>2, <1>3 DEF Command, Client

LEMMA SetUpStreams == SetUp => StreamInv
  <1> SUFFICES ASSUME SetUp PROVE StreamInv
      OBVIOUS
  <1>1. /\ next_activation = 1
        /\ eisq = [c \in Conn |-> <<>>]
        /\ phase = [c \in Conn |-> IF c \in eisLive THEN "connected" ELSE "handshake"]
        /\ devices = [c \in Conn |-> IF c \in eisLive THEN Device ELSE {}]
        /\ emulating = [c \in Conn |-> FALSE]
        /\ stream = [c \in Conn |-> [d \in Device |-> 0]]
        BY DEF SetUp
  <1>2. PICK conn \in [Session -> Conn], zs \in [Session -> 1..Cardinality(Session)] :
          SessionsSetUp(conn, zs)
        BY DEF SetUp
  <1>3. eisLive \subseteq Conn
        BY <1>2 DEF SessionsSetUp
  <1>4. ASSUME NEW c \in Conn
        PROVE  Follows(eisq[c], emulating[c], stream[c], 0)
    <2>1. <<>> \in Seq(EisCommand) /\ DOMAIN <<>> = {} /\ 0 \in Nat
          OBVIOUS
    <2> DEFINE p == Words(<<>>, FALSE, 0)
    <2>2. DOMAIN p = {1} /\ p[1] = StopEmulating
          BY NothingWaits
    <2> HIDE DEF p
    <2>3. Alternates(p) /\ EndsWith(p, 0)
          BY <2>2 DEF Alternates, EndsWith
    <2>4. Follows(<<>>, FALSE, [d \in Device |-> 0], 0)
          BY <2>1, <2>3 DEF Follows, p
    <2> QED
        BY <1>1, <2>4
  <1>5. \A s \in Session : sessions[s].activation_id = 0
        BY SetUpEntry
  <1>6. \A s, t \in Session : s # t => sessions[s].eis # sessions[t].eis
        BY SetUpEntry
  <1>7. \A c \in eisLive : phase[c] = "connected" /\ devices[c] = Device
        BY <1>1, <1>3
  <1>8. \A s \in Session, c \in eisLive : sessions[s].eis = c =>
           Follows(eisq[c], emulating[c], stream[c], sessions[s].activation_id)
        BY <1>3, <1>4, <1>5
  <1>9. next_activation # 0
        BY <1>1
  <1> QED
      BY <1>3, <1>6, <1>7, <1>8, <1>9 DEF StreamInv

LEMMA NextKeepsStreams ==
  ASSUME {"Disable", "ConnectToEIS"} \cap Methods = {}
  PROVE  CaptureInv /\ StreamInv /\ [Next]_vars => StreamInv'
  <1> SUFFICES ASSUME CaptureInv, StreamInv, [Next]_vars PROVE StreamInv'
      OBVIOUS
  <1>1. CASE ThreadSteps
        BY <1>1, ThreadKeepsStreams DEF ThreadSteps, ThreadStep, Crossing
  <1>2. CASE PortalSteps
        BY <1>2, PortalKeepsStreams DEF PortalSteps, PortalStep
  <1>3. CASE EisSteps
        BY <1>3, EisKeepsStreams DEF EisSteps
  <1>4. CASE UNCHANGED vars
        BY <1>4 DEF vars, portalVars, eisVars, chanVars, taskVars, StreamInv
  <1> QED
      BY <1>1, <1>2, <1>3, <1>4 DEF Next

\* The last word on a stream is right: however the starts and stops of the five
\* handlers and the commands of the thread interleave, and whatever connections
\* die, once all is settled each client's devices are where its session's
\* activation wants them.  Disable sends no stop, and a client that connects may
\* bind its devices after the start: the instances that call neither.
THEOREM CaptureStreams ==
  ASSUME {"Disable", "ConnectToEIS"} \cap Methods = {}
  PROVE  SetUpSpec => []StreamMatchesActivation
  <1>1. CaptureInv /\ StreamInv /\ [Next]_vars => StreamInv'
        BY NextKeepsStreams
  <1>2. CaptureInv /\ StreamInv => StreamMatchesActivation
    <2> SUFFICES ASSUME CaptureInv, StreamInv, Settled, NEW s \in Session,
                        sessions[s].eis \in eisLive, NEW d \in Device
                 PROVE  stream[sessions[s].eis][d] = sessions[s].activation_id
        BY DEF StreamMatchesActivation, StreamInv
    <2> DEFINE c == sessions[s].eis
               a == sessions[s].activation_id
    <2>1. c \in Conn /\ eisq[c] = <<>> /\ emulating[c] \in BOOLEAN
          BY DEF StreamInv, Settled, CaptureInv, EisInv, EisTypeOK
    <2>2. PICK n \in Nat : /\ stream[c][d] = IF emulating[c] THEN n ELSE 0
                           /\ EndsWith(Words(<<>>, emulating[c], n), a)
          BY <2>1 DEF StreamInv, Follows
    <2> DEFINE p == Words(<<>>, emulating[c], n)
    <2>3. /\ DOMAIN p = {1}
          /\ p[1] = IF emulating[c] THEN StartEmulating(n) ELSE StopEmulating
          BY <2>1, NothingWaits
    <2>4. EndsWith(p, a)
          BY <2>2
    <2> HIDE DEF c, a, p
    <2>5. p[1] = IF a = 0 THEN StopEmulating ELSE StartEmulating(a)
          BY <2>3, <2>4 DEF EndsWith
    <2>6. stream[c][d] = a
          BY <2>2, <2>3, <2>5 DEF StartEmulating, StopEmulating
    <2> QED
        BY <2>6 DEF c, a
  <1> QED
      BY <1>1, <1>2, SetUpStreams, SetUpInvariant, PTL DEF SetUpSpec

\* The EIS sequence is the activation_id (portal.rs:1162) as long as nobody
\* disables a session in its run: Disable alone is what the run of that
\* statement finds at fault.
THEOREM CaptureSequences ==
  ASSUME {"Disable", "ConnectToEIS"} \cap Methods = {}
  PROVE  SetUpSpec => []SequenceIsActivation
  <1>1. CaptureInv /\ StreamInv /\ [Next]_vars => StreamInv'
        BY NextKeepsStreams
  <1>2. StreamInv /\ StreamMatchesActivation => SequenceIsActivation
        BY DEF StreamInv, StreamMatchesActivation, SequenceIsActivation
  <1> QED
      BY <1>1, <1>2, CaptureStreams, SetUpStreams, SetUpInvariant, PTL DEF SetUpSpec

----------------------------------------------------------------------------
(* The sessions while no client reconfigures its own.                       *)

\* The methods that change more of a session than the run it is in.
Reconfiguring == {"Close", "Disable", "SetPointerBarriers", "GetZones"}

Standing ==
    /\ calls = {}
    /\ \A s \in Session :
          /\ sessions[s].registered
          /\ sessions[s].started
          /\ sessions[s].enabled
          /\ sessions[s].eis \in Conn
          /\ sessions[s].barriers = BarrierId

\* What is left for the portal to do.
StandingStep ==
    \/ \E s \in Session : Enable(s) \/ ReleaseCapture(s)
    \/ \E r \in Releaser : ReleaseAll(r, FALSE)
    \/ "Disarm" \in Methods /\ ReleaseAll("control", TRUE)
    \/ \E r \in Releaser : ReleaseUnlocks(r) \/ ReleaseDone(r) \/ \E s \in Session : ReleaseTells(r, s)
    \/ EisClosed
    \/ Pumping

LEMMA StandingSteps ==
  ASSUME Reconfiguring \cap Methods = {}, Standing, PortalStep
  PROVE  StandingStep
  <1>1. CASE Calling
    <2>1. ASSUME NEW s \in Session,
                 \/ \E method \in {"CreateSession", "CreateSession2"} : CreateBegins(s, method)
                 \/ Start(s)
                 \/ Close(s)
                 \/ GetZonesBegins(s)
                 \/ \E B \in BarrierSets, id \in 1..MaxZoneSets : SetPointerBarriers(s, B, id)
                 \/ \E c \in Conn : ConnectToEIS(s, c)
                 \/ Enable(s)
                 \/ Disable(s)
                 \/ ReleaseCapture(s)
          PROVE  Enable(s) \/ ReleaseCapture(s)
      <3>1. ~Close(s) /\ ~GetZonesBegins(s) /\ ~Disable(s)
            BY DEF Close, GetZonesBegins, Disable, Called, Reconfiguring
      <3>2. \A B \in BarrierSets, id \in 1..MaxZoneSets : ~SetPointerBarriers(s, B, id)
            BY DEF SetPointerBarriers, Called, Reconfiguring
      <3>3. \A method \in {"CreateSession", "CreateSession2"} : ~CreateBegins(s, method)
            BY DEF CreateBegins, Standing
      <3>4. \A c \in Conn : ~ConnectToEIS(s, c)
            BY DEF ConnectToEIS, Standing, Conn, NoConn
      <3>5. ~Start(s)
            BY DEF Start, Standing
      <3> QED
          BY <2>1, <3>1, <3>2, <3>3, <3>4, <3>5
    <2>2. CASE ForceRelease \/ ControlDisarm
          BY <2>2 DEF ForceRelease, ControlDisarm, Called, Releaser, StandingStep
    <2> QED
        BY <1>1, <2>1, <2>2 DEF Calling, StandingStep
  <1>2. CASE Answering
        BY <1>2 DEF Answering, Standing
  <1>3. CASE Releasing
        BY <1>3 DEF Releasing, ReleaserSteps, EisClosedReleases, Releaser, StandingStep
  <1>4. CASE Pumping
        BY <1>4 DEF StandingStep
  <1> QED
      BY <1>1, <1>2, <1>3, <1>4 DEF PortalStep

LEMMA StandingStepKeeps ==
  ASSUME PortalInv, Standing, StandingStep
  PROVE  Standing'
  <1> USE DEF portalVars
  <1>1. sessions \in [Session -> Entry]
        BY DEF PortalInv, PortalTypeOK
  <1>2. CASE UNCHANGED <<sessions, calls>>
        BY <1>2 DEF Standing
  <1>3. ASSUME NEW s \in Session, Enable(s) PROVE Standing'
        BY <1>1, <1>3 DEF Enable, Standing, Entry
  <1>4. ASSUME NEW s \in Session, NEW n, sessions' = [sessions EXCEPT ![s].activation_id = n],
               UNCHANGED calls
        PROVE  Standing'
        BY <1>1, <1>4 DEF Standing, Entry
  <1>5. ASSUME NEW r, NEW d, ReleaseAll(r, d) PROVE Standing'
        BY <1>1, <1>5 DEF ReleaseAll, Standing, Entry
  <1>6. CASE Activate
    <2>1. pump.session \in Session
          BY <1>6 DEF Activate, PortalInv, PortalTypeOK, Pump
    <2> QED
        BY <1>2, <1>4, <1>6, <2>1 DEF Activate
  <1>7. ASSUME NEW l, Deactivate(l) PROVE Standing'
    <2>1. l.session \in Session
          BY <1>7 DEF Deactivate, PortalInv, PortalTypeOK, Pump, Lost
    <2> QED
        BY <1>4, <1>7, <2>1 DEF Deactivate
  <1>8. CASE Pumping
        BY <1>2, <1>6, <1>7, <1>8
        DEF Pumping, PumpActivated, AnnounceActivated, PumpCaptureLost, AnnounceDeactivated,
            CaptureLostDone, PumpOutputsChanged
  <1>9. ASSUME NEW s \in Session, ReleaseCapture(s) PROVE Standing'
        BY <1>4, <1>9 DEF ReleaseCapture
  <1>10. ASSUME NEW r \in Releaser,
                \/ ReleaseUnlocks(r) \/ ReleaseDone(r) \/ EisClosed
                \/ \E s \in Session : ReleaseTells(r, s)
         PROVE  Standing'
         BY <1>2, <1>10 DEF ReleaseUnlocks, ReleaseDone, EisClosed, ReleaseTells
  <1>11. CASE EisClosed
         BY <1>10, <1>11 DEF Releaser
  <1> QED
      BY <1>3, <1>5, <1>8, <1>9, <1>10, <1>11 DEF StandingStep

LEMMA PortalKeepsStanding ==
  ASSUME Reconfiguring \cap Methods = {}, PortalInv, Standing, PortalStep
  PROVE  Standing'
  BY StandingSteps, StandingStepKeeps

LEMMA SetUpStanding == SetUp => Standing
  BY SetUpEntry DEF SetUp, Standing

----------------------------------------------------------------------------
(* The edges.                                                               *)

\* The commands of a portal whose sessions stand: no Disarm, and the same Arm.
StandingCmd == {Arm(BarrierId), EndCapture} \cup [type : {"AttachEis"}, eis : Conn]

\* A capture only runs while the edges are armed; while they are not, an Arm is
\* still to come, and no crossing comes before it.
EdgesInv ==
    /\ cmds \in Seq(StandingCmd)
    /\ \A r \in Releaser : ~releasers[r].disarm
    /\ pump.at \in {"lost", "tell"} => \A l \in pump.todo : l.barriers = BarrierId
    /\ pump.at = "tell" => pump.now.barriers = BarrierId
    /\ \/ surfaces = OnEdge[layout]
       \/ surfaces = {} /\ ~Capturing /\ \E i \in DOMAIN cmds : cmds[i].type = "Arm"

LEMMA StandingCmdTyped ==
  /\ Arm(BarrierId) \in StandingCmd
  /\ EndCapture \in StandingCmd
  /\ \A c \in Conn : AttachEis(c) \in StandingCmd
  BY DEF StandingCmd, AttachEis

\* What the portal adds to the commands takes no Arm away.
LEMMA SendKeepsEdges ==
  ASSUME EdgesInv, NEW s \in Seq(StandingCmd), cmds' = cmds \o s,
         UNCHANGED <<threadVars, layout>>,
         \A r \in Releaser : ~releasers'[r].disarm,
         pump'.at \in {"lost", "tell"} => \A l \in pump'.todo : l.barriers = BarrierId,
         pump'.at = "tell" => pump'.now.barriers = BarrierId
  PROVE  EdgesInv'
  <1> USE DEF threadVars
  <1>1. cmds \in Seq(StandingCmd)
        BY DEF EdgesInv
  <1>2. /\ cmds' \in Seq(StandingCmd)
        /\ \A i \in DOMAIN cmds : i \in DOMAIN cmds' /\ cmds'[i] = cmds[i]
        BY <1>1
  <1>3. \/ surfaces' = OnEdge[layout']
        \/ surfaces' = {} /\ ~Capturing' /\ \E i \in DOMAIN cmds' : cmds'[i].type = "Arm"
        BY <1>2 DEF EdgesInv, Capturing
  <1> QED
      BY <1>2, <1>3 DEF EdgesInv

LEMMA PortalKeepsEdges ==
  ASSUME (Reconfiguring \cup {"Disarm"}) \cap Methods = {},
         PortalInv, Standing, EdgesInv, PortalStep, UNCHANGED threadVars
  PROVE  EdgesInv'
  <1> USE DEF chanVars, taskVars, portalVars
  <1>1. /\ pump \in Pump /\ releasers \in [Releaser -> Release]
        /\ \A s \in Session : sessions[s].barriers = BarrierId /\ sessions[s].eis \in Conn
        /\ cmds \in Seq(StandingCmd)
        /\ \A r \in Releaser : ~releasers[r].disarm
        /\ pump.at \in {"lost", "tell"} => \A l \in pump.todo : l.barriers = BarrierId
        /\ pump.at = "tell" => pump.now.barriers = BarrierId
        BY DEF PortalInv, PortalTypeOK, Standing, EdgesInv
  <1>2. /\ <<>> \in Seq(StandingCmd)
        /\ <<EndCapture>> \in Seq(StandingCmd)
        /\ <<Arm(BarrierId)>> \in Seq(StandingCmd)
        /\ <<EndCapture, Arm(BarrierId)>> \in Seq(StandingCmd)
        BY StandingCmdTyped
  <1>3. cmds \o <<>> = cmds
        BY <1>1
  <1>4. ASSUME UNCHANGED <<cmds, releasers, layout>>,
               pump'.at \in {"lost", "tell"} => \A l \in pump'.todo : l.barriers = BarrierId,
               pump'.at = "tell" => pump'.now.barriers = BarrierId
        PROVE  EdgesInv'
        BY <1>1, <1>2, <1>3, <1>4, SendKeepsEdges
  <1>5. ASSUME NEW s \in Session, Enable(s) PROVE EdgesInv'
        BY <1>1, <1>2, <1>5, SendKeepsEdges DEF Enable, SendCmds
  <1>6. ASSUME NEW s \in Session, ReleaseCapture(s) PROVE EdgesInv'
        BY <1>1, <1>2, <1>6, SendKeepsEdges DEF ReleaseCapture, SendCmds
  <1>7. ASSUME NEW r \in Releaser, ReleaseAll(r, FALSE) PROVE EdgesInv'
    <2>1. \A q \in Releaser : ~releasers'[q].disarm
          BY <1>1, <1>7 DEF ReleaseAll
    <2> QED
        BY <1>1, <1>2, <1>3, <1>7, <2>1, SendKeepsEdges DEF ReleaseAll
  <1>8. ASSUME NEW r \in Releaser, ReleaseUnlocks(r) PROVE EdgesInv'
    <2>1. \A q \in Releaser : ~releasers'[q].disarm
          BY <1>1, <1>8 DEF ReleaseUnlocks, Release
    <2> QED
        BY <1>1, <1>2, <1>8, <2>1, SendKeepsEdges DEF ReleaseUnlocks, SendCmds
  <1>9. ASSUME NEW r \in Releaser, ReleaseDone(r) PROVE EdgesInv'
    <2>1. \A q \in Releaser : ~releasers'[q].disarm
          BY <1>1, <1>9 DEF ReleaseDone, NotReleasing
    <2> QED
        BY <1>1, <1>2, <1>3, <1>9, <2>1, SendKeepsEdges DEF ReleaseDone
  <1>10. ASSUME NEW r \in Releaser, NEW s \in Session, ReleaseTells(r, s) PROVE EdgesInv'
    <2>1. \A q \in Releaser : ~releasers'[q].disarm
          BY <1>1, <1>10 DEF ReleaseTells, Release
    <2> QED
        BY <1>1, <1>2, <1>3, <1>10, <2>1, SendKeepsEdges DEF ReleaseTells
  <1>11. CASE EisClosed
    <2>1. \A q \in Releaser : ~releasers'[q].disarm
          BY <1>1, <1>11 DEF EisClosed, Release
    <2> QED
        BY <1>1, <1>2, <1>3, <1>11, <2>1, SendKeepsEdges DEF EisClosed
  <1>12. CASE Activate
    <2>1. pump.session \in Session
          BY <1>1, <1>12 DEF Activate, Pump
    <2> DEFINE m == AttachEis(sessions[pump.session].eis)
    <2>2. m \in StandingCmd
          BY <1>1, <2>1, StandingCmdTyped
    <2>3. \/ UNCHANGED cmds
          \/ cmds' = Append(cmds, m)
          BY <1>12 DEF Activate
    <2>4. pump'.at \notin {"lost", "tell"}
          BY <1>12 DEF Activate, Idle
    <2>5. UNCHANGED <<releasers, layout>>
          BY <1>12 DEF Activate
    <2> HIDE DEF m
    <2>6. CASE UNCHANGED cmds
          BY <1>4, <2>4, <2>5, <2>6
    <2>7. CASE cmds' = Append(cmds, m)
      <3>1. cmds' = cmds \o <<m>> /\ <<m>> \in Seq(StandingCmd)
            BY <1>1, <2>2, <2>7
      <3> QED
          BY <1>1, <2>4, <2>5, <3>1, SendKeepsEdges
    <2> QED
        BY <2>3, <2>6, <2>7
  <1>13. CASE AnnounceDeactivated
    <2>1. cmds' = cmds \o <<Arm(BarrierId)>>
          BY <1>1, <1>13 DEF AnnounceDeactivated, SendCmds
    <2> QED
        BY <1>1, <1>2, <1>13, <2>1, SendKeepsEdges DEF AnnounceDeactivated
  <1>14. CASE PumpCaptureLost
    <2>1. \A l \in pump'.todo : l.barriers = BarrierId
          BY <1>1, <1>14 DEF PumpCaptureLost, Capturers
    <2> QED
        BY <1>4, <1>14, <2>1 DEF PumpCaptureLost
  <1>15. ASSUME NEW l \in pump.todo, Deactivate(l) PROVE EdgesInv'
        BY <1>1, <1>4, <1>15 DEF Deactivate
  <1>16. CASE PumpActivated \/ AnnounceActivated \/ CaptureLostDone \/ PumpOutputsChanged
    <2>1. pump'.at \notin {"lost", "tell"}
          BY <1>16 DEF PumpActivated, NextEvent, AnnounceActivated, CaptureLostDone,
                       PumpOutputsChanged, Idle
    <2>2. UNCHANGED <<cmds, releasers, layout>>
          BY <1>16 DEF PumpActivated, AnnounceActivated, CaptureLostDone, PumpOutputsChanged
    <2> QED
        BY <1>4, <2>1, <2>2
  <1>17. CASE Pumping
    <2>1. (\E l \in (IF pump.at = "lost" THEN pump.todo ELSE {}) : Deactivate(l)) =>
             \E l \in pump.todo : Deactivate(l)
          OBVIOUS
    <2> QED
        BY <1>12, <1>13, <1>14, <1>15, <1>16, <1>17, <2>1 DEF Pumping
  <1> QED
      BY <1>5, <1>6, <1>7, <1>8, <1>9, <1>10, <1>11, <1>17, StandingSteps DEF StandingStep

\* Unplugging an output and withdrawing a layer take surfaces away and let
\* nobody arm them again.
LEMMA ThreadKeepsEdges ==
  ASSUME {"output", "layer"} \cap Faults = {}, ThreadInv, layout \in Layouts, EdgesInv,
         ThreadStep, UNCHANGED portalVars
  PROVE  EdgesInv'
  <1> USE DEF chanVars, threadVars, taskVars, portalVars
  <1>1. /\ cmds \in Seq(StandingCmd)
        /\ OnEdge[layout] \subseteq BarrierId
        /\ drawn \subseteq surfaces
        BY ChannelAssumption DEF EdgesInv, ThreadInv, ThreadTypeOK
  <1>2. ASSUME UNCHANGED <<cmds, surfaces, layout>>, Capturing' => Capturing PROVE EdgesInv'
        BY <1>2 DEF EdgesInv
  <1>3. ASSUME NEW type, NextCmd(type)
        PROVE  /\ cmds' \in Seq(StandingCmd)
               /\ Head(cmds) \in StandingCmd /\ Head(cmds).type = type
               /\ type # "Arm" /\ (\E i \in DOMAIN cmds : cmds[i].type = "Arm") =>
                    \E i \in DOMAIN cmds' : cmds'[i].type = "Arm"
    <2>1. /\ cmds # <<>> /\ Head(cmds) = cmds[1] /\ Head(cmds).type = type
          /\ cmds' = Tail(cmds)
          BY <1>1, <1>3 DEF NextCmd
    <2>2. cmds' \in Seq(StandingCmd) /\ Head(cmds) \in StandingCmd
          BY <1>1, <2>1
    <2>3. ASSUME type # "Arm", NEW i \in DOMAIN cmds, cmds[i].type = "Arm"
          PROVE  \E j \in DOMAIN cmds' : cmds'[j].type = "Arm"
      <3>1. i # 1
            BY <2>1, <2>3
      <3>2. i - 1 \in DOMAIN cmds' /\ cmds'[i - 1] = cmds[i]
            BY <1>1, <2>1, <3>1
      <3> QED
          BY <2>3, <3>2
    <2> QED
        BY <2>1, <2>2, <2>3
  <1>4. CASE HandleArm
    <2>1. cmds' \in Seq(StandingCmd) /\ Head(cmds) = Arm(BarrierId)
          BY <1>3, <1>4 DEF HandleArm, StandingCmd, EndCapture
    <2>2. surfaces' = OnEdge[layout']
      <3>1. CASE Capturing
            BY <1>4, <3>1 DEF HandleArm, EdgesInv
      <3>2. CASE ~Capturing
        <4>1. BarrierId \cap OnEdge[layout] = OnEdge[layout] /\ Arm(BarrierId).barriers = BarrierId
              BY <1>1 DEF Arm
        <4> QED
            BY <1>4, <2>1, <3>2, <4>1 DEF HandleArm
      <3> QED
          BY <3>1, <3>2
    <2>3. UNCHANGED <<releasers, pump>>
          OBVIOUS
    <2> QED
        BY <2>1, <2>2, <2>3 DEF EdgesInv
  <1>5. ~HandleDisarm
    <2>1. Disarm \notin StandingCmd /\ \A m \in StandingCmd : m.type # "Disarm"
          BY DEF StandingCmd, Arm, EndCapture, Disarm
    <2> QED
        BY <1>3, <2>1 DEF HandleDisarm
  <1>6. CASE HandleAttachEis
    <2>1. UNCHANGED <<surfaces, layout, releasers, pump>>
          BY <1>6 DEF HandleAttachEis
    <2>2. Capturing' => Capturing
          BY <1>6 DEF HandleAttachEis, Capturing
    <2>3. NextCmd("AttachEis")
          BY <1>6 DEF HandleAttachEis
    <2> QED
        BY <1>3, <2>1, <2>2, <2>3 DEF EdgesInv
  <1>7. CASE HandleEndCapture
    <2>1. UNCHANGED <<surfaces, layout, releasers, pump>>
          BY <1>7 DEF HandleEndCapture
    <2>2. ~Capturing'
          BY <1>7 DEF HandleEndCapture, EndTheCapture, Capturing
    <2>3. NextCmd("EndCapture")
          BY <1>7 DEF HandleEndCapture
    <2> QED
        BY <1>3, <2>1, <2>2, <2>3 DEF EdgesInv
  <1>8. CASE \E b \in BarrierId : BeginCapture(b)
    <2>1. surfaces # {} /\ UNCHANGED <<cmds, surfaces, layout, releasers, pump>>
          BY <1>1, <1>8 DEF BeginCapture
    <2> QED
        BY <2>1 DEF EdgesInv
  <1>9. CASE Callback \/ Watchdog
    <2>1. \A b \in BarrierId : ~LayerClosed(b)
          BY DEF LayerClosed
    <2>2. ~OutputUpdated /\ ~OutputDestroyed
          BY DEF OutputUpdated, OutputDestroyed
    <2>3. CASE Unlocked \/ PanicKey \/ Watchdog \/ PointerRemoved
          BY <1>2, <2>3 DEF Unlocked, PanicKey, Watchdog, Lose, EndTheCapture, PointerRemoved,
                            Capturing
    <2>4. CASE Forward \/ TimePasses \/ PointerAdded \/ \E b \in BarrierId : Configure(b)
      <3>1. Capturing' => Capturing
            BY <2>4 DEF Forward, TimePasses, PointerAdded, Configure, Capturing
      <3> QED
          BY <1>2, <2>4, <3>1 DEF Forward, TimePasses, PointerAdded, Configure
    <2> QED
        BY <1>9, <2>1, <2>2, <2>3, <2>4 DEF Callback
  <1> QED
      BY <1>4, <1>5, <1>6, <1>7, <1>8, <1>9 DEF ThreadStep, HandleCmd

LEMMA SetUpEdges == SetUp => EdgesInv
  <1> SUFFICES ASSUME SetUp PROVE EdgesInv
      OBVIOUS
  <1>1. /\ cmds = <<Arm(BarrierId)>> /\ pump = Idle /\ surfaces = {} /\ ~Capturing
        /\ releasers = [r \in Releaser |-> NotReleasing]
        BY DEF SetUp, ThreadInit, Capturing
  <1>2. cmds \in Seq(StandingCmd)
        BY <1>1, StandingCmdTyped
  <1>3. DOMAIN cmds = {1} /\ cmds[1].type = "Arm"
        BY <1>1 DEF Arm
  <1> QED
      BY <1>1, <1>2, <1>3 DEF EdgesInv, NotReleasing, Idle

LEMMA StandingStays ==
  ASSUME Reconfiguring \cap Methods = {}
  PROVE  SetUpSpec => []Standing
  <1>1. CaptureInv /\ Standing /\ [Next]_vars => Standing'
    <2> SUFFICES ASSUME CaptureInv, Standing, [Next]_vars PROVE Standing'
        OBVIOUS
    <2>1. CASE PortalSteps
          BY <2>1, PortalKeepsStanding DEF PortalSteps, PortalStep, CaptureInv
    <2>2. CASE UNCHANGED portalVars
          BY <2>2 DEF portalVars, Standing
    <2> QED
        BY <2>1, <2>2 DEF Next, ThreadSteps, EisSteps, vars
  <1> QED
      BY <1>1, SetUpStanding, SetUpInvariant, PTL DEF SetUpSpec

\* The edges stay armed: Release, the panic key, a forced release, a loss and
\* another Enable all come to rest with the surfaces of every enabled session
\* up, though an Arm is ignored during a capture and may arrive in the next
\* one.  Only a Disarm, an output that goes away or a layer that is withdrawn
\* leaves them down.
THEOREM CaptureEdges ==
  ASSUME (Reconfiguring \cup {"Disarm"}) \cap Methods = {}, {"output", "layer"} \cap Faults = {}
  PROVE  SetUpSpec => []EdgesStayArmed
  <1>1. CaptureInv /\ Standing /\ EdgesInv /\ [Next]_vars => EdgesInv'
    <2> SUFFICES ASSUME CaptureInv, Standing, EdgesInv, [Next]_vars PROVE EdgesInv'
        OBVIOUS
    <2>1. PortalInv /\ ThreadInv /\ layout \in Layouts
          BY DEF CaptureInv, PortalInv
    <2>2. CASE ThreadSteps
          BY <2>1, <2>2, ThreadKeepsEdges DEF ThreadSteps, ThreadStep, Crossing
    <2>3. CASE PortalSteps
          BY <2>1, <2>3, PortalKeepsEdges DEF PortalSteps, PortalStep
    <2>4. CASE EisSteps \/ UNCHANGED vars
      <3>1. UNCHANGED <<threadVars, portalVars, cmds, layout>>
            BY <2>4 DEF EisSteps, vars, chanVars, taskVars, Command, Client, DropCommand, Apply,
                        HandshakeDone, Bind, TaskDies
      <3> QED
          BY <3>1 DEF EdgesInv, threadVars, portalVars, Capturing
    <2> QED
        BY <2>2, <2>3, <2>4 DEF Next
  <1>2. Standing /\ EdgesInv => EdgesStayArmed
        BY DEF Standing, EdgesInv, EdgesStayArmed, Settled
  <1>3. SetUpSpec => []Standing
        BY StandingStays
  <1> QED
      BY <1>1, <1>2, <1>3, SetUpEdges, SetUpInvariant, PTL DEF SetUpSpec

----------------------------------------------------------------------------
(* What is captured.                                                        *)

\* The portal has yet to hear of a crossing, or is about to activate for it.
CrossingAhead ==
    pump.at = "crossing" \/ \E i \in DOMAIN events : events[i].type = "Activated"

\* The portal is working a loss through.
AtLoss == pump.at \in {"lost", "tell"}

\* A capture that runs when the portal hears of a loss is a later one, whose
\* crossing it has not heard of; whoever was active by then is being deactivated.
LossInv ==
    /\ \A i \in DOMAIN events : events[i].type = "CaptureLost" /\ Capturing =>
          \E j \in DOMAIN events : i < j /\ events[j].type = "Activated"
    /\ AtLoss => \A s \in Capturers : \E l \in pump.todo : l.session = s
    /\ AtLoss /\ Capturing => \E j \in DOMAIN events : events[j].type = "Activated"

\* Whatever is captured will be somebody else's: every run is about to end, and
\* if there is a capture another one begins for it.
Renewed ==
    \/ \E i \in DOMAIN events : events[i].type = "CaptureLost"
    \/ AtLoss
    \/ Capturers = {} /\ (Capturing => CrossingAhead)

\* c is the connection of a session in a run.
Active(c) == \E s \in Session : sessions[s].eis = c /\ sessions[s].activation_id # 0

\* Where c is what the capture feeds once i commands have been handled, that is
\* right, or is put right by what is still to come.
RightAfter(c, i) ==
    \/ Active(c)
    \/ Renewed
    \/ \E r \in Releaser : releasers[r].at = "unlock"
    \/ \E j \in DOMAIN cmds :
          /\ i < j
          /\ \/ cmds[j].type = "EndCapture"
             \/ \E d \in Conn : cmds[j] = AttachEis(d) /\ Active(d)

FedInv ==
    /\ \A c \in Conn, i \in DOMAIN cmds :
          cmds[i] = AttachEis(c) => Session # {} /\ RightAfter(c, i)
    /\ \A c \in Conn :
          Capturing /\ capture.eis = c => Session # {} /\ RightAfter(c, 0)

LEMMA NextEventTaken ==
  ASSUME events \in Seq(WaylandEvent), NEW type, NextEvent(type)
  PROVE  /\ pump = Idle /\ events[1] \in WaylandEvent /\ events[1].type = type
         /\ \A i \in DOMAIN events' : i + 1 \in DOMAIN events /\ events'[i] = events[i + 1]
         /\ \A i \in DOMAIN events : i # 1 => i - 1 \in DOMAIN events' /\ events'[i - 1] = events[i]
  <1>1. events # <<>> /\ Head(events) = events[1] /\ events' = Tail(events)
        BY DEF NextEvent
  <1> QED
      BY <1>1 DEF NextEvent

\* What the thread reports: a capture begins with a report of its crossing, and
\* whenever a loss is reported there is none.
LEMMA ThreadReportsCrossings ==
  ASSUME ThreadStep
  PROVE  \/ UNCHANGED events /\ (Capturing' => Capturing)
         \/ \E m \in WaylandEvent :
               /\ events' = Append(events, m)
               /\ Capturing' => m.type # "CaptureLost"
               /\ Capturing' => Capturing \/ m.type = "Activated"
  <1> USE DEF chanVars, threadVars, taskVars
  <1>1. /\ CaptureLost \in WaylandEvent /\ OutputsChanged \in WaylandEvent
        /\ \A b \in BarrierId : Activated(b) \in WaylandEvent
        BY DEF WaylandEvent, Activated
  <1>2. CASE HandleCmd
        BY <1>2 DEF HandleCmd, HandleArm, HandleDisarm, HandleAttachEis, HandleEndCapture,
                    EndTheCapture, Capturing
  <1>3. ASSUME NEW b \in BarrierId, BeginCapture(b)
        PROVE  events' = Append(events, Activated(b)) /\ Activated(b).type = "Activated"
        BY <1>3 DEF BeginCapture, SendEvent, Activated
  <1>4. CASE Unlocked \/ PanicKey \/ Watchdog
    <2>1. events' = Append(events, CaptureLost) /\ ~Capturing'
          BY <1>4 DEF Unlocked, PanicKey, Watchdog, Lose, EndTheCapture, SendEvent, Capturing
    <2> QED
        BY <1>1, <2>1
  <1>5. CASE OutputUpdated \/ OutputDestroyed
    <2>1. /\ events' = Append(events, OutputsChanged) /\ OutputsChanged.type # "CaptureLost"
          /\ Capturing' => Capturing
          BY <1>5 DEF OutputUpdated, OutputDestroyed, SendEvent, Capturing, OutputsChanged
    <2> QED
        BY <1>1, <2>1
  <1>6. CASE Forward \/ TimePasses \/ PointerRemoved \/ PointerAdded
        BY <1>6 DEF Forward, TimePasses, PointerRemoved, PointerAdded, EndTheCapture, Capturing
  <1>7. ASSUME NEW b \in BarrierId, Configure(b) \/ LayerClosed(b)
        PROVE  UNCHANGED events /\ (Capturing' => Capturing)
        BY <1>7 DEF Configure, LayerClosed, Capturing
  <1> QED
      BY <1>1, <1>2, <1>3, <1>4, <1>5, <1>6, <1>7 DEF ThreadStep, Callback

LEMMA ThreadKeepsLoss ==
  ASSUME events \in Seq(WaylandEvent), LossInv, ThreadStep, UNCHANGED portalVars
  PROVE  LossInv'
  <1> USE DEF portalVars
  <1>1. CASE UNCHANGED events /\ (Capturing' => Capturing)
        BY <1>1 DEF LossInv, AtLoss, Capturers
  <1>2. ASSUME NEW m \in WaylandEvent, events' = Append(events, m),
               Capturing' => m.type # "CaptureLost",
               Capturing' => Capturing \/ m.type = "Activated"
        PROVE  LossInv'
    <2>1. /\ \A i \in DOMAIN events : i \in DOMAIN events' /\ events'[i] = events[i]
          /\ \A i \in DOMAIN events' : i \in DOMAIN events \/ events'[i] = m
          /\ Len(events) + 1 \in DOMAIN events' /\ events'[Len(events) + 1] = m
          /\ \A i \in DOMAIN events : i < Len(events) + 1
          BY <1>2
    <2>2. ASSUME NEW i \in DOMAIN events', events'[i].type = "CaptureLost", Capturing'
          PROVE  \E j \in DOMAIN events' : i < j /\ events'[j].type = "Activated"
      <3>1. i \in DOMAIN events /\ events[i].type = "CaptureLost"
            BY <1>2, <2>1, <2>2
      <3>2. CASE Capturing
            BY <2>1, <3>1, <3>2 DEF LossInv
      <3>3. CASE ~Capturing
            BY <1>2, <2>1, <2>2, <3>1, <3>3
      <3> QED
          BY <3>2, <3>3
    <2>3. ASSUME AtLoss', Capturing'
          PROVE  \E j \in DOMAIN events' : events'[j].type = "Activated"
      <3>1. CASE Capturing
            BY <2>1, <2>3, <3>1 DEF LossInv, AtLoss
      <3>2. CASE ~Capturing
            BY <1>2, <2>1, <2>3, <3>2
      <3> QED
          BY <3>1, <3>2
    <2>4. AtLoss' => \A s \in Capturers' : \E l \in pump'.todo : l.session = s
          BY DEF LossInv, AtLoss, Capturers
    <2> QED
        BY <2>2, <2>3, <2>4 DEF LossInv
  <1> QED
      BY <1>1, <1>2, ThreadReportsCrossings

LEMMA ThreadKeepsRenewed ==
  ASSUME events \in Seq(WaylandEvent), Renewed, ThreadStep, UNCHANGED portalVars
  PROVE  Renewed'
  <1> USE DEF portalVars
  <1>1. CASE UNCHANGED events /\ (Capturing' => Capturing)
        BY <1>1 DEF Renewed, AtLoss, Capturers, CrossingAhead
  <1>2. ASSUME NEW m \in WaylandEvent, events' = Append(events, m),
               Capturing' => Capturing \/ m.type = "Activated"
        PROVE  Renewed'
    <2>1. /\ \A i \in DOMAIN events : i \in DOMAIN events' /\ events'[i] = events[i]
          /\ Len(events) + 1 \in DOMAIN events' /\ events'[Len(events) + 1] = m
          BY <1>2
    <2> QED
        BY <1>2, <2>1 DEF Renewed, AtLoss, Capturers, CrossingAhead
  <1> QED
      BY <1>1, <1>2, ThreadReportsCrossings

\* The steps of the portal that neither move the pump nor begin a run.
Aside ==
    \/ \E s \in Session : Enable(s) \/ ReleaseCapture(s)
    \/ \E r \in Releaser : ReleaseAll(r, FALSE)
    \/ "Disarm" \in Methods /\ ReleaseAll("control", TRUE)
    \/ \E r \in Releaser : ReleaseUnlocks(r) \/ ReleaseDone(r) \/ \E s \in Session : ReleaseTells(r, s)
    \/ EisClosed

LEMMA AsideEndsRuns ==
  ASSUME PortalInv, Aside
  PROVE  UNCHANGED <<events, pump>> /\ Capturers' \subseteq Capturers
  <1>1. sessions \in [Session -> Entry]
        BY DEF PortalInv, PortalTypeOK
  <1>2. CASE UNCHANGED <<events, pump, sessions>>
        BY <1>2 DEF Capturers
  <1>3. ASSUME NEW s \in Session, Enable(s)
        PROVE  UNCHANGED <<events, pump>> /\ Capturers' \subseteq Capturers
        BY <1>1, <1>3 DEF Enable, Capturers, Entry
  <1>4. ASSUME NEW s \in Session, ReleaseCapture(s)
        PROVE  UNCHANGED <<events, pump>> /\ Capturers' \subseteq Capturers
        BY <1>1, <1>4 DEF ReleaseCapture, Capturers, Entry
  <1>5. ASSUME NEW r, NEW d, ReleaseAll(r, d)
        PROVE  UNCHANGED <<events, pump>> /\ Capturers' \subseteq Capturers
        BY <1>1, <1>5 DEF ReleaseAll, Capturers, Entry
  <1>6. ASSUME NEW r \in Releaser,
               \/ ReleaseUnlocks(r) \/ ReleaseDone(r) \/ EisClosed
               \/ \E s \in Session : ReleaseTells(r, s)
        PROVE  UNCHANGED <<events, pump, sessions>>
        BY <1>6 DEF ReleaseUnlocks, ReleaseDone, EisClosed, ReleaseTells, chanVars
  <1>7. CASE EisClosed
        BY <1>2, <1>6, <1>7 DEF Releaser
  <1> QED
      BY <1>2, <1>3, <1>4, <1>5, <1>6, <1>7 DEF Aside

\* The pump, step by step.
LEMMA PumpSteps ==
  ASSUME Pumping
  PROVE  \/ PumpActivated \/ Activate \/ AnnounceActivated \/ PumpCaptureLost
         \/ pump.at = "lost" /\ \E l \in pump.todo : Deactivate(l)
         \/ AnnounceDeactivated \/ CaptureLostDone \/ PumpOutputsChanged
  BY DEF Pumping

LEMMA DeactivateEndsRun ==
  ASSUME PortalInv, NEW l \in pump.todo, Deactivate(l)
  PROVE  /\ l.session \in Session
         /\ \A s \in Session : sessions'[s].activation_id =
                                 IF s = l.session THEN 0 ELSE sessions[s].activation_id
         /\ \A s \in Session : sessions'[s].eis = sessions[s].eis
         /\ pump'.at = "tell" /\ pump'.todo = pump.todo \ {l}
         /\ UNCHANGED <<events, cmds, releasers>>
  <1>1. sessions \in [Session -> Entry]
        BY DEF PortalInv, PortalTypeOK
  <1>2. l.session \in Session
        BY DEF Deactivate, PortalInv, PortalTypeOK, Pump, Lost
  <1> QED
      BY <1>1, <1>2 DEF Deactivate, Entry

LEMMA PortalKeepsLoss ==
  ASSUME events \in Seq(WaylandEvent), PortalInv, LossInv, StandingStep, UNCHANGED threadVars
  PROVE  LossInv'
  <1> USE DEF threadVars, chanVars, portalVars
  <1>1. Capturing' = Capturing
        BY DEF Capturing
  <1>2. ASSUME NEW type, NextEvent(type), AtLoss' => PumpCaptureLost
        PROVE  LossInv'
    <2>1. /\ events[1].type = type
          /\ \A i \in DOMAIN events' : i + 1 \in DOMAIN events /\ events'[i] = events[i + 1]
          /\ \A i \in DOMAIN events : i # 1 => i - 1 \in DOMAIN events' /\ events'[i - 1] = events[i]
          BY <1>2, NextEventTaken
    <2>2. DOMAIN events \subseteq Nat /\ DOMAIN events' \subseteq Nat
          BY <1>2 DEF NextEvent
    <2>3. ASSUME NEW i \in DOMAIN events', events'[i].type = "CaptureLost", Capturing
          PROVE  \E j \in DOMAIN events' : i < j /\ events'[j].type = "Activated"
      <3>1. PICK j \in DOMAIN events : i + 1 < j /\ events[j].type = "Activated"
            BY <2>1, <2>3 DEF LossInv
      <3>2. j # 1 /\ i < j - 1 /\ j \in Nat
            BY <2>2, <3>1
      <3> QED
          BY <2>1, <3>1, <3>2
    <2>4. ASSUME AtLoss', Capturing
          PROVE  \E j \in DOMAIN events' : events'[j].type = "Activated"
      <3>1. events # <<>> /\ events[1].type = "CaptureLost"
            BY <1>2, <2>4, NextEventTaken DEF PumpCaptureLost, NextEvent
      <3>2. 1 \in DOMAIN events
            BY <3>1
      <3>3. PICK j \in DOMAIN events : 1 < j /\ events[j].type = "Activated"
            BY <2>4, <3>1, <3>2 DEF LossInv
      <3>4. j # 1
            BY <2>2, <3>3
      <3> QED
          BY <2>1, <3>3, <3>4
    <2>5. ASSUME AtLoss', NEW s \in Capturers'
          PROVE  \E l \in pump'.todo : l.session = s
      <3>1. /\ UNCHANGED sessions
            /\ pump'.todo = {[session |-> t, barriers |-> sessions[t].barriers] : t \in Capturers}
            BY <1>2, <2>5 DEF PumpCaptureLost
      <3>2. s \in Capturers
            BY <3>1 DEF Capturers
      <3> DEFINE l == [session |-> s, barriers |-> sessions[s].barriers]
      <3>3. l \in pump'.todo /\ l.session = s
            BY <3>1, <3>2
      <3> QED
          BY <3>3
    <2> QED
        BY <1>1, <2>3, <2>4, <2>5 DEF LossInv
  <1>3. ASSUME UNCHANGED events, AtLoss' => AtLoss,
               AtLoss' => \A s \in Capturers' : \E l \in pump'.todo : l.session = s
        PROVE  LossInv'
        BY <1>1, <1>3 DEF LossInv
  <1>4. CASE Aside
        BY <1>3, <1>4, AsideEndsRuns DEF LossInv, AtLoss
  <1>5. CASE PumpActivated
        BY <1>2, <1>5 DEF PumpActivated, AtLoss, Idle
  <1>6. CASE PumpCaptureLost
        BY <1>2, <1>6 DEF PumpCaptureLost
  <1>7. CASE PumpOutputsChanged
        BY <1>2, <1>7 DEF PumpOutputsChanged, NextEvent, AtLoss, Idle
  <1>8. CASE Activate \/ AnnounceActivated \/ CaptureLostDone
    <2>1. UNCHANGED events /\ ~AtLoss'
          BY <1>8 DEF Activate, AnnounceActivated, CaptureLostDone, AtLoss, Idle
    <2> QED
        BY <1>3, <2>1
  <1>9. ASSUME NEW l \in pump.todo, Deactivate(l) PROVE LossInv'
    <2>1. AtLoss /\ \A s \in Capturers : \E k \in pump.todo : k.session = s
          BY <1>9 DEF Deactivate, AtLoss, LossInv
    <2>2. \A s \in Capturers' : s \in Capturers /\ s # l.session
          BY <1>9, DeactivateEndsRun DEF Capturers
    <2>3. \A s \in Capturers' : \E k \in pump'.todo : k.session = s
          BY <1>9, <2>1, <2>2, DeactivateEndsRun
    <2> QED
        BY <1>3, <1>9, <2>1, <2>3, DeactivateEndsRun
  <1>10. CASE AnnounceDeactivated
    <2>1. /\ AtLoss /\ UNCHANGED <<events, sessions>>
          /\ pump'.todo = pump.todo
          BY <1>10 DEF AnnounceDeactivated, AtLoss
    <2> QED
        BY <1>3, <2>1 DEF LossInv, Capturers
  <1> QED
      BY <1>4, <1>5, <1>6, <1>7, <1>8, <1>9, <1>10, PumpSteps DEF StandingStep, Aside

\* Nothing but an activation undoes it.
LEMMA PortalKeepsRenewed ==
  ASSUME events \in Seq(WaylandEvent), PortalInv, Standing, LossInv, Session # {},
         Renewed, StandingStep, UNCHANGED threadVars
  PROVE  Renewed' \/ (Activate /\ MayActivate(pump.session))
  <1> USE DEF threadVars, chanVars, portalVars
  <1>1. Capturing' = Capturing
        BY DEF Capturing
  <1>2. ASSUME UNCHANGED events, AtLoss => AtLoss',
               Capturers = {} => Capturers' = {} /\ (pump.at = "crossing" => pump'.at = "crossing")
        PROVE  Renewed'
        BY <1>1, <1>2 DEF Renewed, CrossingAhead
  <1>3. CASE Aside
    <2>1. Capturers = {} => Capturers' = {}
          BY <1>3, AsideEndsRuns
    <2> QED
        BY <1>2, <1>3, <2>1, AsideEndsRuns DEF AtLoss
  <1>4. CASE PumpActivated
    <2>1. /\ pump = Idle /\ events[1] \in WaylandEvent /\ events[1].type = "Activated"
          /\ \A i \in DOMAIN events : i # 1 => i - 1 \in DOMAIN events' /\ events'[i - 1] = events[i]
          BY <1>4, NextEventTaken DEF PumpActivated
    <2>2. ~AtLoss
          BY <2>1 DEF AtLoss, Idle
    <2>3. CASE \E i \in DOMAIN events : events[i].type = "CaptureLost"
          BY <2>1, <2>3 DEF Renewed
    <2>4. CASE Capturers = {}
      <3>1. events[1].barrier \in BarrierId
            BY <2>1 DEF WaylandEvent, CaptureLost, OutputsChanged
      <3>2. Head(events) = events[1]
            BY <1>4 DEF PumpActivated, NextEvent
      <3>3. \A s \in Session : sessions[s].enabled /\ Head(events).barrier \in sessions[s].barriers
            BY <3>1, <3>2 DEF Standing
      <3>4. pump'.at = "crossing" /\ UNCHANGED sessions
            BY <1>4, <3>3 DEF PumpActivated
      <3> QED
          BY <2>4, <3>4 DEF Renewed, Capturers, CrossingAhead
    <2> QED
        BY <2>2, <2>3, <2>4 DEF Renewed
  <1>5. CASE PumpCaptureLost
        BY <1>5 DEF PumpCaptureLost, Renewed, AtLoss
  <1>6. CASE PumpOutputsChanged
    <2>1. /\ pump = Idle /\ events[1].type = "OutputsChanged" /\ UNCHANGED <<pump, sessions>>
          /\ \A i \in DOMAIN events : i # 1 => i - 1 \in DOMAIN events' /\ events'[i - 1] = events[i]
          BY <1>6, NextEventTaken DEF PumpOutputsChanged
    <2>2. \A i \in DOMAIN events : events[i].type \in {"CaptureLost", "Activated"} =>
             \E j \in DOMAIN events' : events'[j].type = events[i].type
          BY <2>1
    <2> QED
        BY <1>1, <2>1, <2>2 DEF Renewed, AtLoss, Capturers, CrossingAhead
  <1>7. CASE Activate
    <2>1. ~AtLoss /\ UNCHANGED events
          BY <1>7 DEF Activate, AtLoss
    <2>2. CASE \E i \in DOMAIN events : events[i].type = "CaptureLost"
          BY <2>1, <2>2 DEF Renewed
    <2>3. CASE Capturers = {}
      <3>1. pump.session \in Session
            BY <1>7 DEF Activate, PortalInv, PortalTypeOK, Pump
      <3> QED
          BY <1>7, <2>3, <3>1 DEF Capturers, MayActivate, Standing
    <2> QED
        BY <2>1, <2>2, <2>3 DEF Renewed
  <1>8. CASE AnnounceActivated
        BY <1>2, <1>8 DEF AnnounceActivated, AtLoss, Capturers
  <1>9. ASSUME NEW l \in pump.todo, Deactivate(l) PROVE Renewed'
        BY <1>9, DeactivateEndsRun DEF Renewed, AtLoss
  <1>10. CASE AnnounceDeactivated
         BY <1>10 DEF AnnounceDeactivated, Renewed, AtLoss
  <1>11. CASE CaptureLostDone
    <2>1. /\ AtLoss /\ pump.todo = {} /\ UNCHANGED <<events, sessions>>
          BY <1>11 DEF CaptureLostDone, AtLoss
    <2>2. Capturers' = {} /\ (Capturing => \E j \in DOMAIN events' : events'[j].type = "Activated")
          BY <2>1 DEF LossInv, Capturers
    <2> QED
        BY <1>1, <2>2 DEF Renewed, CrossingAhead
  <1> QED
      BY <1>3, <1>4, <1>5, <1>6, <1>7, <1>8, <1>9, <1>10, <1>11, PumpSteps DEF StandingStep, Aside

\* The portal has just asked for the capture to be ended.
EndCaptureSent == \E j \in DOMAIN cmds' : Len(cmds) < j /\ cmds'[j].type = "EndCapture"

LEMMA CmdsExtended ==
  ASSUME cmds \in Seq(WaylandCmd), NEW s \in Seq(WaylandCmd), cmds' = cmds \o s
  PROVE  /\ DOMAIN cmds' \subseteq Nat /\ Len(cmds) \in Nat
         /\ \A i \in DOMAIN cmds : i \in DOMAIN cmds' /\ cmds'[i] = cmds[i] /\ i <= Len(cmds)
         /\ \A i \in DOMAIN cmds' : i \notin DOMAIN cmds => \E k \in DOMAIN s : cmds'[i] = s[k]
         /\ \A k \in DOMAIN s : /\ Len(cmds) + k \in DOMAIN cmds' /\ Len(cmds) < Len(cmds) + k
                                /\ cmds'[Len(cmds) + k] = s[k]
  <1>1. cmds' \in Seq(WaylandCmd) /\ Len(cmds') = Len(cmds) + Len(s)
        OBVIOUS
  <1>2. ASSUME NEW i \in DOMAIN cmds', i \notin DOMAIN cmds
        PROVE  \E k \in DOMAIN s : cmds'[i] = s[k]
    <2>1. i - Len(cmds) \in DOMAIN s /\ cmds'[i] = s[i - Len(cmds)]
          BY <1>1, <1>2
    <2> QED
        BY <2>1
  <1> QED
      BY <1>1, <1>2

\* What the portal adds to the commands when runs begin and end.
LEMMA PortalAdds ==
  ASSUME PortalInv, cmds \in Seq(WaylandCmd), Standing, StandingStep
  PROVE  /\ DOMAIN cmds' \subseteq Nat
         /\ \A i \in DOMAIN cmds : i \in DOMAIN cmds' /\ cmds'[i] = cmds[i] /\ i <= Len(cmds)
         /\ \A i \in DOMAIN cmds', c \in Conn :
               i \notin DOMAIN cmds /\ cmds'[i] = AttachEis(c) => Session # {} /\ Active(c)'
         /\ \A c \in Conn : Active(c) =>
               \/ Active(c)'
               \/ EndCaptureSent
               \/ \E r \in Releaser : releasers'[r].at = "unlock"
               \/ AtLoss'
         /\ (\E r \in Releaser : releasers[r].at = "unlock") =>
               EndCaptureSent \/ \E r \in Releaser : releasers'[r].at = "unlock"
         /\ Activate /\ MayActivate(pump.session) =>
               \E d \in Conn : /\ Active(d)'
                               /\ \E j \in DOMAIN cmds' : Len(cmds) < j /\ cmds'[j] = AttachEis(d)
  <1> DEFINE Unlocking == \E r \in Releaser : releasers[r].at = "unlock"
             Goal == /\ DOMAIN cmds' \subseteq Nat
                     /\ \A i \in DOMAIN cmds : i \in DOMAIN cmds' /\ cmds'[i] = cmds[i] /\ i <= Len(cmds)
                     /\ \A i \in DOMAIN cmds', c \in Conn :
                           i \notin DOMAIN cmds /\ cmds'[i] = AttachEis(c) => Session # {} /\ Active(c)'
                     /\ \A c \in Conn : Active(c) =>
                           Active(c)' \/ EndCaptureSent \/ Unlocking' \/ AtLoss'
                     /\ Unlocking => EndCaptureSent \/ Unlocking'
                     /\ Activate /\ MayActivate(pump.session) =>
                           \E d \in Conn :
                              /\ Active(d)'
                              /\ \E j \in DOMAIN cmds' : Len(cmds) < j /\ cmds'[j] = AttachEis(d)
  <1> SUFFICES Goal
      OBVIOUS
  <1>1. /\ sessions \in [Session -> Entry]
        /\ releasers \in [Releaser -> Release]
        /\ \A s \in Session : sessions[s].barriers \in SUBSET BarrierId /\ sessions[s].eis \in Conn
        BY DEF PortalInv, PortalTypeOK, Standing
  <1>2. /\ <<>> \in Seq(WaylandCmd)
        /\ <<EndCapture>> \in Seq(WaylandCmd)
        /\ <<Disarm>> \in Seq(WaylandCmd)
        /\ \A B \in SUBSET BarrierId : <<Arm(B)>> \in Seq(WaylandCmd)
        /\ \A B \in SUBSET BarrierId : <<EndCapture, Arm(B)>> \in Seq(WaylandCmd)
        BY CmdTyped
  <1>3. cmds \o <<>> = cmds
        OBVIOUS
  <1>4. /\ EndCapture.type = "EndCapture" /\ Disarm.type = "Disarm"
        /\ \A B : Arm(B).type = "Arm"
        /\ \A c : AttachEis(c).type = "AttachEis"
        BY DEF EndCapture, Disarm, Arm, AttachEis
  <1>5. ASSUME NEW s \in Seq(WaylandCmd), cmds' = cmds \o s,
               \A k \in DOMAIN s : s[k].type # "AttachEis",
               \/ \A c \in Conn : Active(c) => Active(c)'
               \/ \E k \in DOMAIN s : s[k].type = "EndCapture"
               \/ Unlocking'
               \/ AtLoss',
               Unlocking => Unlocking' \/ \E k \in DOMAIN s : s[k].type = "EndCapture",
               ~Activate
        PROVE  Goal
    <2>1. /\ DOMAIN cmds' \subseteq Nat /\ Len(cmds) \in Nat
          /\ \A i \in DOMAIN cmds : i \in DOMAIN cmds' /\ cmds'[i] = cmds[i] /\ i <= Len(cmds)
          /\ \A i \in DOMAIN cmds' : i \notin DOMAIN cmds => \E k \in DOMAIN s : cmds'[i] = s[k]
          /\ \A k \in DOMAIN s : /\ Len(cmds) + k \in DOMAIN cmds' /\ Len(cmds) < Len(cmds) + k
                                 /\ cmds'[Len(cmds) + k] = s[k]
          BY <1>5, CmdsExtended
    <2>2. (\E k \in DOMAIN s : s[k].type = "EndCapture") => EndCaptureSent
          BY <2>1 DEF EndCaptureSent
    <2>3. \A i \in DOMAIN cmds', c \in Conn : i \notin DOMAIN cmds => cmds'[i] # AttachEis(c)
      <3> SUFFICES ASSUME NEW i \in DOMAIN cmds', i \notin DOMAIN cmds, NEW c \in Conn
                   PROVE  cmds'[i] # AttachEis(c)
          OBVIOUS
      <3>1. PICK k \in DOMAIN s : cmds'[i] = s[k]
            BY <2>1
      <3>2. cmds'[i].type # "AttachEis"
            BY <1>5, <3>1
      <3> QED
          BY <1>4, <3>2
    <2> QED
        BY <1>5, <2>1, <2>2, <2>3
  <1>6. CASE Activate
    <2>1. pump.session \in Session
          BY <1>6 DEF Activate, PortalInv, PortalTypeOK, Pump
    <2>2. UNCHANGED releasers
          BY <1>6 DEF Activate
    <2>3. CASE ~MayActivate(pump.session)
      <3>1. UNCHANGED <<sessions, cmds>>
            BY <1>6, <2>3 DEF Activate
      <3>2. \A i \in DOMAIN cmds : i \in Nat /\ i <= Len(cmds)
            OBVIOUS
      <3> QED
          BY <2>2, <2>3, <3>1, <3>2 DEF Active
    <2>4. CASE MayActivate(pump.session)
      <3>0. PICK d \in Conn : d = sessions[pump.session].eis
            BY <1>1, <2>1
      <3> DEFINE m == AttachEis(d)
      <3>1. d # NoConn /\ m \in WaylandCmd
            BY CmdTyped DEF Conn, NoConn
      <3>2. cmds' = Append(cmds, m)
            BY <1>6, <2>4, <3>0, <3>1 DEF Activate
      <3>3. sessions' = [sessions EXCEPT ![pump.session].activation_id = next_activation]
            BY <1>6, <2>4 DEF Activate
      <3>4. next_activation \in Nat
            BY DEF PortalInv, PortalTypeOK
      <3>5. next_activation # 0
        <4>1. sessions[pump.session].activation_id = 0
              BY <2>4 DEF MayActivate
        <4> QED
            BY <2>1, <4>1 DEF PortalInv, ActivationsDistinct
      <3>6. /\ \A s \in Session : sessions'[s].eis = sessions[s].eis
            /\ \A s \in Session : sessions[s].activation_id # 0 => sessions'[s].activation_id # 0
            /\ sessions'[pump.session].activation_id # 0
            BY <1>1, <2>1, <3>3, <3>5 DEF Entry
      <3>7. (\A c \in Conn : Active(c) => Active(c)') /\ Active(d)'
            BY <2>1, <3>0, <3>6 DEF Active
      <3> HIDE DEF m
      <3>8. /\ DOMAIN cmds' \subseteq Nat
            /\ \A i \in DOMAIN cmds : i \in DOMAIN cmds' /\ cmds'[i] = cmds[i] /\ i <= Len(cmds)
            /\ \A i \in DOMAIN cmds' : i \notin DOMAIN cmds => cmds'[i] = m
            /\ Len(cmds) + 1 \in DOMAIN cmds' /\ Len(cmds) < Len(cmds) + 1
            /\ cmds'[Len(cmds) + 1] = m
            BY <3>1, <3>2
      <3>9. \A c \in Conn : m = AttachEis(c) => c = d
            BY DEF AttachEis, m
      <3> QED
          BY <2>1, <2>2, <3>1, <3>7, <3>8, <3>9 DEF m
    <2> QED
        BY <2>3, <2>4
  <1>7. ASSUME UNCHANGED cmds, \A c \in Conn : Active(c) => Active(c)' \/ Unlocking' \/ AtLoss',
               Unlocking => Unlocking', ~Activate
        PROVE  Goal
    <2>1. \A i \in DOMAIN cmds : i \in Nat /\ i <= Len(cmds)
          OBVIOUS
    <2> QED
        BY <1>7, <2>1
  <1>8. ASSUME NEW s \in Session, Enable(s) PROVE Goal
    <2>1. \A c \in Conn : Active(c) => Active(c)'
          BY <1>1, <1>8 DEF Enable, Active, Entry
    <2>2. cmds' = cmds \o <<Arm(sessions[s].barriers)>> /\ UNCHANGED releasers /\ ~Activate
          BY <1>8 DEF Enable, SendCmds, Activate, TakeId, PortalInv, PortalTypeOK
    <2>3. <<Arm(sessions[s].barriers)>> \in Seq(WaylandCmd)
          BY <1>1, <1>2
    <2> QED
        BY <1>4, <1>5, <2>1, <2>2, <2>3
  <1>9. ASSUME NEW s \in Session, ReleaseCapture(s) PROVE Goal
    <2> DEFINE B == sessions[s].barriers
               a == <<EndCapture, Arm(B)>>
    <2>1. cmds' = cmds \o a /\ UNCHANGED releasers /\ ~Activate
          BY <1>9 DEF ReleaseCapture, SendCmds, Activate, TakeId, PortalInv, PortalTypeOK, Standing
    <2>2. a \in Seq(WaylandCmd) /\ DOMAIN a = 1..2 /\ a[1] = EndCapture /\ a[2] = Arm(B)
          BY <1>1, <1>2
    <2> HIDE DEF a
    <2>3. /\ \A k \in DOMAIN a : a[k].type # "AttachEis"
          /\ \E k \in DOMAIN a : a[k].type = "EndCapture"
          BY <1>4, <2>2
    <2> QED
        BY <1>5, <2>1, <2>2, <2>3
  <1>10. ASSUME NEW r \in Releaser, NEW d \in BOOLEAN, ReleaseAll(r, d) PROVE Goal
    <2>1. Unlocking' /\ UNCHANGED cmds /\ ~Activate
          BY <1>1, <1>10 DEF ReleaseAll, Activate, TakeId, PortalInv, PortalTypeOK
    <2> QED
        BY <1>7, <2>1
  <1>11. ASSUME NEW r \in Releaser, ReleaseUnlocks(r) PROVE Goal
    <2> DEFINE a == <<EndCapture>>
    <2>1. cmds' = cmds \o a /\ ~Activate
          BY <1>11 DEF ReleaseUnlocks, SendCmds, Activate, TakeId, PortalInv, PortalTypeOK
    <2>2. a \in Seq(WaylandCmd) /\ DOMAIN a = 1..1 /\ a[1] = EndCapture
          BY <1>2
    <2> HIDE DEF a
    <2>3. /\ \A k \in DOMAIN a : a[k].type # "AttachEis"
          /\ \E k \in DOMAIN a : a[k].type = "EndCapture"
          BY <1>4, <2>2
    <2> QED
        BY <1>5, <2>1, <2>2, <2>3
  <1>12. ASSUME NEW r \in Releaser, ReleaseDone(r) PROVE Goal
    <2>1. UNCHANGED sessions /\ ~Activate
          BY <1>12 DEF ReleaseDone, Activate, TakeId, PortalInv, PortalTypeOK
    <2>2. Unlocking => Unlocking'
          BY <1>1, <1>12 DEF ReleaseDone
    <2>3. \/ cmds' = cmds \o <<Disarm>>
          \/ UNCHANGED cmds
          BY <1>12 DEF ReleaseDone, SendCmds
    <2>4. \A c \in Conn : Active(c) => Active(c)'
          BY <2>1 DEF Active
    <2>5. CASE cmds' = cmds \o <<Disarm>>
          BY <1>2, <1>4, <1>5, <2>1, <2>2, <2>4, <2>5
    <2>6. CASE UNCHANGED cmds
          BY <1>7, <2>1, <2>2, <2>4, <2>6
    <2> QED
        BY <2>3, <2>5, <2>6
  <1>13. ASSUME NEW r \in Releaser, NEW s \in Session, ReleaseTells(r, s) PROVE Goal
    <2>1. UNCHANGED <<cmds, sessions>> /\ ~Activate
          BY <1>13 DEF ReleaseTells, Activate, TakeId, PortalInv, PortalTypeOK, chanVars
    <2>2. Unlocking => Unlocking'
          BY <1>1, <1>13 DEF ReleaseTells, Release
    <2> QED
        BY <1>7, <2>1, <2>2 DEF Active
  <1>14. CASE EisClosed
    <2>1. UNCHANGED <<cmds, sessions>> /\ ~Activate
          BY <1>14 DEF EisClosed, Activate, TakeId, PortalInv, PortalTypeOK
    <2>2. Unlocking => Unlocking'
          BY <1>1, <1>14 DEF EisClosed, Release
    <2> QED
        BY <1>7, <2>1, <2>2 DEF Active
  <1>15. ASSUME NEW l \in pump.todo, Deactivate(l) PROVE Goal
    <2>1. AtLoss' /\ UNCHANGED <<cmds, releasers>> /\ ~Activate
          BY <1>15, DeactivateEndsRun DEF Deactivate, Activate, AtLoss
    <2> QED
        BY <1>7, <2>1
  <1>16. CASE AnnounceDeactivated
    <2> DEFINE a == <<Arm(pump.now.barriers)>>
    <2>1. cmds' = cmds \o a /\ UNCHANGED <<sessions, releasers>> /\ ~Activate
          BY <1>16 DEF AnnounceDeactivated, SendCmds, Activate
    <2>2. a \in Seq(WaylandCmd) /\ \A k \in DOMAIN a : a[k].type # "AttachEis"
      <3>1. pump.now.barriers \in SUBSET BarrierId
            BY <1>16 DEF AnnounceDeactivated, PortalInv, PortalTypeOK, Pump, Lost
      <3> QED
          BY <1>2, <1>4, <3>1
    <2>3. \A c \in Conn : Active(c) => Active(c)'
          BY <2>1 DEF Active
    <2> HIDE DEF a
    <2>4. Unlocking => Unlocking'
          BY <2>1
    <2> QED
        BY <1>5, <2>1, <2>2, <2>3, <2>4
  <1>17. CASE PumpActivated \/ AnnounceActivated \/ PumpCaptureLost \/ CaptureLostDone
                \/ PumpOutputsChanged
    <2>1. UNCHANGED <<cmds, sessions, releasers>> /\ ~Activate
          BY <1>17 DEF PumpActivated, AnnounceActivated, PumpCaptureLost, CaptureLostDone,
                       PumpOutputsChanged, NextEvent, Idle, Activate, portalVars, chanVars
    <2> QED
        BY <1>7, <2>1 DEF Active
  <1>18. CASE Pumping
        BY <1>6, <1>15, <1>16, <1>17, <1>18, PumpSteps
  <1> QED
      BY <1>8, <1>9, <1>10, <1>11, <1>12, <1>13, <1>14, <1>18 DEF StandingStep, Releaser

\* Whatever ends a run has also sent, or will send, what ends the capture; and
\* what an activation undoes it replaces.
LEMMA PortalKeepsRight ==
  ASSUME events \in Seq(WaylandEvent), cmds \in Seq(WaylandCmd), PortalInv, Standing, LossInv,
         Session # {}, StandingStep, UNCHANGED threadVars,
         NEW c \in Conn, NEW i \in 0..Len(cmds), RightAfter(c, i)
  PROVE  RightAfter(c, i)'
  <1>1. /\ DOMAIN cmds' \subseteq Nat
        /\ \A j \in DOMAIN cmds : j \in DOMAIN cmds' /\ cmds'[j] = cmds[j]
        /\ \A d \in Conn : Active(d) =>
              \/ Active(d)'
              \/ EndCaptureSent
              \/ \E r \in Releaser : releasers'[r].at = "unlock"
              \/ AtLoss'
        /\ (\E r \in Releaser : releasers[r].at = "unlock") =>
              EndCaptureSent \/ \E r \in Releaser : releasers'[r].at = "unlock"
        /\ Activate /\ MayActivate(pump.session) =>
              \E d \in Conn : /\ Active(d)'
                              /\ \E j \in DOMAIN cmds' : Len(cmds) < j /\ cmds'[j] = AttachEis(d)
        BY PortalAdds
  <1>2. Len(cmds) \in Nat /\ i \in Nat /\ i <= Len(cmds)
        OBVIOUS
  <1>3. ASSUME EndCaptureSent PROVE RightAfter(c, i)'
        BY <1>1, <1>2, <1>3 DEF EndCaptureSent, RightAfter
  <1>4. ASSUME \E r \in Releaser : releasers'[r].at = "unlock" PROVE RightAfter(c, i)'
        BY <1>4 DEF RightAfter
  <1>5. ASSUME Renewed' PROVE RightAfter(c, i)'
        BY <1>5 DEF RightAfter
  <1>6. ASSUME AtLoss' PROVE RightAfter(c, i)'
        BY <1>5, <1>6 DEF Renewed
  <1>7. CASE Active(c)
        BY <1>1, <1>3, <1>4, <1>6, <1>7 DEF RightAfter
  <1>8. CASE Renewed
    <2>1. CASE Activate /\ MayActivate(pump.session)
      <3>1. PICK d \in Conn : /\ Active(d)'
                              /\ \E j \in DOMAIN cmds' : Len(cmds) < j /\ cmds'[j] = AttachEis(d)
            BY <1>1, <2>1
      <3>2. PICK j \in DOMAIN cmds' : Len(cmds) < j /\ cmds'[j] = AttachEis(d)
            BY <3>1
      <3>3. i < j
            BY <1>1, <1>2, <3>2
      <3> QED
          BY <3>1, <3>2, <3>3 DEF RightAfter
    <2> QED
        BY <1>5, <1>8, <2>1, PortalKeepsRenewed
  <1>9. CASE \E r \in Releaser : releasers[r].at = "unlock"
        BY <1>1, <1>3, <1>4, <1>9
  <1>10. ASSUME NEW j \in DOMAIN cmds, i < j, cmds[j].type = "EndCapture"
         PROVE  RightAfter(c, i)'
         BY <1>1, <1>10 DEF RightAfter
  <1>11. ASSUME NEW j \in DOMAIN cmds, i < j, NEW d \in Conn, cmds[j] = AttachEis(d), Active(d)
         PROVE  RightAfter(c, i)'
    <2>1. j \in DOMAIN cmds' /\ cmds'[j] = AttachEis(d)
          BY <1>1, <1>11
    <2>2. CASE Active(d)'
          BY <1>11, <2>1, <2>2 DEF RightAfter
    <2> QED
        BY <1>1, <1>3, <1>4, <1>6, <1>11, <2>2
  <1> QED
      BY <1>7, <1>8, <1>9, <1>10, <1>11 DEF RightAfter

LEMMA PortalKeepsFed ==
  ASSUME events \in Seq(WaylandEvent), cmds \in Seq(WaylandCmd), PortalInv, Standing, LossInv,
         FedInv, StandingStep, UNCHANGED threadVars
  PROVE  FedInv'
  <1> USE DEF threadVars
  <1>1. ASSUME NEW c \in Conn, NEW i \in DOMAIN cmds', cmds'[i] = AttachEis(c)
        PROVE  Session # {} /\ RightAfter(c, i)'
    <2>1. CASE i \in DOMAIN cmds
      <3>1. cmds[i] = AttachEis(c) /\ i \in 0..Len(cmds)
            BY <1>1, <2>1, PortalAdds
      <3>2. Session # {} /\ RightAfter(c, i)
            BY <2>1, <3>1 DEF FedInv
      <3> QED
          BY <3>1, <3>2, PortalKeepsRight
    <2>2. CASE i \notin DOMAIN cmds
      <3>1. Session # {} /\ Active(c)'
            BY <1>1, <2>2, PortalAdds
      <3> QED
          BY <3>1 DEF RightAfter
    <2> QED
        BY <2>1, <2>2
  <1>2. ASSUME NEW c \in Conn, Capturing', capture'.eis = c
        PROVE  Session # {} /\ RightAfter(c, 0)'
    <2>1. Session # {} /\ RightAfter(c, 0) /\ 0 \in 0..Len(cmds)
          BY <1>2 DEF FedInv, Capturing
    <2> QED
        BY <2>1, PortalKeepsRight
  <1> QED
      BY <1>1, <1>2 DEF FedInv

\* The thread takes its commands in order, and so comes to the right one.
LEMMA ThreadKeepsFed ==
  ASSUME events \in Seq(WaylandEvent), ThreadInv, FedInv,
         ThreadStep, UNCHANGED portalVars
  PROVE  FedInv'
  <1> USE DEF chanVars, threadVars, portalVars
  <1>0. cmds \in Seq(WaylandCmd) /\ capture \in Capture \cup {NoCapture}
        BY DEF ThreadInv, ThreadTypeOK
  <1>1. \A c \in Conn : Active(c)' <=> Active(c)
        BY DEF Active
  <1>2. Renewed => Renewed'
        BY ThreadKeepsRenewed
  <1>3. ASSUME UNCHANGED cmds, NEW c \in Conn, NEW i, RightAfter(c, i)
        PROVE  RightAfter(c, i)'
        BY <1>1, <1>2, <1>3 DEF RightAfter
  <1>4. ASSUME UNCHANGED cmds, Capturing' => capture'.eis = NoConn \/ (Capturing /\ capture'.eis = capture.eis)
        PROVE  FedInv'
    <2>1. NoConn \notin Conn
          BY DEF Conn, NoConn
    <2> QED
        BY <1>3, <1>4, <2>1 DEF FedInv
  <1>5. ASSUME NEW type, NextCmd(type)
        PROVE  /\ cmds[1].type = type /\ 1 \in DOMAIN cmds /\ Head(cmds) = cmds[1]
               /\ \A i \in DOMAIN cmds' : i + 1 \in DOMAIN cmds /\ cmds'[i] = cmds[i + 1] /\ i \in Nat
               /\ \A i \in DOMAIN cmds : i - 1 \in Nat /\ (i # 1 => i - 1 \in DOMAIN cmds' /\ cmds'[i - 1] = cmds[i])
    <2>1. cmds # <<>> /\ Head(cmds) = cmds[1] /\ cmds' = Tail(cmds) /\ cmds[1].type = type
          BY <1>0, <1>5 DEF NextCmd
    <2> QED
        BY <1>0, <2>1
  <1>6. ASSUME NEW type, NextCmd(type), NEW c \in Conn, NEW i \in DOMAIN cmds, RightAfter(c, i)
        PROVE  RightAfter(c, i - 1)'
    <2>1. ASSUME NEW j \in DOMAIN cmds, i < j
          PROVE  j - 1 \in DOMAIN cmds' /\ i - 1 < j - 1 /\ cmds'[j - 1] = cmds[j]
      <3>1. i \in Nat /\ j \in Nat /\ i >= 1
            OBVIOUS
      <3> QED
          BY <1>5, <1>6, <2>1, <3>1
    <2>2. CASE Active(c)
          BY <1>1, <2>2 DEF RightAfter
    <2>3. CASE Renewed
          BY <1>2, <2>3 DEF RightAfter
    <2>4. CASE \E r \in Releaser : releasers[r].at = "unlock"
          BY <2>4 DEF RightAfter
    <2>5. ASSUME NEW j \in DOMAIN cmds, i < j, cmds[j].type = "EndCapture"
          PROVE  RightAfter(c, i - 1)'
          BY <2>1, <2>5 DEF RightAfter
    <2>6. ASSUME NEW j \in DOMAIN cmds, i < j, NEW d \in Conn, cmds[j] = AttachEis(d), Active(d)
          PROVE  RightAfter(c, i - 1)'
          BY <1>1, <2>1, <2>6 DEF RightAfter
    <2> QED
        BY <1>6, <2>2, <2>3, <2>4, <2>5, <2>6 DEF RightAfter
  <1>7. ASSUME NEW type, NextCmd(type), NEW c \in Conn, NEW i \in DOMAIN cmds', cmds'[i] = AttachEis(c)
        PROVE  Session # {} /\ RightAfter(c, i)'
    <2>1. i + 1 \in DOMAIN cmds /\ cmds[i + 1] = AttachEis(c) /\ (i + 1) - 1 = i
          BY <1>5, <1>7
    <2>2. Session # {} /\ RightAfter(c, i + 1)
          BY <2>1 DEF FedInv
    <2>3. RightAfter(c, (i + 1) - 1)'
          BY <1>6, <1>7, <2>1, <2>2
    <2> QED
        BY <2>1, <2>2, <2>3
  <1>8. ASSUME NEW type \in {"Arm", "Disarm"}, NextCmd(type), UNCHANGED capture
        PROVE  FedInv'
    <2>1. ASSUME NEW c \in Conn, Capturing', capture'.eis = c
          PROVE  Session # {} /\ RightAfter(c, 0)'
      <3>1. Session # {} /\ RightAfter(c, 0)
            BY <1>8, <2>1 DEF FedInv, Capturing
      <3>2. ASSUME NEW j \in DOMAIN cmds, NEW d \in Conn,
                   cmds[j].type = "EndCapture" \/ cmds[j] = AttachEis(d)
            PROVE  j - 1 \in DOMAIN cmds' /\ 0 < j - 1 /\ cmds'[j - 1] = cmds[j]
        <4>1. j # 1
              BY <1>5, <1>8, <3>2 DEF AttachEis
        <4> QED
            BY <1>5, <1>8, <4>1
      <3>3. CASE Active(c)
            BY <1>1, <3>1, <3>3 DEF RightAfter
      <3>4. CASE Renewed
            BY <1>2, <3>1, <3>4 DEF RightAfter
      <3>5. CASE \E r \in Releaser : releasers[r].at = "unlock"
            BY <3>1, <3>5 DEF RightAfter
      <3>6. ASSUME NEW j \in DOMAIN cmds, cmds[j].type = "EndCapture"
            PROVE  RightAfter(c, 0)'
            BY <3>2, <3>6 DEF RightAfter
      <3>7. ASSUME NEW j \in DOMAIN cmds, NEW d \in Conn, cmds[j] = AttachEis(d), Active(d)
            PROVE  RightAfter(c, 0)'
            BY <1>1, <3>2, <3>7 DEF RightAfter
      <3> QED
          BY <3>1, <3>3, <3>4, <3>5, <3>6, <3>7 DEF RightAfter
    <2> QED
        BY <1>7, <1>8, <2>1 DEF FedInv
  <1>9. CASE HandleArm \/ HandleDisarm
        BY <1>8, <1>9 DEF HandleArm, HandleDisarm
  <1>10. CASE HandleEndCapture
    <2>1. NextCmd("EndCapture") /\ ~Capturing'
          BY <1>10 DEF HandleEndCapture, EndTheCapture, Capturing
    <2> QED
        BY <1>7, <2>1 DEF FedInv
  <1>11. CASE HandleAttachEis
    <2>1. NextCmd("AttachEis")
          BY <1>11 DEF HandleAttachEis
    <2>2. ASSUME NEW c \in Conn, Capturing', capture'.eis = c
          PROVE  Session # {} /\ RightAfter(c, 0)'
      <3>1. cmds[1] \in WaylandCmd /\ cmds[1].type = "AttachEis" /\ 1 \in DOMAIN cmds
            BY <1>0, <1>5, <2>1
      <3>2. PICK d \in Conn : cmds[1] = AttachEis(d)
            BY <3>1 DEF WaylandCmd, AttachEis, EndCapture, Disarm
      <3>3. Capturing /\ capture'.eis = d
        <4>1. Head(cmds).eis = d
              BY <1>5, <2>1, <3>2 DEF AttachEis
        <4>2. Capturing
              BY <1>11, <2>2 DEF HandleAttachEis, Capturing
        <4>3. capture' = [capture EXCEPT !.eis = d, !.pending = <<>>]
              BY <1>11, <4>1, <4>2 DEF HandleAttachEis
        <4>4. capture \in Capture
              BY <1>0, <4>2 DEF Capturing
        <4> QED
            BY <4>2, <4>3, <4>4 DEF Capture
      <3>4. Session # {} /\ RightAfter(d, 1)
            BY <3>1, <3>2 DEF FedInv
      <3>5. RightAfter(d, 1 - 1)'
            BY <1>6, <2>1, <3>1, <3>4
      <3>6. 1 - 1 = 0 /\ c = d
            BY <2>2, <3>3
      <3> QED
          BY <3>4, <3>5, <3>6
    <2> QED
        BY <1>7, <2>1, <2>2 DEF FedInv
  <1>12. CASE ~HandleCmd
    <2>1. UNCHANGED cmds
          BY <1>12 DEF ThreadStep, Callback, Configure, LayerClosed, Forward, Unlocked, PanicKey,
                       Watchdog, Lose, TimePasses, OutputUpdated, OutputDestroyed,
                       PointerRemoved, PointerAdded, BeginCapture
    <2>2. CASE Forward
      <3>1. capture \in Capture /\ Capturing
            BY <1>0, <2>2 DEF Forward, Capturing
      <3>2. capture'.eis = capture.eis
            BY <2>2, <3>1 DEF Forward, Capture
      <3> QED
          BY <1>4, <2>1, <3>1, <3>2
    <2>3. CASE TimePasses
      <3>1. capture \in Capture /\ Capturing
            BY <1>0, <2>3 DEF TimePasses, Capturing
      <3>2. capture'.eis = capture.eis
            BY <2>3, <3>1 DEF TimePasses, Capture
      <3> QED
          BY <1>4, <2>1, <3>1, <3>2
    <2>4. CASE \E b \in BarrierId : BeginCapture(b)
      <3>1. capture'.eis = NoConn
            BY <2>4 DEF BeginCapture
      <3> QED
          BY <1>4, <2>1, <3>1
    <2>5. CASE ~(Forward \/ TimePasses \/ \E b \in BarrierId : BeginCapture(b))
      <3>1. ~Capturing' \/ UNCHANGED capture
            BY <1>12, <2>5
            DEF ThreadStep, Callback, Configure, LayerClosed, Unlocked, PanicKey, Watchdog, Lose,
                EndTheCapture, OutputUpdated, OutputDestroyed, PointerRemoved, PointerAdded, Capturing
      <3> QED
          BY <1>4, <2>1, <3>1 DEF Capturing
    <2> QED
        BY <2>2, <2>3, <2>4, <2>5
  <1> QED
      BY <1>9, <1>10, <1>11, <1>12 DEF HandleCmd

LEMMA SetUpFed == SetUp => LossInv /\ FedInv /\ QueuesInv
  <1> SUFFICES ASSUME SetUp PROVE LossInv /\ FedInv /\ QueuesInv
      OBVIOUS
  <1>1. /\ events = <<>> /\ closed = <<>> /\ cmds = <<Arm(BarrierId)>>
        /\ pump = Idle /\ ~Capturing
        BY DEF SetUp, ThreadInit, Capturing
  <1>2. LossInv
        BY <1>1 DEF LossInv, AtLoss, Idle
  <1>3. \A i \in DOMAIN cmds : cmds[i].type = "Arm"
        BY <1>1 DEF Arm
  <1>4. FedInv
        BY <1>1, <1>3 DEF FedInv, AttachEis
  <1>5. QueuesInv
    <2>1. PICK conn \in [Session -> Conn], zs \in [Session -> 1..Cardinality(Session)] :
            SessionsSetUp(conn, zs)
          BY DEF SetUp
    <2>2. eisLive = {conn[s] : s \in Session}
          BY <2>1 DEF SessionsSetUp
    <2>3. eisLabel = [c \in Conn |-> IF \E s \in Session : conn[s] = c
                         THEN CHOOSE s \in Session : conn[s] = c ELSE Unspawned]
          BY <2>1 DEF SessionsSetUp
    <2>4. eisLabel \in [Conn -> Session \cup {Unspawned}]
          BY <2>3
    <2>5. \A c \in eisLive : eisLabel[c] \in Session
          BY <2>2, <2>3
    <2> QED
        BY <1>1, <2>2, <2>4, <2>5 DEF QueuesInv
  <1> QED
      BY <1>2, <1>4, <1>5

\* The EIS tasks move nothing that the capture depends on.
LEMMA EisKeepsFed ==
  ASSUME LossInv, FedInv, UNCHANGED <<threadVars, portalVars, cmds, events>>
  PROVE  LossInv' /\ FedInv'
  <1> USE DEF threadVars, portalVars
  <1>1. AtLoss' = AtLoss /\ Capturing' = Capturing /\ CrossingAhead' = CrossingAhead /\ Capturers' = Capturers
        BY DEF AtLoss, Capturing, CrossingAhead, Capturers
  <1>2. Renewed' = Renewed /\ \A c \in Conn : Active(c)' = Active(c)
        BY <1>1 DEF Renewed, Active
  <1>3. LossInv'
        BY <1>1 DEF LossInv
  <1>4. \A i : \A c \in Conn : RightAfter(c, i) => RightAfter(c, i)'
        BY <1>2 DEF RightAfter
  <1> QED
      BY <1>1, <1>3, <1>4 DEF FedInv

\* One step of the whole keeps them.
LEMMA NextKeepsFed ==
  ASSUME Reconfiguring \cap Methods = {}, CaptureInv, Standing, QueuesInv, LossInv, FedInv, [Next]_vars
  PROVE  LossInv' /\ FedInv' /\ QueuesInv'
  <1>1. PortalInv /\ ThreadInv /\ events \in Seq(WaylandEvent) /\ cmds \in Seq(WaylandCmd)
        BY DEF CaptureInv, ThreadInv, QueuesInv
  <1>2. CASE ThreadSteps
    <2>1. ThreadStep /\ UNCHANGED portalVars
          BY <1>2 DEF ThreadSteps, ThreadStep, Crossing
    <2> QED
        BY <1>1, <2>1, ThreadKeepsLoss, ThreadKeepsFed, ThreadKeepsQueues
  <1>3. CASE PortalSteps
    <2>1. PortalStep /\ UNCHANGED threadVars
          BY <1>3 DEF PortalSteps, PortalStep
    <2>2. StandingStep
          BY <2>1, StandingSteps
    <2> QED
        BY <1>1, <2>1, <2>2, PortalKeepsLoss, PortalKeepsFed, PortalKeepsQueues
  <1>4. CASE EisSteps
    <2>1. PICK c \in Conn : Command(c) \/ Client(c)
          BY <1>4 DEF EisSteps
    <2>2. UNCHANGED <<threadVars, portalVars, cmds, events>>
          BY <1>4, <2>1 DEF EisSteps, chanVars, Command, Client, DropCommand, Apply, HandshakeDone,
                            Bind, TaskDies
    <2> QED
        BY <2>1, <2>2, EisKeepsFed, EisKeepsQueues
  <1>5. CASE UNCHANGED vars
    <2>1. UNCHANGED <<threadVars, portalVars, cmds, events>> /\ UNCHANGED taskVars
          BY <1>5 DEF vars, chanVars
    <2> QED
        BY <2>1, EisKeepsFed DEF QueuesInv, taskVars
  <1> QED
      BY <1>2, <1>3, <1>4, <1>5 DEF Next

\* What is captured is fed to nobody but a client whose session is active, once
\* all is settled: an AttachEis may reach the thread in a later capture than the
\* one it was sent for, and the EndCapture of one session's Release may end what
\* is by now the capture of another, but every such mistake is followed by the
\* command that puts it right.
THEOREM CaptureFeedsActive ==
  ASSUME Reconfiguring \cap Methods = {}
  PROVE  SetUpSpec => []OnlyActiveIsFed
  <1>1. CaptureInv /\ Standing /\ QueuesInv /\ LossInv /\ FedInv /\ [Next]_vars
          => LossInv' /\ FedInv' /\ QueuesInv'
        BY NextKeepsFed
  <1>2. CaptureInv /\ FedInv => OnlyActiveIsFed
    <2> SUFFICES ASSUME CaptureInv, FedInv, Settled, Capturing, capture.eis # NoConn
                 PROVE  \E s \in Session :
                            sessions[s].eis = capture.eis /\ sessions[s].activation_id # 0
        BY DEF OnlyActiveIsFed
    <2>1. capture \in Capture
          BY DEF CaptureInv, ThreadInv, ThreadTypeOK, Capturing
    <2>2. capture.eis \in Conn
          BY <2>1 DEF Capture
    <2>3. RightAfter(capture.eis, 0)
          BY <2>2 DEF FedInv
    <2>4. ~CrossingAhead /\ ~AtLoss /\ ~Renewed
          BY DEF Settled, CrossingAhead, AtLoss, Renewed, Idle
    <2>5. \A r \in Releaser : releasers[r].at # "unlock"
          BY DEF Settled, NotReleasing
    <2>6. Active(capture.eis)
          BY <2>3, <2>4, <2>5 DEF RightAfter, Settled
    <2> QED
        BY <2>6 DEF Active
  <1>3. SetUpSpec => []Standing
        BY StandingStays
  <1> QED
      BY <1>1, <1>2, <1>3, SetUpFed, SetUpInvariant, PTL DEF SetUpSpec
=============================================================================
