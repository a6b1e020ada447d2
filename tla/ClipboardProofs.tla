-------------------------- MODULE ClipboardProofs --------------------------
(***************************************************************************)
(* Proofs about the clipboard: its types, the parked transfers, and that    *)
(* the news, the owner on record and the claim agree once all is settled.   *)
(***************************************************************************)
EXTENDS Clipboard, SequenceTheorems, TLAPS

----------------------------------------------------------------------------
(* The inductive invariant, by the part of the system it is about.          *)

\* Reads wait on calls that wait for them, each for one.
ReadInv ==
    /\ \A i \in DOMAIN cmds : cmds[i].type = "Read" => tasks[cmds[i].reply].at = "read"
    /\ \A i, j \in DOMAIN cmds :
          cmds[i].type = "Read" /\ cmds[j].type = "Read" /\ cmds[i].reply = cmds[j].reply
            => i = j

\* The order o holds the serials D, each once, as they were handed out up to n.
Ordered(o, D, n) ==
    /\ o \in Seq(Nat)
    /\ D = {o[i] : i \in DOMAIN o}
    /\ \A i, j \in DOMAIN o : i < j => o[i] < o[j]
    /\ \A i \in DOMAIN o : o[i] # 0 /\ o[i] <= n

TransferInv ==
    /\ Ordered(order, DOMAIN transfers, next_serial)
    /\ Len(order) <= MAX_PENDING_TRANSFERS
    /\ transfers \in [DOMAIN transfers -> Nat \ {None}]
    /\ next_serial \in Nat

\* What is on the wire is not newer than the clipboard, and what will tell the
\* thread what it does not know yet is on the wire.
WireInv ==
    /\ \A i \in DOMAIN wire :
          /\ wire[i].n <= current
          /\ wire[i].type = "Cancelled" => wire[i].n # current
          /\ wire[i].type = "Selection" => offer <= wire[i].n
    /\ \A i, j \in DOMAIN wire :
          i < j /\ wire[i].type = "Selection" /\ wire[j].type = "Selection"
            => wire[i].n <= wire[j].n
    /\ maker \in Ours <=> source = current
    /\ source \notin {None, current} => \E i \in DOMAIN wire : wire[i] = Cancelled(source)
    /\ device /\ offer # current => \E i \in DOMAIN wire : wire[i] = Selection(current)

\* The news of an event are those of the offer, or others follow.
EventInv ==
    /\ mime_types <= offer
    /\ \A i \in DOMAIN events : events[i].type = "Selection" => events[i].mime_types <= offer
    /\ \/ /\ \A i \in DOMAIN events : events[i].type # "Selection"
          /\ mime_types = offer
       \/ \E i \in DOMAIN events :
             /\ events[i].type = "Selection"
             /\ events[i].mime_types = offer
             /\ \A j \in DOMAIN events : i < j => events[j].type # "Selection"

\* A client that was told something, and will not be told by what the pump is
\* at, was told the latest the pump knew of.
ToBeTold(s) == pump.at = "list" \/ (pump.at = "tell" /\ s \in pump.to)
UpToDate(s) == access[s] = "clipboard" /\ told[s] # Untold /\ ~ToBeTold(s)

ToldInv ==
    /\ pump # Idle => pump.news.mime_types = mime_types
    /\ \A s \in Session :
          /\ access[s] = "plain" => told[s] = Untold
          /\ told[s].mime_types <= offer
          /\ UpToDate(s) => told[s].mime_types = mime_types

\* Unless a selection is on the wire, the last word on its way to the clients
\* about who owns the clipboard is true.
Says(e, b) == (e.type = "Cancelled" /\ ~b) \/ (e.type = "Selection" /\ (e.is_ours <=> b))

OursInv ==
    device /\ (\A i \in DOMAIN wire : wire[i].type # "Selection") =>
        \/ \E i \in DOMAIN events :
              /\ Says(events[i], source # None)
              /\ \A j \in DOMAIN events : i < j => events[j].type = "Send"
        \/ /\ \A i \in DOMAIN events : events[i].type = "Send"
           /\ pump # Idle => (pump.news.is_ours <=> source # None)
           /\ \A s \in Session : UpToDate(s) => (told[s].is_ours <=> source # None)

\* An owner on record has its claim, or it is on its way, or what takes the
\* owner off the record is.
OwnerInv ==
    owner_session # NoOwner =>
        \/ \E t \in Task : tasks[t].at \in {"claim", "disown"}
        \/ \E i \in DOMAIN events : events[i].type = "Cancelled"
        \/ \E i \in DOMAIN cmds :
              /\ cmds[i].type = "Claim"
              /\ \A j \in DOMAIN cmds : i < j => cmds[j].type # "Release"
        \/ /\ \A i \in DOMAIN cmds : cmds[i].type # "Release"
           /\ (source # None) \/ ignored

\* An owner on record that was not overtaken made the selection in force, or its
\* claim is the last on its way, or what takes the owner off the record is.
MakerInv ==
    owner_session # NoOwner /\ ~overtaken =>
        \/ \E t \in Task : tasks[t].at \in {"claim", "disown"}
        \/ \E i \in DOMAIN events : events[i].type = "Cancelled"
        \/ \E i \in DOMAIN cmds :
              /\ cmds[i] = ClipboardClaim(owner_session)
              /\ \A j \in DOMAIN cmds : i < j => cmds[j].type # "Claim"
        \/ /\ \A i \in DOMAIN cmds : cmds[i].type # "Claim"
           /\ source = current /\ ~ignored => maker = owner_session

ClipboardInv ==
    /\ ClipboardTypeOK
    /\ ReadInv
    /\ TransferInv
    /\ WireInv
    /\ EventInv
    /\ ToldInv
    /\ OursInv
    /\ OwnerInv
    /\ MakerInv
----------------------------------------------------------------------------
(* Sequences.                                                               *)

LEMMA AppendFacts ==
  ASSUME NEW T, NEW s \in Seq(T), NEW e \in T
  PROVE  /\ Append(s, e) \in Seq(T)
         /\ DOMAIN s = 1..Len(s) /\ Len(s) \in Nat
         /\ DOMAIN Append(s, e) = 1..(Len(s) + 1)
         /\ \A i \in DOMAIN s : Append(s, e)[i] = s[i]
         /\ Append(s, e)[Len(s) + 1] = e
  OBVIOUS

LEMMA TailFacts ==
  ASSUME NEW T, NEW s \in Seq(T), s # <<>>
  PROVE  /\ Tail(s) \in Seq(T)
         /\ DOMAIN s = 1..Len(s) /\ Len(s) \in Nat /\ 1 \in DOMAIN s
         /\ DOMAIN Tail(s) = 1..(Len(s) - 1)
         /\ \A i \in DOMAIN Tail(s) : i + 1 \in DOMAIN s /\ Tail(s)[i] = s[i + 1]
         /\ \A i \in DOMAIN s : i # 1 => i - 1 \in DOMAIN Tail(s) /\ Tail(s)[i - 1] = s[i]
         /\ Head(s) = s[1] /\ Head(s) \in T
  OBVIOUS

----------------------------------------------------------------------------
(* Types.                                                                   *)

LEMMA MessagesTyped ==
  /\ \A by \in Ours : ClipboardClaim(by) \in WaylandCmd
  /\ \A t \in Task : ClipboardRead(t) \in WaylandCmd
  /\ ClipboardRelease \in WaylandCmd
  /\ \A n \in Nat \ {None} : /\ Selection(n) \in Wire
                            /\ Send(n) \in Wire
                            /\ Cancelled(n) \in Wire
                            /\ ClipboardSend(n) \in WaylandEvent
  /\ \A n \in Nat, b \in BOOLEAN : ClipboardSelection(n, b) \in WaylandEvent
  /\ ClipboardCancelled \in WaylandEvent
  BY DEF WaylandCmd, Wire, WaylandEvent, ClipboardClaim, ClipboardRead, ClipboardRelease,
         Selection, Send, Cancelled, ClipboardSend, ClipboardSelection, ClipboardCancelled

\* What Replace adds to the wire.
LEMMA ReplaceFacts ==
  ASSUME DataControlTypeOK, NEW by, Replace(by)
  PROVE  /\ current \in Nat /\ current' = current + 1 /\ maker' = by
         /\ wire' \in Seq(Wire) /\ wire \in Seq(Wire)
         /\ DOMAIN wire \subseteq DOMAIN wire'
         /\ \A i \in DOMAIN wire : wire'[i] = wire[i]
         /\ \A i \in DOMAIN wire' : i \notin DOMAIN wire =>
               /\ \A j \in DOMAIN wire : j < i
               /\ \/ wire'[i] = Cancelled(current)
                  \/ wire'[i] = Selection(current + 1)
         /\ maker \in Ours => \E i \in DOMAIN wire' : wire'[i] = Cancelled(current)
         /\ device => \E i \in DOMAIN wire' : wire'[i] = Selection(current + 1)
  <1> DEFINE c == Cancelled(current)
             n == Selection(current + 1)
             l == Len(wire)
  <1>1. c \in Wire /\ n \in Wire /\ wire \in Seq(Wire) /\ current \in Nat
        BY MessagesTyped DEF DataControlTypeOK, None
  <1>2. /\ maker \in Ours /\ device => wire' \in {wire \o <<c>> \o <<n>>, wire \o <<n>> \o <<c>>}
        /\ maker \in Ours /\ ~device => wire' \in {wire \o <<c>> \o <<>>, wire \o <<>> \o <<c>>}
        /\ maker \notin Ours /\ device => wire' \in {wire \o <<>> \o <<n>>, wire \o <<n>> \o <<>>}
        /\ maker \notin Ours /\ ~device => wire' \in {wire \o <<>> \o <<>>}
        BY DEF Replace
  <1>0. current' = current + 1 /\ maker' = by
        BY DEF Replace
  <1> HIDE DEF c, n
  <1>3. l \in Nat /\ DOMAIN wire = 1..l
        BY <1>1
  <1>4. ASSUME NEW a \in Wire, NEW b \in Wire
        PROVE  /\ wire \o <<a>> \o <<b>> \in Seq(Wire)
               /\ DOMAIN (wire \o <<a>> \o <<b>>) = 1..(l + 2)
               /\ \A i \in 1..l : (wire \o <<a>> \o <<b>>)[i] = wire[i]
               /\ (wire \o <<a>> \o <<b>>)[l + 1] = a
               /\ (wire \o <<a>> \o <<b>>)[l + 2] = b
        BY <1>1, <1>3
  <1>5. ASSUME NEW a \in Wire
        PROVE  /\ wire \o <<a>> \o <<>> = wire \o <<a>>
               /\ wire \o <<>> \o <<a>> = wire \o <<a>>
               /\ wire \o <<a>> \in Seq(Wire)
               /\ DOMAIN (wire \o <<a>>) = 1..(l + 1)
               /\ \A i \in 1..l : (wire \o <<a>>)[i] = wire[i]
               /\ (wire \o <<a>>)[l + 1] = a
        BY <1>1, <1>3
  <1>6. wire \o <<>> \o <<>> = wire
        BY <1>1
  <1>7. CASE maker \in Ours /\ device
    <2>1. PICK a \in Wire, b \in Wire : /\ (a = c /\ b = n) \/ (a = n /\ b = c)
                                        /\ wire' = wire \o <<a>> \o <<b>>
          BY <1>1, <1>2, <1>7
    <2>2. /\ wire' \in Seq(Wire) /\ DOMAIN wire' = 1..(l + 2)
          /\ \A i \in 1..l : wire'[i] = wire[i]
          /\ wire'[l + 1] = a /\ wire'[l + 2] = b
          BY <1>4, <2>1
    <2>3. \E i \in DOMAIN wire' : wire'[i] = c
      <3>1. l + 1 \in DOMAIN wire' /\ l + 2 \in DOMAIN wire'
            BY <1>3, <2>2
      <3> QED
          BY <2>1, <2>2, <3>1
    <2>4. \E i \in DOMAIN wire' : wire'[i] = n
      <3>1. l + 1 \in DOMAIN wire' /\ l + 2 \in DOMAIN wire'
            BY <1>3, <2>2
      <3> QED
          BY <2>1, <2>2, <3>1
    <2>5. ASSUME NEW i \in DOMAIN wire', i \notin DOMAIN wire
          PROVE  (\A j \in DOMAIN wire : j < i) /\ wire'[i] \in {c, n}
          BY <1>3, <2>1, <2>2, <2>5
    <2> QED
        BY <1>0, <1>1, <1>3, <2>2, <2>3, <2>4, <2>5 DEF c, n
  <1>8. CASE ~(maker \in Ours /\ device) /\ (maker \in Ours \/ device)
    <2>1. PICK a \in Wire : /\ a = IF maker \in Ours THEN c ELSE n
                           /\ wire' = wire \o <<a>>
          BY <1>1, <1>2, <1>5, <1>8
    <2>2. /\ wire' \in Seq(Wire) /\ DOMAIN wire' = 1..(l + 1)
          /\ \A i \in 1..l : wire'[i] = wire[i]
          /\ wire'[l + 1] = a
          BY <1>5, <2>1
    <2>3. ASSUME NEW i \in DOMAIN wire', i \notin DOMAIN wire
          PROVE  (\A j \in DOMAIN wire : j < i) /\ wire'[i] = a
          BY <1>3, <2>2, <2>3
    <2>4. \E i \in DOMAIN wire' : wire'[i] = a
          BY <1>3, <2>2
    <2> QED
        BY <1>0, <1>1, <1>3, <1>8, <2>1, <2>2, <2>3, <2>4 DEF c, n
  <1>9. CASE maker \notin Ours /\ ~device
        BY <1>1, <1>2, <1>3, <1>6, <1>9 DEF Replace
  <1> QED
      BY <1>7, <1>8, <1>9

LEMMA ThreadKeepsTypes ==
  ASSUME DataControlTypeOK, WireInv,
         HandleCmd \/ WireEvent \/ WatchSeat \/ Finished \/ LocalCopy \/ LocalPaste
  PROVE  DataControlTypeOK'
  <1> USE DEF clientVars, compositorVars
  <1>0. /\ current \in Nat \ {None} /\ current # 0
        /\ maker \in Ours \cup {"others"}
        /\ wire \in Seq(Wire) /\ cmds \in Seq(WaylandCmd) /\ events \in Seq(WaylandEvent)
        /\ source \in 0..current /\ offer \in 0..current
        /\ device \in BOOLEAN /\ ignored \in BOOLEAN
        BY DEF DataControlTypeOK, None
  <1>1. ASSUME NEW by \in Ours \cup {"others"}, Replace(by)
        PROVE  /\ current' \in Nat \ {None} /\ maker' \in Ours \cup {"others"}
               /\ wire' \in Seq(Wire) /\ current' = current + 1
    <2>1. current' = current + 1 /\ maker' = by /\ wire' \in Seq(Wire)
          BY <1>1, ReplaceFacts
    <2> QED
        BY <1>0, <2>1 DEF None
  <1>2. ASSUME NEW type, NextCmd(type)
        PROVE  /\ cmds' \in Seq(WaylandCmd) /\ Head(cmds) \in WaylandCmd /\ Head(cmds).type = type
        BY <1>0, <1>2, TailFacts DEF NextCmd
  <1>3. ASSUME NEW type, NextOnWire(type)
        PROVE  /\ wire' \in Seq(Wire) /\ Head(wire) \in Wire
               /\ Head(wire).n \in Nat \ {None} /\ Head(wire).n <= current
    <2>1. wire' \in Seq(Wire) /\ Head(wire) \in Wire /\ Head(wire) = wire[1] /\ 1 \in DOMAIN wire
          BY <1>0, <1>3, TailFacts DEF NextOnWire
    <2> QED
        BY <2>1 DEF WireInv, Wire
  <1>4. ASSUME NEW e \in WaylandEvent PROVE Append(events, e) \in Seq(WaylandEvent)
        BY <1>0, <1>4, AppendFacts
  <1>5. ASSUME NEW m \in Wire PROVE Append(wire, m) \in Seq(Wire)
        BY <1>0, <1>5, AppendFacts
  <1>6. CASE HandleClaim
    <2>1. Head(cmds).by \in Ours
          BY <1>2, <1>6 DEF HandleClaim, WaylandCmd, ClipboardRelease
    <2> QED
        BY <1>0, <1>1, <1>2, <1>6, <2>1 DEF HandleClaim, DataControlTypeOK
  <1>7. CASE HandleRelease
        BY <1>0, <1>1, <1>2, <1>7 DEF HandleRelease, DataControlTypeOK, None
  <1>8. CASE SelectionEvent
    <2>1. /\ wire' \in Seq(Wire) /\ Head(wire).n \in Nat /\ Head(wire).n <= current
          BY <1>3, <1>8 DEF SelectionEvent
    <2>2. ClipboardSelection(Head(wire).n, source # None) \in WaylandEvent
          BY <2>1, MessagesTyped
    <2>3. events' \in Seq(WaylandEvent)
          BY <1>4, <1>8, <2>2 DEF SelectionEvent
    <2> QED
        BY <1>0, <1>8, <2>1, <2>3 DEF SelectionEvent, DataControlTypeOK
  <1>9. CASE SendEvent
        BY <1>0, <1>3, <1>4, <1>9, MessagesTyped DEF SendEvent, DataControlTypeOK, None
  <1>10. CASE CancelledEvent
    <2>1. wire' \in Seq(Wire)
          BY <1>3, <1>10 DEF CancelledEvent
    <2>2. events' \in Seq(WaylandEvent)
          BY <1>0, <1>4, <1>10, MessagesTyped DEF CancelledEvent
    <2>3. source' \in 0..current
          BY <1>0, <1>10 DEF CancelledEvent, None
    <2> QED
        BY <1>0, <1>10, <2>1, <2>2, <2>3 DEF CancelledEvent, DataControlTypeOK
  <1>11. CASE WatchSeat
        BY <1>0, <1>5, <1>11, MessagesTyped DEF WatchSeat, DataControlTypeOK, None
  <1>12. CASE Finished
        BY <1>0, <1>12 DEF Finished, DataControlTypeOK
  <1>13. CASE LocalCopy
        BY <1>0, <1>1, <1>13 DEF LocalCopy, DataControlTypeOK
  <1>14. CASE LocalPaste
        BY <1>0, <1>5, <1>14, MessagesTyped DEF LocalPaste, DataControlTypeOK, None
  <1> QED
      BY <1>6, <1>7, <1>8, <1>9, <1>10, <1>11, <1>12, <1>13, <1>14 DEF HandleCmd, WireEvent

LEMMA CallsTyped ==
  /\ Idle \in Call
  /\ [at |-> "release"] \in Call /\ [at |-> "disown"] \in Call /\ [at |-> "read"] \in Call
  /\ \A s \in Session : /\ [at |-> "own", session |-> s] \in Call
                        /\ [at |-> "claim", session |-> s] \in Call
                        /\ [at |-> "check", session |-> s] \in Call
  /\ \A c \in Call : c.at \in {"own", "claim", "check"} => c.session \in Session
  BY DEF Call, Idle

LEMMA PumpTyped ==
  ASSUME pump \in Pump
  PROVE  /\ pump.at \in {"idle", "list", "tell"}
         /\ pump.at = "idle" <=> pump = Idle
         /\ pump.at # "idle" => pump.news \in News
         /\ pump.at = "tell" => pump.to \subseteq Session
         /\ Idle \in Pump
         /\ \A n \in Nat, b \in BOOLEAN :
               [at |-> "list", news |-> [mime_types |-> n, is_ours |-> b]] \in Pump
         /\ \A news \in News, to \in SUBSET Session : Telling(news, to) \in Pump
  BY DEF Pump, Idle, News, Telling

----------------------------------------------------------------------------
(* The parked transfers.                                                    *)

LEMMA OrderedTail ==
  ASSUME NEW o, NEW D, NEW n, Ordered(o, D, n), o # <<>>
  PROVE  Ordered(Tail(o), D \ {Head(o)}, n)
  <1> DEFINE t == Tail(o)
  <1>1. o \in Seq(Nat)
        BY DEF Ordered
  <1>2. /\ t \in Seq(Nat) /\ DOMAIN o = 1..Len(o) /\ Len(o) \in Nat /\ 1 \in DOMAIN o
        /\ DOMAIN t = 1..(Len(o) - 1)
        /\ \A i \in DOMAIN t : i + 1 \in DOMAIN o /\ t[i] = o[i + 1]
        /\ \A i \in DOMAIN o : i # 1 => i - 1 \in DOMAIN t /\ t[i - 1] = o[i]
        /\ Head(o) = o[1]
        BY <1>1, TailFacts
  <1> HIDE DEF t
  <1>3. \A i \in DOMAIN o : o[i] \in Nat
        BY <1>1
  <1>4. \A i, j \in DOMAIN t : i < j => t[i] < t[j]
    <2> SUFFICES ASSUME NEW i \in DOMAIN t, NEW j \in DOMAIN t, i < j PROVE t[i] < t[j]
        OBVIOUS
    <2>1. i + 1 < j + 1 /\ i + 1 \in DOMAIN o /\ j + 1 \in DOMAIN o
          BY <1>2
    <2> QED
        BY <1>2, <2>1 DEF Ordered
  <1>5. \A i \in DOMAIN o : i # 1 => o[i] # o[1]
    <2> SUFFICES ASSUME NEW i \in DOMAIN o, i # 1 PROVE o[1] < o[i]
        BY <1>2, <1>3
    <2>1. 1 < i
          BY <1>2
    <2> QED
        BY <1>2, <2>1 DEF Ordered
  <1>6. D = {o[i] : i \in DOMAIN o}
        BY DEF Ordered
  <1>7. D \ {o[1]} \subseteq {t[i] : i \in DOMAIN t}
    <2> SUFFICES ASSUME NEW d \in D, d # o[1] PROVE \E i \in DOMAIN t : t[i] = d
        OBVIOUS
    <2>1. PICK i \in DOMAIN o : o[i] = d
          BY <1>6
    <2>2. i - 1 \in DOMAIN t /\ t[i - 1] = d
          BY <1>2, <2>1
    <2> QED
        BY <2>2
  <1>8. {t[i] : i \in DOMAIN t} \subseteq D \ {o[1]}
    <2> SUFFICES ASSUME NEW i \in DOMAIN t PROVE t[i] \in D /\ t[i] # o[1]
        OBVIOUS
    <2>1. i + 1 \in DOMAIN o /\ i + 1 # 1 /\ t[i] = o[i + 1]
          BY <1>2
    <2> QED
        BY <1>5, <1>6, <2>1
  <1>9. \A i \in DOMAIN t : t[i] # 0 /\ t[i] <= n
        BY <1>2 DEF Ordered
  <1> QED
      BY <1>2, <1>4, <1>7, <1>8, <1>9 DEF Ordered, t

LEMMA OrderedAppend ==
  ASSUME NEW o, NEW D, NEW n \in Nat, Ordered(o, D, n)
  PROVE  Ordered(Append(o, n + 1), D \cup {n + 1}, n + 1)
  <1> DEFINE a == Append(o, n + 1)
  <1>1. /\ a \in Seq(Nat) /\ DOMAIN o = 1..Len(o) /\ Len(o) \in Nat
        /\ DOMAIN a = 1..(Len(o) + 1)
        /\ \A i \in DOMAIN o : a[i] = o[i]
        /\ a[Len(o) + 1] = n + 1
        BY AppendFacts DEF Ordered
  <1>2. \A i \in DOMAIN o : o[i] \in Nat /\ o[i] # 0 /\ o[i] <= n
        BY DEF Ordered
  <1> HIDE DEF a
  <1>3. {a[i] : i \in DOMAIN a} = D \cup {n + 1}
    <2>1. D = {o[i] : i \in DOMAIN o}
          BY DEF Ordered
    <2> QED
        BY <1>1, <2>1
  <1>4. \A i \in DOMAIN a : a[i] # 0 /\ a[i] <= n + 1
    <2> SUFFICES ASSUME NEW i \in DOMAIN a PROVE a[i] # 0 /\ a[i] <= n + 1
        OBVIOUS
    <2>1. i \in DOMAIN o \/ i = Len(o) + 1
          BY <1>1
    <2> QED
        BY <1>1, <1>2, <2>1
  <1>5. \A i, j \in DOMAIN a : i < j => a[i] < a[j]
    <2> SUFFICES ASSUME NEW i \in DOMAIN a, NEW j \in DOMAIN a, i < j PROVE a[i] < a[j]
        OBVIOUS
    <2>1. i \in DOMAIN o /\ (j \in DOMAIN o \/ j = Len(o) + 1)
          BY <1>1
    <2>2. j \in DOMAIN o => o[i] < o[j]
          BY <2>1 DEF Ordered
    <2> QED
        BY <1>1, <1>2, <2>1, <2>2
  <1> QED
      BY <1>1, <1>3, <1>4, <1>5 DEF Ordered, a

\* RemoveAt, by position.
LEMMA RemoveAtFacts ==
  ASSUME NEW T, NEW s \in Seq(T), NEW k \in DOMAIN s
  PROVE  /\ RemoveAt(s, k) \in Seq(T)
         /\ DOMAIN s = 1..Len(s) /\ Len(s) \in Nat
         /\ DOMAIN RemoveAt(s, k) = 1..(Len(s) - 1)
         /\ \A i \in 1..(Len(s) - 1) :
               RemoveAt(s, k)[i] = IF i < k THEN s[i] ELSE s[i + 1]
  <1> DEFINE a == SubSeq(s, 1, k - 1)
             b == SubSeq(s, k + 1, Len(s))
  <1>1. DOMAIN s = 1..Len(s) /\ Len(s) \in Nat /\ k \in 1..Len(s)
        OBVIOUS
  <1>2. a \in Seq(T) /\ Len(a) = k - 1 /\ \A i \in 1..(k - 1) : a[i] = s[i]
        BY <1>1
  <1>3. b \in Seq(T) /\ Len(b) = Len(s) - k /\ \A i \in 1..(Len(s) - k) : b[i] = s[k + i]
        BY <1>1
  <1>4. RemoveAt(s, k) = a \o b
        BY DEF RemoveAt
  <1> HIDE DEF a, b
  <1>5. /\ a \o b \in Seq(T) /\ Len(a \o b) = Len(s) - 1
        /\ \A i \in 1..(Len(s) - 1) : (a \o b)[i] = IF i < k THEN a[i] ELSE b[i - (k - 1)]
    <2>1. /\ a \o b \in Seq(T) /\ Len(a \o b) = Len(a) + Len(b)
          /\ \A i \in 1 .. Len(a) + Len(b) :
                (a \o b)[i] = IF i <= Len(a) THEN a[i] ELSE b[i - Len(a)]
          BY <1>2, <1>3, ConcatProperties
    <2>2. Len(a) + Len(b) = Len(s) - 1 /\ \A i \in Nat : i <= Len(a) <=> i < k
          BY <1>1, <1>2, <1>3
    <2>3. Len(a \o b) = Len(s) - 1 /\ Len(a) = k - 1
          BY <1>2, <2>1, <2>2
    <2>4. ASSUME NEW i \in 1..(Len(s) - 1)
          PROVE  (a \o b)[i] = IF i < k THEN a[i] ELSE b[i - (k - 1)]
      <3>1. i \in 1 .. Len(a) + Len(b) /\ i \in Nat
            BY <1>1, <2>2
      <3> QED
          BY <2>1, <2>2, <2>3, <3>1
    <2> QED
        BY <2>1, <2>3, <2>4
  <1>6. \A i \in 1..(Len(s) - 1) : i >= k =>
           i - (k - 1) \in 1..(Len(s) - k) /\ k + (i - (k - 1)) = i + 1
        BY <1>1
  <1>7. \A i \in 1..(Len(s) - 1) : i >= k => b[i - (k - 1)] = s[i + 1]
        BY <1>3, <1>6
  <1>8. \A i \in 1..(Len(s) - 1) : i < k => a[i] = s[i]
        BY <1>1, <1>2
  <1>9. \A i \in 1..(Len(s) - 1) : (a \o b)[i] = IF i < k THEN s[i] ELSE s[i + 1]
        BY <1>1, <1>5, <1>7, <1>8
  <1>10. DOMAIN (a \o b) = 1..(Len(s) - 1)
         BY <1>5
  <1> QED
      BY <1>1, <1>4, <1>5, <1>9, <1>10

LEMMA OrderedRemove ==
  ASSUME NEW o, NEW D, NEW n, Ordered(o, D, n), NEW k \in DOMAIN o
  PROVE  Ordered(RemoveAt(o, k), D \ {o[k]}, n)
  <1> DEFINE t == RemoveAt(o, k)
             at(i) == IF i < k THEN i ELSE i + 1
  <1>1. o \in Seq(Nat) /\ D = {o[i] : i \in DOMAIN o}
        BY DEF Ordered
  <1>2. /\ t \in Seq(Nat) /\ DOMAIN o = 1..Len(o) /\ Len(o) \in Nat /\ k \in 1..Len(o)
        /\ DOMAIN t = 1..(Len(o) - 1)
        /\ \A i \in DOMAIN t : at(i) \in DOMAIN o /\ at(i) # k /\ t[i] = o[at(i)]
    <2>1. /\ t \in Seq(Nat) /\ DOMAIN o = 1..Len(o) /\ Len(o) \in Nat
          /\ DOMAIN t = 1..(Len(o) - 1)
          /\ \A i \in 1..(Len(o) - 1) : t[i] = IF i < k THEN o[i] ELSE o[i + 1]
          BY <1>1, RemoveAtFacts
    <2> HIDE DEF t
    <2> QED
        BY <2>1
  <1>3. \A i, j \in DOMAIN t : i < j => at(i) < at(j)
        BY <1>2
  <1>4. \A i \in DOMAIN o : i # k => \E j \in DOMAIN t : at(j) = i
    <2> SUFFICES ASSUME NEW i \in DOMAIN o, i # k PROVE \E j \in DOMAIN t : at(j) = i
        OBVIOUS
    <2>1. CASE i < k
      <3>1. i \in DOMAIN t /\ at(i) = i
            BY <1>2, <2>1
      <3> QED
          BY <3>1
    <2>2. CASE i > k
      <3>1. i - 1 \in DOMAIN t /\ at(i - 1) = i
            BY <1>2, <2>2
      <3> QED
          BY <3>1
    <2> QED
        BY <1>2, <2>1, <2>2
  <1> HIDE DEF t, at
  <1>5. \A i \in DOMAIN o : o[i] \in Nat
        BY <1>1
  <1>6. \A i, j \in DOMAIN t : i < j => t[i] < t[j]
        BY <1>2, <1>3 DEF Ordered
  <1>7. \A i \in DOMAIN o : i # k => o[i] # o[k]
    <2> SUFFICES ASSUME NEW i \in DOMAIN o, i # k PROVE o[i] # o[k]
        OBVIOUS
    <2>1. (i < k => o[i] < o[k]) /\ (k < i => o[k] < o[i])
          BY DEF Ordered
    <2> QED
        BY <1>2, <1>5, <2>1
  <1>8. {t[i] : i \in DOMAIN t} = D \ {o[k]}
    <2>1. ASSUME NEW d \in D, d # o[k] PROVE \E i \in DOMAIN t : t[i] = d
      <3>1. PICK i \in DOMAIN o : o[i] = d
            BY <1>1
      <3>2. PICK j \in DOMAIN t : at(j) = i
            BY <1>4, <2>1, <3>1
      <3> QED
          BY <1>2, <3>1, <3>2
    <2>2. ASSUME NEW i \in DOMAIN t PROVE t[i] \in D /\ t[i] # o[k]
          BY <1>1, <1>2, <1>7
    <2> QED
        BY <2>1, <2>2
  <1>9. \A i \in DOMAIN t : t[i] # 0 /\ t[i] <= n
        BY <1>2 DEF Ordered
  <1> QED
      BY <1>2, <1>6, <1>8, <1>9 DEF Ordered, t

LEMMA TransferFacts ==
  ASSUME TransferInv
  PROVE  /\ MAX_PENDING_TRANSFERS \in Nat /\ MAX_PENDING_TRANSFERS > 0
         /\ order \in Seq(Nat) /\ Len(order) \in Nat /\ Len(order) <= MAX_PENDING_TRANSFERS
         /\ next_serial \in Nat
         /\ DOMAIN transfers = {order[i] : i \in DOMAIN order}
         /\ \A n \in DOMAIN transfers : transfers[n] \in Nat \ {None}
  <1>1. Ordered(order, DOMAIN transfers, next_serial)
        BY DEF TransferInv
  <1>2. order \in Seq(Nat) /\ DOMAIN transfers = {order[i] : i \in DOMAIN order}
        BY <1>1 DEF Ordered
  <1>3. Len(order) \in Nat
        BY <1>2
  <1>4. \A n \in DOMAIN transfers : transfers[n] \in Nat \ {None}
        BY DEF TransferInv
  <1>5. Len(order) <= MAX_PENDING_TRANSFERS /\ next_serial \in Nat
        BY DEF TransferInv
  <1>6. MAX_PENDING_TRANSFERS \in Nat /\ MAX_PENDING_TRANSFERS > 0
    <2>1. MAX_PENDING_TRANSFERS \in Nat \ {0}
          BY ClipboardAssumption
    <2> QED
        BY <2>1
  <1> QED
      BY <1>2, <1>3, <1>4, <1>5, <1>6

LEMMA ParkKeeps ==
  ASSUME TransferInv, NEW fd \in Nat \ {None}, BeginTransfer(fd)
  PROVE  TransferInv'
  <1> DEFINE serial == next_serial + 1
  <1>0. /\ MAX_PENDING_TRANSFERS \in Nat /\ MAX_PENDING_TRANSFERS > 0
        /\ order \in Seq(Nat) /\ Len(order) \in Nat /\ Len(order) <= MAX_PENDING_TRANSFERS
        /\ next_serial \in Nat /\ next_serial' = serial
        /\ \A n \in DOMAIN transfers : transfers[n] \in Nat \ {None}
        BY TransferFacts DEF BeginTransfer
  <1>1. CASE Len(order) < MAX_PENDING_TRANSFERS
    <2>1. /\ order' = Append(order, serial)
          /\ transfers' = [n \in DOMAIN transfers \cup {serial} |->
                              IF n = serial THEN fd ELSE transfers[n]]
          BY <1>1 DEF BeginTransfer
    <2>2. Ordered(order', DOMAIN transfers', next_serial')
          BY <1>0, <2>1, OrderedAppend DEF TransferInv
    <2>3. transfers' \in [DOMAIN transfers' -> Nat \ {None}]
          BY <1>0, <2>1
    <2>4. Len(order') <= MAX_PENDING_TRANSFERS
          BY <1>0, <1>1, <2>1
    <2> QED
        BY <1>0, <2>2, <2>3, <2>4 DEF TransferInv
  <1>2. CASE ~(Len(order) < MAX_PENDING_TRANSFERS)
    <2>1. /\ order' = Append(Tail(order), serial)
          /\ transfers' = [n \in (DOMAIN transfers \cup {serial}) \ {Head(order)} |->
                              IF n = serial THEN fd ELSE transfers[n]]
          BY <1>2 DEF BeginTransfer
    <2>2. order # <<>> /\ Tail(order) \in Seq(Nat) /\ Len(Tail(order)) = Len(order) - 1
          BY <1>0, <1>2
    <2>3. Head(order) # serial
      <3>1. 1 \in DOMAIN order /\ Head(order) = order[1]
            BY <1>0, <2>2
      <3> QED
          BY <1>0, <3>1 DEF TransferInv, Ordered
    <2>4. Ordered(Tail(order), DOMAIN transfers \ {Head(order)}, next_serial)
          BY <2>2, OrderedTail DEF TransferInv
    <2>5. Ordered(order', (DOMAIN transfers \ {Head(order)}) \cup {serial}, serial)
          BY <1>0, <2>1, <2>4, OrderedAppend
    <2>6. DOMAIN transfers' = (DOMAIN transfers \ {Head(order)}) \cup {serial}
          BY <2>1, <2>3
    <2>7. transfers' \in [DOMAIN transfers' -> Nat \ {None}]
          BY <1>0, <2>1
    <2>8. Len(order') <= MAX_PENDING_TRANSFERS
          BY <1>0, <2>1, <2>2
    <2> QED
        BY <1>0, <2>5, <2>6, <2>7, <2>8 DEF TransferInv
  <1> QED
      BY <1>1, <1>2

LEMMA TakeKeeps ==
  ASSUME TransferInv, NEW serial \in Nat, TakeTransfer(serial), next_serial' = next_serial
  PROVE  TransferInv'
  <1>0. /\ order \in Seq(Nat) /\ Len(order) \in Nat /\ Len(order) <= MAX_PENDING_TRANSFERS
        /\ MAX_PENDING_TRANSFERS \in Nat
        /\ DOMAIN transfers = {order[i] : i \in DOMAIN order}
        /\ \A n \in DOMAIN transfers : transfers[n] \in Nat \ {None}
        BY TransferFacts
  <1>1. /\ DOMAIN transfers' = DOMAIN transfers \ {serial}
        /\ transfers' \in [DOMAIN transfers' -> Nat \ {None}]
        BY <1>0 DEF TakeTransfer
  <1>2. CASE serial \in DOMAIN transfers
    <2>1. PICK k \in DOMAIN order : order[k] = serial /\ order' = RemoveAt(order, k)
      <3>1. \E i \in DOMAIN order : order[i] = serial
            BY <1>0, <1>2
      <3> QED
          BY <3>1 DEF TakeTransfer
    <2>2. Ordered(order', DOMAIN transfers', next_serial')
          BY <1>1, <2>1, OrderedRemove DEF TransferInv
    <2>3. Len(order') = Len(order) - 1
          BY <1>0, <2>1, RemoveAtFacts
    <2> QED
        BY <1>0, <1>1, <2>2, <2>3 DEF TransferInv
  <1>3. CASE serial \notin DOMAIN transfers
    <2>1. order' = order
          BY <1>0, <1>3 DEF TakeTransfer
    <2> QED
        BY <1>1, <1>3, <2>1 DEF TransferInv
  <1> QED
      BY <1>2, <1>3

LEMMA ClearKeeps ==
  ASSUME TransferInv, ClearTransfers, next_serial' = next_serial
  PROVE  TransferInv'
  <1>1. order' = <<>> /\ DOMAIN transfers' = {} /\ transfers' \in [{} -> Nat \ {None}]
        BY DEF ClearTransfers
  <1>2. Ordered(<<>>, {}, next_serial)
        BY DEF Ordered
  <1>3. next_serial' \in Nat /\ Len(<<>>) <= MAX_PENDING_TRANSFERS
        BY TransferFacts
  <1> QED
      BY <1>1, <1>2, <1>3 DEF TransferInv

----------------------------------------------------------------------------
(* The tracker implements PendingPastes.                                    *)

\* The pipes parked under the serials of o, in order: what PendingPastes calls
\* waiting.
Pipe == [serial : Nat, fd : Nat \ {None}]
Pipes(o, tr) == [i \in DOMAIN o |-> [serial |-> o[i], fd |-> tr[o[i]]]]

LEMMA FunctionIsSequence ==
  ASSUME NEW S, NEW m \in Nat, NEW f \in [1..m -> S]
  PROVE  f \in Seq(S) /\ Len(f) = m
  <1>1. f \in Seq(S)
        OBVIOUS
  <1>2. Len(f) = m
        BY <1>1
  <1> QED
      BY <1>1, <1>2

LEMMA PipesFacts ==
  ASSUME NEW o, NEW tr, NEW n, Ordered(o, DOMAIN tr, n), tr \in [DOMAIN tr -> Nat \ {None}]
  PROVE  /\ Pipes(o, tr) \in Seq(Pipe)
         /\ Len(Pipes(o, tr)) = Len(o) /\ DOMAIN o = 1..Len(o) /\ Len(o) \in Nat
         /\ \A i \in DOMAIN o : /\ Pipes(o, tr)[i] = [serial |-> o[i], fd |-> tr[o[i]]]
                                /\ o[i] \in DOMAIN tr /\ o[i] \in Nat /\ o[i] <= n
  <1>1. o \in Seq(Nat) /\ DOMAIN o = 1..Len(o) /\ Len(o) \in Nat
        BY DEF Ordered
  <1>2. \A i \in DOMAIN o : o[i] \in DOMAIN tr /\ o[i] \in Nat /\ o[i] <= n
        BY DEF Ordered
  <1>3. \A i \in 1..Len(o) : [serial |-> o[i], fd |-> tr[o[i]]] \in Pipe
        BY <1>1, <1>2 DEF Pipe
  <1>4. Pipes(o, tr) \in [1..Len(o) -> Pipe]
        BY <1>1, <1>3 DEF Pipes
  <1>5. Pipes(o, tr) \in Seq(Pipe) /\ Len(Pipes(o, tr)) = Len(o)
        BY <1>1, <1>4, FunctionIsSequence
  <1> QED
      BY <1>1, <1>2, <1>5 DEF Pipes

LEMMA ParkIsWait ==
  ASSUME TransferInv, NEW fd \in Nat \ {None}, BeginTransfer(fd)
  PROVE  Pending!Wait
  <1> DEFINE serial == next_serial + 1
             P == Pipe
             w == Pipes(order, transfers)
             v == Pipes(order', transfers')
             kept == IF Len(order) < MAX_PENDING_TRANSFERS THEN order ELSE Tail(order)
             left == IF Len(w) < MAX_PENDING_TRANSFERS THEN w ELSE Tail(w)
  <1>1. TransferInv'
        BY ParkKeeps
  <1>2. /\ w \in Seq(P) /\ Len(w) = Len(order) /\ DOMAIN order = 1..Len(order)
        /\ Len(order) \in Nat
        /\ \A i \in DOMAIN order : /\ w[i] = [serial |-> order[i], fd |-> transfers[order[i]]]
                                   /\ order[i] \in DOMAIN transfers /\ order[i] # serial
        BY TransferFacts, PipesFacts DEF TransferInv
  <1>3. /\ v \in Seq(P) /\ Len(v) = Len(order') /\ DOMAIN order' = 1..Len(order')
        /\ \A i \in DOMAIN order' : /\ v[i] = [serial |-> order'[i], fd |-> transfers'[order'[i]]]
                                    /\ order'[i] \in DOMAIN transfers'
        BY <1>1, PipesFacts DEF TransferInv
  <1>4. /\ order' = Append(kept, serial)
        /\ \A n \in DOMAIN transfers' : n # serial => transfers'[n] = transfers[n]
        BY DEF BeginTransfer
  <1>5. Len(order) >= MAX_PENDING_TRANSFERS => order # <<>> /\ w # <<>>
        BY <1>2, TransferFacts
  <1>6. /\ kept \in Seq(Nat) /\ left \in Seq(P) /\ Len(kept) = Len(left) /\ Len(kept) \in Nat
        /\ \A i \in 1..Len(kept) : left[i] = [serial |-> kept[i], fd |-> transfers[kept[i]]] /\ kept[i] # serial
    <2>1. CASE Len(order) < MAX_PENDING_TRANSFERS
          BY <1>2, <2>1, TransferFacts
    <2>2. CASE ~(Len(order) < MAX_PENDING_TRANSFERS)
      <3>1. order # <<>> /\ w # <<>> /\ kept = Tail(order) /\ left = Tail(w)
            BY <1>2, <1>5, <2>2, TransferFacts
      <3>2. /\ Tail(order) \in Seq(Nat) /\ DOMAIN Tail(order) = 1..(Len(order) - 1)
            /\ \A i \in DOMAIN Tail(order) : i + 1 \in DOMAIN order /\ Tail(order)[i] = order[i + 1]
            BY <1>2, <3>1, TransferFacts, TailFacts
      <3>3. /\ Tail(w) \in Seq(P) /\ DOMAIN Tail(w) = 1..(Len(w) - 1)
            /\ \A i \in DOMAIN Tail(w) : Tail(w)[i] = w[i + 1]
            BY <1>2, <3>1, TailFacts
      <3>4. Len(Tail(order)) = Len(order) - 1 /\ Len(Tail(w)) = Len(w) - 1
            BY <1>2, <3>1, TransferFacts
      <3> HIDE DEF kept, left, w, serial
      <3>5. ASSUME NEW i \in 1..Len(kept)
            PROVE  left[i] = [serial |-> kept[i], fd |-> transfers[kept[i]]] /\ kept[i] # serial
        <4>1. i \in DOMAIN Tail(order) /\ i \in DOMAIN Tail(w)
              BY <1>2, <3>1, <3>2, <3>3, <3>4
        <4>2. i + 1 \in DOMAIN order /\ kept[i] = order[i + 1] /\ left[i] = w[i + 1]
              BY <3>1, <3>2, <3>3, <4>1
        <4> QED
            BY <1>2, <4>2
      <3> QED
          BY <1>2, <3>1, <3>2, <3>3, <3>4, <3>5
    <2> QED
        BY <2>1, <2>2
  <1> HIDE DEF kept, left, w, v, serial
  <1>7. /\ Len(order') = Len(left) + 1 /\ Len(left) \in Nat
        /\ \A i \in 1..Len(left) : order'[i] = kept[i]
        BY <1>4, <1>6
  <1>8. \A i \in 1..Len(left) : v[i] = left[i]
    <2> SUFFICES ASSUME NEW i \in 1..Len(left) PROVE v[i] = left[i]
        OBVIOUS
    <2>1. i \in DOMAIN order' /\ order'[i] = kept[i]
          BY <1>3, <1>7
    <2>2. v[i] = [serial |-> kept[i], fd |-> transfers'[kept[i]]] /\ kept[i] \in DOMAIN transfers'
          BY <1>3, <2>1
    <2>3. left[i] = [serial |-> kept[i], fd |-> transfers[kept[i]]] /\ kept[i] # serial
          BY <1>6
    <2> QED
        BY <1>4, <2>2, <2>3
  <1>9. v # <<>> /\ Last(v) \in P /\ Len(v) = Len(left) + 1
        BY <1>3, <1>7 DEF Last
  <1>10. Front(v) = left
    <2>1. /\ Front(v) \in Seq(P) /\ Len(Front(v)) = Len(left)
          /\ \A i \in 1..Len(left) : Front(v)[i] = v[i]
          BY <1>3, <1>7, <1>9 DEF Front
    <2> QED
        BY <1>6, <1>8, <2>1, SeqEqual
  <1> QED
      BY <1>9, <1>10
      DEF Pending!Wait, Pending!Last, Pending!Front, Last, Front, Pipe, Pipes, left, w, v

LEMMA TakeIsAnswer ==
  ASSUME TransferInv, NEW serial \in Nat, TakeTransfer(serial), next_serial' = next_serial
  PROVE  [Pending!Next]_(Pipes(order, transfers))
  <1> DEFINE P == Pipe
             w == Pipes(order, transfers)
             v == Pipes(order', transfers')
  <1>1. TransferInv'
        BY TakeKeeps
  <1>2. /\ w \in Seq(P) /\ Len(w) = Len(order) /\ DOMAIN order = 1..Len(order)
        /\ Len(order) \in Nat
        /\ \A i \in DOMAIN order : /\ w[i] = [serial |-> order[i], fd |-> transfers[order[i]]]
                                   /\ order[i] \in DOMAIN transfers
        BY PipesFacts DEF TransferInv
  <1>3. /\ v \in Seq(P) /\ Len(v) = Len(order') /\ DOMAIN order' = 1..Len(order')
        /\ \A i \in DOMAIN order' : /\ v[i] = [serial |-> order'[i], fd |-> transfers'[order'[i]]]
                                    /\ order'[i] \in DOMAIN transfers'
        BY <1>1, PipesFacts DEF TransferInv
  <1>4. transfers' = [n \in DOMAIN transfers \ {serial} |-> transfers[n]]
        BY DEF TakeTransfer
  <1>5. CASE \E i \in DOMAIN order : order[i] = serial
    <2>1. PICK k \in DOMAIN order : order[k] = serial /\ order' = RemoveAt(order, k)
          BY <1>5 DEF TakeTransfer
    <2>2. /\ DOMAIN order' = 1..(Len(order) - 1)
          /\ \A i \in 1..(Len(order) - 1) :
                order'[i] = IF i < k THEN order[i] ELSE order[i + 1]
          BY <2>1, RemoveAtFacts, TransferFacts
    <2>3. /\ RemoveAt(w, k) \in Seq(P) /\ k \in DOMAIN w
          /\ DOMAIN RemoveAt(w, k) = 1..(Len(w) - 1)
          /\ \A i \in 1..(Len(w) - 1) : RemoveAt(w, k)[i] = IF i < k THEN w[i] ELSE w[i + 1]
      <3>1. k \in DOMAIN w
            BY <1>2, <2>1
      <3> HIDE DEF w
      <3> QED
          BY <1>2, <3>1, RemoveAtFacts
    <2> HIDE DEF w, v
    <2>4. ASSUME NEW i \in 1..(Len(order) - 1) PROVE v[i] = RemoveAt(w, k)[i]
      <3>1. v[i] = [serial |-> order'[i], fd |-> transfers[order'[i]]] /\ i \in 1..(Len(w) - 1)
            BY <1>2, <1>3, <1>4, <2>2
      <3>2. i \in DOMAIN order /\ i + 1 \in DOMAIN order
            BY <1>2
      <3> QED
          BY <1>2, <2>2, <2>3, <3>1, <3>2
    <2>5. v = RemoveAt(w, k)
      <3>1. Len(v) = Len(order) - 1 /\ Len(RemoveAt(w, k)) = Len(order) - 1
            BY <1>2, <1>3, <2>2, <2>3
      <3> QED
          BY <1>3, <2>3, <2>4, <3>1, SeqEqual
    <2>6. Pending!Answer(k)
          BY <2>5 DEF Pending!Answer, Pending!RemoveAt, RemoveAt, w, v, Pipes
    <2> QED
        BY <2>3, <2>6 DEF Pending!Next, w, Pipes
  <1>6. CASE ~\E i \in DOMAIN order : order[i] = serial
    <2>1. order' = order
          BY <1>6 DEF TakeTransfer
    <2>2. \A i \in DOMAIN order : transfers'[order[i]] = transfers[order[i]]
          BY <1>2, <1>4, <1>6
    <2> QED
        BY <2>1, <2>2 DEF Pipes
  <1> QED
      BY <1>5, <1>6

LEMMA ClearIsGiveUp ==
  ASSUME ClearTransfers
  PROVE  Pending!GiveUp
  BY DEF ClearTransfers, Pending!GiveUp

----------------------------------------------------------------------------
(* Calls and the commands they send.                                        *)

\* Appending to the commands, for a call that was not waiting for a reply.
LEMMA MoreCmds ==
  ASSUME cmds \in Seq(WaylandCmd), tasks \in [Task -> Call], ReadInv,
         NEW m \in WaylandCmd, cmds' = Append(cmds, m),
         NEW t \in Task, NEW call \in Call, tasks[t].at # "read",
         tasks' = [tasks EXCEPT ![t] = call],
         m.type = "Read" => m.reply = t /\ call.at = "read"
  PROVE  cmds' \in Seq(WaylandCmd) /\ tasks' \in [Task -> Call] /\ ReadInv'
  <1>1. /\ cmds' \in Seq(WaylandCmd) /\ DOMAIN cmds = 1..Len(cmds) /\ Len(cmds) \in Nat
        /\ DOMAIN cmds' = 1..(Len(cmds) + 1)
        /\ \A i \in DOMAIN cmds : cmds'[i] = cmds[i]
        /\ cmds'[Len(cmds) + 1] = m
        BY AppendFacts
  <1>2. \A i \in DOMAIN cmds' : i \in DOMAIN cmds \/ i = Len(cmds) + 1
        BY <1>1
  <1>3. \A i \in DOMAIN cmds : cmds[i].type = "Read" => cmds[i].reply # t
        BY DEF ReadInv
  <1>4. \A u \in Task : u # t => tasks'[u] = tasks[u]
        OBVIOUS
  <1>5. tasks'[t] = call
        OBVIOUS
  <1>6. \A i \in DOMAIN cmds : cmds[i].type = "Read" => cmds[i].reply \in Task
        BY DEF WaylandCmd, ClipboardClaim, ClipboardRelease
  <1>7. \A i \in DOMAIN cmds' : cmds'[i].type = "Read" => tasks'[cmds'[i].reply].at = "read"
        BY <1>1, <1>2, <1>3, <1>4, <1>5, <1>6 DEF ReadInv
  <1>8. ASSUME NEW i \in DOMAIN cmds', NEW j \in DOMAIN cmds',
               cmds'[i].type = "Read", cmds'[j].type = "Read", cmds'[i].reply = cmds'[j].reply
        PROVE  i = j
    <2>1. CASE i \in DOMAIN cmds /\ j \in DOMAIN cmds
          BY <1>1, <1>8, <2>1 DEF ReadInv
    <2>2. CASE i = Len(cmds) + 1 \/ j = Len(cmds) + 1
          BY <1>1, <1>2, <1>3, <1>8, <2>2
    <2> QED
        BY <1>2, <2>1, <2>2
  <1> QED
      BY <1>1, <1>7, <1>8 DEF ReadInv

LEMMA FewerCmds ==
  ASSUME cmds \in Seq(WaylandCmd), tasks \in [Task -> Call], ReadInv, cmds # <<>>,
         cmds' = Tail(cmds),
         \/ tasks' = tasks /\ Head(cmds).type # "Read"
         \/ /\ Head(cmds).type = "Read"
            /\ tasks' = [tasks EXCEPT ![Head(cmds).reply] = Idle]
  PROVE  cmds' \in Seq(WaylandCmd) /\ tasks' \in [Task -> Call] /\ ReadInv'
  <1>1. /\ cmds' \in Seq(WaylandCmd) /\ 1 \in DOMAIN cmds /\ DOMAIN cmds = 1..Len(cmds)
        /\ DOMAIN cmds' = 1..(Len(cmds) - 1)
        /\ \A i \in DOMAIN cmds' : i + 1 \in DOMAIN cmds /\ cmds'[i] = cmds[i + 1]
        /\ Head(cmds) = cmds[1]
        BY TailFacts
  <1>2. tasks' \in [Task -> Call]
        BY CallsTyped
  <1>3. \A i \in DOMAIN cmds : cmds[i].type = "Read" => cmds[i].reply \in Task
        BY DEF WaylandCmd, ClipboardClaim, ClipboardRelease
  <1>4. \A i \in DOMAIN cmds' : i + 1 # 1
        BY <1>1
  <1>5. ASSUME NEW i \in DOMAIN cmds', cmds'[i].type = "Read"
        PROVE  tasks'[cmds'[i].reply].at = "read"
    <2>1. /\ i + 1 \in DOMAIN cmds /\ cmds'[i] = cmds[i + 1] /\ i + 1 # 1
          /\ cmds[i + 1].reply \in Task /\ tasks[cmds[i + 1].reply].at = "read"
          BY <1>1, <1>3, <1>4, <1>5 DEF ReadInv
    <2>2. Head(cmds).type = "Read" => cmds[i + 1].reply # Head(cmds).reply
          BY <1>1, <1>5, <2>1 DEF ReadInv
    <2> QED
        BY <2>1, <2>2
  <1>6. ASSUME NEW i \in DOMAIN cmds', NEW j \in DOMAIN cmds',
               cmds'[i].type = "Read", cmds'[j].type = "Read", cmds'[i].reply = cmds'[j].reply
        PROVE  i = j
    <2>1. i + 1 = j + 1
          BY <1>1, <1>6 DEF ReadInv
    <2>2. i \in Nat /\ j \in Nat
          BY <1>1
    <2> QED
        BY <2>1, <2>2
  <1> QED
      BY <1>1, <1>2, <1>5, <1>6 DEF ReadInv

\* A call that has nothing to do with the commands.
LEMMA SameCmds ==
  ASSUME tasks \in [Task -> Call], ReadInv, cmds' = cmds,
         NEW t \in Task, NEW call \in Call, tasks[t].at # "read",
         tasks' = [tasks EXCEPT ![t] = call]
  PROVE  tasks' \in [Task -> Call] /\ ReadInv'
  <1>1. \A u \in Task : tasks[u].at = "read" => tasks'[u] = tasks[u]
        OBVIOUS
  <1>2. \A i \in DOMAIN cmds : cmds[i].type = "Read" => tasks'[cmds[i].reply].at = "read"
    <2> SUFFICES ASSUME NEW i \in DOMAIN cmds, cmds[i].type = "Read"
                 PROVE  tasks'[cmds[i].reply].at = "read"
        OBVIOUS
    <2>1. tasks[cmds[i].reply].at = "read"
          BY DEF ReadInv
    <2>2. cmds[i].reply # t
          BY <2>1
    <2> QED
        BY <2>1, <2>2
  <1> QED
      BY <1>2 DEF ReadInv

\* What the types say of the portal's half.
PortalTypes ==
    /\ access \in [Session -> {"absent", "plain", "clipboard"}]
    /\ mime_types \in Nat
    /\ owner_session \in Session \cup {NoOwner}
    /\ tasks \in [Task -> Call]
    /\ pump \in Pump
    /\ told \in [Session -> News]
    /\ overtaken \in BOOLEAN

LEMMA TypesFromParts ==
  ASSUME DataControlTypeOK, PortalTypes, TransferInv
  PROVE  ClipboardTypeOK
  <1>1. order \in Seq(Nat) /\ next_serial \in Nat
        BY TransferFacts
  <1>2. transfers \in [DOMAIN transfers -> Nat \ {None}]
        BY DEF TransferInv
  <1>3. DOMAIN transfers \subseteq Nat \ {0}
    <2> SUFFICES ASSUME NEW n \in DOMAIN transfers PROVE n \in Nat \ {0}
        OBVIOUS
    <2>1. PICK i \in DOMAIN order : order[i] = n
          BY TransferFacts
    <2>2. order[i] \in Nat /\ order[i] # 0
          BY TransferFacts DEF TransferInv, Ordered
    <2> QED
        BY <2>1, <2>2
  <1> QED
      BY <1>1, <1>2, <1>3 DEF ClipboardTypeOK, PortalTypes

\* What a step of the thread or of the outside keeps beyond its types.
LEMMA ThreadStepKeepsReads ==
  ASSUME ClipboardTypeOK, ReadInv, TransferInv, WireInv, ThreadSteps
  PROVE  DataControlTypeOK' /\ PortalTypes' /\ TransferInv' /\ ReadInv'
  <1> USE DEF portalVars, trackerVars, clientVars, compositorVars
  <1>0. /\ DataControlTypeOK /\ PortalTypes /\ cmds \in Seq(WaylandCmd)
        /\ tasks \in [Task -> Call]
        BY DEF ClipboardTypeOK, PortalTypes, DataControlTypeOK
  <1>1. PortalTypes' /\ TransferInv' /\ tasks' = tasks
        BY <1>0 DEF ThreadSteps, PortalTypes, TransferInv
  <1>2. DataControlTypeOK'
        BY <1>0, ThreadKeepsTypes DEF ThreadSteps, Copying, Pasting
  <1>3. CASE HandleCmd
    <2>1. cmds # <<>> /\ Head(cmds).type # "Read" /\ cmds' = Tail(cmds)
          BY <1>3 DEF HandleCmd, HandleClaim, HandleRelease, NextCmd
    <2>2. tasks' = tasks
          BY <1>1
    <2>3. ReadInv'
          BY <1>0, <2>1, <2>2, FewerCmds
    <2> QED
        BY <1>1, <1>2, <2>3
  <1>4. CASE ~HandleCmd
    <2>1. cmds' = cmds
      <3>1. WireEvent => cmds' = cmds
            BY DEF WireEvent, SelectionEvent, SendEvent, CancelledEvent
      <3>2. WatchSeat \/ Finished \/ LocalCopy \/ LocalPaste => cmds' = cmds
            BY DEF WatchSeat, Finished, LocalCopy, LocalPaste
      <3> QED
          BY <1>4, <3>1, <3>2 DEF ThreadSteps, Copying, Pasting
    <2>2. ReadInv'
          BY <1>1, <2>1 DEF ReadInv
    <2> QED
        BY <1>1, <1>2, <2>2
  <1> QED
      BY <1>3, <1>4

LEMMA CallingKeepsTypes ==
  ASSUME ClipboardTypeOK, ReadInv, TransferInv, Calling
  PROVE  DataControlTypeOK' /\ PortalTypes' /\ TransferInv' /\ ReadInv'
  <1> USE DEF trackerVars, clientVars, compositorVars, dataControlVars
  <1>0. /\ DataControlTypeOK /\ PortalTypes /\ cmds \in Seq(WaylandCmd)
        /\ tasks \in [Task -> Call]
        BY DEF ClipboardTypeOK, PortalTypes, DataControlTypeOK
  <1>1. ASSUME cmds' \in Seq(WaylandCmd), UNCHANGED <<clientVars, compositorVars, events>>
        PROVE  DataControlTypeOK'
        BY <1>0, <1>1 DEF DataControlTypeOK
  <1>2. ASSUME UNCHANGED trackerVars
        PROVE  TransferInv'
        BY <1>2 DEF TransferInv
  <1>3. Untold \in News
        BY DEF Untold, News, None
  <1>4. ASSUME NEW s \in Session, CreateSession(s) \/ RequestClipboard(s)
        PROVE  DataControlTypeOK' /\ PortalTypes' /\ TransferInv' /\ ReadInv'
    <2>1. PortalTypes'
          BY <1>0, <1>3, <1>4 DEF CreateSession, RequestClipboard, PortalTypes
    <2> QED
        BY <1>0, <1>1, <1>2, <1>4, <2>1 DEF CreateSession, RequestClipboard, ReadInv
  <1>5. ASSUME NEW t \in Task, NEW call \in Call, CallBegins(t, call),
               access' \in [Session -> {"absent", "plain", "clipboard"}],
               UNCHANGED <<trackerVars, pump, told, overtaken, dataControlVars>>
        PROVE  DataControlTypeOK' /\ PortalTypes' /\ TransferInv' /\ ReadInv'
    <2>1. tasks[t].at # "read" /\ tasks' = [tasks EXCEPT ![t] = call] /\ cmds' = cmds
          BY <1>5 DEF CallBegins, Idle
    <2>2. tasks' \in [Task -> Call] /\ ReadInv'
          BY <1>0, <2>1, SameCmds
    <2> QED
        BY <1>0, <1>1, <1>2, <1>5, <2>2 DEF PortalTypes
  <1>6. ASSUME NEW t \in Task, NEW s \in Session,
               SetSelection(t, s) \/ UnsetSelection(t, s) \/ Close(t, s)
        PROVE  DataControlTypeOK' /\ PortalTypes' /\ TransferInv' /\ ReadInv'
    <2>1. access' \in [Session -> {"absent", "plain", "clipboard"}]
          BY <1>0, <1>6 DEF SetSelection, UnsetSelection, Close, PortalTypes
    <2>2. \E call \in Call : CallBegins(t, call)
          BY <1>6, CallsTyped DEF SetSelection, UnsetSelection, Close
    <2> QED
        BY <1>5, <1>6, <2>1, <2>2 DEF SetSelection, UnsetSelection, Close
  <1>7. ASSUME NEW t \in Task, ControlRelease(t)
        PROVE  DataControlTypeOK' /\ PortalTypes' /\ TransferInv' /\ ReadInv'
    <2>1. access' \in [Session -> {"absent", "plain", "clipboard"}]
          BY <1>0, <1>7 DEF ControlRelease, PortalTypes
    <2>2. \E call \in Call : CallBegins(t, call)
          BY <1>7, CallsTyped DEF ControlRelease
    <2> QED
        BY <1>5, <1>7, <2>1, <2>2 DEF ControlRelease
  <1>8. ASSUME NEW t \in Task, NEW s \in Session, SelectionRead(t, s)
        PROVE  DataControlTypeOK' /\ PortalTypes' /\ TransferInv' /\ ReadInv'
    <2>1. /\ ClipboardRead(t) \in WaylandCmd /\ ClipboardRead(t).reply = t
          /\ cmds' = Append(cmds, ClipboardRead(t))
          /\ tasks' = [tasks EXCEPT ![t] = [at |-> "read"]]
          /\ tasks[t].at # "read" /\ [at |-> "read"] \in Call
          BY <1>8, MessagesTyped, CallsTyped DEF SelectionRead, Goes, ClipboardRead, Idle
    <2>2. cmds' \in Seq(WaylandCmd) /\ tasks' \in [Task -> Call] /\ ReadInv'
      <3> DEFINE m == ClipboardRead(t)
                 call == [at |-> "read"]
      <3>1. m \in WaylandCmd /\ call \in Call /\ (m.type = "Read" => m.reply = t /\ call.at = "read")
            BY <2>1
      <3>2. cmds' = Append(cmds, m) /\ tasks' = [tasks EXCEPT ![t] = call] /\ tasks[t].at # "read"
            BY <2>1
      <3> HIDE DEF m, call
      <3> QED
          BY <1>0, <3>1, <3>2, MoreCmds
    <2> QED
        BY <1>0, <1>1, <1>2, <1>8, <2>2 DEF SelectionRead, PortalTypes
  <1>9. ASSUME NEW s \in Session, NEW serial \in 1..MaxPastes, SelectionWrite(s, serial)
        PROVE  DataControlTypeOK' /\ PortalTypes' /\ TransferInv' /\ ReadInv'
    <2>1. TransferInv'
      <3>1. serial \in Nat /\ TakeTransfer(serial) /\ next_serial' = next_serial
        <4>1. MaxPastes \in Nat
              BY ClipboardAssumption
        <4> QED
            BY <1>9, <4>1 DEF SelectionWrite
      <3> QED
          BY <3>1, TakeKeeps
    <2> QED
        BY <1>0, <1>1, <1>9, <2>1 DEF SelectionWrite, PortalTypes, ReadInv
  <1>10. ASSUME ControlClaim
         PROVE  DataControlTypeOK' /\ PortalTypes' /\ TransferInv' /\ ReadInv'
    <2>1. ClipboardClaim("control") \in WaylandCmd /\ ClipboardClaim("control").type # "Read"
          BY MessagesTyped DEF Ours, ClipboardClaim
    <2>2. /\ cmds' \in Seq(WaylandCmd) /\ DOMAIN cmds = 1..Len(cmds) /\ Len(cmds) \in Nat
          /\ DOMAIN cmds' = 1..(Len(cmds) + 1)
          /\ \A i \in DOMAIN cmds : cmds'[i] = cmds[i]
          /\ cmds'[Len(cmds) + 1].type # "Read"
          BY <1>0, <1>10, <2>1, AppendFacts DEF ControlClaim
    <2>3. \A i \in DOMAIN cmds' : cmds'[i].type = "Read" => i \in DOMAIN cmds
          BY <2>2
    <2>4. ReadInv'
          BY <1>10, <2>2, <2>3 DEF ControlClaim, portalVars, ReadInv
    <2> QED
        BY <1>0, <1>1, <1>2, <1>10, <2>2, <2>4 DEF ControlClaim, portalVars, PortalTypes
  <1> QED
      BY <1>4, <1>6, <1>7, <1>8, <1>9, <1>10 DEF Calling

LEMMA AnsweringKeepsTypes ==
  ASSUME ClipboardTypeOK, ReadInv, TransferInv, Answering
  PROVE  DataControlTypeOK' /\ PortalTypes' /\ TransferInv' /\ ReadInv'
  <1> USE DEF trackerVars, clientVars, compositorVars, dataControlVars
  <1>0. /\ DataControlTypeOK /\ PortalTypes /\ cmds \in Seq(WaylandCmd)
        /\ tasks \in [Task -> Call]
        BY DEF ClipboardTypeOK, PortalTypes, DataControlTypeOK
  <1>1. ASSUME cmds' \in Seq(WaylandCmd), UNCHANGED <<clientVars, compositorVars, events>>
        PROVE  DataControlTypeOK'
        BY <1>0, <1>1 DEF DataControlTypeOK
  <1>2. ASSUME UNCHANGED trackerVars
        PROVE  TransferInv'
        BY <1>2 DEF TransferInv
  <1> PICK t \in Task : Own(t) \/ SendClaim(t) \/ CheckOwner(t) \/ SendRelease(t) \/ Disown(t)
      BY DEF Answering
  <1>3. CASE Own(t)
    <2>1. tasks[t].at = "own" /\ tasks[t] \in Call /\ tasks[t].session \in Session
          BY <1>0, <1>3, CallsTyped DEF Own
    <2>2. tasks' \in [Task -> Call] /\ ReadInv'
      <3>1. [at |-> "claim", session |-> tasks[t].session] \in Call
            BY <2>1, CallsTyped
      <3> QED
          BY <1>0, <1>3, <2>1, <3>1, SameCmds DEF Own, Goes
    <2>3. TransferInv'
          BY <1>3, ClearKeeps DEF Own
    <2> QED
        BY <1>0, <1>1, <1>3, <2>1, <2>2, <2>3 DEF Own, PortalTypes
  <1>4. CASE SendClaim(t)
    <2>1. tasks[t].at = "claim" /\ tasks[t] \in Call /\ tasks[t].session \in Session
          BY <1>0, <1>4, CallsTyped DEF SendClaim
    <2> DEFINE m == ClipboardClaim(tasks[t].session)
    <2>2. m \in WaylandCmd /\ m.type # "Read"
          BY <2>1, MessagesTyped DEF ClipboardClaim, Ours
    <2>3. Idle \in Call
          BY CallsTyped
    <2>4. cmds' = Append(cmds, m) /\ tasks' = [tasks EXCEPT ![t] = Idle]
          BY <1>4 DEF SendClaim, Goes
    <2> HIDE DEF m
    <2>5. cmds' \in Seq(WaylandCmd) /\ tasks' \in [Task -> Call] /\ ReadInv'
          BY <1>0, <2>1, <2>2, <2>3, <2>4, MoreCmds
    <2> QED
        BY <1>0, <1>1, <1>2, <1>4, <2>5 DEF SendClaim, PortalTypes
  <1>5. CASE CheckOwner(t)
    <2>1. tasks[t].at # "read" /\ cmds' = cmds
          BY <1>5 DEF CheckOwner
    <2>2. PICK call \in Call : tasks' = [tasks EXCEPT ![t] = call]
          BY <1>5, CallsTyped DEF CheckOwner, Goes
    <2>3. tasks' \in [Task -> Call] /\ ReadInv'
          BY <1>0, <2>1, <2>2, SameCmds
    <2> QED
        BY <1>0, <1>1, <1>2, <1>5, <2>3 DEF CheckOwner, PortalTypes
  <1>6. CASE SendRelease(t)
    <2>1. ClipboardRelease \in WaylandCmd /\ ClipboardRelease.type # "Read"
          BY MessagesTyped DEF ClipboardRelease
    <2>2. PICK call \in Call : tasks' = [tasks EXCEPT ![t] = call]
          BY <1>6, CallsTyped DEF SendRelease, Goes
    <2>3. tasks[t].at # "read" /\ cmds' = Append(cmds, ClipboardRelease)
          BY <1>6 DEF SendRelease
    <2>4. cmds' \in Seq(WaylandCmd) /\ tasks' \in [Task -> Call] /\ ReadInv'
          BY <1>0, <2>1, <2>2, <2>3, MoreCmds
    <2> QED
        BY <1>0, <1>1, <1>2, <1>6, <2>4 DEF SendRelease, PortalTypes
  <1>7. CASE Disown(t)
    <2>1. tasks[t].at # "read" /\ cmds' = cmds /\ tasks' = [tasks EXCEPT ![t] = Idle]
          BY <1>7 DEF Disown, Goes
    <2>2. tasks' \in [Task -> Call] /\ ReadInv'
          BY <1>0, <2>1, CallsTyped, SameCmds
    <2>3. TransferInv'
          BY <1>7, ClearKeeps DEF Disown
    <2> QED
        BY <1>0, <1>1, <1>7, <2>2, <2>3 DEF Disown, PortalTypes
  <1> QED
      BY <1>3, <1>4, <1>5, <1>6, <1>7

LEMMA HandleReadKeepsTypes ==
  ASSUME ClipboardTypeOK, ReadInv, TransferInv, HandleRead
  PROVE  DataControlTypeOK' /\ PortalTypes' /\ TransferInv' /\ ReadInv'
  <1> USE DEF trackerVars, clientVars, compositorVars
  <1>0. /\ DataControlTypeOK /\ PortalTypes /\ cmds \in Seq(WaylandCmd)
        /\ tasks \in [Task -> Call]
        BY DEF ClipboardTypeOK, PortalTypes, DataControlTypeOK
  <1>1. /\ cmds # <<>> /\ Head(cmds).type = "Read" /\ cmds' = Tail(cmds)
        /\ tasks' = [tasks EXCEPT ![Head(cmds).reply] = Idle]
        BY DEF HandleRead, NextCmd, Goes
  <1>2. cmds' \in Seq(WaylandCmd) /\ tasks' \in [Task -> Call] /\ ReadInv'
        BY <1>0, <1>1, FewerCmds
  <1> QED
      BY <1>0, <1>2 DEF HandleRead, PortalTypes, DataControlTypeOK, TransferInv

LEMMA PumpingKeepsTypes ==
  ASSUME ClipboardTypeOK, ReadInv, TransferInv, Pumping
  PROVE  DataControlTypeOK' /\ PortalTypes' /\ TransferInv' /\ ReadInv'
  <1> USE DEF trackerVars, clientVars, compositorVars, dataControlVars
  <1>0. /\ DataControlTypeOK /\ PortalTypes /\ events \in Seq(WaylandEvent) /\ mime_types \in Nat
        /\ pump \in Pump
        BY DEF ClipboardTypeOK, PortalTypes, DataControlTypeOK
  <1>1. ASSUME events' \in Seq(WaylandEvent), UNCHANGED <<clientVars, compositorVars, cmds>>
        PROVE  DataControlTypeOK'
        BY <1>0, <1>1 DEF DataControlTypeOK
  <1>2. ASSUME NEW type, NextEvent(type)
        PROVE  /\ events' \in Seq(WaylandEvent) /\ Head(events) \in WaylandEvent
               /\ Head(events).type = type
        BY <1>0, <1>2, TailFacts DEF NextEvent
  <1>3. tasks' = tasks /\ cmds' = cmds => ReadInv'
        BY DEF ReadInv
  <1>4. CASE PumpSelection
    <2>1. Head(events).mime_types \in Nat /\ Head(events).is_ours \in BOOLEAN
          BY <1>2, <1>4 DEF PumpSelection, WaylandEvent, ClipboardCancelled
    <2>2. pump' \in Pump
          BY <1>4, <2>1, PumpTyped, <1>0 DEF PumpSelection, Announce
    <2>3. TransferInv'
          BY <1>4 DEF PumpSelection, TransferInv
    <2>4. events' \in Seq(WaylandEvent)
          BY <1>2, <1>4 DEF PumpSelection
    <2> QED
        BY <1>0, <1>1, <1>3, <1>4, <2>1, <2>2, <2>3, <2>4 DEF PumpSelection, PortalTypes
  <1>5. CASE PumpSend
    <2>1. Head(events).fd \in Nat \ {None}
          BY <1>2, <1>5 DEF PumpSend, WaylandEvent, ClipboardCancelled
    <2>2. TransferInv'
          BY <1>5, <2>1, ParkKeeps DEF PumpSend
    <2>3. events' \in Seq(WaylandEvent)
          BY <1>2, <1>5 DEF PumpSend
    <2> QED
        BY <1>0, <1>1, <1>3, <1>5, <2>2, <2>3 DEF PumpSend, PortalTypes
  <1>6. CASE PumpCancelled
    <2>1. pump' \in Pump
          BY <1>6, PumpTyped, <1>0 DEF PumpCancelled, Announce
    <2>2. TransferInv'
          BY <1>6, ClearKeeps DEF PumpCancelled
    <2>3. events' \in Seq(WaylandEvent)
          BY <1>2, <1>6 DEF PumpCancelled
    <2> QED
        BY <1>0, <1>1, <1>3, <1>6, <2>1, <2>2, <2>3 DEF PumpCancelled, PortalTypes
  <1>7. CASE PumpList
    <2>1. pump' \in Pump
      <3>1. pump.news \in News
            BY <1>0, <1>7, PumpTyped DEF PumpList
      <3> QED
          BY <1>0, <1>7, <3>1, PumpTyped DEF PumpList
    <2> QED
        BY <1>0, <1>1, <1>3, <1>7, <2>1
        DEF PumpList, PortalTypes, DataControlTypeOK, TransferInv
  <1>8. ASSUME NEW s \in Session, PumpTell(s)
        PROVE  DataControlTypeOK' /\ PortalTypes' /\ TransferInv' /\ ReadInv'
    <2>1. pump.news \in News /\ pump.to \subseteq Session
          BY <1>0, <1>8, PumpTyped DEF PumpTell
    <2>2. pump' \in Pump
          BY <1>0, <1>8, <2>1, PumpTyped DEF PumpTell
    <2>3. told' \in [Session -> News]
          BY <1>0, <1>8, <2>1 DEF PumpTell, PortalTypes
    <2> QED
        BY <1>0, <1>1, <1>3, <1>8, <2>2, <2>3
        DEF PumpTell, PortalTypes, DataControlTypeOK, TransferInv
  <1> QED
      BY <1>4, <1>5, <1>6, <1>7, <1>8 DEF Pumping

----------------------------------------------------------------------------
(* The wire.                                                                *)

\* The two parts of WireInv that are about the messages themselves.
WireOrdered ==
    /\ \A i \in DOMAIN wire :
          /\ wire[i].n <= current
          /\ wire[i].type = "Cancelled" => wire[i].n # current
          /\ wire[i].type = "Selection" => offer <= wire[i].n
    /\ \A i, j \in DOMAIN wire :
          i < j /\ wire[i].type = "Selection" /\ wire[j].type = "Selection"
            => wire[i].n <= wire[j].n

LEMMA WireTypes ==
  ASSUME DataControlTypeOK
  PROVE  /\ current \in Nat \ {0} /\ offer \in Nat /\ source \in Nat
         /\ offer <= current /\ source <= current
         /\ wire \in Seq(Wire)
         /\ DOMAIN wire = 1..Len(wire) /\ Len(wire) \in Nat
         /\ \A i \in DOMAIN wire : /\ wire[i] \in Wire /\ wire[i].n \in Nat
                                   /\ wire[i] = [type |-> wire[i].type, n |-> wire[i].n]
         /\ "others" \notin Ours
  <1>1. "others" \notin Ours
        BY DataControlAssumption DEF Ours
  <1>2. /\ wire \in Seq(Wire) /\ current \in Nat \ {0} /\ offer \in 0..current
        /\ source \in 0..current
        BY DEF DataControlTypeOK, None
  <1>3. \A i \in DOMAIN wire : wire[i] \in Wire
        BY <1>2
  <1>4. \A i \in DOMAIN wire : /\ wire[i].n \in Nat
                               /\ wire[i] = [type |-> wire[i].type, n |-> wire[i].n]
        BY <1>3 DEF Wire
  <1> QED
      BY <1>1, <1>2, <1>3, <1>4

\* Replace puts newer messages after what is there.
LEMMA ReplaceKeepsOrder ==
  ASSUME DataControlTypeOK, WireInv, NEW by, Replace(by), offer' = offer
  PROVE  WireOrdered'
  <1>1. /\ current' = current + 1 /\ current \in Nat
        /\ \A i \in DOMAIN wire : wire'[i] = wire[i]
        /\ \A i \in DOMAIN wire' : i \notin DOMAIN wire =>
              /\ \A j \in DOMAIN wire : j < i
              /\ \/ wire'[i] = Cancelled(current)
                 \/ wire'[i] = Selection(current + 1)
        BY ReplaceFacts
  <1>2. DOMAIN wire' \subseteq Int /\ DOMAIN wire \subseteq Int
        BY ReplaceFacts
  <1>3. ASSUME NEW i \in DOMAIN wire'
        PROVE  \/ /\ i \in DOMAIN wire /\ wire'[i] = wire[i]
                  /\ wire[i].n \in Nat /\ wire[i].n <= current
                  /\ wire[i].type = "Selection" => offer <= wire[i].n
               \/ /\ i \notin DOMAIN wire
                  /\ \A j \in DOMAIN wire : j < i
                  /\ \/ wire'[i].type = "Cancelled" /\ wire'[i].n = current
                     \/ wire'[i].type = "Selection" /\ wire'[i].n = current + 1
        BY <1>1, WireTypes DEF WireInv, Cancelled, Selection
  <1>4. offer \in Nat /\ offer <= current
        BY WireTypes
  <1>5. ASSUME NEW i \in DOMAIN wire'
        PROVE  /\ wire'[i].n <= current'
               /\ wire'[i].type = "Cancelled" => wire'[i].n # current'
               /\ wire'[i].type = "Selection" => offer' <= wire'[i].n
        BY <1>1, <1>3, <1>4
  <1>6. ASSUME NEW i \in DOMAIN wire', NEW j \in DOMAIN wire', i < j,
               wire'[i].type = "Selection", wire'[j].type = "Selection"
        PROVE  wire'[i].n <= wire'[j].n
    <2>1. CASE i \in DOMAIN wire /\ j \in DOMAIN wire
          BY <1>1, <1>6, <2>1 DEF WireInv
    <2>2. CASE j \notin DOMAIN wire
          BY <1>1, <1>3, <1>6, <2>2
    <2>3. CASE i \notin DOMAIN wire /\ j \in DOMAIN wire
          BY <1>1, <1>2, <1>6, <2>3
    <2> QED
        BY <2>1, <2>2, <2>3
  <1> QED
      BY <1>5, <1>6 DEF WireOrdered

LEMMA ReadingKeepsOrder ==
  ASSUME DataControlTypeOK, WireInv, NEW type, NextOnWire(type), current' = current,
         offer' = IF type = "Selection" THEN Head(wire).n ELSE offer
  PROVE  /\ WireOrdered'
         /\ 1 \in DOMAIN wire /\ Head(wire) = wire[1] /\ wire[1].type = type
         /\ \A i \in DOMAIN wire :
               wire[i] = wire[1] \/ \E j \in DOMAIN wire' : wire'[j] = wire[i]
  <1>1. /\ wire # <<>> /\ wire' = Tail(wire) /\ Head(wire).type = type
        BY DEF NextOnWire
  <1>2. /\ DOMAIN wire = 1..Len(wire) /\ Len(wire) \in Nat /\ 1 \in DOMAIN wire
        /\ DOMAIN wire' = 1..(Len(wire) - 1)
        /\ \A i \in DOMAIN wire' : i + 1 \in DOMAIN wire /\ wire'[i] = wire[i + 1]
        /\ \A i \in DOMAIN wire : i # 1 => i - 1 \in DOMAIN wire' /\ wire'[i - 1] = wire[i]
        /\ Head(wire) = wire[1]
        BY <1>1, WireTypes, TailFacts
  <1>3. ASSUME NEW i \in DOMAIN wire'
        PROVE  i + 1 \in DOMAIN wire /\ 1 < i + 1 /\ wire'[i] = wire[i + 1]
        BY <1>2
  <1>4. ASSUME NEW i \in DOMAIN wire'
        PROVE  /\ wire'[i].n <= current'
               /\ wire'[i].type = "Cancelled" => wire'[i].n # current'
               /\ wire'[i].type = "Selection" => offer' <= wire'[i].n
    <2>1. i + 1 \in DOMAIN wire /\ 1 < i + 1 /\ wire'[i] = wire[i + 1]
          BY <1>3
    <2>2. /\ wire[i + 1].n <= current
          /\ wire[i + 1].type = "Cancelled" => wire[i + 1].n # current
          /\ wire[i + 1].type = "Selection" => offer <= wire[i + 1].n
          BY <2>1 DEF WireInv
    <2>3. wire[i + 1].type = "Selection" /\ wire[1].type = "Selection"
            => wire[1].n <= wire[i + 1].n
          BY <1>2, <2>1 DEF WireInv
    <2> QED
        BY <1>1, <1>2, <2>1, <2>2, <2>3
  <1>5. ASSUME NEW i \in DOMAIN wire', NEW j \in DOMAIN wire', i < j,
               wire'[i].type = "Selection", wire'[j].type = "Selection"
        PROVE  wire'[i].n <= wire'[j].n
    <2>1. i + 1 \in DOMAIN wire /\ j + 1 \in DOMAIN wire /\ i + 1 < j + 1
          BY <1>2, <1>5
    <2> QED
        BY <1>3, <1>5, <2>1 DEF WireInv
  <1>6. ASSUME NEW i \in DOMAIN wire
        PROVE  wire[i] = wire[1] \/ \E j \in DOMAIN wire' : wire'[j] = wire[i]
        BY <1>2
  <1> QED
      BY <1>1, <1>2, <1>4, <1>5, <1>6 DEF WireOrdered

LEMMA AppendingKeepsOrder ==
  ASSUME DataControlTypeOK, WireInv, NEW m \in Wire, wire' = Append(wire, m),
         current' = current, offer' = offer, m.n = current, m.type # "Cancelled"
  PROVE  /\ WireOrdered'
         /\ \E i \in DOMAIN wire' : wire'[i] = m
         /\ \A i \in DOMAIN wire : \E j \in DOMAIN wire' : wire'[j] = wire[i]
  <1>1. /\ DOMAIN wire = 1..Len(wire) /\ Len(wire) \in Nat
        /\ DOMAIN wire' = 1..(Len(wire) + 1)
        /\ \A i \in DOMAIN wire : wire'[i] = wire[i]
        /\ wire'[Len(wire) + 1] = m
        BY WireTypes, AppendFacts
  <1>2. ASSUME NEW i \in DOMAIN wire'
        PROVE  (i \in DOMAIN wire /\ wire'[i] = wire[i]) \/ (i = Len(wire) + 1 /\ wire'[i] = m)
        BY <1>1
  <1>3. ASSUME NEW i \in DOMAIN wire'
        PROVE  /\ wire'[i].n <= current'
               /\ wire'[i].type = "Cancelled" => wire'[i].n # current'
               /\ wire'[i].type = "Selection" => offer' <= wire'[i].n
        BY <1>2, WireTypes DEF WireInv
  <1>4. ASSUME NEW i \in DOMAIN wire', NEW j \in DOMAIN wire', i < j,
               wire'[i].type = "Selection", wire'[j].type = "Selection"
        PROVE  wire'[i].n <= wire'[j].n
    <2>1. CASE j \in DOMAIN wire
      <3>1. i \in DOMAIN wire
            BY <1>1, <1>4, <2>1
      <3> QED
          BY <1>1, <1>4, <2>1, <3>1 DEF WireInv
    <2>2. CASE j = Len(wire) + 1
          BY <1>1, <1>2, <1>3, <2>2
    <2> QED
        BY <1>2, <2>1, <2>2
  <1>5. \E i \in DOMAIN wire' : wire'[i] = m
        BY <1>1
  <1>6. \A i \in DOMAIN wire : i \in DOMAIN wire'
        BY <1>1
  <1> QED
      BY <1>1, <1>3, <1>4, <1>5, <1>6 DEF WireOrdered

LEMMA ThreadKeepsWire ==
  ASSUME DataControlTypeOK, WireInv,
         HandleCmd \/ WireEvent \/ WatchSeat \/ Finished \/ LocalCopy \/ LocalPaste
  PROVE  WireInv'
  <1> USE DEF clientVars, compositorVars
  <1> DEFINE Bound == maker \in Ours <=> source = current
             Dying == source \notin {None, current}
                        => \E i \in DOMAIN wire : wire[i] = Cancelled(source)
             Fresh == device /\ offer # current
                        => \E i \in DOMAIN wire : wire[i] = Selection(current)
  <1>0. /\ Bound /\ Dying /\ Fresh /\ WireOrdered
        /\ current \in Nat \ {0} /\ source <= current /\ source \in Nat /\ offer \in Nat
        /\ offer <= current /\ current # None
        /\ "others" \notin Ours
    <2>1. Bound /\ Dying /\ Fresh /\ WireOrdered
          BY DEF WireInv, WireOrdered
    <2> QED
        BY <2>1, WireTypes DEF None
  <1>1. SUFFICES WireOrdered' /\ Bound' /\ Dying' /\ Fresh'
        BY DEF WireInv, WireOrdered
  <1>2. ASSUME NEW by, Replace(by), offer' = offer, device' = device
        PROVE  /\ WireOrdered' /\ Fresh'
               /\ current' = current + 1 /\ maker' = by
               /\ source' = source => Dying'
    <2>1. /\ current' = current + 1 /\ maker' = by
          /\ DOMAIN wire \subseteq DOMAIN wire'
          /\ \A i \in DOMAIN wire : wire'[i] = wire[i]
          /\ maker \in Ours => \E i \in DOMAIN wire' : wire'[i] = Cancelled(current)
          /\ device => \E i \in DOMAIN wire' : wire'[i] = Selection(current + 1)
          BY <1>2, ReplaceFacts
    <2>2. WireOrdered'
          BY <1>2, ReplaceKeepsOrder
    <2>3. Fresh'
          BY <1>2, <2>1
    <2>4. ASSUME source' = source, source # None
          PROVE  \E i \in DOMAIN wire' : wire'[i] = Cancelled(source)
          BY <1>0, <2>1, <2>4
    <2> QED
        BY <2>1, <2>2, <2>3, <2>4
  <1>3. CASE HandleClaim
    <2>1. CASE device
      <3>1. /\ Replace(Head(cmds).by) /\ source' = current + 1 /\ offer' = offer
            /\ device' = device /\ NextCmd("Claim")
            BY <1>3, <2>1 DEF HandleClaim
      <3>2. Head(cmds).by \in Ours
        <4>1. Head(cmds) \in WaylandCmd /\ Head(cmds).type = "Claim"
              BY <3>1, TailFacts DEF NextCmd, DataControlTypeOK
        <4> QED
            BY <4>1 DEF WaylandCmd, ClipboardRelease
      <3> QED
          BY <1>2, <3>1, <3>2
    <2>2. CASE ~device
          BY <1>0, <1>3, <2>2 DEF HandleClaim, WireOrdered
    <2> QED
        BY <2>1, <2>2
  <1>4. CASE HandleRelease
    <2>1. source' = None /\ offer' = offer /\ device' = device
          BY <1>4 DEF HandleRelease
    <2>2. CASE source # None /\ (device \/ source = current)
      <3>1. Replace("others")
            BY <1>4, <2>2 DEF HandleRelease
      <3> QED
          BY <1>0, <1>2, <2>1, <3>1 DEF None
    <2>3. CASE ~(source # None /\ (device \/ source = current))
          BY <1>0, <1>4, <2>1, <2>3 DEF HandleRelease, WireOrdered
    <2> QED
        BY <2>2, <2>3
  <1>5. CASE LocalCopy
    <2>1. Replace("others") /\ source' = source /\ offer' = offer /\ device' = device
          BY <1>5 DEF LocalCopy
    <2> QED
        BY <1>0, <1>2, <2>1
  <1>6. CASE SelectionEvent
    <2>1. /\ NextOnWire("Selection") /\ current' = current /\ offer' = Head(wire).n
          /\ maker' = maker /\ device' = device /\ source' = source
          BY <1>6 DEF SelectionEvent
    <2>2. /\ WireOrdered'
          /\ 1 \in DOMAIN wire /\ Head(wire) = wire[1] /\ wire[1].type = "Selection"
          /\ \A i \in DOMAIN wire :
                wire[i] = wire[1] \/ \E j \in DOMAIN wire' : wire'[j] = wire[i]
          BY <2>1, ReadingKeepsOrder
    <2>3. Dying'
          BY <1>0, <2>1, <2>2 DEF Cancelled
    <2>4. Fresh'
      <3>1. offer = current => offer' = current
        <4>1. offer <= wire[1].n /\ wire[1].n <= current /\ wire[1].n \in Nat
              BY <2>2, WireTypes DEF WireInv
        <4> QED
            BY <1>0, <2>1, <2>2, <4>1
      <3>2. ASSUME device, offer # current, offer' # current
            PROVE  \E j \in DOMAIN wire' : wire'[j] = Selection(current)
        <4>1. PICK i \in DOMAIN wire : wire[i] = Selection(current)
              BY <1>0, <3>2
        <4>2. wire[i] # wire[1]
              BY <2>1, <2>2, <3>2, <4>1 DEF Selection
        <4> QED
            BY <2>2, <4>1, <4>2
      <3> QED
          BY <2>1, <3>1, <3>2
    <2> QED
        BY <1>0, <2>1, <2>2, <2>3, <2>4
  <1>7. CASE SendEvent
    <2>1. /\ NextOnWire("Send") /\ current' = current /\ offer' = offer
          /\ maker' = maker /\ device' = device /\ source' = source
          BY <1>7 DEF SendEvent
    <2>2. /\ WireOrdered' /\ wire[1].type = "Send"
          /\ \A i \in DOMAIN wire :
                wire[i] = wire[1] \/ \E j \in DOMAIN wire' : wire'[j] = wire[i]
          BY <2>1, ReadingKeepsOrder
    <2> QED
        BY <1>0, <2>1, <2>2 DEF Cancelled, Selection
  <1>8. CASE CancelledEvent
    <2>1. /\ NextOnWire("Cancelled") /\ current' = current /\ offer' = offer
          /\ maker' = maker /\ device' = device
          /\ source' = IF Head(wire).n = source THEN None ELSE source
          BY <1>8 DEF CancelledEvent
    <2>2. /\ WireOrdered' /\ 1 \in DOMAIN wire /\ Head(wire) = wire[1]
          /\ wire[1].type = "Cancelled"
          /\ \A i \in DOMAIN wire :
                wire[i] = wire[1] \/ \E j \in DOMAIN wire' : wire'[j] = wire[i]
          BY <2>1, ReadingKeepsOrder
    <2>3. wire[1].n # current
          BY <2>2 DEF WireInv
    <2>4. Bound'
          BY <1>0, <2>1, <2>2, <2>3
    <2>5. Fresh'
          BY <1>0, <2>1, <2>2 DEF Selection
    <2>6. Dying'
      <3> SUFFICES ASSUME source' # None, source # current
                   PROVE  \E i \in DOMAIN wire' : wire'[i] = Cancelled(source)
          BY <2>1
      <3>1. source # wire[1].n /\ source # None
            BY <2>1, <2>2
      <3>2. PICK i \in DOMAIN wire : wire[i] = Cancelled(source)
            BY <1>0, <3>1
      <3> QED
          BY <2>2, <3>1, <3>2 DEF Cancelled
    <2> QED
        BY <2>2, <2>4, <2>5, <2>6
  <1>9. CASE WatchSeat
    <2>1. /\ wire' = Append(wire, Selection(current)) /\ current' = current /\ maker' = maker
          /\ source' = source /\ offer' = offer
          BY <1>9 DEF WatchSeat
    <2>2. /\ Selection(current) \in Wire /\ Selection(current).n = current
          /\ Selection(current).type # "Cancelled"
          BY <1>0, MessagesTyped DEF Selection, None
    <2>3. /\ WireOrdered'
          /\ \E i \in DOMAIN wire' : wire'[i] = Selection(current)
          /\ \A i \in DOMAIN wire : \E j \in DOMAIN wire' : wire'[j] = wire[i]
          BY <2>1, <2>2, AppendingKeepsOrder
    <2> QED
        BY <1>0, <2>1, <2>3
  <1>10. CASE Finished
        BY <1>0, <1>10 DEF Finished, WireOrdered
  <1>11. CASE LocalPaste
    <2>1. /\ wire' = Append(wire, Send(current)) /\ current' = current /\ maker' = maker
          /\ source' = source /\ offer' = offer /\ device' = device
          BY <1>11 DEF LocalPaste
    <2>2. /\ Send(current) \in Wire /\ Send(current).n = current
          /\ Send(current).type # "Cancelled"
          BY <1>0, MessagesTyped DEF Send, None
    <2>3. /\ WireOrdered'
          /\ \A i \in DOMAIN wire : \E j \in DOMAIN wire' : wire'[j] = wire[i]
          BY <2>1, <2>2, AppendingKeepsOrder
    <2> QED
        BY <1>0, <2>1, <2>3
  <1> QED
      BY <1>3, <1>4, <1>5, <1>6, <1>7, <1>8, <1>9, <1>10, <1>11 DEF HandleCmd, WireEvent

----------------------------------------------------------------------------
(* The events, and what the clients were told.                              *)

Quiet == UNCHANGED <<compositorVars, clientVars, events, mime_types>>

LEMMA CallsAreQuiet ==
  ASSUME Calling \/ Answering \/ HandleRead \/ PumpList \/ \E s \in Session : PumpTell(s)
  PROVE  Quiet
  <1> USE DEF Quiet, trackerVars, dataControlVars, compositorVars, clientVars, portalVars
  <1>1. CASE Calling
    <2>1. ASSUME NEW s \in Session, CreateSession(s) \/ RequestClipboard(s)
          PROVE  Quiet
          BY <2>1 DEF CreateSession, RequestClipboard
    <2>2. ASSUME NEW t \in Task, NEW s \in Session,
                 \/ SetSelection(t, s) \/ UnsetSelection(t, s)
                 \/ Close(t, s) \/ SelectionRead(t, s)
          PROVE  Quiet
          BY <2>2 DEF SetSelection, UnsetSelection, Close, SelectionRead
    <2>3. ASSUME NEW s \in Session, NEW serial, SelectionWrite(s, serial)
          PROVE  Quiet
          BY <2>3 DEF SelectionWrite
    <2>4. ASSUME ControlClaim \/ \E t \in Task : ControlRelease(t)
          PROVE  Quiet
          BY <2>4 DEF ControlClaim, ControlRelease
    <2> QED
        BY <1>1, <2>1, <2>2, <2>3, <2>4 DEF Calling
  <1>2. CASE Answering
    <2>1. ASSUME NEW t \in Task, \/ Own(t) \/ SendClaim(t)
                                 \/ CheckOwner(t) \/ SendRelease(t) \/ Disown(t)
          PROVE  Quiet
          BY <2>1 DEF Own, SendClaim, CheckOwner, SendRelease, Disown
    <2> QED
        BY <1>2, <2>1 DEF Answering
  <1>3. CASE HandleRead
        BY <1>3 DEF HandleRead
  <1>4. CASE PumpList
        BY <1>4 DEF PumpList
  <1>5. ASSUME NEW s \in Session, PumpTell(s)
        PROVE  Quiet
        BY <1>5 DEF PumpTell
  <1> QED
      BY <1>1, <1>2, <1>3, <1>4, <1>5

LEMMA ThreadSendsEvents ==
  ASSUME DataControlTypeOK, WireInv, ThreadSteps
  PROVE  /\ \/ events' = events /\ offer' = offer
            \/ /\ SelectionEvent /\ offer' \in Nat /\ offer <= offer'
               /\ events' = Append(events, ClipboardSelection(offer', source # None))
            \/ SendEvent /\ events' = Append(events, ClipboardSend(source)) /\ offer' = offer
               /\ source \in Nat \ {None}
            \/ /\ CancelledEvent /\ source' = None
               /\ events' = Append(events, ClipboardCancelled) /\ offer' = offer
         /\ UNCHANGED portalVars
  <1> USE DEF compositorVars, clientVars
  <1>1. CASE HandleCmd
        BY <1>1 DEF HandleCmd, HandleClaim, HandleRelease, ThreadSteps
  <1>2. CASE SelectionEvent
    <2>1. NextOnWire("Selection") /\ offer' = Head(wire).n /\ current' = current
          BY <1>2 DEF SelectionEvent
    <2>2. 1 \in DOMAIN wire /\ Head(wire) = wire[1] /\ wire[1].type = "Selection"
          BY <2>1, ReadingKeepsOrder
    <2>3. offer <= wire[1].n /\ wire[1].n \in Nat
          BY <2>2, WireTypes DEF WireInv
    <2> QED
        BY <1>2, <2>1, <2>2, <2>3 DEF SelectionEvent, ThreadSteps
  <1>3. CASE SendEvent
    <2>1. NextOnWire("Send") /\ current' = current /\ offer' = offer
          BY <1>3 DEF SendEvent
    <2>2. 1 \in DOMAIN wire /\ Head(wire) = wire[1]
          BY <2>1, ReadingKeepsOrder
    <2>3. wire[1].n \in Nat \ {None}
          BY <2>2, WireTypes DEF Wire
    <2> QED
        BY <1>3, <2>2, <2>3 DEF SendEvent, ThreadSteps
  <1>4. CASE CancelledEvent
        BY <1>4 DEF CancelledEvent, ThreadSteps
  <1>5. CASE WatchSeat \/ Finished \/ LocalCopy \/ LocalPaste
        BY <1>5 DEF WatchSeat, Finished, LocalCopy, LocalPaste, ThreadSteps
  <1> QED
      BY <1>1, <1>2, <1>3, <1>4, <1>5 DEF ThreadSteps, WireEvent, Copying, Pasting

LEMMA EventTypes ==
  ASSUME DataControlTypeOK
  PROVE  /\ events \in Seq(WaylandEvent)
         /\ DOMAIN events = 1..Len(events) /\ Len(events) \in Nat
         /\ \A i \in DOMAIN events :
               /\ events[i].type \in {"Selection", "Send", "Cancelled"}
               /\ events[i].type = "Selection"
                    => events[i].mime_types \in Nat /\ events[i].is_ours \in BOOLEAN
  <1>1. events \in Seq(WaylandEvent)
        BY DEF DataControlTypeOK
  <1>2. \A i \in DOMAIN events : events[i] \in WaylandEvent
        BY <1>1
  <1> QED
      BY <1>1, <1>2 DEF WaylandEvent, ClipboardCancelled

\* The pump took an event.
LEMMA PumpFacts ==
  ASSUME DataControlTypeOK, NEW type, NextEvent(type)
  PROVE  /\ pump = Idle /\ 1 \in DOMAIN events /\ Head(events) = events[1]
         /\ events[1].type = type
         /\ DOMAIN events = 1..Len(events) /\ Len(events) \in Nat
         /\ DOMAIN events' = 1..(Len(events) - 1)
         /\ \A i \in DOMAIN events' : /\ i + 1 \in DOMAIN events /\ i + 1 # 1
                                      /\ events'[i] = events[i + 1]
         /\ \A i \in DOMAIN events : i # 1 => i - 1 \in DOMAIN events' /\ events'[i - 1] = events[i]
  <1>1. events # <<>> /\ Head(events).type = type /\ events' = Tail(events) /\ pump = Idle
        BY DEF NextEvent
  <1>2. /\ DOMAIN events = 1..Len(events) /\ Len(events) \in Nat /\ 1 \in DOMAIN events
        /\ DOMAIN events' = 1..(Len(events) - 1)
        /\ \A i \in DOMAIN events' : i + 1 \in DOMAIN events /\ events'[i] = events[i + 1]
        /\ \A i \in DOMAIN events : i # 1 => i - 1 \in DOMAIN events' /\ events'[i - 1] = events[i]
        /\ Head(events) = events[1]
        BY <1>1, EventTypes, TailFacts
  <1>3. \A i \in DOMAIN events' : i + 1 # 1
        BY <1>2
  <1> QED
      BY <1>1, <1>2, <1>3

LEMMA PumpKeepsEvents ==
  ASSUME DataControlTypeOK, EventInv, NEW type, NextEvent(type), offer' = offer,
         mime_types' = IF type = "Selection" THEN Head(events).mime_types ELSE mime_types
  PROVE  EventInv'
  <1>1. /\ 1 \in DOMAIN events /\ Head(events) = events[1] /\ events[1].type = type
        /\ DOMAIN events = 1..Len(events) /\ Len(events) \in Nat
        /\ DOMAIN events' = 1..(Len(events) - 1)
        /\ \A i \in DOMAIN events' : /\ i + 1 \in DOMAIN events /\ i + 1 # 1
                                     /\ events'[i] = events[i + 1]
        /\ \A i \in DOMAIN events : i # 1 => i - 1 \in DOMAIN events' /\ events'[i - 1] = events[i]
        BY PumpFacts
  <1>2. mime_types' <= offer'
        BY <1>1 DEF EventInv
  <1>3. \A i \in DOMAIN events' : events'[i].type = "Selection" => events'[i].mime_types <= offer'
        BY <1>1 DEF EventInv
  <1>4. CASE \A i \in DOMAIN events : events[i].type # "Selection"
    <2>1. mime_types = offer
          BY <1>4 DEF EventInv
    <2>2. \A i \in DOMAIN events' : events'[i].type # "Selection"
          BY <1>1, <1>4
    <2> QED
        BY <1>1, <1>2, <1>3, <1>4, <2>1, <2>2 DEF EventInv
  <1>5. CASE \E i \in DOMAIN events : events[i].type = "Selection"
    <2>1. PICK i \in DOMAIN events : /\ events[i].type = "Selection"
                                     /\ events[i].mime_types = offer
                                     /\ \A j \in DOMAIN events : i < j => events[j].type # "Selection"
          BY <1>5 DEF EventInv
    <2>2. CASE i = 1
      <3>1. \A j \in DOMAIN events' : i < j + 1
            BY <1>1, <2>2
      <3>2. \A j \in DOMAIN events' : events'[j].type # "Selection"
            BY <1>1, <2>1, <3>1
      <3> QED
          BY <1>1, <1>2, <1>3, <2>1, <2>2, <3>2 DEF EventInv
    <2>3. CASE i # 1
      <3>1. i - 1 \in DOMAIN events' /\ events'[i - 1] = events[i]
            BY <1>1, <2>3
      <3>2. ASSUME NEW j \in DOMAIN events', i - 1 < j
            PROVE  events'[j].type # "Selection"
        <4>1. i < j + 1
              BY <1>1, <3>2
        <4> QED
            BY <1>1, <2>1, <4>1
      <3> QED
          BY <1>2, <1>3, <2>1, <3>1, <3>2 DEF EventInv
    <2> QED
        BY <2>2, <2>3
  <1> QED
      BY <1>4, <1>5

LEMMA ThreadKeepsEvents ==
  ASSUME DataControlTypeOK, EventInv, mime_types' = mime_types, mime_types \in Nat,
         NEW e, events' = Append(events, e), e \in WaylandEvent,
         offer' \in Nat, offer <= offer',
         IF e.type = "Selection" THEN e.mime_types = offer' ELSE offer' = offer
  PROVE  EventInv'
  <1>1. /\ DOMAIN events = 1..Len(events) /\ Len(events) \in Nat
        /\ DOMAIN events' = 1..(Len(events) + 1)
        /\ \A i \in DOMAIN events : events'[i] = events[i]
        /\ events'[Len(events) + 1] = e
        BY EventTypes, AppendFacts
  <1>2. ASSUME NEW i \in DOMAIN events'
        PROVE  \/ i \in DOMAIN events /\ events'[i] = events[i]
               \/ i = Len(events) + 1 /\ events'[i] = e
        BY <1>1
  <1>3. offer \in Nat
        BY WireTypes
  <1>4. mime_types' <= offer'
        BY <1>3 DEF EventInv
  <1>5. ASSUME NEW i \in DOMAIN events', events'[i].type = "Selection"
        PROVE  events'[i].mime_types <= offer'
        BY <1>2, <1>3, <1>5, EventTypes DEF EventInv
  <1>6. CASE e.type = "Selection"
    <2>1. Len(events) + 1 \in DOMAIN events'
          BY <1>1
    <2>2. \A j \in DOMAIN events' : ~(Len(events) + 1 < j)
          BY <1>1
    <2> QED
        BY <1>1, <1>4, <1>5, <1>6, <2>1, <2>2 DEF EventInv
  <1>7. CASE e.type # "Selection" /\ \A i \in DOMAIN events : events[i].type # "Selection"
    <2>1. \A i \in DOMAIN events' : events'[i].type # "Selection"
          BY <1>2, <1>7
    <2>2. mime_types' = offer'
          BY <1>7 DEF EventInv
    <2> QED
        BY <1>4, <1>5, <2>1, <2>2 DEF EventInv
  <1>8. CASE e.type # "Selection" /\ \E i \in DOMAIN events : events[i].type = "Selection"
    <2>1. PICK i \in DOMAIN events : /\ events[i].type = "Selection"
                                     /\ events[i].mime_types = offer
                                     /\ \A j \in DOMAIN events : i < j => events[j].type # "Selection"
          BY <1>8 DEF EventInv
    <2>2. /\ i \in DOMAIN events' /\ events'[i] = events[i]
          BY <1>1
    <2>3. \A j \in DOMAIN events' : i < j => events'[j].type # "Selection"
          BY <1>2, <1>8, <2>1
    <2> QED
        BY <1>4, <1>5, <1>8, <2>1, <2>2, <2>3 DEF EventInv
  <1> QED
      BY <1>6, <1>7, <1>8

LEMMA NextKeepsEvents ==
  ASSUME ClipboardTypeOK, WireInv, EventInv, Next
  PROVE  EventInv'
  <1> USE DEF compositorVars, clientVars
  <1>0. DataControlTypeOK /\ mime_types \in Nat /\ offer \in Nat /\ offer <= offer
        BY WireTypes DEF ClipboardTypeOK
  <1>1. CASE Quiet
        BY <1>1 DEF Quiet, EventInv
  <1>2. CASE PumpSelection
        BY <1>0, <1>2, PumpKeepsEvents DEF PumpSelection
  <1>3. CASE PumpSend
        BY <1>0, <1>3, PumpKeepsEvents DEF PumpSend
  <1>4. CASE PumpCancelled
        BY <1>0, <1>4, PumpKeepsEvents DEF PumpCancelled
  <1>5. CASE ThreadSteps
    <2>0. mime_types' = mime_types
          BY <1>5 DEF ThreadSteps, portalVars, trackerVars
    <2>1. CASE events' = events /\ offer' = offer
          BY <2>0, <2>1 DEF EventInv
    <2>2. CASE /\ offer' \in Nat /\ offer <= offer'
               /\ events' = Append(events, ClipboardSelection(offer', source # None))
      <3>1. /\ ClipboardSelection(offer', source # None) \in WaylandEvent
            /\ ClipboardSelection(offer', source # None).type = "Selection"
            /\ ClipboardSelection(offer', source # None).mime_types = offer'
            BY <2>2, MessagesTyped DEF ClipboardSelection
      <3> QED
          BY <1>0, <2>0, <2>2, <3>1, ThreadKeepsEvents
    <2>3. CASE /\ events' = Append(events, ClipboardSend(source)) /\ offer' = offer
               /\ source \in Nat \ {None}
      <3>1. ClipboardSend(source) \in WaylandEvent /\ ClipboardSend(source).type # "Selection"
            BY <2>3, MessagesTyped DEF ClipboardSend
      <3> QED
          BY <1>0, <2>0, <2>3, <3>1, ThreadKeepsEvents
    <2>4. CASE events' = Append(events, ClipboardCancelled) /\ offer' = offer
      <3>1. ClipboardCancelled \in WaylandEvent /\ ClipboardCancelled.type # "Selection"
            BY MessagesTyped DEF ClipboardCancelled
      <3> QED
          BY <1>0, <2>0, <2>4, <3>1, ThreadKeepsEvents
    <2> QED
        BY <1>0, <1>5, <2>1, <2>2, <2>3, <2>4, ThreadSendsEvents
  <1> QED
      BY <1>1, <1>2, <1>3, <1>4, <1>5, CallsAreQuiet DEF Next, Pumping

\* The steps that leave the clients and the news alone.
LEMMA NobodyTold ==
  ASSUME ToldInv, ClipboardTypeOK, told' = told, pump' = pump, mime_types' = mime_types,
         offer' \in Nat, offer <= offer',
         \A s \in Session : access'[s] \in {access[s], "absent"}
  PROVE  ToldInv'
  <1>1. offer \in Nat /\ \A s \in Session : told[s] \in News
        BY WireTypes DEF ClipboardTypeOK
  <1>2. \A s \in Session : told[s].mime_types \in Nat
        BY <1>1 DEF News
  <1>3. \A s \in Session : UpToDate(s)' => UpToDate(s)
        BY DEF UpToDate, ToBeTold
  <1> QED
      BY <1>1, <1>2, <1>3 DEF ToldInv

LEMMA NextKeepsTold ==
  ASSUME ClipboardTypeOK, WireInv, EventInv, ToldInv, Next
  PROVE  ToldInv'
  <1> USE DEF compositorVars, clientVars, trackerVars, dataControlVars
  <1>0. /\ DataControlTypeOK /\ mime_types \in Nat /\ offer \in Nat /\ offer <= offer
        /\ pump \in Pump /\ told \in [Session -> News]
        /\ access \in [Session -> {"absent", "plain", "clipboard"}]
        BY WireTypes DEF ClipboardTypeOK
  <1>1. CASE told' = told /\ pump' = pump /\ access' = access /\ Quiet
        BY <1>0, <1>1, NobodyTold DEF Quiet
  <1>2. ASSUME NEW s \in Session, CreateSession(s)
        PROVE  ToldInv'
    <2>1. ASSUME NEW u \in Session, UpToDate(u)'
          PROVE  u # s /\ UpToDate(u) /\ told'[u] = told[u]
          BY <1>0, <1>2, <2>1 DEF CreateSession, UpToDate, ToBeTold
    <2>2. \A u \in Session : access'[u] = "plain" => told'[u] = Untold
          BY <1>0, <1>2 DEF CreateSession, ToldInv
    <2>3. \A u \in Session : told'[u].mime_types <= offer
          BY <1>0, <1>2 DEF CreateSession, ToldInv, Untold, None
    <2> QED
        BY <1>2, <2>1, <2>2, <2>3 DEF ToldInv, CreateSession
  <1>3. ASSUME NEW s \in Session, RequestClipboard(s)
        PROVE  ToldInv'
    <2>1. ASSUME NEW u \in Session, UpToDate(u)'
          PROVE  u # s /\ UpToDate(u) /\ told'[u] = told[u]
          BY <1>0, <1>3, <2>1 DEF RequestClipboard, UpToDate, ToBeTold, ToldInv
    <2>2. \A u \in Session : access'[u] = "plain" => told'[u] = Untold
          BY <1>0, <1>3 DEF RequestClipboard, ToldInv
    <2> QED
        BY <1>3, <2>1, <2>2 DEF ToldInv, RequestClipboard
  <1>4. ASSUME NEW t \in Task, NEW s \in Session,
               SetSelection(t, s) \/ UnsetSelection(t, s) \/ Close(t, s) \/ SelectionRead(t, s)
        PROVE  ToldInv'
    <2>1. /\ told' = told /\ pump' = pump /\ mime_types' = mime_types /\ offer' = offer
          /\ \A u \in Session : access'[u] \in {access[u], "absent"}
          BY <1>0, <1>4 DEF SetSelection, UnsetSelection, Close, SelectionRead
    <2> QED
        BY <1>0, <2>1, NobodyTold
  <1>5. ASSUME NEW s \in Session, NEW serial, SelectionWrite(s, serial)
        PROVE  ToldInv'
        BY <1>0, <1>5, NobodyTold DEF SelectionWrite
  <1>6. CASE ControlClaim \/ \E t \in Task : ControlRelease(t)
    <2>1. told' = told /\ pump' = pump /\ mime_types' = mime_types /\ offer' = offer /\ access' = access
          BY <1>6 DEF ControlClaim, ControlRelease, portalVars
    <2> QED
        BY <1>0, <2>1, NobodyTold
  <1>7. CASE Answering
    <2>1. ASSUME NEW t \in Task, \/ Own(t) \/ SendClaim(t)
                                 \/ CheckOwner(t) \/ SendRelease(t) \/ Disown(t)
          PROVE  told' = told /\ pump' = pump /\ mime_types' = mime_types /\ offer' = offer
                 /\ access' = access
          BY <2>1 DEF Own, SendClaim, CheckOwner, SendRelease, Disown
    <2> QED
        BY <1>0, <1>7, <2>1, NobodyTold DEF Answering
  <1>8. CASE HandleRead
        BY <1>0, <1>8, NobodyTold DEF HandleRead
  <1>9. CASE ThreadSteps
    <2>1. offer' \in Nat /\ offer <= offer' /\ UNCHANGED portalVars
          BY <1>0, <1>9, ThreadSendsEvents
    <2> QED
        BY <1>0, <2>1, NobodyTold DEF portalVars
  <1>10. CASE PumpSelection \/ PumpCancelled
    <2>1. /\ pump'.at = "list" /\ pump'.news.mime_types = mime_types'
          /\ told' = told /\ access' = access /\ offer' = offer
          BY <1>10 DEF PumpSelection, PumpCancelled, Announce
    <2>2. \A u \in Session : ~UpToDate(u)'
          BY <2>1 DEF UpToDate, ToBeTold
    <2> QED
        BY <2>1, <2>2 DEF ToldInv
  <1>11. CASE PumpSend
        BY <1>0, <1>11, NobodyTold DEF PumpSend
  <1>12. CASE PumpList
    <2> DEFINE to == {s \in Session : access[s] = "clipboard"}
    <2>1. /\ pump.at = "list" /\ pump' = Telling(pump.news, to) /\ pump # Idle
          /\ told' = told /\ access' = access /\ offer' = offer /\ mime_types' = mime_types
          BY <1>12 DEF PumpList, Idle
    <2>2. ASSUME NEW u \in Session PROVE ~UpToDate(u)'
      <3>1. access[u] = "clipboard" => u \in to
            OBVIOUS
      <3> HIDE DEF to
      <3> QED
          BY <2>1, <3>1 DEF UpToDate, ToBeTold, Telling
    <2> HIDE DEF to
    <2>3. pump' # Idle => pump'.news = pump.news
          BY <2>1 DEF Telling
    <2> QED
        BY <2>1, <2>2, <2>3 DEF ToldInv
  <1>13. ASSUME NEW s \in Session, PumpTell(s)
         PROVE  ToldInv'
    <2>1. /\ pump.at = "tell" /\ s \in pump.to /\ pump # Idle
          /\ pump.news.mime_types = mime_types /\ pump.news.mime_types <= offer
          /\ told' = IF access[s] = "clipboard" THEN [told EXCEPT ![s] = pump.news] ELSE told
          /\ pump' = Telling(pump.news, pump.to \ {s})
          /\ access' = access /\ offer' = offer /\ mime_types' = mime_types
          BY <1>13 DEF PumpTell, ToldInv, EventInv, Idle
    <2>2. pump' # Idle => pump'.news = pump.news
          BY <2>1 DEF Telling
    <2>3. \A u \in Session : access'[u] = "plain" => told'[u] = Untold
          BY <1>0, <2>1 DEF ToldInv
    <2>4. \A u \in Session : told'[u].mime_types <= offer'
          BY <1>0, <2>1 DEF ToldInv
    <2>5. ASSUME NEW u \in Session, u # s, UpToDate(u)'
          PROVE  UpToDate(u)
      <3>1. ~(pump'.at = "tell" /\ u \in pump'.to)
            BY <2>5 DEF UpToDate, ToBeTold
      <3>2. u \notin pump.to
            BY <2>1, <2>5, <3>1 DEF Telling
      <3> QED
          BY <1>0, <2>1, <2>5, <3>2 DEF UpToDate, ToBeTold
    <2>6. ASSUME NEW u \in Session, UpToDate(u)'
          PROVE  told'[u].mime_types = mime_types'
      <3>1. CASE u = s
            BY <1>0, <2>1, <2>6, <3>1 DEF UpToDate
      <3>2. CASE u # s
            BY <1>0, <2>1, <2>5, <2>6, <3>2 DEF ToldInv
      <3> QED
          BY <3>1, <3>2
    <2> QED
        BY <2>1, <2>2, <2>3, <2>4, <2>6 DEF ToldInv
  <1> QED
      BY <1>2, <1>3, <1>4, <1>5, <1>6, <1>7, <1>8, <1>9, <1>10, <1>11, <1>12, <1>13
      DEF Next, Calling, Pumping

----------------------------------------------------------------------------
(* Whether the clipboard is owned here, as the clients are told.            *)

NoNews == \A i \in DOMAIN wire : wire[i].type # "Selection"
LastWord(b) == \E i \in DOMAIN events :
                  /\ Says(events[i], b)
                  /\ \A j \in DOMAIN events : i < j => events[j].type = "Send"
Told(b) == /\ \A i \in DOMAIN events : events[i].type = "Send"
           /\ pump # Idle => (pump.news.is_ours <=> b)
           /\ \A s \in Session : UpToDate(s) => (told[s].is_ours <=> b)

LEMMA OursByParts ==
  OursInv <=> (device /\ NoNews => LastWord(source # None) \/ Told(source # None))
  BY DEF OursInv, NoNews, LastWord, Told

LEMMA AppendingKeepsWord ==
  ASSUME DataControlTypeOK, NEW e \in WaylandEvent, events' = Append(events, e),
         NEW b \in BOOLEAN
  PROVE  /\ Says(e, b) => LastWord(b)'
         /\ e.type = "Send" /\ LastWord(b) => LastWord(b)'
         /\ e.type = "Send" /\ UNCHANGED <<pump, told, access>> /\ Told(b) => Told(b)'
  <1>1. /\ DOMAIN events = 1..Len(events) /\ Len(events) \in Nat
        /\ DOMAIN events' = 1..(Len(events) + 1)
        /\ \A i \in DOMAIN events : events'[i] = events[i]
        /\ events'[Len(events) + 1] = e
        BY EventTypes, AppendFacts
  <1>2. ASSUME NEW i \in DOMAIN events'
        PROVE  \/ i \in DOMAIN events /\ events'[i] = events[i]
               \/ i = Len(events) + 1 /\ events'[i] = e
        BY <1>1
  <1>3. ASSUME Says(e, b) PROVE LastWord(b)'
    <2>1. Len(events) + 1 \in DOMAIN events' /\ \A j \in DOMAIN events' : ~(Len(events) + 1 < j)
          BY <1>1
    <2>2. Says(events'[Len(events) + 1], b)
          BY <1>1, <1>3
    <2> QED
        BY <2>1, <2>2 DEF LastWord, Says
  <1>4. ASSUME e.type = "Send", LastWord(b) PROVE LastWord(b)'
    <2>1. PICK i \in DOMAIN events : /\ Says(events[i], b)
                                     /\ \A j \in DOMAIN events : i < j => events[j].type = "Send"
          BY <1>4 DEF LastWord
    <2>2. i \in DOMAIN events' /\ Says(events'[i], b)
          BY <1>1, <2>1
    <2>3. \A j \in DOMAIN events' : i < j => events'[j].type = "Send"
          BY <1>2, <1>4, <2>1
    <2> QED
        BY <2>2, <2>3 DEF LastWord, Says
  <1>5. ASSUME e.type = "Send", UNCHANGED <<pump, told, access>>, Told(b) PROVE Told(b)'
    <2>1. \A i \in DOMAIN events' : events'[i].type = "Send"
          BY <1>2, <1>5 DEF Told
    <2> QED
        BY <1>5, <2>1 DEF Told, UpToDate, ToBeTold
  <1> QED
      BY <1>3, <1>4, <1>5

LEMMA ThreadKeepsOurs ==
  ASSUME ClipboardTypeOK, WireInv, OursInv, ThreadSteps
  PROVE  OursInv'
  <1> USE DEF compositorVars, clientVars
  <1> DEFINE P == device /\ NoNews
  <1>0. DataControlTypeOK /\ device \in BOOLEAN /\ UNCHANGED <<pump, told, access>>
        BY DEF ClipboardTypeOK, DataControlTypeOK, ThreadSteps, portalVars
  <1>1. SUFFICES ASSUME P' PROVE LastWord(source # None)' \/ Told(source # None)'
        BY DEF OursInv, NoNews, LastWord, Told
  <1>2. ASSUME P, source' = source, events' = events
        PROVE  LastWord(source # None)' \/ Told(source # None)'
        BY <1>0, <1>2 DEF OursInv, NoNews, LastWord, Told, UpToDate, ToBeTold
  <1>3. ASSUME NEW by, Replace(by), device
        PROVE  ~P'
    <2>1. \E i \in DOMAIN wire' : wire'[i] = Selection(current + 1)
          BY <1>0, <1>3, ReplaceFacts
    <2> QED
        BY <2>1 DEF NoNews, Selection
  <1>4. ASSUME NEW type \in {"Send", "Cancelled"}, NextOnWire(type), current' = current,
               offer' = offer, device' = device
        PROVE  P
    <2>1. /\ wire[1].type = type
          /\ \A i \in DOMAIN wire :
                wire[i] = wire[1] \/ \E j \in DOMAIN wire' : wire'[j] = wire[i]
          BY <1>0, <1>4, ReadingKeepsOrder
    <2> QED
        BY <1>1, <1>4, <2>1 DEF NoNews
  <1>5. CASE HandleClaim
        BY <1>1, <1>3, <1>5 DEF HandleClaim
  <1>6. CASE HandleRelease
    <2>1. device' = device /\ events' = events
          BY <1>6 DEF HandleRelease
    <2>2. source = None
          BY <1>1, <1>3, <1>6, <2>1 DEF HandleRelease
    <2> QED
        BY <1>1, <1>2, <1>6, <2>1, <2>2 DEF HandleRelease, NoNews
  <1>7. CASE LocalCopy
        BY <1>1, <1>3, <1>7 DEF LocalCopy
  <1>8. CASE SelectionEvent
    <2>1. /\ source' = source
          /\ events' = Append(events, ClipboardSelection(Head(wire).n, source # None))
          /\ NextOnWire("Selection")
          BY <1>8 DEF SelectionEvent
    <2>2. Head(wire).n \in Nat
      <3>1. wire # <<>> /\ 1 \in DOMAIN wire /\ Head(wire) = wire[1]
            BY <2>1, WireTypes, TailFacts, <1>0 DEF NextOnWire
      <3> QED
          BY <1>0, <3>1, WireTypes
    <2> DEFINE e == ClipboardSelection(Head(wire).n, source # None)
    <2>3. e \in WaylandEvent /\ Says(e, source # None)
      <3>1. e \in WaylandEvent
            BY <2>2, MessagesTyped
      <3> QED
          BY <3>1 DEF ClipboardSelection, Says
    <2>4. (source # None)' = (source # None)
          BY <2>1
    <2> HIDE DEF e
    <2>5. events' = Append(events, e)
          BY <2>1 DEF e
    <2>6. ASSUME NEW b \in BOOLEAN, b = (source # None)
          PROVE  LastWord(b)'
          BY <1>0, <2>3, <2>5, <2>6, AppendingKeepsWord
    <2> QED
        BY <2>4, <2>6 DEF LastWord, Says
  <1>9. CASE SendEvent
    <2>1. /\ source' = source /\ NextOnWire("Send") /\ current' = current /\ offer' = offer
          /\ device' = device
          BY <1>9 DEF SendEvent
    <2>2. P
          BY <1>4, <2>1
    <2>3. CASE events' = events
          BY <1>2, <2>1, <2>2, <2>3
    <2>4. CASE events' # events
      <3>1. events' = Append(events, ClipboardSend(source)) /\ source \in Nat \ {None}
            BY <1>0, <1>9, <2>1, <2>4, ThreadSendsEvents DEF SelectionEvent, CancelledEvent, NextOnWire
      <3>2. ClipboardSend(source) \in WaylandEvent /\ ClipboardSend(source).type = "Send"
            BY <3>1, MessagesTyped DEF ClipboardSend
      <3>3. ASSUME NEW b \in BOOLEAN
            PROVE  (LastWord(b) => LastWord(b)') /\ (Told(b) => Told(b)')
            BY <1>0, <3>1, <3>2, AppendingKeepsWord
      <3>4. PICK b \in BOOLEAN : b = (source # None)
            OBVIOUS
      <3>5. LastWord(b) \/ Told(b)
        <4>1. LastWord(source # None) \/ Told(source # None)
              BY <2>2, OursByParts
        <4> QED
            BY <3>4, <4>1
      <3>6. LastWord(b)' \/ Told(b)'
            BY <3>3, <3>5
      <3> QED
          BY <2>1, <3>4, <3>6 DEF LastWord, Told
    <2> QED
        BY <2>3, <2>4
  <1>10. CASE CancelledEvent
    <2>1. /\ NextOnWire("Cancelled") /\ current' = current /\ offer' = offer
          /\ device' = device
          BY <1>10 DEF CancelledEvent
    <2>2. P
          BY <1>4, <2>1
    <2>3. CASE Head(wire).n # source
          BY <1>2, <1>10, <2>2, <2>3 DEF CancelledEvent
    <2>4. CASE Head(wire).n = source
      <3>1. source' = None /\ events' = Append(events, ClipboardCancelled)
            BY <1>10, <2>4 DEF CancelledEvent
      <3>2. ClipboardCancelled \in WaylandEvent /\ Says(ClipboardCancelled, FALSE)
            BY MessagesTyped DEF ClipboardCancelled, Says
      <3>3. LastWord(FALSE)'
            BY <1>0, <3>1, <3>2, AppendingKeepsWord
      <3>4. (source' # None) = FALSE
            BY <3>1
      <3> QED
          BY <3>3, <3>4 DEF LastWord, Says
    <2> QED
        BY <2>3, <2>4
  <1>11. CASE WatchSeat
    <2>1. wire' = Append(wire, Selection(current)) /\ Selection(current) \in Wire /\ wire \in Seq(Wire)
          BY <1>0, <1>11, MessagesTyped, WireTypes DEF WatchSeat, None
    <2>2. Len(wire) + 1 \in DOMAIN wire' /\ wire'[Len(wire) + 1] = Selection(current)
      <3> DEFINE m == Selection(current)
      <3>1. m \in Wire /\ wire' = Append(wire, m)
            BY <2>1
      <3> HIDE DEF m
      <3>2. Len(wire) + 1 \in DOMAIN wire' /\ wire'[Len(wire) + 1] = m
            BY <2>1, <3>1
      <3> QED
          BY <3>2 DEF m
    <2> QED
        BY <1>1, <2>2 DEF NoNews, Selection
  <1>12. CASE Finished
        BY <1>1, <1>12 DEF Finished
  <1>13. CASE LocalPaste
    <2>1. wire' = Append(wire, Send(current)) /\ Send(current) \in Wire
          BY <1>0, <1>13, MessagesTyped, WireTypes DEF LocalPaste, None
    <2>2. \A i \in DOMAIN wire : i \in DOMAIN wire' /\ wire'[i] = wire[i]
      <3> DEFINE m == Send(current)
      <3>1. m \in Wire /\ wire' = Append(wire, m)
            BY <2>1
      <3> HIDE DEF m
      <3> QED
          BY <1>0, <3>1, WireTypes, AppendFacts
    <2>3. P /\ source' = source /\ events' = events
          BY <1>1, <1>13, <2>2 DEF LocalPaste, NoNews
    <2> QED
        BY <1>2, <2>3
  <1> QED
      BY <1>5, <1>6, <1>7, <1>8, <1>9, <1>10, <1>11, <1>12, <1>13
      DEF ThreadSteps, HandleCmd, WireEvent, Copying, Pasting

\* Taking the oldest event keeps the last word, or makes it the pump's.
LEMMA PumpingKeepsWord ==
  ASSUME DataControlTypeOK, NEW type, NextEvent(type), NEW b \in BOOLEAN
  PROVE  /\ LastWord(b) => \/ LastWord(b)'
                           \/ /\ Says(events[1], b) /\ type # "Send"
                              /\ \A i \in DOMAIN events' : events'[i].type = "Send"
         /\ Told(b) => /\ type = "Send"
                       /\ \A i \in DOMAIN events' : events'[i].type = "Send"
  <1>1. /\ 1 \in DOMAIN events /\ events[1].type = type
        /\ DOMAIN events = 1..Len(events) /\ Len(events) \in Nat
        /\ DOMAIN events' = 1..(Len(events) - 1)
        /\ \A i \in DOMAIN events' : /\ i + 1 \in DOMAIN events /\ i + 1 # 1
                                     /\ events'[i] = events[i + 1]
        /\ \A i \in DOMAIN events : i # 1 => i - 1 \in DOMAIN events' /\ events'[i - 1] = events[i]
        BY PumpFacts
  <1>2. ASSUME Told(b)
        PROVE  type = "Send" /\ \A i \in DOMAIN events' : events'[i].type = "Send"
        BY <1>1, <1>2 DEF Told
  <1>3. ASSUME LastWord(b), ~LastWord(b)'
        PROVE  /\ Says(events[1], b) /\ type # "Send"
               /\ \A i \in DOMAIN events' : events'[i].type = "Send"
    <2>1. PICK i \in DOMAIN events : /\ Says(events[i], b)
                                     /\ \A j \in DOMAIN events : i < j => events[j].type = "Send"
          BY <1>3 DEF LastWord
    <2>2. ASSUME NEW j \in DOMAIN events', i < j + 1
          PROVE  events'[j].type = "Send"
          BY <1>1, <2>1, <2>2
    <2>3. CASE i # 1
      <3>1. i - 1 \in DOMAIN events' /\ events'[i - 1] = events[i]
            BY <1>1, <2>3
      <3>2. \A j \in DOMAIN events' : i - 1 < j => i < j + 1
            BY <1>1
      <3>3. Says(events'[i - 1], b) /\ \A j \in DOMAIN events' : i - 1 < j => events'[j].type = "Send"
            BY <2>1, <2>2, <3>1, <3>2
      <3> QED
          BY <1>3, <3>1, <3>3 DEF LastWord, Says
    <2>4. CASE i = 1
      <3>1. \A j \in DOMAIN events' : i < j + 1
            BY <1>1, <2>4
      <3>2. type # "Send"
            BY <1>1, <2>1, <2>4 DEF Says
      <3> QED
          BY <2>1, <2>2, <2>4, <3>1, <3>2
    <2> QED
        BY <2>3, <2>4
  <1> QED
      BY <1>2, <1>3

\* Steps that tell nobody anything and make nobody's news current.
LEMMA CallsKeepOurs ==
  ASSUME ClipboardTypeOK, OursInv, Quiet, told' = told, pump' = pump,
         \A s \in Session : UpToDate(s)' => UpToDate(s)
  PROVE  OursInv'
  <1>1. device' = device /\ wire' = wire /\ events' = events /\ source' = source
        BY DEF Quiet, compositorVars, clientVars
  <1> QED
      BY <1>1 DEF OursInv

LEMMA PumpKeepsOurs ==
  ASSUME ClipboardTypeOK, OursInv, Pumping
  PROVE  OursInv'
  <1> USE DEF compositorVars, clientVars, trackerVars, dataControlVars
  <1>0. DataControlTypeOK /\ pump \in Pump /\ told \in [Session -> News]
        BY DEF ClipboardTypeOK
  <1>1. PICK b \in BOOLEAN : b = (source # None)
        OBVIOUS
  <1>2. device /\ NoNews => LastWord(b) \/ Told(b)
    <2>1. device /\ NoNews => LastWord(source # None) \/ Told(source # None)
          BY OursByParts
    <2> QED
        BY <1>1, <2>1
  <1>3. source' = source /\ device' = device /\ wire' = wire
        BY DEF Pumping, PumpSelection, PumpSend, PumpCancelled, PumpList, PumpTell
  <1>4. SUFFICES ASSUME device /\ NoNews PROVE LastWord(b)' \/ Told(b)'
    <2>1. (device /\ NoNews)' => (device /\ NoNews)
          BY <1>3 DEF NoNews
    <2> QED
        BY <1>1, <1>3, <2>1 DEF OursInv, NoNews, LastWord, Told
  <1>5. CASE PumpSelection
    <2>1. /\ NextEvent("Selection") /\ pump'.at = "list" /\ pump'.news.is_ours = Head(events).is_ours
          BY <1>5 DEF PumpSelection, Announce
    <2>2. Head(events) = events[1] /\ events[1].type = "Selection" /\ events[1].is_ours \in BOOLEAN
          BY <1>0, <2>1, PumpFacts, EventTypes
    <2>3. CASE LastWord(b)'
          BY <2>3
    <2>4. CASE Says(events[1], b) /\ \A i \in DOMAIN events' : events'[i].type = "Send"
      <3>1. pump'.news.is_ours <=> b
            BY <2>1, <2>2, <2>4 DEF Says
      <3>2. \A s \in Session : ~UpToDate(s)'
            BY <2>1 DEF UpToDate, ToBeTold
      <3> QED
          BY <2>4, <3>1, <3>2 DEF Told
    <2> QED
        BY <1>0, <1>2, <1>4, <2>1, <2>3, <2>4, PumpingKeepsWord
  <1>6. CASE PumpCancelled
    <2>1. /\ NextEvent("Cancelled") /\ pump'.at = "list" /\ pump'.news.is_ours = FALSE
          BY <1>6 DEF PumpCancelled, Announce
    <2>2. events[1].type = "Cancelled"
          BY <1>0, <2>1, PumpFacts
    <2>3. CASE LastWord(b)'
          BY <2>3
    <2>4. CASE Says(events[1], b) /\ \A i \in DOMAIN events' : events'[i].type = "Send"
      <3>1. pump'.news.is_ours <=> b
            BY <2>1, <2>2, <2>4 DEF Says
      <3>2. \A s \in Session : ~UpToDate(s)'
            BY <2>1 DEF UpToDate, ToBeTold
      <3> QED
          BY <2>4, <3>1, <3>2 DEF Told
    <2> QED
        BY <1>0, <1>2, <1>4, <2>1, <2>3, <2>4, PumpingKeepsWord
  <1>7. CASE PumpSend
    <2>1. /\ NextEvent("Send") /\ pump' = pump /\ told' = told /\ access' = access
          BY <1>7 DEF PumpSend
    <2>2. Told(b) /\ (\A i \in DOMAIN events' : events'[i].type = "Send") => Told(b)'
          BY <2>1 DEF Told, UpToDate, ToBeTold
    <2> QED
        BY <1>0, <1>2, <1>4, <2>1, <2>2, PumpingKeepsWord
  <1>8. CASE PumpList
    <2> DEFINE to == {s \in Session : access[s] = "clipboard"}
    <2>1. /\ pump.at = "list" /\ pump' = Telling(pump.news, to) /\ pump # Idle
          /\ told' = told /\ access' = access /\ events' = events
          BY <1>8 DEF PumpList, Idle
    <2>2. LastWord(b) => LastWord(b)'
          BY <2>1 DEF LastWord, Says
    <2>3. ASSUME Told(b) PROVE Told(b)'
      <3>1. ASSUME NEW u \in Session PROVE ~UpToDate(u)'
        <4>1. access[u] = "clipboard" => u \in to
              OBVIOUS
        <4> HIDE DEF to
        <4> QED
            BY <2>1, <4>1 DEF UpToDate, ToBeTold, Telling
      <3> HIDE DEF to
      <3>2. pump' # Idle => pump'.news = pump.news
            BY <2>1 DEF Telling
      <3> QED
          BY <2>1, <2>3, <3>1, <3>2 DEF Told
    <2> QED
        BY <1>2, <1>4, <2>2, <2>3
  <1>9. ASSUME NEW s \in Session, PumpTell(s)
        PROVE  LastWord(b)' \/ Told(b)'
    <2>1. /\ pump.at = "tell" /\ s \in pump.to /\ pump # Idle
          /\ told' = IF access[s] = "clipboard" THEN [told EXCEPT ![s] = pump.news] ELSE told
          /\ pump' = Telling(pump.news, pump.to \ {s})
          /\ access' = access /\ events' = events
          BY <1>9 DEF PumpTell, Idle
    <2>2. LastWord(b) => LastWord(b)'
          BY <2>1 DEF LastWord, Says
    <2>3. ASSUME Told(b) PROVE Told(b)'
      <3>1. pump' # Idle => pump'.news = pump.news
            BY <2>1 DEF Telling
      <3>2. ASSUME NEW u \in Session, u # s, UpToDate(u)'
            PROVE  UpToDate(u)
        <4>1. ~(pump'.at = "tell" /\ u \in pump'.to)
              BY <3>2 DEF UpToDate, ToBeTold
        <4>2. u \notin pump.to
              BY <2>1, <3>2, <4>1 DEF Telling
        <4> QED
            BY <1>0, <2>1, <3>2, <4>2 DEF UpToDate, ToBeTold
      <3>3. ASSUME NEW u \in Session, UpToDate(u)'
            PROVE  told'[u].is_ours <=> b
        <4>1. CASE u = s
          <5>1. told'[u] = pump.news
                BY <1>0, <2>1, <3>3, <4>1 DEF UpToDate
          <5> QED
              BY <2>1, <2>3, <5>1 DEF Told
        <4>2. CASE u # s
          <5>1. told'[u] = told[u] /\ UpToDate(u)
                BY <1>0, <2>1, <3>2, <3>3, <4>2
          <5> QED
              BY <2>3, <5>1 DEF Told
        <4> QED
            BY <4>1, <4>2
      <3> QED
          BY <2>1, <2>3, <3>1, <3>3 DEF Told
    <2> QED
        BY <1>2, <1>4, <2>2, <2>3
  <1> QED
      BY <1>5, <1>6, <1>7, <1>8, <1>9 DEF Pumping

LEMMA NextKeepsOurs ==
  ASSUME ClipboardTypeOK, WireInv, ToldInv, OursInv, Next
  PROVE  OursInv'
  <1> USE DEF trackerVars, dataControlVars
  <1>0. /\ access \in [Session -> {"absent", "plain", "clipboard"}]
        /\ told \in [Session -> News]
        BY DEF ClipboardTypeOK
  <1>1. ASSUME NEW s \in Session, CreateSession(s) \/ RequestClipboard(s), Quiet
        PROVE  OursInv'
    <2>1. ASSUME NEW u \in Session, UpToDate(u)'
          PROVE  u # s /\ UpToDate(u) /\ told'[u] = told[u]
          BY <1>0, <1>1, <2>1 DEF CreateSession, RequestClipboard, UpToDate, ToBeTold, ToldInv
    <2>2. device' = device /\ wire' = wire /\ events' = events /\ source' = source
          BY <1>1 DEF Quiet, compositorVars, clientVars
    <2>3. pump' = pump
          BY <1>1 DEF CreateSession, RequestClipboard
    <2> QED
        BY <2>1, <2>2, <2>3 DEF OursInv
  <1>2. ASSUME told' = told, pump' = pump, Quiet,
               \A u \in Session : access'[u] \in {access[u], "absent"}
        PROVE  OursInv'
    <2>1. \A u \in Session : UpToDate(u)' => UpToDate(u)
          BY <1>2 DEF UpToDate, ToBeTold
    <2> QED
        BY <1>2, <2>1, CallsKeepOurs
  <1>3. ASSUME NEW t \in Task, NEW s \in Session, Quiet,
               SetSelection(t, s) \/ UnsetSelection(t, s) \/ Close(t, s) \/ SelectionRead(t, s)
        PROVE  OursInv'
        BY <1>0, <1>2, <1>3 DEF SetSelection, UnsetSelection, Close, SelectionRead
  <1>4. ASSUME NEW s \in Session, NEW serial, SelectionWrite(s, serial), Quiet
        PROVE  OursInv'
        BY <1>2, <1>4 DEF SelectionWrite
  <1>5. ASSUME ControlClaim \/ (\E t \in Task : ControlRelease(t)), Quiet
        PROVE  OursInv'
        BY <1>2, <1>5 DEF ControlClaim, ControlRelease, portalVars
  <1>6. ASSUME Answering, Quiet
        PROVE  OursInv'
    <2>1. told' = told /\ pump' = pump /\ access' = access
          BY <1>6 DEF Answering, Own, SendClaim, CheckOwner, SendRelease, Disown
    <2> QED
        BY <1>2, <1>6, <2>1
  <1>7. ASSUME HandleRead, Quiet
        PROVE  OursInv'
        BY <1>2, <1>7 DEF HandleRead
  <1> QED
      BY <1>1, <1>3, <1>4, <1>5, <1>6, <1>7, CallsAreQuiet, PumpKeepsOurs, ThreadKeepsOurs
      DEF Next, Calling

----------------------------------------------------------------------------
(* The owner on record.                                                     *)

\* The four ways in which OwnerInv lets an owner be on record.
OwnerInTask == \E t \in Task : tasks[t].at \in {"claim", "disown"}
OwnerLosing == \E i \in DOMAIN events : events[i].type = "Cancelled"
OwnerAsking == \E i \in DOMAIN cmds :
                  /\ cmds[i].type = "Claim"
                  /\ \A j \in DOMAIN cmds : i < j => cmds[j].type # "Release"
OwnerHaving == /\ \A i \in DOMAIN cmds : cmds[i].type # "Release"
               /\ (source # None) \/ ignored
OwnerFound == OwnerInTask \/ OwnerLosing \/ OwnerAsking \/ OwnerHaving

LEMMA OwnerByParts == OwnerInv <=> (owner_session # NoOwner => OwnerFound)
  BY DEF OwnerInv, OwnerFound, OwnerInTask, OwnerLosing, OwnerAsking, OwnerHaving

\* A command that is not a release leaves a claim the last word; a claim is it.
LEMMA SendingKeepsAsking ==
  ASSUME cmds \in Seq(WaylandCmd), NEW m \in WaylandCmd, cmds' = Append(cmds, m),
         m.type # "Release"
  PROVE  /\ OwnerAsking \/ m.type = "Claim" => OwnerAsking'
         /\ OwnerHaving /\ source' = source /\ ignored' = ignored => OwnerHaving'
  <1>1. /\ DOMAIN cmds = 1..Len(cmds) /\ Len(cmds) \in Nat
        /\ DOMAIN cmds' = 1..(Len(cmds) + 1)
        /\ \A i \in DOMAIN cmds : cmds'[i] = cmds[i]
        /\ cmds'[Len(cmds) + 1] = m
        BY AppendFacts
  <1>2. ASSUME NEW i \in DOMAIN cmds'
        PROVE  \/ i \in DOMAIN cmds /\ cmds'[i] = cmds[i]
               \/ i = Len(cmds) + 1 /\ cmds'[i] = m
        BY <1>1
  <1>3. ASSUME OwnerAsking PROVE OwnerAsking'
    <2>1. PICK i \in DOMAIN cmds : /\ cmds[i].type = "Claim"
                                   /\ \A j \in DOMAIN cmds : i < j => cmds[j].type # "Release"
          BY <1>3 DEF OwnerAsking
    <2>2. i \in DOMAIN cmds' /\ cmds'[i] = cmds[i]
          BY <1>1
    <2>3. \A j \in DOMAIN cmds' : i < j => cmds'[j].type # "Release"
          BY <1>2, <2>1
    <2> QED
        BY <2>1, <2>2, <2>3 DEF OwnerAsking
  <1>4. ASSUME m.type = "Claim" PROVE OwnerAsking'
    <2>1. /\ Len(cmds) + 1 \in DOMAIN cmds'
          /\ \A j \in DOMAIN cmds' : ~(Len(cmds) + 1 < j)
          BY <1>1
    <2> QED
        BY <1>1, <1>4, <2>1 DEF OwnerAsking
  <1>5. ASSUME OwnerHaving, source' = source, ignored' = ignored PROVE OwnerHaving'
    <2>1. \A i \in DOMAIN cmds' : cmds'[i].type # "Release"
          BY <1>2, <1>5 DEF OwnerHaving
    <2> QED
        BY <1>5, <2>1 DEF OwnerHaving
  <1> QED
      BY <1>3, <1>4, <1>5

\* The thread takes a command that is not the claim, or the claim itself.
LEMMA TakingKeepsAsking ==
  ASSUME cmds \in Seq(WaylandCmd), cmds # <<>>, cmds' = Tail(cmds)
  PROVE  /\ OwnerAsking => \/ OwnerAsking'
                           \/ /\ Head(cmds).type = "Claim"
                              /\ \A i \in DOMAIN cmds' : cmds'[i].type # "Release"
         /\ OwnerHaving => /\ Head(cmds).type # "Release"
                           /\ \A i \in DOMAIN cmds' : cmds'[i].type # "Release"
  <1>1. /\ DOMAIN cmds = 1..Len(cmds) /\ Len(cmds) \in Nat /\ 1 \in DOMAIN cmds
        /\ DOMAIN cmds' = 1..(Len(cmds) - 1)
        /\ \A i \in DOMAIN cmds' : i + 1 \in DOMAIN cmds /\ cmds'[i] = cmds[i + 1]
        /\ \A i \in DOMAIN cmds : i # 1 => i - 1 \in DOMAIN cmds' /\ cmds'[i - 1] = cmds[i]
        /\ Head(cmds) = cmds[1]
        BY TailFacts
  <1>2. ASSUME OwnerAsking
        PROVE  \/ OwnerAsking'
               \/ /\ Head(cmds).type = "Claim"
                  /\ \A i \in DOMAIN cmds' : cmds'[i].type # "Release"
    <2>1. PICK i \in DOMAIN cmds : /\ cmds[i].type = "Claim"
                                   /\ \A j \in DOMAIN cmds : i < j => cmds[j].type # "Release"
          BY <1>2 DEF OwnerAsking
    <2>2. ASSUME NEW j \in DOMAIN cmds', i < j + 1 PROVE cmds'[j].type # "Release"
          BY <1>1, <2>1, <2>2
    <2>3. CASE i = 1
      <3>1. \A j \in DOMAIN cmds' : i < j + 1
            BY <1>1, <2>3
      <3> QED
          BY <1>1, <2>1, <2>2, <2>3, <3>1
    <2>4. CASE i # 1
      <3>1. i - 1 \in DOMAIN cmds' /\ cmds'[i - 1] = cmds[i]
            BY <1>1, <2>4
      <3>2. \A j \in DOMAIN cmds' : i - 1 < j => i < j + 1
            BY <1>1
      <3> QED
          BY <2>1, <2>2, <3>1, <3>2 DEF OwnerAsking
    <2> QED
        BY <2>3, <2>4
  <1>3. ASSUME OwnerHaving
        PROVE  /\ Head(cmds).type # "Release"
               /\ \A i \in DOMAIN cmds' : cmds'[i].type # "Release"
        BY <1>1, <1>3 DEF OwnerHaving
  <1> QED
      BY <1>2, <1>3

LEMMA AppendingKeepsLosing ==
  ASSUME events \in Seq(WaylandEvent), NEW e \in WaylandEvent, events' = Append(events, e)
  PROVE  OwnerLosing \/ e.type = "Cancelled" => OwnerLosing'
  <1>1. /\ DOMAIN events = 1..Len(events) /\ Len(events) \in Nat
        /\ DOMAIN events' = 1..(Len(events) + 1)
        /\ \A i \in DOMAIN events : events'[i] = events[i]
        /\ events'[Len(events) + 1] = e
        BY AppendFacts
  <1>2. Len(events) + 1 \in DOMAIN events' /\ \A i \in DOMAIN events : i \in DOMAIN events'
        BY <1>1
  <1> QED
      BY <1>1, <1>2 DEF OwnerLosing

\* A call that was at neither end of a claim goes on.
LEMMA CallKeepsOwner ==
  ASSUME tasks \in [Task -> Call], NEW t \in Task, tasks[t].at \notin {"claim", "disown"},
         NEW call, tasks' = [tasks EXCEPT ![t] = call], OwnerInTask
  PROVE  OwnerInTask'
  <1>1. PICK u \in Task : tasks[u].at \in {"claim", "disown"}
        BY DEF OwnerInTask
  <1>2. tasks'[u] = tasks[u]
        BY <1>1
  <1> QED
      BY <1>1, <1>2 DEF OwnerInTask

LEMMA CallingKeepsOwner ==
  ASSUME ClipboardTypeOK, OwnerInv, Calling, Quiet
  PROVE  OwnerInv'
  <1> USE DEF trackerVars, dataControlVars, compositorVars, clientVars
  <1>0. /\ tasks \in [Task -> Call] /\ cmds \in Seq(WaylandCmd)
        /\ events' = events /\ source' = source /\ ignored' = ignored
        BY DEF ClipboardTypeOK, DataControlTypeOK, Quiet
  <1>1. SUFFICES ASSUME owner_session' # NoOwner, owner_session' = owner_session => OwnerFound
                 PROVE  OwnerFound'
    <2>1. owner_session' # NoOwner /\ owner_session' = owner_session => OwnerFound
          BY OwnerByParts
    <2> QED
        BY <2>1 DEF OwnerInv, OwnerFound, OwnerInTask, OwnerLosing, OwnerAsking, OwnerHaving
  <1>2. OwnerLosing => OwnerLosing'
        BY <1>0 DEF OwnerLosing
  <1>3. ASSUME cmds' = cmds
        PROVE  (OwnerAsking => OwnerAsking') /\ (OwnerHaving => OwnerHaving')
        BY <1>0, <1>3 DEF OwnerAsking, OwnerHaving
  <1>4. ASSUME tasks' = tasks PROVE OwnerInTask => OwnerInTask'
        BY <1>4 DEF OwnerInTask
  <1>5. ASSUME NEW s \in Session, CreateSession(s) \/ RequestClipboard(s)
        PROVE  OwnerFound'
    <2>1. tasks' = tasks /\ cmds' = cmds /\ owner_session' = owner_session
          BY <1>5 DEF CreateSession, RequestClipboard
    <2> QED
        BY <1>1, <1>2, <1>3, <1>4, <2>1 DEF OwnerFound
  <1>6. ASSUME NEW t \in Task, NEW call, CallBegins(t, call), cmds' = cmds,
               owner_session' = owner_session
        PROVE  OwnerFound'
    <2>1. tasks[t].at \notin {"claim", "disown"} /\ tasks' = [tasks EXCEPT ![t] = call]
          BY <1>6 DEF CallBegins, Idle
    <2> QED
        BY <1>0, <1>1, <1>2, <1>3, <1>6, <2>1, CallKeepsOwner DEF OwnerFound
  <1>7. ASSUME NEW t \in Task, NEW s \in Session,
               SetSelection(t, s) \/ UnsetSelection(t, s) \/ Close(t, s)
        PROVE  OwnerFound'
    <2>1. /\ \E call \in Call : CallBegins(t, call)
          /\ cmds' = cmds /\ owner_session' = owner_session
          BY <1>7, CallsTyped DEF SetSelection, UnsetSelection, Close
    <2> QED
        BY <1>6, <2>1
  <1>8. ASSUME NEW t \in Task, ControlRelease(t)
        PROVE  OwnerFound'
    <2>1. /\ \E call \in Call : CallBegins(t, call)
          /\ cmds' = cmds /\ owner_session' = owner_session
          BY <1>8, CallsTyped DEF ControlRelease
    <2> QED
        BY <1>6, <2>1
  <1>9. ASSUME NEW t \in Task, NEW s \in Session, SelectionRead(t, s)
        PROVE  OwnerFound'
    <2>1. /\ ClipboardRead(t) \in WaylandCmd /\ ClipboardRead(t).type # "Release"
          BY MessagesTyped DEF ClipboardRead
    <2>2. /\ cmds' = Append(cmds, ClipboardRead(t)) /\ owner_session' = owner_session
          /\ tasks[t].at \notin {"claim", "disown"}
          /\ tasks' = [tasks EXCEPT ![t] = [at |-> "read"]]
          BY <1>9 DEF SelectionRead, Goes, Idle
    <2>3. OwnerInTask => OwnerInTask'
          BY <1>0, <2>2, CallKeepsOwner
    <2>4. (OwnerAsking => OwnerAsking') /\ (OwnerHaving => OwnerHaving')
          BY <1>0, <2>1, <2>2, SendingKeepsAsking
    <2> QED
        BY <1>1, <1>2, <2>2, <2>3, <2>4 DEF OwnerFound
  <1>10. ASSUME NEW s \in Session, NEW serial, SelectionWrite(s, serial)
         PROVE  OwnerFound'
    <2>1. tasks' = tasks /\ cmds' = cmds /\ owner_session' = owner_session
          BY <1>10 DEF SelectionWrite
    <2> QED
        BY <1>1, <1>2, <1>3, <1>4, <2>1 DEF OwnerFound
  <1>11. ASSUME ControlClaim
         PROVE  OwnerFound'
    <2>1. /\ ClipboardClaim("control") \in WaylandCmd
          /\ ClipboardClaim("control").type = "Claim"
          BY MessagesTyped DEF Ours, ClipboardClaim
    <2>2. cmds' = Append(cmds, ClipboardClaim("control"))
          BY <1>11 DEF ControlClaim
    <2> QED
        BY <1>0, <2>1, <2>2, SendingKeepsAsking DEF OwnerFound
  <1> QED
      BY <1>5, <1>7, <1>8, <1>9, <1>10, <1>11 DEF Calling

LEMMA AnsweringKeepsOwner ==
  ASSUME ClipboardTypeOK, OwnerInv, Answering, Quiet
  PROVE  OwnerInv'
  <1> USE DEF trackerVars, dataControlVars, compositorVars, clientVars
  <1>0. /\ tasks \in [Task -> Call] /\ cmds \in Seq(WaylandCmd)
        /\ events' = events /\ source' = source /\ ignored' = ignored
        BY DEF ClipboardTypeOK, DataControlTypeOK, Quiet
  <1>1. SUFFICES ASSUME owner_session' # NoOwner, owner_session' = owner_session => OwnerFound
                 PROVE  OwnerFound'
    <2>1. owner_session' # NoOwner /\ owner_session' = owner_session => OwnerFound
          BY OwnerByParts
    <2> QED
        BY <2>1 DEF OwnerInv, OwnerFound, OwnerInTask, OwnerLosing, OwnerAsking, OwnerHaving
  <1> PICK t \in Task : Own(t) \/ SendClaim(t) \/ CheckOwner(t) \/ SendRelease(t) \/ Disown(t)
      BY DEF Answering
  <1>2. CASE Own(t)
    <2>1. tasks'[t].at = "claim"
          BY <1>0, <1>2 DEF Own, Goes
    <2> QED
        BY <2>1 DEF OwnerFound, OwnerInTask
  <1>3. CASE SendClaim(t)
    <2>1. tasks[t] \in Call /\ tasks[t].at = "claim" /\ tasks[t].session \in Session
          BY <1>0, <1>3, CallsTyped DEF SendClaim
    <2> DEFINE m == ClipboardClaim(tasks[t].session)
    <2>2. m \in WaylandCmd /\ m.type = "Claim" /\ cmds' = Append(cmds, m)
          BY <1>3, <2>1, MessagesTyped DEF ClipboardClaim, Ours, SendClaim
    <2> HIDE DEF m
    <2> QED
        BY <1>0, <2>2, SendingKeepsAsking DEF OwnerFound
  <1>4. CASE CheckOwner(t)
    <2>1. /\ tasks[t].at \notin {"claim", "disown"} /\ cmds' = cmds
          /\ owner_session' = owner_session
          /\ \E call \in Call : tasks' = [tasks EXCEPT ![t] = call]
          BY <1>4, CallsTyped DEF CheckOwner, Goes
    <2>2. OwnerInTask => OwnerInTask'
          BY <1>0, <2>1, CallKeepsOwner
    <2>3. /\ OwnerLosing => OwnerLosing'
          /\ OwnerAsking => OwnerAsking'
          /\ OwnerHaving => OwnerHaving'
          BY <1>0, <2>1 DEF OwnerLosing, OwnerAsking, OwnerHaving
    <2> QED
        BY <1>1, <2>1, <2>2, <2>3 DEF OwnerFound
  <1>5. CASE SendRelease(t)
    <2>1. tasks'[t].at = "disown"
          BY <1>0, <1>5 DEF SendRelease, Goes
    <2> QED
        BY <2>1 DEF OwnerFound, OwnerInTask
  <1>6. CASE Disown(t)
        BY <1>1, <1>6 DEF Disown
  <1> QED
      BY <1>2, <1>3, <1>4, <1>5, <1>6

LEMMA HandleReadKeepsOwner ==
  ASSUME ClipboardTypeOK, ReadInv, OwnerInv, HandleRead
  PROVE  OwnerInv'
  <1> USE DEF trackerVars, compositorVars, clientVars
  <1>0. /\ tasks \in [Task -> Call] /\ cmds \in Seq(WaylandCmd)
        /\ cmds # <<>> /\ cmds' = Tail(cmds) /\ Head(cmds).type = "Read"
        /\ tasks' = [tasks EXCEPT ![Head(cmds).reply] = Idle]
        /\ owner_session' = owner_session
        /\ events' = events /\ source' = source /\ ignored' = ignored
        BY DEF ClipboardTypeOK, DataControlTypeOK, HandleRead, NextCmd, Goes
  <1>1. SUFFICES OwnerFound => OwnerFound'
    <2>1. owner_session' # NoOwner => OwnerFound
          BY <1>0, OwnerByParts
    <2> QED
        BY <2>1 DEF OwnerInv, OwnerFound, OwnerInTask, OwnerLosing, OwnerAsking, OwnerHaving
  <1>2. Head(cmds).reply \in Task /\ tasks[Head(cmds).reply].at = "read"
    <2>1. 1 \in DOMAIN cmds /\ Head(cmds) = cmds[1] /\ Head(cmds) \in WaylandCmd
          BY <1>0, TailFacts
    <2> QED
        BY <1>0, <2>1 DEF ReadInv, WaylandCmd, ClipboardRelease
  <1>3. OwnerInTask => OwnerInTask'
        BY <1>0, <1>2, CallKeepsOwner
  <1>4. OwnerLosing => OwnerLosing'
        BY <1>0 DEF OwnerLosing
  <1>5. OwnerAsking => OwnerAsking'
        BY <1>0, TakingKeepsAsking
  <1>6. OwnerHaving => OwnerHaving'
    <2>1. OwnerHaving => \A i \in DOMAIN cmds' : cmds'[i].type # "Release"
          BY <1>0, TakingKeepsAsking
    <2> QED
        BY <1>0, <2>1 DEF OwnerHaving
  <1> QED
      BY <1>3, <1>4, <1>5, <1>6 DEF OwnerFound

\* The pump takes a cancellation only together with the owner.
LEMMA PumpingKeepsLosing ==
  ASSUME ClipboardTypeOK, Pumping, ~PumpCancelled
  PROVE  OwnerLosing => OwnerLosing'
  <1> USE DEF trackerVars, dataControlVars
  <1>1. CASE PumpSelection \/ PumpSend
    <2>1. PICK type \in {"Selection", "Send"} : NextEvent(type)
          BY <1>1 DEF PumpSelection, PumpSend
    <2>2. /\ events[1].type # "Cancelled"
          /\ \A i \in DOMAIN events : i # 1 => i - 1 \in DOMAIN events' /\ events'[i - 1] = events[i]
          BY <2>1, PumpFacts DEF ClipboardTypeOK
    <2> QED
        BY <2>2 DEF OwnerLosing
  <1>2. CASE PumpList \/ \E s \in Session : PumpTell(s)
    <2>1. events' = events
          BY <1>2 DEF PumpList, PumpTell
    <2> QED
        BY <2>1 DEF OwnerLosing
  <1> QED
      BY <1>1, <1>2 DEF Pumping

LEMMA PumpingKeepsOwner ==
  ASSUME ClipboardTypeOK, OwnerInv, Pumping
  PROVE  OwnerInv'
  <1> USE DEF trackerVars, dataControlVars, compositorVars, clientVars
  <1>1. CASE PumpCancelled
        BY <1>1 DEF PumpCancelled, OwnerInv
  <1>2. CASE PumpSelection \/ PumpSend
    <2>1. /\ owner_session' = owner_session /\ cmds' = cmds /\ source' = source
          /\ tasks' = tasks /\ ignored' = ignored
          BY <1>2 DEF PumpSelection, PumpSend, BeginTransfer
    <2>2. ~PumpCancelled
          BY <1>2 DEF PumpSelection, PumpSend, PumpCancelled, NextEvent
    <2>3. OwnerLosing => OwnerLosing'
          BY <2>2, PumpingKeepsLosing
    <2>4. OwnerFound => OwnerFound'
          BY <2>1, <2>3 DEF OwnerFound, OwnerInTask, OwnerAsking, OwnerHaving
    <2> QED
        BY <2>1, <2>4, OwnerByParts
        DEF OwnerInv, OwnerFound, OwnerInTask, OwnerLosing, OwnerAsking, OwnerHaving
  <1>3. CASE PumpList \/ \E s \in Session : PumpTell(s)
    <2>1. /\ owner_session' = owner_session /\ cmds' = cmds /\ source' = source
          /\ tasks' = tasks /\ ignored' = ignored /\ events' = events
          BY <1>3 DEF PumpList, PumpTell
    <2> QED
        BY <2>1 DEF OwnerInv
  <1> QED
      BY <1>1, <1>2, <1>3 DEF Pumping

\* The thread takes nothing back.
LEMMA ThreadKeepsLosing ==
  ASSUME DataControlTypeOK, WireInv, ThreadSteps
  PROVE  OwnerLosing => OwnerLosing'
  <1>0. events \in Seq(WaylandEvent)
        BY DEF DataControlTypeOK
  <1>1. CASE events' = events
        BY <1>1 DEF OwnerLosing
  <1>2. CASE events' = Append(events, ClipboardSelection(offer', source # None)) /\ offer' \in Nat
    <2>1. ClipboardSelection(offer', source # None) \in WaylandEvent
          BY <1>2, MessagesTyped
    <2> QED
        BY <1>0, <1>2, <2>1, AppendingKeepsLosing
  <1>3. CASE events' = Append(events, ClipboardSend(source)) /\ source \in Nat \ {None}
    <2>1. ClipboardSend(source) \in WaylandEvent
          BY <1>3, MessagesTyped
    <2> QED
        BY <1>0, <1>3, <2>1, AppendingKeepsLosing
  <1>4. CASE events' = Append(events, ClipboardCancelled)
        BY <1>0, <1>4, MessagesTyped, AppendingKeepsLosing
  <1> QED
      BY <1>1, <1>2, <1>3, <1>4, ThreadSendsEvents

LEMMA ThreadKeepsOwner ==
  ASSUME ClipboardTypeOK, WireInv, OwnerInv, ThreadSteps
  PROVE  OwnerInv'
  <1> USE DEF compositorVars, clientVars
  <1>0. /\ DataControlTypeOK /\ tasks' = tasks /\ owner_session' = owner_session
        /\ cmds \in Seq(WaylandCmd) /\ events \in Seq(WaylandEvent)
        /\ source \in Nat /\ current \in Nat
        BY WireTypes DEF ClipboardTypeOK, DataControlTypeOK, ThreadSteps, portalVars, trackerVars
  <1>1. SUFFICES OwnerFound => OwnerFound'
    <2>1. owner_session' # NoOwner => OwnerFound
          BY <1>0, OwnerByParts
    <2> QED
        BY <2>1 DEF OwnerInv, OwnerFound, OwnerInTask, OwnerLosing, OwnerAsking, OwnerHaving
  <1>2. OwnerInTask => OwnerInTask'
        BY <1>0 DEF OwnerInTask
  <1>3. OwnerLosing => OwnerLosing'
        BY <1>0, ThreadKeepsLosing
  <1>4. ASSUME cmds' = cmds PROVE OwnerAsking => OwnerAsking'
        BY <1>4 DEF OwnerAsking
  <1>5. ASSUME cmds' = cmds, source' = source, ignored' = ignored
        PROVE  OwnerHaving => OwnerHaving'
        BY <1>5 DEF OwnerHaving
  <1>6. CASE HandleClaim
    <2>1. /\ cmds # <<>> /\ cmds' = Tail(cmds) /\ events' = events
          /\ ignored' = ~device
          /\ device => source' = current + 1
          BY <1>6 DEF HandleClaim, NextCmd
    <2>2. (source' # None) \/ ignored'
      <3>1. device => source' # None
            BY <1>0, <2>1 DEF None
      <3> QED
          BY <2>1, <3>1, Zenon
    <2>3. OwnerAsking \/ OwnerHaving => OwnerAsking' \/ OwnerHaving'
      <3>1. OwnerAsking \/ OwnerHaving =>
              OwnerAsking' \/ \A i \in DOMAIN cmds' : cmds'[i].type # "Release"
            BY <1>0, <2>1, TakingKeepsAsking
      <3> QED
          BY <2>2, <3>1 DEF OwnerHaving
    <2> QED
        BY <1>2, <1>3, <2>1, <2>3 DEF OwnerFound
  <1>7. CASE HandleRelease
    <2>1. /\ cmds # <<>> /\ cmds' = Tail(cmds) /\ events' = events
          /\ Head(cmds).type = "Release"
          BY <1>7 DEF HandleRelease, NextCmd
    <2>2. OwnerAsking \/ OwnerHaving => OwnerAsking'
          BY <1>0, <2>1, TakingKeepsAsking
    <2> QED
        BY <1>2, <1>3, <2>1, <2>2 DEF OwnerFound
  <1>8. CASE SelectionEvent \/ SendEvent
    <2>1. cmds' = cmds /\ source' = source /\ ignored' = ignored
          BY <1>8 DEF SelectionEvent, SendEvent
    <2> QED
        BY <1>2, <1>3, <1>4, <1>5, <2>1 DEF OwnerFound
  <1>9. CASE CancelledEvent
    <2>1. cmds' = cmds /\ ignored' = ignored
          BY <1>9 DEF CancelledEvent
    <2>2. CASE Head(wire).n = source
      <3>1. /\ ClipboardCancelled \in WaylandEvent /\ ClipboardCancelled.type = "Cancelled"
            /\ events' = Append(events, ClipboardCancelled)
            BY <1>9, <2>2, MessagesTyped DEF CancelledEvent, ClipboardCancelled
      <3> QED
          BY <1>0, <3>1, AppendingKeepsLosing DEF OwnerFound
    <2>3. CASE Head(wire).n # source
      <3>1. source' = source /\ events' = events
            BY <1>9, <2>3 DEF CancelledEvent
      <3> QED
          BY <1>2, <1>3, <1>4, <1>5, <2>1, <3>1 DEF OwnerFound
    <2> QED
        BY <2>2, <2>3
  <1>10. CASE WatchSeat \/ Finished \/ LocalCopy \/ LocalPaste
    <2>1. cmds' = cmds /\ ignored' = ignored /\ source' = source /\ events' = events
          BY <1>10 DEF WatchSeat, Finished, LocalCopy, LocalPaste
    <2> QED
        BY <1>2, <1>3, <1>4, <1>5, <2>1 DEF OwnerFound
  <1> QED
      BY <1>6, <1>7, <1>8, <1>9, <1>10 DEF ThreadSteps, HandleCmd, WireEvent, Copying, Pasting

----------------------------------------------------------------------------
(* The owner on record and the maker of the selection.                      *)

\* The four ways in which MakerInv lets an owner be on record.
MakerAsking == \E i \in DOMAIN cmds :
                  /\ cmds[i] = ClipboardClaim(owner_session)
                  /\ \A j \in DOMAIN cmds : i < j => cmds[j].type # "Claim"
MakerMade == /\ \A i \in DOMAIN cmds : cmds[i].type # "Claim"
             /\ source = current /\ ~ignored => maker = owner_session
MakerFound == OwnerInTask \/ OwnerLosing \/ MakerAsking \/ MakerMade

LEMMA MakerByParts == MakerInv <=> (owner_session # NoOwner /\ ~overtaken => MakerFound)
  BY DEF MakerInv, MakerFound, OwnerInTask, OwnerLosing, MakerAsking, MakerMade

\* A command that is no claim leaves the owner's the last one; the owner's is it.
LEMMA SendingKeepsMaker ==
  ASSUME cmds \in Seq(WaylandCmd), NEW m \in WaylandCmd, cmds' = Append(cmds, m),
         owner_session' = owner_session
  PROVE  /\ m = ClipboardClaim(owner_session) => MakerAsking'
         /\ m.type # "Claim" /\ MakerAsking => MakerAsking'
         /\ m.type # "Claim" /\ MakerMade /\ UNCHANGED <<source, current, ignored, maker>>
              => MakerMade'
  <1>1. /\ DOMAIN cmds = 1..Len(cmds) /\ Len(cmds) \in Nat
        /\ DOMAIN cmds' = 1..(Len(cmds) + 1)
        /\ \A i \in DOMAIN cmds : cmds'[i] = cmds[i]
        /\ cmds'[Len(cmds) + 1] = m
        BY AppendFacts
  <1>2. ASSUME NEW i \in DOMAIN cmds'
        PROVE  \/ i \in DOMAIN cmds /\ cmds'[i] = cmds[i]
               \/ i = Len(cmds) + 1 /\ cmds'[i] = m
        BY <1>1
  <1>3. ASSUME m = ClipboardClaim(owner_session) PROVE MakerAsking'
    <2>1. /\ Len(cmds) + 1 \in DOMAIN cmds'
          /\ \A j \in DOMAIN cmds' : ~(Len(cmds) + 1 < j)
          BY <1>1
    <2> QED
        BY <1>1, <1>3, <2>1 DEF MakerAsking, ClipboardClaim
  <1>4. ASSUME m.type # "Claim", MakerAsking PROVE MakerAsking'
    <2>1. PICK i \in DOMAIN cmds : /\ cmds[i] = ClipboardClaim(owner_session)
                                   /\ \A j \in DOMAIN cmds : i < j => cmds[j].type # "Claim"
          BY <1>4 DEF MakerAsking
    <2>2. i \in DOMAIN cmds' /\ cmds'[i] = cmds[i]
          BY <1>1
    <2>3. \A j \in DOMAIN cmds' : i < j => cmds'[j].type # "Claim"
          BY <1>2, <1>4, <2>1
    <2> QED
        BY <2>1, <2>2, <2>3 DEF MakerAsking, ClipboardClaim
  <1>5. ASSUME m.type # "Claim", MakerMade, UNCHANGED <<source, current, ignored, maker>>
        PROVE  MakerMade'
    <2>1. \A i \in DOMAIN cmds' : cmds'[i].type # "Claim"
          BY <1>2, <1>5 DEF MakerMade
    <2> QED
        BY <1>5, <2>1 DEF MakerMade
  <1> QED
      BY <1>3, <1>4, <1>5

\* The thread takes a command that is not the owner's claim, or that very claim.
LEMMA TakingKeepsMaker ==
  ASSUME cmds \in Seq(WaylandCmd), cmds # <<>>, cmds' = Tail(cmds),
         owner_session' = owner_session
  PROVE  /\ MakerAsking => \/ MakerAsking'
                           \/ /\ Head(cmds) = ClipboardClaim(owner_session)
                              /\ \A i \in DOMAIN cmds' : cmds'[i].type # "Claim"
         /\ MakerMade => /\ Head(cmds).type # "Claim"
                         /\ \A i \in DOMAIN cmds' : cmds'[i].type # "Claim"
  <1>1. /\ DOMAIN cmds = 1..Len(cmds) /\ Len(cmds) \in Nat /\ 1 \in DOMAIN cmds
        /\ DOMAIN cmds' = 1..(Len(cmds) - 1)
        /\ \A i \in DOMAIN cmds' : i + 1 \in DOMAIN cmds /\ cmds'[i] = cmds[i + 1]
        /\ \A i \in DOMAIN cmds : i # 1 => i - 1 \in DOMAIN cmds' /\ cmds'[i - 1] = cmds[i]
        /\ Head(cmds) = cmds[1]
        BY TailFacts
  <1>2. ASSUME MakerAsking
        PROVE  \/ MakerAsking'
               \/ /\ Head(cmds) = ClipboardClaim(owner_session)
                  /\ \A i \in DOMAIN cmds' : cmds'[i].type # "Claim"
    <2>1. PICK i \in DOMAIN cmds : /\ cmds[i] = ClipboardClaim(owner_session)
                                   /\ \A j \in DOMAIN cmds : i < j => cmds[j].type # "Claim"
          BY <1>2 DEF MakerAsking
    <2>2. ASSUME NEW j \in DOMAIN cmds', i < j + 1 PROVE cmds'[j].type # "Claim"
          BY <1>1, <2>1, <2>2
    <2>3. CASE i = 1
      <3>1. \A j \in DOMAIN cmds' : i < j + 1
            BY <1>1, <2>3
      <3> QED
          BY <1>1, <2>1, <2>2, <2>3, <3>1
    <2>4. CASE i # 1
      <3>1. i - 1 \in DOMAIN cmds' /\ cmds'[i - 1] = cmds[i]
            BY <1>1, <2>4
      <3>2. \A j \in DOMAIN cmds' : i - 1 < j => i < j + 1
            BY <1>1
      <3> QED
          BY <2>1, <2>2, <3>1, <3>2 DEF MakerAsking, ClipboardClaim
    <2> QED
        BY <2>3, <2>4
  <1>3. ASSUME MakerMade
        PROVE  /\ Head(cmds).type # "Claim"
               /\ \A i \in DOMAIN cmds' : cmds'[i].type # "Claim"
        BY <1>1, <1>3 DEF MakerMade
  <1> QED
      BY <1>2, <1>3

\* What leaves the record, the claims and the selection as they are.
LEMMA RestKeepsMaker ==
  ASSUME UNCHANGED <<owner_session, overtaken, cmds, current, maker, source, ignored>>,
         MakerInv, OwnerInTask => OwnerInTask', OwnerLosing => OwnerLosing'
  PROVE  MakerInv'
  <1>1. (MakerAsking => MakerAsking') /\ (MakerMade => MakerMade')
        BY DEF MakerAsking, MakerMade, ClipboardClaim
  <1>2. owner_session' # NoOwner /\ ~overtaken' => MakerFound'
        BY <1>1, MakerByParts DEF MakerFound
  <1> QED
      BY <1>2 DEF MakerInv, MakerFound, OwnerInTask, OwnerLosing, MakerAsking, MakerMade

LEMMA CallingKeepsMaker ==
  ASSUME ClipboardTypeOK, MakerInv, Calling, Quiet
  PROVE  MakerInv'
  <1> USE DEF trackerVars, dataControlVars, compositorVars, clientVars
  <1>0. /\ tasks \in [Task -> Call] /\ cmds \in Seq(WaylandCmd)
        /\ UNCHANGED <<events, current, maker, source, ignored>>
        BY DEF ClipboardTypeOK, DataControlTypeOK, Quiet
  <1>1. OwnerLosing => OwnerLosing'
        BY <1>0 DEF OwnerLosing
  <1>2. ASSUME tasks' = tasks PROVE OwnerInTask => OwnerInTask'
        BY <1>2 DEF OwnerInTask
  <1>3. ASSUME NEW s \in Session, NEW serial,
               CreateSession(s) \/ RequestClipboard(s) \/ SelectionWrite(s, serial)
        PROVE  MakerInv'
    <2>1. tasks' = tasks /\ UNCHANGED <<cmds, owner_session, overtaken>>
          BY <1>3 DEF CreateSession, RequestClipboard, SelectionWrite
    <2> QED
        BY <1>0, <1>1, <1>2, <2>1, RestKeepsMaker
  <1>4. ASSUME NEW t \in Task, NEW call, CallBegins(t, call),
               UNCHANGED <<cmds, owner_session, overtaken>>
        PROVE  MakerInv'
    <2>1. tasks[t].at \notin {"claim", "disown"} /\ tasks' = [tasks EXCEPT ![t] = call]
          BY <1>4 DEF CallBegins, Idle
    <2>2. OwnerInTask => OwnerInTask'
          BY <1>0, <2>1, CallKeepsOwner
    <2> QED
        BY <1>0, <1>1, <1>4, <2>2, RestKeepsMaker
  <1>5. ASSUME NEW t \in Task, NEW s \in Session,
               \/ SetSelection(t, s) \/ UnsetSelection(t, s)
               \/ Close(t, s) \/ ControlRelease(t)
        PROVE  MakerInv'
    <2>1. /\ \E call \in Call : CallBegins(t, call)
          /\ UNCHANGED <<cmds, owner_session, overtaken>>
          BY <1>5, CallsTyped DEF SetSelection, UnsetSelection, Close, ControlRelease
    <2> QED
        BY <1>4, <2>1
  <1>6. ASSUME NEW t \in Task, ControlRelease(t)
        PROVE  MakerInv'
    <2>1. /\ \E call \in Call : CallBegins(t, call)
          /\ UNCHANGED <<cmds, owner_session, overtaken>>
          BY <1>6, CallsTyped DEF ControlRelease
    <2> QED
        BY <1>4, <2>1
  <1>7. ASSUME NEW t \in Task, NEW s \in Session, SelectionRead(t, s)
        PROVE  MakerInv'
    <2>1. ClipboardRead(t) \in WaylandCmd /\ ClipboardRead(t).type # "Claim"
          BY MessagesTyped DEF ClipboardRead
    <2>2. /\ cmds' = Append(cmds, ClipboardRead(t))
          /\ UNCHANGED <<owner_session, overtaken>>
          /\ tasks[t].at \notin {"claim", "disown"}
          /\ tasks' = [tasks EXCEPT ![t] = [at |-> "read"]]
          BY <1>7 DEF SelectionRead, Goes, Idle
    <2>3. OwnerInTask => OwnerInTask'
          BY <1>0, <2>2, CallKeepsOwner
    <2>4. (MakerAsking => MakerAsking') /\ (MakerMade => MakerMade')
          BY <1>0, <2>1, <2>2, SendingKeepsMaker
    <2>5. owner_session' # NoOwner /\ ~overtaken' => MakerFound'
          BY <1>1, <2>2, <2>3, <2>4, MakerByParts DEF MakerFound
    <2> QED
        BY <2>5 DEF MakerInv, MakerFound, OwnerInTask, OwnerLosing, MakerAsking, MakerMade
  <1>8. ASSUME ControlClaim
        PROVE  MakerInv'
        BY <1>8 DEF ControlClaim, MakerInv
  <1> QED
      BY <1>3, <1>5, <1>6, <1>7, <1>8 DEF Calling

LEMMA AnsweringKeepsMaker ==
  ASSUME ClipboardTypeOK, MakerInv, Answering, Quiet
  PROVE  MakerInv'
  <1> USE DEF trackerVars, dataControlVars, compositorVars, clientVars
  <1>0. /\ tasks \in [Task -> Call] /\ cmds \in Seq(WaylandCmd)
        /\ UNCHANGED <<events, current, maker, source, ignored>>
        BY DEF ClipboardTypeOK, DataControlTypeOK, Quiet
  <1> PICK t \in Task : Own(t) \/ SendClaim(t) \/ CheckOwner(t) \/ SendRelease(t) \/ Disown(t)
      BY DEF Answering
  <1>1. CASE Own(t) \/ SendRelease(t)
    <2>1. tasks'[t].at \in {"claim", "disown"}
          BY <1>0, <1>1 DEF Own, SendRelease, Goes
    <2> QED
        BY <2>1 DEF MakerInv
  <1>2. CASE SendClaim(t)
    <2>1. tasks[t] \in Call /\ tasks[t].at = "claim" /\ tasks[t].session \in Session
          BY <1>0, <1>2, CallsTyped DEF SendClaim
    <2> DEFINE m == ClipboardClaim(tasks[t].session)
    <2>2. /\ m \in WaylandCmd /\ cmds' = Append(cmds, m)
          /\ owner_session' = owner_session
          /\ ~overtaken' => m = ClipboardClaim(owner_session)
          BY <1>2, <2>1, MessagesTyped DEF ClipboardClaim, Ours, SendClaim
    <2> HIDE DEF m
    <2>3. ~overtaken' => MakerAsking'
          BY <1>0, <2>2, SendingKeepsMaker
    <2> QED
        BY <2>3 DEF MakerInv, MakerAsking
  <1>3. CASE CheckOwner(t)
    <2>1. /\ tasks[t].at \notin {"claim", "disown"}
          /\ UNCHANGED <<cmds, owner_session, overtaken>>
          /\ \E call \in Call : tasks' = [tasks EXCEPT ![t] = call]
          BY <1>3, CallsTyped DEF CheckOwner, Goes
    <2>2. OwnerInTask => OwnerInTask'
          BY <1>0, <2>1, CallKeepsOwner
    <2>3. OwnerLosing => OwnerLosing'
          BY <1>0 DEF OwnerLosing
    <2> QED
        BY <1>0, <2>1, <2>2, <2>3, RestKeepsMaker
  <1>4. CASE Disown(t)
        BY <1>4 DEF Disown, MakerInv
  <1> QED
      BY <1>1, <1>2, <1>3, <1>4

LEMMA HandleReadKeepsMaker ==
  ASSUME ClipboardTypeOK, ReadInv, MakerInv, HandleRead
  PROVE  MakerInv'
  <1> USE DEF trackerVars, compositorVars, clientVars
  <1>0. /\ tasks \in [Task -> Call] /\ cmds \in Seq(WaylandCmd)
        /\ cmds # <<>> /\ cmds' = Tail(cmds) /\ Head(cmds).type = "Read"
        /\ tasks' = [tasks EXCEPT ![Head(cmds).reply] = Idle]
        /\ UNCHANGED <<owner_session, overtaken, events, current, maker, source, ignored>>
        BY DEF ClipboardTypeOK, DataControlTypeOK, HandleRead, NextCmd, Goes
  <1>1. Head(cmds).reply \in Task /\ tasks[Head(cmds).reply].at = "read"
    <2>1. 1 \in DOMAIN cmds /\ Head(cmds) = cmds[1] /\ Head(cmds) \in WaylandCmd
          BY <1>0, TailFacts
    <2> QED
        BY <1>0, <2>1 DEF ReadInv, WaylandCmd, ClipboardRelease
  <1>2. OwnerInTask => OwnerInTask'
        BY <1>0, <1>1, CallKeepsOwner
  <1>3. OwnerLosing => OwnerLosing'
        BY <1>0 DEF OwnerLosing
  <1>4. MakerAsking => MakerAsking'
        BY <1>0, TakingKeepsMaker DEF ClipboardClaim
  <1>5. MakerMade => MakerMade'
    <2>1. MakerMade => \A i \in DOMAIN cmds' : cmds'[i].type # "Claim"
          BY <1>0, TakingKeepsMaker
    <2> QED
        BY <1>0, <2>1 DEF MakerMade
  <1>6. owner_session' # NoOwner /\ ~overtaken' => MakerFound'
        BY <1>0, <1>2, <1>3, <1>4, <1>5, MakerByParts DEF MakerFound
  <1> QED
      BY <1>6 DEF MakerInv, MakerFound, OwnerInTask, OwnerLosing, MakerAsking, MakerMade

LEMMA PumpingKeepsMaker ==
  ASSUME ClipboardTypeOK, MakerInv, Pumping
  PROVE  MakerInv'
  <1> USE DEF trackerVars, dataControlVars, compositorVars, clientVars
  <1>1. CASE PumpCancelled
        BY <1>1 DEF PumpCancelled, MakerInv
  <1>2. CASE ~PumpCancelled
    <2>1. UNCHANGED <<owner_session, overtaken, cmds, current, maker, source, ignored, tasks>>
          BY <1>2 DEF Pumping, PumpSelection, PumpSend, BeginTransfer, PumpList, PumpTell
    <2>2. OwnerInTask => OwnerInTask'
          BY <2>1 DEF OwnerInTask
    <2> QED
        BY <1>2, <2>1, <2>2, PumpingKeepsLosing, RestKeepsMaker
  <1> QED
      BY <1>1, <1>2

LEMMA ThreadKeepsMaker ==
  ASSUME ClipboardTypeOK, WireInv, MakerInv, ThreadSteps
  PROVE  MakerInv'
  <1> USE DEF compositorVars, clientVars
  <1>0. /\ DataControlTypeOK /\ UNCHANGED <<tasks, owner_session, overtaken>>
        /\ cmds \in Seq(WaylandCmd) /\ events \in Seq(WaylandEvent)
        /\ source \in Nat /\ current \in Nat /\ current # 0 /\ source <= current
        BY DEF ClipboardTypeOK, DataControlTypeOK, ThreadSteps, portalVars, trackerVars, None
  <1>1. SUFFICES MakerFound => MakerFound'
    <2>1. owner_session' # NoOwner /\ ~overtaken' => MakerFound
          BY <1>0, MakerByParts
    <2> QED
        BY <2>1 DEF MakerInv, MakerFound, OwnerInTask, OwnerLosing, MakerAsking, MakerMade
  <1>2. OwnerInTask => OwnerInTask'
        BY <1>0 DEF OwnerInTask
  <1>3. OwnerLosing => OwnerLosing'
        BY ThreadKeepsLosing DEF ClipboardTypeOK
  <1>4. ASSUME cmds' = cmds PROVE MakerAsking => MakerAsking'
        BY <1>0, <1>4 DEF MakerAsking, ClipboardClaim
  <1>5. ASSUME UNCHANGED <<cmds, current, maker, source, ignored>>
        PROVE  MakerMade => MakerMade'
        BY <1>0, <1>5 DEF MakerMade
  <1>6. CASE HandleClaim
    <2>1. /\ cmds # <<>> /\ cmds' = Tail(cmds) /\ ignored' = ~device
          /\ device => maker' = Head(cmds).by
          /\ Head(cmds).type = "Claim"
          BY <1>6 DEF HandleClaim, NextCmd, Replace
    <2>2. ~MakerMade
          BY <1>0, <2>1, TakingKeepsMaker
    <2>3. MakerAsking => MakerAsking' \/ MakerMade'
      <3>1. ASSUME Head(cmds) = ClipboardClaim(owner_session),
                   \A i \in DOMAIN cmds' : cmds'[i].type # "Claim"
            PROVE  MakerMade'
        <4>1. device => maker' = owner_session'
              BY <1>0, <2>1, <3>1 DEF ClipboardClaim
        <4>2. ~ignored' => device
              BY <2>1, Zenon
        <4> QED
            BY <3>1, <4>1, <4>2 DEF MakerMade
      <3> QED
          BY <1>0, <2>1, <3>1, TakingKeepsMaker
    <2> QED
        BY <1>2, <1>3, <2>2, <2>3 DEF MakerFound
  <1>7. CASE HandleRelease
    <2>1. /\ cmds # <<>> /\ cmds' = Tail(cmds) /\ Head(cmds).type = "Release"
          /\ source' = 0 /\ current' \in {current, current + 1}
          BY <1>7 DEF HandleRelease, NextCmd, Replace, None
    <2>2. source' # current'
          BY <1>0, <2>1
    <2>3. MakerAsking => MakerAsking'
          BY <1>0, <2>1, TakingKeepsMaker DEF ClipboardClaim
    <2>4. MakerMade => MakerMade'
      <3>1. MakerMade => \A i \in DOMAIN cmds' : cmds'[i].type # "Claim"
            BY <1>0, <2>1, TakingKeepsMaker
      <3> QED
          BY <2>2, <3>1 DEF MakerMade
    <2> QED
        BY <1>2, <1>3, <2>3, <2>4 DEF MakerFound
  <1>8. CASE LocalCopy
    <2>1. cmds' = cmds /\ source' = source /\ current' = current + 1
          BY <1>8 DEF LocalCopy, Replace
    <2>2. source' # current'
          BY <1>0, <2>1
    <2>3. MakerMade => MakerMade'
          BY <2>1, <2>2 DEF MakerMade
    <2> QED
        BY <1>2, <1>3, <1>4, <2>1, <2>3 DEF MakerFound
  <1>9. CASE CancelledEvent /\ Head(wire).n = source
    <2>1. /\ ClipboardCancelled \in WaylandEvent /\ ClipboardCancelled.type = "Cancelled"
          /\ events' = Append(events, ClipboardCancelled)
          BY <1>9, MessagesTyped DEF CancelledEvent, ClipboardCancelled
    <2> QED
        BY <1>0, <2>1, AppendingKeepsLosing DEF MakerFound
  <1>10. CASE \/ CancelledEvent /\ Head(wire).n # source
              \/ SelectionEvent \/ SendEvent \/ WatchSeat \/ Finished \/ LocalPaste
    <2>1. UNCHANGED <<cmds, current, maker, source, ignored>>
          BY <1>10
          DEF CancelledEvent, SelectionEvent, SendEvent, WatchSeat, Finished, LocalPaste
    <2> QED
        BY <1>2, <1>3, <1>4, <1>5, <2>1 DEF MakerFound
  <1> QED
      BY <1>6, <1>7, <1>8, <1>9, <1>10 DEF ThreadSteps, HandleCmd, WireEvent, Copying, Pasting

----------------------------------------------------------------------------
(* The invariant, and what follows from it.                                 *)

LEMMA InitEstablishesInv ==
  ASSUME Init
  PROVE  ClipboardInv
  <1>0. MAX_PENDING_TRANSFERS \in Nat /\ 0 <= MAX_PENDING_TRANSFERS
    <2>1. MAX_PENDING_TRANSFERS \in Nat
          BY ClipboardAssumption
    <2> QED
        BY <2>1
  <1>1. "others" \notin Ours
        BY DataControlAssumption DEF Ours
  <1> USE DEF Init, DataControlInit, ClipboardInit
  <1>2. DataControlTypeOK
    <2>1. current = 1 /\ source = 0 /\ offer = 0 /\ current \in Nat \ {None}
          BY DEF None
    <2>2. wire \in Seq(Wire) /\ cmds \in Seq(WaylandCmd) /\ events \in Seq(WaylandEvent)
          OBVIOUS
    <2>3. maker \in Ours \cup {"others"} /\ device \in BOOLEAN /\ ignored \in BOOLEAN
          OBVIOUS
    <2>4. source \in 0..current /\ offer \in 0..current
          BY <2>1
    <2> QED
        BY <2>1, <2>2, <2>3, <2>4 DEF DataControlTypeOK
  <1>3. PortalTypes
    <2>1. Untold \in News /\ mime_types \in Nat
          BY DEF Untold, News, None
    <2>2. tasks \in [Task -> Call]
          BY CallsTyped
    <2>3. pump \in Pump
          BY DEF Pump, Idle
    <2> QED
        BY <2>1, <2>2, <2>3 DEF PortalTypes
  <1>4. TransferInv
    <2>1. DOMAIN transfers = {} /\ transfers \in [DOMAIN transfers -> Nat \ {None}]
          OBVIOUS
    <2> QED
        BY <1>0, <2>1 DEF TransferInv, Ordered
  <1>5. ClipboardTypeOK
        BY <1>2, <1>3, <1>4, TypesFromParts
  <1>6. WireInv
        BY <1>1 DEF WireInv, None
  <1>7. ToldInv
    <2>1. \A s \in Session : told[s] = Untold
          OBVIOUS
    <2>2. pump = Idle /\ mime_types = 0 /\ offer = 0 /\ Untold.mime_types = 0
          BY DEF Untold, None
    <2>3. \A s \in Session : ~UpToDate(s)
          BY <2>1 DEF UpToDate
    <2> QED
        BY <2>1, <2>2, <2>3 DEF ToldInv
  <1>8. OursInv /\ OwnerInv /\ MakerInv
        BY DEF OursInv, OwnerInv, MakerInv
  <1>9. ReadInv
        BY DEF ReadInv
  <1>10. EventInv
        BY DEF EventInv, None
  <1> QED
      BY <1>4, <1>5, <1>6, <1>7, <1>8, <1>9, <1>10 DEF ClipboardInv

LEMMA NextKeepsTypes ==
  ASSUME ClipboardTypeOK, ReadInv, TransferInv, WireInv, Next
  PROVE  ClipboardTypeOK' /\ TransferInv' /\ ReadInv'
  <1>1. DataControlTypeOK' /\ PortalTypes' /\ TransferInv' /\ ReadInv'
        BY CallingKeepsTypes, AnsweringKeepsTypes, PumpingKeepsTypes, HandleReadKeepsTypes,
           ThreadStepKeepsReads
        DEF Next
  <1>2. ClipboardTypeOK'
    <2>1. order' \in Seq(Nat) /\ next_serial' \in Nat
          BY <1>1 DEF TransferInv, Ordered
    <2>2. transfers' \in [DOMAIN transfers' -> Nat \ {None}]
          BY <1>1 DEF TransferInv
    <2>3. DOMAIN transfers' \subseteq Nat \ {0}
      <3> SUFFICES ASSUME NEW n \in DOMAIN transfers' PROVE n \in Nat \ {0}
          OBVIOUS
      <3>1. PICK i \in DOMAIN order' : order'[i] = n
            BY <1>1 DEF TransferInv, Ordered
      <3>2. order'[i] \in Nat /\ order'[i] # 0
            BY <1>1, <2>1 DEF TransferInv, Ordered
      <3> QED
          BY <3>1, <3>2
    <2> QED
        BY <1>1, <2>1, <2>2, <2>3 DEF ClipboardTypeOK, PortalTypes
  <1> QED
      BY <1>1, <1>2

LEMMA NextKeepsWire ==
  ASSUME ClipboardTypeOK, WireInv, Next
  PROVE  WireInv'
  <1>0. DataControlTypeOK
        BY DEF ClipboardTypeOK
  <1>1. CASE UNCHANGED <<compositorVars, clientVars>>
        BY <1>1 DEF WireInv, compositorVars, clientVars
  <1>2. CASE ThreadSteps
        BY <1>0, <1>2, ThreadKeepsWire DEF ThreadSteps, Copying, Pasting
  <1>3. Calling \/ Answering \/ HandleRead \/ Pumping => UNCHANGED <<compositorVars, clientVars>>
    <2>1. Quiet => UNCHANGED <<compositorVars, clientVars>>
          BY DEF Quiet
    <2>2. PumpSelection \/ PumpSend \/ PumpCancelled => UNCHANGED <<compositorVars, clientVars>>
          BY DEF PumpSelection, PumpSend, PumpCancelled
    <2> QED
        BY <2>1, <2>2, CallsAreQuiet DEF Pumping
  <1> QED
      BY <1>1, <1>2, <1>3 DEF Next

LEMMA NextKeepsOwner ==
  ASSUME ClipboardTypeOK, ReadInv, WireInv, OwnerInv, Next
  PROVE  OwnerInv'
  BY CallingKeepsOwner, AnsweringKeepsOwner, HandleReadKeepsOwner, PumpingKeepsOwner,
     ThreadKeepsOwner, CallsAreQuiet
  DEF Next

LEMMA NextKeepsMaker ==
  ASSUME ClipboardTypeOK, ReadInv, WireInv, MakerInv, Next
  PROVE  MakerInv'
  BY CallingKeepsMaker, AnsweringKeepsMaker, HandleReadKeepsMaker, PumpingKeepsMaker,
     ThreadKeepsMaker, CallsAreQuiet
  DEF Next

LEMMA NextKeepsInv ==
  ASSUME ClipboardInv, [Next]_vars
  PROVE  ClipboardInv'
  <1>1. CASE Next
        BY <1>1, NextKeepsTypes, NextKeepsWire, NextKeepsEvents, NextKeepsTold, NextKeepsOurs,
           NextKeepsOwner, NextKeepsMaker
        DEF ClipboardInv
  <1>2. CASE UNCHANGED vars
    <2>1. /\ UNCHANGED <<current, maker, wire, device, source, offer, ignored, cmds, events>>
          /\ UNCHANGED <<access, mime_types, owner_session, transfers, order, next_serial>>
          /\ UNCHANGED <<tasks, pump, told, overtaken>>
          BY <1>2 DEF vars, portalVars, trackerVars, dataControlVars, compositorVars, clientVars
    <2>2. ClipboardTypeOK'
          BY <2>1 DEF ClipboardInv, ClipboardTypeOK, DataControlTypeOK
    <2>3. ReadInv' /\ TransferInv' /\ WireInv' /\ EventInv' /\ OwnerInv'
          BY <2>1 DEF ClipboardInv, ReadInv, TransferInv, WireInv, EventInv, OwnerInv
    <2>5. MakerInv'
          BY <2>1 DEF ClipboardInv, MakerInv
    <2>4. ToldInv' /\ OursInv'
          BY <2>1 DEF ClipboardInv, ToldInv, OursInv, UpToDate, ToBeTold
    <2> QED
        BY <2>2, <2>3, <2>4, <2>5 DEF ClipboardInv
  <1> QED
      BY <1>1, <1>2

\* ClipboardInv is an invariant: what is on its way, to the thread, to the pump
\* and to the clients, makes up for what they do not know yet.
THEOREM InvHolds == Spec => []ClipboardInv
  <1>1. Init => ClipboardInv
        BY InitEstablishesInv
  <1>2. ClipboardInv /\ [Next]_vars => ClipboardInv'
        BY NextKeepsInv
  <1> QED
      BY <1>1, <1>2, PTL DEF Spec

\* Every variable of the clipboard keeps its type: no serial 0 is handed out, no
\* pipe is parked that was not pasted, no reply goes to a call that is no call.
THEOREM TypesHold == Spec => []ClipboardTypeOK
  <1>1. ClipboardInv => ClipboardTypeOK
        BY DEF ClipboardInv
  <1> QED
      BY <1>1, InvHolds, PTL

\* The parked pipes and their order agree, and stay within the cap
\* (portal.rs:161).
THEOREM OrderHolds == Spec => []TransfersInOrder
  <1>1. ClipboardInv => TransfersInOrder
        BY DEF ClipboardInv, TransferInv, Ordered, TransfersInOrder
  <1> QED
      BY <1>1, InvHolds, PTL

\* A read is never answered from a selection older than the last the client was
\* told of (portal.rs:1231, clipboard.rs:316).
THEOREM ReadsStayFresh == Spec => []ReadsAreFresh
  <1>1. ClipboardInv => ReadsAreFresh
        BY DEF ClipboardInv, ToldInv, ReadsAreFresh
  <1> QED
      BY <1>1, InvHolds, PTL

\* Whatever calls, releases and cancellations cross: once all is settled, the
\* session on record as the owner made the selection in force, unless the last
\* claim found no device, was Control's, or was sent after another call had taken
\* the record; in the last two cases some claim made here is in force all the
\* same (portal.rs:146, 811-823, 1022-1032).
THEOREM OwnerHolds == Spec => []OwnerHoldsSelection
  <1>1. ASSUME ClipboardInv PROVE OwnerHoldsSelection
    <2> SUFFICES ASSUME Settled, owner_session # NoOwner, ~ignored
                 PROVE  /\ source = current /\ maker \in Ours
                        /\ ~overtaken => maker = owner_session
        BY DEF OwnerHoldsSelection
    <2>1. OwnerFound /\ WireInv
          BY <1>1, OwnerByParts DEF ClipboardInv
    <2>2. ~OwnerInTask /\ ~OwnerLosing /\ ~OwnerAsking /\ ~MakerAsking
          BY DEF Settled, OwnerInTask, OwnerLosing, OwnerAsking, MakerAsking, Idle
    <2>3. source # None
          BY <2>1, <2>2 DEF OwnerFound, OwnerHaving
    <2>4. source = current /\ maker \in Ours
          BY <2>1, <2>3 DEF Settled, WireInv
    <2>5. ~overtaken => MakerMade
          BY <1>1, <2>2, MakerByParts DEF ClipboardInv, MakerFound
    <2> QED
        BY <2>4, <2>5 DEF MakerMade
  <1> QED
      BY <1>1, InvHolds, PTL

\* And every client knows what is on the clipboard, and whether it was claimed
\* here (clipboard.rs:300-349, portal.rs:1231-1290).
THEOREM ClientsKnow == Spec => []ClientsKnowSelection
  <1>1. ASSUME ClipboardInv PROVE ClientsKnowSelection
    <2> SUFFICES ASSUME Settled, device, NEW s \in Session, access[s] = "clipboard",
                        told[s] # Untold
                 PROVE  /\ told[s].mime_types = current
                        /\ told[s].is_ours <=> maker \in Ours
        BY DEF ClientsKnowSelection
    <2>1. UpToDate(s)
          BY DEF Settled, UpToDate, ToBeTold, Idle
    <2>2. offer = current /\ (maker \in Ours <=> source = current)
          BY <1>1 DEF ClipboardInv, WireInv, Settled
    <2>3. told[s].mime_types = mime_types /\ mime_types = offer
          BY <1>1, <2>1 DEF ClipboardInv, ToldInv, EventInv, Settled
    <2>4. told[s].is_ours <=> source # None
          BY <1>1, <2>1 DEF ClipboardInv, OursInv, Settled, Says
    <2>5. source # None <=> source = current
      <3>1. current # None
            BY <1>1 DEF ClipboardInv, ClipboardTypeOK, DataControlTypeOK
      <3> QED
          BY <1>1, <3>1 DEF ClipboardInv, WireInv, Settled
    <2> QED
        BY <2>2, <2>3, <2>4, <2>5
  <1> QED
      BY <1>1, InvHolds, PTL

LEMMA StepIsPending ==
  ASSUME ClipboardInv, [Next]_vars
  PROVE  [Pending!Next]_(Pipes(order, transfers))
  <1> USE DEF trackerVars, dataControlVars
  <1>0. TransferInv
        BY DEF ClipboardInv
  <1>1. ASSUME order' = order, transfers' = transfers
        PROVE  [Pending!Next]_(Pipes(order, transfers))
        BY <1>1 DEF Pipes
  <1>2. ASSUME ClearTransfers
        PROVE  [Pending!Next]_(Pipes(order, transfers))
        BY <1>2, ClearIsGiveUp DEF Pending!Next
  <1>3. ASSUME NEW s \in Session, NEW serial \in 1..MaxPastes, SelectionWrite(s, serial)
        PROVE  [Pending!Next]_(Pipes(order, transfers))
    <2>1. MaxPastes \in Nat
          BY ClipboardAssumption
    <2>2. serial \in Nat /\ TakeTransfer(serial) /\ next_serial' = next_serial
          BY <1>3, <2>1 DEF SelectionWrite
    <2> QED
        BY <1>0, <2>2, TakeIsAnswer
  <1>4. ASSUME NEW s \in Session, CreateSession(s) \/ RequestClipboard(s)
        PROVE  [Pending!Next]_(Pipes(order, transfers))
        BY <1>1, <1>4 DEF CreateSession, RequestClipboard
  <1>5. ASSUME NEW t \in Task, NEW s \in Session,
               SetSelection(t, s) \/ UnsetSelection(t, s) \/ Close(t, s) \/ SelectionRead(t, s)
        PROVE  [Pending!Next]_(Pipes(order, transfers))
        BY <1>1, <1>5 DEF SetSelection, UnsetSelection, Close, SelectionRead
  <1>6. CASE ControlClaim \/ (\E t \in Task : ControlRelease(t)) \/ HandleRead \/ ThreadSteps
        BY <1>1, <1>6 DEF ControlClaim, ControlRelease, HandleRead, ThreadSteps, portalVars
  <1>7. ASSUME NEW t \in Task, SendClaim(t) \/ CheckOwner(t) \/ SendRelease(t)
        PROVE  [Pending!Next]_(Pipes(order, transfers))
        BY <1>1, <1>7 DEF SendClaim, CheckOwner, SendRelease
  <1>8. ASSUME NEW t \in Task, Own(t) \/ Disown(t)
        PROVE  [Pending!Next]_(Pipes(order, transfers))
        BY <1>2, <1>8 DEF Own, Disown
  <1>9. CASE PumpSelection \/ PumpList \/ \E s \in Session : PumpTell(s)
        BY <1>1, <1>9 DEF PumpSelection, PumpList, PumpTell
  <1>10. CASE PumpCancelled
        BY <1>2, <1>10 DEF PumpCancelled
  <1>11. CASE PumpSend
    <2>1. NextEvent("Send") /\ BeginTransfer(Head(events).fd)
          BY <1>11 DEF PumpSend
    <2>2. events \in Seq(WaylandEvent) /\ events # <<>>
          BY <2>1 DEF ClipboardInv, ClipboardTypeOK, DataControlTypeOK, NextEvent
    <2>3. Head(events) \in WaylandEvent /\ Head(events).type = "Send"
          BY <2>1, <2>2, TailFacts DEF NextEvent
    <2>4. Head(events).fd \in Nat \ {None}
          BY <2>3 DEF WaylandEvent, ClipboardCancelled
    <2> QED
        BY <1>0, <2>1, <2>4, ParkIsWait DEF Pending!Next
  <1>12. CASE UNCHANGED vars
        BY <1>1, <1>12 DEF vars, portalVars
  <1> QED
      BY <1>3, <1>4, <1>5, <1>6, <1>7, <1>8, <1>9, <1>10, <1>11, <1>12
      DEF Next, Calling, Answering, Pumping

\* The tracker implements PendingPastes: every pipe is parked behind those
\* before it, waits its turn to be evicted, and leaves once (portal.rs:161-211).
THEOREM TrackerImplementsPending == Spec => ImplementsPendingPastes
  <1>1. Init => Pending!Init
        BY DEF Init, ClipboardInit, Pending!Init
  <1>2. ClipboardInv /\ [Next]_vars
          => [Pending!Next]_([i \in DOMAIN order |->
                                 [serial |-> order[i], fd |-> transfers[order[i]]]])
        BY StepIsPending DEF Pipes
  <1> QED
      BY <1>1, <1>2, InvHolds, PTL DEF Spec, ImplementsPendingPastes, Pending!Spec
=============================================================================
