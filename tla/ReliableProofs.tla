---------------------------- MODULE ReliableProofs ----------------------------
(***************************************************************************)
(* Proofs about module ReliableCommands: for any size of the rings, any     *)
(* number of commands and of messages on the way.                           *)
(***************************************************************************)
EXTENDS ReliableCommands, SequenceTheorems, TLAPS

-----------------------------------------------------------------------------
\* The inductive invariant.  Its parts are about any state of the two ends, s of
\* the server and c of the client: a handler that calls others passes through
\* states of its own.

Servers ==
    [state : {"active", "zombie", "free"}, sequence : Nat, acknowledge : Nat,
     commands : [Slots -> Texts], lastClientCommand : Nat,
     lastClientCommandString : Texts, gameDisconnects : 0..2, collapsed : BOOLEAN]

Clients ==
    [state : {"active", "disconnected", "failed"}, sequence : Nat,
     acknowledge : Nat \union {-1}, commands : [Slots -> Texts],
     serverCommandSequence : Nat, serverCommands : [Slots -> Texts],
     snapCommand : Nat, snapIssued : Nat, lastExecutedServerCommand : Nat]

ClientMessages == [ack : Nat, key : Texts, first : Nat, commands : Seq(Texts)]

ServerMessages ==
    [cleared : {TRUE}]
        \union [cleared : {FALSE}, ack : Nat, key : Texts, first : Nat,
                commands : Seq(Texts), issued : Nat]

\* The commands a ring still holds when the last one has that number.
Last(sequence) == (sequence - MaxReliableCommands + 1) .. sequence

\* Numbers below one are those of the slots never written.
Numbered(text, n) == text.number = IF n > 0 THEN n ELSE 0

\* Every slot of a ring holds the newest command of its numbers.
RingRight(ring, sequence) ==
    \A n \in Last(sequence) : Numbered(ring[Slot(n)], n)

\* A text is that of command n, and the ring's while that still holds it.
TrueText(text, n, ring, sequence) ==
    /\ n <= sequence
    /\ Numbered(text, n)
    /\ n \in Last(sequence) => text = ring[Slot(n)]

\* The text of command n of one end.
Issued(side, text, n) == TrueText(text, n, side.commands, side.sequence)

\* While the client is not being dropped for overflow, the server's ring and
\* the client's copy of it are what they should be, and the client is not behind
\* what it has acknowledged.
ServerStream(s, c) ==
    /\ Pending(s) \in 0 .. MaxReliableCommands
    /\ Connected(s) => ~s.collapsed /\ s.gameDisconnects = 0
    /\ c.serverCommandSequence <= s.sequence
    /\ ~s.collapsed =>
        /\ RingRight(s.commands, s.sequence)
        /\ s.acknowledge <= c.serverCommandSequence
        /\ \A n \in Last(c.serverCommandSequence) : Issued(s, c.serverCommands[Slot(n)], n)

\* The same of the client's commands, which no overflow disturbs while the
\* client is there.
ClientStream(s, c) ==
    /\ RingRight(c.commands, c.sequence)
    /\ Issued(c, s.lastClientCommandString, s.lastClientCommand)
    /\ c.acknowledge <= c.sequence
    /\ c.state = "active" =>
        /\ c.acknowledge \in 0 .. s.lastClientCommand
        /\ Pending(c) <= MaxReliableCommands

\* What a packet of the client says.
PacketRight(s, c, m) ==
    /\ \A k \in 1 .. Len(m.commands) : Issued(c, m.commands[k], m.first + k - 1)
    /\ m.ack <= c.serverCommandSequence
    /\ ~s.collapsed => Issued(s, m.key, m.ack)
    /\ Connected(s) => s.acknowledge <= m.ack

\* What a message of the server says.
MessageRight(s, c, m) ==
    ~m.cleared =>
        /\ Issued(c, m.key, m.ack)
        /\ m.ack <= s.lastClientCommand
        /\ c.state = "active" => c.acknowledge <= m.ack
        /\ Len(m.commands) <= MaxReliableCommands
        /\ m.first + Len(m.commands) - 1 = m.issued /\ m.issued <= s.sequence
        /\ ~s.collapsed =>
            /\ m.first <= c.serverCommandSequence + 1
            /\ \A k \in 1 .. Len(m.commands) : Issued(s, m.commands[k], m.first + k - 1)

\* What is on the way, in the order of its acknowledgements.
PacketsRight(s, c, packets) ==
    /\ packets \in Seq(ClientMessages) /\ Len(packets) <= MaxInFlight
    /\ \A i \in 1 .. Len(packets) : PacketRight(s, c, packets[i])
    /\ \A i, j \in 1 .. Len(packets) : i < j => packets[i].ack <= packets[j].ack

MessagesRight(s, c, messages) ==
    /\ messages \in Seq(ServerMessages) /\ Len(messages) <= MaxInFlight
    /\ \A i \in 1 .. Len(messages) : MessageRight(s, c, messages[i])
    /\ \A i, j \in 1 .. Len(messages) :
          i < j /\ ~messages[i].cleared /\ ~messages[j].cleared
              => messages[i].ack <= messages[j].ack

\* What has been handled or executed is what the counters say, nothing is
\* ignored but text, and no snapshot is ahead.
OutcomeRight(outcome, k) ==
    /\ outcome.text.number = k
    /\ outcome.ignored => ~outcome.text.disconnect /\ k \notin UserinfoCommands

GameRight(s, handled) ==
    /\ handled \in Seq(Outcomes)
    /\ Len(handled) = s.lastClientCommand
    /\ \A k \in 1 .. Len(handled) : OutcomeRight(handled[k], k)

CgameRight(s, c, executed) ==
    /\ executed \in Seq(Texts)
    /\ c.lastExecutedServerCommand <= c.snapCommand
    /\ c.snapIssued <= c.snapCommand /\ c.snapCommand <= c.serverCommandSequence
    /\ ~s.collapsed =>
        /\ Len(executed) = c.lastExecutedServerCommand
        /\ \A k \in 1 .. Len(executed) : executed[k].number = k

EndsRight(s, c) ==
    s \in Servers /\ c \in Clients /\ ServerStream(s, c) /\ ClientStream(s, c)

Right(s, c, messages, packets, byGame, byCgame) ==
    /\ EndsRight(s, c)
    /\ MessagesRight(s, c, messages)
    /\ PacketsRight(s, c, packets)
    /\ GameRight(s, byGame)
    /\ CgameRight(s, c, byCgame)

IInv == Right(sv, cl, toClient, toServer, handledByServer, executedByCgame)

-----------------------------------------------------------------------------
\* Slots.

LEMMA Rings == MaxReliableCommands \in Nat /\ MaxReliableCommands >= 2
  BY ReliableAssumption

LEMMA SlotType ==
    ASSUME NEW n \in Int
    PROVE  Slot(n) \in Slots
  BY Rings DEF Slot, Slots

\* Fewer than a ring apart, two commands have slots of their own.
LEMMA SlotsApart ==
    ASSUME NEW m \in Int, NEW n \in Int, m < n, n - m < MaxReliableCommands
    PROVE  Slot(m) # Slot(n)
<1> DEFINE R == MaxReliableCommands
           q == m \div R
           r == n \div R
<1>1. R \in Nat /\ R >= 2
  BY Rings
<1>2. q \in Int /\ r \in Int /\ m = (R * q) + (m % R) /\ n = (R * r) + (n % R)
  BY <1>1
<1>3. SUFFICES ASSUME m % R = n % R PROVE FALSE
  BY DEF Slot
<1>4. R * (r - q) = n - m
  BY <1>1, <1>2, <1>3
<1>5. r - q >= 1
  BY <1>1, <1>2, <1>4
<1>6. QED
  BY <1>1, <1>2, <1>4, <1>5

\* The next command goes into the slot of the oldest and disturbs no other.
LEMMA RingStores ==
    ASSUME NEW ring \in [Slots -> Texts], NEW sequence \in Nat, NEW d \in BOOLEAN,
           NEW new, new = [ring EXCEPT ![Slot(sequence + 1)] = Text(sequence + 1, d)]
    PROVE  /\ new \in [Slots -> Texts]
           /\ RingRight(ring, sequence) => RingRight(new, sequence + 1)
           /\ \A n \in Int : \A text \in Texts :
                 TrueText(text, n, ring, sequence) => TrueText(text, n, new, sequence + 1)
<1>1. Slot(sequence + 1) \in Slots /\ Text(sequence + 1, d) \in Texts
  BY SlotType DEF Text, Texts
<1>2. \A n \in Last(sequence + 1) :
          n # sequence + 1 => new[Slot(n)] = ring[Slot(n)] /\ n \in Last(sequence)
  <2>1. SUFFICES ASSUME NEW n \in Last(sequence + 1), n # sequence + 1
                 PROVE  new[Slot(n)] = ring[Slot(n)] /\ n \in Last(sequence)
    OBVIOUS
  <2>2. n \in Int /\ n < sequence + 1 /\ sequence + 1 - n < MaxReliableCommands
    BY <2>1, Rings DEF Last
  <2>3. Slot(n) # Slot(sequence + 1) /\ Slot(n) \in Slots
    BY <2>2, SlotsApart, SlotType
  <2>4. QED
    BY <1>1, <2>2, <2>3, Rings DEF Last
<1>3. new[Slot(sequence + 1)] = Text(sequence + 1, d)
  BY <1>1
<1>4. new \in [Slots -> Texts]
  BY <1>1
<1>5. RingRight(ring, sequence) => RingRight(new, sequence + 1)
  BY <1>2, <1>3 DEF RingRight, Numbered, Text
<1>6. ASSUME NEW n \in Int, NEW text \in Texts, TrueText(text, n, ring, sequence)
      PROVE  TrueText(text, n, new, sequence + 1)
  BY <1>2, <1>6 DEF TrueText
<1>7. QED
  BY <1>4, <1>5, <1>6

-----------------------------------------------------------------------------
\* Channels.

\* new is the channel with the message at the end, and perhaps without its first.
PostedTo(M, channel, message, new) ==
    /\ new \in Seq(M) /\ Len(new) \in 1 .. MaxInFlight
    /\ new[Len(new)] = message
    /\ \E d \in {0, 1} :
         /\ Len(new) = Len(channel) - d + 1
         /\ \A i \in 1 .. Len(channel) - d : new[i] = channel[i + d]

LEMMA Posted ==
    ASSUME NEW M, NEW channel \in Seq(M), NEW message \in M, Len(channel) <= MaxInFlight
    PROVE  PostedTo(M, channel, message, Post(channel, message))
<1>1. MaxInFlight \in Nat \ {0}
  BY ReliableAssumption
<1>2. CASE Len(channel) < MaxInFlight
  <2>1. Post(channel, message) = Append(channel, message)
    BY <1>2 DEF Post
  <2>2. QED
    BY <1>1, <1>2, <2>1, AppendProperties DEF PostedTo
<1>3. CASE ~(Len(channel) < MaxInFlight)
  <2>1. channel # << >> /\ Len(channel) = MaxInFlight
    BY <1>1, <1>3
  <2>2. /\ Tail(channel) \in Seq(M) /\ Len(Tail(channel)) = Len(channel) - 1
        /\ \A i \in 1 .. Len(channel) - 1 : Tail(channel)[i] = channel[i + 1]
    BY <2>1, HeadTailProperties
  <2>3. Post(channel, message) = Append(Tail(channel), message)
    BY <1>3 DEF Post
  <2>4. QED
    BY <1>1, <2>1, <2>2, <2>3, AppendProperties DEF PostedTo
<1>4. QED
  BY <1>2, <1>3

\* Reception gives up a prefix.
LEMMA Overtaken ==
    ASSUME NEW M, NEW channel \in Seq(M), NEW i \in 1 .. Len(channel),
           NEW rest, rest = SubSeq(channel, i + 1, Len(channel))
    PROVE  /\ rest \in Seq(M)
           /\ Len(rest) = Len(channel) - i
           /\ \A j \in 1 .. Len(rest) : rest[j] = channel[i + j]
  BY SubSeqProperties

-----------------------------------------------------------------------------
\* What the server adds to its stream.

\* t is s with commands added, or s being dropped for overflow.
Grows(s, t) ==
    /\ t.lastClientCommand = s.lastClientCommand
    /\ t.lastClientCommandString = s.lastClientCommandString
    /\ s.sequence <= t.sequence
    /\ ~t.collapsed =>
        /\ ~s.collapsed
        /\ t.acknowledge = s.acknowledge
        /\ RingRight(s.commands, s.sequence) => RingRight(t.commands, t.sequence)
        /\ \A n \in Int : \A text \in Texts : Issued(s, text, n) => Issued(t, text, n)

LEMMA GrowsAndGrows ==
    ASSUME NEW s \in Servers, NEW t \in Servers, NEW u \in Servers, Grows(s, t), Grows(t, u)
    PROVE  Grows(s, u)
  BY DEF Grows, Servers

LEMMA ServerStores ==
    ASSUME NEW s \in Servers, NEW d \in BOOLEAN
    PROVE  /\ Store(s, d) \in Servers
           /\ Store(s, d).sequence = s.sequence + 1
           /\ Store(s, d).state = s.state
           /\ Store(s, d).acknowledge = s.acknowledge
           /\ Store(s, d).gameDisconnects = s.gameDisconnects
           /\ Store(s, d).collapsed = s.collapsed
           /\ Grows(s, Store(s, d))
<1> DEFINE t == Store(s, d)
           ring == [s.commands EXCEPT ![Slot(s.sequence + 1)] = Text(s.sequence + 1, d)]
<1>1. s.sequence \in Nat /\ s.commands \in [Slots -> Texts] /\ s.sequence + 1 \in Nat
  BY DEF Servers
<1>2. t = [s EXCEPT !.sequence = s.sequence + 1, !.commands = ring]
  BY DEF Store
<1>3. /\ ring \in [Slots -> Texts]
      /\ RingRight(s.commands, s.sequence) => RingRight(ring, s.sequence + 1)
      /\ \A n \in Int : \A text \in Texts :
            TrueText(text, n, s.commands, s.sequence)
                => TrueText(text, n, ring, s.sequence + 1)
  BY <1>1, RingStores
<1> HIDE DEF ring, t
<1>4. /\ t \in Servers /\ t.sequence = s.sequence + 1 /\ t.commands = ring
      /\ t.state = s.state /\ t.acknowledge = s.acknowledge
      /\ t.lastClientCommand = s.lastClientCommand
      /\ t.lastClientCommandString = s.lastClientCommandString
      /\ t.gameDisconnects = s.gameDisconnects /\ t.collapsed = s.collapsed
  BY <1>1, <1>2, <1>3 DEF Servers
<1>5. Grows(s, t)
  BY <1>1, <1>3, <1>4 DEF Grows, Issued
<1>6. QED
  BY <1>4, <1>5 DEF t

\* A drop that finds room for its two commands.
LEMMA FarewellGrows ==
    ASSUME NEW s \in Servers, s.gameDisconnects \in 0 .. 1
    PROVE  /\ Farewell(s) \in Servers
           /\ Farewell(s).state = "zombie"
           /\ Pending(Farewell(s)) = Pending(s) + 2
           /\ Farewell(s).gameDisconnects = s.gameDisconnects + 1
           /\ Farewell(s).collapsed = s.collapsed
           /\ Grows(s, Farewell(s))
<1> DEFINE t == Store(s, FALSE)
           u == GameDisconnected(t)
           v == Store(u, TRUE)
           w == Farewell(s)
<1>1. /\ t \in Servers /\ Grows(s, t) /\ t.sequence = s.sequence + 1
      /\ t.acknowledge = s.acknowledge /\ t.collapsed = s.collapsed
      /\ t.gameDisconnects = s.gameDisconnects
  BY ServerStores
<1>2. u = [t EXCEPT !.gameDisconnects = t.gameDisconnects + 1]
  BY DEF GameDisconnected
<1> HIDE DEF t, u
<1>3. /\ u \in Servers /\ u.gameDisconnects = t.gameDisconnects + 1
      /\ u.sequence = t.sequence /\ u.acknowledge = t.acknowledge
      /\ u.collapsed = t.collapsed /\ Grows(t, u)
  BY <1>1, <1>2 DEF Servers, Grows, Issued
<1>4. /\ v \in Servers /\ Grows(u, v) /\ v.sequence = u.sequence + 1
      /\ v.acknowledge = u.acknowledge /\ v.collapsed = u.collapsed
      /\ v.gameDisconnects = u.gameDisconnects
  BY <1>3, ServerStores
<1>5. w = [v EXCEPT !.state = "zombie"]
  BY DEF Farewell, t, u
<1> HIDE DEF v, w
<1>6. /\ w \in Servers /\ Grows(v, w) /\ w.sequence = v.sequence
      /\ w.acknowledge = v.acknowledge /\ w.collapsed = v.collapsed
      /\ w.gameDisconnects = v.gameDisconnects /\ w.state = "zombie"
  BY <1>4, <1>5 DEF Servers, Grows, Issued
<1>7. Grows(s, w)
  BY <1>1, <1>3, <1>4, <1>6, GrowsAndGrows
<1>8. Pending(w) = Pending(s) + 2
  BY <1>1, <1>3, <1>4, <1>6 DEF Pending, Servers
<1>9. QED
  BY <1>1, <1>3, <1>4, <1>6, <1>7, <1>8 DEF w

\* SV_AddServerCommand, which may drop the client for overflow.
LEMMA ServerAdds ==
    ASSUME NEW s \in Servers, NEW d \in BOOLEAN, Pending(s) \in 0 .. MaxReliableCommands,
           Connected(s) => ~s.collapsed /\ s.gameDisconnects \in 0 .. 1
    PROVE  LET t == AddServerCommand(s, d)
           IN  /\ t \in Servers
               /\ Pending(t) \in 0 .. MaxReliableCommands
               /\ Grows(s, t)
               /\ ~Connected(s) => t = s
               /\ Connected(t) => /\ Connected(s) /\ ~t.collapsed
                                  /\ t.gameDisconnects = s.gameDisconnects
               /\ Connected(s) /\ ~Connected(t) => t.gameDisconnects = s.gameDisconnects + 1
<1>1. CASE ~Connected(s)
  <2>1. AddServerCommand(s, d) = s
    BY <1>1 DEF AddServerCommand
  <2>2. QED
    BY <1>1, <2>1 DEF Grows, Servers
<1>2. CASE Connected(s) /\ Overflows(s)
  <2> DEFINE u == Collapsed(s)
             t == Farewell(u)
  <2>1. AddServerCommand(s, d) = t
    BY <1>2 DEF AddServerCommand
  <2>2. /\ u \in Servers /\ u.sequence = s.sequence + 1 /\ u.acknowledge = s.sequence + 1
        /\ u.collapsed /\ u.gameDisconnects = s.gameDisconnects
        /\ u.lastClientCommand = s.lastClientCommand
        /\ u.lastClientCommandString = s.lastClientCommandString
    <3>1. u = [s EXCEPT !.sequence = s.sequence + 1, !.acknowledge = s.sequence + 1,
                        !.collapsed = TRUE]
      BY DEF Collapsed
    <3> HIDE DEF u
    <3>2. s.sequence + 1 \in Nat
      BY DEF Servers
    <3>3. QED
      BY <3>1, <3>2 DEF Servers
  <2> HIDE DEF u
  <2>3. Pending(u) = 0 /\ Grows(s, u)
    BY <2>2 DEF Pending, Grows, Servers
  <2>4. /\ t \in Servers /\ t.state = "zombie" /\ Pending(t) = 2 /\ Grows(u, t)
        /\ t.gameDisconnects = s.gameDisconnects + 1
    BY <1>2, <2>2, <2>3, FarewellGrows
  <2> HIDE DEF t
  <2>5. Grows(s, t)
    BY <2>2, <2>3, <2>4, GrowsAndGrows
  <2>6. QED
    BY <1>2, <2>1, <2>4, <2>5, Rings DEF Connected
<1>3. CASE Connected(s) /\ ~Overflows(s)
  <2>1. AddServerCommand(s, d) = Store(s, d)
    BY <1>3 DEF AddServerCommand
  <2>2. Pending(Store(s, d)) = Pending(s) + 1
    BY ServerStores DEF Pending, Servers
  <2>3. Pending(s) < MaxReliableCommands
    BY <1>3, Rings DEF Overflows
  <2>4. QED
    BY <1>3, <2>1, <2>2, <2>3, ServerStores, Rings DEF Connected
<1>4. QED
  BY <1>1, <1>2, <1>3

\* SV_DropClient.
LEMMA ServerDrops ==
    ASSUME NEW s \in Servers, Pending(s) \in 0 .. MaxReliableCommands,
           Connected(s), ~s.collapsed, s.gameDisconnects = 0
    PROVE  LET t == Dropped(s)
           IN  /\ t \in Servers /\ t.state = "zombie"
               /\ Pending(t) \in 0 .. MaxReliableCommands
               /\ Grows(s, t)
<1> DEFINE a == AddServerCommand(s, FALSE)
           u == GameDisconnected(a)
           v == AddServerCommand(u, TRUE)
           w == Dropped(s)
<1>1. /\ a \in Servers /\ Pending(a) \in 0 .. MaxReliableCommands /\ Grows(s, a)
      /\ Connected(a) => ~a.collapsed /\ a.gameDisconnects = 0
      /\ ~Connected(a) => a.gameDisconnects = 1
  <2>1. Connected(s) => ~s.collapsed /\ s.gameDisconnects \in 0 .. 1
    OBVIOUS
  <2>2. /\ a \in Servers /\ Pending(a) \in 0 .. MaxReliableCommands /\ Grows(s, a)
        /\ Connected(a) => ~a.collapsed /\ a.gameDisconnects = s.gameDisconnects
        /\ Connected(s) /\ ~Connected(a) => a.gameDisconnects = s.gameDisconnects + 1
    BY <2>1, ServerAdds, Zenon
  <2> HIDE DEF a
  <2>3. s.gameDisconnects = 0 /\ s.gameDisconnects + 1 = 1
    OBVIOUS
  <2>4. QED
    BY <2>2, <2>3, Zenon
<1>2. u = [a EXCEPT !.gameDisconnects = a.gameDisconnects + 1]
  BY DEF GameDisconnected
<1> HIDE DEF a, u
<1>3. /\ u \in Servers /\ u.sequence = a.sequence /\ u.acknowledge = a.acknowledge
      /\ u.state = a.state /\ u.collapsed = a.collapsed
      /\ Connected(u) => u.gameDisconnects = 1
      /\ Grows(a, u)
  BY <1>1, <1>2 DEF Servers, Grows, Issued, Connected
<1>4. /\ Pending(u) \in 0 .. MaxReliableCommands
      /\ Connected(u) => ~u.collapsed /\ u.gameDisconnects \in 0 .. 1
  BY <1>1, <1>3 DEF Pending, Connected
<1>5. v \in Servers /\ Pending(v) \in 0 .. MaxReliableCommands /\ Grows(u, v)
  BY <1>3, <1>4, ServerAdds
<1>6. w = [v EXCEPT !.state = "zombie"]
  BY DEF Dropped, a, u
<1> HIDE DEF v, w
<1>7. /\ w \in Servers /\ w.state = "zombie" /\ w.sequence = v.sequence
      /\ w.acknowledge = v.acknowledge /\ Grows(v, w)
  BY <1>5, <1>6 DEF Servers, Grows, Issued
<1>8. Grows(s, w) /\ Pending(w) \in 0 .. MaxReliableCommands
  <2>1. Grows(s, u)
    BY <1>1, <1>3, GrowsAndGrows
  <2>2. Grows(s, v)
    BY <2>1, <1>3, <1>5, GrowsAndGrows
  <2>3. QED
    BY <2>2, <1>5, <1>7, GrowsAndGrows DEF Pending
<1>9. QED
  BY <1>7, <1>8 DEF w

\* What holds of the server's stream, and of what is on the way, still does after
\* the server adds to it.
LEMMA RightAfterGrowth ==
    ASSUME NEW s \in Servers, NEW t \in Servers, NEW c, NEW messages, NEW packets,
           NEW byGame, NEW byCgame,
           Right(s, c, messages, packets, byGame, byCgame),
           Grows(s, t), Pending(t) \in 0 .. MaxReliableCommands,
           Connected(t) => Connected(s) /\ ~t.collapsed /\ t.gameDisconnects = 0
    PROVE  Right(t, c, messages, packets, byGame, byCgame)
<1>1. /\ EndsRight(s, c) /\ MessagesRight(s, c, messages) /\ PacketsRight(s, c, packets)
      /\ GameRight(s, byGame) /\ CgameRight(s, c, byCgame)
  BY DEF Right
<1>2. c \in Clients /\ ServerStream(s, c) /\ ClientStream(s, c)
  BY <1>1 DEF EndsRight
<1>3. /\ s.sequence \in Nat /\ t.sequence \in Nat /\ s.sequence <= t.sequence
      /\ t.lastClientCommand = s.lastClientCommand
      /\ t.lastClientCommandString = s.lastClientCommandString
      /\ s.lastClientCommand \in Nat
  BY DEF Grows, Servers
<1>4. ~t.collapsed =>
          /\ ~s.collapsed
          /\ t.acknowledge = s.acknowledge
          /\ RingRight(s.commands, s.sequence) => RingRight(t.commands, t.sequence)
          /\ \A n \in Int : \A text \in Texts : Issued(s, text, n) => Issued(t, text, n)
  BY DEF Grows
<1>5. c.serverCommandSequence \in Nat /\ c.serverCommands \in [Slots -> Texts]
  BY <1>2 DEF Clients
<1>6. ServerStream(t, c)
  <2>1. c.serverCommandSequence <= t.sequence
    BY <1>2, <1>3, <1>5 DEF ServerStream
  <2>2. ASSUME ~t.collapsed
        PROVE  /\ RingRight(t.commands, t.sequence)
               /\ t.acknowledge <= c.serverCommandSequence
               /\ \A n \in Last(c.serverCommandSequence) :
                     Issued(t, c.serverCommands[Slot(n)], n)
    <3>1. \A n \in Last(c.serverCommandSequence) :
              n \in Int /\ c.serverCommands[Slot(n)] \in Texts
      BY <1>5, SlotType, Rings DEF Last
    <3>2. QED
      BY <2>2, <3>1, <1>2, <1>4 DEF ServerStream
  <2>3. QED
    BY <2>1, <2>2 DEF ServerStream
<1>7. ClientStream(t, c)
  BY <1>2, <1>3 DEF ClientStream
<1>8. ASSUME NEW m \in ServerMessages, MessageRight(s, c, m)
      PROVE  MessageRight(t, c, m)
  <2>1. SUFFICES ASSUME ~m.cleared PROVE MessageRight(t, c, m)
    BY DEF MessageRight
  <2>2. /\ m.first \in Nat /\ m.commands \in Seq(Texts) /\ m.issued \in Nat
    BY <2>1 DEF ServerMessages
  <2>3. m.issued <= t.sequence
    BY <1>3, <1>8, <2>1, <2>2 DEF MessageRight
  <2>4. ASSUME ~t.collapsed, NEW k \in 1 .. Len(m.commands)
        PROVE  Issued(t, m.commands[k], m.first + k - 1)
    <3>1. m.commands[k] \in Texts /\ m.first + k - 1 \in Int
      BY <2>2, ElementOfSeq
    <3>2. QED
      BY <3>1, <2>1, <2>4, <1>4, <1>8 DEF MessageRight
  <2>5. QED
    BY <1>3, <1>4, <1>8, <2>3, <2>4 DEF MessageRight
<1>9. ASSUME NEW m \in ClientMessages, PacketRight(s, c, m)
      PROVE  PacketRight(t, c, m)
  <2>1. m.key \in Texts /\ m.ack \in Int
    BY DEF ClientMessages
  <2>2. QED
    BY <1>4, <1>9, <2>1 DEF PacketRight
<1>10. MessagesRight(t, c, messages) /\ PacketsRight(t, c, packets)
  BY <1>1, <1>8, <1>9, ElementOfSeq DEF MessagesRight, PacketsRight
<1>11. GameRight(t, byGame) /\ CgameRight(t, c, byCgame)
  BY <1>1, <1>3, <1>4 DEF GameRight, CgameRight
<1>12. QED
  BY <1>2, <1>6, <1>7, <1>10, <1>11 DEF Right, EndsRight

-----------------------------------------------------------------------------
\* What an end sends.

\* The unacknowledged commands are the right texts under their numbers.
LEMMA UnacknowledgedRight ==
    ASSUME NEW side, side.sequence \in Nat, side.acknowledge \in Int,
           side.commands \in [Slots -> Texts],
           Pending(side) \in 0 .. MaxReliableCommands,
           RingRight(side.commands, side.sequence)
    PROVE  /\ Unacknowledged(side) \in Seq(Texts)
           /\ Len(Unacknowledged(side)) = Pending(side)
           /\ \A k \in 1 .. Pending(side) :
                 Issued(side, Unacknowledged(side)[k], side.acknowledge + k)
<1> DEFINE f == Unacknowledged(side)
           n == Pending(side)
<1>1. n \in Nat /\ n = side.sequence - side.acknowledge /\ n <= MaxReliableCommands
  BY Rings DEF Pending
<1>2. f = [k \in 1 .. n |-> side.commands[Slot(side.acknowledge + k)]]
  BY DEF Unacknowledged
<1> HIDE DEF f, n
<1>3. \A k \in 1 .. n : /\ side.acknowledge + k \in Last(side.sequence)
                        /\ side.commands[Slot(side.acknowledge + k)] \in Texts
  BY <1>1, SlotType, Rings DEF Last
<1>4. f \in Seq(Texts) /\ Len(f) = n
  BY <1>1, <1>2, <1>3
<1>5. ASSUME NEW k \in 1 .. n
      PROVE  Issued(side, f[k], side.acknowledge + k)
  BY <1>1, <1>2, <1>3, Rings DEF Issued, TrueText, RingRight, Last
<1>6. QED
  BY <1>4, <1>5 DEF f, n

-----------------------------------------------------------------------------
\* A packet at the server.

\* Packets that overtake others leave the rest as right as they were.
LEMMA PacketsDropped ==
    ASSUME NEW s, NEW c, NEW packets, PacketsRight(s, c, packets),
           NEW i \in 1 .. Len(packets),
           NEW rest, rest = SubSeq(packets, i + 1, Len(packets))
    PROVE  /\ PacketsRight(s, c, rest)
           /\ packets[i] \in ClientMessages /\ PacketRight(s, c, packets[i])
           /\ \A j \in 1 .. Len(rest) : packets[i].ack <= rest[j].ack
<1>1. packets \in Seq(ClientMessages)
  BY DEF PacketsRight
<1>2. /\ rest \in Seq(ClientMessages) /\ Len(rest) = Len(packets) - i
      /\ \A j \in 1 .. Len(rest) : rest[j] = packets[i + j]
  BY <1>1, Overtaken
<1>3. Len(packets) \in Nat /\ MaxInFlight \in Nat
  BY <1>1, ReliableAssumption
<1>4. \A j \in 1 .. Len(rest) : i + j \in 1 .. Len(packets) /\ i < i + j
  BY <1>2, <1>3
<1>5. \A j \in 1 .. Len(rest) : PacketRight(s, c, rest[j]) /\ packets[i].ack <= rest[j].ack
  BY <1>2, <1>4 DEF PacketsRight
<1>6. \A j, k \in 1 .. Len(rest) : j < k => rest[j].ack <= rest[k].ack
  <2>1. SUFFICES ASSUME NEW j \in 1 .. Len(rest), NEW k \in 1 .. Len(rest), j < k
                 PROVE  rest[j].ack <= rest[k].ack
    OBVIOUS
  <2>2. i + j < i + k
    BY <2>1, <1>2, <1>3
  <2>3. QED
    BY <2>2, <1>2, <1>4 DEF PacketsRight
<1>7. Len(rest) <= MaxInFlight
  BY <1>2, <1>3 DEF PacketsRight
<1>8. QED
  BY <1>1, <1>2, <1>5, <1>6, <1>7, ElementOfSeq DEF PacketsRight

\* The server takes over the acknowledgement of a packet.
LEMMA PacketAcknowledges ==
    ASSUME NEW s \in Servers, Connected(s), NEW c, NEW messages, NEW packets,
           NEW byGame, NEW byCgame,
           Right(s, c, messages, packets, byGame, byCgame),
           NEW i \in 1 .. Len(packets),
           NEW t \in Servers, t.state = s.state, t.acknowledge = packets[i].ack,
           t.sequence = s.sequence, t.commands = s.commands,
           t.lastClientCommand = s.lastClientCommand,
           t.lastClientCommandString = s.lastClientCommandString,
           t.gameDisconnects = s.gameDisconnects, t.collapsed = s.collapsed
    PROVE  /\ packets[i] \in ClientMessages /\ PacketRight(t, c, packets[i])
           /\ Right(t, c, messages, SubSeq(packets, i + 1, Len(packets)), byGame, byCgame)
<1> DEFINE m == packets[i]
           rest == SubSeq(packets, i + 1, Len(packets))
<1>1. /\ EndsRight(s, c) /\ MessagesRight(s, c, messages) /\ PacketsRight(s, c, packets)
      /\ GameRight(s, byGame) /\ CgameRight(s, c, byCgame)
      /\ c \in Clients /\ ServerStream(s, c) /\ ClientStream(s, c)
  BY DEF Right, EndsRight
<1>2. /\ m \in ClientMessages /\ PacketRight(s, c, m) /\ PacketsRight(s, c, rest)
      /\ \A j \in 1 .. Len(rest) : m.ack <= rest[j].ack
  BY <1>1, PacketsDropped
<1> HIDE DEF m, rest
<1>3. m.ack \in Nat /\ c.serverCommandSequence \in Nat
  BY <1>1, <1>2 DEF ClientMessages, Clients
<1>4. /\ t \in Servers /\ Connected(t) /\ t.acknowledge = m.ack
      /\ t.sequence = s.sequence /\ t.commands = s.commands
      /\ t.lastClientCommand = s.lastClientCommand
      /\ t.lastClientCommandString = s.lastClientCommandString
      /\ t.gameDisconnects = s.gameDisconnects /\ t.collapsed = s.collapsed
  BY DEF Connected, m
<1>5. ~s.collapsed /\ s.gameDisconnects = 0 /\ s.sequence \in Nat /\ s.acknowledge \in Nat
  BY <1>1 DEF ServerStream, Servers
<1>6. /\ m.ack <= c.serverCommandSequence /\ s.acknowledge <= m.ack
      /\ m.ack <= s.sequence
  BY <1>2, <1>5 DEF PacketRight, Issued, TrueText
<1>7. Pending(t) \in 0 .. MaxReliableCommands
  BY <1>1, <1>3, <1>4, <1>5, <1>6, Rings DEF Pending, ServerStream
<1>8. ServerStream(t, c) /\ ClientStream(t, c)
  BY <1>1, <1>4, <1>5, <1>6, <1>7 DEF ServerStream, ClientStream, Issued
<1>9. ASSUME NEW p \in ClientMessages, PacketRight(s, c, p), m.ack <= p.ack
      PROVE  PacketRight(t, c, p)
  BY <1>4, <1>9 DEF PacketRight, Issued
<1>10. PacketRight(t, c, m)
  BY <1>2, <1>3, <1>9
<1>11. PacketsRight(t, c, rest)
  BY <1>2, <1>9, ElementOfSeq DEF PacketsRight
<1>12. MessagesRight(t, c, messages)
  BY <1>1, <1>4 DEF MessagesRight, MessageRight, Issued
<1>13. GameRight(t, byGame) /\ CgameRight(t, c, byCgame)
  BY <1>1, <1>4 DEF GameRight, CgameRight
<1>14. Right(t, c, messages, rest, byGame, byCgame)
  BY <1>1, <1>4, <1>8, <1>11, <1>12, <1>13 DEF Right, EndsRight
<1>15. QED
  BY <1>2, <1>4, <1>10, <1>14 DEF m, rest

\* The part of a sequence from a position on.
LEMMA SequenceFrom ==
    ASSUME NEW S, NEW q \in Seq(S), NEW a \in Nat \ {0}, NEW n \in 0 .. Len(q)
    PROVE  /\ n < a => SubSeq(q, a, n) = << >>
           /\ a <= n => /\ SubSeq(q, a, n) \in Seq(S)
                        /\ Len(SubSeq(q, a, n)) = n - a + 1
                        /\ \A j \in 1 .. n - a + 1 : SubSeq(q, a, n)[j] = q[a + j - 1]
<1>1. n < a => SubSeq(q, a, n) = << >>
  OBVIOUS
<1>2. Len(q) \in Nat
  BY LenProperties
<1>3. a <= n => a \in 1 .. Len(q) + 1 /\ n \in a - 1 .. Len(q)
  BY <1>2
<1>4. QED
  BY <1>1, <1>3, SubSeqProperties

\* Numbered texts that go on where others end.
LEMMA NumbersGoOn ==
    ASSUME NEW handled \in Seq(Outcomes), NEW fresh \in Seq(Outcomes),
           \A k \in 1 .. Len(handled) : OutcomeRight(handled[k], k),
           \A j \in 1 .. Len(fresh) : OutcomeRight(fresh[j], Len(handled) + j)
    PROVE  /\ handled \o fresh \in Seq(Outcomes)
           /\ Len(handled \o fresh) = Len(handled) + Len(fresh)
           /\ \A k \in 1 .. Len(handled \o fresh) : OutcomeRight((handled \o fresh)[k], k)
<1> DEFINE both == handled \o fresh
           l == Len(handled)
           f == Len(fresh)
<1>1. l \in Nat /\ f \in Nat
  BY LenProperties
<1>2. /\ both \in Seq(Outcomes) /\ Len(both) = l + f
      /\ \A k \in 1 .. l + f : both[k] = IF k <= l THEN handled[k] ELSE fresh[k - l]
  BY ConcatProperties
<1>3. /\ \A k \in 1 .. l : OutcomeRight(handled[k], k)
      /\ \A j \in 1 .. f : OutcomeRight(fresh[j], l + j)
  OBVIOUS
<1> HIDE DEF both, l, f
<1>4. ASSUME NEW k \in 1 .. l + f PROVE OutcomeRight(both[k], k)
  <2>1. CASE k <= l
    BY <1>1, <1>2, <1>3, <2>1
  <2>2. CASE ~(k <= l)
    <3>1. k - l \in 1 .. f /\ l + (k - l) = k
      BY <1>1, <2>2
    <3>2. QED
      BY <1>2, <1>3, <2>2, <3>1
  <2>3. QED
    BY <2>1, <2>2
<1>5. QED
  BY <1>2, <1>4 DEF both, l, f

\* What the server makes of commands goes on where their numbers begin.
LEMMA OutcomesOfCommands ==
    ASSUME NEW fresh \in Seq(Texts), NEW l \in Nat,
           \A j \in 1 .. Len(fresh) : fresh[j].number = l + j,
           NEW ignored \in SUBSET Ignorable(fresh)
    PROVE  /\ Handled(fresh, ignored) \in Seq(Outcomes)
           /\ Len(Handled(fresh, ignored)) = Len(fresh)
           /\ \A j \in 1 .. Len(fresh) : OutcomeRight(Handled(fresh, ignored)[j], l + j)
<1> DEFINE outcomes == Handled(fresh, ignored)
           f == Len(fresh)
<1>1. f \in Nat /\ DOMAIN fresh = 1 .. f
  BY LenProperties
<1>2. outcomes = [k \in 1 .. f |-> [text |-> fresh[k], ignored |-> k \in ignored]]
  BY <1>1 DEF Handled
<1> HIDE DEF outcomes, f
<1>3. ASSUME NEW j \in 1 .. f
      PROVE  /\ outcomes[j] \in Outcomes /\ outcomes[j].text = fresh[j]
             /\ outcomes[j].ignored = (j \in ignored)
  <2>1. fresh[j] \in Texts
    BY ElementOfSeq DEF f
  <2>2. (j \in ignored) \in BOOLEAN
    OBVIOUS
  <2>3. QED
    BY <1>2, <2>1, <2>2, Zenon DEF Outcomes
<1>4. outcomes \in Seq(Outcomes) /\ Len(outcomes) = f
  BY <1>1, <1>2, <1>3
<1>5. ASSUME NEW j \in 1 .. f PROVE OutcomeRight(outcomes[j], l + j)
  <2>1. fresh[j].number = l + j
    BY DEF f
  <2>2. CASE j \in ignored
    <3>1. ~fresh[j].disconnect /\ ~IsUserinfo(fresh[j])
      BY <2>2 DEF Ignorable
    <3>2. QED
      BY <1>3, <2>1, <3>1 DEF OutcomeRight, IsUserinfo
  <2>3. CASE j \notin ignored
    BY <1>3, <2>1, <2>3 DEF OutcomeRight
  <2>4. QED
    BY <2>2, <2>3
<1>6. QED
  BY <1>4, <1>5 DEF outcomes, f

\* The commands of a packet beyond the l executed go on where those end.
LEMMA FreshCommands ==
    ASSUME NEW commands \in Seq(Texts), NEW first \in Nat, NEW l \in Nat,
           NEW n \in 0 .. Len(commands), first <= l + 1,
           \A k \in 1 .. Len(commands) : Numbered(commands[k], first + k - 1),
           SubSeq(commands, l - first + 2, n) # << >>
    PROVE  LET fresh == SubSeq(commands, l - first + 2, n)
           IN  /\ n >= 1
               /\ fresh \in Seq(Texts) /\ Len(fresh) >= 1
               /\ first + n - 1 = l + Len(fresh)
               /\ fresh[Len(fresh)] = commands[n]
               /\ \A j \in 1 .. Len(fresh) : fresh[j].number = l + j
<1> DEFINE a == l - first + 2
           fresh == SubSeq(commands, a, n)
<1>1. a \in Nat \ {0} /\ a + first = l + 2 /\ n \in Nat
  OBVIOUS
<1>2. fresh # << >>
  OBVIOUS
<1> HIDE DEF a
<1>3. a <= n
  BY <1>1, <1>2, SequenceFrom
<1>4. /\ fresh \in Seq(Texts) /\ Len(fresh) = n - a + 1
      /\ \A j \in 1 .. n - a + 1 : fresh[j] = commands[a + j - 1]
  BY <1>1, <1>3, SequenceFrom
<1>5. n >= 1 /\ Len(fresh) >= 1 /\ first + n - 1 = l + Len(fresh)
  BY <1>1, <1>3, <1>4
<1>6. fresh[Len(fresh)] = commands[n]
  <2>1. n - a + 1 \in 1 .. n - a + 1 /\ a + (n - a + 1) - 1 = n
    BY <1>1, <1>3
  <2>2. QED
    BY <1>4, <2>1
<1>7. ASSUME NEW j \in 1 .. n - a + 1 PROVE fresh[j].number = l + j
  <2>1. /\ a + j - 1 \in 1 .. Len(commands) /\ first + (a + j - 1) - 1 = l + j
        /\ l + j > 0
    BY <1>1, <1>3
  <2>2. Numbered(fresh[j], l + j)
    BY <1>4, <2>1
  <2>3. QED
    BY <2>1, <2>2 DEF Numbered
<1>8. QED
  BY <1>4, <1>5, <1>6, <1>7 DEF a

\* The server executes commands of a packet: the game's next.
LEMMA CommandsExecuted ==
    ASSUME NEW s \in Servers, NEW c, NEW messages, NEW packets, NEW byGame, NEW byCgame,
           Right(s, c, messages, packets, byGame, byCgame),
           NEW last \in Texts, NEW fresh \in Seq(Texts), Len(fresh) >= 1,
           \A j \in 1 .. Len(fresh) : fresh[j].number = s.lastClientCommand + j,
           Issued(c, last, s.lastClientCommand + Len(fresh)),
           NEW t \in Servers,
           t.lastClientCommand = s.lastClientCommand + Len(fresh),
           t.lastClientCommandString = last,
           t.state = s.state, t.sequence = s.sequence, t.commands = s.commands,
           t.acknowledge = s.acknowledge, t.gameDisconnects = s.gameDisconnects,
           t.collapsed = s.collapsed,
           NEW ignored \in SUBSET Ignorable(fresh)
    PROVE  Right(t, c, messages, packets, byGame \o Handled(fresh, ignored), byCgame)
<1>1. /\ EndsRight(s, c) /\ MessagesRight(s, c, messages) /\ PacketsRight(s, c, packets)
      /\ GameRight(s, byGame) /\ CgameRight(s, c, byCgame)
      /\ c \in Clients /\ ServerStream(s, c) /\ ClientStream(s, c)
  BY DEF Right, EndsRight
<1>2. /\ s.lastClientCommand \in Nat /\ t.lastClientCommand \in Nat
      /\ s.lastClientCommand <= t.lastClientCommand
  <2>1. s.lastClientCommand \in Nat /\ Len(fresh) \in Nat
    BY LenProperties DEF Servers
  <2>2. QED
    BY <2>1
<1>3. ServerStream(t, c)
  BY <1>1 DEF ServerStream, Pending, Connected, Issued
<1>4. ClientStream(t, c)
  BY <1>1, <1>2 DEF ClientStream
<1>5. PacketsRight(t, c, packets)
  BY <1>1 DEF PacketsRight, PacketRight, Issued, Connected
<1>6. ASSUME NEW p \in ServerMessages, MessageRight(s, c, p)
      PROVE  MessageRight(t, c, p)
  <2>1. SUFFICES ASSUME ~p.cleared PROVE MessageRight(t, c, p)
    BY DEF MessageRight
  <2>2. p.ack \in Nat
    BY <2>1 DEF ServerMessages
  <2>3. QED
    BY <1>2, <1>6, <2>1, <2>2 DEF MessageRight, Issued
<1>7. MessagesRight(t, c, messages)
  BY <1>1, <1>6, ElementOfSeq DEF MessagesRight
<1>8. GameRight(t, byGame \o Handled(fresh, ignored))
  <2>1. /\ byGame \in Seq(Outcomes) /\ Len(byGame) = s.lastClientCommand
        /\ \A k \in 1 .. Len(byGame) : OutcomeRight(byGame[k], k)
    BY <1>1 DEF GameRight
  <2> DEFINE outcomes == Handled(fresh, ignored)
  <2>2. /\ outcomes \in Seq(Outcomes) /\ Len(outcomes) = Len(fresh)
        /\ \A j \in 1 .. Len(fresh) : OutcomeRight(outcomes[j], s.lastClientCommand + j)
    BY <1>2, OutcomesOfCommands
  <2> HIDE DEF outcomes
  <2>3. /\ byGame \o outcomes \in Seq(Outcomes)
        /\ Len(byGame \o outcomes) = Len(byGame) + Len(outcomes)
        /\ \A k \in 1 .. Len(byGame \o outcomes) : OutcomeRight((byGame \o outcomes)[k], k)
    BY <2>1, <2>2, NumbersGoOn
  <2>4. GameRight(t, byGame \o outcomes)
    BY <2>1, <2>2, <2>3 DEF GameRight
  <2>5. QED
    BY <2>4 DEF outcomes
<1>9. CgameRight(t, c, byCgame)
  BY <1>1 DEF CgameRight
<1>10. QED
  BY <1>1, <1>3, <1>4, <1>5, <1>7, <1>8, <1>9 DEF Right, EndsRight

\* Dropping a client keeps the invariant.
LEMMA RightAfterDrop ==
    ASSUME NEW s, NEW c, NEW messages, NEW packets, NEW byGame, NEW byCgame,
           Right(s, c, messages, packets, byGame, byCgame), Connected(s)
    PROVE  Right(Dropped(s), c, messages, packets, byGame, byCgame)
<1> DEFINE t == Dropped(s)
<1>1. s \in Servers /\ ServerStream(s, c)
  BY DEF Right, EndsRight
<1>2. ~s.collapsed /\ s.gameDisconnects = 0 /\ Pending(s) \in 0 .. MaxReliableCommands
  BY <1>1 DEF ServerStream
<1>3. t \in Servers /\ t.state = "zombie" /\ Pending(t) \in 0 .. MaxReliableCommands
      /\ Grows(s, t)
  BY <1>1, <1>2, ServerDrops
<1> HIDE DEF t
<1>4. ~Connected(t)
  BY <1>3 DEF Connected
<1>5. Right(t, c, messages, packets, byGame, byCgame)
  BY <1>1, <1>3, <1>4, RightAfterGrowth
<1>6. QED
  BY <1>5 DEF t

\* The first n commands of a packet, which the server has decoded and whose
\* acknowledgement it has taken over.
LEMMA RightAfterCommands ==
    ASSUME NEW s, NEW c, NEW messages, NEW packets, NEW byGame, NEW byCgame,
           Right(s, c, messages, packets, byGame, byCgame), Connected(s),
           s.lastClientCommand = sv.lastClientCommand,
           NEW m \in ClientMessages, PacketRight(s, c, m),
           NEW n \in 0 .. Len(m.commands),
           NEW ignored \in SUBSET Ignorable(Fresh(m, n))
    PROVE  Right(AfterCommands(s, m, n), c, messages, packets,
                 byGame \o Handled(Fresh(m, n), ignored), byCgame)
<1> DEFINE fresh == Fresh(m, n)
           last  == fresh[Len(fresh)]
           done  == IF fresh = << >>
                    THEN s
                    ELSE [s EXCEPT !.lastClientCommand = m.first + n - 1,
                                   !.lastClientCommandString = last]
<1>1. s \in Servers /\ s.lastClientCommand \in Nat /\ byGame \in Seq(Outcomes)
      /\ m.first \in Nat /\ m.commands \in Seq(Texts)
  BY DEF Right, EndsRight, GameRight, Servers, ClientMessages
<1> DEFINE handled == byGame \o Handled(fresh, ignored)
<1>2. Right(done, c, messages, packets, handled, byCgame) /\ Connected(done)
  <2>1. CASE fresh = << >>
    <3>1. handled = byGame
      <4>1. Handled(fresh, ignored) = << >>
        BY <2>1 DEF Handled
      <4>2. QED
        BY <1>1, <4>1
    <3>2. done = s
      BY <2>1
    <3>3. QED
      BY <3>1, <3>2
  <2>2. CASE fresh # << >>
    <3>1. m.first <= s.lastClientCommand + 1
          /\ fresh = SubSeq(m.commands, s.lastClientCommand - m.first + 2, n)
      <4>1. ~Gap(m) /\ fresh = SubSeq(m.commands, sv.lastClientCommand - m.first + 2, n)
        BY <2>2, Zenon DEF Fresh
      <4> HIDE DEF fresh
      <4>2. m.first <= s.lastClientCommand + 1
        BY <1>1, <4>1 DEF Gap
      <4>3. QED
        BY <4>1, <4>2, Zenon
    <3>2. \A k \in 1 .. Len(m.commands) : Issued(c, m.commands[k], m.first + k - 1)
      BY DEF PacketRight
    <3>3. \A k \in 1 .. Len(m.commands) : Numbered(m.commands[k], m.first + k - 1)
      BY <3>2 DEF Issued, TrueText
    <3>4. /\ n >= 1 /\ fresh \in Seq(Texts) /\ Len(fresh) >= 1
          /\ m.first + n - 1 = s.lastClientCommand + Len(fresh)
          /\ last = m.commands[n]
          /\ \A j \in 1 .. Len(fresh) : fresh[j].number = s.lastClientCommand + j
      <4>1. n \in 0 .. Len(m.commands)
        OBVIOUS
      <4> HIDE DEF fresh
      <4>2. SubSeq(m.commands, s.lastClientCommand - m.first + 2, n) # << >>
        BY <2>2, <3>1
      <4>3. LET new == SubSeq(m.commands, s.lastClientCommand - m.first + 2, n)
            IN  /\ n >= 1 /\ new \in Seq(Texts) /\ Len(new) >= 1
                /\ m.first + n - 1 = s.lastClientCommand + Len(new)
                /\ new[Len(new)] = m.commands[n]
                /\ \A j \in 1 .. Len(new) : new[j].number = s.lastClientCommand + j
        BY <1>1, <3>1, <3>3, <4>1, <4>2, FreshCommands, ZenonT(30)
      <4>4. QED
        BY <3>1, <4>3, Zenon
    <3>5. last \in Texts /\ Issued(c, last, m.first + n - 1) /\ m.first + n - 1 \in Nat
      <4>1. n \in 1 .. Len(m.commands) /\ Len(m.commands) \in Nat
        BY <1>1, <3>4, LenProperties
      <4>2. m.first + n - 1 \in Nat
        BY <1>1, <4>1
      <4>3. QED
        BY <1>1, <3>2, <3>4, <4>1, <4>2, ElementOfSeq
    <3>6. done = [s EXCEPT !.lastClientCommand = m.first + n - 1,
                           !.lastClientCommandString = last]
      BY <2>2
    <3> HIDE DEF done, last, fresh
    <3>7. /\ done \in Servers /\ done.lastClientCommand = m.first + n - 1
          /\ done.lastClientCommandString = last
          /\ done.state = s.state /\ done.sequence = s.sequence
          /\ done.commands = s.commands /\ done.acknowledge = s.acknowledge
          /\ done.gameDisconnects = s.gameDisconnects /\ done.collapsed = s.collapsed
      BY <1>1, <3>5, <3>6 DEF Servers
    <3>8. done.lastClientCommand = s.lastClientCommand + Len(fresh)
          /\ Issued(c, last, s.lastClientCommand + Len(fresh))
      BY <3>4, <3>5, <3>7
    <3>9. Right(done, c, messages, packets, handled, byCgame)
      <4>1. ignored \in SUBSET Ignorable(fresh)
        BY DEF fresh
      <4>2. QED
        BY <1>1, <4>1, <3>4, <3>5, <3>7, <3>8, CommandsExecuted
    <3>10. QED
      BY <3>7, <3>9 DEF Connected
  <2>3. QED
    BY <2>1, <2>2
<1>3. AfterCommands(s, m, n) = done \/ AfterCommands(s, m, n) = Dropped(done)
  BY DEF AfterCommands
<1> HIDE DEF done
<1>4. QED
  BY <1>2, <1>3, RightAfterDrop

\* Any packet that gets through to the server.
LEMMA RightAfterPacket ==
    ASSUME IInv, NEW i \in 1 .. Len(toServer), NEW flooded \in BOOLEAN,
           SV_PacketEvent(i, flooded)
    PROVE  IInv'
<1> DEFINE m == toServer[i]
           rest == SubSeq(toServer, i + 1, Len(toServer))
           acked == [sv EXCEPT !.acknowledge = m.ack]
<1>1. /\ toServer' = rest
      /\ cl' = cl /\ toClient' = toClient /\ executedByCgame' = executedByCgame
  BY DEF SV_PacketEvent, ToServer!Overtake
<1>2. Right(sv, cl, toClient, toServer, handledByServer, executedByCgame)
  BY DEF IInv
<1>3. CASE ~Connected(sv)
  <2>1. sv' = sv /\ handledByServer' = handledByServer
    BY <1>3 DEF SV_PacketEvent
  <2>2. PacketsRight(sv, cl, rest)
    BY <1>2, PacketsDropped DEF Right
  <2>3. Right(sv, cl, toClient, rest, handledByServer, executedByCgame)
    BY <1>2, <2>2 DEF Right
  <2>4. QED
    BY <1>1, <2>1, <2>3 DEF IInv
<1>4. CASE Connected(sv)
  <2>1. SV_ExecuteClientMessage(m, flooded)
    BY <1>4 DEF SV_PacketEvent
  <2>2. /\ Connected(acked) /\ acked.lastClientCommand = sv.lastClientCommand
        /\ m \in ClientMessages /\ PacketRight(acked, cl, m)
        /\ Right(acked, cl, toClient, rest, handledByServer, executedByCgame)
    <3>1. sv \in Servers
      BY <1>2 DEF Right, EndsRight
    <3>2. QED
      <4>1. m \in ClientMessages
        BY <1>2, ElementOfSeq DEF Right, PacketsRight
      <4>2. acked = [sv EXCEPT !.acknowledge = m.ack]
        OBVIOUS
      <4> HIDE DEF acked, m
      <4>3. /\ acked \in Servers /\ acked.state = sv.state /\ acked.acknowledge = m.ack
            /\ acked.sequence = sv.sequence /\ acked.commands = sv.commands
            /\ acked.lastClientCommand = sv.lastClientCommand
            /\ acked.lastClientCommandString = sv.lastClientCommandString
            /\ acked.gameDisconnects = sv.gameDisconnects
            /\ acked.collapsed = sv.collapsed
        BY <3>1, <4>1, <4>2 DEF Servers, ClientMessages
      <4>4. acked.acknowledge = toServer[i].ack
        BY <4>3 DEF m
      <4>5. /\ toServer[i] \in ClientMessages /\ PacketRight(acked, cl, toServer[i])
            /\ Right(acked, cl, toClient, rest, handledByServer, executedByCgame)
        BY <1>2, <1>4, <3>1, <4>3, <4>4, PacketAcknowledges
      <4>6. QED
        BY <1>4, <4>3, <4>5 DEF Connected, m
  <2>3. CASE DecodedByServer(m)
    <3>1. PICK n \in 0 .. Len(m.commands) :
              /\ sv' = AfterCommands(acked, m, n)
              /\ \E ignored \in SUBSET Ignorable(Fresh(m, n)) :
                    handledByServer' = handledByServer \o Handled(Fresh(m, n), ignored)
      BY <2>1, <2>3 DEF SV_ExecuteClientMessage
    <3>4. PICK ignored \in SUBSET Ignorable(Fresh(m, n)) :
              handledByServer' = handledByServer \o Handled(Fresh(m, n), ignored)
      BY <3>1
    <3> HIDE DEF m, acked, rest
    <3>2. Right(AfterCommands(acked, m, n), cl, toClient, rest,
                handledByServer \o Handled(Fresh(m, n), ignored), executedByCgame)
      BY <2>2, RightAfterCommands
    <3>3. QED
      BY <1>1, <3>1, <3>2, <3>4 DEF IInv
  <2>4. CASE ~DecodedByServer(m)
    <3>1. sv' \in {acked, Dropped(acked)} /\ handledByServer' = handledByServer
      BY <2>1, <2>4 DEF SV_ExecuteClientMessage
    <3> HIDE DEF m, acked, rest
    <3>2. Right(Dropped(acked), cl, toClient, rest, handledByServer, executedByCgame)
      BY <2>2, RightAfterDrop
    <3>3. QED
      BY <1>1, <2>2, <3>1, <3>2 DEF IInv
  <2>5. QED
    BY <2>3, <2>4
<1>5. QED
  BY <1>3, <1>4

-----------------------------------------------------------------------------
\* What is posted.

LEMMA MessagePosted ==
    ASSUME NEW s, NEW c, NEW messages, MessagesRight(s, c, messages),
           NEW m \in ServerMessages, MessageRight(s, c, m),
           \A i \in 1 .. Len(messages) :
               ~messages[i].cleared /\ ~m.cleared => messages[i].ack <= m.ack
    PROVE  MessagesRight(s, c, Post(messages, m))
<1> DEFINE new == Post(messages, m)
<1>1. messages \in Seq(ServerMessages) /\ Len(messages) <= MaxInFlight
  BY DEF MessagesRight
<1>2. /\ new \in Seq(ServerMessages) /\ Len(new) \in 1 .. MaxInFlight
      /\ new[Len(new)] = m
      /\ \E d \in {0, 1} :
            /\ Len(new) = Len(messages) - d + 1
            /\ \A i \in 1 .. Len(messages) - d : new[i] = messages[i + d]
  <2>1. PostedTo(ServerMessages, messages, m, new)
    BY <1>1, Posted
  <2> HIDE DEF new
  <2>2. QED
    BY <2>1 DEF PostedTo
<1> HIDE DEF new
<1>3. PICK d \in {0, 1} : /\ Len(new) = Len(messages) - d + 1
                          /\ \A i \in 1 .. Len(messages) - d : new[i] = messages[i + d]
  BY <1>2
<1>4. \A i \in 1 .. Len(new) :
          \/ i = Len(new) /\ new[i] = m
          \/ i < Len(new) /\ i + d \in 1 .. Len(messages) /\ new[i] = messages[i + d]
  <2>1. Len(messages) \in Nat /\ Len(new) \in Nat
    BY <1>1, <1>2, LenProperties
  <2>2. QED
    BY <1>2, <1>3, <2>1
<1>5. \A i \in 1 .. Len(new) : MessageRight(s, c, new[i])
  BY <1>4 DEF MessagesRight
<1>6. \A i, j \in 1 .. Len(new) :
          i < j /\ ~new[i].cleared /\ ~new[j].cleared => new[i].ack <= new[j].ack
  <2>1. SUFFICES ASSUME NEW i \in 1 .. Len(new), NEW j \in 1 .. Len(new), i < j,
                        ~new[i].cleared, ~new[j].cleared
                 PROVE  new[i].ack <= new[j].ack
    OBVIOUS
  <2>2. Len(new) \in Nat
    BY <1>2, LenProperties
  <2>3. i + d \in 1 .. Len(messages) /\ new[i] = messages[i + d]
    BY <1>4, <2>1, <2>2
  <2>4. CASE j = Len(new)
    BY <1>2, <2>1, <2>3, <2>4
  <2>5. CASE j # Len(new)
    <3>1. j + d \in 1 .. Len(messages) /\ new[j] = messages[j + d] /\ i + d < j + d
      BY <1>4, <2>1, <2>2, <2>5
    <3>2. QED
      BY <2>1, <2>3, <3>1 DEF MessagesRight
  <2>6. QED
    BY <2>4, <2>5
<1>7. Len(new) <= MaxInFlight
  BY <1>2, ReliableAssumption
<1>8. QED
  BY <1>2, <1>5, <1>6, <1>7 DEF new, MessagesRight

LEMMA PacketPosted ==
    ASSUME NEW s, NEW c, NEW packets, PacketsRight(s, c, packets),
           NEW m \in ClientMessages, PacketRight(s, c, m),
           \A i \in 1 .. Len(packets) : packets[i].ack <= m.ack
    PROVE  PacketsRight(s, c, Post(packets, m))
<1> DEFINE new == Post(packets, m)
<1>1. packets \in Seq(ClientMessages) /\ Len(packets) <= MaxInFlight
  BY DEF PacketsRight
<1>2. /\ new \in Seq(ClientMessages) /\ Len(new) \in 1 .. MaxInFlight
      /\ new[Len(new)] = m
      /\ \E d \in {0, 1} :
            /\ Len(new) = Len(packets) - d + 1
            /\ \A i \in 1 .. Len(packets) - d : new[i] = packets[i + d]
  <2>1. PostedTo(ClientMessages, packets, m, new)
    BY <1>1, Posted
  <2> HIDE DEF new
  <2>2. QED
    BY <2>1 DEF PostedTo
<1> HIDE DEF new
<1>3. PICK d \in {0, 1} : /\ Len(new) = Len(packets) - d + 1
                          /\ \A i \in 1 .. Len(packets) - d : new[i] = packets[i + d]
  BY <1>2
<1>4. \A i \in 1 .. Len(new) :
          \/ i = Len(new) /\ new[i] = m
          \/ i < Len(new) /\ i + d \in 1 .. Len(packets) /\ new[i] = packets[i + d]
  <2>1. Len(packets) \in Nat /\ Len(new) \in Nat
    BY <1>1, <1>2, LenProperties
  <2>2. QED
    BY <1>2, <1>3, <2>1
<1>5. \A i \in 1 .. Len(new) : PacketRight(s, c, new[i])
  BY <1>4 DEF PacketsRight
<1>6. \A i, j \in 1 .. Len(new) : i < j => new[i].ack <= new[j].ack
  <2>1. SUFFICES ASSUME NEW i \in 1 .. Len(new), NEW j \in 1 .. Len(new), i < j
                 PROVE  new[i].ack <= new[j].ack
    OBVIOUS
  <2>2. Len(new) \in Nat
    BY <1>2, LenProperties
  <2>3. i + d \in 1 .. Len(packets) /\ new[i] = packets[i + d]
    BY <1>4, <2>1, <2>2
  <2>4. CASE j = Len(new)
    BY <1>2, <2>1, <2>3, <2>4
  <2>5. CASE j # Len(new)
    <3>1. j + d \in 1 .. Len(packets) /\ new[j] = packets[j + d] /\ i + d < j + d
      BY <1>4, <2>1, <2>2, <2>5
    <3>2. QED
      BY <2>1, <2>3, <3>1 DEF PacketsRight
  <2>6. QED
    BY <2>4, <2>5
<1>7. Len(new) <= MaxInFlight
  BY <1>2, ReliableAssumption
<1>8. QED
  BY <1>2, <1>5, <1>6, <1>7 DEF new, PacketsRight

\* What either end repeats are texts.
LEMMA UnacknowledgedTexts ==
    ASSUME NEW side, side.acknowledge \in Int, side.commands \in [Slots -> Texts],
           Pending(side) \in 0 .. MaxReliableCommands
    PROVE  Unacknowledged(side) \in Seq(Texts)
           /\ Len(Unacknowledged(side)) = Pending(side)
<1>1. \A k \in 1 .. Pending(side) : side.commands[Slot(side.acknowledge + k)] \in Texts
  BY SlotType
<1>2. Pending(side) \in Nat
  OBVIOUS
<1>3. QED
  BY <1>1, <1>2 DEF Unacknowledged

\* The message with the commands the server repeats.
LEMMA SnapshotMessage ==
    ASSUME NEW s, NEW c, EndsRight(s, c), NEW list, list = Unacknowledged(s),
           NEW m, ~m.cleared, m.ack = s.lastClientCommand,
           m.key = s.lastClientCommandString, m.first = s.acknowledge + 1,
           m.commands = list, m.issued = s.sequence
    PROVE  MessageRight(s, c, m)
<1>1. s \in Servers /\ c \in Clients /\ ServerStream(s, c) /\ ClientStream(s, c)
  BY DEF EndsRight
<1>2. /\ s.sequence \in Nat /\ s.acknowledge \in Nat /\ s.commands \in [Slots -> Texts]
      /\ s.lastClientCommand \in Nat /\ s.lastClientCommandString \in Texts
      /\ c.serverCommandSequence \in Nat
  BY <1>1 DEF Servers, Clients
<1>3. Pending(s) \in 0 .. MaxReliableCommands
  BY <1>1 DEF ServerStream
<1>4. list \in Seq(Texts) /\ Len(list) = Pending(s)
  BY <1>2, <1>3, UnacknowledgedTexts
<1>5. ASSUME ~s.collapsed, NEW k \in 1 .. Pending(s)
      PROVE  Issued(s, list[k], s.acknowledge + k)
  <2>1. RingRight(s.commands, s.sequence)
    BY <1>1, <1>5 DEF ServerStream
  <2>2. QED
    BY <1>2, <1>3, <1>5, <2>1, UnacknowledgedRight
<1>6. /\ Pending(s) <= MaxReliableCommands
      /\ s.acknowledge + 1 + Pending(s) - 1 = s.sequence
      /\ \A k \in 1 .. Pending(s) : s.acknowledge + 1 + k - 1 = s.acknowledge + k
      /\ s.acknowledge <= c.serverCommandSequence
            => s.acknowledge + 1 <= c.serverCommandSequence + 1
  BY <1>2, <1>3, Rings DEF Pending
<1>7. ~s.collapsed => s.acknowledge <= c.serverCommandSequence
  BY <1>1 DEF ServerStream
<1>8. /\ Issued(c, s.lastClientCommandString, s.lastClientCommand)
      /\ c.state = "active" => c.acknowledge <= s.lastClientCommand
  <2>1. c.state = "active" => c.acknowledge \in 0 .. s.lastClientCommand
    BY <1>1 DEF ClientStream
  <2>2. QED
    BY <1>1, <1>2, <2>1 DEF ClientStream
<1>9. s.lastClientCommand <= s.lastClientCommand /\ s.sequence <= s.sequence
  BY <1>2
<1>10. QED
  BY <1>4, <1>5, <1>6, <1>7, <1>8, <1>9 DEF MessageRight

\* A message to the client, of the commands repeated or emptied.
LEMMA RightAfterMessage ==
    ASSUME NEW s, NEW c, NEW messages, NEW packets, NEW byGame, NEW byCgame,
           Right(s, c, messages, packets, byGame, byCgame),
           NEW m \in ServerMessages, MessageRight(s, c, m),
           ~m.cleared => m.ack = s.lastClientCommand
    PROVE  Right(s, c, Post(messages, m), packets, byGame, byCgame)
<1>1. MessagesRight(s, c, messages)
  BY DEF Right
<1>2. \A i \in 1 .. Len(messages) :
          ~messages[i].cleared /\ ~m.cleared => messages[i].ack <= m.ack
  BY <1>1 DEF MessagesRight, MessageRight
<1>3. MessagesRight(s, c, Post(messages, m))
  BY <1>1, <1>2, MessagePosted
<1>4. QED
  BY <1>3 DEF Right

\* A packet of the client says what it should.
LEMMA PacketSays ==
    ASSUME NEW s, NEW c \in Clients, ServerStream(s, c), s \in Servers,
           RingRight(c.commands, c.sequence), Pending(c) \in 0 .. MaxReliableCommands
    PROVE  Packet(c) \in ClientMessages /\ Packet(c).ack = c.serverCommandSequence
           /\ PacketRight(s, c, Packet(c))
<1> DEFINE m == Packet(c)
           list == Unacknowledged(c)
<1>1. /\ c.sequence \in Nat /\ c.acknowledge \in Int /\ c.acknowledge + 1 \in Nat
      /\ c.commands \in [Slots -> Texts] /\ c.serverCommandSequence \in Nat
      /\ c.serverCommands \in [Slots -> Texts]
  BY DEF Clients
<1>2. /\ list \in Seq(Texts) /\ Len(list) = Pending(c)
      /\ \A k \in 1 .. Pending(c) : Issued(c, list[k], c.acknowledge + k)
  BY <1>1, UnacknowledgedRight
<1>3. c.serverCommands[Slot(c.serverCommandSequence)] \in Texts
  BY <1>1, SlotType
<1> HIDE DEF list
<1>4. m = [ack |-> c.serverCommandSequence,
           key |-> c.serverCommands[Slot(c.serverCommandSequence)],
           first |-> c.acknowledge + 1, commands |-> list]
  BY DEF Packet, list
<1> HIDE DEF m
<1>5. /\ m \in ClientMessages /\ m.ack = c.serverCommandSequence
      /\ m.key = c.serverCommands[Slot(c.serverCommandSequence)]
      /\ m.first = c.acknowledge + 1 /\ m.commands = list
  BY <1>1, <1>2, <1>3, <1>4 DEF ClientMessages
<1>6. \A k \in 1 .. Len(m.commands) : Issued(c, m.commands[k], m.first + k - 1)
  <2>1. \A k \in 1 .. Pending(c) : c.acknowledge + 1 + k - 1 = c.acknowledge + k
    BY <1>1
  <2>2. QED
    BY <1>2, <1>5, <2>1
<1>7. ~s.collapsed => Issued(s, m.key, m.ack)
  <2>1. c.serverCommandSequence \in Last(c.serverCommandSequence)
    BY <1>1, Rings DEF Last
  <2>2. QED
    BY <1>5, <2>1 DEF ServerStream
<1>8. Connected(s) => s.acknowledge <= m.ack
  BY <1>5 DEF ServerStream
<1>9. m.ack <= c.serverCommandSequence
  BY <1>1, <1>5
<1>10. QED
  BY <1>5, <1>6, <1>7, <1>8, <1>9 DEF PacketRight, m

-----------------------------------------------------------------------------
\* What the client adds to its stream.

\* e is c with commands added, whatever becomes of the connection.
ClientGrows(c, e) ==
    /\ e.serverCommandSequence = c.serverCommandSequence
    /\ e.serverCommands = c.serverCommands
    /\ e.snapCommand = c.snapCommand /\ e.snapIssued = c.snapIssued
    /\ e.lastExecutedServerCommand = c.lastExecutedServerCommand
    /\ c.sequence <= e.sequence
    /\ RingRight(c.commands, c.sequence) => RingRight(e.commands, e.sequence)
    /\ \A n \in Int : \A text \in Texts : Issued(c, text, n) => Issued(e, text, n)

LEMMA RightAfterClientGrowth ==
    ASSUME NEW s, NEW c, NEW messages, NEW packets, NEW byGame, NEW byCgame,
           Right(s, c, messages, packets, byGame, byCgame),
           NEW e \in Clients, ClientGrows(c, e), e.acknowledge <= e.sequence,
           e.state = "active" => /\ c.state = "active" /\ e.acknowledge = c.acknowledge
                                 /\ Pending(e) <= MaxReliableCommands
    PROVE  Right(s, e, messages, packets, byGame, byCgame)
<1>1. /\ MessagesRight(s, c, messages) /\ PacketsRight(s, c, packets)
      /\ GameRight(s, byGame) /\ CgameRight(s, c, byCgame)
      /\ s \in Servers /\ c \in Clients /\ ServerStream(s, c) /\ ClientStream(s, c)
  BY DEF Right, EndsRight
<1>2. /\ e.serverCommandSequence = c.serverCommandSequence
      /\ e.serverCommands = c.serverCommands
      /\ e.snapCommand = c.snapCommand /\ e.snapIssued = c.snapIssued
      /\ e.lastExecutedServerCommand = c.lastExecutedServerCommand
      /\ RingRight(c.commands, c.sequence) => RingRight(e.commands, e.sequence)
      /\ \A n \in Int : \A text \in Texts : Issued(c, text, n) => Issued(e, text, n)
  BY DEF ClientGrows
<1>3. s.lastClientCommand \in Int /\ s.lastClientCommandString \in Texts
  BY <1>1 DEF Servers
<1>4. ServerStream(s, e)
  BY <1>1, <1>2 DEF ServerStream
<1>5. ClientStream(s, e)
  BY <1>1, <1>2, <1>3 DEF ClientStream
<1>6. ASSUME NEW m \in ServerMessages, MessageRight(s, c, m)
      PROVE  MessageRight(s, e, m)
  <2>1. SUFFICES ASSUME ~m.cleared PROVE MessageRight(s, e, m)
    BY DEF MessageRight
  <2>2. m.ack \in Int /\ m.key \in Texts
    <3>1. m \in [cleared : {FALSE}, ack : Nat, key : Texts, first : Nat,
                  commands : Seq(Texts), issued : Nat]
      BY <2>1 DEF ServerMessages
    <3>2. QED
      BY <3>1
  <2>3. QED
    BY <1>2, <1>6, <2>1, <2>2 DEF MessageRight
<1>7. ASSUME NEW m \in ClientMessages, PacketRight(s, c, m)
      PROVE  PacketRight(s, e, m)
  <2>1. m.commands \in Seq(Texts) /\ m.first \in Nat
    BY DEF ClientMessages
  <2>2. ASSUME NEW k \in 1 .. Len(m.commands)
        PROVE  Issued(e, m.commands[k], m.first + k - 1)
    <3>1. m.commands[k] \in Texts /\ m.first + k - 1 \in Int
      BY <2>1, ElementOfSeq
    <3>2. QED
      BY <1>2, <1>7, <2>2, <3>1 DEF PacketRight
  <2>3. QED
    BY <1>2, <1>7, <2>2 DEF PacketRight
<1>8. MessagesRight(s, e, messages) /\ PacketsRight(s, e, packets)
  BY <1>1, <1>6, <1>7, ElementOfSeq DEF MessagesRight, PacketsRight
<1>9. CgameRight(s, e, byCgame)
  BY <1>1, <1>2 DEF CgameRight
<1>10. QED
  BY <1>1, <1>4, <1>5, <1>8, <1>9 DEF Right, EndsRight

LEMMA ClientStores ==
    ASSUME NEW c \in Clients, NEW d \in BOOLEAN
    PROVE  /\ Store(c, d) \in Clients
           /\ Store(c, d).state = c.state
           /\ Store(c, d).acknowledge = c.acknowledge
           /\ Store(c, d).sequence = c.sequence + 1
           /\ ClientGrows(c, Store(c, d))
<1> DEFINE e == Store(c, d)
           ring == [c.commands EXCEPT ![Slot(c.sequence + 1)] = Text(c.sequence + 1, d)]
<1>1. c.sequence \in Nat /\ c.commands \in [Slots -> Texts] /\ c.sequence + 1 \in Nat
  BY DEF Clients
<1>2. e = [c EXCEPT !.sequence = c.sequence + 1, !.commands = ring]
  BY DEF Store
<1>3. /\ ring \in [Slots -> Texts]
      /\ RingRight(c.commands, c.sequence) => RingRight(ring, c.sequence + 1)
      /\ \A n \in Int : \A text \in Texts :
            TrueText(text, n, c.commands, c.sequence)
                => TrueText(text, n, ring, c.sequence + 1)
  BY <1>1, RingStores
<1> HIDE DEF ring, e
<1>4. /\ e \in Clients /\ e.sequence = c.sequence + 1 /\ e.commands = ring
      /\ e.state = c.state /\ e.acknowledge = c.acknowledge
      /\ e.serverCommandSequence = c.serverCommandSequence
      /\ e.serverCommands = c.serverCommands
      /\ e.snapCommand = c.snapCommand /\ e.snapIssued = c.snapIssued
      /\ e.lastExecutedServerCommand = c.lastExecutedServerCommand
  BY <1>1, <1>2, <1>3 DEF Clients
<1>5. ClientGrows(c, e)
  BY <1>1, <1>3, <1>4 DEF ClientGrows, Issued
<1>6. QED
  BY <1>4, <1>5 DEF e

\* A packet of the client on its way.
LEMMA RightAfterClientPacket ==
    ASSUME NEW s, NEW c, NEW messages, NEW packets, NEW byGame, NEW byCgame,
           Right(s, c, messages, packets, byGame, byCgame),
           Pending(c) \in 0 .. MaxReliableCommands
    PROVE  Right(s, c, messages, Post(packets, Packet(c)), byGame, byCgame)
<1>1. /\ PacketsRight(s, c, packets)
      /\ s \in Servers /\ c \in Clients /\ ServerStream(s, c) /\ ClientStream(s, c)
  BY DEF Right, EndsRight
<1>2. RingRight(c.commands, c.sequence)
  BY <1>1 DEF ClientStream
<1> DEFINE m == Packet(c)
<1>3. m \in ClientMessages /\ m.ack = c.serverCommandSequence /\ PacketRight(s, c, m)
  BY <1>1, <1>2, PacketSays
<1> HIDE DEF m
<1>4. \A i \in 1 .. Len(packets) : packets[i].ack <= m.ack
  BY <1>1, <1>3 DEF PacketsRight, PacketRight
<1>5. PacketsRight(s, c, Post(packets, m))
  BY <1>1, <1>3, <1>4, PacketPosted
<1>6. QED
  BY <1>5 DEF Right, m

\* The client leaves, after whatever acknowledgement it has taken over.
LEMMA RightAfterDisconnect ==
    ASSUME NEW s, NEW c, NEW messages, NEW byGame, NEW byCgame,
           Right(s, c, messages, toServer, byGame, byCgame),
           NEW x \in Clients, x.acknowledge <= x.sequence,
           x.sequence = c.sequence, x.commands = c.commands,
           x.serverCommandSequence = c.serverCommandSequence,
           x.serverCommands = c.serverCommands,
           x.snapCommand = c.snapCommand, x.snapIssued = c.snapIssued,
           x.lastExecutedServerCommand = c.lastExecutedServerCommand,
           CL_Disconnect(x)
    PROVE  Right(s, cl', messages, toServer', byGame, byCgame)
<1> DEFINE l == Store(x, TRUE)
<1>1. /\ l \in Clients /\ l.acknowledge = x.acknowledge /\ l.sequence = x.sequence + 1
      /\ ClientGrows(x, l)
  BY ClientStores
<1>2. \/ /\ Pending(l) <= MaxReliableCommands
         /\ cl' = [l EXCEPT !.state = "disconnected"]
         /\ toServer' = Post(toServer, Packet(l))
      \/ cl' = [l EXCEPT !.state = "failed"] /\ toServer' = toServer
  BY DEF CL_Disconnect
<1> HIDE DEF l
<1>3. /\ cl' \in Clients /\ cl'.state # "active"
      /\ cl'.acknowledge = l.acknowledge /\ cl'.sequence = l.sequence
      /\ cl'.commands = l.commands
      /\ cl'.serverCommandSequence = l.serverCommandSequence
      /\ cl'.serverCommands = l.serverCommands
      /\ cl'.snapCommand = l.snapCommand /\ cl'.snapIssued = l.snapIssued
      /\ cl'.lastExecutedServerCommand = l.lastExecutedServerCommand
  BY <1>1, <1>2 DEF Clients
<1>4. x.sequence \in Nat /\ x.acknowledge \in Int /\ cl'.acknowledge <= cl'.sequence
  BY <1>1, <1>3 DEF Clients
<1>5. ClientGrows(c, cl')
  BY <1>1, <1>3 DEF ClientGrows, Issued
<1>6. Right(s, cl', messages, toServer, byGame, byCgame)
  BY <1>3, <1>4, <1>5, RightAfterClientGrowth
<1>7. CASE toServer' = toServer
  BY <1>6, <1>7
<1>8. CASE Pending(l) <= MaxReliableCommands /\ toServer' = Post(toServer, Packet(l))
  <2>1. Packet(cl') = Packet(l) /\ Pending(cl') = Pending(l)
    BY <1>3 DEF Packet, Unacknowledged, Pending
  <2>2. Pending(cl') \in 0 .. MaxReliableCommands
    BY <1>1, <1>3, <1>4, <1>8, <2>1, Rings DEF Pending
  <2>3. QED
    BY <1>6, <1>8, <2>1, <2>2, RightAfterClientPacket
<1>9. QED
  BY <1>2, <1>7, <1>8

-----------------------------------------------------------------------------
\* A message at the client.

\* A message that is neither empty nor lost leaves the rest as right as they were.
LEMMA MessagesDropped ==
    ASSUME NEW s, NEW c, NEW messages, MessagesRight(s, c, messages),
           NEW i \in 1 .. Len(messages),
           NEW rest, rest = SubSeq(messages, i + 1, Len(messages))
    PROVE  /\ MessagesRight(s, c, rest)
           /\ messages[i] \in ServerMessages /\ MessageRight(s, c, messages[i])
           /\ \A j \in 1 .. Len(rest) :
                 ~messages[i].cleared /\ ~rest[j].cleared => messages[i].ack <= rest[j].ack
<1>1. messages \in Seq(ServerMessages)
  BY DEF MessagesRight
<1>2. /\ rest \in Seq(ServerMessages) /\ Len(rest) = Len(messages) - i
      /\ \A j \in 1 .. Len(rest) : rest[j] = messages[i + j]
  BY <1>1, Overtaken
<1>3. Len(messages) \in Nat /\ MaxInFlight \in Nat
  BY <1>1, ReliableAssumption
<1>4. \A j \in 1 .. Len(rest) : i + j \in 1 .. Len(messages) /\ i < i + j
  BY <1>2, <1>3
<1>5. \A j \in 1 .. Len(rest) : MessageRight(s, c, rest[j])
  BY <1>2, <1>4 DEF MessagesRight
<1>6. \A j \in 1 .. Len(rest) :
          ~messages[i].cleared /\ ~rest[j].cleared => messages[i].ack <= rest[j].ack
  BY <1>2, <1>4 DEF MessagesRight
<1>7. \A j, k \in 1 .. Len(rest) :
          j < k /\ ~rest[j].cleared /\ ~rest[k].cleared => rest[j].ack <= rest[k].ack
  <2>1. SUFFICES ASSUME NEW j \in 1 .. Len(rest), NEW k \in 1 .. Len(rest), j < k,
                        ~rest[j].cleared, ~rest[k].cleared
                 PROVE  rest[j].ack <= rest[k].ack
    OBVIOUS
  <2>2. i + j < i + k
    BY <2>1, <1>2, <1>3
  <2>3. QED
    BY <2>1, <2>2, <1>2, <1>4 DEF MessagesRight
<1>8. Len(rest) <= MaxInFlight
  BY <1>2, <1>3 DEF MessagesRight
<1>9. QED
  BY <1>1, <1>2, <1>5, <1>6, <1>7, <1>8, ElementOfSeq DEF MessagesRight

\* The client takes over the acknowledgement of a message.
LEMMA MessageAcknowledges ==
    ASSUME NEW s, NEW c, NEW messages, NEW packets, NEW byGame, NEW byCgame,
           Right(s, c, messages, packets, byGame, byCgame), c.state = "active",
           NEW i \in 1 .. Len(messages), ~messages[i].cleared,
           NEW e \in Clients, e.state = c.state, e.acknowledge = messages[i].ack,
           e.sequence = c.sequence, e.commands = c.commands,
           e.serverCommandSequence = c.serverCommandSequence,
           e.serverCommands = c.serverCommands,
           e.snapCommand = c.snapCommand, e.snapIssued = c.snapIssued,
           e.lastExecutedServerCommand = c.lastExecutedServerCommand
    PROVE  /\ Right(s, e, SubSeq(messages, i + 1, Len(messages)), packets, byGame, byCgame)
           /\ messages[i] \in ServerMessages /\ MessageRight(s, e, messages[i])
<1> DEFINE m == messages[i]
           rest == SubSeq(messages, i + 1, Len(messages))
<1>1. /\ MessagesRight(s, c, messages) /\ PacketsRight(s, c, packets)
      /\ GameRight(s, byGame) /\ CgameRight(s, c, byCgame)
      /\ s \in Servers /\ c \in Clients /\ ServerStream(s, c) /\ ClientStream(s, c)
  BY DEF Right, EndsRight
<1>2. /\ m \in ServerMessages /\ MessageRight(s, c, m) /\ MessagesRight(s, c, rest)
      /\ \A j \in 1 .. Len(rest) : ~m.cleared /\ ~rest[j].cleared => m.ack <= rest[j].ack
  BY <1>1, MessagesDropped
<1>3. ~m.cleared /\ e.acknowledge = m.ack
  OBVIOUS
<1> HIDE DEF m, rest
<1>4. m.ack \in Nat
  <2>1. m \in [cleared : {FALSE}, ack : Nat, key : Texts, first : Nat,
               commands : Seq(Texts), issued : Nat]
    BY <1>2, <1>3 DEF ServerMessages
  <2>2. QED
    BY <2>1
<1>5. /\ m.ack <= c.sequence /\ m.ack <= s.lastClientCommand
      /\ c.acknowledge <= m.ack
  BY <1>2, <1>3 DEF MessageRight, Issued, TrueText
<1>6. c.sequence \in Nat /\ c.acknowledge \in Int /\ s.lastClientCommand \in Nat
  BY <1>1 DEF Clients, Servers
<1>7. ServerStream(s, e)
  BY <1>1 DEF ServerStream
<1>8. ClientStream(s, e)
  <2>1. m.ack \in 0 .. s.lastClientCommand /\ Pending(e) <= MaxReliableCommands
    BY <1>1, <1>3, <1>4, <1>5, <1>6, Rings DEF ClientStream, Pending
  <2>2. QED
    BY <1>1, <1>3, <1>5, <2>1 DEF ClientStream, Issued
<1>9. ASSUME NEW p, MessageRight(s, c, p), ~p.cleared => m.ack <= p.ack
      PROVE  MessageRight(s, e, p)
  BY <1>3, <1>9 DEF MessageRight, Issued
<1>10. MessageRight(s, e, m)
  BY <1>2, <1>4, <1>9
<1>11. MessagesRight(s, e, rest)
  BY <1>2, <1>3, <1>9 DEF MessagesRight
<1>12. PacketsRight(s, e, packets) /\ CgameRight(s, e, byCgame)
  BY <1>1 DEF PacketsRight, PacketRight, CgameRight, Issued
<1>13. QED
  BY <1>1, <1>2, <1>7, <1>8, <1>10, <1>11, <1>12 DEF Right, EndsRight, m, rest

\* The pending window never makes the client take back an acknowledgement.
LEMMA NothingTakenBack ==
    ASSUME NEW s, NEW messages, NEW packets, NEW byGame, NEW byCgame,
           Right(s, cl, messages, packets, byGame, byCgame), cl.state = "active",
           NEW m, ~m.cleared, m \in ServerMessages, MessageRight(s, cl, m)
    PROVE  LET e == Acknowledged(m.ack)
           IN  /\ e \in Clients /\ e.state = cl.state /\ e.acknowledge = m.ack
               /\ e.sequence = cl.sequence /\ e.commands = cl.commands
               /\ e.serverCommandSequence = cl.serverCommandSequence
               /\ e.serverCommands = cl.serverCommands
               /\ e.snapCommand = cl.snapCommand /\ e.snapIssued = cl.snapIssued
               /\ e.lastExecutedServerCommand = cl.lastExecutedServerCommand
<1>1. cl \in Clients /\ ClientStream(s, cl)
  BY DEF Right, EndsRight
<1>2. m.ack \in Nat
  <2>1. m \in [cleared : {FALSE}, ack : Nat, key : Texts, first : Nat,
               commands : Seq(Texts), issued : Nat]
    BY DEF ServerMessages
  <2>2. QED
    BY <2>1
<1>3. cl.acknowledge <= m.ack
  BY DEF MessageRight
<1>4. cl.sequence \in Nat /\ cl.acknowledge \in Int
      /\ cl.sequence - cl.acknowledge <= MaxReliableCommands
  BY <1>1 DEF ClientStream, Clients, Pending
<1>5. ~(cl.sequence - m.ack > MaxReliableCommands)
  BY <1>2, <1>3, <1>4, Rings
<1>6. Acknowledged(m.ack) = [cl EXCEPT !.acknowledge = m.ack]
  BY <1>5 DEF Acknowledged
<1>7. QED
  BY <1>1, <1>2, <1>6 DEF Clients

\* What CommandsParsed makes of the copy, when the last command is new.
Copied(copy, held, first, last, commands) ==
    [s \in Slots |->
        IF \E n \in (held + 1) .. last : n >= first /\ Slot(n) = s
        THEN commands[(CHOOSE n \in first .. last : n > held /\ Slot(n) = s) - first + 1]
        ELSE copy[s]]

\* The numbers not yet seen have their commands, the others what they had.
CopyRight(new, copy, held, first, last, commands) ==
    \A n \in Last(last) :
        IF n > held
        THEN n - first + 1 \in 1 .. Len(commands)
             /\ new[Slot(n)] = commands[n - first + 1]
        ELSE n \in Last(held) /\ new[Slot(n)] = copy[Slot(n)]

\* The commands of a message go into the slots of the numbers not yet seen; the
\* rest of the copy stays.
LEMMA CopyAfterMessage ==
    ASSUME NEW held \in Nat, NEW copy \in [Slots -> Texts],
           NEW first \in Nat, NEW commands \in Seq(Texts), NEW last \in Int,
           last = first + Len(commands) - 1, held < last
    PROVE  LET new == Copied(copy, held, first, last, commands)
           IN  /\ new \in [Slots -> Texts]
               /\ first <= held + 1 /\ Len(commands) <= MaxReliableCommands
                    => CopyRight(new, copy, held, first, last, commands)
<1> DEFINE IsNew(s) == \E n \in (held + 1) .. last : n >= first /\ Slot(n) = s
           NewIn(s) == CHOOSE n \in first .. last : n > held /\ Slot(n) = s
           new == Copied(copy, held, first, last, commands)
<1>1. new = [s \in Slots |-> IF IsNew(s) THEN commands[NewIn(s) - first + 1] ELSE copy[s]]
  BY DEF Copied
<1> HIDE DEF new
<1>2. ASSUME NEW s \in Slots, IsNew(s)
      PROVE  NewIn(s) \in first .. last /\ NewIn(s) > held /\ Slot(NewIn(s)) = s
  <2>1. \E n \in first .. last : n > held /\ Slot(n) = s
    <3>1. PICK n \in (held + 1) .. last : n >= first /\ Slot(n) = s
      BY <1>2
    <3>2. n \in first .. last /\ n > held
      BY <3>1
    <3>3. QED
      BY <3>1, <3>2
  <2>2. QED
    BY <2>1
<1>3. Len(commands) \in Nat
  BY LenProperties
<1>4. \A n \in first .. last : n - first + 1 \in 1 .. Len(commands)
                               /\ commands[n - first + 1] \in Texts
  <2>1. \A n \in first .. last : n - first + 1 \in 1 .. Len(commands)
    BY <1>3
  <2>2. QED
    BY <2>1, ElementOfSeq
<1>5. ASSUME NEW n \in Last(last), n > held, first <= held + 1,
             Len(commands) <= MaxReliableCommands
      PROVE  n - first + 1 \in 1 .. Len(commands)
             /\ new[Slot(n)] = commands[n - first + 1]
  <2>1. n \in Int /\ n \in (held + 1) .. last /\ n \in first .. last
    BY <1>5, Rings DEF Last
  <2>2. IsNew(Slot(n)) /\ Slot(n) \in Slots
    BY <2>1, SlotType
  <2> DEFINE k == NewIn(Slot(n))
  <2>3. k \in first .. last /\ Slot(k) = Slot(n)
    BY <1>2, <2>2
  <2>4. new[Slot(n)] = commands[k - first + 1]
    BY <1>1, <2>2
  <2> HIDE DEF k
  <2>5. k - n < MaxReliableCommands /\ n - k < MaxReliableCommands
    BY <1>3, <1>5, <2>1, <2>3, Rings
  <2>6. k = n
    BY <2>1, <2>3, <2>5, SlotsApart
  <2>7. QED
    BY <1>4, <2>1, <2>4, <2>6
<1>6. ASSUME NEW n \in Last(last), ~(n > held), first <= held + 1
      PROVE  n \in Last(held) /\ new[Slot(n)] = copy[Slot(n)]
  <2>1. n \in Int /\ n \in Last(held) /\ last - n < MaxReliableCommands
    BY <1>6, Rings DEF Last
  <2>2. ~IsNew(Slot(n))
    <3>1. SUFFICES ASSUME NEW k \in (held + 1) .. last, Slot(k) = Slot(n) PROVE FALSE
      OBVIOUS
    <3>2. n < k /\ k - n < MaxReliableCommands /\ k \in Int
      BY <1>6, <2>1, <3>1, Rings
    <3>3. QED
      BY <2>1, <3>1, <3>2, SlotsApart
  <2>3. QED
    BY <1>1, <2>1, <2>2, SlotType
<1>7. new \in [Slots -> Texts]
  BY <1>1, <1>2, <1>4
<1>8. QED
  BY <1>5, <1>6, <1>7 DEF CopyRight, new

\* The commands and the snapshot of a message.
LEMMA RightAfterSnapshot ==
    ASSUME NEW s, NEW c, NEW messages, NEW packets, NEW byGame, NEW byCgame,
           Right(s, c, messages, packets, byGame, byCgame),
           NEW m \in ServerMessages, ~m.cleared, MessageRight(s, c, m),
           NEW e \in Clients, e.state = c.state, e.sequence = c.sequence,
           e.acknowledge = c.acknowledge, e.commands = c.commands,
           e.lastExecutedServerCommand = c.lastExecutedServerCommand,
           c.serverCommandSequence <= e.serverCommandSequence,
           m.issued <= e.serverCommandSequence,
           e.serverCommandSequence <= s.sequence,
           e.snapCommand = e.serverCommandSequence, e.snapIssued = m.issued,
           ~s.collapsed => \A n \in Last(e.serverCommandSequence) :
                              Issued(s, e.serverCommands[Slot(n)], n)
    PROVE  Right(s, e, messages, packets, byGame, byCgame)
<1>1. /\ MessagesRight(s, c, messages) /\ PacketsRight(s, c, packets)
      /\ GameRight(s, byGame) /\ CgameRight(s, c, byCgame)
      /\ s \in Servers /\ c \in Clients /\ ServerStream(s, c) /\ ClientStream(s, c)
  BY DEF Right, EndsRight
<1>2. /\ c.serverCommandSequence \in Nat /\ e.serverCommandSequence \in Nat
      /\ s.acknowledge \in Nat /\ c.lastExecutedServerCommand \in Nat
      /\ c.snapCommand \in Nat
  BY <1>1 DEF Clients, Servers
<1>3. ServerStream(s, e)
  BY <1>1, <1>2 DEF ServerStream
<1>4. ClientStream(s, e)
  BY <1>1 DEF ClientStream, Pending, Issued
<1>5. ASSUME NEW p \in ClientMessages, PacketRight(s, c, p)
      PROVE  PacketRight(s, e, p)
  <2>1. p.ack \in Nat
    BY DEF ClientMessages
  <2>2. QED
    BY <1>2, <1>5, <2>1 DEF PacketRight, Issued
<1>6. ASSUME NEW p \in ServerMessages, MessageRight(s, c, p)
      PROVE  MessageRight(s, e, p)
  <2>1. SUFFICES ASSUME ~p.cleared PROVE MessageRight(s, e, p)
    BY DEF MessageRight
  <2>2. p.first \in Nat
    <3>1. p \in [cleared : {FALSE}, ack : Nat, key : Texts, first : Nat,
                 commands : Seq(Texts), issued : Nat]
      BY <2>1 DEF ServerMessages
    <3>2. QED
      BY <3>1
  <2>3. ~s.collapsed => p.first <= e.serverCommandSequence + 1
    BY <1>2, <1>6, <2>1, <2>2 DEF MessageRight
  <2>4. QED
    BY <1>6, <2>1, <2>3 DEF MessageRight, Issued
<1>7. MessagesRight(s, e, messages) /\ PacketsRight(s, e, packets)
  BY <1>1, <1>5, <1>6, ElementOfSeq DEF MessagesRight, PacketsRight
<1>8. CgameRight(s, e, byCgame)
  BY <1>1, <1>2 DEF CgameRight
<1>9. QED
  BY <1>1, <1>3, <1>4, <1>7, <1>8 DEF Right, EndsRight

\* The client reads a whole message.
LEMMA RightAfterServerMessage ==
    ASSUME NEW s, NEW c, NEW messages, NEW packets, NEW byGame, NEW byCgame,
           Right(s, c, messages, packets, byGame, byCgame),
           NEW m \in ServerMessages, ~m.cleared, MessageRight(s, c, m)
    PROVE  Right(s, SnapshotParsed(CommandsParsed(c, m), m), messages, packets, byGame, byCgame)
<1> DEFINE last == m.first + Len(m.commands) - 1
           held == c.serverCommandSequence
           p == CommandsParsed(c, m)
           e == SnapshotParsed(p, m)
           copy == Copied(c.serverCommands, held, m.first, last, m.commands)
           seen == IF last > held THEN last ELSE held
<1>1. /\ s \in Servers /\ c \in Clients /\ ServerStream(s, c)
  BY DEF Right, EndsRight
<1>2. /\ m.first \in Nat /\ m.commands \in Seq(Texts) /\ m.issued \in Nat
      /\ Len(m.commands) \in Nat
  <2>1. m \in [cleared : {FALSE}, ack : Nat, key : Texts, first : Nat,
               commands : Seq(Texts), issued : Nat]
    BY DEF ServerMessages
  <2>2. QED
    BY <2>1, LenProperties
<1>3. /\ held \in Nat /\ c.serverCommands \in [Slots -> Texts] /\ s.sequence \in Nat
  BY <1>1 DEF Clients, Servers
<1>4. /\ last \in Int /\ last = m.issued /\ last <= s.sequence /\ held <= s.sequence
      /\ Len(m.commands) <= MaxReliableCommands
  BY <1>1, <1>2 DEF MessageRight, ServerStream
<1>5. p = [c EXCEPT !.serverCommandSequence = seen, !.serverCommands = copy]
  BY DEF CommandsParsed, Copied
<1>6. e = [p EXCEPT !.snapCommand = p.serverCommandSequence, !.snapIssued = m.issued]
  BY DEF SnapshotParsed
<1>7. seen \in Nat /\ held <= seen /\ last <= seen /\ seen <= s.sequence
  BY <1>2, <1>3, <1>4
<1>8. /\ copy \in [Slots -> Texts]
      /\ ~s.collapsed => \A n \in Last(seen) : Issued(s, copy[Slot(n)], n)
  <2>1. CASE ~(held < last)
    <3>1. \A z \in Slots : ~ \E n \in (held + 1) .. last : n >= m.first /\ Slot(n) = z
      BY <1>3, <1>4, <2>1
    <3>2. copy = [z \in Slots |-> c.serverCommands[z]]
      BY <3>1 DEF Copied
    <3>3. copy = c.serverCommands /\ seen = held
      BY <1>3, <1>4, <2>1, <3>2
    <3>4. QED
      BY <1>1, <1>3, <3>3 DEF ServerStream
  <2>2. CASE held < last
    <3>1. seen = last
      BY <1>3, <1>4, <2>2
    <3> HIDE DEF copy, seen
    <3>2. /\ copy \in [Slots -> Texts]
          /\ m.first <= held + 1 /\ Len(m.commands) <= MaxReliableCommands
                => CopyRight(copy, c.serverCommands, held, m.first, last, m.commands)
      BY <1>2, <1>3, <1>4, <2>2, CopyAfterMessage DEF copy
    <3>3. ASSUME ~s.collapsed, NEW n \in Last(seen)
          PROVE  Issued(s, copy[Slot(n)], n)
      <4>1. m.first <= held + 1 /\ n \in Last(last) /\ n \in Int
        BY <3>1, <3>3 DEF MessageRight, Last
      <4> HIDE DEF last, held
      <4>2. CASE n > held
        <5>1. /\ n - m.first + 1 \in 1 .. Len(m.commands)
              /\ copy[Slot(n)] = m.commands[n - m.first + 1]
          BY <1>4, <3>2, <4>1, <4>2 DEF CopyRight
        <5>2. Issued(s, m.commands[n - m.first + 1], m.first + (n - m.first + 1) - 1)
          BY <3>3, <5>1 DEF MessageRight
        <5>3. m.first + (n - m.first + 1) - 1 = n
          BY <1>2, <4>1
        <5>4. QED
          BY <5>1, <5>2, <5>3
      <4>3. CASE ~(n > held)
        <5>1. n \in Last(held) /\ copy[Slot(n)] = c.serverCommands[Slot(n)]
          BY <1>4, <3>2, <4>1, <4>3 DEF CopyRight
        <5>2. QED
          BY <1>1, <3>3, <5>1 DEF ServerStream, held
      <4>4. QED
        BY <4>2, <4>3
    <3>4. QED
      BY <3>2, <3>3
  <2>3. QED
    BY <2>1, <2>2
<1> HIDE DEF copy, seen, p, e, last
<1>9. /\ p \in Clients /\ p.state = c.state /\ p.sequence = c.sequence
      /\ p.acknowledge = c.acknowledge /\ p.commands = c.commands
      /\ p.serverCommandSequence = seen /\ p.serverCommands = copy
      /\ p.lastExecutedServerCommand = c.lastExecutedServerCommand
  BY <1>1, <1>5, <1>7, <1>8 DEF Clients
<1>10. /\ e \in Clients /\ e.state = c.state /\ e.sequence = c.sequence
       /\ e.acknowledge = c.acknowledge /\ e.commands = c.commands
       /\ e.serverCommandSequence = seen /\ e.serverCommands = copy
       /\ e.lastExecutedServerCommand = c.lastExecutedServerCommand
       /\ e.snapCommand = seen /\ e.snapIssued = m.issued
  BY <1>2, <1>6, <1>7, <1>9 DEF Clients
<1>11. Right(s, e, messages, packets, byGame, byCgame)
  BY <1>4, <1>7, <1>8, <1>10, RightAfterSnapshot
<1>12. QED
  BY <1>11 DEF e, p

\* Any message that gets through to the client.
LEMMA RightAfterClientMessage ==
    ASSUME IInv, NEW i \in 1 .. Len(toClient), CL_PacketEvent(i)
    PROVE  IInv'
<1> DEFINE m == toClient[i]
           rest == SubSeq(toClient, i + 1, Len(toClient))
           empty == Acknowledged(-1)
           acked == Acknowledged(m.ack)
<1>1. /\ cl.state = "active" /\ toClient' = rest
      /\ sv' = sv /\ handledByServer' = handledByServer /\ executedByCgame' = executedByCgame
      /\ CL_ParseEmptyMessage(m) \/ CL_ParseServerMessage(m) \/ CL_ParseNoise(m)
  BY DEF CL_PacketEvent, ToClient!Overtake
<1>2. Right(sv, cl, toClient, toServer, handledByServer, executedByCgame)
  BY DEF IInv
<1>3. /\ m \in ServerMessages /\ MessageRight(sv, cl, m) /\ MessagesRight(sv, cl, rest)
      /\ cl \in Clients
  BY <1>2, MessagesDropped DEF Right, EndsRight
<1>4. Right(sv, cl, rest, toServer, handledByServer, executedByCgame)
  BY <1>2, <1>3 DEF Right
<1>5. ASSUME CL_ParseEmptyMessage(m) PROVE IInv'
  <2>1. CL_Disconnect(empty)
    BY <1>5 DEF CL_ParseEmptyMessage, Com_Error
  <2>2. cl.sequence \in Nat
    BY <1>3 DEF Clients
  <2>3. PICK a \in {cl.sequence, -1} : empty = [cl EXCEPT !.acknowledge = a]
    BY DEF Acknowledged
  <2> HIDE DEF empty, rest
  <2>4. /\ empty \in Clients /\ empty.acknowledge = a
        /\ empty.sequence = cl.sequence /\ empty.commands = cl.commands
        /\ empty.serverCommandSequence = cl.serverCommandSequence
        /\ empty.serverCommands = cl.serverCommands
        /\ empty.snapCommand = cl.snapCommand /\ empty.snapIssued = cl.snapIssued
        /\ empty.lastExecutedServerCommand = cl.lastExecutedServerCommand
    BY <1>3, <2>2, <2>3 DEF Clients
  <2>5. empty.acknowledge <= empty.sequence
    BY <2>2, <2>4
  <2>6. Right(sv, cl', rest, toServer', handledByServer, executedByCgame)
    BY <1>4, <2>1, <2>4, <2>5, RightAfterDisconnect
  <2>7. QED
    BY <1>1, <2>6 DEF IInv
<1>6. ASSUME ~m.cleared
      PROVE  /\ acked \in Clients /\ acked.state = cl.state /\ acked.acknowledge = m.ack
             /\ acked.sequence = cl.sequence /\ acked.commands = cl.commands
             /\ acked.serverCommandSequence = cl.serverCommandSequence
             /\ acked.serverCommands = cl.serverCommands
             /\ acked.snapCommand = cl.snapCommand /\ acked.snapIssued = cl.snapIssued
             /\ acked.lastExecutedServerCommand = cl.lastExecutedServerCommand
             /\ Right(sv, acked, rest, toServer, handledByServer, executedByCgame)
             /\ MessageRight(sv, acked, m)
  <2>1. /\ acked \in Clients /\ acked.state = cl.state /\ acked.acknowledge = m.ack
        /\ acked.sequence = cl.sequence /\ acked.commands = cl.commands
        /\ acked.serverCommandSequence = cl.serverCommandSequence
        /\ acked.serverCommands = cl.serverCommands
        /\ acked.snapCommand = cl.snapCommand /\ acked.snapIssued = cl.snapIssued
        /\ acked.lastExecutedServerCommand = cl.lastExecutedServerCommand
    BY <1>1, <1>2, <1>3, <1>6, NothingTakenBack
  <2> HIDE DEF acked
  <2>2. /\ Right(sv, acked, rest, toServer, handledByServer, executedByCgame)
        /\ MessageRight(sv, acked, m)
    BY <1>1, <1>2, <1>6, <2>1, MessageAcknowledges
  <2>3. QED
    BY <2>1, <2>2
<1>7. ASSUME CL_ParseServerMessage(m) PROVE IInv'
  <2>1. /\ ~m.cleared /\ toServer' = toServer
        /\ cl' = SnapshotParsed(CommandsParsed(acked, m), m)
    BY <1>7 DEF CL_ParseServerMessage
  <2> HIDE DEF acked, m, rest
  <2>2. Right(sv, cl', rest, toServer, handledByServer, executedByCgame)
    BY <1>3, <1>6, <2>1, RightAfterServerMessage
  <2>3. QED
    BY <1>1, <2>1, <2>2 DEF IInv
<1>8. ASSUME CL_ParseNoise(m) PROVE IInv'
  <2>1. /\ ~m.cleared
        /\ CL_Disconnect(acked) \/ (cl' = acked /\ toServer' = toServer)
    BY <1>8 DEF CL_ParseNoise, Com_Error
  <2> HIDE DEF acked, m, rest
  <2>2. CASE CL_Disconnect(acked)
    <3>1. acked.acknowledge <= acked.sequence
      BY <1>6, <2>1 DEF Right, EndsRight, ClientStream
    <3>2. Right(sv, cl', rest, toServer', handledByServer, executedByCgame)
      BY <1>6, <2>1, <2>2, <3>1, RightAfterDisconnect
    <3>3. QED
      BY <1>1, <3>2 DEF IInv
  <2>3. CASE cl' = acked /\ toServer' = toServer
    BY <1>1, <1>6, <2>1, <2>3 DEF IInv
  <2>4. QED
    BY <2>1, <2>2, <2>3
<1>9. QED
  BY <1>1, <1>5, <1>7, <1>8

-----------------------------------------------------------------------------
\* Cgame.

\* A command not cycled out is the next to execute.
LEMMA CommandHeld ==
    ASSUME NEW s, NEW c, NEW messages, NEW packets, NEW byGame, NEW byCgame,
           Right(s, c, messages, packets, byGame, byCgame),
           NEW number, number = c.lastExecutedServerCommand + 1,
           number <= c.snapCommand,
           c.serverCommandSequence - number < MaxReliableCommands,
           NEW text, text = c.serverCommands[Slot(number)],
           NEW e \in Clients, e.state = c.state, e.sequence = c.sequence,
           e.acknowledge = c.acknowledge, e.commands = c.commands,
           e.serverCommandSequence = c.serverCommandSequence,
           e.serverCommands = c.serverCommands,
           e.snapCommand = c.snapCommand, e.snapIssued = c.snapIssued,
           e.lastExecutedServerCommand = number
    PROVE  Right(s, e, messages, packets, byGame, Append(byCgame, text))
<1>1. /\ MessagesRight(s, c, messages) /\ PacketsRight(s, c, packets)
      /\ GameRight(s, byGame) /\ CgameRight(s, c, byCgame)
      /\ s \in Servers /\ c \in Clients /\ ServerStream(s, c) /\ ClientStream(s, c)
  BY DEF Right, EndsRight
<1>2. /\ number \in Nat /\ number > 0 /\ c.serverCommandSequence \in Nat
      /\ c.snapCommand \in Nat /\ c.lastExecutedServerCommand \in Nat
      /\ c.serverCommands \in [Slots -> Texts]
  BY <1>1 DEF Clients
<1>3. number \in Last(c.serverCommandSequence)
  BY <1>1, <1>2, Rings DEF CgameRight, Last
<1>4. text \in Texts
  BY <1>2, SlotType
<1>5. ~s.collapsed => text.number = number
  BY <1>1, <1>2, <1>3 DEF ServerStream, Issued, TrueText, Numbered
<1>6. ServerStream(s, e) /\ ClientStream(s, e)
  BY <1>1 DEF ServerStream, ClientStream, Pending, Issued
<1>7. MessagesRight(s, e, messages) /\ PacketsRight(s, e, packets)
  BY <1>1 DEF MessagesRight, MessageRight, PacketsRight, PacketRight, Issued
<1>8. CgameRight(s, e, Append(byCgame, text))
  <2> DEFINE new == Append(byCgame, text)
             l == Len(byCgame)
  <2>1. byCgame \in Seq(Texts)
    BY <1>1 DEF CgameRight
  <2>2. /\ new \in Seq(Texts) /\ Len(new) = l + 1 /\ new[l + 1] = text /\ l \in Nat
        /\ \A k \in 1 .. l : new[k] = byCgame[k]
    BY <1>4, <2>1, AppendProperties, LenProperties
  <2>3. ~s.collapsed => l = c.lastExecutedServerCommand
                        /\ \A k \in 1 .. l : byCgame[k].number = k
    BY <1>1 DEF CgameRight
  <2> HIDE DEF new, l
  <2>4. ASSUME ~s.collapsed, NEW k \in 1 .. l + 1 PROVE new[k].number = k
    <3>1. CASE k \in 1 .. l
      BY <2>2, <2>3, <2>4, <3>1
    <3>2. CASE k = l + 1
      BY <1>5, <2>2, <2>3, <2>4, <3>2
    <3>3. QED
      BY <2>2, <3>1, <3>2
  <2>5. ~s.collapsed => Len(new) = number
    BY <1>2, <2>2, <2>3
  <2>6. QED
    BY <1>1, <2>2, <2>4, <2>5 DEF CgameRight, new
<1>9. QED
  BY <1>1, <1>6, <1>7, <1>8 DEF Right, EndsRight

LEMMA RightAfterGetServerCommand ==
    ASSUME IInv, CL_GetServerCommand
    PROVE  IInv'
<1> DEFINE number == cl.lastExecutedServerCommand + 1
           text == cl.serverCommands[Slot(number)]
           executed == [cl EXCEPT !.lastExecutedServerCommand = number]
<1>1. /\ sv' = sv /\ toClient' = toClient /\ handledByServer' = handledByServer
      /\ cl.lastExecutedServerCommand < cl.snapCommand
      /\ IF CycledOut(number)
         THEN Com_Error(cl) /\ executedByCgame' = executedByCgame
         ELSE /\ executedByCgame' = Append(executedByCgame, text)
              /\ IF text.disconnect
                 THEN Com_Error(executed)
                 ELSE cl' = executed /\ toServer' = toServer
  BY DEF CL_GetServerCommand
<1>2. /\ Right(sv, cl, toClient, toServer, handledByServer, executedByCgame)
      /\ cl \in Clients /\ ClientStream(sv, cl)
  BY DEF IInv, Right, EndsRight
<1>3. cl.lastExecutedServerCommand \in Nat /\ number \in Nat /\ cl.snapCommand \in Nat
      /\ cl.serverCommandSequence \in Nat
  BY <1>2 DEF Clients
<1>4. cl.acknowledge <= cl.sequence
  BY <1>2 DEF ClientStream
<1>5. CASE CycledOut(number)
  <2>1. CL_Disconnect(cl) /\ executedByCgame' = executedByCgame
    BY <1>1, <1>5 DEF Com_Error
  <2>2. Right(sv, cl', toClient, toServer', handledByServer, executedByCgame)
    BY <1>2, <1>4, <2>1, RightAfterDisconnect
  <2>3. QED
    BY <1>1, <2>1, <2>2 DEF IInv
<1>6. CASE ~CycledOut(number)
  <2>1. /\ executedByCgame' = Append(executedByCgame, text)
        /\ CL_Disconnect(executed) \/ (cl' = executed /\ toServer' = toServer)
    BY <1>1, <1>6 DEF Com_Error
  <2>2. cl.serverCommandSequence - number < MaxReliableCommands /\ number <= cl.snapCommand
    BY <1>1, <1>3, <1>6, Rings DEF CycledOut
  <2>3. /\ number = cl.lastExecutedServerCommand + 1
        /\ text = cl.serverCommands[Slot(number)]
        /\ executed = [cl EXCEPT !.lastExecutedServerCommand = number]
    OBVIOUS
  <2> HIDE DEF number, text, executed
  <2>4. /\ executed \in Clients /\ executed.state = cl.state
        /\ executed.sequence = cl.sequence
        /\ executed.acknowledge = cl.acknowledge /\ executed.commands = cl.commands
        /\ executed.serverCommandSequence = cl.serverCommandSequence
        /\ executed.serverCommands = cl.serverCommands
        /\ executed.snapCommand = cl.snapCommand /\ executed.snapIssued = cl.snapIssued
        /\ executed.lastExecutedServerCommand = number
    BY <1>2, <1>3, <2>3 DEF Clients
  <2>5. Right(sv, executed, toClient, toServer, handledByServer,
              Append(executedByCgame, text))
    BY <1>2, <2>2, <2>3, <2>4, CommandHeld, ZenonT(30)
  <2>6. CASE cl' = executed /\ toServer' = toServer
    BY <1>1, <2>1, <2>5, <2>6 DEF IInv
  <2>7. CASE CL_Disconnect(executed)
    <3>1. executed.acknowledge <= executed.sequence
      BY <1>4, <2>4
    <3>2. Right(sv, cl', toClient, toServer', handledByServer,
                Append(executedByCgame, text))
      BY <2>4, <2>5, <2>7, <3>1, RightAfterDisconnect
    <3>3. QED
      BY <1>1, <2>1, <3>2 DEF IInv
  <2>8. QED
    BY <2>1, <2>6, <2>7
<1>7. QED
  BY <1>5, <1>6

-----------------------------------------------------------------------------
\* The invariant.

LEMMA InitIInv == Init => IInv
<1>1. SUFFICES ASSUME Init PROVE IInv
  OBVIOUS
<1>2. NoText \in Texts /\ NoText.number = 0
  BY DEF NoText, Text, Texts
<1>3. [z \in Slots |-> NoText] \in [Slots -> Texts]
  BY <1>2
<1>4. sv \in Servers /\ cl \in Clients
  BY <1>1, <1>2, <1>3 DEF Init, Servers, Clients
<1>5. \A n \in Last(0) : n \in Int /\ ~(n > 0) /\ n <= 0 /\ Slot(n) \in Slots
  BY Rings, SlotType DEF Last
<1>6. /\ sv.sequence = 0 /\ sv.acknowledge = 0 /\ sv.commands = [z \in Slots |-> NoText]
      /\ sv.gameDisconnects = 0 /\ ~sv.collapsed /\ sv.lastClientCommand = 0
      /\ sv.lastClientCommandString = NoText
      /\ cl.sequence = 0 /\ cl.acknowledge = 0 /\ cl.commands = [z \in Slots |-> NoText]
      /\ cl.serverCommandSequence = 0 /\ cl.serverCommands = [z \in Slots |-> NoText]
      /\ cl.snapCommand = 0 /\ cl.snapIssued = 0 /\ cl.lastExecutedServerCommand = 0
  BY <1>1 DEF Init
<1>7. RingRight([z \in Slots |-> NoText], 0)
  BY <1>2, <1>5 DEF RingRight, Numbered
<1>8. \A n \in Last(0) : TrueText(NoText, n, [z \in Slots |-> NoText], 0)
  BY <1>2, <1>5 DEF TrueText, Numbered
<1>9. ServerStream(sv, cl)
  <2>1. \A n \in Last(0) : cl.serverCommands[Slot(n)] = NoText
    BY <1>5, <1>6
  <2>2. \A n \in Last(cl.serverCommandSequence) :
            Issued(sv, cl.serverCommands[Slot(n)], n)
    BY <1>6, <1>8, <2>1 DEF Issued
  <2>3. Pending(sv) \in 0 .. MaxReliableCommands
    BY <1>6, Rings DEF Pending
  <2>4. QED
    BY <1>6, <1>7, <2>2, <2>3 DEF ServerStream
<1>10. ClientStream(sv, cl)
  <2>1. 0 \in Last(0)
    BY Rings DEF Last
  <2>2. Issued(cl, NoText, 0)
    BY <1>6, <1>8, <2>1 DEF Issued
  <2>3. Pending(cl) <= MaxReliableCommands
    BY <1>6, Rings DEF Pending
  <2>4. QED
    BY <1>6, <1>7, <2>2, <2>3 DEF ClientStream
<1>11. /\ MessagesRight(sv, cl, toClient) /\ PacketsRight(sv, cl, toServer)
       /\ GameRight(sv, handledByServer) /\ CgameRight(sv, cl, executedByCgame)
  <2>1. /\ toClient = << >> /\ toServer = << >>
        /\ handledByServer = << >> /\ executedByCgame = << >>
    BY <1>1 DEF Init
  <2>2. \A S : << >> \in Seq(S) /\ Len(<< >>) = 0
    OBVIOUS
  <2>3. 0 <= MaxInFlight /\ \A i \in 1 .. 0 : FALSE
    BY ReliableAssumption
  <2>4. QED
    BY <1>6, <2>1, <2>2, <2>3 DEF MessagesRight, PacketsRight, GameRight, CgameRight
<1>12. QED
  BY <1>4, <1>9, <1>10, <1>11 DEF IInv, Right, EndsRight

LEMMA NextIInv == IInv /\ [Next]_vars => IInv'
<1>1. SUFFICES ASSUME IInv, [Next]_vars PROVE IInv'
  OBVIOUS
<1>2. /\ Right(sv, cl, toClient, toServer, handledByServer, executedByCgame)
      /\ sv \in Servers /\ cl \in Clients /\ ServerStream(sv, cl) /\ ClientStream(sv, cl)
  BY <1>1 DEF IInv, Right, EndsRight
<1>3. /\ Pending(sv) \in 0 .. MaxReliableCommands
      /\ Connected(sv) => ~sv.collapsed /\ sv.gameDisconnects = 0
  BY <1>2 DEF ServerStream
<1>4. /\ cl.acknowledge <= cl.sequence
      /\ cl.state = "active" => Pending(cl) \in 0 .. MaxReliableCommands
  <2>1. cl.acknowledge \in Int /\ cl.sequence \in Nat
    BY <1>2 DEF Clients
  <2>2. QED
    BY <1>2, <2>1, Rings DEF ClientStream, Pending
<1>5. ASSUME SV_AddServerCommand PROVE IInv'
  <2>1. Connected(sv) /\ sv' = AddServerCommand(sv, FALSE)
        /\ UNCHANGED <<cl, toClient, toServer, handledByServer, executedByCgame>>
    BY <1>5 DEF SV_AddServerCommand
  <2>2. Connected(sv) => ~sv.collapsed /\ sv.gameDisconnects \in 0 .. 1
    BY <1>3
  <2>3. /\ sv' \in Servers /\ Pending(sv') \in 0 .. MaxReliableCommands
        /\ Grows(sv, sv')
        /\ Connected(sv') => ~sv'.collapsed /\ sv'.gameDisconnects = sv.gameDisconnects
    BY <1>2, <1>3, <2>1, <2>2, ServerAdds, Zenon
  <2>4. Right(sv', cl, toClient, toServer, handledByServer, executedByCgame)
    BY <1>2, <1>3, <2>1, <2>3, RightAfterGrowth
  <2>5. QED
    BY <2>1, <2>4 DEF IInv
<1>6. ASSUME SV_DropClient PROVE IInv'
  <2>1. Connected(sv) /\ sv' = Dropped(sv)
        /\ UNCHANGED <<cl, toClient, toServer, handledByServer, executedByCgame>>
    BY <1>6 DEF SV_DropClient
  <2>2. Right(sv', cl, toClient, toServer, handledByServer, executedByCgame)
    BY <1>2, <2>1, RightAfterDrop
  <2>3. QED
    BY <2>1, <2>2 DEF IInv
<1>7. ASSUME SV_FreeZombie PROVE IInv'
  <2>1. sv' = [sv EXCEPT !.state = "free"]
        /\ UNCHANGED <<cl, toClient, toServer, handledByServer, executedByCgame>>
    BY <1>7 DEF SV_FreeZombie
  <2>2. /\ sv' \in Servers /\ sv'.state = "free"
        /\ sv'.sequence = sv.sequence /\ sv'.acknowledge = sv.acknowledge
        /\ sv'.commands = sv.commands
        /\ sv'.lastClientCommand = sv.lastClientCommand
        /\ sv'.lastClientCommandString = sv.lastClientCommandString
        /\ sv'.collapsed = sv.collapsed
    BY <1>2, <2>1 DEF Servers
  <2>3. Grows(sv, sv') /\ Pending(sv') \in 0 .. MaxReliableCommands /\ ~Connected(sv')
    BY <1>2, <1>3, <2>2 DEF Grows, Pending, Connected, Issued, Servers
  <2>4. Right(sv', cl, toClient, toServer, handledByServer, executedByCgame)
    BY <1>2, <2>2, <2>3, RightAfterGrowth
  <2>5. QED
    BY <2>1, <2>4 DEF IInv
<1>8. ASSUME SV_SendClientSnapshot PROVE IInv'
  <2> DEFINE whole == [cleared  |-> FALSE,
                       ack      |-> sv.lastClientCommand,
                       key      |-> sv.lastClientCommandString,
                       first    |-> sv.acknowledge + 1,
                       commands |-> Unacknowledged(sv),
                       issued   |-> sv.sequence]
             none == [cleared |-> TRUE]
  <2>1. /\ toClient' = Post(toClient, whole) \/ toClient' = Post(toClient, none)
        /\ UNCHANGED <<sv, cl, toServer, handledByServer, executedByCgame>>
    BY <1>8 DEF SV_SendClientSnapshot
  <2>2. whole \in ServerMessages /\ ~whole.cleared /\ MessageRight(sv, cl, whole)
        /\ whole.ack = sv.lastClientCommand
    <3> DEFINE list == Unacknowledged(sv)
    <3>1. sv.acknowledge \in Int /\ sv.commands \in [Slots -> Texts]
      BY <1>2 DEF Servers
    <3>2. list \in Seq(Texts)
      BY <1>3, <3>1, UnacknowledgedTexts
    <3>3. list = Unacknowledged(sv)
      OBVIOUS
    <3> HIDE DEF list
    <3>4. whole = [cleared  |-> FALSE,
                   ack      |-> sv.lastClientCommand,
                   key      |-> sv.lastClientCommandString,
                   first    |-> sv.acknowledge + 1,
                   commands |-> list,
                   issued   |-> sv.sequence]
      BY <3>3
    <3> HIDE DEF whole
    <3>5. /\ ~whole.cleared /\ whole.ack = sv.lastClientCommand
          /\ whole.key = sv.lastClientCommandString
          /\ whole.first = sv.acknowledge + 1
          /\ whole.commands = list /\ whole.issued = sv.sequence
      BY <3>4
    <3>6. whole \in ServerMessages
      <4>1. /\ sv.lastClientCommand \in Nat /\ sv.lastClientCommandString \in Texts
            /\ sv.acknowledge + 1 \in Nat /\ sv.sequence \in Nat
        BY <1>2 DEF Servers
      <4>2. whole \in [cleared : {FALSE}, ack : Nat, key : Texts, first : Nat,
                       commands : Seq(Texts), issued : Nat]
        BY <3>2, <3>4, <4>1
      <4>3. QED
        BY <4>2 DEF ServerMessages
    <3>7. MessageRight(sv, cl, whole)
      BY <1>2, <3>3, <3>5, SnapshotMessage DEF EndsRight
    <3>8. QED
      BY <3>5, <3>6, <3>7
  <2>3. none \in ServerMessages /\ none.cleared
    BY DEF ServerMessages
  <2> HIDE DEF whole, none
  <2>4. MessageRight(sv, cl, none)
    BY <2>3 DEF MessageRight
  <2>5. Right(sv, cl, toClient', toServer, handledByServer, executedByCgame)
    BY <1>2, <2>1, <2>2, <2>3, <2>4, RightAfterMessage
  <2>6. QED
    BY <2>1, <2>5 DEF IInv
<1>9. ASSUME NEW i \in 1 .. Len(toServer), NEW flooded \in BOOLEAN,
             SV_PacketEvent(i, flooded)
      PROVE  IInv'
  BY <1>1, <1>9, RightAfterPacket
<1>10. ASSUME CL_AddReliableCommand PROVE IInv'
  <2>1. /\ cl.state = "active"
        /\ IF Pending(cl) >= MaxReliableCommands
           THEN CL_Disconnect(cl)
           ELSE cl' = Store(cl, FALSE) /\ toServer' = toServer
        /\ UNCHANGED <<sv, toClient, handledByServer, executedByCgame>>
    BY <1>10 DEF CL_AddReliableCommand, Com_Error
  <2>2. CASE Pending(cl) >= MaxReliableCommands
    <3>1. Right(sv, cl', toClient, toServer', handledByServer, executedByCgame)
      BY <1>2, <1>4, <2>1, <2>2, RightAfterDisconnect
    <3>2. QED
      BY <2>1, <3>1 DEF IInv
  <2>3. CASE ~(Pending(cl) >= MaxReliableCommands)
    <3>1. /\ cl' \in Clients /\ cl'.state = cl.state
          /\ cl'.acknowledge = cl.acknowledge /\ cl'.sequence = cl.sequence + 1
          /\ ClientGrows(cl, cl') /\ toServer' = toServer
      BY <1>2, <2>1, <2>3, ClientStores
    <3>2. cl'.acknowledge <= cl'.sequence /\ Pending(cl') <= MaxReliableCommands
      <4>1. cl.sequence \in Nat /\ cl.acknowledge \in Int
        BY <1>2 DEF Clients
      <4>2. QED
        BY <1>4, <2>3, <3>1, <4>1, Rings DEF Pending
    <3>3. Right(sv, cl', toClient, toServer, handledByServer, executedByCgame)
      BY <1>2, <2>1, <3>1, <3>2, RightAfterClientGrowth
    <3>4. QED
      BY <2>1, <3>1, <3>3 DEF IInv
  <2>4. QED
    BY <2>2, <2>3
<1>11. ASSUME CL_WritePacket PROVE IInv'
  <2>1. /\ cl.state = "active" /\ toServer' = Post(toServer, Packet(cl))
        /\ UNCHANGED <<sv, cl, toClient, handledByServer, executedByCgame>>
    BY <1>11 DEF CL_WritePacket
  <2>2. Right(sv, cl, toClient, toServer', handledByServer, executedByCgame)
    BY <1>2, <1>4, <2>1, RightAfterClientPacket
  <2>3. QED
    BY <2>1, <2>2 DEF IInv
<1>12. ASSUME CL_Disconnect_f PROVE IInv'
  <2>1. CL_Disconnect(cl) /\ UNCHANGED <<sv, toClient, handledByServer, executedByCgame>>
    BY <1>12 DEF CL_Disconnect_f
  <2>2. Right(sv, cl', toClient, toServer', handledByServer, executedByCgame)
    BY <1>2, <1>4, <2>1, RightAfterDisconnect
  <2>3. QED
    BY <2>1, <2>2 DEF IInv
<1>13. ASSUME NEW i \in 1 .. Len(toClient), CL_PacketEvent(i) PROVE IInv'
  BY <1>1, <1>13, RightAfterClientMessage
<1>14. ASSUME CL_GetServerCommand PROVE IInv'
  BY <1>1, <1>14, RightAfterGetServerCommand
<1>15. ASSUME UNCHANGED vars PROVE IInv'
  <2>1. /\ sv' = sv /\ cl' = cl /\ toClient' = toClient /\ toServer' = toServer
        /\ handledByServer' = handledByServer /\ executedByCgame' = executedByCgame
    BY <1>15 DEF vars
  <2>2. QED
    BY <1>2, <2>1 DEF IInv
<1>16. QED
  BY <1>1, <1>5, <1>6, <1>7, <1>8, <1>9, <1>10, <1>11, <1>12, <1>13, <1>14, <1>15 DEF Next

\* The inductive invariant: the rings and the copy of the server's, what is on
\* the way and what has been executed are those of the command numbers.
THEOREM StreamsRight == Spec => []IInv
<1>1. Init => IInv
  BY InitIInv
<1>2. IInv /\ [Next]_vars => IInv'
  BY NextIInv
<1>3. QED
  BY <1>1, <1>2, PTL DEF Spec

-----------------------------------------------------------------------------
\* What follows from it.

\* The window of the server never exceeds the ring: neither while a drop
\* broadcasts into the window it is dropping nor after it, so that
\* SV_UpdateServerCommandsToClient never meets its fatal error; and the game is
\* told at most twice that a client has left.
THEOREM WindowsFit == Spec => []TypeOK
<1>1. IInv => TypeOK
  BY DEF IInv, Right, EndsRight, ServerStream, MessagesRight, PacketsRight, GameRight,
         CgameRight, TypeOK, Servers, Clients
<1>2. QED
  BY <1>1, StreamsRight, PTL

\* The server handles the client's commands once each, in order, none missing
\* up to the number it acknowledges, whatever packets are lost and wherever
\* flood protection stops; and it keeps nothing but text from the game.
THEOREM ServerInOrder == Spec => []CommandsHandledInOrder
<1>1. IInv => CommandsHandledInOrder
  <2>1. SUFFICES ASSUME IInv PROVE CommandsHandledInOrder
    OBVIOUS
  <2>2. /\ handledByServer \in Seq(Outcomes)
        /\ Len(handledByServer) = sv.lastClientCommand
        /\ \A k \in 1 .. Len(handledByServer) : OutcomeRight(handledByServer[k], k)
    BY <2>1 DEF IInv, Right, GameRight
  <2>3. QED
    BY <2>2 DEF CommandsHandledInOrder, OutcomeRight
<1>2. QED
  BY <1>1, StreamsRight, PTL

\* Unless the client is being dropped for overflow, cgame executes the server's
\* commands once each, in order: no slot that newer ones have taken is executed.
THEOREM CgameInOrder == Spec => []CgameExecutesInOrder
<1>1. IInv => CgameExecutesInOrder
  <2>1. SUFFICES ASSUME IInv, ~sv.collapsed PROVE CgameExecutesInOrder
    BY DEF CgameExecutesInOrder
  <2>2. executedByCgame \in Seq(Texts)
        /\ \A k \in 1 .. Len(executedByCgame) : executedByCgame[k].number = k
    BY <2>1 DEF IInv, Right, CgameRight
  <2>3. QED
    BY <2>2 DEF CgameExecutesInOrder
<1>2. QED
  BY <1>1, StreamsRight, PTL

\* Cgame gets no snapshot before the commands issued before it: not even when
\* the client is being dropped for overflow.
THEOREM CommandsBeforeSnapshots == Spec => []SnapshotAfterCommands
<1>1. IInv => SnapshotAfterCommands
  BY DEF IInv, Right, CgameRight, SnapshotAfterCommands
<1>2. QED
  BY <1>1, StreamsRight, PTL

\* While the ring still holds the command a message acknowledges, both ends
\* agree on the key of its encoding.
THEOREM KeysOfBothEnds == Spec => []KeysAgree
<1>1. IInv => KeysAgree
  <2>1. SUFFICES ASSUME IInv PROVE KeysAgree
    OBVIOUS
  <2>2. /\ MessagesRight(sv, cl, toClient) /\ PacketsRight(sv, cl, toServer)
        /\ sv \in Servers /\ cl \in Clients /\ ServerStream(sv, cl)
    BY <2>1 DEF IInv, Right, EndsRight
  <2>3. toServer \in Seq(ClientMessages) /\ toClient \in Seq(ServerMessages)
        /\ sv.sequence \in Nat /\ cl.sequence \in Nat
    BY <2>2 DEF MessagesRight, PacketsRight, Servers, Clients
  <2>4. ASSUME Connected(sv), NEW i \in DOMAIN toServer,
               sv.sequence - toServer[i].ack < MaxReliableCommands
        PROVE  DecodedByServer(toServer[i])
    <3> DEFINE m == toServer[i]
    <3>1. i \in 1 .. Len(toServer)
      BY <2>3, <2>4
    <3>2. m \in ClientMessages /\ PacketRight(sv, cl, m)
      BY <2>2, <2>3, <3>1, ElementOfSeq DEF PacketsRight
    <3>3. Issued(sv, m.key, m.ack) /\ m.ack \in Nat
      BY <2>2, <2>4, <3>2 DEF PacketRight, ServerStream, ClientMessages
    <3>4. m.ack \in Last(sv.sequence)
      BY <2>3, <2>4, <3>3, Rings DEF Issued, TrueText, Last
    <3>5. QED
      BY <3>3, <3>4 DEF Issued, TrueText, DecodedByServer
  <2>5. ASSUME cl.state = "active", NEW i \in DOMAIN toClient, ~toClient[i].cleared,
               cl.sequence - toClient[i].ack < MaxReliableCommands
        PROVE  DecodedByClient(toClient[i])
    <3> DEFINE m == toClient[i]
    <3>1. i \in 1 .. Len(toClient)
      BY <2>3, <2>5
    <3>2. m \in ServerMessages /\ MessageRight(sv, cl, m)
      BY <2>2, <2>3, <3>1, ElementOfSeq DEF MessagesRight
    <3>3. m \in [cleared : {FALSE}, ack : Nat, key : Texts, first : Nat,
                 commands : Seq(Texts), issued : Nat]
      BY <2>5, <3>2 DEF ServerMessages
    <3>4. Issued(cl, m.key, m.ack) /\ m.ack \in Nat
      BY <2>5, <3>2, <3>3 DEF MessageRight
    <3>5. m.ack \in Last(cl.sequence)
      BY <2>3, <2>5, <3>4, Rings DEF Issued, TrueText, Last
    <3>6. QED
      BY <3>4, <3>5 DEF Issued, TrueText, DecodedByClient
  <2>6. QED
    BY <2>4, <2>5 DEF KeysAgree
<1>2. QED
  BY <1>1, StreamsRight, PTL
=============================================================================
