--------------------------- MODULE GamestateProofs ---------------------------
(***************************************************************************)
(* Proofs about module Gamestate: for any number of levels, of changes of   *)
(* configstrings, of messages, and of those on the way.                     *)
(***************************************************************************)
EXTENDS Gamestate, SequenceTheorems, FiniteSetTheorems, WellFoundedInduction, TLAPS

-----------------------------------------------------------------------------
\* The inductive invariant.  Its parts are about any server v and state c of the
\* client there, state d of the client itself, set X of the messages that the
\* client may still read, by number, and set R of the packets on their way.

Levels == [serverId : 1..MaxLevels, config : 1..MaxChanges, pure : BOOLEAN]

ServerMessages ==
    [kind : {"gamestate", "snapshot", "block"}, serverId : Nat, config : Nat,
     commands : Nat, active : BOOLEAN]

Datagrams == [message : ServerMessages, number : Nat]

Servers ==
    [state : {"connected", "primed", "active"},
     gamestateAck : {"init", "once", "many", "acked"}, gamestateMessageNum : Nat,
     csUpdated : BOOLEAN, downloading : BOOLEAN, gotCP : BOOLEAN,
     lastClientCommand : Nat, commands : Seq(1..MaxChanges),
     outgoingSequence : Nat, line : Seq(ServerMessages), gamestateQueued : BOOLEAN]

Clients ==
    [state : {"connected", "downloading", "loading", "primed", "active"},
     serverId : Nat, config : Nat, received : Nat, executed : Nat,
     serverMessageSequence : Nat, commands : Seq(Commands), missingFile : BOOLEAN]

Packets == [serverId : Nat, messageAcknowledge : Nat, commands : Nat, move : BOOLEAN]

Members(s) == {s[i] : i \in DOMAIN s}

\* What the client may still read: what is on its way and what waits in line,
\* with the number it will have.
Waiting(c) == {Numbered(c.line[i], c.outgoingSequence - 1 + i) : i \in DOMAIN c.line}
Coming(t, c) == Members(t) \cup Waiting(c)

IsGamestate(x) == x.message.kind = "gamestate"
OfLevel(v, x) == IsGamestate(x) /\ x.message.serverId = v.serverId

\* What comes after command number n, and nothing else, is newer than config.
Version(v, c, config, n) ==
    /\ config <= v.config
    /\ c.csUpdated => config < v.config
    /\ n <= Len(c.commands)
    /\ \A k \in DOMAIN c.commands : k > n <=> c.commands[k] > config

\* The server's commands name newer and newer versions.
CommandsRight(v, c) ==
    /\ \A i, j \in DOMAIN c.commands : i < j => c.commands[i] < c.commands[j]
    /\ Version(v, c, v.config - (IF c.csUpdated THEN 1 ELSE 0), Len(c.commands))
    /\ c.csUpdated => c.state # "active"
    /\ c.gamestateMessageNum <= Numbers(c)

\* What the client holds.
ClientRight(v, c, d) ==
    /\ Version(v, c, d.config, d.executed)
    /\ d.executed <= d.received /\ d.received <= Len(c.commands)
    /\ d.serverId <= v.serverId
    /\ d.serverMessageSequence < c.outgoingSequence
    /\ c.lastClientCommand <= Len(d.commands)

\* What comes to the client is newer than what it holds.
Newer(d, x) ==
    /\ x.number > d.serverMessageSequence
    /\ x.message.kind # "block" => d.received <= x.message.commands
    /\ IsGamestate(x) => d.serverId <= x.message.serverId /\ d.config <= x.message.config

\* Messages are numbered in the order they were written.
InOrder(x, y) ==
    x.number < y.number =>
        /\ x.message.kind # "block" /\ y.message.kind # "block"
              => x.message.commands <= y.message.commands
        /\ IsGamestate(x) /\ IsGamestate(y)
              => /\ x.message.serverId <= y.message.serverId
                 /\ x.message.config <= y.message.config

MessagesRight(v, c, d, X) ==
    /\ \A x \in X :
        /\ Newer(d, x)
        /\ x.number <= Numbers(c)
        /\ x.message.kind # "block" => x.message.commands <= Len(c.commands)
        /\ IsGamestate(x) =>
            /\ x.message.serverId <= v.serverId
            /\ Version(v, c, x.message.config, x.message.commands)
    /\ \A x, y \in X : InOrder(x, y)

\* A packet says what the client held when it sent it.
PacketsRight(d, R) ==
    \A r \in R :
        /\ r.serverId <= d.serverId
        /\ r.messageAcknowledge <= d.serverMessageSequence
        /\ r.commands <= Len(d.commands)

\* Which levels the two ends are in.  Until the client is in the world, no command
\* is added to those before the gamestate.
LevelRight(v, c, d, X) ==
    /\ c.state = "active" => c.gamestateAck = "acked"
    /\ c.gamestateAck = "init" =>
        d.serverId < v.serverId /\ \A x \in X : ~OfLevel(v, x)
    /\ c.gamestateAck = "acked" => d.serverId = v.serverId
    /\ c.state # "active" =>
        /\ \A x \in X : OfLevel(v, x) => x.message.commands = Len(c.commands)
        /\ d.serverId = v.serverId => d.executed = Len(c.commands)

\* No gamestate comes after the last one, which has the number it was given.
LastRight(c, d, X) ==
    /\ \A x \in X : IsGamestate(x) => x.number <= c.gamestateMessageNum
    /\ \A x \in X : x.number = c.gamestateMessageNum => IsGamestate(x)
    /\ c.gamestateAck = "acked" => c.gamestateMessageNum <= d.serverMessageSequence

\* The client has seen the last gamestate: it says so, or has said so.
Reported(v, c, serverId, acknowledge) ==
    serverId = v.serverId /\ acknowledge = c.gamestateMessageNum

\* What an acknowledgement shows, while nothing has changed since the last
\* gamestate.
AckRight(v, c, d, X, R) ==
    /\ c.gamestateAck # "init" =>
        \A x \in X : x.number = c.gamestateMessageNum => x.message.config = v.config
    /\ c.gamestateAck = "once" =>
        /\ \A x \in X : OfLevel(v, x) => x.message.config = v.config
        /\ d.serverId = v.serverId => d.config = v.config
    /\ c.gamestateAck = "acked" => d.config = v.config
    /\ Reported(v, c, d.serverId, d.serverMessageSequence) => d.config = v.config
    /\ \A r \in R :
        Reported(v, c, r.serverId, r.messageAcknowledge) => d.config = v.config

\* The client in the world has the server's version, or a command that brings it.
UpToDate(v, c, d) ==
    IF d.executed = Len(c.commands) THEN d.config = v.config
    ELSE c.commands[Len(c.commands)] = v.config

ConfigRight(v, c, d, X, R) ==
    ~c.gamestateQueued =>
        /\ LastRight(c, d, X)
        /\ c.state # "active" /\ ~c.csUpdated => AckRight(v, c, d, X, R)
        /\ c.state = "active" => UpToDate(v, c, d)

Right(v, c, d, X, R) ==
    /\ v \in Levels /\ c \in Servers /\ d \in Clients
    /\ X \in SUBSET Datagrams /\ R \in SUBSET Packets
    /\ CommandsRight(v, c)
    /\ ClientRight(v, c, d)
    /\ MessagesRight(v, c, d, X)
    /\ PacketsRight(d, R)
    /\ LevelRight(v, c, d, X)
    /\ ConfigRight(v, c, d, X, R)

\* The netchan keeps the order.
Increasing(t, next) ==
    /\ \A i, j \in DOMAIN t : i < j => t[i].number < t[j].number
    /\ \A i \in DOMAIN t : t[i].number < next

Whole(v, c, d, t, u) ==
    /\ t \in Seq(Datagrams) /\ u \in Seq(Packets)
    /\ Increasing(t, c.outgoingSequence)
    /\ Numbers(c) <= MaxMessages
    /\ Right(v, c, d, Coming(t, c), Members(u))

IInv == Whole(sv, client, cl, toClient, toServer)

-----------------------------------------------------------------------------
\* Types.

LEMMA Sizes ==
    /\ MaxLevels \in Nat /\ MaxLevels >= 1 /\ MaxChanges \in Nat /\ MaxChanges >= 1
    /\ MaxMessages \in Nat /\ MaxInFlight \in Nat /\ MaxInFlight >= 1
BY GamestateAssumption

\* The fields of the state.
LEMMA Fields ==
    ASSUME NEW v, NEW c, NEW d, NEW X, NEW R, Right(v, c, d, X, R)
    PROVE  /\ v.serverId \in Nat /\ v.config \in Nat /\ v.config <= MaxChanges
           /\ c.gamestateMessageNum \in Nat /\ c.lastClientCommand \in Nat
           /\ c.outgoingSequence \in Nat /\ Len(c.line) \in Nat /\ Len(c.commands) \in Nat
           /\ Numbers(c) \in Int
           /\ c.commands \in Seq(1..MaxChanges) /\ DOMAIN c.commands = 1..Len(c.commands)
           /\ \A k \in DOMAIN c.commands : c.commands[k] \in Nat
           /\ c.csUpdated \in BOOLEAN
           /\ d.serverId \in Nat /\ d.config \in Nat /\ d.received \in Nat
           /\ d.executed \in Nat /\ d.serverMessageSequence \in Nat
           /\ Len(d.commands) \in Nat
<1>1. /\ v \in Levels /\ c \in Servers /\ d \in Clients
  BY DEF Right
<1>2. /\ c.line \in Seq(ServerMessages) /\ c.commands \in Seq(1..MaxChanges)
      /\ d.commands \in Seq(Commands)
  BY <1>1 DEF Servers, Clients
<1>3. /\ v.serverId \in Nat /\ v.config \in Nat /\ v.config <= MaxChanges
  BY <1>1, Sizes DEF Levels
<1>4. /\ c.gamestateMessageNum \in Nat /\ c.lastClientCommand \in Nat
      /\ c.outgoingSequence \in Nat /\ c.csUpdated \in BOOLEAN
  BY <1>1 DEF Servers
<1>5. /\ d.serverId \in Nat /\ d.config \in Nat /\ d.received \in Nat
      /\ d.executed \in Nat /\ d.serverMessageSequence \in Nat
  BY <1>1 DEF Clients
<1>6. /\ Len(c.line) \in Nat /\ Len(c.commands) \in Nat /\ Len(d.commands) \in Nat
      /\ DOMAIN c.commands = 1..Len(c.commands)
  BY <1>2
<1>7. \A k \in DOMAIN c.commands : c.commands[k] \in Nat
  BY <1>2, Sizes
<1>8. Numbers(c) \in Int
  BY <1>4, <1>6 DEF Numbers
<1>9. QED
  BY <1>2, <1>3, <1>4, <1>5, <1>6, <1>7, <1>8

\* The fields of a message.
LEMMA MessageFields ==
    ASSUME NEW x \in Datagrams
    PROVE  /\ x.number \in Nat /\ x.message \in ServerMessages
           /\ x.message.serverId \in Nat /\ x.message.config \in Nat
           /\ x.message.commands \in Nat
           /\ x.message.kind \in {"gamestate", "snapshot", "block"}
BY DEF Datagrams, ServerMessages

\* The fields of a packet.
LEMMA PacketFields ==
    ASSUME NEW r \in Packets
    PROVE  r.serverId \in Nat /\ r.messageAcknowledge \in Nat /\ r.commands \in Nat
BY DEF Packets

-----------------------------------------------------------------------------
\* What does not change the invariant.

\* Messages and packets may be lost.
LEMMA FewerRight ==
    ASSUME NEW v, NEW c, NEW d, NEW X, NEW R, Right(v, c, d, X, R),
           NEW Y \in SUBSET X, NEW Q \in SUBSET R
    PROVE  Right(v, c, d, Y, Q)
<1>1. Y \in SUBSET Datagrams /\ Q \in SUBSET Packets
  BY DEF Right
<1>2. MessagesRight(v, c, d, Y) /\ PacketsRight(d, Q) /\ LevelRight(v, c, d, Y)
  BY Zenon DEF Right, MessagesRight, PacketsRight, LevelRight
<1>3. ConfigRight(v, c, d, Y, Q)
  BY Zenon DEF Right, ConfigRight, LastRight, AckRight
<1>4. QED
  BY <1>1, <1>2, <1>3 DEF Right

\* What the parts of the invariant that are not about levels look at.
Same(c, e) ==
    /\ e.commands = c.commands /\ e.csUpdated = c.csUpdated
    /\ e.outgoingSequence = c.outgoingSequence /\ e.line = c.line
    /\ e.gamestateMessageNum = c.gamestateMessageNum
    /\ e.gamestateQueued = c.gamestateQueued

LEMMA SameRight ==
    ASSUME NEW v, NEW c, NEW d, NEW X, NEW R, Right(v, c, d, X, R),
           NEW e \in Servers, Same(c, e), e.lastClientCommand <= Len(d.commands),
           e.csUpdated => e.state # "active",
           LevelRight(v, e, d, X), ConfigRight(v, e, d, X, R)
    PROVE  Right(v, e, d, X, R)
<1>1. Numbers(e) = Numbers(c)
  BY DEF Same, Numbers
<1>2. \A config, n : Version(v, c, config, n) => Version(v, e, config, n)
  BY DEF Same, Version
<1>3. CommandsRight(v, e)
  BY <1>1, <1>2 DEF Same, CommandsRight, Right
<1>4. ClientRight(v, e, d)
  BY <1>2 DEF Same, ClientRight, Right
<1>5. MessagesRight(v, e, d, X)
  BY <1>1, <1>2 DEF Same, MessagesRight, Right
<1>6. QED
  BY <1>3, <1>4, <1>5 DEF Right

\* A step that leaves also the level and the acknowledgement.
LEMMA NothingChanged ==
    ASSUME NEW v, NEW c, NEW d, NEW X, NEW R, Right(v, c, d, X, R),
           NEW e \in Servers, Same(c, e), e.lastClientCommand <= Len(d.commands),
           e.state = c.state, e.gamestateAck = c.gamestateAck
    PROVE  Right(v, e, d, X, R)
<1>1. LevelRight(v, e, d, X)
  BY DEF Same, LevelRight, Right
<1>2. ConfigRight(v, e, d, X, R)
  BY DEF Same, ConfigRight, LastRight, AckRight, Reported, UpToDate, Right
<1>3. QED
  BY <1>1, <1>2, SameRight DEF Right, CommandsRight, Same

-----------------------------------------------------------------------------
\* The server's steps.

\* A client that asks for a download is connected, and no longer acknowledges.
LEMMA DownloadsRight ==
    ASSUME NEW v, NEW c, NEW d, NEW X, NEW R, Right(v, c, d, X, R), c.state # "active"
    PROVE  /\ Downloads(c) \in Servers /\ Same(c, Downloads(c))
           /\ Downloads(c).lastClientCommand = c.lastClientCommand
           /\ Right(v, Downloads(c), d, X, R)
<1> DEFINE e == Downloads(c)
<1>1. c \in Servers
  BY DEF Right
<1>2. /\ e \in Servers /\ Same(c, e) /\ e.state = "connected"
      /\ e.lastClientCommand = c.lastClientCommand
      /\ e.gamestateAck = IF c.gamestateAck = "acked" THEN "once" ELSE c.gamestateAck
  BY <1>1 DEF Downloads, Servers, Same
<1> HIDE DEF e
<1>3. e.lastClientCommand <= Len(d.commands)
  BY <1>2 DEF Right, ClientRight
<1>4. LevelRight(v, e, d, X)
  BY <1>2 DEF LevelRight, Right, Same
<1>5. ASSUME ~c.gamestateQueued
      PROVE  LastRight(e, d, X) /\ (~c.csUpdated => AckRight(v, e, d, X, R))
  <2>1. LastRight(c, d, X) /\ (~c.csUpdated => AckRight(v, c, d, X, R))
    BY <1>5 DEF Right, ConfigRight
  <2>2. LastRight(e, d, X)
    BY <1>2, <2>1 DEF LastRight, Same
  <2>3. ASSUME ~c.csUpdated, c.gamestateAck = "acked", NEW x \in X, OfLevel(v, x)
        PROVE  FALSE
    <3>1. x.number > d.serverMessageSequence /\ IsGamestate(x)
      BY <2>3 DEF Right, MessagesRight, Newer, OfLevel
    <3>2. x.number <= c.gamestateMessageNum /\ c.gamestateMessageNum <= d.serverMessageSequence
      BY <2>1, <2>3, <3>1 DEF LastRight
    <3>3. x \in Datagrams
      BY DEF Right
    <3>4. QED
      BY <3>1, <3>2, <3>3, Fields, MessageFields
  <2>4. ASSUME ~c.csUpdated PROVE AckRight(v, e, d, X, R)
    <3>1. CASE c.gamestateAck = "acked"
      BY <1>2, <2>1, <2>3, <2>4, <3>1 DEF AckRight, Same, Reported
    <3>2. CASE c.gamestateAck # "acked"
      BY <1>2, <2>1, <2>4, <3>2 DEF AckRight, Same, Reported
    <3>3. QED
      BY <3>1, <3>2
  <2>5. QED
    BY <2>2, <2>4
<1>6. ConfigRight(v, e, d, X, R)
  BY <1>2, <1>5 DEF ConfigRight, Same
<1>7. Right(v, e, d, X, R)
  BY <1>2, <1>3, <1>4, <1>6, SameRight
<1>8. QED
  BY <1>2, <1>7 DEF e

\* The client acknowledges the gamestate of the level.
LEMMA AcknowledgedRight ==
    ASSUME NEW c, NEW d, NEW X, NEW R, Right(sv, c, d, X, R),
           NEW m \in R, Acknowledges(c, m),
           NEW e \in Servers, Same(c, e), e.state = c.state, e.gamestateAck = "acked",
           e.lastClientCommand = c.lastClientCommand
    PROVE  Right(sv, e, d, X, R)
<1>1. m \in Packets /\ m.serverId = sv.serverId
  BY DEF Right, Acknowledges
<1>2. m.serverId <= d.serverId /\ m.messageAcknowledge <= d.serverMessageSequence
  BY DEF Right, PacketsRight
<1>3. d.serverId = sv.serverId
  BY <1>1, <1>2, Fields, PacketFields DEF Right, ClientRight
<1>4. c.gamestateAck # "init"
  BY <1>3, Fields DEF Right, LevelRight
<1>5. c.gamestateMessageNum <= d.serverMessageSequence
  BY <1>1, <1>2, Fields, PacketFields DEF Acknowledges
<1>6. e.lastClientCommand <= Len(d.commands)
  BY DEF Right, ClientRight
<1>7. LevelRight(sv, e, d, X)
  BY <1>3 DEF LevelRight, Right, Same
<1>8. ASSUME ~c.gamestateQueued, c.state # "active", ~c.csUpdated
      PROVE  AckRight(sv, e, d, X, R)
  <2>1. AckRight(sv, c, d, X, R)
    BY <1>8 DEF Right, ConfigRight
  <2>2. d.config = sv.config
    <3>1. CASE m.messageAcknowledge = c.gamestateMessageNum
      BY <1>1, <2>1, <3>1 DEF AckRight, Reported
    <3>2. CASE c.gamestateAck = "once"
      BY <1>3, <2>1, <3>2 DEF AckRight
    <3>3. QED
      BY <3>1, <3>2 DEF Acknowledges
  <2>3. QED
    BY <1>4, <2>1, <2>2 DEF AckRight, Same, Reported
<1>9. ConfigRight(sv, e, d, X, R)
  BY <1>5, <1>8 DEF ConfigRight, LastRight, UpToDate, Right, Same
<1>10. QED
  BY <1>6, <1>7, <1>9, SameRight DEF Right, CommandsRight, Same

\* The versions so far are older than one that is new.
LEMMA VersionOlder ==
    ASSUME NEW v, NEW c, NEW e, NEW w, v.config \in Nat, w.config \in Nat,
           c.commands \in Seq(Nat), c.csUpdated \in BOOLEAN,
           (c.csUpdated /\ w.config = v.config) \/ w.config = v.config + 1,
           e.commands = Append(c.commands, w.config), ~e.csUpdated,
           NEW config \in Int, NEW n \in Nat, Version(v, c, config, n)
    PROVE  Version(w, e, config, n)
<1>1. config < w.config
  BY DEF Version
<1>2. Len(e.commands) = Len(c.commands) + 1 /\ DOMAIN e.commands = 1..(Len(c.commands) + 1)
      /\ Len(c.commands) \in Nat /\ DOMAIN c.commands = 1..Len(c.commands)
  OBVIOUS
<1>3. ASSUME NEW k \in DOMAIN e.commands PROVE k > n <=> e.commands[k] > config
  <2>1. CASE k \in DOMAIN c.commands
    BY <2>1 DEF Version
  <2>2. CASE k = Len(c.commands) + 1
    BY <1>1, <1>2, <2>2 DEF Version
  <2>3. QED
    BY <1>2, <2>1, <2>2
<1>4. QED
  BY <1>1, <1>2, <1>3 DEF Version

\* A version the client has not is added to its commands.
LEMMA AppendedRight ==
    ASSUME NEW v, NEW c, NEW d, NEW X, NEW R, Right(v, c, d, X, R),
           NEW w \in Levels, w.serverId = v.serverId,
           (c.csUpdated /\ w.config = v.config) \/ w.config = v.config + 1,
           NEW e \in Servers, e.commands = Append(c.commands, w.config), ~e.csUpdated,
           e.state = "active", e.gamestateAck = "acked", c.gamestateAck = "acked",
           e.gamestateMessageNum = c.gamestateMessageNum,
           e.outgoingSequence = c.outgoingSequence, e.line = c.line,
           e.gamestateQueued = c.gamestateQueued,
           e.lastClientCommand = c.lastClientCommand
    PROVE  Right(w, e, d, X, R)
<1>1. /\ v.config \in Nat /\ w.config \in Nat /\ c.commands \in Seq(Nat)
      /\ c.csUpdated \in BOOLEAN /\ Len(c.commands) \in Nat
      /\ DOMAIN c.commands = 1..Len(c.commands)
  <2>1. v \in Levels /\ c \in Servers
    BY DEF Right
  <2>2. v.config \in Nat /\ w.config \in Nat
    BY <2>1, Sizes DEF Levels
  <2>3. c.commands \in Seq(1..MaxChanges) /\ c.csUpdated \in BOOLEAN
    BY <2>1 DEF Servers
  <2>4. c.commands \in Seq(Nat)
    BY <2>3, Sizes
  <2>5. QED
    BY <2>2, <2>3, <2>4
<1>2. \A config \in Int, n \in Nat : Version(v, c, config, n) => Version(w, e, config, n)
  BY <1>1, VersionOlder
<1>3. /\ Len(e.commands) = Len(c.commands) + 1
      /\ DOMAIN e.commands = 1..(Len(c.commands) + 1)
      /\ \A k \in DOMAIN c.commands : e.commands[k] = c.commands[k] /\ c.commands[k] \in Nat
      /\ e.commands[Len(c.commands) + 1] = w.config
  BY <1>1
<1>4. Numbers(e) = Numbers(c)
  BY DEF Numbers
<1>5. CommandsRight(w, e)
  <2>1. \A k \in DOMAIN c.commands : c.commands[k] < w.config
    <3>1. \A k \in DOMAIN c.commands :
              c.commands[k] <= v.config - (IF c.csUpdated THEN 1 ELSE 0)
      BY <1>1, <1>3 DEF Right, CommandsRight, Version
    <3>2. QED
      BY <1>1, <1>3, <3>1
  <2>2. ASSUME NEW i \in DOMAIN e.commands, NEW j \in DOMAIN e.commands, i < j
        PROVE  e.commands[i] < e.commands[j]
    <3>1. i \in DOMAIN c.commands
      BY <1>1, <1>3, <2>2
    <3>2. CASE j \in DOMAIN c.commands
      BY <1>3, <2>2, <3>1, <3>2 DEF Right, CommandsRight
    <3>3. CASE j = Len(c.commands) + 1
      BY <1>3, <2>1, <3>1, <3>3
    <3>4. QED
      BY <1>1, <1>3, <3>2, <3>3
  <2>3. \A k \in DOMAIN e.commands : e.commands[k] <= w.config
    BY <1>1, <1>3, <2>1
  <2>4. Version(w, e, w.config, Len(e.commands))
    <3>1. \A k \in DOMAIN e.commands : ~(k > Len(e.commands)) /\ ~(e.commands[k] > w.config)
      <4>1. \A k \in DOMAIN e.commands : e.commands[k] \in Nat
        BY <1>1, <1>3
      <4>2. QED
        BY <1>1, <1>3, <2>3, <4>1, SMTT(30)
    <3>2. QED
      BY <1>1, <1>3, <3>1 DEF Version
  <2>5. e.gamestateMessageNum <= Numbers(e)
    BY <1>4 DEF Right, CommandsRight
  <2>6. w.config - (IF e.csUpdated THEN 1 ELSE 0) = w.config
    BY <1>1
  <2>7. QED
    BY <2>2, <2>4, <2>5, <2>6 DEF CommandsRight
<1>6. ClientRight(w, e, d)
  <2>1. ClientRight(v, c, d)
    BY DEF Right
  <2>2. Version(w, e, d.config, d.executed)
    BY <1>2, <2>1, Fields DEF ClientRight
  <2>3. d.received <= Len(e.commands)
    BY <1>1, <1>3, <2>1, Fields DEF ClientRight
  <2>4. QED
    BY <2>1, <2>2, <2>3 DEF ClientRight
<1>7. MessagesRight(w, e, d, X)
  <2>1. X \in SUBSET Datagrams /\ MessagesRight(v, c, d, X)
    BY DEF Right
  <2>2. ASSUME NEW x \in X
        PROVE  /\ x.message.kind # "block" => x.message.commands <= Len(e.commands)
               /\ IsGamestate(x) => Version(w, e, x.message.config, x.message.commands)
    BY <1>1, <1>2, <1>3, <2>1, <2>2, MessageFields DEF MessagesRight
  <2>3. QED
    BY <1>4, <2>1, <2>2 DEF MessagesRight
<1>8. LevelRight(w, e, d, X)
  BY DEF LevelRight, Right
<1>9. ConfigRight(w, e, d, X, R)
  <2>1. d.executed # Len(e.commands)
    BY <1>1, <1>3, Fields, SMTT(30) DEF Right, ClientRight
  <2>2. UpToDate(w, e, d)
    BY <1>3, <2>1 DEF UpToDate
  <2>3. QED
    BY <2>2 DEF Right, ConfigRight, LastRight
<1>10. QED
  BY <1>5, <1>6, <1>7, <1>8, <1>9 DEF Right

\* A client enters the world.
LEMMA EnteredRight ==
    ASSUME NEW c, NEW d, NEW X, NEW R, Right(sv, c, d, X, R),
           c.state = "primed", c.gamestateAck = "acked"
    PROVE  /\ SV_ClientEnterWorld(c) \in Servers
           /\ Waiting(SV_ClientEnterWorld(c)) = Waiting(c)
           /\ SV_ClientEnterWorld(c).outgoingSequence = c.outgoingSequence
           /\ Right(sv, SV_ClientEnterWorld(c), d, X, R)
<1> DEFINE e == SV_ClientEnterWorld(c)
<1>1. c \in Servers /\ sv \in Levels
  BY DEF Right
<1>2. /\ c.commands \in Seq(1..MaxChanges) /\ sv.config \in 1..MaxChanges
      /\ c.csUpdated \in BOOLEAN
  BY <1>1 DEF Servers, Levels
<1>3. /\ e \in Servers /\ e.state = "active" /\ e.gamestateAck = "acked" /\ ~e.csUpdated
      /\ e.commands = IF c.csUpdated THEN Append(c.commands, sv.config) ELSE c.commands
      /\ e.gamestateMessageNum = c.gamestateMessageNum
      /\ e.outgoingSequence = c.outgoingSequence /\ e.line = c.line
      /\ e.gamestateQueued = c.gamestateQueued
      /\ e.lastClientCommand = c.lastClientCommand
  <2> DEFINE commands == IF c.csUpdated THEN Append(c.commands, sv.config) ELSE c.commands
  <2>1. commands \in Seq(1..MaxChanges)
    <3>1. CASE c.csUpdated
      <4>1. Append(c.commands, sv.config) \in Seq(1..MaxChanges)
        BY <1>2
      <4>2. QED
        BY <3>1, <4>1
    <3>2. CASE ~c.csUpdated
      BY <1>2, <3>2
    <3>3. QED
      BY <3>1, <3>2
  <2>2. e = [c EXCEPT !.state = "active", !.gamestateAck = "acked",
                      !.commands = commands, !.csUpdated = FALSE]
    BY <1>1 DEF SV_ClientEnterWorld, Servers
  <2> HIDE DEF commands, e
  <2>3. /\ e \in Servers /\ e.state = "active" /\ e.gamestateAck = "acked" /\ ~e.csUpdated
        /\ e.commands = commands
        /\ e.gamestateMessageNum = c.gamestateMessageNum
        /\ e.outgoingSequence = c.outgoingSequence /\ e.line = c.line
        /\ e.gamestateQueued = c.gamestateQueued
        /\ e.lastClientCommand = c.lastClientCommand
    BY <1>1, <2>1, <2>2 DEF Servers
  <2>4. QED
    BY <2>3 DEF commands
<1> HIDE DEF e
<1>4. CASE c.csUpdated
  BY <1>1, <1>3, <1>4, AppendedRight DEF e, Waiting
<1>5. CASE ~c.csUpdated
  <2>1. Same(c, e)
    <3>1. e.csUpdated \in BOOLEAN
      BY <1>3 DEF Servers
    <3>2. QED
      BY <1>2, <1>3, <1>5, <3>1 DEF Same
  <2>2. LevelRight(sv, e, d, X)
    BY <1>3 DEF LevelRight, Right
  <2>3. ConfigRight(sv, e, d, X, R)
    <3>1. SUFFICES ASSUME ~c.gamestateQueued PROVE LastRight(e, d, X) /\ UpToDate(sv, e, d)
      BY <1>3 DEF ConfigRight
    <3>2. LastRight(c, d, X) /\ AckRight(sv, c, d, X, R)
      BY <1>5, <3>1 DEF Right, ConfigRight
    <3>3. d.executed = Len(c.commands)
      BY DEF Right, LevelRight
    <3>4. d.config = sv.config
      BY <3>2 DEF AckRight
    <3>5. QED
      BY <2>1, <3>2, <3>3, <3>4 DEF UpToDate, LastRight, Same
  <2>4. e.lastClientCommand <= Len(d.commands)
    BY <1>3 DEF Right, ClientRight
  <2>5. Right(sv, e, d, X, R)
    BY <1>3, <2>1, <2>2, <2>3, <2>4, SameRight
  <2>6. QED
    BY <1>3, <2>1, <2>5 DEF e, Waiting, Same
<1>6. QED
  BY <1>2, <1>4, <1>5

\* More messages get numbers.
LEMMA MovedRight ==
    ASSUME NEW v, NEW c, NEW d, NEW X, NEW R, Right(v, c, d, X, R),
           NEW e \in Servers, e.state = c.state, e.gamestateAck = c.gamestateAck,
           e.gamestateMessageNum = c.gamestateMessageNum, e.csUpdated = c.csUpdated,
           e.lastClientCommand = c.lastClientCommand, e.commands = c.commands,
           e.gamestateQueued = c.gamestateQueued,
           e.outgoingSequence >= c.outgoingSequence, Numbers(e) >= Numbers(c)
    PROVE  Right(v, e, d, X, R)
<1>1. e.outgoingSequence \in Nat /\ Numbers(e) \in Int
  <2>1. e.outgoingSequence \in Nat /\ e.line \in Seq(ServerMessages)
    BY DEF Servers
  <2>2. QED
    BY <2>1 DEF Numbers
<1>2. \A config, n : Version(v, c, config, n) => Version(v, e, config, n)
  BY DEF Version
<1>3. CommandsRight(v, e)
  <2>1. e.gamestateMessageNum <= Numbers(e)
    BY <1>1, Fields DEF Right, CommandsRight
  <2>2. QED
    BY <1>2, <2>1 DEF Right, CommandsRight
<1>4. ClientRight(v, e, d)
  <2>1. d.serverMessageSequence < e.outgoingSequence
    BY <1>1, Fields DEF Right, ClientRight
  <2>2. QED
    BY <1>2, <2>1 DEF Right, ClientRight
<1>5. MessagesRight(v, e, d, X)
  <2>1. X \in SUBSET Datagrams /\ MessagesRight(v, c, d, X)
    BY DEF Right
  <2>2. \A x \in X : x.number <= Numbers(e)
    BY <1>1, <2>1, Fields, MessageFields DEF MessagesRight
  <2>3. QED
    BY <1>2, <2>1, <2>2 DEF MessagesRight
<1>6. LevelRight(v, e, d, X)
  BY DEF Right, LevelRight
<1>7. ConfigRight(v, e, d, X, R)
  BY DEF Right, ConfigRight, LastRight, AckRight, Reported, UpToDate
<1>8. QED
  BY <1>3, <1>4, <1>5, <1>6, <1>7 DEF Right

\* A message that is no gamestate is written.
LEMMA AddedRight ==
    ASSUME NEW v, NEW c, NEW d, NEW X, NEW R, Right(v, c, d, X, R),
           NEW x \in Datagrams, x.number <= Numbers(c), \A y \in X : y.number < x.number,
           c.gamestateMessageNum < x.number, d.serverMessageSequence < x.number,
           x.message.kind # "gamestate",
           x.message.kind # "block" => x.message.commands = Len(c.commands)
    PROVE  Right(v, c, d, X \cup {x}, R)
<1>1. /\ X \in SUBSET Datagrams /\ MessagesRight(v, c, d, X)
  BY DEF Right
<1>2. ~IsGamestate(x)
  BY DEF IsGamestate
<1>3. Newer(d, x)
  BY <1>2, Fields DEF Newer, Right, ClientRight
<1>4. ASSUME NEW y \in X PROVE InOrder(x, y) /\ InOrder(y, x)
  <2>1. ~(x.number < y.number)
    BY <1>1, MessageFields
  <2>2. y.message.kind # "block" => y.message.commands <= Len(c.commands)
    BY <1>1 DEF MessagesRight
  <2>3. QED
    BY <1>2, <2>1, <2>2 DEF InOrder
<1>5. InOrder(x, x)
  BY MessageFields DEF InOrder
<1>6. x.message.kind # "block" => x.message.commands <= Len(c.commands)
  BY Fields
<1>7. MessagesRight(v, c, d, X \cup {x})
  BY <1>1, <1>2, <1>3, <1>4, <1>5, <1>6 DEF MessagesRight
<1>8. LevelRight(v, c, d, X \cup {x})
  BY <1>2 DEF Right, LevelRight, OfLevel
<1>9. x.number # c.gamestateMessageNum
  BY Fields, MessageFields
<1>10. ConfigRight(v, c, d, X \cup {x}, R)
  BY <1>2, <1>9 DEF Right, ConfigRight, LastRight, AckRight, OfLevel
<1>11. QED
  BY <1>1, <1>7, <1>8, <1>10 DEF Right

\* What a gamestate says.
GamestateOf(c) ==
    Numbered(ServerMessage("gamestate", sv.serverId, sv.config, Len(c.commands), FALSE),
             Numbers(c) + 1)

\* What it leaves in the server's client.
LEMMA SentFields ==
    ASSUME NEW c \in Servers, NEW d, NEW X, NEW R, Right(sv, c, d, X, R)
    PROVE  LET e == SV_SendClientGameState(c) IN
           /\ e \in Servers /\ e.state = "primed" /\ ~e.csUpdated
           /\ e.gamestateMessageNum = c.outgoingSequence
           /\ e.gamestateAck = GamestateAckAfterSend(c)
           /\ e.outgoingSequence = c.outgoingSequence
           /\ e.commands = c.commands /\ e.lastClientCommand = c.lastClientCommand
           /\ e.gamestateQueued <=> c.gamestateQueued \/ c.line # <<>>
           /\ e.line = Append(c.line, GamestateOf(c).message)
           /\ Numbers(e) = Numbers(c) + 1
           /\ GamestateOf(c) \in Datagrams
<1> DEFINE e == SV_SendClientGameState(c)
           line == Append(c.line, GamestateOf(c).message)
           ack == GamestateAckAfterSend(c)
           queued == c.gamestateQueued \/ c.line # <<>>
<1>1. sv \in Levels /\ sv.serverId \in Nat /\ sv.config \in Nat /\ Len(c.commands) \in Nat
      /\ Numbers(c) \in Int /\ c.line \in Seq(ServerMessages) /\ c.outgoingSequence \in Nat
      /\ c.gamestateMessageNum \in Nat /\ c.gamestateMessageNum <= Numbers(c)
  <2>1. sv \in Levels /\ c.gamestateMessageNum <= Numbers(c)
    BY DEF Right, CommandsRight
  <2>2. c.line \in Seq(ServerMessages)
    BY DEF Servers
  <2>3. QED
    BY <2>1, <2>2, Fields
<1>2. /\ GamestateOf(c).message \in ServerMessages
      /\ GamestateOf(c).message
            = ServerMessage("gamestate", sv.serverId, sv.config, Len(c.commands), FALSE)
      /\ GamestateOf(c).number = Numbers(c) + 1
      /\ GamestateOf(c) \in Datagrams
  BY <1>1 DEF GamestateOf, Numbered, ServerMessage, ServerMessages, Datagrams
<1>3. line \in Seq(ServerMessages) /\ Len(line) = Len(c.line) + 1
  <2> HIDE DEF e
  <2>1. QED
    BY <1>1, <1>2, AppendProperties, Zenon
<1>4. ack \in {"init", "once", "many", "acked"} /\ queued \in BOOLEAN
  BY DEF GamestateAckAfterSend, Servers
<1>5. e = [c EXCEPT !.state = "primed", !.downloading = FALSE, !.gotCP = FALSE,
                    !.gamestateMessageNum = c.outgoingSequence, !.gamestateAck = ack,
                    !.csUpdated = FALSE, !.line = line, !.gamestateQueued = queued]
  BY <1>2 DEF SV_SendClientGameState, Servers
<1> HIDE DEF e, line, ack, queued
<1>6. /\ e \in Servers /\ e.state = "primed" /\ ~e.csUpdated
      /\ e.gamestateMessageNum = c.outgoingSequence
      /\ e.gamestateAck = ack
      /\ e.outgoingSequence = c.outgoingSequence
      /\ e.commands = c.commands /\ e.lastClientCommand = c.lastClientCommand
      /\ e.gamestateQueued = queued
      /\ e.line = line
  BY <1>1, <1>3, <1>4, <1>5 DEF Servers
<1>7. Numbers(e) = Numbers(c) + 1
  <2>1. Len(c.line) \in Nat /\ c.outgoingSequence \in Nat
    BY <1>1
  <2>2. Len(e.line) = Len(c.line) + 1 /\ e.outgoingSequence = c.outgoingSequence
    BY <1>3, <1>6, Zenon
  <2>3. QED
    BY <2>1, <2>2 DEF Numbers
<1>8. QED
  BY <1>2, <1>6, <1>7, Zenon DEF e, line, ack, queued

\* The server writes a gamestate for a client that is not in the world.
LEMMA SentRight ==
    ASSUME NEW c, NEW d, NEW X, NEW R, Right(sv, c, d, X, R), c.state # "active"
    PROVE  Right(sv, SV_SendClientGameState(c), d, X \cup {GamestateOf(c)}, R)
<1> DEFINE e == SV_SendClientGameState(c)
           x == GamestateOf(c)
<1>1. /\ c \in Servers /\ X \in SUBSET Datagrams /\ R \in SUBSET Packets
      /\ MessagesRight(sv, c, d, X) /\ ClientRight(sv, c, d) /\ CommandsRight(sv, c)
      /\ LevelRight(sv, c, d, X) /\ ConfigRight(sv, c, d, X, R) /\ PacketsRight(d, R)
  BY DEF Right
<1>2. /\ e \in Servers /\ e.state = "primed" /\ ~e.csUpdated
      /\ e.gamestateMessageNum = c.outgoingSequence
      /\ e.gamestateAck = GamestateAckAfterSend(c)
      /\ e.outgoingSequence = c.outgoingSequence
      /\ e.commands = c.commands /\ e.lastClientCommand = c.lastClientCommand
      /\ e.gamestateQueued <=> c.gamestateQueued \/ c.line # <<>>
      /\ Numbers(e) = Numbers(c) + 1
      /\ x \in Datagrams
  BY <1>1, SentFields
<1>3. /\ x.number = Numbers(c) + 1 /\ x.message.kind = "gamestate"
      /\ x.message.serverId = sv.serverId /\ x.message.config = sv.config
      /\ x.message.commands = Len(c.commands) /\ IsGamestate(x)
  BY DEF GamestateOf, Numbered, ServerMessage, IsGamestate
<1> HIDE DEF e, x
<1>4. /\ sv.serverId \in Nat /\ sv.config \in Nat /\ Len(c.commands) \in Nat
      /\ Numbers(c) \in Int /\ c.outgoingSequence \in Nat /\ c.gamestateMessageNum \in Nat
      /\ Numbers(c) >= c.outgoingSequence - 1
      /\ d.serverMessageSequence \in Nat /\ d.serverMessageSequence < c.outgoingSequence
      /\ d.serverId \in Nat /\ d.config \in Nat /\ d.received \in Nat
      /\ DOMAIN c.commands = 1..Len(c.commands)
      /\ \A k \in DOMAIN c.commands : c.commands[k] \in Nat
  <2>1. Len(c.line) \in Nat /\ d.serverMessageSequence < c.outgoingSequence
    BY <1>1, Fields DEF ClientRight
  <2>2. QED
    BY <2>1, Fields DEF Numbers
<1>5. \A config, n : Version(sv, c, config, n) => Version(sv, e, config, n)
  BY <1>2 DEF Version
<1>6. \A k \in DOMAIN c.commands : c.commands[k] <= sv.config
  <2>1. \A k \in DOMAIN c.commands :
            c.commands[k] <= sv.config - (IF c.csUpdated THEN 1 ELSE 0)
    BY <1>1, <1>4 DEF CommandsRight, Version
  <2>2. QED
    BY <1>4, <2>1, SMTT(30)
<1>7. Version(sv, e, sv.config, Len(c.commands))
  <2>1. \A k \in DOMAIN c.commands : ~(k > Len(c.commands)) /\ ~(c.commands[k] > sv.config)
    BY <1>4, <1>6
  <2>2. QED
    BY <1>2, <1>4, <2>1 DEF Version
<1>8. CommandsRight(sv, e)
  <2>1. sv.config - (IF e.csUpdated THEN 1 ELSE 0) = sv.config
    BY <1>2, <1>4
  <2>2. e.gamestateMessageNum <= Numbers(e)
    BY <1>2, <1>4
  <2>3. QED
    BY <1>1, <1>2, <1>7, <2>1, <2>2 DEF CommandsRight
<1>9. ClientRight(sv, e, d)
  BY <1>1, <1>2, <1>5 DEF ClientRight
<1>10. \A y \in X : y.number <= Numbers(c) /\ y.number < x.number /\ y \in Datagrams
  BY <1>1, <1>3, <1>4, MessageFields DEF MessagesRight
<1>11. MessagesRight(sv, e, d, X \cup {x})
  <2>1. Newer(d, x)
    <3>1. d.received <= Len(c.commands) /\ d.serverId <= sv.serverId /\ d.config <= sv.config
      BY <1>1 DEF ClientRight, Version
    <3>2. x.number > d.serverMessageSequence
      BY <1>3, <1>4
    <3>3. QED
      BY <1>3, <3>1, <3>2 DEF Newer
  <2>2. ASSUME NEW y \in X PROVE InOrder(y, x) /\ InOrder(x, y)
    <3>1. ~(x.number < y.number)
      BY <1>3, <1>4, <1>10, MessageFields
    <3>2. /\ y.message.kind # "block" => y.message.commands <= Len(c.commands)
          /\ IsGamestate(y) => y.message.serverId <= sv.serverId /\ y.message.config <= sv.config
      BY <1>1 DEF MessagesRight, Version
    <3>3. QED
      BY <1>3, <3>1, <3>2 DEF InOrder
  <2>3. InOrder(x, x)
    BY <1>3, <1>4 DEF InOrder
  <2>4. \A y \in X : y.number <= Numbers(e)
    BY <1>2, <1>4, <1>10, MessageFields
  <2>5. x.number <= Numbers(e) /\ x.message.commands <= Len(e.commands)
        /\ x.message.serverId <= sv.serverId
        /\ Version(sv, e, x.message.config, x.message.commands)
    BY <1>2, <1>3, <1>4, <1>7
  <2>6. \A y \in X :
            /\ Newer(d, y)
            /\ y.message.kind # "block" => y.message.commands <= Len(e.commands)
            /\ IsGamestate(y) =>
                /\ y.message.serverId <= sv.serverId
                /\ Version(sv, e, y.message.config, y.message.commands)
    BY <1>1, <1>2, <1>5 DEF MessagesRight
  <2>7. \A y, z \in X : InOrder(y, z)
    BY <1>1 DEF MessagesRight
  <2>8. QED
    BY <2>1, <2>2, <2>3, <2>4, <2>5, <2>6, <2>7 DEF MessagesRight
<1>12. GamestateAckAfterSend(c) \in {"once", "many"}
  BY DEF GamestateAckAfterSend
<1>13. LevelRight(sv, e, d, X \cup {x})
  <2>1. \A y \in X \cup {x} : OfLevel(sv, y) => y.message.commands = Len(e.commands)
    BY <1>1, <1>2, <1>3 DEF LevelRight
  <2>2. d.serverId = sv.serverId => d.executed = Len(e.commands)
    BY <1>1, <1>2 DEF LevelRight
  <2>3. QED
    BY <1>2, <1>12, <2>1, <2>2 DEF LevelRight
<1>14. ASSUME ~e.gamestateQueued PROVE LastRight(e, d, X \cup {x}) /\ AckRight(sv, e, d, X \cup {x}, R)
  <2>1. ~c.gamestateQueued /\ c.line = <<>>
    BY <1>2, <1>14
  <2>2. x.number = c.outgoingSequence
    BY <1>3, <1>4, <2>1 DEF Numbers
  <2>3. \A y \in X : y.number < c.outgoingSequence /\ y.number \in Nat
    BY <1>10, <2>2, MessageFields
  <2>4. LastRight(e, d, X \cup {x})
    BY <1>2, <1>3, <1>4, <1>12, <2>2, <2>3 DEF LastRight
  <2>5. \A y \in X \cup {x} : y.number = c.outgoingSequence => y.message.config = sv.config
    BY <1>3, <1>4, <2>3
  <2>6. ASSUME e.gamestateAck = "once"
        PROVE  /\ \A y \in X : OfLevel(sv, y) => y.message.config = sv.config
               /\ d.serverId = sv.serverId => d.config = sv.config
    <3>1. c.gamestateAck = "init" \/ (c.gamestateAck = "once" /\ ~c.csUpdated)
      BY <1>2, <2>6 DEF GamestateAckAfterSend
    <3>2. CASE c.gamestateAck = "init"
      BY <1>1, <1>4, <3>2 DEF LevelRight
    <3>3. CASE c.gamestateAck = "once" /\ ~c.csUpdated
      BY <1>1, <2>1, <3>3 DEF ConfigRight, AckRight
    <3>4. QED
      BY <3>1, <3>2, <3>3
  <2>7. d.serverMessageSequence # c.outgoingSequence
    BY <1>4
  <2>8. ASSUME NEW r \in R PROVE r.messageAcknowledge # c.outgoingSequence
    BY <1>1, <1>4, PacketFields DEF PacketsRight
  <2>9. AckRight(sv, e, d, X \cup {x}, R)
    BY <1>2, <1>3, <1>12, <2>5, <2>6, <2>7, <2>8 DEF AckRight, Reported
  <2>10. QED
    BY <2>4, <2>9
<1>15. ConfigRight(sv, e, d, X \cup {x}, R)
  BY <1>2, <1>14 DEF ConfigRight
<1>16. Right(sv, e, d, X \cup {x}, R)
  BY <1>1, <1>2, <1>8, <1>9, <1>11, <1>13, <1>15 DEF Right
<1>17. QED
  BY <1>16 DEF e, x

\* A client that is not in the world is told of the change later, if at all.
LEMMA ChangedRight ==
    ASSUME NEW v, NEW c, NEW d, NEW X, NEW R, Right(v, c, d, X, R), c.state # "active",
           NEW w \in Levels, w.serverId = v.serverId, w.config = v.config + 1,
           NEW e \in Servers, e.csUpdated, e.state = c.state,
           e.gamestateAck = c.gamestateAck, e.commands = c.commands,
           e.gamestateMessageNum = c.gamestateMessageNum,
           e.outgoingSequence = c.outgoingSequence, e.line = c.line,
           e.gamestateQueued = c.gamestateQueued,
           e.lastClientCommand = c.lastClientCommand
    PROVE  Right(w, e, d, X, R)
<1>1. /\ X \in SUBSET Datagrams
      /\ MessagesRight(v, c, d, X) /\ ClientRight(v, c, d) /\ CommandsRight(v, c)
      /\ LevelRight(v, c, d, X) /\ ConfigRight(v, c, d, X, R)
  BY DEF Right
<1>2. Numbers(e) = Numbers(c)
  BY DEF Numbers
<1>3. \A config \in Int : \A n : Version(v, c, config, n) => Version(w, e, config, n)
  BY Fields DEF Version
<1>4. Version(w, e, v.config, Len(c.commands))
  <2>1. \A k \in DOMAIN c.commands :
            c.commands[k] <= v.config - (IF c.csUpdated THEN 1 ELSE 0)
            /\ ~(k > Len(c.commands))
    BY <1>1, Fields DEF CommandsRight, Version
  <2>2. \A k \in DOMAIN c.commands : ~(c.commands[k] > v.config)
    BY <2>1, Fields
  <2>3. QED
    BY <2>1, <2>2, Fields DEF Version
<1>5. CommandsRight(w, e)
  <2>1. w.config - (IF e.csUpdated THEN 1 ELSE 0) = v.config
    BY Fields
  <2>2. QED
    BY <1>1, <1>2, <1>4, <2>1 DEF CommandsRight
<1>6. ClientRight(w, e, d)
  BY <1>1, <1>3, Fields DEF ClientRight
<1>7. MessagesRight(w, e, d, X)
  <2>1. \A x \in X : x.message.config \in Int
    BY <1>1, MessageFields
  <2>2. QED
    BY <1>1, <1>2, <1>3, <2>1 DEF MessagesRight
<1>8. LevelRight(w, e, d, X)
  BY <1>1 DEF LevelRight, OfLevel
<1>9. ConfigRight(w, e, d, X, R)
  BY <1>1 DEF ConfigRight, LastRight
<1>10. QED
  BY <1>5, <1>6, <1>7, <1>8, <1>9 DEF Right

\* A new level, and the client connected to it.
LEMMA SpawnedRight ==
    ASSUME NEW v, NEW c, NEW d, NEW X, NEW R, Right(v, c, d, X, R),
           NEW w \in Levels, w.serverId = v.serverId + 1, w.config = v.config + 1,
           NEW e \in Servers, e.state = "connected", e.gamestateAck = "init",
           e.csUpdated = c.csUpdated, e.commands = c.commands,
           e.gamestateMessageNum = c.gamestateMessageNum,
           e.outgoingSequence = c.outgoingSequence, e.line = c.line,
           e.gamestateQueued = c.gamestateQueued,
           e.lastClientCommand = c.lastClientCommand
    PROVE  Right(w, e, d, X, R)
<1>1. /\ X \in SUBSET Datagrams /\ R \in SUBSET Packets
      /\ MessagesRight(v, c, d, X) /\ ClientRight(v, c, d) /\ CommandsRight(v, c)
      /\ LevelRight(v, c, d, X) /\ ConfigRight(v, c, d, X, R) /\ PacketsRight(d, R)
  BY DEF Right
<1>2. Numbers(e) = Numbers(c)
  BY DEF Numbers
<1>3. \A config \in Int : \A n : Version(v, c, config, n) => Version(w, e, config, n)
  BY Fields DEF Version
<1>4. CommandsRight(w, e)
  <2> DEFINE config == w.config - (IF e.csUpdated THEN 1 ELSE 0)
  <2>1. \A k \in DOMAIN c.commands :
            c.commands[k] <= v.config - (IF c.csUpdated THEN 1 ELSE 0)
            /\ ~(k > Len(c.commands))
    BY <1>1, Fields DEF CommandsRight, Version
  <2>2. /\ config \in Int /\ config <= w.config /\ (e.csUpdated => config < w.config)
        /\ \A k \in DOMAIN c.commands : ~(c.commands[k] > config)
    BY <2>1, Fields
  <2> HIDE DEF config
  <2>3. Version(w, e, config, Len(c.commands))
    BY <2>1, <2>2, Fields DEF Version
  <2>4. QED
    BY <1>1, <1>2, <2>3 DEF CommandsRight, config
<1>5. ClientRight(w, e, d)
  BY <1>1, <1>3, Fields DEF ClientRight
<1>6. MessagesRight(w, e, d, X)
  <2>1. \A x \in X : x.message.config \in Int /\ x.message.serverId \in Int
    BY <1>1, MessageFields
  <2>2. \A x \in X : IsGamestate(x) => x.message.serverId <= w.serverId
    BY <1>1, <2>1, Fields DEF MessagesRight
  <2>3. QED
    BY <1>1, <1>2, <1>3, <2>1, <2>2 DEF MessagesRight
<1>7. d.serverId < w.serverId
  BY <1>1, Fields DEF ClientRight
<1>8. \A x \in X : ~OfLevel(w, x)
  BY <1>1, Fields, MessageFields DEF OfLevel, MessagesRight
<1>9. \A r \in R : r.serverId # w.serverId
  BY <1>1, <1>7, Fields, PacketFields DEF PacketsRight
<1>10. LevelRight(w, e, d, X)
  BY <1>7, <1>8, Fields DEF LevelRight
<1>11. ConfigRight(w, e, d, X, R)
  <2>1. ~c.gamestateQueued => LastRight(e, d, X)
    BY <1>1 DEF ConfigRight, LastRight
  <2>2. AckRight(w, e, d, X, R)
    BY <1>7, <1>9, Fields DEF AckRight, Reported
  <2>3. QED
    BY <2>1, <2>2 DEF ConfigRight
<1>12. QED
  BY <1>1, <1>4, <1>5, <1>6, <1>10, <1>11 DEF Right

-----------------------------------------------------------------------------
\* The client's steps.

\* The messages after number k.
After(X, k) == {y \in X : y.number > k}

\* The client reads a gamestate.
LEMMA GamestateReadRight ==
    ASSUME NEW v, NEW c, NEW d, NEW X, NEW R, Right(v, c, d, X, R),
           NEW x \in X, IsGamestate(x), x.number < c.outgoingSequence,
           NEW e \in Clients, e.serverMessageSequence = x.number,
           e.serverId = x.message.serverId, e.config = x.message.config,
           e.received = x.message.commands, e.executed = x.message.commands,
           Len(e.commands) >= Len(d.commands)
    PROVE  Right(v, c, e, After(X, x.number), R)
<1> DEFINE Y == After(X, x.number)
<1>1. /\ X \in SUBSET Datagrams /\ R \in SUBSET Packets /\ Y \in SUBSET X
      /\ MessagesRight(v, c, d, X) /\ ClientRight(v, c, d) /\ CommandsRight(v, c)
      /\ LevelRight(v, c, d, X) /\ ConfigRight(v, c, d, X, R) /\ PacketsRight(d, R)
  BY DEF Right, After
<1>2. /\ x.message.serverId <= v.serverId /\ d.serverId <= x.message.serverId
      /\ d.serverMessageSequence < x.number
      /\ Version(v, c, x.message.config, x.message.commands)
      /\ x.message.commands <= Len(c.commands)
  BY <1>1 DEF MessagesRight, Newer, IsGamestate
<1>3. /\ x.message.kind = "gamestate" /\ x.number \in Nat /\ x.message.serverId \in Nat
      /\ x.message.commands \in Nat /\ x.message.config \in Nat /\ Len(e.commands) \in Nat
  <2>1. x \in Datagrams /\ e.commands \in Seq(Commands)
    BY <1>1 DEF Clients
  <2>2. QED
    BY <2>1, MessageFields DEF IsGamestate
<1>4. \A y \in Y : y.number > x.number
  BY DEF After
<1> HIDE DEF Y
<1>5. ClientRight(v, c, e)
  BY <1>1, <1>2, <1>3, Fields DEF ClientRight
<1>6. MessagesRight(v, c, e, Y)
  <2>1. ASSUME NEW y \in Y PROVE Newer(e, y)
    <3>1. InOrder(x, y)
      BY <1>1 DEF MessagesRight
    <3>2. y.number > x.number /\ y.number \in Nat /\ x.number < y.number
      BY <1>1, <1>3, <1>4, MessageFields
    <3>3. QED
      BY <1>3, <3>1, <3>2 DEF InOrder, Newer, IsGamestate
  <2>2. QED
    BY <1>1, <2>1 DEF MessagesRight
<1>7. PacketsRight(e, R)
  BY <1>1, <1>2, <1>3, Fields, PacketFields, SMTT(30) DEF PacketsRight
<1>8. LevelRight(v, c, e, Y)
  <2>1. c.gamestateAck = "init" => e.serverId < v.serverId
    <3>1. c.gamestateAck = "init" => x.message.serverId # v.serverId
      BY <1>1 DEF LevelRight, OfLevel
    <3>2. QED
      BY <1>2, <1>3, <3>1, Fields
  <2>2. c.gamestateAck = "acked" => e.serverId = v.serverId
    BY <1>1, <1>2, <1>3, Fields DEF LevelRight
  <2>3. c.state # "active" /\ e.serverId = v.serverId => e.executed = Len(c.commands)
    BY <1>1 DEF LevelRight, OfLevel
  <2>4. QED
    BY <1>1, <2>1, <2>2, <2>3 DEF LevelRight
<1>9. ASSUME ~c.gamestateQueued
      PROVE  /\ LastRight(c, e, Y) /\ c.state # "active"
             /\ ~c.csUpdated => AckRight(v, c, e, Y, R)
  <2>1. LastRight(c, d, X) /\ x.number <= c.gamestateMessageNum
    BY <1>1, <1>9 DEF ConfigRight, LastRight
  <2>2. d.serverMessageSequence < c.gamestateMessageNum /\ c.gamestateAck # "acked"
    BY <1>2, <1>3, <2>1, Fields DEF LastRight
  <2>3. LastRight(c, e, Y)
    BY <1>1, <2>1, <2>2 DEF LastRight
  <2>4. c.state # "active"
    BY <1>1, <2>2 DEF LevelRight
  <2>5. \A r \in R : r.messageAcknowledge # c.gamestateMessageNum
    BY <1>1, <2>2, Fields, PacketFields DEF PacketsRight
  <2>6. ASSUME ~c.csUpdated PROVE AckRight(v, c, e, Y, R)
    <3>1. AckRight(v, c, d, X, R)
      BY <1>1, <1>9, <2>4, <2>6 DEF ConfigRight
    <3>2. c.gamestateAck = "once" /\ e.serverId = v.serverId => e.config = v.config
      BY <3>1 DEF AckRight, OfLevel
    <3>3. Reported(v, c, e.serverId, e.serverMessageSequence) => e.config = v.config
      BY <1>1, <3>1 DEF AckRight, Reported, LevelRight, OfLevel
    <3>4. QED
      BY <1>1, <2>2, <2>5, <3>1, <3>2, <3>3 DEF AckRight, Reported
  <2>7. QED
    BY <2>3, <2>4, <2>6
<1>10. ConfigRight(v, c, e, Y, R)
  BY <1>9 DEF ConfigRight
<1>11. Right(v, c, e, Y, R)
  BY <1>1, <1>5, <1>6, <1>7, <1>8, <1>10 DEF Right
<1>12. QED
  BY <1>11 DEF Y

\* The client reads another message.
LEMMA OtherReadRight ==
    ASSUME NEW v, NEW c, NEW d, NEW X, NEW R, Right(v, c, d, X, R),
           NEW x \in X, ~IsGamestate(x), x.number < c.outgoingSequence,
           NEW e \in Clients, e.serverMessageSequence = x.number,
           e.serverId = d.serverId, e.config = d.config, e.executed = d.executed,
           \/ e.received = d.received
           \/ /\ e.received = x.message.commands /\ e.received >= d.received
              /\ x.message.kind # "block",
           Len(e.commands) >= Len(d.commands)
    PROVE  Right(v, c, e, After(X, x.number), R)
<1> DEFINE Y == After(X, x.number)
<1>1. /\ X \in SUBSET Datagrams /\ R \in SUBSET Packets /\ Y \in SUBSET X
      /\ MessagesRight(v, c, d, X) /\ ClientRight(v, c, d) /\ CommandsRight(v, c)
      /\ LevelRight(v, c, d, X) /\ ConfigRight(v, c, d, X, R) /\ PacketsRight(d, R)
  BY DEF Right, After
<1>2. /\ d.serverMessageSequence < x.number
      /\ x.message.kind # "block" => x.message.commands <= Len(c.commands)
  BY <1>1 DEF MessagesRight, Newer
<1>3. /\ x.number \in Nat /\ x.message.commands \in Nat /\ Len(e.commands) \in Nat
      /\ e.received \in Nat
  <2>1. x \in Datagrams /\ e.commands \in Seq(Commands) /\ e.received \in Nat
    BY <1>1 DEF Clients
  <2>2. QED
    BY <2>1, MessageFields
<1>4. \A y \in Y : y.number > x.number
  BY DEF After
<1> HIDE DEF Y
<1>5. ClientRight(v, c, e)
  BY <1>1, <1>2, <1>3, Fields, SMTT(30) DEF ClientRight
<1>6. MessagesRight(v, c, e, Y)
  <2>1. ASSUME NEW y \in Y PROVE Newer(e, y)
    <3>1. InOrder(x, y) /\ Newer(d, y)
      BY <1>1 DEF MessagesRight
    <3>2. y.number > x.number /\ y.number \in Nat /\ x.number < y.number
      BY <1>1, <1>3, <1>4, MessageFields
    <3>3. QED
      BY <1>3, <3>1, <3>2 DEF InOrder, Newer
  <2>2. QED
    BY <1>1, <2>1 DEF MessagesRight
<1>7. PacketsRight(e, R)
  BY <1>1, <1>2, <1>3, Fields, PacketFields, SMTT(30) DEF PacketsRight
<1>8. LevelRight(v, c, e, Y)
  BY <1>1 DEF LevelRight
<1>9. ASSUME ~c.gamestateQueued
      PROVE  /\ LastRight(c, e, Y)
             /\ c.state # "active" /\ ~c.csUpdated => AckRight(v, c, e, Y, R)
             /\ c.state = "active" => UpToDate(v, c, e)
  <2>1. LastRight(c, d, X) /\ x.number # c.gamestateMessageNum
    BY <1>1, <1>9 DEF ConfigRight, LastRight
  <2>2. LastRight(c, e, Y)
    BY <1>1, <1>2, <1>3, <2>1, Fields DEF LastRight
  <2>3. ASSUME c.state # "active", ~c.csUpdated PROVE AckRight(v, c, e, Y, R)
    <3>1. AckRight(v, c, d, X, R)
      BY <1>1, <1>9, <2>3 DEF ConfigRight
    <3>2. QED
      BY <1>1, <2>1, <3>1 DEF AckRight, Reported
  <2>4. c.state = "active" => UpToDate(v, c, e)
    BY <1>1, <1>9 DEF ConfigRight, UpToDate
  <2>5. QED
    BY <2>2, <2>3, <2>4
<1>10. ConfigRight(v, c, e, Y, R)
  BY <1>9 DEF ConfigRight
<1>11. Right(v, c, e, Y, R)
  BY <1>1, <1>5, <1>6, <1>7, <1>8, <1>10 DEF Right
<1>12. QED
  BY <1>11 DEF Y

\* cgame executes the next command.
LEMMA ExecutedRight ==
    ASSUME NEW v, NEW c, NEW d, NEW X, NEW R, Right(v, c, d, X, R),
           d.executed < d.received,
           NEW e \in Clients, e.executed = d.executed + 1,
           e.config = c.commands[d.executed + 1], e.received = d.received,
           e.serverId = d.serverId, e.commands = d.commands,
           e.serverMessageSequence = d.serverMessageSequence
    PROVE  Right(v, c, e, X, R) /\ e.config >= d.config
<1>1. /\ X \in SUBSET Datagrams /\ R \in SUBSET Packets
      /\ MessagesRight(v, c, d, X) /\ ClientRight(v, c, d) /\ CommandsRight(v, c)
      /\ LevelRight(v, c, d, X) /\ ConfigRight(v, c, d, X, R) /\ PacketsRight(d, R)
  BY DEF Right
<1>2. /\ d.executed + 1 <= d.received /\ d.received <= Len(c.commands)
      /\ d.executed + 1 \in DOMAIN c.commands /\ d.executed < Len(c.commands)
  BY <1>1, Fields DEF ClientRight
<1>3. e.config \in Nat /\ e.config > d.config
  BY <1>1, <1>2, Fields DEF ClientRight, Version
<1>4. /\ e.config <= v.config - (IF c.csUpdated THEN 1 ELSE 0)
  BY <1>1, <1>2, Fields DEF CommandsRight, Version
<1>5. Version(v, c, e.config, e.executed)
  <2>1. e.config <= v.config /\ (c.csUpdated => e.config < v.config)
    BY <1>3, <1>4, Fields
  <2>2. ASSUME NEW k \in DOMAIN c.commands
        PROVE  k > d.executed + 1 <=> c.commands[k] > c.commands[d.executed + 1]
    <3>1. CASE k > d.executed + 1
      BY <1>1, <1>2, <3>1, Fields DEF CommandsRight
    <3>2. CASE k = d.executed + 1
      BY <1>2, <3>2, Fields
    <3>3. CASE k < d.executed + 1
      <4>1. c.commands[k] < c.commands[d.executed + 1]
        BY <1>1, <1>2, <3>3 DEF CommandsRight
      <4>2. QED
        BY <1>2, <3>3, <4>1, Fields
    <3>4. QED
      BY <3>1, <3>2, <3>3, Fields
  <2>3. QED
    BY <1>2, <2>1, <2>2, Fields DEF Version
<1>6. ClientRight(v, c, e)
  BY <1>1, <1>2, <1>5, Fields DEF ClientRight
<1>7. MessagesRight(v, c, e, X)
  <2>1. ASSUME NEW x \in X, IsGamestate(x) PROVE e.config <= x.message.config
    <3>1. /\ d.received <= x.message.commands
          /\ Version(v, c, x.message.config, x.message.commands)
      BY <1>1, <2>1 DEF MessagesRight, Newer, IsGamestate
    <3>2. x.message.commands \in Nat /\ x.message.config \in Nat
      BY <1>1, MessageFields
    <3>3. ~(d.executed + 1 > x.message.commands)
      BY <1>2, <3>1, <3>2, Fields
    <3>4. ~(c.commands[d.executed + 1] > x.message.config)
      BY <1>2, <3>1, <3>3 DEF Version
    <3>5. QED
      BY <1>3, <3>2, <3>4
  <2>2. \A x \in X : Newer(e, x)
    BY <1>1, <2>1 DEF MessagesRight, Newer
  <2>3. QED
    BY <1>1, <2>2 DEF MessagesRight
<1>8. PacketsRight(e, R)
  BY <1>1 DEF PacketsRight
<1>9. c.state # "active" => d.serverId # v.serverId
  BY <1>1, <1>2, Fields DEF LevelRight
<1>10. LevelRight(v, c, e, X)
  BY <1>1, <1>9 DEF LevelRight
<1>11. ConfigRight(v, c, e, X, R)
  <2>1. ASSUME c.state # "active", NEW r \in R PROVE r.serverId # v.serverId
    BY <1>1, <1>9, <2>1, Fields, PacketFields DEF PacketsRight, ClientRight
  <2>2. ASSUME c.state # "active", AckRight(v, c, d, X, R) PROVE AckRight(v, c, e, X, R)
    BY <1>1, <1>9, <2>1, <2>2 DEF AckRight, Reported, LevelRight
  <2>3. ASSUME UpToDate(v, c, d) PROVE UpToDate(v, c, e)
    BY <1>2, <2>3, Fields DEF UpToDate
  <2>4. QED
    BY <1>1, <2>2, <2>3 DEF ConfigRight, LastRight
<1>12. QED
  BY <1>1, <1>3, <1>6, <1>7, <1>8, <1>10, <1>11, Fields DEF Right

\* The client says what it holds.
LEMMA ToldRight ==
    ASSUME NEW v, NEW c, NEW d, NEW X, NEW R, Right(v, c, d, X, R),
           NEW e \in Clients, e.executed = d.executed, e.config = d.config,
           e.received = d.received, e.serverId = d.serverId,
           Len(e.commands) >= Len(d.commands),
           e.serverMessageSequence = d.serverMessageSequence,
           NEW p \in Packets, p.serverId = d.serverId,
           p.messageAcknowledge = d.serverMessageSequence,
           p.commands <= Len(e.commands)
    PROVE  Right(v, c, e, X, R \cup {p})
<1>1. /\ R \in SUBSET Packets
      /\ MessagesRight(v, c, d, X) /\ ClientRight(v, c, d) /\ CommandsRight(v, c)
      /\ LevelRight(v, c, d, X) /\ ConfigRight(v, c, d, X, R) /\ PacketsRight(d, R)
  BY DEF Right
<1>2. Len(e.commands) \in Nat
  <2>1. e.commands \in Seq(Commands)
    BY DEF Clients
  <2>2. QED
    BY <2>1
<1>3. ClientRight(v, c, e)
  BY <1>1, <1>2, Fields DEF ClientRight
<1>4. MessagesRight(v, c, e, X)
  BY <1>1 DEF MessagesRight, Newer
<1>5. PacketsRight(e, R \cup {p})
  <2>1. \A r \in R : r.commands <= Len(e.commands)
    BY <1>1, <1>2, Fields, PacketFields DEF PacketsRight
  <2>2. QED
    BY <1>1, <2>1, Fields DEF PacketsRight
<1>6. LevelRight(v, c, e, X)
  BY <1>1 DEF LevelRight
<1>7. ConfigRight(v, c, e, X, R \cup {p})
  BY <1>1 DEF ConfigRight, LastRight, AckRight, Reported, UpToDate
<1>8. QED
  BY <1>1, <1>3, <1>4, <1>5, <1>6, <1>7 DEF Right

-----------------------------------------------------------------------------
\* Numbers, and what is defined step by step.

\* A set of numbers has a least one: the intervals below its members have a
\* smallest.
LEMMA LeastIn ==
    ASSUME NEW S \in SUBSET Nat, S # {}
    PROVE  \E m \in S : \A j \in S : m <= j
<1> DEFINE T == {1..n : n \in S}
<1>1. T \subseteq FiniteSubsetsOf(Nat) /\ T # {}
  <2>1. \A n \in Nat : IsFiniteSet(1..n) /\ 1..n \subseteq Nat
    BY FS_Interval
  <2>2. QED
    BY <2>1 DEF FiniteSubsetsOf
<1>2. PICK x \in T : \A y \in T : ~ (<<y, x>> \in StrictSubsetOrdering(Nat))
  BY <1>1, FS_StrictSubsetOrderingWellFounded, WFMin
<1>3. PICK m \in S : x = 1..m
  BY <1>2
<1>4. ASSUME NEW j \in S, j < m PROVE FALSE
  <2>1. 1..j \subseteq 1..m /\ m \in 1..m /\ m \notin 1..j
    BY <1>4
  <2>2. <<1..j, 1..m>> \in StrictSubsetOrdering(Nat)
    BY <2>1 DEF StrictSubsetOrdering
  <2>3. QED
    BY <1>2, <1>3, <2>2
<1>5. QED
  BY <1>4

\* Numbers before which a property holds, and which inherit it, have it.
LEMMA Upwards ==
    ASSUME NEW n \in Nat, NEW G, 0 \in G, \A k \in 1..n : k - 1 \in G => k \in G
    PROVE  \A k \in 0..n : k \in G
<1> DEFINE Bad == {k \in 0..n : k \notin G}
<1>1. SUFFICES ASSUME Bad # {} PROVE FALSE
  OBVIOUS
<1>2. Bad \in SUBSET Nat
  OBVIOUS
<1>3. PICK m \in Bad : \A j \in Bad : m <= j
  <2> HIDE DEF Bad
  <2>1. QED
    BY <1>1, <1>2, LeastIn
<1>4. m \in 1..n /\ m \notin G
  OBVIOUS
<1>5. m - 1 \notin Bad
  BY <1>3, <1>4
<1>6. QED
  BY <1>4, <1>5

\* What is defined step by step exists.
Iteration(u, base, next, n) == u[0] = base /\ \A k \in 1..n : u[k] = next[k][u[k - 1]]

LEMMA Iterates ==
    ASSUME NEW S, NEW base \in S, NEW next \in [Nat -> [S -> S]], NEW n \in Nat
    PROVE  \E u \in [0..n -> S] : Iteration(u, base, next, n)
<1> DEFINE Steps(m, u) == u[0] = base /\ \A k \in 1..m : u[k] = next[k][u[k - 1]]
           G == {m \in Nat : \E u \in [0..m -> S] : Steps(m, u)}
<1>1. 0 \in G
  <2>1. [k \in 0..0 |-> base] \in [0..0 -> S] /\ Steps(0, [k \in 0..0 |-> base])
    OBVIOUS
  <2>2. QED
    BY <2>1
<1>2. ASSUME NEW k \in 1..n, k - 1 \in G PROVE k \in G
  <2>1. PICK u \in [0..(k - 1) -> S] : Steps(k - 1, u)
    BY <1>2
  <2> DEFINE v == [j \in 0..k |-> IF j = k THEN next[k][u[k - 1]] ELSE u[j]]
  <2>2. u[k - 1] \in S /\ k \in Nat
    OBVIOUS
  <2>3. next[k][u[k - 1]] \in S
    BY <2>2
  <2>4. v \in [0..k -> S]
    BY <2>3
  <2>5. v[0] = base
    BY <2>1
  <2>6. ASSUME NEW j \in 1..k PROVE v[j] = next[j][v[j - 1]]
    <3>1. CASE j = k
      BY <3>1
    <3>2. CASE j # k
      <4>1. j \in 1..(k - 1) /\ v[j] = u[j] /\ v[j - 1] = u[j - 1]
        BY <3>2
      <4>2. QED
        BY <2>1, <4>1
    <3>3. QED
      BY <3>1, <3>2
  <2>7. Steps(k, v)
    BY <2>5, <2>6
  <2>8. QED
    BY <2>2, <2>4, <2>7
<1>3. n \in G
  <2> HIDE DEF G
  <2>1. \A k \in 1..n : k - 1 \in G => k \in G
    BY <1>2
  <2>2. \A k \in 0..n : k \in G
    BY <1>1, <2>1, Upwards, Zenon
  <2>3. n \in 0..n
    OBVIOUS
  <2>4. QED
    BY <2>2, <2>3
<1>4. QED
  BY <1>3 DEF Iteration

-----------------------------------------------------------------------------
\* A packet of the client.

\* The server with c for the client is as it should be.
Fine(c) ==
    /\ c \in Servers
    /\ c.outgoingSequence = client.outgoingSequence
    /\ Right(sv, c, cl, Coming(toClient, c), Members(toServer))

\* A message joins the line.
LEMMA WaitingAppended ==
    ASSUME NEW c, NEW e, NEW m, c.line \in Seq(ServerMessages), c.outgoingSequence \in Nat,
           e.line = Append(c.line, m), e.outgoingSequence = c.outgoingSequence
    PROVE  Waiting(e) = Waiting(c) \cup {Numbered(m, Numbers(c) + 1)}
<1>1. /\ DOMAIN e.line = 1..(Len(c.line) + 1) /\ DOMAIN c.line = 1..Len(c.line)
      /\ Len(c.line) \in Nat
      /\ \A i \in DOMAIN c.line : e.line[i] = c.line[i]
      /\ e.line[Len(c.line) + 1] = m
  OBVIOUS
<1>2. e.outgoingSequence - 1 + (Len(c.line) + 1) = Numbers(c) + 1
  BY <1>1 DEF Numbers
<1> DEFINE At(i) == Numbered(e.line[i], e.outgoingSequence - 1 + i)
<1>3. At(Len(c.line) + 1) = Numbered(m, Numbers(c) + 1)
  BY <1>1, <1>2
<1>4. \A i \in DOMAIN c.line : At(i) = Numbered(c.line[i], c.outgoingSequence - 1 + i)
  BY <1>1
<1>5. DOMAIN e.line = DOMAIN c.line \cup {Len(c.line) + 1}
  BY <1>1
<1>6. Waiting(e) = {At(i) : i \in DOMAIN e.line}
  BY DEF Waiting
<1>7. Waiting(c) = {At(i) : i \in DOMAIN c.line}
  BY <1>4 DEF Waiting
<1> HIDE DEF At
<1>8. QED
  BY <1>3, <1>5, <1>6, <1>7

\* A gamestate is sent.
LEMMA SentFine ==
    ASSUME NEW c, Fine(c), c.state # "active"
    PROVE  Fine(SV_SendClientGameState(c))
<1> DEFINE e == SV_SendClientGameState(c)
           X == Coming(toClient, c)
           R == Members(toServer)
<1>1. Right(sv, c, cl, X, R) /\ c \in Servers /\ c.outgoingSequence = client.outgoingSequence
  BY DEF Fine
<1> HIDE DEF X, R
<1>2. /\ e \in Servers /\ e.outgoingSequence = c.outgoingSequence
      /\ e.line = Append(c.line, GamestateOf(c).message)
  BY <1>1, SentFields
<1>3. Right(sv, e, cl, X \cup {GamestateOf(c)}, R)
  BY <1>1, SentRight
<1>4. GamestateOf(c) = Numbered(GamestateOf(c).message, Numbers(c) + 1)
  BY DEF GamestateOf, Numbered
<1> HIDE DEF e
<1>5. c.line \in Seq(ServerMessages) /\ c.outgoingSequence \in Nat
  BY <1>1 DEF Servers
<1>6. Waiting(e) = Waiting(c) \cup {GamestateOf(c)}
  BY <1>2, <1>4, <1>5, WaitingAppended
<1>7. Coming(toClient, e) = X \cup {GamestateOf(c)}
  BY <1>6 DEF X, Coming
<1>8. Fine(e)
  BY <1>1, <1>2, <1>3, <1>7 DEF Fine, R
<1>9. QED
  BY <1>8 DEF e

\* A step that leaves the line of messages.
LEMMA SameFine ==
    ASSUME NEW c, Fine(c), NEW e \in Servers, Same(c, e),
           Right(sv, e, cl, Coming(toClient, c), Members(toServer))
    PROVE  Fine(e)
<1>1. Waiting(e) = Waiting(c)
  BY DEF Waiting, Same
<1>2. QED
  BY <1>1 DEF Fine, Coming, Same

\* The command that is executed next.
Executed(c, command, n) == [SV_ExecuteClientCommand(c, command) EXCEPT !.lastClientCommand = n]

LEMMA NumberedFine ==
    ASSUME NEW c, Fine(c), NEW n \in Nat, n <= Len(cl.commands)
    PROVE  /\ Fine([c EXCEPT !.lastClientCommand = n])
           /\ [c EXCEPT !.lastClientCommand = n].lastClientCommand = n
<1> DEFINE e == [c EXCEPT !.lastClientCommand = n]
<1>1. c \in Servers
  BY DEF Fine
<1>2. /\ e \in Servers /\ e.lastClientCommand = n /\ e.state = c.state
      /\ e.gamestateAck = c.gamestateAck /\ Same(c, e)
  BY <1>1 DEF Servers, Same
<1> HIDE DEF e
<1>3. Right(sv, e, cl, Coming(toClient, c), Members(toServer))
  BY <1>2, NothingChanged DEF Fine
<1>4. QED
  BY <1>2, <1>3, SameFine DEF e

LEMMA CommandFine ==
    ASSUME NEW c, Fine(c), NEW command \in Commands, NEW n \in Nat, n <= Len(cl.commands)
    PROVE  Fine(Executed(c, command, n)) /\ Executed(c, command, n).lastClientCommand = n
<1>1. c \in Servers /\ command.name \in {"cp", "download", "donedl"}
  BY DEF Fine, Commands
<1>2. Fine(SV_ExecuteClientCommand(c, command))
  <2>1. CASE command.name = "cp"
    <3> DEFINE gotCP == c.gotCP \/ command.serverId = sv.serverId
               e == [c EXCEPT !.gotCP = gotCP]
    <3>1. SV_ExecuteClientCommand(c, command) = e
      BY <1>1, <2>1 DEF SV_ExecuteClientCommand, Servers
    <3>2. gotCP \in BOOLEAN
      BY <1>1 DEF Servers
    <3> HIDE DEF gotCP
    <3>3. /\ e \in Servers /\ e.lastClientCommand = c.lastClientCommand /\ e.state = c.state
          /\ e.gamestateAck = c.gamestateAck /\ Same(c, e)
      BY <1>1, <3>2 DEF Servers, Same
    <3> HIDE DEF e
    <3>4. Right(sv, e, cl, Coming(toClient, c), Members(toServer))
      <4>1. e.lastClientCommand <= Len(cl.commands)
        BY <3>3 DEF Fine, Right, ClientRight
      <4>2. QED
        BY <3>3, <4>1, NothingChanged DEF Fine
    <3>5. QED
      BY <3>1, <3>3, <3>4, SameFine
  <2>2. CASE command.name = "download" /\ c.state # "active"
    <3>1. SV_ExecuteClientCommand(c, command) = Downloads(c)
      BY <2>2 DEF SV_ExecuteClientCommand
    <3>2. QED
      BY <2>2, <3>1, DownloadsRight, SameFine DEF Fine
  <2>3. CASE command.name = "donedl" /\ c.state # "active"
    <3>1. SV_ExecuteClientCommand(c, command) = SV_SendClientGameState(c)
      BY <2>3 DEF SV_ExecuteClientCommand
    <3>2. QED
      BY <2>3, <3>1, SentFine
  <2>4. CASE command.name # "cp" /\ c.state = "active"
    <3>1. SV_ExecuteClientCommand(c, command) = c
      BY <2>4 DEF SV_ExecuteClientCommand
    <3>2. QED
      BY <3>1
  <2>5. QED
    BY <1>1, <2>1, <2>2, <2>3, <2>4
<1>3. QED
  BY <1>2, NumberedFine DEF Executed

\* A packet brings several commands.
LEMMA CommandsFine ==
    ASSUME NEW c, Fine(c), NEW last \in Nat, last <= Len(cl.commands)
    PROVE  Fine(AfterCommands(c, last))
<1> DEFINE n0 == c.lastClientCommand
           Good(s, k) == s \in Servers /\ Fine(s) /\ (k <= n0 => s = c)
           Body(u) == [k \in 0..last |-> IF k <= n0 THEN c
                                         ELSE Executed(u[k - 1], cl.commands[k], k)]
           next == [k \in Nat |-> [s \in Servers |->
                       IF k > n0 /\ k <= last /\ Good(s, k - 1)
                       THEN Executed(s, cl.commands[k], k)
                       ELSE c]]
<1>1. n0 \in Nat /\ c \in Servers /\ cl.commands \in Seq(Commands) /\ Len(cl.commands) \in Nat
  <2>1. c \in Servers /\ cl \in Clients
    BY DEF Fine, Right
  <2>2. cl.commands \in Seq(Commands)
    BY <2>1 DEF Clients
  <2>3. QED
    BY <2>1, <2>2 DEF Servers
<1>2. \A k \in Nat : k <= n0 => Good(c, k)
  BY <1>1
<1>3. ASSUME NEW k \in 1..last, k > n0, NEW s, Good(s, k - 1)
      PROVE  Good(Executed(s, cl.commands[k], k), k)
  <2>1. k \in Nat /\ k <= Len(cl.commands) /\ cl.commands[k] \in Commands /\ ~(k <= n0)
    BY <1>1, <1>3
  <2>2. Fine(Executed(s, cl.commands[k], k))
    BY <1>3, <2>1, CommandFine
  <2>3. QED
    BY <2>1, <2>2 DEF Fine
<1>4. next \in [Nat -> [Servers -> Servers]]
  <2>1. ASSUME NEW k \in Nat, NEW s \in Servers, k > n0, k <= last, Good(s, k - 1)
        PROVE  Executed(s, cl.commands[k], k) \in Servers
    <3>1. k \in 1..last
      BY <1>1, <2>1
    <3>2. Good(Executed(s, cl.commands[k], k), k)
      BY <1>3, <2>1, <3>1
    <3>3. QED
      BY <3>2
  <2> HIDE DEF Good, n0
  <2>2. QED
    BY <1>1, <2>1
<1>5. PICK u \in [0..last -> Servers] : Iteration(u, c, next, last)
  <2> HIDE DEF next
  <2>1. QED
    BY <1>1, <1>4, Iterates, Zenon
<1> HIDE DEF Good, n0
<1> DEFINE G == {k \in Nat : k \in 0..last => Good(u[k], k)}
<1>6. ASSUME NEW k \in 1..last
      PROVE  /\ k - 1 \in Nat /\ k - 1 \in 0..last /\ k \in Nat /\ k \in 0..last
             /\ u[k - 1] \in Servers
             /\ k > n0 /\ Good(u[k - 1], k - 1) => u[k] = Executed(u[k - 1], cl.commands[k], k)
             /\ k <= n0 => u[k] = c
  <2>1. /\ k - 1 \in Nat /\ k - 1 \in 0..last /\ k \in Nat /\ k \in 0..last
        /\ u[k - 1] \in Servers
    OBVIOUS
  <2>2. u[k] = next[k][u[k - 1]]
    BY <1>5 DEF Iteration
  <2>3. QED
    BY <1>1, <2>1, <2>2
<1>7. \A k \in 0..last : k \in G
  <2>1. 0 \in G
    BY <1>1, <1>2, <1>5 DEF Iteration
  <2>2. ASSUME NEW k \in 1..last, k - 1 \in G PROVE k \in G
    <3>1. Good(u[k - 1], k - 1)
      BY <1>6, <2>2
    <3>2. CASE k <= n0
      BY <1>2, <1>6, <3>2
    <3>3. CASE k > n0
      BY <1>3, <1>6, <3>1, <3>3
    <3>4. QED
      BY <1>1, <3>2, <3>3
  <2> HIDE DEF G
  <2>3. QED
    BY <2>1, <2>2, Upwards
<1>8. u = Body(u)
  <2>1. ASSUME NEW k \in 0..last
        PROVE  u[k] = IF k <= n0 THEN c ELSE Executed(u[k - 1], cl.commands[k], k)
    <3>1. CASE k = 0
      BY <1>1, <1>5, <3>1 DEF Iteration
    <3>2. CASE k # 0
      <4>1. k \in 1..last
        BY <3>2
      <4>2. Good(u[k - 1], k - 1)
        BY <1>6, <1>7, <4>1
      <4>3. QED
        BY <1>1, <1>6, <4>1, <4>2
    <3>3. QED
      BY <3>1, <3>2
  <2>2. QED
    BY <2>1
<1> DEFINE executed == CHOOSE v : v = Body(v)
<1>9. AfterCommands(c, last) = executed[last]
  BY Zenon DEF AfterCommands, Executed, n0
<1>10. executed = Body(executed)
  <2> HIDE DEF Body
  <2>1. QED
    BY <1>8
<1> HIDE DEF executed
<1> DEFINE H == {k \in Nat : k \in 0..last => Good(executed[k], k)}
<1>11. \A k \in 0..last : k \in H
  <2>1. 0 \in H
    BY <1>1, <1>2, <1>10
  <2>2. ASSUME NEW k \in 1..last, k - 1 \in H PROVE k \in H
    <3>1. Good(executed[k - 1], k - 1)
      BY <2>2
    <3>2. CASE k <= n0
      BY <1>2, <1>10, <3>2
    <3>3. CASE k > n0
      <4>1. executed[k] = Executed(executed[k - 1], cl.commands[k], k)
        BY <1>1, <1>10, <3>3
      <4>2. QED
        BY <1>3, <3>1, <3>3, <4>1
    <3>4. QED
      BY <1>1, <3>2, <3>3
  <2> HIDE DEF H
  <2>3. QED
    BY <2>1, <2>2, Upwards
<1>12. Good(executed[last], last)
  BY <1>11
<1>13. QED
  BY <1>9, <1>12 DEF Good

\* The acknowledgement in a packet.
LEMMA AcknowledgedFine ==
    ASSUME NEW c, Fine(c), NEW m \in Members(toServer)
    PROVE  LET e == SV_AcknowledgeGamestate(c, m) IN
           /\ Fine(e) /\ e.state = c.state
           /\ c.gamestateAck = "acked" \/ Acknowledges(c, m) => e.gamestateAck = "acked"
<1>1. CASE ~Acknowledges(c, m)
  BY <1>1 DEF SV_AcknowledgeGamestate
<1>2. CASE Acknowledges(c, m)
  <2> DEFINE e == [c EXCEPT !.gamestateAck = "acked"]
  <2>1. SV_AcknowledgeGamestate(c, m) = e
    BY <1>2 DEF SV_AcknowledgeGamestate
  <2>2. c \in Servers
    BY DEF Fine
  <2>3. /\ e \in Servers /\ Same(c, e) /\ e.state = c.state /\ e.gamestateAck = "acked"
        /\ e.lastClientCommand = c.lastClientCommand
    BY <2>2 DEF Servers, Same
  <2> HIDE DEF e
  <2>4. Right(sv, e, cl, Coming(toClient, c), Members(toServer))
    BY <1>2, <2>3, AcknowledgedRight DEF Fine
  <2>5. Fine(e)
    BY <2>3, <2>4, SameFine
  <2>6. QED
    BY <2>1, <2>3, <2>5
<1>3. QED
  BY <1>1, <1>2

\* The first usercmd.
LEMMA MoveFine ==
    ASSUME NEW c, Fine(c), c.gamestateAck = "acked", NEW e \in SV_UserMove(c)
    PROVE  Fine(e)
<1>1. CASE c.state # "primed"
  BY <1>1 DEF SV_UserMove
<1>2. CASE c.state = "primed" /\ sv.pure /\ ~c.gotCP
  <2>1. e = c \/ e = SV_SendClientGameState(c)
    BY <1>2 DEF SV_UserMove, GamestateIfRateAllows
  <2>2. QED
    BY <1>2, <2>1, SentFine
<1>3. CASE c.state = "primed" /\ ~(sv.pure /\ ~c.gotCP)
  <2>1. e = SV_ClientEnterWorld(c)
    BY <1>3 DEF SV_UserMove
  <2>2. QED
    BY <1>3, <2>1, EnteredRight DEF Fine, Coming
<1>4. QED
  BY <1>1, <1>2, <1>3

\* What follows the commands in a packet.
LEMMA LateFine ==
    ASSUME NEW c, Fine(c), NEW m \in Members(toServer), NEW e \in AfterLateCheck(c, m)
    PROVE  Fine(e)
<1>1. CASE c.gamestateAck # "acked" /\ c.state # "primed"
  BY <1>1 DEF AfterLateCheck
<1>2. CASE c.gamestateAck # "acked" /\ c.state = "primed" /\ ~Acknowledges(c, m)
  <2>1. e = c \/ e = SV_SendClientGameState(c)
    BY <1>2 DEF AfterLateCheck, GamestateIfRateAllows
  <2>2. QED
    BY <1>2, <2>1, SentFine
<1>3. CASE c.gamestateAck = "acked" \/ (c.state = "primed" /\ Acknowledges(c, m))
  <2> DEFINE a == SV_AcknowledgeGamestate(c, m)
  <2>1. e \in IF m.move THEN SV_UserMove(a) ELSE {a}
    BY <1>3 DEF AfterLateCheck
  <2>2. Fine(a) /\ a.gamestateAck = "acked"
    BY <1>3, AcknowledgedFine
  <2> HIDE DEF a
  <2>3. QED
    BY <2>1, <2>2, MoveFine
<1>4. QED
  BY <1>1, <1>2, <1>3

\* A packet.
LEMMA PacketFine ==
    ASSUME Fine(client), NEW m \in Members(toServer), NEW e \in SV_ExecuteClientMessage(m)
    PROVE  Fine(e)
<1>1. m.commands \in Nat /\ m.commands <= Len(cl.commands)
  <2>1. Members(toServer) \in SUBSET Packets /\ PacketsRight(cl, Members(toServer))
    BY DEF Fine, Right
  <2>2. QED
    BY <2>1, PacketFields DEF PacketsRight
<1>2. CASE client.state = "connected" /\ ~client.downloading
  <2>1. e = client \/ e = SV_SendClientGameState(client)
    BY <1>2 DEF SV_ExecuteClientMessage, GamestateIfRateAllows
  <2>2. QED
    BY <1>2, <2>1, SentFine
<1>3. CASE client.state = "connected" /\ client.downloading
  <2>1. e \in AfterLateCheck(AfterCommands(client, m.commands), m)
    BY <1>3 DEF SV_ExecuteClientMessage
  <2>2. Fine(AfterCommands(client, m.commands))
    BY <1>1, CommandsFine
  <2>3. QED
    BY <2>1, <2>2, LateFine
<1>4. CASE client.state # "connected"
  <2> DEFINE a == IF client.gamestateAck = "acked" THEN client
                  ELSE SV_AcknowledgeGamestate(client, m)
  <2>1. e \in AfterLateCheck(AfterCommands(a, m.commands), m)
    BY <1>4 DEF SV_ExecuteClientMessage
  <2>2. Fine(a)
    BY AcknowledgedFine
  <2> HIDE DEF a
  <2>3. Fine(AfterCommands(a, m.commands))
    BY <1>1, <2>2, CommandsFine
  <2>4. QED
    BY <2>1, <2>3, LateFine
<1>5. QED
  BY <1>2, <1>3, <1>4

-----------------------------------------------------------------------------
\* What is on the way.

\* What is left of t without its first i members.
RestOf(S, t, i, s) ==
    /\ s \in Seq(S) /\ Len(s) = Len(t) - i /\ DOMAIN s = 1..(Len(t) - i)
    /\ \A k \in DOMAIN s : s[k] = t[k + i] /\ k + i \in DOMAIN t
    /\ Members(s) \subseteq Members(t)

LEMMA Overtaken ==
    ASSUME NEW S, NEW t \in Seq(S), NEW i \in 1..Len(t), NEW s, s = SubSeq(t, i + 1, Len(t))
    PROVE  RestOf(S, t, i, s)
<1>1. /\ s \in Seq(S) /\ Len(s) = Len(t) - i /\ DOMAIN s = 1..(Len(t) - i)
      /\ \A k \in DOMAIN s : s[k] = t[k + i] /\ k + i \in DOMAIN t
  <2>1. Len(t) \in Nat /\ i + 1 \in 1..(Len(t) + 1) /\ Len(t) \in 0..Len(t)
    OBVIOUS
  <2>2. s \in Seq(S)
    BY SubSeqProperties, <2>1
  <2>3. Len(s) = Len(t) - i
    BY <2>1
  <2>4. \A k \in 1..(Len(t) - i) : s[k] = t[k + i] /\ k + i \in DOMAIN t
    BY <2>1
  <2>5. QED
    BY <2>2, <2>3, <2>4
<1>2. Members(s) \subseteq Members(t)
  BY <1>1 DEF Members
<1>3. QED
  BY <1>1, <1>2 DEF RestOf

\* A message that is read leaves those with higher numbers.
LEMMA Arrived ==
    ASSUME NEW t \in Seq(Datagrams), NEW next, Increasing(t, next), NEW i \in 1..Len(t),
           NEW s, s = SubSeq(t, i + 1, Len(t))
    PROVE  /\ s \in Seq(Datagrams) /\ Increasing(s, next)
           /\ Members(s) \subseteq After(Members(t), t[i].number)
           /\ t[i] \in Members(t) /\ t[i] \in Datagrams /\ t[i].number < next
<1>1. /\ s \in Seq(Datagrams) /\ DOMAIN s = 1..(Len(t) - i) /\ Len(t) \in Nat
      /\ \A k \in DOMAIN s : s[k] = t[k + i] /\ k + i \in DOMAIN t
      /\ Members(s) \subseteq Members(t)
  <2>1. RestOf(Datagrams, t, i, s)
    BY Overtaken
  <2>2. QED
    BY <2>1 DEF RestOf
<1>2. i \in DOMAIN t /\ t[i] \in Datagrams
  OBVIOUS
<1>3. Increasing(s, next)
  <2>1. ASSUME NEW j \in DOMAIN s, NEW k \in DOMAIN s, j < k
        PROVE  s[j].number < s[k].number
    <3>1. j + i < k + i
      BY <1>1, <2>1
    <3>2. QED
      BY <1>1, <3>1 DEF Increasing
  <2>2. \A k \in DOMAIN s : s[k].number < next
    BY <1>1 DEF Increasing
  <2>3. QED
    BY <2>1, <2>2 DEF Increasing
<1>4. \A k \in DOMAIN s : s[k].number > t[i].number
  <2>1. ASSUME NEW k \in DOMAIN s PROVE s[k].number > t[i].number
    <3>1. i < k + i /\ k + i \in DOMAIN t /\ s[k] = t[k + i] /\ t[k + i] \in Datagrams
      BY <1>1
    <3>2. t[i].number < t[k + i].number
      BY <1>2, <3>1 DEF Increasing
    <3>3. QED
      BY <1>2, <3>1, <3>2, MessageFields
  <2>2. QED
    BY <2>1
<1>5. Members(s) \subseteq After(Members(t), t[i].number)
  BY <1>1, <1>4 DEF Members, After
<1>6. QED
  BY <1>1, <1>2, <1>3, <1>5 DEF Members, Increasing

\* A message is posted.
LEMMA Posted ==
    ASSUME NEW S, NEW t \in Seq(S), NEW m \in S
    PROVE  /\ Post(t, m) \in Seq(S)
           /\ Members(Post(t, m)) \subseteq Members(t) \cup {m}
<1>1. CASE Len(t) < MaxInFlight
  <2>1. Post(t, m) = Append(t, m)
    BY <1>1 DEF Post
  <2>2. QED
    BY <2>1 DEF Members
<1>2. CASE ~(Len(t) < MaxInFlight)
  <2>1. Post(t, m) = Append(Tail(t), m) /\ t # <<>>
    BY <1>2, Sizes DEF Post
  <2>2. /\ Tail(t) \in Seq(S) /\ DOMAIN Tail(t) = 1..(Len(t) - 1) /\ Len(t) \in Nat
        /\ \A i \in 1..(Len(t) - 1) : Tail(t)[i] = t[i + 1] /\ i + 1 \in DOMAIN t
    BY <2>1
  <2>3. Members(Tail(t)) \subseteq Members(t)
    BY <2>2 DEF Members
  <2>4. Members(Append(Tail(t), m)) \subseteq Members(Tail(t)) \cup {m}
    BY <2>2 DEF Members
  <2>5. QED
    BY <2>1, <2>2, <2>3, <2>4
<1>3. QED
  BY <1>1, <1>2

\* It has the next number.
LEMMA PostedNext ==
    ASSUME NEW t \in Seq(Datagrams), NEW next \in Nat, Increasing(t, next),
           NEW m \in Datagrams, m.number = next
    PROVE  Increasing(Post(t, m), next + 1)
<1>1. ASSUME NEW r \in Seq(Datagrams), Increasing(r, next)
      PROVE  Increasing(Append(r, m), next + 1)
  <2> DEFINE s == Append(r, m)
  <2>1. /\ DOMAIN s = 1..(Len(r) + 1) /\ Len(r) \in Nat /\ DOMAIN r = 1..Len(r)
        /\ \A k \in DOMAIN r : s[k] = r[k] /\ r[k] \in Datagrams
        /\ s[Len(r) + 1] = m
    OBVIOUS
  <2> HIDE DEF s
  <2>2. \A k \in DOMAIN r : s[k].number < next /\ s[k].number \in Nat
    BY <1>1, <2>1, MessageFields DEF Increasing
  <2>3. ASSUME NEW j \in DOMAIN s, NEW k \in DOMAIN s, j < k PROVE s[j].number < s[k].number
    <3>1. j \in DOMAIN r
      BY <2>1, <2>3
    <3>2. CASE k \in DOMAIN r
      BY <1>1, <2>1, <2>3, <3>1, <3>2 DEF Increasing
    <3>3. CASE k = Len(r) + 1
      BY <2>1, <2>2, <3>1, <3>3
    <3>4. QED
      BY <2>1, <3>2, <3>3
  <2>4. \A k \in DOMAIN s : s[k].number < next + 1
    BY <2>1, <2>2
  <2>5. QED
    BY <2>3, <2>4 DEF Increasing, s
<1>2. CASE Len(t) < MaxInFlight
  BY <1>1, <1>2 DEF Post
<1>3. CASE ~(Len(t) < MaxInFlight)
  <2>1. Post(t, m) = Append(Tail(t), m) /\ t # <<>>
    BY <1>3, Sizes DEF Post
  <2>2. /\ Tail(t) \in Seq(Datagrams) /\ DOMAIN Tail(t) = 1..(Len(t) - 1) /\ Len(t) \in Nat
        /\ \A i \in 1..(Len(t) - 1) : Tail(t)[i] = t[i + 1] /\ i + 1 \in DOMAIN t
    BY <2>1
  <2>3. Increasing(Tail(t), next)
    <3>1. ASSUME NEW j \in DOMAIN Tail(t), NEW k \in DOMAIN Tail(t), j < k
          PROVE  Tail(t)[j].number < Tail(t)[k].number
      <4>1. j + 1 < k + 1
        BY <2>2, <3>1
      <4>2. QED
        BY <2>2, <4>1 DEF Increasing
    <3>2. QED
      BY <2>2, <3>1 DEF Increasing
  <2>4. QED
    BY <1>1, <2>1, <2>2, <2>3
<1>4. QED
  BY <1>2, <1>3

\* What waits has the next numbers.
LEMMA WaitingNumbers ==
    ASSUME NEW c \in Servers, NEW y \in Waiting(c)
    PROVE  y.number >= c.outgoingSequence
<1>1. PICK i \in DOMAIN c.line : y = Numbered(c.line[i], c.outgoingSequence - 1 + i)
  BY DEF Waiting
<1>2. y.number = c.outgoingSequence - 1 + i
  BY <1>1 DEF Numbered
<1>3. c.line \in Seq(ServerMessages) /\ c.outgoingSequence \in Nat
  BY DEF Servers
<1>4. i \in Nat /\ i >= 1
  BY <1>3
<1>5. QED
  BY <1>2, <1>3, <1>4

\* The head of the line leaves.
LEMMA WaitingTail ==
    ASSUME NEW c \in Servers, c.line # <<>>, NEW e, e.line = Tail(c.line),
           e.outgoingSequence = c.outgoingSequence + 1
    PROVE  /\ Waiting(e) \subseteq Waiting(c)
           /\ Numbered(Head(c.line), c.outgoingSequence) \in Waiting(c)
           /\ Head(c.line) \in ServerMessages
           /\ Numbers(e) = Numbers(c) /\ e.line \in Seq(ServerMessages)
<1>1. c.line \in Seq(ServerMessages) /\ c.outgoingSequence \in Nat
  BY DEF Servers
<1>2. /\ DOMAIN e.line = 1..(Len(c.line) - 1) /\ Len(c.line) \in Nat /\ 1 \in DOMAIN c.line
      /\ \A i \in 1..(Len(c.line) - 1) : e.line[i] = c.line[i + 1] /\ i + 1 \in DOMAIN c.line
      /\ Head(c.line) = c.line[1] /\ c.line[1] \in ServerMessages
      /\ Len(e.line) = Len(c.line) - 1 /\ e.line \in Seq(ServerMessages)
  BY <1>1
<1>3. ASSUME NEW i \in DOMAIN e.line
      PROVE  Numbered(e.line[i], e.outgoingSequence - 1 + i) \in Waiting(c)
  <2>1. e.outgoingSequence - 1 + i = c.outgoingSequence - 1 + (i + 1)
    BY <1>1, <1>2
  <2>2. e.line[i] = c.line[i + 1] /\ i + 1 \in DOMAIN c.line
    BY <1>2
  <2>3. QED
    BY <2>1, <2>2 DEF Waiting
<1>4. Waiting(e) \subseteq Waiting(c)
  BY <1>3 DEF Waiting
<1>5. Numbered(Head(c.line), c.outgoingSequence) \in Waiting(c)
  <2>1. c.outgoingSequence - 1 + 1 = c.outgoingSequence
    BY <1>1
  <2>2. QED
    BY <1>2, <2>1 DEF Waiting
<1>6. Numbers(e) = Numbers(c)
  <2>1. Len(e.line) = Len(c.line) - 1 /\ Len(c.line) \in Nat /\ c.outgoingSequence \in Nat
    BY <1>1, <1>2
  <2>2. QED
    BY <2>1 DEF Numbers
<1>7. QED
  BY <1>2, <1>4, <1>5, <1>6

-----------------------------------------------------------------------------
\* Each step, as a relation between the state before and the values after.

LEMMA Parts ==
    ASSUME IInv
    PROVE  /\ sv \in Levels /\ client \in Servers /\ cl \in Clients
           /\ toClient \in Seq(Datagrams) /\ toServer \in Seq(Packets)
           /\ Increasing(toClient, client.outgoingSequence)
           /\ Numbers(client) <= MaxMessages
           /\ Right(sv, client, cl, Coming(toClient, client), Members(toServer))
           /\ client.outgoingSequence \in Nat /\ client.line \in Seq(ServerMessages)
           /\ cl.commands \in Seq(Commands) /\ Len(cl.commands) \in Nat
<1>1. /\ sv \in Levels /\ client \in Servers /\ cl \in Clients
  BY DEF IInv, Whole, Right
<1>2. /\ client.outgoingSequence \in Nat /\ client.line \in Seq(ServerMessages)
      /\ cl.commands \in Seq(Commands)
  BY <1>1 DEF Servers, Clients
<1>3. QED
  BY <1>1, <1>2 DEF IInv, Whole

\* SV_PacketEvent.
LEMMA PacketStep ==
    ASSUME IInv, NEW i \in 1..Len(toServer),
           NEW u, u = SubSeq(toServer, i + 1, Len(toServer)),
           NEW e \in SV_ExecuteClientMessage(toServer[i]), Numbers(e) <= MaxMessages
    PROVE  Whole(sv, e, cl, toClient, u)
<1>1. Fine(client)
  BY Parts DEF Fine
<1>2. toServer[i] \in Members(toServer)
  BY Parts DEF Members
<1>3. Fine(e)
  BY <1>1, <1>2, PacketFine
<1>4. RestOf(Packets, toServer, i, u)
  BY Parts, Overtaken
<1>5. Right(sv, e, cl, Coming(toClient, e), Members(u))
  BY <1>3, <1>4, FewerRight DEF Fine, RestOf
<1>6. QED
  BY <1>3, <1>4, <1>5, Parts DEF Whole, Fine, RestOf

\* SV_SetConfigstring.
Configures(w, e) ==
    /\ sv.config < MaxChanges
    /\ w = [sv EXCEPT !.config = @ + 1]
    /\ e = IF client.state = "active"
           THEN [client EXCEPT !.commands = Append(@, w.config)]
           ELSE [client EXCEPT !.csUpdated = TRUE]

LEMMA ConfigStep ==
    ASSUME IInv, NEW w, NEW e, Configures(w, e)
    PROVE  Whole(w, e, cl, toClient, toServer)
<1> DEFINE X == Coming(toClient, client)
           R == Members(toServer)
<1>1. /\ w \in Levels /\ w.serverId = sv.serverId /\ w.config = sv.config + 1
      /\ w.config \in 1..MaxChanges
  BY Parts, Sizes, SMTT(30) DEF Levels, Configures
<1>2. /\ client \in Servers /\ Right(sv, client, cl, X, R)
      /\ client.commands \in Seq(1..MaxChanges)
  BY Parts DEF Servers
<1> HIDE DEF X, R
<1>3. CASE client.state = "active"
  <2> DEFINE commands == Append(client.commands, w.config)
  <2>1. commands \in Seq(1..MaxChanges)
    BY <1>1, <1>2
  <2>2. e = [client EXCEPT !.commands = commands]
    BY <1>2, <1>3 DEF Servers, Configures
  <2> HIDE DEF commands
  <2>3. /\ e \in Servers /\ e.commands = commands /\ e.state = "active"
        /\ e.csUpdated = client.csUpdated /\ e.gamestateAck = client.gamestateAck
        /\ e.gamestateMessageNum = client.gamestateMessageNum
        /\ e.outgoingSequence = client.outgoingSequence /\ e.line = client.line
        /\ e.gamestateQueued = client.gamestateQueued
        /\ e.lastClientCommand = client.lastClientCommand
    BY <1>2, <1>3, <2>1, <2>2 DEF Servers
  <2>4. ~client.csUpdated /\ client.gamestateAck = "acked"
    BY <1>2, <1>3 DEF Right, CommandsRight, LevelRight
  <2>5. Right(w, e, cl, X, R)
    <3>1. /\ e.commands = Append(client.commands, w.config) /\ ~e.csUpdated
          /\ e.state = "active" /\ e.gamestateAck = "acked" /\ client.gamestateAck = "acked"
          /\ (client.csUpdated /\ w.config = sv.config) \/ w.config = sv.config + 1
      BY <1>1, <2>3, <2>4 DEF commands
    <3>2. QED
      BY <1>1, <1>2, <2>3, <3>1, AppendedRight
  <2>6. Coming(toClient, e) = X /\ Numbers(e) = Numbers(client)
    BY <2>3 DEF X, Coming, Waiting, Numbers
  <2>7. QED
    BY <2>3, <2>5, <2>6, Parts DEF Whole, R
<1>4. CASE client.state # "active"
  <2>1. /\ e \in Servers /\ e.commands = client.commands /\ e.state = client.state
        /\ e.csUpdated /\ e.gamestateAck = client.gamestateAck
        /\ e.gamestateMessageNum = client.gamestateMessageNum
        /\ e.outgoingSequence = client.outgoingSequence /\ e.line = client.line
        /\ e.gamestateQueued = client.gamestateQueued
        /\ e.lastClientCommand = client.lastClientCommand
    BY <1>2, <1>4 DEF Servers, Configures
  <2>2. Right(w, e, cl, X, R)
    BY <1>1, <1>2, <1>4, <2>1, ChangedRight
  <2>3. Coming(toClient, e) = X /\ Numbers(e) = Numbers(client)
    BY <2>1 DEF X, Coming, Waiting, Numbers
  <2>4. QED
    BY <2>1, <2>2, <2>3, Parts DEF Whole, R
<1>5. QED
  BY <1>3, <1>4

\* SV_SpawnServer.
LEMMA SpawnStep ==
    ASSUME IInv, sv.serverId < MaxLevels, sv.config < MaxChanges,
           NEW w, w = [sv EXCEPT !.serverId = @ + 1, !.config = @ + 1],
           NEW e, e = [client EXCEPT !.state = "connected", !.gamestateAck = "init"]
    PROVE  Whole(w, e, cl, toClient, toServer)
<1> DEFINE X == Coming(toClient, client)
           R == Members(toServer)
<1>1. /\ w \in Levels /\ w.serverId = sv.serverId + 1 /\ w.config = sv.config + 1
  <2>1. sv \in Levels /\ sv.serverId + 1 \in 1..MaxLevels /\ sv.config + 1 \in 1..MaxChanges
    BY Parts, Sizes, SMTT(30) DEF Levels
  <2>2. QED
    BY <2>1 DEF Levels
<1>2. /\ client \in Servers /\ Right(sv, client, cl, X, R)
  BY Parts
<1> HIDE DEF X, R
<1>3. /\ e \in Servers /\ e.commands = client.commands /\ e.state = "connected"
      /\ e.csUpdated = client.csUpdated /\ e.gamestateAck = "init"
      /\ e.gamestateMessageNum = client.gamestateMessageNum
      /\ e.outgoingSequence = client.outgoingSequence /\ e.line = client.line
      /\ e.gamestateQueued = client.gamestateQueued
      /\ e.lastClientCommand = client.lastClientCommand
  BY <1>2 DEF Servers
<1>4. Right(w, e, cl, X, R)
  BY <1>1, <1>2, <1>3, SpawnedRight, ZenonT(40)
<1>5. Coming(toClient, e) = X /\ Numbers(e) = Numbers(client)
  BY <1>3 DEF X, Coming, Waiting, Numbers
<1>6. QED
  BY <1>3, <1>4, <1>5, Parts DEF Whole, R

\* A message that is no gamestate joins the line.
LEMMA QueuedStep ==
    ASSUME IInv, Numbers(client) < MaxMessages, NEW m \in ServerMessages,
           m.kind # "gamestate",
           m.kind # "block" => m.commands = Len(client.commands),
           NEW e, e = [client EXCEPT !.line = Append(@, m)]
    PROVE  Whole(sv, e, cl, toClient, toServer)
<1> DEFINE X == Coming(toClient, client)
           R == Members(toServer)
           x == Numbered(m, Numbers(client) + 1)
           line == Append(client.line, m)
<1>1. /\ client \in Servers /\ Right(sv, client, cl, X, R) /\ client.line \in Seq(ServerMessages)
      /\ client.outgoingSequence \in Nat
  BY Parts
<1>2. line \in Seq(ServerMessages) /\ Len(line) = Len(client.line) + 1 /\ Len(client.line) \in Nat
  BY <1>1
<1>3. e = [client EXCEPT !.line = line]
  BY <1>1 DEF Servers
<1> HIDE DEF X, R, line
<1>4. /\ e \in Servers /\ e.commands = client.commands /\ e.state = client.state
      /\ e.csUpdated = client.csUpdated /\ e.gamestateAck = client.gamestateAck
      /\ e.gamestateMessageNum = client.gamestateMessageNum
      /\ e.outgoingSequence = client.outgoingSequence /\ e.line = line
      /\ e.gamestateQueued = client.gamestateQueued
      /\ e.lastClientCommand = client.lastClientCommand
  BY <1>1, <1>2, <1>3 DEF Servers
<1>5. Numbers(e) = Numbers(client) + 1 /\ Numbers(client) \in Nat
      /\ Numbers(client) >= client.outgoingSequence - 1
  <2>1. Len(e.line) = Len(client.line) + 1
    BY <1>2, <1>4
  <2>2. client.outgoingSequence >= 1
    BY <1>1, Fields DEF Right, ClientRight
  <2>3. QED
    BY <1>1, <1>2, <1>4, <2>1, <2>2 DEF Numbers
<1>6. Right(sv, e, cl, X, R)
  <2>1. e.outgoingSequence >= client.outgoingSequence /\ Numbers(e) >= Numbers(client)
    BY <1>1, <1>4, <1>5
  <2>2. QED
    BY <1>1, <1>4, <2>1, MovedRight, Zenon
<1>7. /\ x \in Datagrams /\ x.number = Numbers(client) + 1 /\ x.message = m
  BY <1>5 DEF Numbered, Datagrams
<1> HIDE DEF x
<1>8. /\ \A y \in X : y.number < x.number
      /\ client.gamestateMessageNum < x.number /\ cl.serverMessageSequence < x.number
  <2>1. \A y \in X : y \in Datagrams /\ y.number <= Numbers(client)
    BY <1>1 DEF Right, MessagesRight
  <2>2. client.gamestateMessageNum <= Numbers(client)
        /\ cl.serverMessageSequence < client.outgoingSequence
    BY <1>1 DEF Right, CommandsRight, ClientRight
  <2>3. \A y \in X : y.number < x.number
    BY <1>5, <1>7, <2>1, MessageFields
  <2>4. QED
    BY <1>1, <1>5, <1>7, <2>2, <2>3, Fields
<1>9. Right(sv, e, cl, X \cup {x}, R)
  <2>1. x.number <= Numbers(e)
    BY <1>5, <1>7
  <2>2. QED
    BY <1>4, <1>6, <1>7, <1>8, <2>1, AddedRight
<1>10. Waiting(e) = Waiting(client) \cup {x}
  BY <1>1, <1>4, WaitingAppended DEF x, line
<1>11. Coming(toClient, e) = X \cup {x}
  BY <1>10 DEF X, Coming
<1>12. Numbers(e) <= MaxMessages
  BY <1>5, Sizes
<1>13. QED
  BY <1>4, <1>9, <1>11, <1>12, Parts DEF Whole, R

\* SV_SendClientSnapshot, in one datagram.
Datagram(m, t, e) ==
    /\ t = Post(toClient, Numbered(m, client.outgoingSequence))
    /\ e = [client EXCEPT !.outgoingSequence = @ + 1]

LEMMA DatagramStep ==
    ASSUME IInv, client.line = <<>>, Numbers(client) < MaxMessages, NEW m \in ServerMessages,
           m.kind = "snapshot", m.commands = Len(client.commands),
           NEW t, NEW e, Datagram(m, t, e)
    PROVE  Whole(sv, e, cl, t, toServer)
<1> DEFINE X == Coming(toClient, client)
           R == Members(toServer)
           x == Numbered(m, client.outgoingSequence)
<1>1. /\ client \in Servers /\ Right(sv, client, cl, X, R) /\ client.line \in Seq(ServerMessages)
      /\ client.outgoingSequence \in Nat /\ toClient \in Seq(Datagrams)
      /\ Increasing(toClient, client.outgoingSequence)
  BY Parts
<1> HIDE DEF X, R
<1>2. /\ e \in Servers /\ e.commands = client.commands /\ e.state = client.state
      /\ e.csUpdated = client.csUpdated /\ e.gamestateAck = client.gamestateAck
      /\ e.gamestateMessageNum = client.gamestateMessageNum
      /\ e.outgoingSequence = client.outgoingSequence + 1 /\ e.line = client.line
      /\ e.gamestateQueued = client.gamestateQueued
      /\ e.lastClientCommand = client.lastClientCommand
  <2> DEFINE next == client.outgoingSequence + 1
  <2>1. next \in Nat
    BY <1>1
  <2>2. e = [client EXCEPT !.outgoingSequence = next]
    BY <1>1 DEF Servers, Datagram
  <2> HIDE DEF next
  <2>3. /\ e \in Servers /\ e.commands = client.commands /\ e.state = client.state
        /\ e.csUpdated = client.csUpdated /\ e.gamestateAck = client.gamestateAck
        /\ e.gamestateMessageNum = client.gamestateMessageNum
        /\ e.outgoingSequence = next /\ e.line = client.line
        /\ e.gamestateQueued = client.gamestateQueued
        /\ e.lastClientCommand = client.lastClientCommand
    BY <1>1, <2>1, <2>2 DEF Servers
  <2>4. QED
    BY <2>3 DEF next
<1>3. /\ Numbers(client) = client.outgoingSequence - 1 /\ Numbers(e) = client.outgoingSequence
      /\ Len(client.line) = 0
  BY <1>1, <1>2 DEF Numbers
<1>4. Right(sv, e, cl, X, R)
  <2>1. e.outgoingSequence >= client.outgoingSequence /\ Numbers(e) >= Numbers(client)
    BY <1>1, <1>2, <1>3
  <2>2. QED
    BY <1>1, <1>2, <2>1, MovedRight, Zenon
<1>5. x \in Datagrams /\ x.number = client.outgoingSequence /\ x.message = m
  BY <1>1 DEF Numbered, Datagrams
<1>6. t = Post(toClient, x)
  BY DEF Datagram
<1> HIDE DEF x
<1>7. /\ \A y \in X : y.number < x.number
      /\ client.gamestateMessageNum < x.number /\ cl.serverMessageSequence < x.number
  <2>1. \A y \in X : y \in Datagrams /\ y.number <= Numbers(client)
    BY <1>1 DEF Right, MessagesRight
  <2>2. client.gamestateMessageNum <= Numbers(client)
        /\ cl.serverMessageSequence < client.outgoingSequence
    BY <1>1 DEF Right, CommandsRight, ClientRight
  <2>3. \A y \in X : y.number < x.number
    BY <1>1, <1>3, <1>5, <2>1, MessageFields
  <2>4. QED
    BY <1>1, <1>3, <1>5, <2>2, <2>3, Fields
<1>8. Right(sv, e, cl, X \cup {x}, R)
  <2>1. x.number <= Numbers(e)
    BY <1>1, <1>3, <1>5
  <2>2. QED
    BY <1>2, <1>4, <1>5, <1>7, <2>1, AddedRight
<1>9. Waiting(e) = {} /\ Waiting(client) = {}
  BY <1>2 DEF Waiting
<1>10. t \in Seq(Datagrams) /\ Members(t) \subseteq Members(toClient) \cup {x}
  BY <1>1, <1>5, <1>6, Posted
<1>11. Increasing(t, e.outgoingSequence)
  BY <1>1, <1>2, <1>5, <1>6, PostedNext
<1>12. Coming(t, e) \subseteq X \cup {x}
  BY <1>9, <1>10 DEF X, Coming
<1>13. Right(sv, e, cl, Coming(t, e), R)
  BY <1>8, <1>12, FewerRight
<1>14. Numbers(e) <= MaxMessages
  BY <1>1, <1>3, Sizes
<1>15. QED
  BY <1>2, <1>10, <1>11, <1>13, <1>14, Parts DEF Whole, R

\* SV_Netchan_TransmitNextFragment.
Transmits(t, e) ==
    /\ t = Post(toClient, Numbered(Head(client.line), client.outgoingSequence))
    /\ e = [client EXCEPT !.line = Tail(@), !.outgoingSequence = @ + 1]

LEMMA TransmitStep ==
    ASSUME IInv, client.line # <<>>, NEW t, NEW e, Transmits(t, e)
    PROVE  Whole(sv, e, cl, t, toServer)
<1> DEFINE X == Coming(toClient, client)
           R == Members(toServer)
           x == Numbered(Head(client.line), client.outgoingSequence)
           line == Tail(client.line)
           next == client.outgoingSequence + 1
<1>1. /\ client \in Servers /\ Right(sv, client, cl, X, R) /\ client.line \in Seq(ServerMessages)
      /\ client.outgoingSequence \in Nat /\ toClient \in Seq(Datagrams)
      /\ Increasing(toClient, client.outgoingSequence) /\ Numbers(client) <= MaxMessages
  BY Parts
<1>2. line \in Seq(ServerMessages) /\ next \in Nat
  BY <1>1
<1>3. e = [client EXCEPT !.line = line, !.outgoingSequence = next]
  BY <1>1 DEF Servers, Transmits
<1> HIDE DEF X, R, line, next
<1>4. /\ e \in Servers /\ e.commands = client.commands /\ e.state = client.state
      /\ e.csUpdated = client.csUpdated /\ e.gamestateAck = client.gamestateAck
      /\ e.gamestateMessageNum = client.gamestateMessageNum
      /\ e.outgoingSequence = client.outgoingSequence + 1 /\ e.line = line
      /\ e.gamestateQueued = client.gamestateQueued
      /\ e.lastClientCommand = client.lastClientCommand
  <2>1. /\ e \in Servers /\ e.commands = client.commands /\ e.state = client.state
        /\ e.csUpdated = client.csUpdated /\ e.gamestateAck = client.gamestateAck
        /\ e.gamestateMessageNum = client.gamestateMessageNum
        /\ e.outgoingSequence = next /\ e.line = line
        /\ e.gamestateQueued = client.gamestateQueued
        /\ e.lastClientCommand = client.lastClientCommand
    BY <1>1, <1>2, <1>3 DEF Servers
  <2>2. QED
    BY <2>1 DEF next
<1>5. /\ Waiting(e) \subseteq Waiting(client) /\ x \in Waiting(client)
      /\ Head(client.line) \in ServerMessages /\ Numbers(e) = Numbers(client)
  BY <1>1, <1>4, WaitingTail DEF line
<1>6. Right(sv, e, cl, X, R)
  <2>1. e.outgoingSequence >= client.outgoingSequence /\ Numbers(e) >= Numbers(client)
    BY <1>1, <1>4, <1>5, Fields
  <2>2. QED
    BY <1>1, <1>4, <2>1, MovedRight, Zenon
<1>7. x \in Datagrams /\ x.number = client.outgoingSequence
  BY <1>1, <1>5 DEF Numbered, Datagrams
<1>8. t = Post(toClient, x)
  BY DEF Transmits
<1> HIDE DEF x
<1>9. t \in Seq(Datagrams) /\ Members(t) \subseteq Members(toClient) \cup {x}
  BY <1>1, <1>7, <1>8, Posted
<1>10. Increasing(t, e.outgoingSequence)
  BY <1>1, <1>4, <1>7, <1>8, PostedNext
<1>11. Coming(t, e) \subseteq X
  BY <1>5, <1>9 DEF X, Coming
<1>12. Right(sv, e, cl, Coming(t, e), R)
  BY <1>6, <1>11, FewerRight
<1>13. QED
  BY <1>1, <1>4, <1>5, <1>9, <1>10, <1>12, Parts DEF Whole, R

\* What comes after a message that has arrived.
LEMMA ComingAfter ==
    ASSUME IInv, NEW i \in 1..Len(toClient),
           NEW t, t = SubSeq(toClient, i + 1, Len(toClient))
    PROVE  /\ t \in Seq(Datagrams) /\ Increasing(t, client.outgoingSequence)
           /\ Coming(t, client) \subseteq After(Coming(toClient, client), toClient[i].number)
           /\ toClient[i] \in Coming(toClient, client) /\ toClient[i] \in Datagrams
           /\ toClient[i].number < client.outgoingSequence
<1>1. /\ t \in Seq(Datagrams) /\ Increasing(t, client.outgoingSequence)
      /\ Members(t) \subseteq After(Members(toClient), toClient[i].number)
      /\ toClient[i] \in Members(toClient) /\ toClient[i] \in Datagrams
      /\ toClient[i].number < client.outgoingSequence
  BY Parts, Arrived
<1>2. ASSUME NEW y \in Waiting(client) PROVE y.number > toClient[i].number
  <2>1. y.number >= client.outgoingSequence
    BY Parts, WaitingNumbers
  <2>2. y \in Datagrams
    BY Parts DEF Right, Coming
  <2>3. QED
    BY <1>1, <2>1, <2>2, Parts, MessageFields
<1>3. QED
  BY <1>1, <1>2 DEF Coming, After

\* The client's counter of messages.
Reading(x) == [cl EXCEPT !.serverMessageSequence = x.number]

LEMMA ReadingFields ==
    ASSUME IInv, NEW x \in Datagrams
    PROVE  /\ Reading(x) \in Clients /\ Reading(x).serverMessageSequence = x.number
           /\ Reading(x).serverId = cl.serverId /\ Reading(x).config = cl.config
           /\ Reading(x).executed = cl.executed /\ Reading(x).received = cl.received
           /\ Reading(x).commands = cl.commands /\ Reading(x).state = cl.state
           /\ Reading(x).missingFile = cl.missingFile
<1>1. cl \in Clients /\ x.number \in Nat
  BY Parts, MessageFields
<1>2. QED
  BY <1>1 DEF Reading, Clients

\* A command joins those of the client.
LEMMA Longer ==
    ASSUME NEW s \in Seq(Commands), NEW m \in Commands
    PROVE  /\ Append(s, m) \in Seq(Commands) /\ Len(Append(s, m)) = Len(s) + 1
           /\ Len(s) \in Nat /\ Len(Append(s, m)) >= Len(s)
OBVIOUS

LEMMA DownloadCommands ==
    Command("download", 0) \in Commands /\ Command("donedl", 0) \in Commands
BY Sizes DEF Command, Commands

\* CL_ParseGamestate.
LEMMA GamestateStep ==
    ASSUME IInv, NEW i \in 1..Len(toClient),
           NEW t, t = SubSeq(toClient, i + 1, Len(toClient)),
           toClient[i].message.kind = "gamestate",
           NEW e, e = CL_ParseGamestate(Reading(toClient[i]), toClient[i].message)
    PROVE  Whole(sv, client, e, t, toServer) /\ e.config >= cl.config
<1> DEFINE x == toClient[i]
           c == Reading(x)
           g == GamestateRead(c, x.message)
<1>1. /\ t \in Seq(Datagrams) /\ Increasing(t, client.outgoingSequence)
      /\ Coming(t, client) \subseteq After(Coming(toClient, client), x.number)
      /\ x \in Coming(toClient, client) /\ x \in Datagrams
      /\ x.number < client.outgoingSequence
  BY ComingAfter
<1>2. IsGamestate(x)
  BY DEF IsGamestate
<1>3. e = CL_InitDownloads(g)
  BY DEF CL_ParseGamestate
<1> HIDE DEF x
<1>4. /\ c \in Clients /\ c.serverMessageSequence = x.number /\ c.commands = cl.commands
      /\ cl.commands \in Seq(Commands) /\ Len(cl.commands) \in Nat
  BY <1>1, ReadingFields, Parts
<1> HIDE DEF c
<1>5. /\ x.message.serverId \in Nat /\ x.message.config \in Nat /\ x.message.commands \in Nat
  BY <1>1, MessageFields
<1>6. /\ g \in Clients /\ g.serverMessageSequence = x.number /\ g.commands = cl.commands
      /\ g.serverId = x.message.serverId /\ g.config = x.message.config
      /\ g.received = x.message.commands /\ g.executed = x.message.commands
  BY <1>4, <1>5 DEF GamestateRead, Clients
<1> HIDE DEF g
<1>7. /\ e \in Clients /\ e.serverMessageSequence = x.number
      /\ e.serverId = x.message.serverId /\ e.config = x.message.config
      /\ e.received = x.message.commands /\ e.executed = x.message.commands
      /\ Len(e.commands) >= Len(cl.commands)
  <2>1. CASE g.missingFile
    <3> DEFINE commands == Append(cl.commands, Command("download", 0))
    <3>1. commands \in Seq(Commands) /\ Len(commands) >= Len(cl.commands)
      BY <1>4, Longer, DownloadCommands
    <3>2. e = [g EXCEPT !.state = "downloading", !.commands = commands]
      BY <1>3, <1>6, <2>1 DEF CL_InitDownloads, Clients
    <3> HIDE DEF commands
    <3>3. /\ e \in Clients /\ e.serverMessageSequence = x.number
          /\ e.serverId = x.message.serverId /\ e.config = x.message.config
          /\ e.received = x.message.commands /\ e.executed = x.message.commands
          /\ e.commands = commands
      BY <1>6, <3>1, <3>2 DEF Clients
    <3>4. QED
      BY <3>1, <3>3, Zenon
  <2>2. CASE ~g.missingFile
    <3>1. e = [g EXCEPT !.state = "loading"]
      BY <1>3, <2>2 DEF CL_InitDownloads
    <3>2. /\ e \in Clients /\ e.serverMessageSequence = x.number
          /\ e.serverId = x.message.serverId /\ e.config = x.message.config
          /\ e.received = x.message.commands /\ e.executed = x.message.commands
          /\ e.commands = cl.commands
      BY <1>6, <3>1 DEF Clients
    <3>3. Len(cl.commands) >= Len(cl.commands)
      BY <1>4
    <3>4. QED
      BY <3>2, <3>3, Zenon
  <2>3. QED
    BY <2>1, <2>2, Zenon
<1>8. Right(sv, client, e, After(Coming(toClient, client), x.number), Members(toServer))
  BY <1>1, <1>2, <1>7, Parts, GamestateReadRight, Zenon
<1>9. Right(sv, client, e, Coming(t, client), Members(toServer))
  BY <1>1, <1>8, FewerRight, Zenon
<1>10. e.config >= cl.config
  <2>1. cl.config <= x.message.config
    BY <1>1, <1>2, Parts DEF Right, MessagesRight, Newer
  <2>2. cl.config \in Nat
    BY Parts DEF Clients
  <2>3. QED
    BY <1>5, <1>7, <2>1, <2>2
<1>11. QED
  BY <1>1, <1>9, <1>10, Parts DEF Whole

\* CL_ParseSnapshot.
LEMMA SnapshotStep ==
    ASSUME IInv, NEW i \in 1..Len(toClient),
           NEW t, t = SubSeq(toClient, i + 1, Len(toClient)),
           toClient[i].message.kind = "snapshot",
           NEW e, e = CL_ParseSnapshot(Reading(toClient[i]), toClient[i].message)
    PROVE  Whole(sv, client, e, t, toServer) /\ e.config = cl.config
<1> DEFINE x == toClient[i]
           c == Reading(x)
           received == IF x.message.commands > c.received THEN x.message.commands ELSE c.received
           state == IF c.state = "primed" /\ x.message.active THEN "active" ELSE c.state
<1>1. /\ t \in Seq(Datagrams) /\ Increasing(t, client.outgoingSequence)
      /\ Coming(t, client) \subseteq After(Coming(toClient, client), x.number)
      /\ x \in Coming(toClient, client) /\ x \in Datagrams
      /\ x.number < client.outgoingSequence
  BY ComingAfter
<1>2. ~IsGamestate(x) /\ x.message.kind # "block"
  BY DEF IsGamestate
<1>3. e = CL_ParseSnapshot(c, x.message)
  OBVIOUS
<1> HIDE DEF x
<1>4. /\ c \in Clients /\ c.serverMessageSequence = x.number /\ c.commands = cl.commands
      /\ c.serverId = cl.serverId /\ c.config = cl.config
      /\ c.executed = cl.executed /\ c.received = cl.received
      /\ cl.commands \in Seq(Commands) /\ Len(cl.commands) \in Nat
  BY <1>1, ReadingFields, Parts
<1> HIDE DEF c
<1>5. /\ x.message.commands \in Nat /\ cl.received \in Nat
  BY <1>1, MessageFields, Parts DEF Clients
<1>6. /\ received \in Nat /\ received >= cl.received
      /\ received = cl.received \/ received = x.message.commands
  BY <1>4, <1>5
<1>7. state \in {"connected", "downloading", "loading", "primed", "active"}
  BY <1>4 DEF Clients
<1>8. e = [c EXCEPT !.received = received, !.state = state]
  BY <1>3, <1>4 DEF CL_ParseSnapshot, Clients
<1> HIDE DEF received, state
<1>9. /\ e \in Clients /\ e.serverMessageSequence = x.number /\ e.commands = cl.commands
      /\ e.serverId = cl.serverId /\ e.config = cl.config
      /\ e.executed = cl.executed /\ e.received = received
  BY <1>4, <1>6, <1>7, <1>8 DEF Clients
<1>10. Len(e.commands) >= Len(cl.commands)
  BY <1>4, <1>9
<1>11. \/ e.received = cl.received
       \/ /\ e.received = x.message.commands /\ e.received >= cl.received
          /\ x.message.kind # "block"
  BY <1>2, <1>6, <1>9
<1>12. Right(sv, client, e, After(Coming(toClient, client), x.number), Members(toServer))
  BY <1>1, <1>2, <1>9, <1>10, <1>11, Parts, OtherReadRight, Zenon
<1>13. Right(sv, client, e, Coming(t, client), Members(toServer))
  BY <1>1, <1>12, FewerRight, Zenon
<1>14. QED
  BY <1>1, <1>9, <1>13, Parts DEF Whole

\* Packets as the client writes them.
LEMMA PacketOf ==
    ASSUME NEW c \in Clients, NEW move \in BOOLEAN
    PROVE  /\ Packet(c, move) \in Packets /\ Packet(c, move).serverId = c.serverId
           /\ Packet(c, move).messageAcknowledge = c.serverMessageSequence
           /\ Packet(c, move).commands = Len(c.commands)
<1>1. c.commands \in Seq(Commands) /\ c.serverId \in Nat /\ c.serverMessageSequence \in Nat
  BY DEF Clients
<1>2. Len(c.commands) \in Nat
  BY <1>1
<1>3. QED
  BY <1>1, <1>2 DEF Packet, Packets

\* The end of CL_ParseDownload.
Completes(c, e, u) ==
    IF c.state = "downloading"
    THEN /\ e = [c EXCEPT !.state = "connected", !.missingFile = FALSE,
                          !.commands = Append(@, Command("donedl", 0))]
         /\ u = Post(toServer, Packet(c, FALSE))
    ELSE e = c /\ u = toServer

LEMMA CompletedFields ==
    ASSUME NEW c \in Clients, NEW e, NEW u, Completes(c, e, u)
    PROVE  /\ e \in Clients /\ e.serverMessageSequence = c.serverMessageSequence
           /\ e.serverId = c.serverId /\ e.config = c.config
           /\ e.executed = c.executed /\ e.received = c.received
           /\ Len(c.commands) \in Nat /\ Len(e.commands) >= Len(c.commands)
<1>1. c.commands \in Seq(Commands) /\ Len(c.commands) \in Nat
  BY DEF Clients
<1>2. CASE c.state = "downloading"
  <2> DEFINE commands == Append(c.commands, Command("donedl", 0))
  <2>1. commands \in Seq(Commands) /\ Len(commands) >= Len(c.commands)
    BY <1>1, Longer, DownloadCommands
  <2>2. e = [c EXCEPT !.state = "connected", !.missingFile = FALSE, !.commands = commands]
    BY <1>1, <1>2 DEF Completes, Clients
  <2> HIDE DEF commands
  <2>3. /\ e \in Clients /\ e.serverMessageSequence = c.serverMessageSequence
        /\ e.serverId = c.serverId /\ e.config = c.config
        /\ e.executed = c.executed /\ e.received = c.received
        /\ e.commands = commands
    BY <2>1, <2>2 DEF Clients
  <2>4. QED
    BY <1>1, <2>1, <2>3, Zenon
<1>3. CASE c.state # "downloading"
  BY <1>1, <1>3 DEF Completes
<1>4. QED
  BY <1>2, <1>3

\* CL_ParseDownload.
LEMMA BlockStep ==
    ASSUME IInv, NEW i \in 1..Len(toClient),
           NEW t, t = SubSeq(toClient, i + 1, Len(toClient)),
           toClient[i].message.kind = "block",
           NEW e, NEW u, Completes(Reading(toClient[i]), e, u)
    PROVE  Whole(sv, client, e, t, u) /\ e.config = cl.config
<1> DEFINE x == toClient[i]
           c == Reading(x)
           p == Packet(c, FALSE)
           R == Members(toServer)
<1>1. /\ t \in Seq(Datagrams) /\ Increasing(t, client.outgoingSequence)
      /\ Coming(t, client) \subseteq After(Coming(toClient, client), x.number)
      /\ x \in Coming(toClient, client) /\ x \in Datagrams
      /\ x.number < client.outgoingSequence
  BY ComingAfter
<1>2. ~IsGamestate(x)
  BY DEF IsGamestate
<1>3. Completes(c, e, u)
  OBVIOUS
<1> HIDE DEF x
<1>4. /\ c \in Clients /\ c.serverMessageSequence = x.number /\ c.commands = cl.commands
      /\ c.serverId = cl.serverId /\ c.config = cl.config
      /\ c.executed = cl.executed /\ c.received = cl.received
  BY <1>1, ReadingFields
<1> HIDE DEF c
<1>5. /\ e \in Clients /\ e.serverMessageSequence = c.serverMessageSequence
      /\ e.serverId = c.serverId /\ e.config = c.config
      /\ e.executed = c.executed /\ e.received = c.received
      /\ Len(c.commands) \in Nat /\ Len(e.commands) >= Len(c.commands)
  BY <1>3, <1>4, CompletedFields, Zenon
<1>6. Right(sv, client, e, Coming(t, client), R)
  <2>1. /\ e.serverMessageSequence = x.number /\ e.serverId = cl.serverId
        /\ e.config = cl.config /\ e.executed = cl.executed /\ e.received = cl.received
        /\ Len(e.commands) >= Len(cl.commands)
    BY <1>4, <1>5, Zenon
  <2>2. Right(sv, client, cl, Coming(toClient, client), R)
    BY Parts
  <2>3. Right(sv, client, e, After(Coming(toClient, client), x.number), R)
    BY <1>1, <1>2, <1>5, <2>1, <2>2, OtherReadRight, Zenon
  <2>4. QED
    BY <1>1, <2>3, FewerRight, Zenon
<1>7. u \in Seq(Packets) /\ Right(sv, client, e, Coming(t, client), Members(u))
  <2>1. CASE c.state # "downloading"
    BY <1>3, <1>6, <2>1, Parts DEF Completes, R
  <2>2. CASE c.state = "downloading"
    <3>1. /\ p \in Packets /\ p.serverId = e.serverId
          /\ p.messageAcknowledge = e.serverMessageSequence /\ p.commands = Len(c.commands)
      BY <1>4, <1>5, PacketOf
    <3>2. u = Post(toServer, p)
      BY <1>3, <2>2 DEF Completes
    <3> HIDE DEF p
    <3>3. p.commands <= Len(e.commands) /\ Len(e.commands) >= Len(e.commands)
      <4>1. e.commands \in Seq(Commands)
        BY <1>5 DEF Clients
      <4>2. Len(e.commands) \in Nat
        BY <4>1
      <4>3. QED
        BY <1>5, <3>1, <4>2
    <3>4. Right(sv, client, e, Coming(t, client), R \cup {p})
      BY <1>5, <1>6, <3>1, <3>3, ToldRight, Zenon
    <3>5. u \in Seq(Packets) /\ Members(u) \subseteq R \cup {p}
      BY <3>1, <3>2, Parts, Posted DEF R
    <3>6. QED
      BY <3>4, <3>5, FewerRight, Zenon
  <2>3. QED
    BY <2>1, <2>2
<1>8. QED
  BY <1>1, <1>4, <1>5, <1>7, Parts DEF Whole

\* The client sends a packet about its state e, in which it may have a command
\* more.
LEMMA ToldStep ==
    ASSUME IInv, NEW e \in Clients, e.executed = cl.executed, e.config = cl.config,
           e.received = cl.received, e.serverId = cl.serverId,
           Len(e.commands) >= Len(cl.commands),
           e.serverMessageSequence = cl.serverMessageSequence,
           NEW move \in BOOLEAN, NEW u, u = Post(toServer, Packet(e, move))
    PROVE  Whole(sv, client, e, toClient, u)
<1> DEFINE p == Packet(e, move)
           R == Members(toServer)
<1>1. /\ p \in Packets /\ p.serverId = e.serverId
      /\ p.messageAcknowledge = e.serverMessageSequence /\ p.commands = Len(e.commands)
  BY PacketOf
<1>2. u = Post(toServer, p)
  OBVIOUS
<1> HIDE DEF p
<1>3. p.commands <= Len(e.commands)
  <2>1. e.commands \in Seq(Commands)
    BY DEF Clients
  <2>2. Len(e.commands) \in Nat
    BY <2>1
  <2>3. QED
    BY <1>1, <2>2
<1>4. Right(sv, client, e, Coming(toClient, client), R \cup {p})
  <2>1. Right(sv, client, cl, Coming(toClient, client), R)
    BY Parts
  <2>2. p.serverId = cl.serverId /\ p.messageAcknowledge = cl.serverMessageSequence
    BY <1>1
  <2>3. QED
    BY <1>1, <1>3, <2>1, <2>2, ToldRight, Zenon
<1>5. u \in Seq(Packets) /\ Members(u) \subseteq R \cup {p}
  BY <1>1, <1>2, Parts, Posted DEF R
<1>6. Right(sv, client, e, Coming(toClient, client), Members(u))
  BY <1>4, <1>5, FewerRight, Zenon
<1>7. QED
  BY <1>5, <1>6, Parts DEF Whole

\* CL_InitCGame.
Initialises(e) ==
    e = [cl EXCEPT !.state = "primed",
                   !.commands = IF sv.pure THEN Append(@, Command("cp", cl.serverId)) ELSE @]

LEMMA CGameStep ==
    ASSUME IInv, NEW e, Initialises(e), NEW u, u = Post(toServer, Packet(e, FALSE))
    PROVE  Whole(sv, client, e, toClient, u) /\ e.config = cl.config
<1> DEFINE commands == IF sv.pure THEN Append(cl.commands, Command("cp", cl.serverId))
                       ELSE cl.commands
<1>1. cl \in Clients /\ cl.commands \in Seq(Commands) /\ Len(cl.commands) \in Nat
  BY Parts
<1>2. Command("cp", cl.serverId) \in Commands
  <2>1. cl.serverId \in Nat /\ cl.serverId <= sv.serverId /\ sv.serverId \in 1..MaxLevels
    BY <1>1, Parts DEF Right, ClientRight, Levels, Clients
  <2>2. cl.serverId \in 0..MaxLevels
    BY <2>1, Sizes
  <2>3. QED
    BY <2>2 DEF Command, Commands
<1>3. commands \in Seq(Commands) /\ Len(commands) >= Len(cl.commands)
  BY <1>1, <1>2, Longer
<1>4. e = [cl EXCEPT !.state = "primed", !.commands = commands]
  BY <1>1 DEF Initialises, Clients
<1> HIDE DEF commands
<1>5. /\ e \in Clients /\ e.serverMessageSequence = cl.serverMessageSequence
      /\ e.serverId = cl.serverId /\ e.config = cl.config
      /\ e.executed = cl.executed /\ e.received = cl.received
      /\ e.commands = commands
  BY <1>1, <1>3, <1>4 DEF Clients
<1>6. Len(e.commands) >= Len(cl.commands) /\ FALSE \in BOOLEAN
  BY <1>3, <1>5, Zenon
<1>7. QED
  BY <1>5, <1>6, ToldStep, Zenon

\* CL_GetServerCommand.
Executes(e) ==
    e = [cl EXCEPT !.executed = @ + 1, !.config = client.commands[cl.executed + 1]]

LEMMA CommandStep ==
    ASSUME IInv, cl.executed < cl.received, NEW e, Executes(e)
    PROVE  Whole(sv, client, e, toClient, toServer) /\ e.config >= cl.config
<1> DEFINE next == cl.executed + 1
           config == client.commands[cl.executed + 1]
<1>1. cl \in Clients /\ Right(sv, client, cl, Coming(toClient, client), Members(toServer))
  BY Parts
<1>2. next \in Nat /\ config \in Nat
  <2>1. /\ cl.executed \in Nat /\ cl.received <= Len(client.commands)
        /\ cl.received \in Nat /\ Len(client.commands) \in Nat
        /\ DOMAIN client.commands = 1..Len(client.commands)
        /\ \A k \in DOMAIN client.commands : client.commands[k] \in Nat
    BY <1>1, Fields DEF Right, ClientRight
  <2>2. cl.executed + 1 \in DOMAIN client.commands
    BY <2>1
  <2>3. QED
    BY <2>1, <2>2
<1>3. e = [cl EXCEPT !.executed = next, !.config = config]
  BY <1>1 DEF Executes, Clients
<1> HIDE DEF next, config
<1>4. /\ e \in Clients /\ e.executed = next /\ e.config = config /\ e.received = cl.received
      /\ e.serverId = cl.serverId /\ e.commands = cl.commands
      /\ e.serverMessageSequence = cl.serverMessageSequence
  BY <1>1, <1>2, <1>3 DEF Clients
<1>5. e.executed = cl.executed + 1 /\ e.config = client.commands[cl.executed + 1]
  BY <1>4 DEF next, config
<1>6. /\ Right(sv, client, e, Coming(toClient, client), Members(toServer))
      /\ e.config >= cl.config
  BY <1>1, <1>4, <1>5, ExecutedRight, Zenon
<1>7. QED
  BY <1>4, <1>6, Parts DEF Whole

-----------------------------------------------------------------------------
\* The invariant holds.

LEMMA InitRight == Init => IInv
<1> SUFFICES ASSUME Init PROVE IInv
  OBVIOUS
<1>1. sv \in Levels /\ sv.serverId = 1 /\ sv.config = 1
  BY Sizes DEF Init, Levels
<1>2. /\ client \in Servers /\ client.state = "connected" /\ client.gamestateAck = "init"
      /\ client.gamestateMessageNum = 0 /\ client.csUpdated = FALSE
      /\ client.lastClientCommand = 0 /\ client.commands = <<>>
      /\ client.outgoingSequence = 1 /\ client.line = <<>>
  <2>1. <<>> \in Seq(1..MaxChanges) /\ <<>> \in Seq(ServerMessages)
    OBVIOUS
  <2>2. QED
    BY <2>1 DEF Init, Servers
<1>3. /\ cl \in Clients /\ cl.serverId = 0 /\ cl.config = 0 /\ cl.received = 0
      /\ cl.executed = 0 /\ cl.serverMessageSequence = 0 /\ cl.commands = <<>>
  <2>1. <<>> \in Seq(Commands) /\ 0 \in Nat
    OBVIOUS
  <2>2. cl \in [state : {"connected"}, serverId : {0}, config : {0},
               received : {0}, executed : {0}, serverMessageSequence : {0},
               commands : {<<>>}, missingFile : BOOLEAN]
    BY DEF Init
  <2>3. PICK missing \in BOOLEAN :
            cl = [state |-> "connected", serverId |-> 0, config |-> 0, received |-> 0,
                  executed |-> 0, serverMessageSequence |-> 0, commands |-> <<>>,
                  missingFile |-> missing]
    BY <2>2
  <2>4. QED
    BY <2>1, <2>3 DEF Clients
<1>4. toClient = <<>> /\ toServer = <<>>
  BY DEF Init
<1> DEFINE nothing == <<>>
<1>5. Len(nothing) = 0 /\ DOMAIN nothing = {}
  OBVIOUS
<1> HIDE DEF nothing
<1>6. /\ Coming(toClient, client) = {} /\ Members(toServer) = {}
      /\ Numbers(client) = 0 /\ Len(client.commands) = 0 /\ Len(cl.commands) = 0
  BY <1>2, <1>3, <1>4, <1>5 DEF Coming, Waiting, Members, Numbers, nothing
<1>7. CommandsRight(sv, client) /\ ClientRight(sv, client, cl)
  BY <1>1, <1>2, <1>3, <1>5, <1>6 DEF CommandsRight, ClientRight, Version, nothing
<1>8. /\ MessagesRight(sv, client, cl, {}) /\ PacketsRight(cl, {})
      /\ LevelRight(sv, client, cl, {})
  BY <1>1, <1>2, <1>3 DEF MessagesRight, PacketsRight, LevelRight
<1>9. ConfigRight(sv, client, cl, {}, {})
  BY <1>1, <1>2, <1>3 DEF ConfigRight, LastRight, AckRight, Reported
<1>10. Right(sv, client, cl, {}, {})
  BY <1>1, <1>2, <1>3, <1>7, <1>8, <1>9 DEF Right
<1>11. /\ toClient \in Seq(Datagrams) /\ toServer \in Seq(Packets)
       /\ Increasing(toClient, client.outgoingSequence) /\ Numbers(client) <= MaxMessages
  BY <1>4, <1>6, Sizes DEF Increasing
<1>12. QED
  BY <1>6, <1>10, <1>11 DEF IInv, Whole

\* One step of the system, and what it does to the client's configstrings.
LEMMA ServerStep ==
    ASSUME IInv,
           \/ \E i \in 1..Len(toServer) : SV_PacketEvent(i)
           \/ SV_SetConfigstring \/ SV_SpawnServer \/ SV_SendClientSnapshot
           \/ SV_WriteDownloadToClient \/ SV_Netchan_TransmitNextFragment
    PROVE  IInv' /\ UNCHANGED cl
<1>1. CASE \E i \in 1..Len(toServer) : SV_PacketEvent(i)
  <2>1. PICK i \in 1..Len(toServer) : SV_PacketEvent(i)
    BY <1>1
  <2>2. /\ toServer' = SubSeq(toServer, i + 1, Len(toServer))
        /\ client' \in SV_ExecuteClientMessage(toServer[i]) /\ Numbers(client') <= MaxMessages
        /\ UNCHANGED <<sv, cl, toClient>>
    BY <2>1 DEF SV_PacketEvent, ToServer!Overtake
  <2>3. Whole(sv, client', cl, toClient, toServer')
    BY <2>2, PacketStep, Zenon
  <2>4. QED
    BY <2>2, <2>3 DEF IInv
<1>2. CASE SV_SetConfigstring
  <2>1. Configures(sv', client') /\ UNCHANGED <<cl, toClient, toServer>>
    BY <1>2 DEF SV_SetConfigstring, Configures
  <2>2. Whole(sv', client', cl, toClient, toServer)
    BY <2>1, ConfigStep, Zenon
  <2>3. QED
    BY <2>1, <2>2 DEF IInv
<1>3. CASE SV_SpawnServer
  <2>1. /\ sv.serverId < MaxLevels /\ sv.config < MaxChanges
        /\ sv' = [sv EXCEPT !.serverId = @ + 1, !.config = @ + 1]
        /\ client' = [client EXCEPT !.state = "connected", !.gamestateAck = "init"]
        /\ UNCHANGED <<cl, toClient, toServer>>
    BY <1>3, Zenon DEF SV_SpawnServer
  <2>2. Whole(sv', client', cl, toClient, toServer)
    BY <2>1, SpawnStep, Zenon
  <2>3. QED
    BY <2>1, <2>2 DEF IInv
<1>4. CASE SV_SendClientSnapshot
  <2> DEFINE m == ServerMessage("snapshot", 0, 0, Len(client.commands),
                                client.state = "active")
  <2>1. /\ client.line = <<>> /\ Numbers(client) < MaxMessages
        /\ \/ Datagram(m, toClient', client')
           \/ client' = [client EXCEPT !.line = <<m>>] /\ UNCHANGED toClient
        /\ UNCHANGED <<sv, cl, toServer>>
    BY <1>4, Zenon DEF SV_SendClientSnapshot, Datagram
  <2>2. m \in ServerMessages /\ m.kind = "snapshot" /\ m.commands = Len(client.commands)
        /\ m.kind # "gamestate" /\ m.kind # "block"
    <3>1. Len(client.commands) \in Nat
      BY Parts, Fields
    <3>2. QED
      BY <3>1 DEF ServerMessage, ServerMessages
  <2> HIDE DEF m
  <2>3. CASE Datagram(m, toClient', client')
    <3>1. Whole(sv, client', cl, toClient', toServer)
      BY <2>1, <2>2, <2>3, DatagramStep, Zenon
    <3>2. QED
      BY <2>1, <3>1 DEF IInv
  <2>4. CASE client' = [client EXCEPT !.line = <<m>>] /\ UNCHANGED toClient
    <3>1. <<m>> = Append(client.line, m)
      BY <2>1
    <3>2. client' = [client EXCEPT !.line = Append(@, m)]
      BY <2>4, <3>1
    <3>3. Whole(sv, client', cl, toClient, toServer)
      BY <2>1, <2>2, <3>2, QueuedStep, Zenon
    <3>4. QED
      BY <2>1, <2>4, <3>3 DEF IInv
  <2>5. QED
    BY <2>1, <2>3, <2>4
<1>5. CASE SV_WriteDownloadToClient
  <2> DEFINE m == ServerMessage("block", 0, 0, 0, FALSE)
  <2>1. /\ Numbers(client) < MaxMessages
        /\ client' = [client EXCEPT !.line = Append(@, m)]
        /\ UNCHANGED <<sv, cl, toClient, toServer>>
    BY <1>5, Zenon DEF SV_WriteDownloadToClient
  <2>2. m \in ServerMessages /\ m.kind = "block" /\ m.kind # "gamestate"
    BY DEF ServerMessage, ServerMessages
  <2> HIDE DEF m
  <2>3. Whole(sv, client', cl, toClient, toServer)
    BY <2>1, <2>2, QueuedStep, Zenon
  <2>4. QED
    BY <2>1, <2>3 DEF IInv
<1>6. CASE SV_Netchan_TransmitNextFragment
  <2>1. /\ client.line # <<>> /\ Transmits(toClient', client') /\ UNCHANGED <<sv, cl, toServer>>
    BY <1>6, Zenon DEF SV_Netchan_TransmitNextFragment, Transmits
  <2>2. Whole(sv, client', cl, toClient', toServer)
    BY <2>1, TransmitStep, Zenon
  <2>3. QED
    BY <2>1, <2>2 DEF IInv
<1>7. QED
  BY <1>1, <1>2, <1>3, <1>4, <1>5, <1>6

LEMMA ClientStep ==
    ASSUME IInv,
           \/ \E i \in 1..Len(toClient) : CL_PacketEvent(i)
           \/ CL_InitCGame \/ (\E move \in BOOLEAN : CL_WritePacket(move))
           \/ CL_GetServerCommand
    PROVE  IInv' /\ cl'.config >= cl.config
<1>1. cl \in Clients /\ Len(cl.commands) \in Nat /\ cl.config \in Nat
  BY Parts DEF Clients
<1>2. CASE \E i \in 1..Len(toClient) : CL_PacketEvent(i)
  <2>1. PICK i \in 1..Len(toClient) : CL_PacketEvent(i)
    BY <1>2
  <2> DEFINE x == toClient[i]
             rest == SubSeq(toClient, i + 1, Len(toClient))
  <2>2. /\ toClient' = rest /\ UNCHANGED <<sv, client>>
        /\ \/ /\ x.message.kind = "gamestate"
              /\ cl' = CL_ParseGamestate(Reading(x), x.message) /\ UNCHANGED toServer
           \/ /\ x.message.kind = "snapshot"
              /\ cl' = CL_ParseSnapshot(Reading(x), x.message) /\ UNCHANGED toServer
           \/ /\ x.message.kind = "block"
              /\ Completes(Reading(x), cl', toServer')
    BY <2>1 DEF CL_PacketEvent, ToClient!Overtake, CL_ParseDownload, Completes, Reading
  <2>3. CASE /\ x.message.kind = "gamestate"
             /\ cl' = CL_ParseGamestate(Reading(x), x.message) /\ UNCHANGED toServer
    <3>1. Whole(sv, client, cl', toClient', toServer) /\ cl'.config >= cl.config
      BY <2>2, <2>3, GamestateStep, Zenon
    <3>2. QED
      BY <2>2, <2>3, <3>1 DEF IInv
  <2>4. CASE /\ x.message.kind = "snapshot"
             /\ cl' = CL_ParseSnapshot(Reading(x), x.message) /\ UNCHANGED toServer
    <3>1. Whole(sv, client, cl', toClient', toServer) /\ cl'.config = cl.config
      BY <2>2, <2>4, SnapshotStep, Zenon
    <3>2. IInv'
      BY <2>2, <2>4, <3>1 DEF IInv
    <3> HIDE DEF x, rest
    <3>3. QED
      BY <1>1, <3>1, <3>2
  <2>5. CASE x.message.kind = "block" /\ Completes(Reading(x), cl', toServer')
    <3>1. Whole(sv, client, cl', toClient', toServer') /\ cl'.config = cl.config
      BY <2>2, <2>5, BlockStep, Zenon
    <3>2. IInv'
      BY <2>2, <3>1 DEF IInv
    <3> HIDE DEF x, rest
    <3>3. QED
      BY <1>1, <3>1, <3>2
  <2>6. QED
    BY <2>2, <2>3, <2>4, <2>5, Zenon
<1>3. CASE CL_InitCGame
  <2>1. /\ Initialises(cl') /\ toServer' = Post(toServer, Packet(cl', FALSE))
        /\ UNCHANGED <<sv, client, toClient>>
    BY <1>3, Zenon DEF CL_InitCGame, Initialises
  <2>2. Whole(sv, client, cl', toClient, toServer') /\ cl'.config = cl.config
    BY <2>1, CGameStep, Zenon
  <2>3. IInv'
    BY <2>1, <2>2 DEF IInv
  <2>4. QED
    BY <1>1, <2>2, <2>3
<1>4. CASE \E move \in BOOLEAN : CL_WritePacket(move)
  <2>1. PICK move \in BOOLEAN : CL_WritePacket(move)
    BY <1>4
  <2>2. toServer' = Post(toServer, Packet(cl, move)) /\ UNCHANGED <<sv, client, cl, toClient>>
    BY <2>1 DEF CL_WritePacket
  <2>3. Len(cl.commands) >= Len(cl.commands)
    BY <1>1
  <2>4. Whole(sv, client, cl, toClient, toServer')
    BY <1>1, <2>2, <2>3, ToldStep, Zenon
  <2>5. IInv'
    BY <2>2, <2>4 DEF IInv
  <2>6. QED
    BY <1>1, <2>2, <2>5
<1>5. CASE CL_GetServerCommand
  <2>1. /\ cl.executed < cl.received /\ Executes(cl')
        /\ UNCHANGED <<sv, client, toClient, toServer>>
    BY <1>5, Zenon DEF CL_GetServerCommand, Executes
  <2>2. Whole(sv, client, cl', toClient, toServer) /\ cl'.config >= cl.config
    BY <2>1, CommandStep, Zenon
  <2>3. QED
    BY <2>1, <2>2 DEF IInv
<1>6. QED
  BY <1>2, <1>3, <1>4, <1>5

LEMMA NextRight == IInv /\ [Next]_vars => IInv' /\ (cl' # cl => cl'.config >= cl.config)
<1> SUFFICES ASSUME IInv, [Next]_vars
             PROVE  IInv' /\ (cl' # cl => cl'.config >= cl.config)
  OBVIOUS
<1>1. CASE UNCHANGED vars
  BY <1>1 DEF vars, IInv
<1>2. CASE Next
  BY <1>2, ServerStep, ClientStep DEF Next
<1>3. QED
  BY <1>1, <1>2

\* The inductive invariant holds in every reachable state: the server's commands,
\* the gamestates and the packets on their way, and what the client holds fit one
\* another.
THEOREM GamestateInvariant == Spec => []IInv
<1>1. IInv /\ [Next]_vars => IInv'
  BY NextRight
<1>2. QED
  BY <1>1, InitRight, PTL DEF Spec

LEMMA TypesFit == IInv => TypeOK
<1> SUFFICES ASSUME IInv PROVE TypeOK
  OBVIOUS
<1>1. Right(sv, client, cl, Coming(toClient, client), Members(toServer))
  BY Parts
<1>2. /\ sv \in Levels /\ client \in Servers /\ cl \in Clients
      /\ CommandsRight(sv, client) /\ ClientRight(sv, client, cl)
      /\ Numbers(client) <= MaxMessages
  BY <1>1, Parts DEF Right
<1>3. /\ client.gamestateMessageNum \in 0..MaxMessages
      /\ client.outgoingSequence \in 1..(MaxMessages + 1)
      /\ cl.serverMessageSequence < client.outgoingSequence
  <2>1. /\ client.gamestateMessageNum \in Nat /\ client.outgoingSequence \in Nat
        /\ Len(client.line) \in Nat /\ cl.serverMessageSequence \in Nat
        /\ Numbers(client) = client.outgoingSequence - 1 + Len(client.line)
        /\ Numbers(client) \in Int /\ MaxMessages \in Nat
    BY <1>1, Fields, Sizes DEF Numbers
  <2>2. /\ client.gamestateMessageNum <= Numbers(client)
        /\ cl.serverMessageSequence < client.outgoingSequence
    BY <1>2 DEF CommandsRight, ClientRight
  <2>3. QED
    BY <1>2, <2>1, <2>2
<1>4. /\ cl.serverId \in 0..MaxLevels /\ cl.config \in 0..MaxChanges
      /\ cl.received \in 0..Len(client.commands) /\ cl.executed \in 0..cl.received
      /\ client.lastClientCommand \in 0..Len(cl.commands)
  <2>1. sv.serverId <= MaxLevels /\ sv.config <= MaxChanges
    BY <1>2, Sizes DEF Levels
  <2>2. QED
    BY <1>1, <1>2, <2>1, Fields, Sizes DEF ClientRight, Version
<1>5. /\ client.state \in {"connected", "primed", "active"}
      /\ client.gamestateAck \in {"init", "once", "many", "acked"}
      /\ client.csUpdated \in BOOLEAN /\ client.downloading \in BOOLEAN
      /\ client.gotCP \in BOOLEAN
      /\ client.commands \in Seq(1..MaxChanges)
      /\ cl.state \in {"connected", "downloading", "loading", "primed", "active"}
      /\ cl.commands \in Seq(Commands)
  BY <1>2 DEF Servers, Clients
<1>6. QED
  BY <1>2, <1>3, <1>4, <1>5 DEF TypeOK, Levels

\* Every component of the state has its type: of the numbers the two ends keep,
\* none runs ahead of the one it follows.
THEOREM GamestateTypes == Spec => []TypeOK
BY GamestateInvariant, TypesFit, PTL

LEMMA CurrentFollows == IInv => ConfigCurrent
<1> SUFFICES ASSUME IInv, CaughtUp, ~client.gamestateQueued PROVE cl.config = sv.config
  BY DEF ConfigCurrent
<1>1. UpToDate(sv, client, cl)
  BY Parts DEF Right, ConfigRight, CaughtUp
<1>2. QED
  BY <1>1 DEF UpToDate, CaughtUp

\* A client in the world that has executed its commands holds the server's
\* configstrings, whatever changed while gamestates and their acknowledgements
\* were on their way: SV_ClientEnterWorld updates those that changed after the
\* last gamestate, and an acknowledgement counts for that gamestate only.
THEOREM ConfigsCurrent == Spec => []ConfigCurrent
BY GamestateInvariant, CurrentFollows, PTL

LEMMA EnteredFollows == IInv => EnteredForGood
<1> SUFFICES ASSUME IInv, client.state = "active"
             PROVE  /\ cl.serverId = sv.serverId
                    /\ client.gamestateQueued \/ ~GamestateToCome
  BY DEF EnteredForGood
<1> DEFINE X == Coming(toClient, client)
<1>1. Right(sv, client, cl, X, Members(toServer))
  BY Parts
<1> HIDE DEF X
<1>2. client.gamestateAck = "acked" /\ cl.serverId = sv.serverId
  BY <1>1 DEF Right, LevelRight
<1>3. ASSUME ~client.gamestateQueued, NEW x \in X, IsGamestate(x) PROVE FALSE
  <2>1. /\ x.number <= client.gamestateMessageNum
        /\ client.gamestateMessageNum <= cl.serverMessageSequence
        /\ x.number > cl.serverMessageSequence /\ x \in Datagrams
    BY <1>1, <1>2, <1>3 DEF Right, ConfigRight, LastRight, MessagesRight, Newer
  <2>2. QED
    BY <1>1, <2>1, Fields, MessageFields
<1>4. ASSUME NEW i \in DOMAIN toClient, GamestateOfLevel(toClient[i].message)
      PROVE  \E x \in X : IsGamestate(x)
  BY <1>4 DEF X, Coming, Members, GamestateOfLevel, IsGamestate
<1>5. ASSUME NEW i \in DOMAIN client.line, GamestateOfLevel(client.line[i])
      PROVE  \E x \in X : IsGamestate(x)
  <2> DEFINE x == Numbered(client.line[i], client.outgoingSequence - 1 + i)
  <2>1. x \in X
    BY DEF X, Coming, Waiting
  <2>2. IsGamestate(x)
    BY <1>5 DEF GamestateOfLevel, IsGamestate, Numbered
  <2>3. QED
    BY <2>1, <2>2, Zenon
<1>6. GamestateToCome => \E x \in X : IsGamestate(x)
  BY <1>4, <1>5, Zenon DEF GamestateToCome
<1>7. QED
  BY <1>2, <1>3, <1>6, Zenon

\* The server takes no client into a level whose gamestate the client does not
\* have, and no gamestate of the level follows it there (but one that had to
\* queue).
THEOREM EnteredOnce == Spec => []EnteredForGood
BY GamestateInvariant, EnteredFollows, PTL

\* No configstring goes back: CL_ParseGamestate drops the older updates, and
\* the messages are read in the order they were written.
THEOREM ConfigsForward == Spec => ConfigNeverBackwards
<1>1. IInv /\ [Next]_vars => [cl'.config >= cl.config]_cl
  BY NextRight
<1>2. QED
  BY <1>1, GamestateInvariant, PTL DEF Spec, ConfigNeverBackwards
=============================================================================
