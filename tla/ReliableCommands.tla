-------------------------- MODULE ReliableCommands --------------------------
(***************************************************************************)
(* The reliable command streams between the server's client_t and the      *)
(* client's clc, on a connection whose netchans use the retail wire        *)
(* profile (NETCHAN_FEATURE_RELIABLE_XOR).                                 *)
(*                                                                         *)
(* Each side keeps its last MaxReliableCommands commands in a ring,        *)
(* repeats the unacknowledged ones in every message and acknowledges the   *)
(* other side's.  Messages are encoded with the text of the command they   *)
(* acknowledge, which the receiver looks up in its own ring.               *)
(*                                                                         *)
(* The netchan between them is module MessageChannel, which Netchan.tla    *)
(* implements: messages get lost, and do not repeat or change places.      *)
(***************************************************************************)
EXTENDS Integers, Sequences

CONSTANTS MaxReliableCommands,  \* MAX_RELIABLE_COMMANDS: slots of a ring
          MessageCapacity,      \* commands that fit in a message, however long
          MaxServerCommands,    \* bound: commands the game asks for
          MaxClientCommands,    \* bound: commands the player asks for
          MaxInFlight,          \* bound: messages on the way each way
          UserinfoCommands      \* numbers of the player's userinfo commands

ASSUME ReliableAssumption ==
    /\ MaxReliableCommands \in Nat /\ MaxReliableCommands >= 2
    /\ MessageCapacity \in Nat
    /\ MaxServerCommands \in Nat /\ MaxClientCommands \in Nat
    /\ MaxInFlight \in Nat \ {0}
    /\ UserinfoCommands \subseteq Nat

VARIABLES sv,         \* the server's client_t
          cl,         \* the client's clc
          toClient, toServer,             \* messages in flight
          handledByServer,  \* history: what became of every command
          executedByCgame   \* history: texts, as executed

vars == <<sv, cl, toClient, toServer, handledByServer, executedByCgame>>

-----------------------------------------------------------------------------
\* Commands.  A text is told apart by the number it was issued under.

Text(number, disconnect) == [number |-> number, disconnect |-> disconnect]

IsUserinfo(text) == ~text.disconnect /\ text.number \in UserinfoCommands

NoText == Text(0, FALSE)    \* a ring slot never written: the empty string

Slots == 0..(MaxReliableCommands - 1)

Slot(number) == number % MaxReliableCommands

\* The messages' own netchan numbers are Netchan.tla's subject.
ToClient == INSTANCE MessageChannel WITH
    Message <- {}, inFlight <- toClient, delivered <- <<>>
ToServer == INSTANCE MessageChannel WITH
    Message <- {}, inFlight <- toServer, delivered <- <<>>

\* A sender never waits: what exceeds the bound is lost, oldest first.
Post(channel, message) ==
    IF Len(channel) < MaxInFlight
    THEN Append(channel, message)
    ELSE Append(Tail(channel), message)

\* PendingCounterCount.
Pending(side) == side.sequence - side.acknowledge

\* Defective variant: leaves the newest command for the next message.
UnacknowledgedButLast(side) ==
    [k \in 1..(Pending(side) - 1) |-> side.commands[Slot(side.acknowledge + k)]]

\* What SV_UpdateServerCommandsToClient and CL_WritePacket put in a message.
Unacknowledged(side) ==
    [k \in 1..Pending(side) |-> side.commands[Slot(side.acknowledge + k)]]

\* The next command number, and its text in the ring.
Store(side, disconnect) ==
    LET number == side.sequence + 1
    IN  [side EXCEPT !.sequence = number,
                     !.commands[Slot(number)] = Text(number, disconnect)]

-----------------------------------------------------------------------------
\* The server.

Connected(s) == s.state = "active"

\* One more command would be more than MaxReliableCommands unacknowledged.
Overflows(s) == Pending(s) >= MaxReliableCommands

\* "Collapse the reliable window first so the re-entrant add takes the normal
\* path instead of recursing."  The number is used up, the text never stored.
Collapsed(s) ==
    [s EXCEPT !.sequence = @ + 1, !.acknowledge = s.sequence + 1, !.collapsed = TRUE]

\* GAME_CLIENT_DISCONNECT.
GameDisconnected(s) == [s EXCEPT !.gameDisconnects = @ + 1]

\* SV_DropClient of a client whose window has room for the broadcast reason
\* and the disconnect command.
Farewell(s) ==
    [Store(GameDisconnected(Store(s, FALSE)), TRUE) EXCEPT !.state = "zombie"]

AddServerCommand(s, disconnect) ==
    CASE ~Connected(s) -> s
      [] Connected(s) /\ Overflows(s) -> Farewell(Collapsed(s))
      [] OTHER -> Store(s, disconnect)

\* Defective variant: never becomes a zombie by itself.
DroppedInPlace(s) ==
    AddServerCommand(GameDisconnected(AddServerCommand(s, FALSE)), TRUE)

\* SV_DropClient.  The print and the disconnect command may themselves
\* overflow the window, and drop the client before this call does.
Dropped(s) ==
    LET told == GameDisconnected(AddServerCommand(s, FALSE))
    IN  [AddServerCommand(told, TRUE) EXCEPT !.state = "zombie"]

SV_AddServerCommand ==
    /\ Connected(sv)
    /\ sv.sequence < MaxServerCommands
    /\ sv' = AddServerCommand(sv, FALSE)
    /\ UNCHANGED <<cl, toClient, toServer, handledByServer, executedByCgame>>

\* A kick, or SV_CheckTimeouts: at any time, since the network may be silent.
SV_DropClient ==
    /\ Connected(sv)
    /\ sv' = Dropped(sv)
    /\ UNCHANGED <<cl, toClient, toServer, handledByServer, executedByCgame>>

\* SV_CheckTimeouts, sv_zombietime later.
SV_FreeZombie ==
    /\ sv.state = "zombie"
    /\ sv' = [sv EXCEPT !.state = "free"]
    /\ UNCHANGED <<cl, toClient, toServer, handledByServer, executedByCgame>>

\* A zombie still gets snapshots, for the final reliable message's sake.  When
\* the texts are too long together, MSG_Clear empties the message.
SV_SendClientSnapshot ==
    /\ sv.state # "free"
    /\ Pending(sv) <= MaxReliableCommands   \* else Com_Error: invalid window
    /\ \/ toClient' = Post(toClient,
              [cleared  |-> FALSE,
               ack      |-> sv.lastClientCommand,
               key      |-> sv.lastClientCommandString,
               first    |-> sv.acknowledge + 1,
               commands |-> Unacknowledged(sv),
               issued   |-> sv.sequence])
       \/ /\ Pending(sv) > MessageCapacity
          /\ toClient' = Post(toClient, [cleared |-> TRUE])
    /\ UNCHANGED <<sv, cl, toServer, handledByServer, executedByCgame>>

\* SV_ClientCommand for the first n commands of a packet: those executed
\* before are skipped, a gap drops the client.
Gap(m) == m.first > sv.lastClientCommand + 1

LostCommands(m, n) == Gap(m) /\ n > 0

\* Defective variant: executes a repeated command again.
AllOf(m, n) == SubSeq(m.commands, 1, n)

Fresh(m, n) ==
    IF Gap(m)
    THEN <<>>
    ELSE SubSeq(m.commands, sv.lastClientCommand - m.first + 2, n)

\* A userinfo command over the rate of info_rate stops the packet before it;
\* the client sends it again.
StopsAfter(m, n, flooded) ==
    IF flooded
    THEN /\ ~Gap(m)
         /\ n < Len(m.commands) /\ m.first + n > sv.lastClientCommand
         /\ IsUserinfo(m.commands[n + 1])
    ELSE n = Len(m.commands)

\* SV_ExecuteClientCommand.  "ignore any other text messages from this client
\* but let them keep playing": text over the rate of sv_floodProtect never
\* reaches the game, and is a handled command all the same.
Ignorable(fresh) ==
    {k \in DOMAIN fresh : ~fresh[k].disconnect /\ ~IsUserinfo(fresh[k])}

Handled(fresh, ignored) ==
    [k \in DOMAIN fresh |-> [text |-> fresh[k], ignored |-> k \in ignored]]

AfterCommands(s, m, n) ==
    LET fresh == Fresh(m, n)
        last  == fresh[Len(fresh)]
        done  == IF fresh = <<>>
                 THEN s
                 ELSE [s EXCEPT !.lastClientCommand = m.first + n - 1,
                                !.lastClientCommandString = last]
    IN  IF LostCommands(m, n) \/ (fresh # <<>> /\ last.disconnect)
        THEN Dropped(done)     \* "Lost reliable commands"; SV_Disconnect_f
        ELSE done

\* SV_Netchan_Decode looks the key up under the acknowledgement in the packet;
\* SV_UserMove hashes the same command into the key of the usercmds.
DecodedByServer(m) == m.key = sv.commands[Slot(m.ack)]

SV_ExecuteClientMessage(m, flooded) ==
    LET acked == [sv EXCEPT !.acknowledge = m.ack]
    IN  \/ /\ DecodedByServer(m)
           /\ \E n \in 0..Len(m.commands) :
                /\ StopsAfter(m, n, flooded)
                /\ sv' = AfterCommands(acked, m, n)
                /\ \E ignored \in SUBSET Ignorable(Fresh(m, n)) :
                      handledByServer' =
                          handledByServer \o Handled(Fresh(m, n), ignored)
        \* Noise after the header: an unknown command byte or a bogus usercmd,
        \* or a bogus command number.
        \/ /\ ~DecodedByServer(m) /\ ~flooded
           /\ sv' \in {acked, Dropped(acked)}
           /\ UNCHANGED handledByServer

\* A zombie's packets only go through the netchan; once it is free, nothing
\* looks at them.
SV_PacketEvent(i, flooded) ==
    /\ sv.state # "free"
    /\ ToServer!Overtake(i)
    /\ IF Connected(sv)
       THEN SV_ExecuteClientMessage(toServer[i], flooded)
       ELSE ~flooded /\ UNCHANGED <<sv, handledByServer>>
    /\ UNCHANGED <<cl, toClient, executedByCgame>>

-----------------------------------------------------------------------------
\* The client.

\* Defective variant: encodes with the last command executed, not received.
PacketKeyedByExecuted(c) ==
    [ack      |-> c.serverCommandSequence,
     key      |-> c.serverCommands[Slot(c.lastExecutedServerCommand)],
     first    |-> c.acknowledge + 1,
     commands |-> Unacknowledged(c)]

\* CL_WritePacket.
Packet(c) ==
    [ack      |-> c.serverCommandSequence,
     key      |-> c.serverCommands[Slot(c.serverCommandSequence)],
     first    |-> c.acknowledge + 1,
     commands |-> Unacknowledged(c)]

\* CL_Disconnect adds a disconnect command and sends it.  CL_WritePacket takes
\* a window beyond the ring for an error: raised inside CL_Disconnect, it
\* leaves cl_disconnecting set, or is a "recursive error" for Com_Error.
CL_Disconnect(c) ==
    LET leaving == Store(c, TRUE)
    IN  IF Pending(leaving) <= MaxReliableCommands
        THEN /\ cl' = [leaving EXCEPT !.state = "disconnected"]
             /\ toServer' = Post(toServer, Packet(leaving))
        ELSE /\ cl' = [leaving EXCEPT !.state = "failed"]
             /\ UNCHANGED toServer

Com_Error(c) == CL_Disconnect(c)      \* ERR_DROP, ERR_SERVERDISCONNECT

\* CL_AddReliableCommand, for a command of the player or of cgame.
CL_AddReliableCommand ==
    /\ cl.state = "active"
    /\ cl.sequence < MaxClientCommands
    /\ IF Pending(cl) >= MaxReliableCommands
       THEN Com_Error(cl)                 \* "Client command overflow"
       ELSE cl' = Store(cl, FALSE) /\ UNCHANGED toServer
    /\ UNCHANGED <<sv, toClient, handledByServer, executedByCgame>>

CL_WritePacket ==
    /\ cl.state = "active"
    /\ toServer' = Post(toServer, Packet(cl))
    /\ UNCHANGED <<sv, cl, toClient, handledByServer, executedByCgame>>

\* The disconnect console command, or CL_CheckTimeout.
CL_Disconnect_f ==
    /\ cl.state = "active"
    /\ CL_Disconnect(cl)
    /\ UNCHANGED <<sv, toClient, handledByServer, executedByCgame>>

\* CL_ValidateReliableAcknowledge.
Acknowledged(ack) ==
    [cl EXCEPT !.acknowledge = IF cl.sequence - ack > MaxReliableCommands
                               THEN cl.sequence ELSE ack]

\* CL_ParseCommandString for each command of a message: a number already seen
\* is skipped, a gap is not noticed.
CommandsParsed(c, m) ==
    LET last  == m.first + Len(m.commands) - 1
        IsNew(s) == \E n \in (c.serverCommandSequence + 1)..last :
                       n >= m.first /\ Slot(n) = s
        NewIn(s) == CHOOSE n \in m.first..last :
                       n > c.serverCommandSequence /\ Slot(n) = s
    IN  [c EXCEPT
            !.serverCommandSequence = IF last > @ THEN last ELSE @,
            !.serverCommands = [s \in Slots |->
                IF IsNew(s) THEN m.commands[NewIn(s) - m.first + 1] ELSE @[s]]]

\* Defective variant: takes the snapshot to come before the newest command.
SnapshotParsedBehind(c, m) ==
    [c EXCEPT !.snapCommand = IF c.serverCommandSequence > @
                              THEN c.serverCommandSequence - 1 ELSE @,
              !.snapIssued = m.issued]

\* CL_ParseSnapshot: the commands to execute before the snapshot.
SnapshotParsed(c, m) ==
    [c EXCEPT !.snapCommand = c.serverCommandSequence, !.snapIssued = m.issued]

\* CL_Netchan_Decode.
DecodedByClient(m) == m.key = cl.commands[Slot(m.ack)]

\* An empty message reads as acknowledgement -1, and then "read past end of
\* server message".
CL_ParseEmptyMessage(m) ==
    /\ m.cleared
    /\ Com_Error(Acknowledged(-1))

CL_ParseServerMessage(m) ==
    /\ ~m.cleared
    /\ DecodedByClient(m)
    /\ cl' = SnapshotParsed(CommandsParsed(Acknowledged(m.ack), m), m)
    /\ UNCHANGED toServer

\* Noise after the acknowledgement: "Illegible server message", or svc_EOF.
CL_ParseNoise(m) ==
    /\ ~m.cleared
    /\ ~DecodedByClient(m)
    /\ \/ Com_Error(Acknowledged(m.ack))
       \/ cl' = Acknowledged(m.ack) /\ UNCHANGED toServer

CL_PacketEvent(i) ==
    /\ cl.state = "active"
    /\ ToClient!Overtake(i)
    /\ \/ CL_ParseEmptyMessage(toClient[i])
       \/ CL_ParseServerMessage(toClient[i])
       \/ CL_ParseNoise(toClient[i])
    /\ UNCHANGED <<sv, handledByServer, executedByCgame>>

\* Defective variant: a command exactly one ring behind still counts as held.
CycledOutLate(number) == cl.serverCommandSequence - number > MaxReliableCommands

\* "if we have irretrievably lost a reliable command, drop the connection".
CycledOut(number) == cl.serverCommandSequence - number >= MaxReliableCommands

\* Cgame, before it goes to a snapshot, asks for the commands up to it.
CL_GetServerCommand ==
    /\ cl.state = "active"
    /\ cl.lastExecutedServerCommand < cl.snapCommand
    /\ LET number   == cl.lastExecutedServerCommand + 1
           text     == cl.serverCommands[Slot(number)]
           executed == [cl EXCEPT !.lastExecutedServerCommand = number]
       IN  IF CycledOut(number)
           THEN Com_Error(cl) /\ UNCHANGED executedByCgame
           ELSE /\ executedByCgame' = Append(executedByCgame, text)
                /\ IF text.disconnect
                   THEN Com_Error(executed)
                   ELSE cl' = executed /\ UNCHANGED toServer
    /\ UNCHANGED <<sv, toClient, handledByServer>>

-----------------------------------------------------------------------------
\* Both ends have just entered the game.
Init ==
    /\ sv = [state |-> "active", sequence |-> 0, acknowledge |-> 0,
             commands |-> [s \in Slots |-> NoText],
             lastClientCommand |-> 0, lastClientCommandString |-> NoText,
             gameDisconnects |-> 0, collapsed |-> FALSE]
    /\ cl = [state |-> "active", sequence |-> 0, acknowledge |-> 0,
             commands |-> [s \in Slots |-> NoText],
             serverCommandSequence |-> 0,
             serverCommands |-> [s \in Slots |-> NoText],
             snapCommand |-> 0, snapIssued |-> 0,
             lastExecutedServerCommand |-> 0]
    /\ toClient = <<>> /\ toServer = <<>>
    /\ handledByServer = <<>> /\ executedByCgame = <<>>

Next ==
    \/ SV_AddServerCommand
    \/ SV_DropClient
    \/ SV_FreeZombie
    \/ SV_SendClientSnapshot
    \/ \E i \in 1..Len(toServer), flooded \in BOOLEAN : SV_PacketEvent(i, flooded)
    \/ CL_AddReliableCommand
    \/ CL_WritePacket
    \/ CL_Disconnect_f
    \/ \E i \in 1..Len(toClient) : CL_PacketEvent(i)
    \/ CL_GetServerCommand

\* Both main loops keep sending, cgame keeps drawing, and the network does not
\* lose everything.  The leaky bucket of info_rate drains: a client is not taken
\* for a flooder for ever.
Fairness ==
    /\ WF_vars(SV_SendClientSnapshot)
    /\ WF_vars(CL_WritePacket)
    /\ WF_vars(CL_GetServerCommand)
    /\ SF_vars(\E i \in 1..Len(toServer) : SV_PacketEvent(i, FALSE))
    /\ SF_vars(\E i \in 1..Len(toClient) : CL_PacketEvent(i))

Spec == Init /\ [][Next]_vars /\ Fairness

-----------------------------------------------------------------------------
Texts == [number : Nat, disconnect : BOOLEAN]

Outcomes == [text : Texts, ignored : BOOLEAN]

\* Type invariant.  The server's window never exceeds the ring, not even while
\* a drop broadcasts into the window it is dropping, so that
\* SV_UpdateServerCommandsToClient never meets its fatal error; and the game is
\* told at most twice that a client has left.
TypeOK ==
    /\ Pending(sv) \in 0..MaxReliableCommands
    /\ sv \in [state : {"active", "zombie", "free"}, sequence : Nat,
               acknowledge : Nat, commands : [Slots -> Texts],
               lastClientCommand : Nat, lastClientCommandString : Texts,
               gameDisconnects : 0..2, collapsed : BOOLEAN]
    /\ cl \in [state : {"active", "disconnected", "failed"}, sequence : Nat,
               acknowledge : Nat \union {-1}, commands : [Slots -> Texts],
               serverCommandSequence : Nat, serverCommands : [Slots -> Texts],
               snapCommand : Nat, snapIssued : Nat,
               lastExecutedServerCommand : Nat]
    /\ handledByServer \in Seq(Outcomes) /\ executedByCgame \in Seq(Texts)
    /\ Len(toClient) <= MaxInFlight /\ Len(toServer) <= MaxInFlight

\* Safety.  The server handles the client's commands once each, in order, with
\* the text they were issued with, none of them missing up to the number it
\* acknowledges.  All of them are executed, but for text that flood protection
\* ignores: the game misses that for good, and the client is told it arrived.
CommandsHandledInOrder ==
    /\ Len(handledByServer) = sv.lastClientCommand
    /\ \A k \in DOMAIN handledByServer :
          /\ handledByServer[k].text.number = k
          /\ handledByServer[k].ignored =>
                ~handledByServer[k].text.disconnect /\ k \notin UserinfoCommands

\* Safety.  Unless the client is being dropped for overflow, cgame executes the
\* server's commands once each, in order and unaltered: a ring slot that newer
\* commands have cycled out is noticed, never executed.
CgameExecutesInOrder ==
    ~sv.collapsed =>
        \A k \in DOMAIN executedByCgame : executedByCgame[k].number = k

\* Safety.  "guaranteed to not have future snapshot_t executed before it is
\* executed": cgame gets no snapshot without every command issued before it.
SnapshotAfterCommands == cl.snapIssued <= cl.snapCommand

\* Safety.  While either ring still holds the command a message acknowledges,
\* both ends agree on its key, whatever was lost or is still on the way.
KeysAgree ==
    /\ Connected(sv) => \A i \in DOMAIN toServer :
          sv.sequence - toServer[i].ack < MaxReliableCommands
              => DecodedByServer(toServer[i])
    /\ cl.state = "active" => \A i \in DOMAIN toClient :
          ~toClient[i].cleared /\ cl.sequence - toClient[i].ack < MaxReliableCommands
              => DecodedByClient(toClient[i])

\* Liveness.  A command the server adds is executed, or the connection ends, or
\* both windows are full at once and neither end can read the other.
Over == sv.state # "active" \/ cl.state # "active"
BothFull ==
    /\ sv.sequence - cl.serverCommandSequence = MaxReliableCommands
    /\ cl.sequence - sv.lastClientCommand = MaxReliableCommands
CommandsArrive ==
    \A n \in 1..MaxServerCommands :
        sv.sequence >= n ~> (cl.lastExecutedServerCommand >= n \/ Over \/ BothFull)
=============================================================================
