----------------------------- MODULE Gamestate -----------------------------
(***************************************************************************)
(* How a connected client enters a level: the server sends a gamestate,    *)
(* holding every configstring, and repeats it until the client answers it; *)
(* the client may download files first, on a pure server it reports its    *)
(* paks ("cp"), and its first usercmd puts it into the world.  Meanwhile    *)
(* configstrings change and the server may change the level.               *)
(*                                                                         *)
(* All configstrings together are one version number, a new one for every  *)
(* change.  Reliable commands, whose order and integrity                   *)
(* ReliableCommands.tla checks, are numbered sequences of which a message   *)
(* brings every one up to some number.                                     *)
(***************************************************************************)
EXTENDS Integers, Sequences

CONSTANTS MaxLevels,      \* bound: levels the server loads
          MaxChanges,     \* bound: configstring changes
          MaxMessages,    \* bound: messages to the client
          MaxInFlight     \* bound: messages on the way each way

ASSUME GamestateAssumption ==
    /\ MaxLevels \in Nat \ {0} /\ MaxChanges \in Nat \ {0}
    /\ MaxMessages \in Nat /\ MaxInFlight \in Nat \ {0}

VARIABLES sv,         \* server_t: the level, its configstrings and sv_pure
          client,     \* the server's client_t, with its netchan and queue
          cl,         \* the client's clc, cl and cls
          toClient, toServer    \* messages in flight

vars == <<sv, client, cl, toClient, toServer>>

-----------------------------------------------------------------------------
\* Messages.

Commands == [name : {"cp", "download", "donedl"}, serverId : 0..MaxLevels]

Command(name, serverId) == [name |-> name, serverId |-> serverId]

\* What a server message says: a snapshot and a gamestate bring the server
\* commands so far, a gamestate is of a level and a version.
ServerMessage(kind, serverId, config, commands, active) ==
    [kind |-> kind, serverId |-> serverId, config |-> config,
     commands |-> commands, active |-> active]

Numbered(message, number) == [message |-> message, number |-> number]

\* A sender never waits: what exceeds the bound is lost, oldest first.
Post(channel, message) ==
    IF Len(channel) < MaxInFlight
    THEN Append(channel, message)
    ELSE Append(Tail(channel), message)

\* The netchan loses messages and keeps the order of the others.
ToClient == INSTANCE MessageChannel WITH
    Message <- {}, inFlight <- toClient, delivered <- <<>>
ToServer == INSTANCE MessageChannel WITH
    Message <- {}, inFlight <- toServer, delivered <- <<>>

\* Messages that have got or will get a number of the netchan.
Numbers(c) == c.outgoingSequence - 1 + Len(c.line)

-----------------------------------------------------------------------------
\* The server.

\* After a change of configstrings, only the exact gamestate will do.
GamestateAckAfterSend(c) ==
    IF c.gamestateAck = "init" \/ (c.gamestateAck = "once" /\ ~c.csUpdated)
    THEN "once"
    ELSE "many"

\* SV_SendClientGameState.  A gamestate is longer than a fragment, so it joins
\* the line of messages that fragment, or wait for those that do.
SV_SendClientGameState(c) ==
    [c EXCEPT
        !.state = "primed", !.downloading = FALSE, !.gotCP = FALSE,
        !.gamestateMessageNum = c.outgoingSequence,
        !.gamestateAck = GamestateAckAfterSend(c),
        !.csUpdated = FALSE,
        !.line = Append(@, ServerMessage("gamestate", sv.serverId, sv.config,
                                   Len(c.commands), FALSE)),
        !.gamestateQueued = @ \/ c.line # <<>>]

\* SVC_RateLimit with gamestate_rate: at most one gamestate a second.
GamestateIfRateAllows(c) == {c, SV_SendClientGameState(c)}

\* Defective variant: takes the ack of an earlier level's gamestate.
AcknowledgesAnyLevel(c, m) ==
    \/ m.messageAcknowledge = c.gamestateMessageNum
    \/ m.messageAcknowledge > c.gamestateMessageNum /\ c.gamestateAck = "once"

\* "accept either exact message delta or any positive delta with known
\* identical gamestate sent before".
Acknowledges(c, m) ==
    /\ m.serverId = sv.serverId
    /\ \/ m.messageAcknowledge = c.gamestateMessageNum
       \/ m.messageAcknowledge > c.gamestateMessageNum /\ c.gamestateAck = "once"

SV_AcknowledgeGamestate(c, m) ==
    IF Acknowledges(c, m) THEN [c EXCEPT !.gamestateAck = "acked"] ELSE c

\* Defective variant: leaves a changed configstring for nobody.
EntersAsIs(c) == [c EXCEPT !.state = "active", !.gamestateAck = "acked"]

\* SV_ClientEnterWorld with SV_UpdateConfigstrings.
SV_ClientEnterWorld(c) ==
    [c EXCEPT
        !.state = "active", !.gamestateAck = "acked",
        !.commands = IF c.csUpdated THEN Append(@, sv.config) ELSE @,
        !.csUpdated = FALSE]

\* SV_BeginDownload_f.
Downloads(c) ==
    [c EXCEPT !.state = "connected", !.downloading = TRUE,
              !.gamestateAck = IF @ = "acked" THEN "once" ELSE @]

\* SV_ExecuteClientCommand: cp is ignored when it is of another level, the
\* download commands when the client is in the world.
SV_ExecuteClientCommand(c, command) ==
    CASE command.name = "cp" ->
            [c EXCEPT !.gotCP = @ \/ command.serverId = sv.serverId]
      [] command.name = "download" /\ c.state # "active" -> Downloads(c)
      [] command.name = "donedl" /\ c.state # "active" -> SV_SendClientGameState(c)
      [] OTHER -> c

\* The client's commands up to number last, of which some were executed before.
AfterCommands(c, last) ==
    LET executed[k \in 0..last] ==
            IF k <= c.lastClientCommand
            THEN c
            ELSE [SV_ExecuteClientCommand(executed[k - 1], cl.commands[k])
                    EXCEPT !.lastClientCommand = k]
    IN  executed[last]

\* SV_UserMove: "if this is the first usercmd we have received this gamestate,
\* put the client into the world".
SV_UserMove(c) ==
    CASE c.state # "primed" -> {c}
      [] c.state = "primed" /\ sv.pure /\ ~c.gotCP -> GamestateIfRateAllows(c)
      [] OTHER -> {SV_ClientEnterWorld(c)}

\* SV_ExecuteClientMessage, late check and usercmds.
AfterLateCheck(c, m) ==
    LET acked == SV_AcknowledgeGamestate(c, m)
    IN  CASE c.gamestateAck # "acked" /\ c.state # "primed" -> {c}
          [] c.gamestateAck # "acked" /\ c.state = "primed"
                /\ ~Acknowledges(c, m) -> GamestateIfRateAllows(c)
          [] OTHER -> IF m.move THEN SV_UserMove(acked) ELSE {acked}

SV_ExecuteClientMessage(m) ==
    CASE client.state = "connected" /\ ~client.downloading ->
            GamestateIfRateAllows(client)
      [] client.state = "connected" /\ client.downloading ->
            AfterLateCheck(AfterCommands(client, m.commands), m)
      [] OTHER ->
            AfterLateCheck(
                AfterCommands(IF client.gamestateAck = "acked" THEN client
                              ELSE SV_AcknowledgeGamestate(client, m), m.commands), m)

SV_PacketEvent(i) ==
    /\ ToServer!Overtake(i)
    /\ client' \in SV_ExecuteClientMessage(toServer[i])
    /\ Numbers(client') <= MaxMessages
    /\ UNCHANGED <<sv, cl, toClient>>

\* SV_SetConfigstring: told to a client in the world, noted for one that is
\* not there yet. A string that SVF_NOSERVERINFO withholds from a client is not
\* among those that the version counts.
SV_SetConfigstring ==
    /\ sv.config < MaxChanges
    /\ sv' = [sv EXCEPT !.config = @ + 1]
    /\ client' = IF client.state = "active"
                 THEN [client EXCEPT !.commands = Append(@, sv'.config)]
                 ELSE [client EXCEPT !.csUpdated = TRUE]
    /\ UNCHANGED <<cl, toClient, toServer>>

\* SV_SpawnServer takes the client along: nothing is broadcast while the level
\* loads, and the next packet of the client gets the new gamestate.
SV_SpawnServer ==
    /\ sv.serverId < MaxLevels
    /\ sv.config < MaxChanges
    /\ sv' = [sv EXCEPT !.serverId = @ + 1, !.config = @ + 1]
    /\ client' = [client EXCEPT !.state = "connected", !.gamestateAck = "init"]
    /\ UNCHANGED <<cl, toClient, toServer>>

\* SV_SendClientMessages: no snapshot while messages wait, "or delta
\* compression will break".  It leaves in one datagram, or fragments.
SV_SendClientSnapshot ==
    /\ client.state # "connected"
    /\ client.line = <<>>
    /\ Numbers(client) < MaxMessages
    /\ LET snapshot == ServerMessage("snapshot", 0, 0, Len(client.commands),
                                     client.state = "active")
       IN  \/ /\ toClient' = Post(toClient, Numbered(snapshot, client.outgoingSequence))
              /\ client' = [client EXCEPT !.outgoingSequence = @ + 1]
           \/ /\ client' = [client EXCEPT !.line = <<snapshot>>]
              /\ UNCHANGED toClient
    /\ UNCHANGED <<sv, cl, toServer>>

\* SV_WriteDownloadToClient: the last block of the file, say.
SV_WriteDownloadToClient ==
    /\ client.downloading /\ client.state = "connected"
    /\ Numbers(client) < MaxMessages
    /\ client' = [client EXCEPT !.line = Append(@, ServerMessage("block", 0, 0, 0, FALSE))]
    /\ UNCHANGED <<sv, cl, toClient, toServer>>

\* SV_Netchan_TransmitNextFragment, the last fragment of a message: the next
\* in line starts under the next number.
SV_Netchan_TransmitNextFragment ==
    /\ client.line # <<>>
    /\ toClient' = Post(toClient, Numbered(Head(client.line), client.outgoingSequence))
    /\ client' = [client EXCEPT !.line = Tail(@), !.outgoingSequence = @ + 1]
    /\ UNCHANGED <<sv, cl, toServer>>

-----------------------------------------------------------------------------
\* The client.

Packet(c, move) ==
    [serverId |-> c.serverId, messageAcknowledge |-> c.serverMessageSequence,
     commands |-> Len(c.commands), move |-> move]

\* CL_InitDownloads: a missing file is asked for before anything is loaded.
CL_InitDownloads(c) ==
    IF c.missingFile
    THEN [c EXCEPT !.state = "downloading", !.commands = Append(@, Command("download", 0))]
    ELSE [c EXCEPT !.state = "loading"]

\* Defective variant: keeps older configstring updates for cgame to execute.
GamestateTaken(c, m) ==
    [c EXCEPT !.serverId = m.serverId, !.config = m.config, !.received = m.commands]

\* Defective variant: does not read the server command sequence.
GamestateUncounted(c, m) ==
    [c EXCEPT !.serverId = m.serverId, !.config = m.config, !.executed = m.commands]

\* "all configstring updates received before new gamestate must be discarded".
GamestateRead(c, m) ==
    [c EXCEPT !.serverId = m.serverId, !.config = m.config, !.received = m.commands,
              !.executed = m.commands]

CL_ParseGamestate(c, m) == CL_InitDownloads(GamestateRead(c, m))

\* CL_ParseCommandString and CL_ParseSnapshot; CL_FirstSnapshot ignores those
\* from before the client is in the world.
CL_ParseSnapshot(c, m) ==
    [c EXCEPT !.received = IF m.commands > @ THEN m.commands ELSE @,
              !.state = IF @ = "primed" /\ m.active THEN "active" ELSE @]

\* CL_ParseDownload at the end of the file ("send intentions now"), then
\* CL_DownloadsComplete: "by sending the donedl command we request a new
\* gamestate so we don't want to load stuff yet".
CL_ParseDownload(c) ==
    IF c.state = "downloading"
    THEN /\ cl' = [c EXCEPT !.state = "connected", !.missingFile = FALSE,
                            !.commands = Append(@, Command("donedl", 0))]
         /\ toServer' = Post(toServer, Packet(c, FALSE))
    ELSE cl' = c /\ UNCHANGED toServer

CL_PacketEvent(i) ==
    /\ ToClient!Overtake(i)
    /\ LET m == toClient[i].message
           c == [cl EXCEPT !.serverMessageSequence = toClient[i].number]
       IN  \/ /\ m.kind = "gamestate"
              /\ cl' = CL_ParseGamestate(c, m)
              /\ UNCHANGED toServer
           \/ /\ m.kind = "snapshot"
              /\ cl' = CL_ParseSnapshot(c, m)
              /\ UNCHANGED toServer
           \/ /\ m.kind = "block"
              /\ CL_ParseDownload(c)
    /\ UNCHANGED <<sv, client>>

\* CL_DownloadsComplete once no file is missing, CL_SendPureChecksums.  Before,
\* "Pump the loop, this may change gamestate!".
CL_InitCGame ==
    /\ cl.state = "loading"
    /\ cl' = [cl EXCEPT !.state = "primed",
                        !.commands = IF sv.pure THEN Append(@, Command("cp", cl.serverId))
                                     ELSE @]
    /\ toServer' = Post(toServer, Packet(cl', FALSE))
    /\ UNCHANGED <<sv, client, toClient>>

\* CL_WritePacket: usercmds are created only when cgame runs.
CL_WritePacket(move) ==
    /\ cl.state # "loading"
    /\ move => cl.state \in {"primed", "active"}
    /\ toServer' = Post(toServer, Packet(cl, move))
    /\ UNCHANGED <<sv, client, cl, toClient>>

\* CL_GetServerCommand and CL_ConfigstringModified.
CL_GetServerCommand ==
    /\ cl.state = "active"
    /\ cl.executed < cl.received
    /\ cl' = [cl EXCEPT !.executed = @ + 1,
                        !.config = client.commands[cl.executed + 1]]
    /\ UNCHANGED <<sv, client, toClient, toServer>>

-----------------------------------------------------------------------------
\* SV_DirectConnect has accepted the client, which has the connectResponse.
Init ==
    /\ sv \in [serverId : {1}, config : {1}, pure : BOOLEAN]
    /\ client = [state |-> "connected", gamestateAck |-> "init",
                 gamestateMessageNum |-> 0, csUpdated |-> FALSE,
                 downloading |-> FALSE, gotCP |-> FALSE,
                 lastClientCommand |-> 0, commands |-> <<>>,
                 outgoingSequence |-> 1, line |-> <<>>,
                 gamestateQueued |-> FALSE]
    /\ cl \in [state : {"connected"}, serverId : {0}, config : {0},
               received : {0}, executed : {0}, serverMessageSequence : {0},
               commands : {<<>>}, missingFile : BOOLEAN]
    /\ toClient = <<>> /\ toServer = <<>>

Next ==
    \/ \E i \in 1..Len(toServer) : SV_PacketEvent(i)
    \/ SV_SetConfigstring
    \/ SV_SpawnServer
    \/ SV_SendClientSnapshot
    \/ SV_WriteDownloadToClient
    \/ SV_Netchan_TransmitNextFragment
    \/ \E i \in 1..Len(toClient) : CL_PacketEvent(i)
    \/ CL_InitCGame
    \/ \E move \in BOOLEAN : CL_WritePacket(move)
    \/ CL_GetServerCommand

Spec == Init /\ [][Next]_vars

-----------------------------------------------------------------------------
\* Type invariant.
TypeOK ==
    /\ sv \in [serverId : 1..MaxLevels, config : 1..MaxChanges, pure : BOOLEAN]
    /\ client.state \in {"connected", "primed", "active"}
    /\ client.gamestateAck \in {"init", "once", "many", "acked"}
    /\ client.gamestateMessageNum \in 0..MaxMessages
    /\ client.csUpdated \in BOOLEAN /\ client.downloading \in BOOLEAN
    /\ client.gotCP \in BOOLEAN
    /\ client.commands \in Seq(1..MaxChanges)
    /\ client.outgoingSequence \in 1..(MaxMessages + 1)
    /\ Numbers(client) <= MaxMessages
    /\ cl.state \in {"connected", "downloading", "loading", "primed", "active"}
    /\ cl.serverId \in 0..MaxLevels /\ cl.config \in 0..MaxChanges
    /\ cl.received \in 0..Len(client.commands)
    /\ cl.executed \in 0..cl.received
    /\ cl.serverMessageSequence < client.outgoingSequence
    /\ cl.commands \in Seq(Commands)
    /\ client.lastClientCommand \in 0..Len(cl.commands)

\* A client in the world that has executed every command it was sent.
CaughtUp == client.state = "active" /\ cl.executed = Len(client.commands)

\* Safety.  A client in the world that has executed its commands holds the
\* configstrings the server holds, however often the gamestate was repeated
\* and whatever changed meanwhile; a gamestate that had to queue is excepted
\* (see ConfigAlwaysCurrent).
ConfigCurrent ==
    CaughtUp /\ ~client.gamestateQueued => cl.config = sv.config

\* A gamestate of the level on its way to the client, or waiting to leave.
GamestateOfLevel(message) ==
    message.kind = "gamestate" /\ message.serverId = sv.serverId
GamestateToCome ==
    \/ \E i \in DOMAIN toClient : GamestateOfLevel(toClient[i].message)
    \/ \E i \in DOMAIN client.line : GamestateOfLevel(client.line[i])

\* Safety.  The server takes no client into a level before the client has the
\* level's gamestate: usercmds and acknowledgements of the level before, or of
\* another message, are not taken for new ones.  Once in the world, the client
\* is not thrown back to loading by a gamestate of the level still on its way
\* (which one that had to queue may do).
EnteredForGood ==
    client.state = "active" =>
        /\ cl.serverId = sv.serverId
        /\ client.gamestateQueued \/ ~GamestateToCome

\* Action property.  The client's configstrings never go back: no update from
\* before a gamestate is executed after it.
ConfigNeverBackwards == [][cl'.config >= cl.config]_cl

\* "any configstring changes should be reliably transmitted to all clients":
\* a client in the world that has executed every command, and that no gamestate
\* is on its way to, holds the configstrings of the server.
ConfigAlwaysCurrent == CaughtUp /\ ~GamestateToCome => cl.config = sv.config
=============================================================================
