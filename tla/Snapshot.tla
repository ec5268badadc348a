------------------------------ MODULE Snapshot ------------------------------
(***************************************************************************)
(* Snapshots: every server frame that is sent to somebody copies the       *)
(* entities of the level once into a shared ring (the common snapshot); a   *)
(* client's frame points into it, and is written as a difference to a frame *)
(* the client says it has.  The client keeps a ring of snapshots over a     *)
(* ring of entities of its own, and rebuilds the frame from them.           *)
(*                                                                         *)
(* What an entity looks like is abstracted to where it comes from: a stored *)
(* entity carries the common snapshot that wrote it, a parsed one the       *)
(* message.  The netchan (Netchan.tla) loses messages and keeps their       *)
(* order; the gamestate handshake is Gamestate.tla, cut down here to the    *)
(* choices it leaves.  Numbers do not wrap within the bounds.               *)
(***************************************************************************)
EXTENDS Integers, Sequences, FiniteSetsExt

CONSTANTS PacketBackup,         \* PACKET_BACKUP, slots of both frame rings
          DeltaMargin,          \* no delta from the last slots before reuse (3)
          SnapshotFrames,       \* NUM_SNAPSHOT_FRAMES
          StorageEntities,      \* svs.numSnapshotEntities
          LinkedCounts,         \* how many entities a level may have linked
          SnapshotEntities,     \* MAX_SNAPSHOT_ENTITIES: most in a client's frame
          MaxLevels,            \* bound: levels the server loads
          MaxFrames,            \* bound: common snapshots
          MaxMessages,          \* bound: messages to the client
          MaxInFlight           \* bound: messages on the way each way

ASSUME SnapshotAssumption ==
    /\ {PacketBackup, SnapshotFrames, StorageEntities} \subseteq Nat \ {0}
    /\ {SnapshotEntities, MaxLevels, MaxFrames, MaxMessages, MaxInFlight}
          \subseteq Nat \ {0}
    /\ DeltaMargin \in 0..(PacketBackup - 1)
    /\ LinkedCounts \subseteq 0..StorageEntities

VARIABLES svs,         \* serverStatic_t: the common snapshots and their storage
          client,      \* the server's client_t
          cl,          \* the client's clientActive_t and clc
          toClient, toServer    \* messages in flight

vars == <<svs, client, cl, toClient, toServer>>

\* MAX_PARSE_ENTITIES.
ParseEntities == PacketBackup * SnapshotEntities

None == <<0, 0>>
Stamp(level, frameNum) == <<level, frameNum + 1>>

-----------------------------------------------------------------------------
\* Messages.  A snapshot says how far back its base is, 0 for none; whole says
\* whether the base it was written from is the frame of that message, intact.

Gamestate(level) ==
    [kind |-> "gamestate", level |-> level, delta |-> 0, whole |-> TRUE,
     entities |-> 0, removal |-> FALSE]

SnapshotMessage(delta, whole, entities, removal) ==
    [kind |-> "snapshot", level |-> 0, delta |-> delta, whole |-> whole,
     entities |-> entities, removal |-> removal]

\* A sender never waits: what exceeds the bound is lost, oldest first.
Post(channel, message) ==
    IF Len(channel) < MaxInFlight
    THEN Append(channel, message)
    ELSE Append(Tail(channel), message)

ToClient == INSTANCE MessageChannel WITH
    Message <- {}, inFlight <- toClient, delivered <- <<>>
ToServer == INSTANCE MessageChannel WITH
    Message <- {}, inFlight <- toServer, delivered <- <<>>

-----------------------------------------------------------------------------
\* The server's common snapshots.

\* built counts the common snapshots of all levels, for the bound.
EmptyStorage(level, built) ==
    [level |-> level, built |-> built, snapshotFrame |-> 0, lastValidFrame |-> 0,
     freeStorageEntities |-> StorageEntities, currentStoragePosition |-> 0,
     snapFrames |-> [i \in 0..(SnapshotFrames - 1) |->
                        [frameNum |-> 0, start |-> 0, count |-> 0]],
     snapshotEntities |-> [p \in 0..(StorageEntities - 1) |-> None]]

\* SV_InitSnapshotStorage, on storage just allocated.
SV_InitSnapshotStorage == EmptyStorage(svs.level + 1, svs.built)

Slot(frameNum) == frameNum % SnapshotFrames

\* Entities of the common snapshots from first up to, not including, next.
Held(s, first, next) ==
    LET sum[f \in first..next] ==
            IF f = first THEN 0 ELSE sum[f - 1] + s.snapFrames[Slot(f - 1)].count
    IN  sum[next]

\* The common snapshots before the given one give up their storage.
ReleasedBefore(s, frameNum) ==
    [s EXCEPT
        !.lastValidFrame = frameNum,
        !.freeStorageEntities = @ + Held(s, s.lastValidFrame, frameNum),
        !.snapFrames = [i \in DOMAIN @ |->
            IF \E f \in s.lastValidFrame..(frameNum - 1) : Slot(f) = i
            THEN [@[i] EXCEPT !.count = 0] ELSE @[i]]]

\* Defective variant: moves on without releasing the storage.
SlotForgotten(s) ==
    [s EXCEPT !.lastValidFrame = IF s.snapshotFrame - @ > SnapshotFrames - 1
                                 THEN s.snapshotFrame - (SnapshotFrames - 1) ELSE @]

\* "track last valid frame": the slot to be used is given up.
SlotReleased(s) ==
    IF s.snapshotFrame - s.lastValidFrame > SnapshotFrames - 1
    THEN ReleasedBefore(s, s.snapshotFrame - (SnapshotFrames - 1))
    ELSE s

\* "release more frames if needed": as few as will do, or all.
StorageReleased(s, count) ==
    LET Enough(f) ==
            \/ s.freeStorageEntities + Held(s, s.lastValidFrame, f) >= count
            \/ f = s.snapshotFrame
    IN  ReleasedBefore(s, Min({f \in s.lastValidFrame..s.snapshotFrame : Enough(f)}))

Region(start, count) == {(start + i) % StorageEntities : i \in 0..(count - 1)}

\* Defective variant: does not wrap.
PositionUnwrapped(s, count) == s.currentStoragePosition + count

NextPosition(s, count) == (s.currentStoragePosition + count) % StorageEntities

Allocated(s, count) ==
    LET start == s.currentStoragePosition IN
    [s EXCEPT
        !.snapFrames[Slot(s.snapshotFrame)] =
            [frameNum |-> s.snapshotFrame, start |-> start, count |-> count],
        !.freeStorageEntities = @ - count,
        !.currentStoragePosition = NextPosition(s, count),
        !.snapshotEntities = [p \in DOMAIN @ |->
            IF p \in Region(start, count) THEN Stamp(s.level, s.snapshotFrame)
            ELSE @[p]],
        !.snapshotFrame = @ + 1, !.built = @ + 1]

\* SV_BuildCommonSnapshot.
SV_BuildCommonSnapshot(s, count) == Allocated(StorageReleased(SlotReleased(s), count), count)

\* svs.currFrame, just built.
CurrFrame(s) == s.snapFrames[Slot(s.snapshotFrame - 1)]

-----------------------------------------------------------------------------
\* The server's client.

PacketSlot(number) == number % PacketBackup

\* The frame of a message keeps its number and its level, which the code does
\* not, to tell what it holds.
EmptyFrame == [number |-> 0, level |-> 0, frameNum |-> 0, ents |-> {}]

\* "if we are full, silently discard entities".
InView(frame) == Min({frame.count, SnapshotEntities})

\* SV_BuildClientSnapshot: all entities of the common snapshot are in view.
SV_BuildClientSnapshot(c, s) ==
    [c EXCEPT !.frames[PacketSlot(c.outgoingSequence)] =
        [number |-> c.outgoingSequence, level |-> s.level,
         frameNum |-> CurrFrame(s).frameNum,
         ents |-> Region(CurrFrame(s).start, InView(CurrFrame(s)))]]

\* Defective variant: takes a frame whose entities may be released.
DeltasFromOutdated(c, s) ==
    /\ c.state = "active"
    /\ c.outgoingSequence - c.deltaMessage < PacketBackup - DeltaMargin

\* "we have a valid snapshot to delta from".
CanDelta(c, s) ==
    /\ c.state = "active"
    /\ c.outgoingSequence > c.deltaMessage
    /\ c.outgoingSequence - c.deltaMessage < PacketBackup - DeltaMargin
    /\ c.frames[PacketSlot(c.deltaMessage)].frameNum >= s.lastValidFrame

\* The pointers of a frame still lead to the entities they were taken for.
FrameIntact(frame, s) ==
    /\ frame.level = s.level
    /\ \A p \in frame.ents :
            s.snapshotEntities[p] = Stamp(frame.level, frame.frameNum)

\* SV_WriteSnapshotToClient.  The worst case is that an entity of the base is
\* missing in the new frame: a removal, which follows the entities that stay.
SV_WriteSnapshotToClient(c, s) ==
    LET base == c.frames[PacketSlot(c.deltaMessage)]
        entities == InView(CurrFrame(s)) IN
    IF CanDelta(c, s)
    THEN SnapshotMessage(c.outgoingSequence - c.deltaMessage,
                         base.number = c.deltaMessage /\ FrameIntact(base, s),
                         entities, base.ents # {})
    ELSE SnapshotMessage(0, TRUE, entities, FALSE)

SV_SendMessageToClient(c, message) ==
    /\ toClient' = Post(toClient, [message |-> message, number |-> c.outgoingSequence])
    /\ client' = [c EXCEPT !.outgoingSequence = @ + 1]

\* SV_Frame: SV_IssueNewSnapshot, then SV_SendClientMessages sends to other
\* clients only, this one being rate limited or loading.
SV_SendOtherSnapshots(count) ==
    /\ svs.built < MaxFrames
    /\ svs' = SV_BuildCommonSnapshot(svs, count)
    /\ UNCHANGED <<client, cl, toClient, toServer>>

\* SV_Frame: SV_IssueNewSnapshot, then SV_SendClientSnapshot to this client.
SV_SendClientSnapshot(count) ==
    /\ client.state # "connected"
    /\ svs.built < MaxFrames
    /\ client.outgoingSequence <= MaxMessages
    /\ svs' = SV_BuildCommonSnapshot(svs, count)
    /\ LET c == SV_BuildClientSnapshot(client, svs') IN
       SV_SendMessageToClient(c, SV_WriteSnapshotToClient(c, svs'))
    /\ UNCHANGED <<cl, toServer>>

\* "force delta reset".
NoDelta(c) == c.outgoingSequence - (PacketBackup + 1)

\* SV_UserMove.
UserMoveDelta(c, m) == IF m.delta THEN m.messageAcknowledge ELSE NoDelta(c)
SV_UserMove(c, m) == [c EXCEPT !.deltaMessage = UserMoveDelta(c, m)]

\* SV_ClientEnterWorld.
SV_ClientEnterWorld(c) == [c EXCEPT !.state = "active", !.deltaMessage = NoDelta(c)]

\* SV_SendClientGameState: the client's frames are left as they are.
SV_SendClientGameState ==
    /\ client.outgoingSequence <= MaxMessages
    /\ SV_SendMessageToClient(
           [client EXCEPT !.state = "primed",
                          !.gamestateMessageNum = client.outgoingSequence],
           Gamestate(svs.level))

\* SV_AcknowledgeGamestate may take these, and no others.
MayAcknowledge(c, m) ==
    m.level = svs.level /\ m.messageAcknowledge >= c.gamestateMessageNum

\* SV_ExecuteClientMessage: a client that has no gamestate, does not answer it
\* or has sent no cp yet gets it again, or nothing at all within a second.
\* The deltaMessage of a client not in the world is not read before it is reset.
SV_PacketEvent(i) ==
    /\ ToServer!Overtake(i)
    /\ LET m == toServer[i] IN
       \/ /\ client.state # "active"
          /\ SV_SendClientGameState
       \/ /\ client.state # "active"
          /\ UNCHANGED <<client, toClient>>
       \/ /\ client.state = "primed" /\ MayAcknowledge(client, m)
          /\ client' = SV_ClientEnterWorld(SV_UserMove(client, m))
          /\ UNCHANGED toClient
       \/ /\ client.state = "active"
          /\ client' = SV_UserMove(client, m)
          /\ UNCHANGED toClient
    /\ UNCHANGED <<svs, cl>>

\* SV_SpawnServer: new storage, and the client waits for the new gamestate.
SV_SpawnServer ==
    /\ svs.level < MaxLevels
    /\ svs' = SV_InitSnapshotStorage
    /\ client' = [client EXCEPT !.state = "connected"]
    /\ UNCHANGED <<cl, toClient, toServer>>

-----------------------------------------------------------------------------
\* The client.

NoSnapshot == [messageNum |-> 0, valid |-> FALSE, right |-> FALSE,
               parseEntitiesNum |-> 0, numEntities |-> 0]

\* CL_ClearState.
ClearState(level, number) ==
    [level |-> level, serverMessageSequence |-> number, snap |-> NoSnapshot,
     snapshots |-> [i \in 0..(PacketBackup - 1) |-> NoSnapshot],
     parseEntitiesNum |-> 0,
     parseEntities |-> [i \in 0..(ParseEntities - 1) |-> 0],
     dumped |-> FALSE]

\* Every entity of a snapshot is still the one its message brought.
EntitiesIntact(c, s) ==
    \A i \in 0..(s.numEntities - 1) :
        c.parseEntities[(s.parseEntitiesNum + i) % ParseEntities] = s.messageNum

\* CL_ParseSnapshot, the checks of the frame a message is a difference to.
DeltaUsable(c, old, deltaNum) ==
    /\ old.valid
    /\ old.messageNum = deltaNum
    /\ c.parseEntitiesNum - old.parseEntitiesNum <= ParseEntities - SnapshotEntities

\* What the client rebuilds is what the server meant.
DeltaRight(c, m, old, deltaNum) ==
    m.whole /\ old.right /\ old.messageNum = deltaNum /\ EntitiesIntact(c, old)

\* CL_ParsePacketEntities and CL_DeltaEntity: every entity is parsed at the
\* cursor; a removed one stays there when the cursor does not move on.
CL_ParsePacketEntities(c, m, number) ==
    LET At(i) == (c.parseEntitiesNum + i) % ParseEntities
        written == [k \in DOMAIN c.parseEntities |->
            IF \E i \in 0..(m.entities - 1) : At(i) = k THEN number
            ELSE c.parseEntities[k]]
    IN  [c EXCEPT
            !.parseEntitiesNum = @ + m.entities,
            !.parseEntities = IF m.removal THEN [written EXCEPT ![At(m.entities)] = 0]
                              ELSE written]

\* Slots of messages lost between the last snapshot and this one.
Missing(last, number) ==
    {PacketSlot(n) : n \in {k \in (last + 1)..(number - 1) : number - k < PacketBackup}}

\* CL_ParseSnapshot: the entities are read in any case, and a snapshot that
\* cannot be rebuilt is dumped.
CL_ParseSnapshot(c, m, number) ==
    LET deltaNum == number - m.delta
        old == c.snapshots[PacketSlot(deltaNum)]
        valid == m.delta = 0 \/ DeltaUsable(c, old, deltaNum)
        parsed == CL_ParsePacketEntities(c, m, number)
        snap == [messageNum |-> number, valid |-> TRUE,
                 right |-> m.delta = 0 \/ DeltaRight(c, m, old, deltaNum),
                 parseEntitiesNum |-> c.parseEntitiesNum, numEntities |-> m.entities]
        missing == Missing(c.snap.messageNum, number)
    IN  IF ~valid
        THEN [parsed EXCEPT !.dumped = TRUE]
        ELSE [parsed EXCEPT
                !.snap = snap,
                !.snapshots = [i \in DOMAIN @ |->
                    CASE i = PacketSlot(number) -> snap
                      [] i \in missing -> [@[i] EXCEPT !.valid = FALSE]
                      [] OTHER -> @[i]]]

CL_PacketEvent(i) ==
    /\ ToClient!Overtake(i)
    /\ LET m == toClient[i].message
           number == toClient[i].number
       IN  \/ /\ m.kind = "gamestate"
              /\ cl' = ClearState(m.level, number)
           \/ /\ m.kind = "snapshot"
              /\ cl' = CL_ParseSnapshot([cl EXCEPT !.serverMessageSequence = number],
                                        m, number)
    /\ UNCHANGED <<svs, client, toServer>>

\* Defective variant: answers any message as if it were a snapshot.
AsksAlways(nodelta) == ~nodelta

\* CL_WritePacket: a difference is asked for only to the very last message.
AsksForDelta(nodelta) ==
    /\ ~nodelta
    /\ cl.snap.valid
    /\ cl.serverMessageSequence = cl.snap.messageNum

\* A packet with usercmds.  To one without, the server does what it may do to
\* a packet it does not take for an answer, or nothing.
CL_WritePacket(nodelta) ==
    /\ toServer' = Post(toServer,
           [level |-> cl.level, messageAcknowledge |-> cl.serverMessageSequence,
            delta |-> AsksForDelta(nodelta)])
    /\ UNCHANGED <<svs, client, cl, toClient>>

\* Defective variant: forgets that a removal is read over the oldest entity.
AvailableFullRing(requested) ==
    LET stored == cl.snapshots[PacketSlot(requested)]
        entityAge == cl.parseEntitiesNum - stored.parseEntitiesNum
    IN  /\ requested <= cl.snap.messageNum
        /\ cl.snap.messageNum - requested < PacketBackup
        /\ stored.valid /\ stored.messageNum = requested
        /\ entityAge <= ParseEntities

\* fnql::snapshot::Lookup, by which cgame asks for a snapshot.
Available(requested) ==
    LET stored == cl.snapshots[PacketSlot(requested)]
        entityAge == cl.parseEntitiesNum - stored.parseEntitiesNum
    IN  /\ requested <= cl.snap.messageNum
        /\ cl.snap.messageNum - requested < PacketBackup
        /\ stored.valid /\ stored.messageNum = requested
        /\ entityAge < ParseEntities
        /\ stored.numEntities <= entityAge

-----------------------------------------------------------------------------
\* The client has read its first gamestate, the server's first message.
Init ==
    /\ svs = EmptyStorage(1, 0)
    /\ client = [state |-> "primed", outgoingSequence |-> 2,
                 deltaMessage |-> 0, gamestateMessageNum |-> 1,
                 frames |-> [i \in 0..(PacketBackup - 1) |-> EmptyFrame]]
    /\ cl = ClearState(1, 1)
    /\ toClient = <<>> /\ toServer = <<>>

Next ==
    \/ \E count \in LinkedCounts : SV_SendOtherSnapshots(count)
    \/ \E count \in LinkedCounts : SV_SendClientSnapshot(count)
    \/ \E i \in 1..Len(toServer) : SV_PacketEvent(i)
    \/ SV_SpawnServer
    \/ \E i \in 1..Len(toClient) : CL_PacketEvent(i)
    \/ \E nodelta \in BOOLEAN : CL_WritePacket(nodelta)

Spec == Init /\ [][Next]_vars

-----------------------------------------------------------------------------
\* Type invariant.
TypeOK ==
    /\ svs.level \in 1..MaxLevels
    /\ svs.built \in 0..MaxFrames /\ svs.snapshotFrame \in 0..svs.built
    /\ svs.lastValidFrame \in 0..svs.snapshotFrame
    /\ svs.freeStorageEntities \in 0..StorageEntities
    /\ svs.currentStoragePosition \in 0..(StorageEntities - 1)
    /\ client.state \in {"connected", "primed", "active"}
    /\ client.outgoingSequence \in 1..(MaxMessages + 1)
    /\ client.deltaMessage \in -PacketBackup..MaxMessages
    /\ cl.level \in 1..svs.level
    /\ cl.snap.messageNum \in 0..cl.serverMessageSequence
    /\ cl.serverMessageSequence < client.outgoingSequence

\* Safety.  The storage of the common snapshots is accounted for: what is not
\* free belongs to the snapshots that are valid, whose entities nobody has
\* overwritten, so that "Not enough snapshot storage" is never an error.
StorageAccounted ==
    /\ svs.freeStorageEntities + Held(svs, svs.lastValidFrame, svs.snapshotFrame)
          = StorageEntities
    /\ \A f \in svs.lastValidFrame..(svs.snapshotFrame - 1) :
          LET frame == svs.snapFrames[Slot(f)] IN
          /\ frame.frameNum = f
          /\ \A p \in Region(frame.start, frame.count) :
                svs.snapshotEntities[p] = Stamp(svs.level, f)

\* Safety.  Every snapshot the client takes for valid is the frame the server
\* meant: the base it was written from had not been overwritten on the server,
\* by a later message, another client's snapshots or another level, and is the
\* one the client rebuilt it from.
ValidSnapshotsRight ==
    \A i \in DOMAIN cl.snapshots : cl.snapshots[i].valid => cl.snapshots[i].right

\* Safety.  "Delta from invalid frame (not supposed to happen!)", nor from one
\* that is too old: the server deltas only from what the client still has.
NeverDumped == ~cl.dumped

\* Safety.  A snapshot handed to cgame, however old, has all its entities: none
\* has been overwritten by a later snapshot or by a removal.
HandedOutIntact ==
    \A requested \in 0..MaxMessages :
        Available(requested) => EntitiesIntact(cl, cl.snapshots[PacketSlot(requested)])
=============================================================================
