---------------------------- MODULE SnapshotProofs ----------------------------
(***************************************************************************)
(* Proofs about module Snapshot: for any sizes of the frame rings, of the   *)
(* stored and the parsed entities, any levels, and any losses.              *)
(***************************************************************************)
EXTENDS Snapshot, SequenceTheorems, FiniteSetTheorems, TLAPS

-----------------------------------------------------------------------------
\* The types of the state.

SnapFrames == [frameNum : Nat, start : Nat, count : Nat]

Storages ==
    [level : Nat, built : Nat, snapshotFrame : Nat, lastValidFrame : Nat,
     freeStorageEntities : Int, currentStoragePosition : Nat,
     snapFrames : [0..(SnapshotFrames - 1) -> SnapFrames],
     snapshotEntities : [0..(StorageEntities - 1) -> Nat \X Nat]]

Positions == SUBSET (0..(StorageEntities - 1))
Frames == [number : Nat, level : Nat, frameNum : Nat, ents : Positions]

Clients ==
    [state : {"connected", "primed", "active"}, outgoingSequence : Nat,
     deltaMessage : Int, gamestateMessageNum : Nat,
     frames : [0..(PacketBackup - 1) -> Frames]]

ClSnapshots ==
    [messageNum : Nat, valid : BOOLEAN, right : BOOLEAN,
     parseEntitiesNum : Nat, numEntities : Nat]

ClientActives ==
    [level : Nat, serverMessageSequence : Nat, snap : ClSnapshots,
     snapshots : [0..(PacketBackup - 1) -> ClSnapshots],
     parseEntitiesNum : Nat,
     parseEntities : [0..(ParseEntities - 1) -> Nat],
     dumped : BOOLEAN]

Contents ==
    [kind : {"gamestate", "snapshot"}, level : Nat, delta : Nat,
     whole : BOOLEAN, entities : Nat, removal : BOOLEAN]
ServerMessages == [message : Contents, number : Nat]
Packets == [level : Nat, messageAcknowledge : Nat, delta : BOOLEAN]

Types ==
    /\ svs \in Storages /\ client \in Clients /\ cl \in ClientActives
    /\ toClient \in Seq(ServerMessages) /\ toServer \in Seq(Packets)

-----------------------------------------------------------------------------
\* The storage.  E[f] counts the entities stored before common snapshot f, those
\* of the level that were released included: the ring wraps, E does not.

FrameOf(s, f) == s.snapFrames[Slot(f)]

FrameAt(s, E, f) ==
    /\ FrameOf(s, f).frameNum = f
    /\ FrameOf(s, f).start = E[f] % StorageEntities
    /\ E[f + 1] = E[f] + FrameOf(s, f).count
    /\ \A p \in Region(FrameOf(s, f).start, FrameOf(s, f).count) :
          s.snapshotEntities[p] = Stamp(s.level, f)

StorageAt(s, E) ==
    /\ s.lastValidFrame <= s.snapshotFrame
    /\ s.snapshotFrame - s.lastValidFrame <= SnapshotFrames
    /\ s.currentStoragePosition = E[s.snapshotFrame] % StorageEntities
    /\ s.freeStorageEntities >= 0
    /\ s.freeStorageEntities + E[s.snapshotFrame] - E[s.lastValidFrame] = StorageEntities
    /\ \A f, g \in s.lastValidFrame..s.snapshotFrame : f <= g => E[f] <= E[g]
    /\ \A f \in s.lastValidFrame..(s.snapshotFrame - 1) : FrameAt(s, E, f)

StorageRight(s) == \E E \in [Nat -> Nat] : StorageAt(s, E)

-----------------------------------------------------------------------------
\* The server's client.

\* Message n is a snapshot whose frame is still in the ring.
Framed(c, n) ==
    c.outgoingSequence - n <= PacketBackup => c.frames[PacketSlot(n)].number = n

FrameRight(c, s, frame) ==
    /\ frame.number < c.outgoingSequence
    /\ frame.number # c.gamestateMessageNum
    /\ frame.level <= s.level
    /\ c.state # "connected" /\ frame.number > c.gamestateMessageNum
          => frame.level = s.level
    /\ frame.level = s.level /\ frame.frameNum >= s.lastValidFrame
          => /\ frame.frameNum < s.snapshotFrame
             /\ frame.ents \subseteq Region(FrameOf(s, frame.frameNum).start,
                                            FrameOf(s, frame.frameNum).count)

ServerRight(c, s) ==
    /\ 1 <= c.gamestateMessageNum /\ c.gamestateMessageNum < c.outgoingSequence
    /\ \A i \in 0..(PacketBackup - 1) : FrameRight(c, s, c.frames[i])

-----------------------------------------------------------------------------
\* The client.

SnapRight(k, i) ==
    LET s == k.snapshots[i] IN
    s.valid =>
        /\ PacketSlot(s.messageNum) = i
        /\ 1 <= s.messageNum /\ s.messageNum <= k.snap.messageNum
        /\ s.right
        /\ s.numEntities <= SnapshotEntities
        /\ s.parseEntitiesNum + s.numEntities <= k.parseEntitiesNum
        /\ k.parseEntitiesNum - s.parseEntitiesNum < ParseEntities => EntitiesIntact(k, s)

ClientRight(k) ==
    /\ ~k.dumped
    /\ k.snap.messageNum <= k.serverMessageSequence
    /\ k.snap.valid =>
          /\ k.snapshots[PacketSlot(k.snap.messageNum)] = k.snap
          /\ k.parseEntitiesNum = k.snap.parseEntitiesNum + k.snap.numEntities
    /\ \A i \in 0..(PacketBackup - 1) : SnapRight(k, i)

\* The client can still rebuild a difference to the snapshot of message a, and
\* can so until PacketBackup messages have come after it.
Kept(k, a) ==
    k.serverMessageSequence - a < PacketBackup =>
        /\ k.snapshots[PacketSlot(a)].valid
        /\ k.snapshots[PacketSlot(a)].messageNum = a
        /\ k.parseEntitiesNum - k.snapshots[PacketSlot(a)].parseEntitiesNum
              <= SnapshotEntities * (k.serverMessageSequence - a + 1)

-----------------------------------------------------------------------------
\* What is on the way.

DeltaKept(k, number, delta) ==
    /\ delta < PacketBackup - DeltaMargin
    /\ 1 <= number - delta /\ number - delta <= k.serverMessageSequence
    /\ Kept(k, number - delta)

MessageRight(c, s, k, m, number) ==
    /\ k.serverMessageSequence < number /\ number < c.outgoingSequence
    /\ m.kind = "gamestate" =>
          number <= c.gamestateMessageNum /\ 1 <= m.level /\ m.level <= s.level
    /\ m.kind = "snapshot" =>
          /\ Framed(c, number)
          /\ m.entities <= SnapshotEntities
          /\ m.whole
          /\ m.delta # 0 => DeltaKept(k, number, m.delta)

MessagesRight(c, s, k, channel) ==
    /\ \A i \in 1..Len(channel) :
          MessageRight(c, s, k, channel[i].message, channel[i].number)
    /\ \A i, j \in 1..Len(channel) : i < j =>
          /\ channel[i].number < channel[j].number
          /\ channel[i].message.kind = "gamestate" => channel[j].message.delta = 0

AskedFor(c, k, a) ==
    /\ 1 <= a
    /\ Framed(c, a)
    /\ a < c.gamestateMessageNum \/ Kept(k, a)

PacketsRight(c, k, channel) ==
    /\ \A i \in 1..Len(channel) :
          /\ channel[i].messageAcknowledge <= k.serverMessageSequence
          /\ channel[i].delta => AskedFor(c, k, channel[i].messageAcknowledge)
    /\ \A i, j \in 1..Len(channel) : i < j =>
          channel[i].messageAcknowledge <= channel[j].messageAcknowledge

\* Once the client is in the world, nothing older than the gamestate counts.
BaseRight(c, k, a) ==
    c.outgoingSequence - a < PacketBackup - DeltaMargin =>
        /\ c.gamestateMessageNum <= a /\ a <= k.serverMessageSequence
        /\ Framed(c, a) /\ Kept(k, a)

ActiveRight(c, k, channel) ==
    c.state = "active" =>
        /\ c.gamestateMessageNum <= k.serverMessageSequence
        /\ \A i \in 1..Len(channel) :
              c.gamestateMessageNum <= channel[i].messageAcknowledge
        /\ BaseRight(c, k, c.deltaMessage)

BothRight(c, s, k) ==
    /\ k.serverMessageSequence < c.outgoingSequence
    /\ 1 <= k.level /\ k.level <= s.level
    /\ k.snap.valid => Framed(c, k.snap.messageNum)

\* The bounds of the counters, and the base of the next snapshot.
Bounded ==
    /\ svs.level \in 1..MaxLevels
    /\ svs.built <= MaxFrames /\ svs.snapshotFrame <= svs.built
    /\ client.outgoingSequence <= MaxMessages + 1
    /\ -PacketBackup <= client.deltaMessage
    /\ client.deltaMessage < client.outgoingSequence

IInv ==
    /\ Types
    /\ Bounded
    /\ StorageRight(svs)
    /\ ServerRight(client, svs)
    /\ ClientRight(cl)
    /\ BothRight(client, svs, cl)
    /\ MessagesRight(client, svs, cl, toClient)
    /\ PacketsRight(client, cl, toServer)
    /\ ActiveRight(client, cl, toServer)

-----------------------------------------------------------------------------
\* Numbers.

LEMMA Sizes ==
    /\ PacketBackup \in Nat /\ PacketBackup >= 1
    /\ SnapshotFrames \in Nat /\ SnapshotFrames >= 1
    /\ StorageEntities \in Nat /\ StorageEntities >= 1
    /\ SnapshotEntities \in Nat /\ SnapshotEntities >= 1
    /\ DeltaMargin \in Nat /\ DeltaMargin < PacketBackup
    /\ MaxLevels \in Nat /\ MaxLevels >= 1 /\ MaxFrames \in Nat
    /\ MaxMessages \in Nat /\ MaxMessages >= 1
    /\ MaxInFlight \in Nat /\ MaxInFlight >= 1
  BY SnapshotAssumption

\* The ring of parsed entities has room for the snapshots of a frame ring.
LEMMA ParseEntitiesType ==
    /\ ParseEntities \in Nat /\ ParseEntities >= SnapshotEntities
    /\ ParseEntities = SnapshotEntities * PacketBackup
<1>1. PICK k \in Nat : PacketBackup = k + 1
  <2>1. PacketBackup - 1 \in Nat /\ PacketBackup = (PacketBackup - 1) + 1
    BY Sizes
  <2>2. QED
    BY <2>1
<1>2. PacketBackup * SnapshotEntities = k * SnapshotEntities + SnapshotEntities
      /\ k * SnapshotEntities \in Nat
      /\ SnapshotEntities * PacketBackup = PacketBackup * SnapshotEntities
  BY <1>1, Sizes
<1>3. QED
  BY <1>2, Sizes DEF ParseEntities

\* Fewer than n apart, two numbers differ modulo n.
LEMMA Apart ==
    ASSUME NEW n \in Nat, n >= 1, NEW a \in Int, NEW b \in Int, a < b, b - a < n
    PROVE  a % n # b % n
<1> DEFINE q == a \div n
           r == b \div n
<1>1. q \in Int /\ r \in Int /\ a = (n * q) + (a % n) /\ b = (n * r) + (b % n)
  OBVIOUS
<1>2. SUFFICES ASSUME a % n = b % n PROVE FALSE
  OBVIOUS
<1>3. n * (r - q) = b - a
  BY <1>1, <1>2
<1>4. r - q >= 1
  BY <1>1, <1>3
<1>5. QED
  BY <1>1, <1>3, <1>4

LEMMA ModType ==
    ASSUME NEW n \in Nat, n >= 1, NEW a \in Int
    PROVE  a % n \in 0..(n - 1)
  OBVIOUS

\* What has been reduced may be reduced again.
LEMMA ModAdds ==
    ASSUME NEW n \in Nat, n >= 1, NEW a \in Int, NEW b \in Int
    PROVE  ((a % n) + b) % n = (a + b) % n
<1> DEFINE c == (a % n) + b
           q == a \div n
           u == c \div n
<1>1. q \in Int /\ a % n \in Int /\ a = (n * q) + (a % n)
  OBVIOUS
<1>2. c \in Int /\ u \in Int /\ c = (n * u) + (c % n) /\ c % n \in 0..(n - 1)
  BY <1>1
<1>3. a + b = (n * (q + u)) + (c % n)
  BY <1>1, <1>2
<1>4. \A x \in Int, w \in Int, v \in 0..(n - 1) : x = (n * w) + v => x % n = v
  OBVIOUS
<1>5. a + b \in Int /\ q + u \in Int
  BY <1>1, <1>2
<1>6. (a + b) % n = c % n
  BY <1>2, <1>3, <1>4, <1>5, Zenon
<1>7. QED
  BY <1>6

LEMMA TimesAdds ==
    ASSUME NEW n \in Nat, NEW a \in Nat, NEW b \in Nat, a <= b
    PROVE  n * a <= n * b /\ n * a \in Nat /\ n * (a + 1) = (n * a) + n
<1>1. PICK k \in Nat : b = a + k
  <2>1. b - a \in Nat /\ b = a + (b - a)
    OBVIOUS
  <2>2. QED
    BY <2>1
<1>2. n * b = (n * a) + (n * k) /\ n * k \in Nat /\ n * a \in Nat
  BY <1>1
<1>3. QED
  BY <1>2

\* A set of numbers has a least one: the intervals below its members have a
\* smallest.
LEMMA LeastIn ==
    ASSUME NEW S \in SUBSET Nat, S # {}
    PROVE  \E m \in S : \A j \in S : m <= j
<1> DEFINE T == {1 .. n : n \in S}
<1>1. T \subseteq FiniteSubsetsOf(Nat) /\ T # {}
  <2>1. \A n \in Nat : IsFiniteSet(1 .. n) /\ 1 .. n \subseteq Nat
    BY FS_Interval
  <2>2. QED
    BY <2>1 DEF FiniteSubsetsOf
<1>2. IsWellFoundedOn(StrictSubsetOrdering(Nat), FiniteSubsetsOf(Nat))
  BY FS_StrictSubsetOrderingWellFounded
<1>3. PICK x \in T : \A y \in T : ~ (<<y, x>> \in StrictSubsetOrdering(Nat))
  BY <1>1, <1>2, WFMin
<1>4. PICK m \in S : x = 1 .. m
  BY <1>3
<1>5. ASSUME NEW j \in S PROVE m <= j
  <2>1. SUFFICES ASSUME j < m PROVE FALSE
    OBVIOUS
  <2>2. 1 .. j \subseteq 1 .. m /\ m \in 1 .. m /\ m \notin 1 .. j
    BY <2>1
  <2>3. 1 .. j \subseteq 1 .. m /\ 1 .. j # 1 .. m
    BY <2>2
  <2>4. <<1 .. j, 1 .. m>> \in StrictSubsetOrdering(Nat)
    BY <2>3 DEF StrictSubsetOrdering
  <2>5. 1 .. j \in T
    OBVIOUS
  <2>6. QED
    BY <1>3, <1>4, <2>4, <2>5
<1>6. QED
  BY <1>4, <1>5

LEMMA MinIn ==
    ASSUME NEW S \in SUBSET Nat, S # {}
    PROVE  Min(S) \in S /\ \A j \in S : Min(S) <= j
  BY LeastIn DEF Min

-----------------------------------------------------------------------------
\* Regions of the ring of stored entities.

LEMMA RegionType ==
    ASSUME NEW start \in Nat, NEW count \in Nat
    PROVE  Region(start, count) \in Positions
<1>1. ASSUME NEW i \in 0..(count - 1) PROVE (start + i) % StorageEntities \in 0..(StorageEntities - 1)
  BY Sizes, ModType
<1>2. QED
  BY <1>1 DEF Region, Positions

LEMMA RegionFrom ==
    ASSUME NEW e \in Nat, NEW count \in Nat, NEW p \in Region(e % StorageEntities, count)
    PROVE  \E i \in 0..(count - 1) : p = (e + i) % StorageEntities
<1>1. PICK i \in 0..(count - 1) : p = ((e % StorageEntities) + i) % StorageEntities
  BY DEF Region
<1>2. /\ e \in Int /\ i \in Int
      /\ StorageEntities \in Nat /\ StorageEntities >= 1
  BY Sizes
<1>3. ((e % StorageEntities) + i) % StorageEntities = (e + i) % StorageEntities
  BY <1>2, ModAdds
<1>4. QED
  BY <1>1, <1>3

LEMMA RegionsApart ==
    ASSUME NEW e \in Nat, NEW m \in Nat, NEW f \in Nat, NEW n \in Nat,
           e + m <= f, f + n - e <= StorageEntities,
           NEW p \in Region(e % StorageEntities, m)
    PROVE  p \notin Region(f % StorageEntities, n)
<1>1. SUFFICES ASSUME p \in Region(f % StorageEntities, n) PROVE FALSE
  OBVIOUS
<1>2. PICK i \in 0..(m - 1) : p = (e + i) % StorageEntities
  BY RegionFrom
<1>3. PICK j \in 0..(n - 1) : p = (f + j) % StorageEntities
  BY <1>1, RegionFrom
<1>4. e + i < f + j /\ (f + j) - (e + i) < StorageEntities
      /\ e + i \in Int /\ f + j \in Int
  BY Sizes
<1>5. QED
  BY <1>2, <1>3, <1>4, Sizes, Apart

LEMMA RegionGrows ==
    ASSUME NEW start \in Nat, NEW m \in Nat, NEW n \in Nat, m <= n
    PROVE  Region(start, m) \subseteq Region(start, n)
  BY DEF Region

-----------------------------------------------------------------------------
\* The common snapshots.

LEMMA SlotType ==
    ASSUME NEW s \in Storages, NEW f \in Int
    PROVE  /\ Slot(f) \in 0..(SnapshotFrames - 1)
           /\ FrameOf(s, f) \in SnapFrames
           /\ FrameOf(s, f).count \in Nat /\ FrameOf(s, f).start \in Nat
<1>1. Slot(f) \in 0..(SnapshotFrames - 1)
  BY Sizes, ModType DEF Slot
<1>2. FrameOf(s, f) \in SnapFrames
  BY <1>1 DEF Storages, FrameOf
<1>3. QED
  BY <1>1, <1>2 DEF SnapFrames

\* What Held adds up is the difference of two numbers of E: any other sum would
\* have a first snapshot to differ at.
LEMMA HeldRight ==
    ASSUME NEW s \in Storages, NEW E \in [Nat -> Nat], StorageAt(s, E),
           NEW a \in Nat, NEW b \in Nat,
           s.lastValidFrame <= a, a <= b, b <= s.snapshotFrame
    PROVE  Held(s, a, b) = E[b] - E[a]
<1> DEFINE Body(u) == [f \in a..b |-> IF f = a THEN 0
                                      ELSE u[f - 1] + s.snapFrames[Slot(f - 1)].count]
           sum == CHOOSE u : u = Body(u)
           g == [f \in a..b |-> E[f] - E[a]]
<1>1. \A f \in a..b : f # a => E[f] = E[f - 1] + s.snapFrames[Slot(f - 1)].count
  <2>1. SUFFICES ASSUME NEW f \in a..b, f # a
                 PROVE  E[f] = E[f - 1] + s.snapFrames[Slot(f - 1)].count
    OBVIOUS
  <2>2. s.lastValidFrame \in Nat /\ s.snapshotFrame \in Nat
    BY DEF Storages
  <2>3. f - 1 \in s.lastValidFrame..(s.snapshotFrame - 1) /\ (f - 1) + 1 = f
    BY <2>1, <2>2
  <2>4. FrameAt(s, E, f - 1)
    BY <2>3 DEF StorageAt
  <2>5. QED
    BY <2>3, <2>4 DEF FrameAt, FrameOf
<1>2. \A f \in a..b : f # a => f - 1 \in a..b /\ f \in Nat /\ f - 1 \in Nat
  OBVIOUS
<1>3. g = Body(g)
  <2>1. ASSUME NEW f \in a..b
        PROVE  E[f] - E[a] = IF f = a THEN 0
                             ELSE g[f - 1] + s.snapFrames[Slot(f - 1)].count
    <3>1. CASE f = a
      <4>1. E[a] \in Nat
        OBVIOUS
      <4>2. QED
        BY <3>1, <4>1
    <3>2. CASE f # a
      <4>1. g[f - 1] = E[f - 1] - E[a]
        BY <1>2, <3>2
      <4>2. /\ E[f] = E[f - 1] + s.snapFrames[Slot(f - 1)].count
            /\ E[f] \in Nat /\ E[f - 1] \in Nat /\ E[a] \in Nat
        BY <1>1, <1>2, <3>2
      <4>3. s.snapFrames[Slot(f - 1)].count \in Nat
        BY <1>2, <3>2, SlotType DEF FrameOf
      <4>4. E[f] - E[a] = g[f - 1] + s.snapFrames[Slot(f - 1)].count
        <5> HIDE DEF g
        <5>1. QED
          BY <4>1, <4>2, <4>3
      <4>5. QED
        BY <3>2, <4>4
    <3>3. QED
      BY <3>1, <3>2
  <2>2. QED
    BY <2>1
<1>4. sum = Body(sum)
  <2> HIDE DEF g
  <2>1. QED
    BY <1>3
<1>5. Held(s, a, b) = sum[b]
  BY Zenon DEF Held
<1> HIDE DEF sum
<1>6. \A f \in a..b : sum[f] = IF f = a THEN 0
                               ELSE sum[f - 1] + s.snapFrames[Slot(f - 1)].count
  BY <1>4
<1>7. \A f \in a..b : g[f] = IF f = a THEN 0
                             ELSE g[f - 1] + s.snapFrames[Slot(f - 1)].count
  BY <1>3
<1> DEFINE S == {f \in a..b : sum[f] # g[f]}
<1>8. S = {}
  <2>1. SUFFICES ASSUME S # {} PROVE FALSE
    OBVIOUS
  <2>2. S \in SUBSET Nat
    OBVIOUS
  <2>3. PICK m \in S : \A j \in S : m <= j
    BY <2>1, <2>2, LeastIn
  <2>4. m \in a..b /\ sum[m] # g[m]
    OBVIOUS
  <2>5. m # a
    BY <1>6, <1>7, <2>4
  <2>6. m - 1 \in a..b /\ m - 1 < m
    BY <1>2, <2>4, <2>5
  <2>7. sum[m - 1] = g[m - 1]
    BY <2>3, <2>6
  <2>8. QED
    BY <1>6, <1>7, <2>4, <2>5, <2>7
<1>9. b \in a..b
  OBVIOUS
<1>10. QED
  BY <1>5, <1>8, <1>9

\* r comes after s in the same level; what is still valid of s is as it was.
Later(s, r) ==
    /\ r.level = s.level
    /\ s.lastValidFrame <= r.lastValidFrame
    /\ s.snapshotFrame <= r.snapshotFrame
    /\ \A f \in r.lastValidFrame..(s.snapshotFrame - 1) : FrameOf(r, f) = FrameOf(s, f)

LEMMA LaterAndLater ==
    ASSUME NEW s \in Storages, NEW r \in Storages, NEW t \in Storages,
           Later(s, r), Later(r, t)
    PROVE  Later(s, t)
<1>1. /\ s.lastValidFrame \in Nat /\ r.lastValidFrame \in Nat /\ t.lastValidFrame \in Nat
      /\ s.snapshotFrame \in Nat /\ r.snapshotFrame \in Nat /\ t.snapshotFrame \in Nat
  BY DEF Storages
<1>2. ASSUME NEW f \in t.lastValidFrame..(s.snapshotFrame - 1)
      PROVE  FrameOf(t, f) = FrameOf(s, f)
  <2>1. f \in r.lastValidFrame..(s.snapshotFrame - 1)
        /\ f \in t.lastValidFrame..(r.snapshotFrame - 1)
    BY <1>1 DEF Later
  <2>2. QED
    BY <2>1 DEF Later
<1>3. QED
  BY <1>1, <1>2 DEF Later

\* Releasing gives back exactly what the released snapshots held.
LEMMA ReleasedRight ==
    ASSUME NEW s \in Storages, NEW E \in [Nat -> Nat], StorageAt(s, E),
           NEW n \in Nat, s.lastValidFrame <= n, n <= s.snapshotFrame,
           NEW r, r = ReleasedBefore(s, n)
    PROVE  /\ r \in Storages /\ StorageAt(r, E) /\ Later(s, r)
           /\ r.snapshotFrame = s.snapshotFrame /\ r.built = s.built
           /\ r.lastValidFrame = n
           /\ r.freeStorageEntities = s.freeStorageEntities + Held(s, s.lastValidFrame, n)
<1>1. /\ s.lastValidFrame \in Nat /\ s.snapshotFrame \in Nat
      /\ s.freeStorageEntities \in Int /\ s.currentStoragePosition \in Nat
      /\ s.level \in Nat /\ s.built \in Nat
  BY DEF Storages
<1>1a. s.snapFrames \in [0..(SnapshotFrames - 1) -> SnapFrames]
  BY DEF Storages
<1>2. Held(s, s.lastValidFrame, n) = E[n] - E[s.lastValidFrame]
  BY <1>1, HeldRight, SMTT(30)
<1>3. E[n] \in Nat /\ E[s.lastValidFrame] \in Nat /\ E[s.snapshotFrame] \in Nat
  BY <1>1
<1>4. E[s.lastValidFrame] <= E[n] /\ E[n] <= E[s.snapshotFrame]
  BY <1>1 DEF StorageAt
<1> DEFINE frames == [i \in DOMAIN s.snapFrames |->
                IF \E f \in s.lastValidFrame..(n - 1) : Slot(f) = i
                THEN [s.snapFrames[i] EXCEPT !.count = 0] ELSE s.snapFrames[i]]
<1>5. frames \in [0..(SnapshotFrames - 1) -> SnapFrames]
  BY <1>1a DEF SnapFrames
<1>6. /\ r.level = s.level /\ r.built = s.built /\ r.snapshotFrame = s.snapshotFrame
      /\ r.lastValidFrame = n
      /\ r.freeStorageEntities = s.freeStorageEntities + Held(s, s.lastValidFrame, n)
      /\ r.currentStoragePosition = s.currentStoragePosition
      /\ r.snapFrames = frames
      /\ r.snapshotEntities = s.snapshotEntities
      /\ r \in Storages
  <2>1. s.freeStorageEntities + Held(s, s.lastValidFrame, n) \in Int
    BY <1>1, <1>2, <1>3
  <2>2. r = [s EXCEPT !.lastValidFrame = n,
                      !.freeStorageEntities = @ + Held(s, s.lastValidFrame, n),
                      !.snapFrames = frames]
    BY DEF ReleasedBefore
  <2> HIDE DEF frames
  <2>3. QED
    BY <1>1, <1>5, <2>1, <2>2 DEF Storages
<1>7. ASSUME NEW f \in n..(s.snapshotFrame - 1)
      PROVE  FrameOf(r, f) = FrameOf(s, f)
  <2>1. f \in Int /\ Slot(f) \in 0..(SnapshotFrames - 1)
    BY <1>1, SlotType
  <2>2. ASSUME NEW e \in s.lastValidFrame..(n - 1) PROVE Slot(e) # Slot(f)
    <3>1. e \in Int /\ e < f /\ f - e < SnapshotFrames
      BY <1>1, Sizes DEF StorageAt
    <3>2. QED
      BY <2>1, <3>1, Sizes, Apart DEF Slot
  <2>3. frames[Slot(f)] = s.snapFrames[Slot(f)]
    BY <1>1a, <2>1, <2>2
  <2>4. QED
    BY <1>6, <2>3 DEF FrameOf
<1>8. Later(s, r)
  BY <1>1, <1>6, <1>7 DEF Later
<1>9. StorageAt(r, E)
  <2>1. ASSUME NEW f \in n..(s.snapshotFrame - 1) PROVE FrameAt(r, E, f)
    <3>1. FrameAt(s, E, f)
      BY <1>1 DEF StorageAt
    <3>2. QED
      BY <1>6, <1>7, <3>1 DEF FrameAt
  <2>2. \A f, g \in n..s.snapshotFrame : f <= g => E[f] <= E[g]
    BY <1>1 DEF StorageAt
  <2>3. s.freeStorageEntities >= 0
        /\ s.freeStorageEntities + E[s.snapshotFrame] - E[s.lastValidFrame] = StorageEntities
        /\ s.snapshotFrame - s.lastValidFrame <= SnapshotFrames
        /\ s.currentStoragePosition = E[s.snapshotFrame] % StorageEntities
    BY DEF StorageAt
  <2> HIDE DEF frames
  <2>4. r.freeStorageEntities >= 0
        /\ r.freeStorageEntities + E[s.snapshotFrame] - E[n] = StorageEntities
    BY <1>1, <1>2, <1>3, <1>4, <1>6, <2>3, Sizes
  <2>5. n <= s.snapshotFrame /\ s.snapshotFrame - n <= SnapshotFrames
    BY <1>1, <2>3, Sizes
  <2>6. QED
    BY <1>6, <2>1, <2>2, <2>3, <2>4, <2>5 DEF StorageAt
<1>10. QED
  BY <1>6, <1>8, <1>9

\* What is allocated is stored behind the entities of every valid snapshot, and
\* before them again round the ring.
LEMMA AllocatedRight ==
    ASSUME NEW s \in Storages, NEW E \in [Nat -> Nat], StorageAt(s, E),
           NEW count \in Nat, count <= s.freeStorageEntities,
           s.snapshotFrame - s.lastValidFrame <= SnapshotFrames - 1,
           NEW r, r = Allocated(s, count)
    PROVE  /\ r \in Storages /\ StorageRight(r) /\ Later(s, r)
           /\ r.snapshotFrame = s.snapshotFrame + 1 /\ r.built = s.built + 1
           /\ r.lastValidFrame = s.lastValidFrame
           /\ FrameOf(r, s.snapshotFrame).frameNum = s.snapshotFrame
           /\ FrameOf(r, s.snapshotFrame).count = count
<1> DEFINE sf == s.snapshotFrame
           start == s.currentStoragePosition
           new == [frameNum |-> sf, start |-> start, count |-> count]
           frames == [s.snapFrames EXCEPT ![Slot(sf)] = new]
           stamp == Stamp(s.level, sf)
           stored == [p \in DOMAIN s.snapshotEntities |->
                         IF p \in Region(start, count) THEN stamp ELSE s.snapshotEntities[p]]
           F == [E EXCEPT ![sf + 1] = E[sf] + count]
<1>1. /\ s.lastValidFrame \in Nat /\ sf \in Nat
      /\ s.freeStorageEntities \in Int /\ start \in Nat
      /\ s.level \in Nat /\ s.built \in Nat
  BY DEF Storages
<1>2. s.snapFrames \in [0..(SnapshotFrames - 1) -> SnapFrames]
  BY DEF Storages
<1>3. s.snapshotEntities \in [0..(StorageEntities - 1) -> Nat \X Nat]
  BY DEF Storages
<1>4. /\ s.lastValidFrame <= sf
      /\ start = E[sf] % StorageEntities
      /\ s.freeStorageEntities + E[sf] - E[s.lastValidFrame] = StorageEntities
  BY DEF StorageAt
<1>5. new \in SnapFrames /\ new.frameNum = sf /\ new.start = start /\ new.count = count
  BY <1>1 DEF SnapFrames
<1> HIDE DEF new
<1>6. Slot(sf) \in 0..(SnapshotFrames - 1)
  BY <1>1, SlotType
<1>7. frames \in [0..(SnapshotFrames - 1) -> SnapFrames] /\ frames[Slot(sf)] = new
      /\ \A i \in 0..(SnapshotFrames - 1) : i # Slot(sf) => frames[i] = s.snapFrames[i]
  BY <1>2, <1>5, <1>6
<1>8. stored \in [0..(StorageEntities - 1) -> Nat \X Nat]
  <2>1. stamp \in Nat \X Nat
    BY <1>1 DEF Stamp
  <2> HIDE DEF stamp
  <2>2. QED
    BY <1>3, <2>1
<1>9. /\ \A p \in 0..(StorageEntities - 1) :
            stored[p] = IF p \in Region(start, count) THEN stamp ELSE s.snapshotEntities[p]
  <2> HIDE DEF stamp
  <2>1. QED
    BY <1>3
<1> HIDE DEF frames, stored
<1>10. NextPosition(s, count) \in Nat
       /\ NextPosition(s, count) = (E[sf] + count) % StorageEntities
  <2>1. /\ E[sf] \in Nat /\ E[sf] \in Int /\ count \in Int
        /\ StorageEntities \in Nat /\ StorageEntities >= 1
    BY <1>1, Sizes
  <2>2. ((E[sf] % StorageEntities) + count) % StorageEntities = (E[sf] + count) % StorageEntities
    BY <2>1, ModAdds, Zenon
  <2>3. (E[sf] + count) % StorageEntities \in Nat
    BY <2>1
  <2>4. QED
    BY <1>4, <2>2, <2>3 DEF NextPosition
<1>11. /\ r.level = s.level /\ r.built = s.built + 1 /\ r.snapshotFrame = sf + 1
       /\ r.lastValidFrame = s.lastValidFrame
       /\ r.freeStorageEntities = s.freeStorageEntities - count
       /\ r.currentStoragePosition = NextPosition(s, count)
       /\ r.snapFrames = frames
       /\ r.snapshotEntities = stored
       /\ r \in Storages
  <2>1. r = [s EXCEPT !.snapFrames = frames,
                      !.freeStorageEntities = @ - count,
                      !.currentStoragePosition = NextPosition(s, count),
                      !.snapshotEntities = stored,
                      !.snapshotFrame = @ + 1, !.built = @ + 1]
    BY DEF Allocated, frames, stored, new, stamp
  <2>2. s.freeStorageEntities - count \in Int /\ sf + 1 \in Nat /\ s.built + 1 \in Nat
    BY <1>1
  <2> HIDE DEF sf, start
  <2>3. QED
    BY <1>7, <1>8, <1>10, <2>1, <2>2 DEF Storages, sf
<1>12. ASSUME NEW f \in s.lastValidFrame..(sf - 1)
       PROVE  FrameOf(r, f) = FrameOf(s, f)
  <2>1. f \in Int /\ f < sf /\ sf - f < SnapshotFrames /\ sf \in Int
    BY <1>1, Sizes
  <2>2. Slot(f) # Slot(sf) /\ Slot(f) \in 0..(SnapshotFrames - 1)
    BY <2>1, Sizes, Apart, SlotType DEF Slot
  <2>3. QED
    BY <1>7, <1>11, <2>2 DEF FrameOf
<1>13. FrameOf(r, sf) = new
  BY <1>7, <1>11 DEF FrameOf
<1>14. Later(s, r)
  BY <1>1, <1>11, <1>12 DEF Later
<1>15. F \in [Nat -> Nat] /\ F[sf + 1] = E[sf] + count
       /\ \A f \in s.lastValidFrame..sf : F[f] = E[f] /\ E[f] \in Nat /\ E[f] <= E[sf]
  BY <1>1, <1>4 DEF StorageAt
<1> HIDE DEF F
<1>16. ASSUME NEW f \in s.lastValidFrame..(sf - 1) PROVE FrameAt(r, F, f)
  <2>1. FrameAt(s, E, f)
    BY DEF StorageAt
  <2>2. F[f] = E[f] /\ F[f + 1] = E[f + 1] /\ f \in s.lastValidFrame..sf
        /\ E[f] \in Nat /\ E[f + 1] \in Nat /\ E[f + 1] <= E[sf]
    BY <1>1, <1>15
  <2>3. E[s.lastValidFrame] <= E[f] /\ E[sf] \in Nat /\ E[s.lastValidFrame] \in Nat
    BY <1>1, <1>4, <2>2 DEF StorageAt
  <2>4. FrameOf(s, f).count \in Nat /\ FrameOf(s, f).start \in Nat
    BY <1>1, SlotType
  <2>5. E[f] + FrameOf(s, f).count <= E[sf]
        /\ (E[sf] + count) - E[f] <= StorageEntities
    BY <1>1, <1>4, <2>1, <2>2, <2>3, <2>4, Sizes DEF FrameAt
  <2>6. ASSUME NEW p \in Region(FrameOf(s, f).start, FrameOf(s, f).count)
        PROVE  stored[p] = Stamp(s.level, f)
    <3>1. PICK e \in Nat, g \in Nat, m \in Nat :
              e = E[f] /\ g = E[sf] /\ m = FrameOf(s, f).count
      BY <2>2, <2>3, <2>4
    <3>2. p \notin Region(E[sf] % StorageEntities, count)
      <4>1. p \in Region(e % StorageEntities, m)
        BY <2>1, <3>1 DEF FrameAt
      <4>2. e + m <= g /\ g + count - e <= StorageEntities
        BY <2>5, <3>1
      <4>3. p \notin Region(g % StorageEntities, count)
        BY <4>1, <4>2, RegionsApart
      <4>4. QED
        BY <3>1, <4>3
    <3>3. p \in 0..(StorageEntities - 1)
      BY <2>4, RegionType DEF Positions
    <3>4. QED
      BY <1>4, <1>9, <2>1, <3>2, <3>3 DEF FrameAt
  <2>7. QED
    BY <1>11, <1>12, <2>1, <2>2, <2>6 DEF FrameAt
<1>17. FrameAt(r, F, sf)
  <2>1. sf \in s.lastValidFrame..sf /\ F[sf] = E[sf]
    BY <1>1, <1>4, <1>15
  <2>2. \A p \in Region(start, count) : stored[p] = Stamp(s.level, sf)
    BY <1>1, <1>9, RegionType DEF Positions
  <2>3. QED
    BY <1>4, <1>5, <1>11, <1>13, <1>15, <2>1, <2>2 DEF FrameAt
<1>18. StorageAt(r, F)
  <2>1. \A f \in s.lastValidFrame..sf : FrameAt(r, F, f)
    BY <1>1, <1>16, <1>17
  <2>2. E[s.lastValidFrame] \in Nat /\ E[sf] \in Nat
        /\ F[s.lastValidFrame] = E[s.lastValidFrame]
    BY <1>1, <1>4, <1>15
  <2>3. r.freeStorageEntities >= 0
        /\ r.freeStorageEntities + F[sf + 1] - F[s.lastValidFrame] = StorageEntities
    BY <1>1, <1>4, <1>11, <1>15, <2>2, Sizes
  <2>4. \A f, g \in s.lastValidFrame..(sf + 1) : f <= g => F[f] <= F[g]
    <3>1. SUFFICES ASSUME NEW f \in s.lastValidFrame..(sf + 1),
                          NEW g \in s.lastValidFrame..(sf + 1), f <= g
                   PROVE  F[f] <= F[g]
      OBVIOUS
    <3>2. CASE g = sf + 1 /\ f = sf + 1
      BY <1>1, <1>15, <3>2
    <3>3. CASE g = sf + 1 /\ f # sf + 1
      BY <1>1, <1>15, <2>2, <3>3
    <3>4. CASE g # sf + 1
      <4>1. f \in s.lastValidFrame..sf /\ g \in s.lastValidFrame..sf
        BY <1>1, <3>1, <3>4
      <4>2. E[f] <= E[g]
        BY <3>1, <4>1 DEF StorageAt
      <4>3. QED
        BY <1>15, <4>1, <4>2
    <3>5. QED
      BY <3>2, <3>3, <3>4
  <2>5. /\ r.lastValidFrame <= r.snapshotFrame
        /\ r.snapshotFrame - r.lastValidFrame <= SnapshotFrames
        /\ (sf + 1) - 1 = sf
    BY <1>1, <1>4, <1>11, Sizes
  <2>6. QED
    BY <1>10, <1>11, <1>15, <2>1, <2>3, <2>4, <2>5 DEF StorageAt
<1>19. QED
  BY <1>5, <1>11, <1>13, <1>14, <1>15, <1>18 DEF StorageRight

LEMMA SlotReleasedRight ==
    ASSUME NEW s \in Storages, NEW E \in [Nat -> Nat], StorageAt(s, E),
           NEW r, r = SlotReleased(s)
    PROVE  /\ r \in Storages /\ StorageAt(r, E) /\ Later(s, r)
           /\ r.snapshotFrame = s.snapshotFrame /\ r.built = s.built
           /\ r.snapshotFrame - r.lastValidFrame <= SnapshotFrames - 1
<1>1. s.lastValidFrame \in Nat /\ s.snapshotFrame \in Nat
      /\ s.lastValidFrame <= s.snapshotFrame
  BY DEF Storages, StorageAt
<1>2. CASE s.snapshotFrame - s.lastValidFrame > SnapshotFrames - 1
  <2> DEFINE n == s.snapshotFrame - (SnapshotFrames - 1)
  <2>1. n \in Nat /\ s.lastValidFrame <= n /\ n <= s.snapshotFrame
    BY <1>1, <1>2, Sizes
  <2>2. r = ReleasedBefore(s, n)
    BY <1>2 DEF SlotReleased
  <2>3. s.snapshotFrame - n <= SnapshotFrames - 1
    BY <1>1, Sizes
  <2> HIDE DEF n
  <2>4. /\ r \in Storages /\ StorageAt(r, E) /\ Later(s, r)
        /\ r.snapshotFrame = s.snapshotFrame /\ r.built = s.built
        /\ r.lastValidFrame = n
    BY <2>1, <2>2, ReleasedRight
  <2>5. QED
    BY <2>3, <2>4
<1>3. CASE ~(s.snapshotFrame - s.lastValidFrame > SnapshotFrames - 1)
  <2>1. r = s
    BY <1>3 DEF SlotReleased
  <2>2. Later(s, s)
    BY <1>1 DEF Later
  <2>3. s.snapshotFrame - s.lastValidFrame <= SnapshotFrames - 1
    BY <1>1, <1>3, Sizes
  <2>4. QED
    BY <2>1, <2>2, <2>3
<1>4. QED
  BY <1>2, <1>3

\* Releasing everything leaves the whole storage free, so there is a least
\* number of snapshots whose release is enough.
LEMMA StorageReleasedRight ==
    ASSUME NEW s \in Storages, NEW E \in [Nat -> Nat], StorageAt(s, E),
           NEW count \in Nat, count <= StorageEntities,
           NEW r, r = StorageReleased(s, count)
    PROVE  /\ r \in Storages /\ StorageAt(r, E) /\ Later(s, r)
           /\ r.snapshotFrame = s.snapshotFrame /\ r.built = s.built
           /\ count <= r.freeStorageEntities
<1> DEFINE Enough(f) ==
                \/ s.freeStorageEntities + Held(s, s.lastValidFrame, f) >= count
                \/ f = s.snapshotFrame
           S == {f \in s.lastValidFrame..s.snapshotFrame : Enough(f)}
           n == Min(S)
<1>1. s.lastValidFrame \in Nat /\ s.snapshotFrame \in Nat
      /\ s.lastValidFrame <= s.snapshotFrame /\ s.freeStorageEntities \in Int
      /\ s.freeStorageEntities + E[s.snapshotFrame] - E[s.lastValidFrame] = StorageEntities
  BY DEF Storages, StorageAt
<1>2. S \in SUBSET Nat /\ s.snapshotFrame \in S
  BY <1>1
<1>3. n \in S
  <2> HIDE DEF S
  <2>1. QED
    BY <1>2, MinIn
<1>4. r = ReleasedBefore(s, n)
  BY DEF StorageReleased
<1> HIDE DEF n
<1>5. n \in Nat /\ s.lastValidFrame <= n /\ n <= s.snapshotFrame /\ Enough(n)
  BY <1>1, <1>3
<1>6. /\ r \in Storages /\ StorageAt(r, E) /\ Later(s, r)
      /\ r.snapshotFrame = s.snapshotFrame /\ r.built = s.built
      /\ r.freeStorageEntities = s.freeStorageEntities + Held(s, s.lastValidFrame, n)
  BY <1>4, <1>5, ReleasedRight
<1>7. count <= s.freeStorageEntities + Held(s, s.lastValidFrame, n)
  <2>1. Held(s, s.lastValidFrame, n) = E[n] - E[s.lastValidFrame]
    BY <1>1, <1>5, HeldRight, SMTT(30)
  <2>2. E[n] \in Nat /\ E[s.lastValidFrame] \in Nat
    BY <1>1, <1>5
  <2>3. CASE n = s.snapshotFrame
    BY <1>1, <2>1, <2>2, <2>3, Sizes
  <2>4. CASE s.freeStorageEntities + Held(s, s.lastValidFrame, n) >= count
    BY <1>1, <2>1, <2>2, <2>4
  <2>5. QED
    BY <1>5, <2>3, <2>4
<1>8. QED
  BY <1>6, <1>7

LEMMA BuiltRight ==
    ASSUME NEW s \in Storages, StorageRight(s), NEW count \in LinkedCounts,
           NEW r, r = SV_BuildCommonSnapshot(s, count)
    PROVE  /\ r \in Storages /\ StorageRight(r) /\ Later(s, r)
           /\ r.snapshotFrame = s.snapshotFrame + 1 /\ r.built = s.built + 1
           /\ r.lastValidFrame <= s.snapshotFrame
           /\ CurrFrame(r) = FrameOf(r, s.snapshotFrame)
           /\ CurrFrame(r).frameNum = s.snapshotFrame
<1>1. count \in Nat /\ count <= StorageEntities
  BY SnapshotAssumption
<1>2. PICK E \in [Nat -> Nat] : StorageAt(s, E)
  BY DEF StorageRight
<1> DEFINE p == SlotReleased(s)
           q == StorageReleased(p, count)
<1>3. /\ p \in Storages /\ StorageAt(p, E) /\ Later(s, p)
      /\ p.snapshotFrame = s.snapshotFrame /\ p.built = s.built
      /\ p.snapshotFrame - p.lastValidFrame <= SnapshotFrames - 1
  BY <1>2, SlotReleasedRight
<1>4. r = Allocated(q, count)
  BY DEF SV_BuildCommonSnapshot
<1> HIDE DEF p
<1>5. /\ q \in Storages /\ StorageAt(q, E) /\ Later(p, q)
      /\ q.snapshotFrame = p.snapshotFrame /\ q.built = p.built
      /\ count <= q.freeStorageEntities
  BY <1>1, <1>3, StorageReleasedRight
<1> HIDE DEF q
<1>6. s.snapshotFrame \in Nat /\ p.lastValidFrame \in Nat /\ q.lastValidFrame \in Nat
      /\ p.snapshotFrame \in Nat
  BY <1>3, <1>5 DEF Storages
<1>7. q.snapshotFrame - q.lastValidFrame <= SnapshotFrames - 1
      /\ q.lastValidFrame <= q.snapshotFrame
  BY <1>3, <1>5, <1>6, Sizes DEF Later, StorageAt
<1>8. /\ r \in Storages /\ StorageRight(r) /\ Later(q, r)
      /\ r.snapshotFrame = q.snapshotFrame + 1 /\ r.built = q.built + 1
      /\ r.lastValidFrame = q.lastValidFrame
      /\ FrameOf(r, q.snapshotFrame).frameNum = q.snapshotFrame
  BY <1>1, <1>4, <1>5, <1>7, AllocatedRight
<1>9. Later(s, r)
  BY <1>3, <1>5, <1>8, LaterAndLater
<1>10. CurrFrame(r) = FrameOf(r, s.snapshotFrame)
  <2>1. r.snapshotFrame - 1 = s.snapshotFrame
    BY <1>3, <1>5, <1>6, <1>8
  <2>2. QED
    BY <2>1 DEF CurrFrame, FrameOf
<1>11. QED
  BY <1>3, <1>5, <1>7, <1>8, <1>9, <1>10

-----------------------------------------------------------------------------
\* Channels.

\* new is the channel with the message at the end, and perhaps without its first.
PostedTo(M, channel, message, new) ==
    /\ new \in Seq(M)
    /\ \E d \in {0, 1} : \A i \in 1..Len(new) :
          \/ i = Len(new) /\ new[i] = message
          \/ i < Len(new) /\ i + d \in 1..Len(channel) /\ new[i] = channel[i + d]

LEMMA Posted ==
    ASSUME NEW M, NEW channel \in Seq(M), NEW message \in M
    PROVE  PostedTo(M, channel, message, Post(channel, message))
<1>1. MaxInFlight >= 1 /\ MaxInFlight \in Nat /\ Len(channel) \in Nat
  BY Sizes, LenProperties
<1>2. CASE Len(channel) < MaxInFlight
  <2> DEFINE new == Append(channel, message)
  <2>1. Post(channel, message) = new
    BY <1>2 DEF Post
  <2>2. /\ new \in Seq(M) /\ Len(new) = Len(channel) + 1
        /\ \A i \in 1..Len(channel) : new[i] = channel[i]
        /\ new[Len(channel) + 1] = message
    BY AppendProperties
  <2> HIDE DEF new
  <2>3. \A i \in 1..Len(new) :
          \/ i = Len(new) /\ new[i] = message
          \/ i < Len(new) /\ i + 0 \in 1..Len(channel) /\ new[i] = channel[i + 0]
    BY <1>1, <2>2
  <2>4. QED
    BY <2>1, <2>2, <2>3 DEF PostedTo
<1>3. CASE ~(Len(channel) < MaxInFlight)
  <2> DEFINE rest == Tail(channel)
             new == Append(rest, message)
  <2>1. Post(channel, message) = new
    BY <1>3 DEF Post
  <2>2. channel # << >>
    BY <1>1, <1>3
  <2>3. /\ rest \in Seq(M) /\ Len(rest) = Len(channel) - 1
        /\ \A i \in 1..Len(channel) - 1 : rest[i] = channel[i + 1]
    BY <2>2, HeadTailProperties
  <2> HIDE DEF rest
  <2>4. /\ new \in Seq(M) /\ Len(new) = Len(rest) + 1
        /\ \A i \in 1..Len(rest) : new[i] = rest[i]
        /\ new[Len(rest) + 1] = message
    BY <2>3, AppendProperties
  <2> HIDE DEF new
  <2>5. \A i \in 1..Len(new) :
          \/ i = Len(new) /\ new[i] = message
          \/ i < Len(new) /\ i + 1 \in 1..Len(channel) /\ new[i] = channel[i + 1]
    BY <1>1, <2>3, <2>4
  <2>6. QED
    BY <2>1, <2>4, <2>5 DEF PostedTo
<1>4. QED
  BY <1>2, <1>3

\* Reception gives up a prefix.
LEMMA Overtaken ==
    ASSUME NEW M, NEW channel \in Seq(M), NEW i \in 1..Len(channel),
           NEW rest, rest = SubSeq(channel, i + 1, Len(channel))
    PROVE  /\ rest \in Seq(M)
           /\ \A j \in 1..Len(rest) :
                 i + j \in 1..Len(channel) /\ i < i + j /\ rest[j] = channel[i + j]
<1>1. Len(channel) \in Nat /\ i \in Nat
  BY LenProperties
<1>2. rest \in Seq(M) /\ Len(rest) = Len(channel) - i
      /\ \A j \in 1..Len(rest) : rest[j] = channel[i + j]
  BY SubSeqProperties
<1>3. QED
  BY <1>1, <1>2

LEMMA MessagePosted ==
    ASSUME NEW c, NEW s, NEW k, NEW channel \in Seq(ServerMessages),
           MessagesRight(c, s, k, channel),
           NEW m \in ServerMessages, MessageRight(c, s, k, m.message, m.number),
           \A i \in 1..Len(channel) : channel[i].number < m.number,
           \A i \in 1..Len(channel) :
               channel[i].message.kind = "gamestate" => m.message.delta = 0
    PROVE  /\ Post(channel, m) \in Seq(ServerMessages)
           /\ MessagesRight(c, s, k, Post(channel, m))
<1> DEFINE new == Post(channel, m)
<1>1. PostedTo(ServerMessages, channel, m, new)
  BY Posted
<1> HIDE DEF new
<1>2. new \in Seq(ServerMessages) /\ Len(new) \in Nat
  BY <1>1, LenProperties DEF PostedTo
<1>3. PICK d \in {0, 1} : \A i \in 1..Len(new) :
          \/ i = Len(new) /\ new[i] = m
          \/ i < Len(new) /\ i + d \in 1..Len(channel) /\ new[i] = channel[i + d]
  BY <1>1 DEF PostedTo
<1>4. \A i \in 1..Len(new) : MessageRight(c, s, k, new[i].message, new[i].number)
  BY <1>3 DEF MessagesRight
<1>5. ASSUME NEW i \in 1..Len(new), NEW j \in 1..Len(new), i < j
      PROVE  /\ new[i].number < new[j].number
             /\ new[i].message.kind = "gamestate" => new[j].message.delta = 0
  <2>1. i + d \in 1..Len(channel) /\ new[i] = channel[i + d]
    BY <1>2, <1>3, <1>5
  <2>2. CASE j = Len(new) /\ new[j] = m
    BY <2>1, <2>2
  <2>3. CASE j + d \in 1..Len(channel) /\ new[j] = channel[j + d]
    <3>1. i + d < j + d
      BY <1>2, <1>5
    <3>2. QED
      BY <2>1, <2>3, <3>1 DEF MessagesRight
  <2>4. QED
    BY <1>3, <2>2, <2>3
<1>6. QED
  BY <1>2, <1>4, <1>5 DEF new, MessagesRight

LEMMA MessagesDropped ==
    ASSUME NEW c, NEW s, NEW k, NEW channel \in Seq(ServerMessages),
           MessagesRight(c, s, k, channel), NEW i \in 1..Len(channel),
           NEW rest, rest = SubSeq(channel, i + 1, Len(channel))
    PROVE  /\ rest \in Seq(ServerMessages)
           /\ MessagesRight(c, s, k, rest)
           /\ \A j \in 1..Len(rest) :
                 /\ channel[i].number < rest[j].number
                 /\ channel[i].message.kind = "gamestate" => rest[j].message.delta = 0
<1>1. /\ rest \in Seq(ServerMessages)
      /\ \A j \in 1..Len(rest) :
            i + j \in 1..Len(channel) /\ i < i + j /\ rest[j] = channel[i + j]
  BY Overtaken
<1>2. \A j, g \in 1..Len(rest) : j < g => i + j < i + g
  BY <1>1, LenProperties
<1>3. QED
  BY <1>1, <1>2 DEF MessagesRight

LEMMA PacketPosted ==
    ASSUME NEW c, NEW k, NEW channel \in Seq(Packets), PacketsRight(c, k, channel),
           NEW m \in Packets,
           m.messageAcknowledge = k.serverMessageSequence,
           m.delta => AskedFor(c, k, m.messageAcknowledge)
    PROVE  /\ Post(channel, m) \in Seq(Packets)
           /\ PacketsRight(c, k, Post(channel, m))
           /\ \A g \in Nat :
                 /\ \A i \in 1..Len(channel) : g <= channel[i].messageAcknowledge
                 /\ g <= k.serverMessageSequence
                 => \A i \in 1..Len(Post(channel, m)) :
                       g <= Post(channel, m)[i].messageAcknowledge
<1> DEFINE new == Post(channel, m)
<1>1. PostedTo(Packets, channel, m, new)
  BY Posted
<1> HIDE DEF new
<1>2. new \in Seq(Packets) /\ Len(new) \in Nat
  BY <1>1, LenProperties DEF PostedTo
<1>3. PICK d \in {0, 1} : \A i \in 1..Len(new) :
          \/ i = Len(new) /\ new[i] = m
          \/ i < Len(new) /\ i + d \in 1..Len(channel) /\ new[i] = channel[i + d]
  BY <1>1 DEF PostedTo
<1>4. m.messageAcknowledge \in Nat
  BY DEF Packets
<1>5. \A i \in 1..Len(new) :
          /\ new[i].messageAcknowledge <= k.serverMessageSequence
          /\ new[i].delta => AskedFor(c, k, new[i].messageAcknowledge)
  BY <1>3, <1>4 DEF PacketsRight
<1>6. ASSUME NEW i \in 1..Len(new), NEW j \in 1..Len(new), i < j
      PROVE  new[i].messageAcknowledge <= new[j].messageAcknowledge
  <2>1. i + d \in 1..Len(channel) /\ new[i] = channel[i + d]
    BY <1>2, <1>3, <1>6
  <2>2. CASE j = Len(new) /\ new[j] = m
    BY <1>5, <2>2
  <2>3. CASE j + d \in 1..Len(channel) /\ new[j] = channel[j + d]
    <3>1. i + d < j + d
      BY <1>2, <1>6
    <3>2. QED
      BY <2>1, <2>3, <3>1 DEF PacketsRight
  <2>4. QED
    BY <1>3, <2>2, <2>3
<1>7. ASSUME NEW g \in Nat,
             \A i \in 1..Len(channel) : g <= channel[i].messageAcknowledge,
             g <= k.serverMessageSequence, NEW i \in 1..Len(new)
      PROVE  g <= new[i].messageAcknowledge
  BY <1>3, <1>7
<1>8. QED
  BY <1>2, <1>5, <1>6, <1>7 DEF new, PacketsRight

LEMMA PacketsDropped ==
    ASSUME NEW c, NEW k, NEW channel \in Seq(Packets), PacketsRight(c, k, channel),
           ActiveRight(c, k, channel), NEW i \in 1..Len(channel),
           NEW rest, rest = SubSeq(channel, i + 1, Len(channel))
    PROVE  /\ rest \in Seq(Packets)
           /\ PacketsRight(c, k, rest) /\ ActiveRight(c, k, rest)
           /\ \A j \in 1..Len(rest) :
                 channel[i].messageAcknowledge <= rest[j].messageAcknowledge
<1>1. /\ rest \in Seq(Packets)
      /\ \A j \in 1..Len(rest) :
            i + j \in 1..Len(channel) /\ i < i + j /\ rest[j] = channel[i + j]
  BY Overtaken
<1>2. \A j, g \in 1..Len(rest) : j < g => i + j < i + g
  BY <1>1, LenProperties
<1>3. PacketsRight(c, k, rest)
  BY <1>1, <1>2 DEF PacketsRight
<1>4. ActiveRight(c, k, rest)
  BY <1>1 DEF ActiveRight
<1>5. QED
  BY <1>1, <1>3, <1>4 DEF PacketsRight

-----------------------------------------------------------------------------
\* What the server's steps leave as it is.

LEMMA PacketSlotType ==
    ASSUME NEW n \in Int
    PROVE  PacketSlot(n) \in 0..(PacketBackup - 1)
  BY Sizes, ModType DEF PacketSlot

LEMMA PacketSlotsApart ==
    ASSUME NEW m \in Int, NEW n \in Int, m < n, n - m < PacketBackup
    PROVE  PacketSlot(m) # PacketSlot(n)
  BY Sizes, Apart DEF PacketSlot

LEMMA ClientTypes ==
    ASSUME NEW c \in Clients
    PROVE  /\ c.outgoingSequence \in Nat /\ c.gamestateMessageNum \in Nat
           /\ c.deltaMessage \in Int
           /\ \A n \in Int : /\ c.frames[PacketSlot(n)] \in Frames
                             /\ c.frames[PacketSlot(n)].number \in Nat
<1>1. c.frames \in [0..(PacketBackup - 1) -> Frames]
  BY DEF Clients
<1>2. \A n \in Int : c.frames[PacketSlot(n)] \in Frames
  BY <1>1, PacketSlotType
<1>3. \A n \in Int : c.frames[PacketSlot(n)].number \in Nat
  BY <1>2 DEF Frames
<1>4. QED
  BY <1>2, <1>3 DEF Clients

\* The server goes on from client c and storage s to d and r.
Forward(c, s, d, r) ==
    /\ s.level <= r.level
    /\ c.outgoingSequence <= d.outgoingSequence
    /\ c.gamestateMessageNum <= d.gamestateMessageNum
    /\ \A n \in Int : n < c.outgoingSequence /\ Framed(c, n) => Framed(d, n)

LEMMA BothFollow ==
    ASSUME NEW c \in Clients, NEW d \in Clients, NEW s \in Storages, NEW r \in Storages,
           NEW k \in ClientActives, Forward(c, s, d, r),
           ClientRight(k), BothRight(c, s, k)
    PROVE  BothRight(d, r, k)
<1>1. c.outgoingSequence \in Nat /\ d.outgoingSequence \in Nat
  BY ClientTypes
<1>2. k.serverMessageSequence \in Nat /\ k.level \in Nat /\ k.snap.messageNum \in Nat
  BY DEF ClientActives, ClSnapshots
<1>3. s.level \in Nat /\ r.level \in Nat
  BY DEF Storages
<1>4. k.snap.messageNum < c.outgoingSequence /\ k.snap.messageNum \in Int
  BY <1>1, <1>2 DEF ClientRight, BothRight
<1>5. QED
  BY <1>1, <1>2, <1>3, <1>4 DEF Forward, BothRight

LEMMA MessagesFollow ==
    ASSUME NEW c \in Clients, NEW d \in Clients, NEW s \in Storages, NEW r \in Storages,
           NEW k \in ClientActives, Forward(c, s, d, r),
           NEW channel \in Seq(ServerMessages), MessagesRight(c, s, k, channel)
    PROVE  MessagesRight(d, r, k, channel)
<1>1. /\ c.outgoingSequence \in Nat /\ d.outgoingSequence \in Nat
      /\ c.gamestateMessageNum \in Nat /\ d.gamestateMessageNum \in Nat
  BY ClientTypes
<1>2. s.level \in Nat /\ r.level \in Nat
  BY DEF Storages
<1>3. ASSUME NEW i \in 1..Len(channel)
      PROVE  MessageRight(d, r, k, channel[i].message, channel[i].number)
  <2>1. channel[i] \in ServerMessages
    BY ElementOfSeq
  <2>2. channel[i].number \in Nat /\ channel[i].message \in Contents
    BY <2>1 DEF ServerMessages
  <2>3. PICK m \in Contents, number \in Nat : m = channel[i].message /\ number = channel[i].number
    BY <2>2
  <2>4. m.level \in Nat
    BY <2>2, <2>3 DEF Contents
  <2>5. MessageRight(c, s, k, m, number)
    BY <2>3 DEF MessagesRight
  <2>6. MessageRight(d, r, k, m, number)
    BY <1>1, <1>2, <2>4, <2>5 DEF Forward, MessageRight
  <2>7. QED
    BY <2>3, <2>6
<1>4. QED
  BY <1>3 DEF MessagesRight

LEMMA PacketsFollow ==
    ASSUME NEW c \in Clients, NEW d \in Clients, NEW s \in Storages, NEW r \in Storages,
           NEW k \in ClientActives, Forward(c, s, d, r), BothRight(c, s, k),
           NEW channel \in Seq(Packets), PacketsRight(c, k, channel)
    PROVE  PacketsRight(d, k, channel)
<1>1. /\ c.outgoingSequence \in Nat /\ d.outgoingSequence \in Nat
      /\ c.gamestateMessageNum \in Nat /\ d.gamestateMessageNum \in Nat
  BY ClientTypes
<1>2. k.serverMessageSequence \in Nat /\ k.serverMessageSequence < c.outgoingSequence
  BY DEF ClientActives, BothRight
<1>3. ASSUME NEW i \in 1..Len(channel), channel[i].delta
      PROVE  AskedFor(d, k, channel[i].messageAcknowledge)
  <2>1. channel[i] \in Packets
    BY ElementOfSeq
  <2>2. PICK a \in Nat : a = channel[i].messageAcknowledge
    BY <2>1 DEF Packets
  <2>3. a <= k.serverMessageSequence /\ AskedFor(c, k, a)
    BY <1>3, <2>2 DEF PacketsRight
  <2>4. a \in Int /\ a < c.outgoingSequence
    BY <1>1, <1>2, <2>3
  <2>5. AskedFor(d, k, a)
    BY <1>1, <2>3, <2>4 DEF Forward, AskedFor
  <2>6. QED
    BY <2>2, <2>5
<1>4. QED
  BY <1>3 DEF PacketsRight

LEMMA ActiveFollows ==
    ASSUME NEW c \in Clients, NEW d \in Clients, NEW s \in Storages, NEW r \in Storages,
           NEW k \in ClientActives, Forward(c, s, d, r), BothRight(c, s, k),
           NEW channel, ActiveRight(c, k, channel),
           d.state = "active" => /\ c.state = "active"
                                 /\ d.gamestateMessageNum = c.gamestateMessageNum
                                 /\ d.deltaMessage = c.deltaMessage
    PROVE  ActiveRight(d, k, channel)
<1>1. SUFFICES ASSUME d.state = "active" PROVE ActiveRight(d, k, channel)
  BY DEF ActiveRight
<1>2. c.outgoingSequence \in Nat /\ d.outgoingSequence \in Nat /\ c.deltaMessage \in Int
  BY ClientTypes
<1>3. k.serverMessageSequence \in Nat /\ k.serverMessageSequence < c.outgoingSequence
  BY DEF ClientActives, BothRight
<1>4. PICK a \in Int : a = c.deltaMessage /\ a = d.deltaMessage
  BY <1>1, <1>2
<1>5. BaseRight(c, k, a)
  BY <1>1, <1>4 DEF ActiveRight
<1>6. BaseRight(d, k, a)
  BY <1>1, <1>2, <1>3, <1>5, Sizes DEF Forward, BaseRight
<1>7. QED
  BY <1>1, <1>4, <1>6 DEF ActiveRight

LEMMA FramesLater ==
    ASSUME NEW c \in Clients, NEW s \in Storages, NEW r \in Storages, Later(s, r),
           ServerRight(c, s)
    PROVE  ServerRight(c, r)
<1>1. /\ s.lastValidFrame \in Nat /\ r.lastValidFrame \in Nat
      /\ s.snapshotFrame \in Nat /\ r.snapshotFrame \in Nat
  BY DEF Storages
<1>2. ASSUME NEW i \in 0..(PacketBackup - 1) PROVE FrameRight(c, r, c.frames[i])
  <2>1. FrameRight(c, s, c.frames[i])
    BY DEF ServerRight
  <2>2. PICK frame \in Frames : frame = c.frames[i]
    BY DEF Clients
  <2>3. frame.frameNum \in Nat
    BY DEF Frames
  <2>4. frame.level = s.level /\ frame.frameNum >= r.lastValidFrame
        => /\ frame.frameNum < s.snapshotFrame
           /\ frame.frameNum < r.snapshotFrame
           /\ frame.frameNum >= s.lastValidFrame
           /\ FrameOf(r, frame.frameNum) = FrameOf(s, frame.frameNum)
    BY <1>1, <2>1, <2>2, <2>3 DEF Later, FrameRight
  <2>5. FrameRight(c, r, frame)
    BY <2>1, <2>2, <2>4 DEF Later, FrameRight
  <2>6. QED
    BY <2>2, <2>5
<1>3. QED
  BY <1>2 DEF ServerRight

-----------------------------------------------------------------------------
\* The server's steps.

LEMMA SendOtherRight ==
    ASSUME IInv, NEW count \in LinkedCounts, SV_SendOtherSnapshots(count)
    PROVE  IInv'
<1>1. svs \in Storages /\ client \in Clients /\ cl \in ClientActives
      /\ toClient \in Seq(ServerMessages) /\ toServer \in Seq(Packets)
  BY DEF IInv, Types
<1>2. client' = client /\ cl' = cl /\ toClient' = toClient /\ toServer' = toServer
  BY DEF SV_SendOtherSnapshots
<1>3. /\ svs' \in Storages /\ StorageRight(svs') /\ Later(svs, svs')
      /\ svs'.snapshotFrame = svs.snapshotFrame + 1 /\ svs'.built = svs.built + 1
  <2>1. svs' = SV_BuildCommonSnapshot(svs, count)
    BY DEF SV_SendOtherSnapshots
  <2>2. QED
    BY <1>1, <2>1, BuiltRight DEF IInv
<1>4. Forward(client, svs, client, svs')
  <2>1. client.outgoingSequence \in Nat /\ client.gamestateMessageNum \in Nat
    BY <1>1, ClientTypes
  <2>2. svs'.level = svs.level /\ svs.level \in Nat
    BY <1>1, <1>3 DEF Later, Storages
  <2>3. QED
    BY <2>1, <2>2 DEF Forward
<1>5. ServerRight(client, svs')
  BY <1>1, <1>3, FramesLater DEF IInv
<1>6. BothRight(client, svs', cl)
  BY <1>1, <1>3, <1>4, BothFollow DEF IInv
<1>7. MessagesRight(client, svs', cl, toClient)
  BY <1>1, <1>3, <1>4, MessagesFollow DEF IInv
<1>8. Types'
  BY <1>1, <1>2, <1>3 DEF Types
<1>9. Bounded'
  <2>1. svs.built < MaxFrames /\ svs.built \in Nat /\ svs.snapshotFrame \in Nat
    BY <1>1 DEF SV_SendOtherSnapshots, Storages
  <2>2. svs'.level = svs.level
    BY <1>3 DEF Later
  <2>3. svs'.built <= MaxFrames /\ svs'.snapshotFrame <= svs'.built
    BY <1>3, <2>1, Sizes DEF IInv, Bounded
  <2>4. QED
    BY <1>2, <2>2, <2>3 DEF IInv, Bounded
<1>10. StorageRight(svs')
  BY <1>3
<1>11. QED
  BY <1>2, <1>5, <1>6, <1>7, <1>8, <1>9, <1>10 DEF IInv

MessageLeaves(c) == [c EXCEPT !.outgoingSequence = @ + 1]

\* The frame of the message that leaves now, beside those of the messages before.
LEMMA ClientSnapshotBuilt ==
    ASSUME NEW c \in Clients, NEW r \in Storages,
           ServerRight(c, r), NEW sf \in Nat, r.snapshotFrame = sf + 1,
           CurrFrame(r) = FrameOf(r, sf), CurrFrame(r).frameNum = sf,
           NEW b, b = SV_BuildClientSnapshot(c, r),
           NEW d, d = MessageLeaves(b)
    PROVE  /\ b \in Clients /\ d \in Clients
           /\ \A n \in Int : n < c.outgoingSequence /\ c.outgoingSequence - n < PacketBackup
                 => b.frames[PacketSlot(n)] = c.frames[PacketSlot(n)]
           /\ b.state = c.state /\ b.deltaMessage = c.deltaMessage
           /\ b.outgoingSequence = c.outgoingSequence
           /\ d.state = c.state /\ d.deltaMessage = c.deltaMessage
           /\ d.gamestateMessageNum = c.gamestateMessageNum
           /\ d.outgoingSequence = c.outgoingSequence + 1
           /\ Framed(d, c.outgoingSequence)
           /\ ServerRight(d, r)
           /\ \A n \in Int : n < c.outgoingSequence /\ Framed(c, n) => Framed(d, n)
<1> DEFINE out == c.outgoingSequence
           new == [number |-> out, level |-> r.level, frameNum |-> CurrFrame(r).frameNum,
                   ents |-> Region(CurrFrame(r).start, InView(CurrFrame(r)))]
           frames == [c.frames EXCEPT ![PacketSlot(out)] = new]
<1>1. out \in Nat /\ c.gamestateMessageNum \in Nat /\ c.deltaMessage \in Int
      /\ c.frames \in [0..(PacketBackup - 1) -> Frames]
  BY DEF Clients
<1>2. FrameOf(r, sf).count \in Nat /\ FrameOf(r, sf).start \in Nat
  BY SlotType
<1>3. InView(CurrFrame(r)) \in Nat /\ InView(CurrFrame(r)) <= FrameOf(r, sf).count
  <2>1. {CurrFrame(r).count, SnapshotEntities} \in SUBSET Nat
    BY <1>2, Sizes
  <2>2. InView(CurrFrame(r)) \in {CurrFrame(r).count, SnapshotEntities}
        /\ InView(CurrFrame(r)) <= CurrFrame(r).count
    BY <2>1, MinIn DEF InView
  <2>3. QED
    BY <1>2, <2>1, <2>2
<1>4. Region(CurrFrame(r).start, InView(CurrFrame(r)))
          \subseteq Region(FrameOf(r, sf).start, FrameOf(r, sf).count)
  BY <1>2, <1>3, RegionGrows
<1>5. Region(CurrFrame(r).start, InView(CurrFrame(r))) \in Positions
  BY <1>2, <1>3, RegionType
<1>6. /\ new \in Frames /\ new.number = out /\ new.level = r.level /\ new.frameNum = sf
      /\ new.ents \subseteq Region(FrameOf(r, sf).start, FrameOf(r, sf).count)
  <2>1. r.level \in Nat
    BY DEF Storages
  <2>2. QED
    BY <1>1, <1>4, <1>5, <2>1 DEF Frames
<1> HIDE DEF new
<1>7. PacketSlot(out) \in 0..(PacketBackup - 1)
  <2>1. out \in Int
    BY <1>1
  <2>2. QED
    BY <2>1, PacketSlotType, Zenon
<1>8. /\ frames \in [0..(PacketBackup - 1) -> Frames]
      /\ frames[PacketSlot(out)] = new
      /\ \A i \in 0..(PacketBackup - 1) : i # PacketSlot(out) => frames[i] = c.frames[i]
  BY <1>1, <1>6, <1>7
<1> HIDE DEF frames
<1>9. b = [c EXCEPT !.frames = frames]
  BY DEF SV_BuildClientSnapshot, frames, new
<1>10. /\ b \in Clients /\ b.state = c.state /\ b.deltaMessage = c.deltaMessage
       /\ b.outgoingSequence = out /\ b.frames = frames
       /\ b.gamestateMessageNum = c.gamestateMessageNum
  BY <1>8, <1>9 DEF Clients
<1>11. /\ d \in Clients /\ d.state = c.state /\ d.deltaMessage = c.deltaMessage
       /\ d.outgoingSequence = out + 1 /\ d.frames = frames
       /\ d.gamestateMessageNum = c.gamestateMessageNum
  BY <1>1, <1>10 DEF Clients, MessageLeaves
<1>12. ASSUME NEW n \in Int, n < out, out - n < PacketBackup
       PROVE  frames[PacketSlot(n)] = c.frames[PacketSlot(n)]
  <2>1. PacketSlot(n) # PacketSlot(out) /\ PacketSlot(n) \in 0..(PacketBackup - 1)
    BY <1>1, <1>12, PacketSlotsApart, PacketSlotType, SMTT(30)
  <2>2. QED
    BY <1>8, <2>1
<1>13. ASSUME NEW n \in Int, n < out, Framed(c, n) PROVE Framed(d, n)
  <2>1. CASE out + 1 - n <= PacketBackup
    <3>1. out - n < PacketBackup /\ out - n <= PacketBackup
      BY <1>1, <2>1, Sizes
    <3>2. frames[PacketSlot(n)].number = n
      BY <1>12, <1>13, <3>1 DEF Framed
    <3>3. QED
      BY <1>11, <3>2 DEF Framed
  <2>2. CASE ~(out + 1 - n <= PacketBackup)
    <3>1. d.outgoingSequence = out + 1
      BY <1>11
    <3>2. ~(d.outgoingSequence - n <= PacketBackup)
      BY <1>1, <2>2, <3>1
    <3>3. QED
      BY <3>2, Zenon DEF Framed
  <2>3. QED
    BY <2>1, <2>2
<1>14. Framed(d, out)
  BY <1>6, <1>8, <1>11 DEF Framed
<1>15. ServerRight(d, r)
  <2>1. ASSUME NEW i \in 0..(PacketBackup - 1) PROVE FrameRight(d, r, frames[i])
    <3>1. CASE i = PacketSlot(out)
      <4>1. out < out + 1 /\ out # c.gamestateMessageNum /\ r.level <= r.level
            /\ sf < r.snapshotFrame
        <5>1. r.level \in Nat
          BY DEF Storages
        <5>2. QED
          BY <1>1, <5>1 DEF ServerRight
      <4>2. QED
        BY <1>6, <1>8, <1>11, <3>1, <4>1 DEF FrameRight
    <3>2. CASE i # PacketSlot(out)
      <4>1. frames[i] = c.frames[i] /\ FrameRight(c, r, c.frames[i])
        BY <1>8, <3>2 DEF ServerRight
      <4>2. PICK frame \in Frames : frame = frames[i]
        BY <1>8
      <4>3. frame.number \in Nat
        BY DEF Frames
      <4>4. FrameRight(d, r, frame)
        BY <1>1, <1>11, <4>1, <4>2, <4>3 DEF FrameRight
      <4>5. QED
        BY <4>2, <4>4
    <3>3. QED
      BY <3>1, <3>2
  <2>2. QED
    BY <1>1, <1>11, <2>1 DEF ServerRight
<1>16. QED
  BY <1>10, <1>11, <1>12, <1>13, <1>14, <1>15

\* Every snapshot is written from a frame that is whole, which the client keeps.
LEMMA WrittenRight ==
    ASSUME NEW c \in Clients, NEW r \in Storages, NEW k \in ClientActives,
           NEW channel, ActiveRight(c, k, channel),
           StorageRight(r), ServerRight(c, r), NEW sf \in Nat, r.snapshotFrame = sf + 1,
           CurrFrame(r) = FrameOf(r, sf), NEW b \in Clients,
           \A n \in Int : n < c.outgoingSequence /\ c.outgoingSequence - n < PacketBackup
                 => b.frames[PacketSlot(n)] = c.frames[PacketSlot(n)],
           b.state = c.state, b.deltaMessage = c.deltaMessage,
           b.outgoingSequence = c.outgoingSequence,
           NEW m, m = SV_WriteSnapshotToClient(b, r)
    PROVE  /\ m \in Contents /\ m.kind = "snapshot"
           /\ m.entities <= SnapshotEntities
           /\ m.whole
           /\ m.delta # 0 => c.state = "active" /\ DeltaKept(k, c.outgoingSequence, m.delta)
<1> DEFINE entities == InView(CurrFrame(r))
           base == b.frames[PacketSlot(b.deltaMessage)]
           out == c.outgoingSequence
<1>1. entities \in Nat /\ entities <= SnapshotEntities
  <2>1. {CurrFrame(r).count, SnapshotEntities} \in SUBSET Nat
    BY SlotType, Sizes
  <2>2. InView(CurrFrame(r)) \in {CurrFrame(r).count, SnapshotEntities}
        /\ InView(CurrFrame(r)) <= SnapshotEntities
    BY <2>1, MinIn DEF InView
  <2>3. QED
    BY <2>1, <2>2
<1> HIDE DEF entities
<1>2. CASE ~CanDelta(b, r)
  <2>1. m = SnapshotMessage(0, TRUE, entities, FALSE)
    BY <1>2 DEF SV_WriteSnapshotToClient, entities
  <2>2. m \in Contents /\ m.kind = "snapshot" /\ m.entities = entities /\ m.whole /\ m.delta = 0
    BY <1>1, <2>1 DEF SnapshotMessage, Contents
  <2>3. QED
    BY <1>1, <2>2
<1>3. CASE CanDelta(b, r)
  <2>1. PICK a \in Int : a = c.deltaMessage
    BY ClientTypes
  <2>2. out \in Nat /\ out = b.outgoingSequence /\ a = b.deltaMessage
        /\ c.gamestateMessageNum \in Nat
    BY <2>1, ClientTypes
  <2>3. /\ c.state = "active" /\ out > a /\ out - a < PacketBackup - DeltaMargin
        /\ base.frameNum >= r.lastValidFrame
    BY <1>3, <2>2 DEF CanDelta
  <2>4. BaseRight(c, k, a) /\ c.gamestateMessageNum <= k.serverMessageSequence
    BY <2>1, <2>3 DEF ActiveRight
  <2>5. /\ c.gamestateMessageNum <= a /\ a <= k.serverMessageSequence
        /\ Framed(c, a) /\ Kept(k, a)
    BY <2>3, <2>4 DEF BaseRight
  <2>6. out - a < PacketBackup /\ out - a <= PacketBackup /\ a < out
    BY <2>2, <2>3, Sizes
  <2>7. base = c.frames[PacketSlot(a)]
    BY <2>2, <2>6
  <2>8. base.number = a
    BY <2>5, <2>6, <2>7 DEF Framed
  <2>9. base \in Frames /\ FrameRight(c, r, base)
    BY <2>7, PacketSlotType, ClientTypes DEF ServerRight
  <2> HIDE DEF base
  <2>10. base.level = r.level
    BY <2>2, <2>3, <2>5, <2>8, <2>9 DEF FrameRight
  <2>11. base.frameNum < r.snapshotFrame
         /\ base.ents \subseteq Region(FrameOf(r, base.frameNum).start,
                                       FrameOf(r, base.frameNum).count)
    BY <2>3, <2>9, <2>10 DEF FrameRight
  <2>12. FrameIntact(base, r)
    <3>1. PICK E \in [Nat -> Nat] : StorageAt(r, E)
      BY DEF StorageRight
    <3>2. PICK f \in Nat : f = base.frameNum
      BY <2>9 DEF Frames
    <3>3. r.lastValidFrame \in Nat /\ r.snapshotFrame \in Nat
      BY DEF Storages
    <3>4. f \in r.lastValidFrame..(r.snapshotFrame - 1)
      BY <2>3, <2>11, <3>2, <3>3
    <3>5. FrameAt(r, E, f)
      BY <3>1, <3>4 DEF StorageAt
    <3>6. \A p \in base.ents : r.snapshotEntities[p] = Stamp(r.level, f)
      BY <2>11, <3>2, <3>5 DEF FrameAt
    <3>7. QED
      BY <2>10, <3>2, <3>6 DEF FrameIntact
  <2>13. m = SnapshotMessage(out - a, TRUE, entities, base.ents # {})
    <3>1. m = SnapshotMessage(b.outgoingSequence - b.deltaMessage,
                              base.number = b.deltaMessage /\ FrameIntact(base, r),
                              entities, base.ents # {})
      BY <1>3 DEF SV_WriteSnapshotToClient, entities, base
    <3>2. (base.number = b.deltaMessage /\ FrameIntact(base, r)) = TRUE
      BY <2>2, <2>8, <2>12
    <3>3. QED
      BY <2>2, <3>1, <3>2
  <2>14. out - a \in Nat /\ out - (out - a) = a
    BY <2>2, <2>6
  <2>15. m \in Contents /\ m.kind = "snapshot" /\ m.entities = entities /\ m.whole
         /\ m.delta = out - a
    BY <1>1, <2>13, <2>14 DEF SnapshotMessage, Contents
  <2>16. 1 <= a
    BY <2>2, <2>5 DEF ServerRight
  <2>17. DeltaKept(k, out, m.delta)
    BY <2>3, <2>5, <2>14, <2>15, <2>16 DEF DeltaKept
  <2>18. QED
    BY <1>1, <2>3, <2>15, <2>17
<1>4. QED
  BY <1>2, <1>3

\* A gamestate on its way is the last one, and one to a client in the world has
\* arrived.
LEMMA NoGamestateToActive ==
    ASSUME NEW c \in Clients, NEW s, NEW k \in ClientActives,
           NEW channel \in Seq(ServerMessages), MessagesRight(c, s, k, channel),
           NEW packets, ActiveRight(c, k, packets), c.state = "active",
           NEW i \in 1..Len(channel)
    PROVE  channel[i].message.kind # "gamestate"
<1>1. channel[i] \in ServerMessages
  BY ElementOfSeq
<1>2. PICK number \in Nat : number = channel[i].number
  BY <1>1 DEF ServerMessages
<1>3. c.gamestateMessageNum \in Nat /\ k.serverMessageSequence \in Nat
  BY ClientTypes DEF ClientActives
<1>4. MessageRight(c, s, k, channel[i].message, number)
  BY <1>2 DEF MessagesRight
<1>5. QED
  BY <1>3, <1>4 DEF MessageRight, ActiveRight

LEMMA SendClientSnapshotRight ==
    ASSUME IInv, NEW count \in LinkedCounts, SV_SendClientSnapshot(count)
    PROVE  IInv'
<1>1. svs \in Storages /\ client \in Clients /\ cl \in ClientActives
      /\ toClient \in Seq(ServerMessages) /\ toServer \in Seq(Packets)
  BY DEF IInv, Types
<1>2. cl' = cl /\ toServer' = toServer
  BY DEF SV_SendClientSnapshot
<1>3. /\ svs' \in Storages /\ StorageRight(svs') /\ Later(svs, svs')
      /\ svs'.snapshotFrame = svs.snapshotFrame + 1 /\ svs'.built = svs.built + 1
      /\ CurrFrame(svs') = FrameOf(svs', svs.snapshotFrame)
      /\ CurrFrame(svs').frameNum = svs.snapshotFrame
  <2>1. svs' = SV_BuildCommonSnapshot(svs, count)
    BY DEF SV_SendClientSnapshot
  <2>2. QED
    BY <1>1, <2>1, BuiltRight DEF IInv
<1>4. ServerRight(client, svs') /\ svs.snapshotFrame \in Nat
  <2>1. svs.snapshotFrame \in Nat
    BY <1>1 DEF Storages
  <2>2. QED
    BY <1>1, <1>3, <2>1, FramesLater DEF IInv
<1> DEFINE b == SV_BuildClientSnapshot(client, svs')
           d == MessageLeaves(b)
           m == SV_WriteSnapshotToClient(b, svs')
           out == client.outgoingSequence
           sent == [message |-> m, number |-> out]
<1>5. /\ b \in Clients /\ d \in Clients
      /\ \A n \in Int : n < out /\ out - n < PacketBackup
            => b.frames[PacketSlot(n)] = client.frames[PacketSlot(n)]
      /\ b.state = client.state /\ b.deltaMessage = client.deltaMessage
      /\ b.outgoingSequence = out
      /\ d.state = client.state /\ d.deltaMessage = client.deltaMessage
      /\ d.gamestateMessageNum = client.gamestateMessageNum
      /\ d.outgoingSequence = out + 1
      /\ Framed(d, out)
      /\ ServerRight(d, svs')
      /\ \A n \in Int : n < out /\ Framed(client, n) => Framed(d, n)
  <2>1. b = SV_BuildClientSnapshot(client, svs') /\ d = MessageLeaves(b)
    OBVIOUS
  <2> HIDE DEF b, d
  <2>2. QED
    BY <1>1, <1>3, <1>4, <2>1, ClientSnapshotBuilt
<1>6. client' = d /\ toClient' = Post(toClient, sent) /\ b.outgoingSequence = out
  <2>1. /\ toClient' = Post(toClient, [message |-> m, number |-> b.outgoingSequence])
        /\ client' = d
    BY DEF SV_SendClientSnapshot, SV_SendMessageToClient, MessageLeaves
  <2>2. QED
    BY <1>5, <2>1
<1> HIDE DEF d
<1>7. /\ m \in Contents /\ m.kind = "snapshot" /\ m.entities <= SnapshotEntities /\ m.whole
      /\ m.delta # 0 => client.state = "active" /\ DeltaKept(cl, out, m.delta)
  <2> HIDE DEF b
  <2>1. ActiveRight(client, cl, toServer)
    BY DEF IInv
  <2>2. QED
    BY <1>1, <1>3, <1>4, <1>5, <2>1, WrittenRight
<1> HIDE DEF b, m
<1>8. out \in Nat /\ client.gamestateMessageNum \in Nat
  BY <1>1, ClientTypes
<1>9. Forward(client, svs, d, svs')
  <2>1. svs'.level = svs.level /\ svs.level \in Nat
    BY <1>1, <1>3 DEF Later, Storages
  <2>2. QED
    BY <1>5, <1>8, <2>1 DEF Forward
<1>10. BothRight(d, svs', cl) /\ cl.serverMessageSequence < out
       /\ cl.serverMessageSequence \in Nat
  <2>1. BothRight(client, svs, cl) /\ ClientRight(cl)
    BY DEF IInv
  <2>2. QED
    BY <1>1, <1>3, <1>5, <1>9, <2>1, BothFollow DEF BothRight, ClientActives
<1>11. MessagesRight(d, svs', cl, toClient)
  BY <1>1, <1>3, <1>5, <1>9, MessagesFollow DEF IInv
<1>12. PacketsRight(d, cl, toServer)
  BY <1>1, <1>3, <1>5, <1>9, PacketsFollow DEF IInv
<1>13. ActiveRight(d, cl, toServer)
  BY <1>1, <1>3, <1>5, <1>9, ActiveFollows DEF IInv
<1>14. sent \in ServerMessages /\ sent.message = m /\ sent.number = out
  BY <1>7, <1>8 DEF ServerMessages
<1> HIDE DEF sent
<1>15. MessageRight(d, svs', cl, sent.message, sent.number)
  BY <1>5, <1>7, <1>8, <1>10, <1>14 DEF MessageRight
<1>16. \A i \in 1..Len(toClient) :
          /\ toClient[i].number < out
          /\ toClient[i].message.kind = "gamestate" => m.delta = 0
  <2>1. SUFFICES ASSUME NEW i \in 1..Len(toClient)
                 PROVE  /\ toClient[i].number < out
                        /\ toClient[i].message.kind = "gamestate" => m.delta = 0
    OBVIOUS
  <2>2. MessagesRight(client, svs, cl, toClient) /\ ActiveRight(client, cl, toServer)
    BY DEF IInv
  <2>3. toClient[i].number < out
    BY <2>2 DEF MessagesRight, MessageRight
  <2>4. client.state = "active" => toClient[i].message.kind # "gamestate"
    BY <1>1, <2>2, NoGamestateToActive
  <2>5. QED
    BY <1>7, <2>3, <2>4
<1>17. /\ Post(toClient, sent) \in Seq(ServerMessages)
       /\ MessagesRight(d, svs', cl, Post(toClient, sent))
  BY <1>1, <1>11, <1>14, <1>15, <1>16, MessagePosted
<1>18. Types'
  BY <1>1, <1>2, <1>3, <1>5, <1>6, <1>17 DEF Types
<1>19. Bounded'
  <2>1. svs.built < MaxFrames /\ svs.built \in Nat /\ svs.snapshotFrame \in Nat
        /\ out <= MaxMessages
    BY <1>1 DEF SV_SendClientSnapshot, Storages
  <2>2. svs'.level = svs.level
    BY <1>3 DEF Later
  <2>3. svs'.built <= MaxFrames /\ svs'.snapshotFrame <= svs'.built
    BY <1>3, <2>1, Sizes DEF IInv, Bounded
  <2>4. d.outgoingSequence <= MaxMessages + 1
    BY <1>5, <1>8, <2>1, Sizes
  <2>5. -PacketBackup <= client.deltaMessage /\ client.deltaMessage < out + 1
    <3>1. client.deltaMessage \in Int
      BY <1>1, ClientTypes
    <3>2. QED
      BY <1>8, <3>1 DEF IInv, Bounded
  <2>6. QED
    BY <1>5, <1>6, <2>2, <2>3, <2>4, <2>5 DEF IInv, Bounded
<1>20. QED
  BY <1>2, <1>3, <1>5, <1>6, <1>10, <1>12, <1>13, <1>17, <1>18, <1>19 DEF IInv

LEMMA SpawnServerRight ==
    ASSUME IInv, SV_SpawnServer
    PROVE  IInv'
<1>1. svs \in Storages /\ client \in Clients /\ cl \in ClientActives
      /\ toClient \in Seq(ServerMessages) /\ toServer \in Seq(Packets)
  BY DEF IInv, Types
<1>2. cl' = cl /\ toServer' = toServer /\ toClient' = toClient
  BY DEF SV_SpawnServer
<1>3. svs.level \in Nat /\ svs.built \in Nat /\ svs.level < MaxLevels
  BY <1>1 DEF Storages, SV_SpawnServer
<1>4. /\ svs'.level = svs.level + 1 /\ svs'.built = svs.built
      /\ svs'.snapshotFrame = 0 /\ svs'.lastValidFrame = 0
      /\ svs'.freeStorageEntities = StorageEntities /\ svs'.currentStoragePosition = 0
      /\ svs' \in Storages
  <2>1. [i \in 0..(SnapshotFrames - 1) |-> [frameNum |-> 0, start |-> 0, count |-> 0]]
            \in [0..(SnapshotFrames - 1) -> SnapFrames]
    BY DEF SnapFrames
  <2>2. [p \in 0..(StorageEntities - 1) |-> None] \in [0..(StorageEntities - 1) -> Nat \X Nat]
    <3>1. None \in Nat \X Nat
      BY DEF None
    <3>2. QED
      BY <3>1
  <2>3. svs' = EmptyStorage(svs.level + 1, svs.built)
    BY DEF SV_SpawnServer, SV_InitSnapshotStorage
  <2>4. svs.level + 1 \in Nat /\ StorageEntities \in Int
    BY <1>3, Sizes
  <2>5. QED
    BY <1>3, <2>1, <2>2, <2>3, <2>4 DEF EmptyStorage, Storages
<1>5. StorageRight(svs')
  <2> DEFINE E == [n \in Nat |-> 0]
  <2>1. E \in [Nat -> Nat] /\ E[0] = 0 /\ 0 % StorageEntities = 0
    BY Sizes
  <2>2. \A f, g \in 0..0 : f <= g => E[f] <= E[g]
    BY <2>1
  <2> HIDE DEF E
  <2>3. 0..(0 - 1) = {}
    OBVIOUS
  <2>4. StorageAt(svs', E)
    BY <1>4, <2>1, <2>2, <2>3, Sizes DEF StorageAt
  <2>5. QED
    BY <2>1, <2>4 DEF StorageRight
<1>6. /\ client' \in Clients /\ client'.state = "connected"
      /\ client'.outgoingSequence = client.outgoingSequence
      /\ client'.gamestateMessageNum = client.gamestateMessageNum
      /\ client'.deltaMessage = client.deltaMessage
      /\ client'.frames = client.frames
  <2>1. client' = [client EXCEPT !.state = "connected"]
    BY DEF SV_SpawnServer
  <2>2. QED
    BY <1>1, <2>1 DEF Clients
<1>7. Forward(client, svs, client', svs')
  BY <1>1, <1>3, <1>4, <1>6, ClientTypes DEF Forward, Framed
<1>8. ServerRight(client', svs')
  <2>1. ServerRight(client, svs)
    BY DEF IInv
  <2>2. ASSUME NEW i \in 0..(PacketBackup - 1)
        PROVE  FrameRight(client', svs', client.frames[i])
    <3>1. FrameRight(client, svs, client.frames[i])
      BY <2>1 DEF ServerRight
    <3>2. PICK frame \in Frames : frame = client.frames[i]
      BY <1>1 DEF Clients
    <3>3. frame.level \in Nat
      BY DEF Frames
    <3>4. frame.level <= svs'.level /\ frame.level # svs'.level
      BY <1>3, <1>4, <3>1, <3>2, <3>3 DEF FrameRight
    <3>5. FrameRight(client', svs', frame)
      BY <1>6, <3>1, <3>2, <3>4 DEF FrameRight
    <3>6. QED
      BY <3>2, <3>5
  <2>3. QED
    BY <1>6, <2>1, <2>2 DEF ServerRight
<1>9. BothRight(client', svs', cl)
  BY <1>1, <1>4, <1>6, <1>7, BothFollow DEF IInv
<1>10. MessagesRight(client', svs', cl, toClient)
  BY <1>1, <1>4, <1>6, <1>7, MessagesFollow DEF IInv
<1>11. PacketsRight(client', cl, toServer)
  BY <1>1, <1>4, <1>6, <1>7, PacketsFollow DEF IInv
<1>12. ActiveRight(client', cl, toServer)
  BY <1>6 DEF ActiveRight
<1>13. Types'
  BY <1>1, <1>2, <1>4, <1>6 DEF Types
<1>14. Bounded'
  BY <1>3, <1>4, <1>6, Sizes DEF IInv, Bounded
<1>15. QED
  BY <1>2, <1>5, <1>8, <1>9, <1>10, <1>11, <1>12, <1>13, <1>14 DEF IInv

\* A packet that is dropped, or received without effect.
LEMMA PacketLost ==
    ASSUME IInv, NEW i \in 1..Len(toServer), ToServer!Overtake(i),
           UNCHANGED <<svs, client, cl, toClient>>
    PROVE  IInv'
<1>1. toServer \in Seq(Packets) /\ PacketsRight(client, cl, toServer)
      /\ ActiveRight(client, cl, toServer)
  BY DEF IInv, Types
<1>2. toServer' = SubSeq(toServer, i + 1, Len(toServer))
  BY DEF ToServer!Overtake
<1>3. toServer' \in Seq(Packets) /\ PacketsRight(client, cl, toServer')
      /\ ActiveRight(client, cl, toServer')
  BY <1>1, <1>2, PacketsDropped
<1>4. svs' = svs /\ client' = client /\ cl' = cl /\ toClient' = toClient
  OBVIOUS
<1>5. Types'
  BY <1>3, <1>4 DEF IInv, Types
<1>6. Bounded'
  BY <1>4 DEF IInv, Bounded
<1>7. QED
  BY <1>3, <1>4, <1>5, <1>6 DEF IInv

\* A gamestate leaves: nothing that was sent before it is newer.
LEMMA GamestateSent ==
    ASSUME IInv, NEW i \in 1..Len(toServer), ToServer!Overtake(i),
           SV_SendClientGameState, UNCHANGED <<svs, cl>>
    PROVE  IInv'
<1>1. svs \in Storages /\ client \in Clients /\ cl \in ClientActives
      /\ toClient \in Seq(ServerMessages) /\ toServer \in Seq(Packets)
  BY DEF IInv, Types
<1>2. svs' = svs /\ cl' = cl
  OBVIOUS
<1> DEFINE out == client.outgoingSequence
           m == Gamestate(svs.level)
           sent == [message |-> m, number |-> out]
<1>3. out \in Nat /\ client.gamestateMessageNum \in Nat /\ client.deltaMessage \in Int
      /\ out <= MaxMessages
  BY <1>1, ClientTypes DEF SV_SendClientGameState
<1>4. /\ client' \in Clients /\ client'.state = "primed"
      /\ client'.outgoingSequence = out + 1
      /\ client'.gamestateMessageNum = out
      /\ client'.deltaMessage = client.deltaMessage
      /\ client'.frames = client.frames
      /\ toClient' = Post(toClient, sent)
  <2> DEFINE c == [client EXCEPT !.state = "primed", !.gamestateMessageNum = out]
  <2>1. c \in Clients /\ c.state = "primed" /\ c.outgoingSequence = out
        /\ c.gamestateMessageNum = out /\ c.deltaMessage = client.deltaMessage
        /\ c.frames = client.frames
    BY <1>1, <1>3 DEF Clients
  <2>2. client' = MessageLeaves(c) /\ toClient' = Post(toClient, [message |-> m, number |-> c.outgoingSequence])
    BY DEF SV_SendClientGameState, SV_SendMessageToClient, MessageLeaves
  <2> HIDE DEF c
  <2>3. out + 1 \in Nat
    BY <1>3
  <2>4. QED
    BY <2>1, <2>2, <2>3 DEF MessageLeaves, Clients
<1>5. Forward(client, svs, client', svs)
  <2>1. client.gamestateMessageNum <= out
    BY <1>3 DEF IInv, ServerRight
  <2>2. svs.level \in Nat
    BY <1>1 DEF Storages
  <2>3. ASSUME NEW n \in Int, Framed(client, n) PROVE Framed(client', n)
    BY <1>3, <1>4, <2>3, Sizes DEF Framed
  <2>4. QED
    BY <1>3, <1>4, <2>1, <2>2, <2>3 DEF Forward
<1>6. ServerRight(client', svs)
  <2>1. ServerRight(client, svs)
    BY DEF IInv
  <2>2. ASSUME NEW j \in 0..(PacketBackup - 1)
        PROVE  FrameRight(client', svs, client.frames[j])
    <3>1. FrameRight(client, svs, client.frames[j])
      BY <2>1 DEF ServerRight
    <3>2. PICK frame \in Frames : frame = client.frames[j]
      BY <1>1 DEF Clients
    <3>3. frame.number \in Nat
      BY DEF Frames
    <3>4. FrameRight(client', svs, frame)
      BY <1>3, <1>4, <3>1, <3>2, <3>3 DEF FrameRight
    <3>5. QED
      BY <3>2, <3>4
  <2>3. 1 <= out /\ out < out + 1
    BY <1>3, <2>1 DEF ServerRight
  <2>4. QED
    BY <1>4, <2>2, <2>3 DEF ServerRight
<1>7. BothRight(client', svs, cl)
  BY <1>1, <1>4, <1>5, BothFollow DEF IInv
<1>8. MessagesRight(client', svs, cl, toClient)
  BY <1>1, <1>4, <1>5, MessagesFollow DEF IInv
<1>9. PacketsRight(client', cl, toServer)
  BY <1>1, <1>4, <1>5, PacketsFollow DEF IInv
<1>10. ActiveRight(client', cl, toServer)
  BY <1>4 DEF ActiveRight
<1>11. toServer' \in Seq(Packets) /\ PacketsRight(client', cl, toServer')
       /\ ActiveRight(client', cl, toServer')
  BY <1>1, <1>9, <1>10, PacketsDropped DEF ToServer!Overtake
<1>12. m \in Contents /\ m.kind = "gamestate" /\ m.delta = 0 /\ m.level = svs.level
  BY <1>1 DEF Gamestate, Contents, Storages
<1> HIDE DEF m
<1>13. sent \in ServerMessages /\ sent.message = m /\ sent.number = out
  BY <1>3, <1>12 DEF ServerMessages
<1> HIDE DEF sent
<1>14. MessageRight(client', svs, cl, sent.message, sent.number)
  <2>1. 1 <= svs.level /\ svs.level <= svs.level
    BY <1>1 DEF IInv, Bounded, Storages
  <2>2. cl.serverMessageSequence < out /\ out < out + 1 /\ out <= out
    BY <1>3 DEF IInv, BothRight
  <2>3. QED
    BY <1>4, <1>12, <1>13, <2>1, <2>2 DEF MessageRight
<1>15. \A j \in 1..Len(toClient) : toClient[j].number < out
  BY DEF IInv, MessagesRight, MessageRight
<1>16. /\ Post(toClient, sent) \in Seq(ServerMessages)
       /\ MessagesRight(client', svs, cl, Post(toClient, sent))
  BY <1>1, <1>8, <1>12, <1>13, <1>14, <1>15, MessagePosted
<1>17. Types'
  BY <1>1, <1>2, <1>4, <1>11, <1>16 DEF Types
<1>18. Bounded'
  <2>1. out + 1 <= MaxMessages + 1 /\ client.deltaMessage < out + 1
    BY <1>3, Sizes DEF IInv, Bounded
  <2>2. QED
    BY <1>2, <1>4, <2>1 DEF IInv, Bounded
<1>19. QED
  BY <1>2, <1>4, <1>6, <1>7, <1>11, <1>16, <1>17, <1>18 DEF IInv

\* A client that enters the world, or moves there, by a packet that acknowledges
\* its gamestate or a later message.
LEMMA UserMoveRight ==
    ASSUME IInv, NEW i \in 1..Len(toServer), ToServer!Overtake(i),
           UNCHANGED <<svs, cl, toClient>>,
           client'.state = "active",
           client'.outgoingSequence = client.outgoingSequence,
           client'.gamestateMessageNum = client.gamestateMessageNum,
           client'.frames = client.frames, client.state # "connected",
           client' \in Clients,
           NEW a \in Nat, a = toServer[i].messageAcknowledge,
           client.gamestateMessageNum <= a,
           \/ client'.deltaMessage = client.outgoingSequence - (PacketBackup + 1)
           \/ client'.deltaMessage = a /\ toServer[i].delta
    PROVE  IInv'
<1>1. svs \in Storages /\ client \in Clients /\ cl \in ClientActives
      /\ toClient \in Seq(ServerMessages) /\ toServer \in Seq(Packets)
  BY DEF IInv, Types
<1>2. svs' = svs /\ cl' = cl /\ toClient' = toClient
  OBVIOUS
<1> DEFINE out == client.outgoingSequence
<1>3. out \in Nat /\ client.gamestateMessageNum \in Nat /\ 1 <= out
  <2>1. out \in Nat /\ client.gamestateMessageNum \in Nat
    BY <1>1, ClientTypes
  <2>2. QED
    BY <2>1 DEF IInv, ServerRight
<1>4. Forward(client, svs, client', svs)
  <2>1. svs.level \in Nat
    BY <1>1 DEF Storages
  <2>2. QED
    BY <1>3, <2>1 DEF Forward, Framed
<1>5. ServerRight(client', svs)
  <2>1. ServerRight(client, svs)
    BY DEF IInv
  <2>2. ASSUME NEW j \in 0..(PacketBackup - 1)
        PROVE  FrameRight(client', svs, client.frames[j])
    BY <2>1 DEF ServerRight, FrameRight
  <2>3. QED
    BY <2>1, <2>2 DEF ServerRight
<1>6. BothRight(client', svs, cl)
  BY <1>1, <1>4, BothFollow DEF IInv
<1>7. MessagesRight(client', svs, cl, toClient)
  BY <1>1, <1>4, MessagesFollow DEF IInv
<1>8. PacketsRight(client', cl, toServer) /\ PacketsRight(client, cl, toServer)
  BY <1>1, <1>4, PacketsFollow DEF IInv
<1>9. /\ toServer' \in Seq(Packets) /\ PacketsRight(client', cl, toServer')
      /\ \A j \in 1..Len(toServer') : a <= toServer'[j].messageAcknowledge
  <2> DEFINE rest == SubSeq(toServer, i + 1, Len(toServer))
  <2>1. toServer' = rest
    BY DEF ToServer!Overtake
  <2>2. /\ rest \in Seq(Packets)
        /\ \A j \in 1..Len(rest) :
              i + j \in 1..Len(toServer) /\ i < i + j /\ rest[j] = toServer[i + j]
    BY <1>1, Overtaken
  <2> HIDE DEF rest
  <2>3. \A j, g \in 1..Len(rest) : j < g => i + j < i + g
    BY <2>2, LenProperties
  <2>4. PacketsRight(client', cl, rest)
    BY <1>8, <2>2, <2>3 DEF PacketsRight
  <2>5. \A j \in 1..Len(rest) : a <= rest[j].messageAcknowledge
    BY <1>8, <2>2 DEF PacketsRight
  <2>6. QED
    BY <2>1, <2>2, <2>4, <2>5
<1>10. a <= cl.serverMessageSequence /\ cl.serverMessageSequence \in Nat
       /\ cl.serverMessageSequence < out
  BY <1>1, <1>8 DEF PacketsRight, ClientActives, IInv, BothRight
<1>11. /\ BaseRight(client', cl, client'.deltaMessage)
       /\ -PacketBackup <= client'.deltaMessage
       /\ client'.deltaMessage < out
  <2>1. CASE client'.deltaMessage = out - (PacketBackup + 1)
    <3>1. PICK n \in Int : n = client'.deltaMessage
      BY <1>3, <2>1, Sizes
    <3>2. out - n = PacketBackup + 1
      BY <1>3, <2>1, <3>1, Sizes
    <3>3. ~(client'.outgoingSequence - n < PacketBackup - DeltaMargin)
      BY <3>2, Sizes
    <3>4. BaseRight(client', cl, n)
      BY <3>3 DEF BaseRight
    <3>5. -PacketBackup <= n /\ n < out
      BY <1>3, <3>1, <3>2, Sizes
    <3>6. QED
      BY <3>1, <3>4, <3>5
  <2>2. CASE client'.deltaMessage = a /\ toServer[i].delta
    <3>1. AskedFor(client', cl, a)
      BY <1>8, <2>2 DEF PacketsRight
    <3>2. Framed(client', a) /\ Kept(cl, a)
      BY <1>3, <3>1 DEF AskedFor
    <3>3. BaseRight(client', cl, a)
      BY <1>10, <3>2 DEF BaseRight
    <3>4. -PacketBackup <= a /\ a < out
      BY <1>3, <1>10, Sizes
    <3>5. QED
      BY <2>2, <3>3, <3>4
  <2>3. QED
    BY <2>1, <2>2
<1>12. ActiveRight(client', cl, toServer')
  <2>1. \A j \in 1..Len(toServer') :
            client.gamestateMessageNum <= toServer'[j].messageAcknowledge
    <3>1. SUFFICES ASSUME NEW j \in 1..Len(toServer')
                   PROVE  client.gamestateMessageNum <= toServer'[j].messageAcknowledge
      OBVIOUS
    <3>2. toServer'[j] \in Packets
      BY <1>9, ElementOfSeq
    <3>3. toServer'[j].messageAcknowledge \in Nat
      BY <3>2 DEF Packets
    <3>4. QED
      BY <1>3, <1>9, <3>3
  <2>2. client.gamestateMessageNum <= cl.serverMessageSequence
    BY <1>3, <1>10
  <2>3. QED
    BY <1>11, <2>1, <2>2 DEF ActiveRight
<1>13. Types'
  BY <1>1, <1>2, <1>9 DEF Types
<1>14. Bounded'
  BY <1>2, <1>11 DEF IInv, Bounded
<1>15. QED
  BY <1>2, <1>5, <1>6, <1>7, <1>9, <1>12, <1>13, <1>14 DEF IInv

LEMMA ServerPacketRight ==
    ASSUME IInv, NEW i \in 1..Len(toServer), SV_PacketEvent(i)
    PROVE  IInv'
<1>1. client \in Clients /\ toServer \in Seq(Packets) /\ PacketsRight(client, cl, toServer)
      /\ ActiveRight(client, cl, toServer)
  BY DEF IInv, Types
<1>2. ToServer!Overtake(i) /\ svs' = svs /\ cl' = cl
  BY DEF SV_PacketEvent
<1> DEFINE m == toServer[i]
<1>3. m \in Packets /\ m.messageAcknowledge \in Nat /\ m.delta \in BOOLEAN
  <2>1. m \in Packets
    BY <1>1, ElementOfSeq
  <2>2. QED
    BY <2>1 DEF Packets
<1>4. CASE SV_SendClientGameState
  BY <1>2, <1>4, GamestateSent
<1>5. CASE UNCHANGED <<client, toClient>>
  BY <1>2, <1>5, PacketLost
<1>6. client.outgoingSequence \in Nat /\ client.gamestateMessageNum \in Nat
      /\ client.outgoingSequence - (PacketBackup + 1) \in Int
  BY <1>1, ClientTypes, Sizes
<1>7. UserMoveDelta(client, m) \in Int
      /\ \/ UserMoveDelta(client, m) = client.outgoingSequence - (PacketBackup + 1)
         \/ UserMoveDelta(client, m) = m.messageAcknowledge /\ m.delta
  <2> HIDE DEF m
  <2>1. QED
    BY <1>3, <1>6 DEF UserMoveDelta, NoDelta
<1>8. CASE /\ client.state = "primed" /\ MayAcknowledge(client, m)
           /\ client' = SV_ClientEnterWorld(SV_UserMove(client, m))
           /\ UNCHANGED toClient
  <2>1. /\ client' \in Clients /\ client'.state = "active"
        /\ client'.outgoingSequence = client.outgoingSequence
        /\ client'.gamestateMessageNum = client.gamestateMessageNum
        /\ client'.frames = client.frames
        /\ client'.deltaMessage = client.outgoingSequence - (PacketBackup + 1)
    <3> DEFINE c == SV_UserMove(client, m)
    <3>1. /\ c \in Clients /\ c.outgoingSequence = client.outgoingSequence
          /\ c.gamestateMessageNum = client.gamestateMessageNum
          /\ c.frames = client.frames
      BY <1>1, <1>7 DEF SV_UserMove, Clients
    <3>2. client' = [c EXCEPT !.state = "active", !.deltaMessage = NoDelta(c)]
      BY <1>8 DEF SV_ClientEnterWorld
    <3> HIDE DEF c
    <3>3. NoDelta(c) = client.outgoingSequence - (PacketBackup + 1)
      BY <3>1 DEF NoDelta
    <3>4. QED
      BY <1>6, <3>1, <3>2, <3>3 DEF Clients
  <2>2. client.gamestateMessageNum <= m.messageAcknowledge
    BY <1>3, <1>6, <1>8 DEF MayAcknowledge
  <2>3. PICK a \in Nat : a = m.messageAcknowledge
    BY <1>3
  <2>4. client.state # "connected" /\ UNCHANGED <<svs, cl, toClient>>
    BY <1>2, <1>8
  <2>5. QED
    BY <1>2, <2>1, <2>2, <2>3, <2>4, UserMoveRight
<1>9. CASE /\ client.state = "active"
           /\ client' = SV_UserMove(client, m)
           /\ UNCHANGED toClient
  <2>1. /\ client' \in Clients /\ client'.state = "active"
        /\ client'.outgoingSequence = client.outgoingSequence
        /\ client'.gamestateMessageNum = client.gamestateMessageNum
        /\ client'.frames = client.frames
        /\ client'.deltaMessage = UserMoveDelta(client, m)
    BY <1>1, <1>7, <1>9 DEF SV_UserMove, Clients
  <2>2. client.gamestateMessageNum <= m.messageAcknowledge
    BY <1>1, <1>9 DEF ActiveRight
  <2>3. PICK a \in Nat : a = m.messageAcknowledge
    BY <1>3
  <2>4. client.state # "connected" /\ UNCHANGED <<svs, cl, toClient>>
    BY <1>2, <1>9
  <2>5. \/ client'.deltaMessage = client.outgoingSequence - (PacketBackup + 1)
        \/ client'.deltaMessage = a /\ toServer[i].delta
    BY <1>7, <2>1, <2>3
  <2>6. QED
    BY <1>2, <2>1, <2>2, <2>3, <2>4, <2>5, UserMoveRight
<1>10. QED
  BY <1>4, <1>5, <1>8, <1>9 DEF SV_PacketEvent

-----------------------------------------------------------------------------
\* The client reads a snapshot.

LEMMA ClientActiveTypes ==
    ASSUME NEW k \in ClientActives
    PROVE  /\ k.level \in Nat /\ k.serverMessageSequence \in Nat
           /\ k.parseEntitiesNum \in Nat /\ k.snap \in ClSnapshots
           /\ k.snap.messageNum \in Nat /\ k.snap.parseEntitiesNum \in Nat
           /\ k.snap.numEntities \in Nat /\ k.snap.valid \in BOOLEAN
           /\ k.snapshots \in [0..(PacketBackup - 1) -> ClSnapshots]
           /\ k.parseEntities \in [0..(ParseEntities - 1) -> Nat]
  BY DEF ClientActives, ClSnapshots

LEMMA ClSnapshotTypes ==
    ASSUME NEW s \in ClSnapshots
    PROVE  /\ s.messageNum \in Nat /\ s.parseEntitiesNum \in Nat /\ s.numEntities \in Nat
           /\ s.valid \in BOOLEAN /\ s.right \in BOOLEAN
  BY DEF ClSnapshots

\* The entities of a run of the ring are all those of message v.
RunOf(entities, start, count, v) ==
    \A j \in 0..(count - 1) : entities[(start + j) % ParseEntities] = v

LEMMA EntitiesParsed ==
    ASSUME NEW k \in ClientActives, NEW m \in Contents, NEW number \in Nat,
           NEW r, r = CL_ParsePacketEntities(k, m, number)
    PROVE  /\ r \in ClientActives
           /\ r.parseEntitiesNum = k.parseEntitiesNum + m.entities
           /\ r.level = k.level /\ r.serverMessageSequence = k.serverMessageSequence
           /\ r.snap = k.snap /\ r.snapshots = k.snapshots /\ r.dumped = k.dumped
           /\ \A p, count \in Nat : \A v :
                 /\ p + count <= k.parseEntitiesNum
                 /\ r.parseEntitiesNum - p < ParseEntities
                 /\ RunOf(k.parseEntities, p, count, v)
                 => RunOf(r.parseEntities, p, count, v)
           /\ m.entities < ParseEntities
                 => RunOf(r.parseEntities, k.parseEntitiesNum, m.entities, number)
<1> DEFINE pen == k.parseEntitiesNum
           n == m.entities
           At(i) == (pen + i) % ParseEntities
           written == [q \in DOMAIN k.parseEntities |->
               IF \E i \in 0..(n - 1) : At(i) = q THEN number ELSE k.parseEntities[q]]
           entities == IF m.removal THEN [written EXCEPT ![At(n)] = 0] ELSE written
<1>1. pen \in Nat /\ n \in Nat /\ ParseEntities \in Nat /\ ParseEntities >= 1
      /\ m.removal \in BOOLEAN
  BY ClientActiveTypes, ParseEntitiesType, Sizes DEF Contents
<1>2. k.parseEntities \in [0..(ParseEntities - 1) -> Nat]
  BY ClientActiveTypes
<1>3. \A i \in Nat : At(i) \in 0..(ParseEntities - 1)
  BY <1>1
<1>4. written \in [0..(ParseEntities - 1) -> Nat]
  BY <1>2
<1>5. \A q \in 0..(ParseEntities - 1) :
          /\ (\A i \in 0..(n - 1) : At(i) # q) => written[q] = k.parseEntities[q]
          /\ (\E i \in 0..(n - 1) : At(i) = q) => written[q] = number
  BY <1>2
<1> HIDE DEF written, At
<1>6. entities \in [0..(ParseEntities - 1) -> Nat]
  BY <1>1, <1>3, <1>4
<1>7. \A q \in 0..(ParseEntities - 1) : q # At(n) => entities[q] = written[q]
  BY <1>4
<1> HIDE DEF entities
<1>8. /\ r \in ClientActives
      /\ r.parseEntitiesNum = pen + n /\ r.parseEntities = entities
      /\ r.level = k.level /\ r.serverMessageSequence = k.serverMessageSequence
      /\ r.snap = k.snap /\ r.snapshots = k.snapshots /\ r.dumped = k.dumped
  <2>1. r = [k EXCEPT !.parseEntitiesNum = @ + n, !.parseEntities = entities]
    BY DEF CL_ParsePacketEntities, entities, written, At
  <2>2. pen + n \in Nat
    BY <1>1
  <2>3. QED
    BY <1>6, <2>1, <2>2 DEF ClientActives
<1>9. ASSUME NEW p \in Nat, NEW count \in Nat, NEW v, p + count <= pen,
             (pen + n) - p < ParseEntities, RunOf(k.parseEntities, p, count, v)
      PROVE  RunOf(entities, p, count, v)
  <2>1. SUFFICES ASSUME NEW j \in 0..(count - 1)
                 PROVE  entities[(p + j) % ParseEntities] = v
    BY DEF RunOf
  <2>2. PICK q \in 0..(ParseEntities - 1) : q = (p + j) % ParseEntities
    <3>1. p + j \in Int
      OBVIOUS
    <3>2. (p + j) % ParseEntities \in 0..(ParseEntities - 1)
      BY <1>1, <3>1, ModType
    <3>3. QED
      BY <3>2
  <2>3. k.parseEntities[q] = v
    BY <1>9, <2>2 DEF RunOf
  <2>4. ASSUME NEW i \in 0..n PROVE At(i) # q
    <3>1. /\ p + j \in Int /\ pen + i \in Int /\ p + j < pen + i
          /\ (pen + i) - (p + j) < ParseEntities
      BY <1>1, <1>9
    <3>2. (p + j) % ParseEntities # (pen + i) % ParseEntities
      BY <1>1, <3>1, Apart
    <3>3. QED
      BY <2>2, <3>2 DEF At
  <2>5. q # At(n) /\ \A i \in 0..(n - 1) : At(i) # q
    BY <1>1, <2>4
  <2>6. entities[q] = k.parseEntities[q]
    BY <1>5, <1>7, <2>5
  <2>7. QED
    BY <2>2, <2>3, <2>6
<1>10. ASSUME n < ParseEntities PROVE RunOf(entities, pen, n, number)
  <2>1. SUFFICES ASSUME NEW j \in 0..(n - 1)
                 PROVE  entities[(pen + j) % ParseEntities] = number
    BY DEF RunOf
  <2>2. At(j) \in 0..(ParseEntities - 1) /\ written[At(j)] = number
    BY <1>3, <1>5
  <2>3. At(j) # At(n)
    <3>1. /\ pen + j \in Int /\ pen + n \in Int /\ pen + j < pen + n
          /\ (pen + n) - (pen + j) < ParseEntities
      BY <1>1, <1>10
    <3>2. (pen + j) % ParseEntities # (pen + n) % ParseEntities
      BY <1>1, <3>1, Apart
    <3>3. QED
      BY <3>2 DEF At
  <2>4. entities[At(j)] = number
    BY <1>7, <2>2, <2>3
  <2>5. QED
    BY <2>4 DEF At
<1>11. QED
  BY <1>8, <1>9, <1>10

LEMMA IntactRun ==
    ASSUME NEW k, NEW s
    PROVE  EntitiesIntact(k, s)
           <=> RunOf(k.parseEntities, s.parseEntitiesNum, s.numEntities, s.messageNum)
  BY DEF EntitiesIntact, RunOf

\* The base of a snapshot that the client keeps passes every check of the client.
LEMMA KeptUsable ==
    ASSUME NEW k \in ClientActives, ClientRight(k), NEW number \in Nat, NEW delta \in Nat,
           delta # 0, k.serverMessageSequence < number, DeltaKept(k, number, delta),
           NEW old, old = k.snapshots[PacketSlot(number - delta)]
    PROVE  /\ old.valid /\ old.right /\ old.messageNum = number - delta
           /\ k.parseEntitiesNum - old.parseEntitiesNum <= ParseEntities - SnapshotEntities
           /\ EntitiesIntact(k, old)
<1>1. PICK a \in Nat : a = number - delta
  <2>1. number - delta \in Nat
    BY DEF DeltaKept
  <2>2. QED
    BY <2>1
<1>2. k.serverMessageSequence \in Nat /\ k.parseEntitiesNum \in Nat
      /\ old \in ClSnapshots /\ PacketSlot(a) \in 0..(PacketBackup - 1)
  <2>1. a \in Int /\ PacketSlot(a) \in 0..(PacketBackup - 1)
    BY PacketSlotType
  <2>2. old = k.snapshots[PacketSlot(a)]
    BY <1>1
  <2>3. k.snapshots \in [0..(PacketBackup - 1) -> ClSnapshots]
    BY ClientActiveTypes
  <2>4. QED
    BY <2>1, <2>2, <2>3, ClientActiveTypes
<1>3. old.parseEntitiesNum \in Nat
  BY <1>2, ClSnapshotTypes
<1>4. k.serverMessageSequence - a < PacketBackup - 1
      /\ 1 <= a /\ a <= k.serverMessageSequence /\ Kept(k, a)
  BY <1>1, <1>2, Sizes DEF DeltaKept
<1>5. /\ old.valid /\ old.messageNum = a
      /\ k.parseEntitiesNum - old.parseEntitiesNum
            <= SnapshotEntities * (k.serverMessageSequence - a + 1)
  BY <1>1, <1>2, <1>4, Sizes DEF Kept
<1>6. k.parseEntitiesNum - old.parseEntitiesNum <= ParseEntities - SnapshotEntities
  <2>1. PICK x \in Nat : x = k.serverMessageSequence - a + 1
    <3>1. k.serverMessageSequence - a + 1 \in Nat
      BY <1>2, <1>4
    <3>2. QED
      BY <3>1
  <2>2. PICK y \in Nat : y = PacketBackup - 1 /\ PacketBackup = y + 1
    <3>1. PacketBackup - 1 \in Nat /\ PacketBackup = (PacketBackup - 1) + 1
      BY Sizes
    <3>2. QED
      BY <3>1
  <2>3. x <= y
    BY <1>2, <1>4, <2>1, <2>2
  <2>4. SnapshotEntities * x <= SnapshotEntities * y
        /\ SnapshotEntities * (y + 1) = (SnapshotEntities * y) + SnapshotEntities
        /\ SnapshotEntities * x \in Nat /\ SnapshotEntities * y \in Nat
    BY <2>3, TimesAdds, Sizes
  <2>5. ParseEntities = (SnapshotEntities * y) + SnapshotEntities
    BY <2>2, <2>4, ParseEntitiesType
  <2>6. k.parseEntitiesNum - old.parseEntitiesNum <= SnapshotEntities * x
    BY <1>5, <2>1
  <2>7. QED
    BY <1>2, <1>3, <2>4, <2>5, <2>6, Sizes
<1>7. SnapRight(k, PacketSlot(a))
  BY <1>2 DEF ClientRight
<1>8. k.parseEntitiesNum - old.parseEntitiesNum < ParseEntities
  BY <1>2, <1>3, <1>6, ParseEntitiesType, Sizes
<1>9. old.right /\ EntitiesIntact(k, old)
  BY <1>1, <1>5, <1>7, <1>8 DEF SnapRight
<1>10. QED
  BY <1>1, <1>5, <1>6, <1>9

LEMMA SnapshotParsed ==
    ASSUME NEW k \in ClientActives, ClientRight(k), NEW m \in Contents, NEW number \in Nat,
           k.serverMessageSequence < number, m.entities <= SnapshotEntities, m.whole,
           m.delta # 0 => DeltaKept(k, number, m.delta),
           NEW c \in ClientActives, c.serverMessageSequence = number,
           c.level = k.level, c.snap = k.snap, c.snapshots = k.snapshots,
           c.parseEntitiesNum = k.parseEntitiesNum, c.parseEntities = k.parseEntities,
           c.dumped = k.dumped,
           NEW r, r = CL_ParseSnapshot(c, m, number)
    PROVE  /\ r \in ClientActives /\ ClientRight(r)
           /\ r.serverMessageSequence = number /\ r.level = k.level
           /\ r.snap.valid /\ r.snap.messageNum = number
           /\ \A a \in Int : 1 <= a /\ a <= k.serverMessageSequence /\ Kept(k, a)
                 => Kept(r, a)
<1> DEFINE n == m.entities
           deltaNum == number - m.delta
           old == c.snapshots[PacketSlot(deltaNum)]
           parsed == CL_ParsePacketEntities(c, m, number)
           snap == [messageNum |-> number, valid |-> TRUE,
                    right |-> m.delta = 0 \/ DeltaRight(c, m, old, deltaNum),
                    parseEntitiesNum |-> c.parseEntitiesNum, numEntities |-> n]
           missing == Missing(c.snap.messageNum, number)
           snaps == [i \in DOMAIN parsed.snapshots |->
                        CASE i = PacketSlot(number) -> snap
                          [] i \in missing -> [parsed.snapshots[i] EXCEPT !.valid = FALSE]
                          [] OTHER -> parsed.snapshots[i]]
<1>1. /\ n \in Nat /\ m.delta \in Nat /\ k.serverMessageSequence \in Nat
      /\ k.parseEntitiesNum \in Nat /\ k.snap.messageNum \in Nat
  BY ClientActiveTypes DEF Contents
<1>2. k.snapshots \in [0..(PacketBackup - 1) -> ClSnapshots]
  BY ClientActiveTypes
<1>3. m.delta # 0 => DeltaUsable(c, old, deltaNum) /\ DeltaRight(c, m, old, deltaNum)
  <2>1. SUFFICES ASSUME m.delta # 0
                 PROVE  DeltaUsable(c, old, deltaNum) /\ DeltaRight(c, m, old, deltaNum)
    OBVIOUS
  <2>2. old = k.snapshots[PacketSlot(number - m.delta)]
    OBVIOUS
  <2> HIDE DEF old
  <2>3. /\ old.valid /\ old.right /\ old.messageNum = number - m.delta
        /\ k.parseEntitiesNum - old.parseEntitiesNum <= ParseEntities - SnapshotEntities
        /\ EntitiesIntact(k, old)
    BY <1>1, <2>1, <2>2, KeptUsable
  <2>4. EntitiesIntact(c, old)
    BY <2>3 DEF EntitiesIntact
  <2>5. QED
    BY <2>3, <2>4 DEF DeltaUsable, DeltaRight
<1>4. r = [parsed EXCEPT !.snap = snap, !.snapshots = snaps]
  <2>1. m.delta = 0 \/ DeltaUsable(c, old, deltaNum)
    BY <1>3
  <2>2. QED
    BY <2>1 DEF CL_ParseSnapshot
<1>5. /\ snap \in ClSnapshots
      /\ snap.messageNum = number /\ snap.valid /\ snap.right
      /\ snap.parseEntitiesNum = k.parseEntitiesNum /\ snap.numEntities = n
  <2>1. (m.delta = 0 \/ DeltaRight(c, m, old, deltaNum)) = TRUE
    BY <1>3
  <2>2. snap = [messageNum |-> number, valid |-> TRUE, right |-> TRUE,
                parseEntitiesNum |-> k.parseEntitiesNum, numEntities |-> n]
    BY <2>1
  <2> HIDE DEF snap
  <2>3. QED
    BY <1>1, <2>2 DEF ClSnapshots
<1> HIDE DEF snap, old
<1>6. /\ parsed \in ClientActives
      /\ parsed.parseEntitiesNum = k.parseEntitiesNum + n
      /\ parsed.level = k.level /\ parsed.serverMessageSequence = number
      /\ parsed.snapshots = k.snapshots /\ parsed.dumped = k.dumped
      /\ \A p, count \in Nat : \A v :
            /\ p + count <= k.parseEntitiesNum
            /\ parsed.parseEntitiesNum - p < ParseEntities
            /\ RunOf(k.parseEntities, p, count, v)
            => RunOf(parsed.parseEntities, p, count, v)
      /\ n < ParseEntities => RunOf(parsed.parseEntities, k.parseEntitiesNum, n, number)
  <2>1. parsed = CL_ParsePacketEntities(c, m, number)
    OBVIOUS
  <2> HIDE DEF parsed
  <2>2. /\ parsed \in ClientActives
        /\ parsed.parseEntitiesNum = c.parseEntitiesNum + n
        /\ parsed.level = c.level
        /\ parsed.serverMessageSequence = c.serverMessageSequence
        /\ parsed.snapshots = c.snapshots /\ parsed.dumped = c.dumped
    BY <2>1, EntitiesParsed
  <2>3. \A p, count \in Nat : \A v :
            /\ p + count <= c.parseEntitiesNum
            /\ parsed.parseEntitiesNum - p < ParseEntities
            /\ RunOf(c.parseEntities, p, count, v)
            => RunOf(parsed.parseEntities, p, count, v)
    BY <2>1, EntitiesParsed
  <2>4. n < ParseEntities => RunOf(parsed.parseEntities, c.parseEntitiesNum, n, number)
    BY <2>1, EntitiesParsed
  <2>5. QED
    BY <2>2, <2>3, <2>4
<1> HIDE DEF parsed
<1>7. number \in Int /\ PacketSlot(number) \in 0..(PacketBackup - 1)
  BY PacketSlotType
<1>8. /\ snaps \in [0..(PacketBackup - 1) -> ClSnapshots]
      /\ snaps[PacketSlot(number)] = snap
      /\ \A i \in 0..(PacketBackup - 1) :
            /\ snaps[i].valid /\ i # PacketSlot(number) => snaps[i] = k.snapshots[i]
            /\ i # PacketSlot(number) /\ i \notin missing => snaps[i] = k.snapshots[i]
  <2>0. PacketSlot(number) \notin missing
    <3>1. SUFFICES ASSUME PacketSlot(number) \in missing PROVE FALSE
      OBVIOUS
    <3>2. PICK x \in (k.snap.messageNum + 1)..(number - 1) :
              number - x < PacketBackup /\ PacketSlot(number) = PacketSlot(x)
      BY <3>1 DEF Missing
    <3>3. x \in Int /\ x < number
      BY <1>1, <3>2
    <3>4. QED
      BY <3>2, <3>3, PacketSlotsApart
  <2> HIDE DEF missing
  <2>1. \A i \in 0..(PacketBackup - 1) :
            snaps[i] = CASE i = PacketSlot(number) -> snap
                         [] i \in missing -> [k.snapshots[i] EXCEPT !.valid = FALSE]
                         [] OTHER -> k.snapshots[i]
    BY <1>2, <1>6
  <2>2. snaps = [i \in 0..(PacketBackup - 1) |-> snaps[i]]
    BY <1>2, <1>6
  <2> HIDE DEF snaps
  <2>3. ASSUME NEW i \in 0..(PacketBackup - 1)
        PROVE  /\ snaps[i] \in ClSnapshots
               /\ snaps[i].valid /\ i # PacketSlot(number) => snaps[i] = k.snapshots[i]
               /\ i # PacketSlot(number) /\ i \notin missing => snaps[i] = k.snapshots[i]
    <3>1. CASE i = PacketSlot(number)
      <4>1. snaps[i] = snap
        BY <2>0, <2>1, <3>1
      <4>2. QED
        BY <1>5, <3>1, <4>1
    <3>2. CASE i # PacketSlot(number) /\ i \in missing
      <4>1. k.snapshots[i] \in ClSnapshots
        BY <1>2
      <4>2. snaps[i] = [k.snapshots[i] EXCEPT !.valid = FALSE]
        BY <2>1, <3>2
      <4>3. snaps[i] \in ClSnapshots /\ ~snaps[i].valid
        BY <4>1, <4>2 DEF ClSnapshots
      <4>4. QED
        BY <3>2, <4>3
    <3>3. CASE i # PacketSlot(number) /\ i \notin missing
      <4>1. snaps[i] = k.snapshots[i]
        BY <2>1, <3>3
      <4>2. QED
        BY <1>2, <4>1
    <3>4. QED
      BY <3>1, <3>2, <3>3
  <2>4. snaps[PacketSlot(number)] = snap
    BY <1>7, <2>0, <2>1
  <2>5. snaps \in [0..(PacketBackup - 1) -> ClSnapshots]
    BY <2>2, <2>3
  <2>6. QED
    BY <2>3, <2>4, <2>5
<1> HIDE DEF snaps
<1>9. /\ r \in ClientActives
      /\ r.serverMessageSequence = number /\ r.level = k.level
      /\ r.snap = snap /\ r.snapshots = snaps /\ r.dumped = k.dumped
      /\ r.parseEntitiesNum = k.parseEntitiesNum + n
      /\ r.parseEntities = parsed.parseEntities
  BY <1>4, <1>5, <1>6, <1>8 DEF ClientActives
<1>10. ASSUME NEW i \in 0..(PacketBackup - 1) PROVE SnapRight(r, i)
  <2>1. CASE i = PacketSlot(number)
    <3>1. snaps[i] = snap
      BY <1>8, <2>1
    <3>2. 1 <= number /\ number <= number
      BY <1>1
    <3>3. (k.parseEntitiesNum + n) - k.parseEntitiesNum < ParseEntities => EntitiesIntact(r, snap)
      BY <1>1, <1>5, <1>6, <1>9, IntactRun
    <3>4. snap.parseEntitiesNum + snap.numEntities <= r.parseEntitiesNum
      BY <1>1, <1>5, <1>9
    <3>5. QED
      BY <1>5, <1>9, <2>1, <3>1, <3>2, <3>3, <3>4 DEF SnapRight
  <2>2. CASE i # PacketSlot(number) /\ snaps[i].valid
    <3>1. PICK s \in ClSnapshots : s = snaps[i] /\ s = k.snapshots[i] /\ s.valid
      BY <1>2, <1>8, <2>2
    <3>2. s.messageNum \in Nat /\ s.parseEntitiesNum \in Nat /\ s.numEntities \in Nat
      BY ClSnapshotTypes
    <3>3. SnapRight(k, i)
      BY DEF ClientRight
    <3>4. s.messageNum <= number
      BY <1>1, <3>1, <3>2, <3>3 DEF SnapRight, ClientRight
    <3>5. s.parseEntitiesNum + s.numEntities <= k.parseEntitiesNum
      BY <3>1, <3>3 DEF SnapRight
    <3>6. s.parseEntitiesNum + s.numEntities <= r.parseEntitiesNum
      BY <1>1, <1>9, <3>2, <3>5
    <3>7. ASSUME r.parseEntitiesNum - s.parseEntitiesNum < ParseEntities
          PROVE  EntitiesIntact(r, s)
      <4>1. k.parseEntitiesNum - s.parseEntitiesNum < ParseEntities
        BY <1>1, <1>9, <3>2, <3>7, ParseEntitiesType
      <4>2. EntitiesIntact(k, s)
        BY <3>1, <3>3, <4>1 DEF SnapRight
      <4>3. RunOf(k.parseEntities, s.parseEntitiesNum, s.numEntities, s.messageNum)
        BY <4>2, IntactRun
      <4>4. RunOf(parsed.parseEntities, s.parseEntitiesNum, s.numEntities, s.messageNum)
        BY <1>6, <1>9, <3>2, <3>5, <3>7, <4>3
      <4>5. QED
        BY <1>9, <4>4, IntactRun
    <3>8. PacketSlot(s.messageNum) = i /\ 1 <= s.messageNum /\ s.right
          /\ s.numEntities <= SnapshotEntities
      BY <3>1, <3>3 DEF SnapRight
    <3>9. QED
      BY <1>5, <1>9, <3>1, <3>4, <3>6, <3>7, <3>8 DEF SnapRight
  <2>3. CASE ~snaps[i].valid
    BY <1>9, <2>3 DEF SnapRight
  <2>4. QED
    BY <2>1, <2>2, <2>3
<1>11. ClientRight(r)
  <2>1. number <= number
    OBVIOUS
  <2>2. QED
    BY <1>5, <1>8, <1>9, <1>10, <2>1 DEF ClientRight
<1>12. ASSUME NEW a \in Int, 1 <= a, a <= k.serverMessageSequence, Kept(k, a)
       PROVE  Kept(r, a)
  <2>1. SUFFICES ASSUME number - a < PacketBackup
                 PROVE  /\ snaps[PacketSlot(a)].valid
                        /\ snaps[PacketSlot(a)].messageNum = a
                        /\ r.parseEntitiesNum - snaps[PacketSlot(a)].parseEntitiesNum
                              <= SnapshotEntities * (number - a + 1)
    BY <1>9 DEF Kept
  <2>2. a < number /\ k.serverMessageSequence - a < PacketBackup
    BY <1>1, <1>12, <2>1, Sizes
  <2>3. PacketSlot(a) \in 0..(PacketBackup - 1) /\ PacketSlot(a) # PacketSlot(number)
    BY <1>7, <2>1, <2>2, PacketSlotType, PacketSlotsApart
  <2>4. PICK s \in ClSnapshots : s = k.snapshots[PacketSlot(a)]
    BY <1>2, <2>3
  <2>5. /\ s.valid /\ s.messageNum = a
        /\ k.parseEntitiesNum - s.parseEntitiesNum
              <= SnapshotEntities * (k.serverMessageSequence - a + 1)
    BY <1>12, <2>2, <2>4 DEF Kept
  <2>6. a <= k.snap.messageNum
    <3>1. SnapRight(k, PacketSlot(a))
      BY <2>3 DEF ClientRight
    <3>2. QED
      BY <2>4, <2>5, <3>1 DEF SnapRight
  <2>7. PacketSlot(a) \notin missing
    <3>1. SUFFICES ASSUME PacketSlot(a) \in missing PROVE FALSE
      OBVIOUS
    <3>2. PICK x \in (k.snap.messageNum + 1)..(number - 1) : PacketSlot(a) = PacketSlot(x)
      BY <3>1 DEF Missing
    <3>3. x \in Int /\ a < x /\ x - a < PacketBackup
      BY <1>1, <2>1, <2>6, <3>2, Sizes
    <3>4. QED
      BY <3>2, <3>3, PacketSlotsApart
  <2>8. snaps[PacketSlot(a)] = s
    BY <1>8, <2>3, <2>4, <2>7
  <2>9. PICK x \in Nat : x = k.serverMessageSequence - a + 1
    <3>1. k.serverMessageSequence - a + 1 \in Nat
      BY <1>1, <1>12
    <3>2. QED
      BY <3>1
  <2>10. PICK y \in Nat : y = number - a + 1
    <3>1. number - a + 1 \in Nat
      BY <2>2
    <3>2. QED
      BY <3>1
  <2>11. x + 1 <= y /\ x + 1 \in Nat
    BY <1>1, <2>9, <2>10
  <2>12. /\ SnapshotEntities * (x + 1) <= SnapshotEntities * y
         /\ SnapshotEntities * (x + 1) = (SnapshotEntities * x) + SnapshotEntities
         /\ SnapshotEntities * x \in Nat /\ SnapshotEntities * y \in Nat
         /\ SnapshotEntities * (x + 1) \in Nat
    <3>1. SnapshotEntities * (x + 1) <= SnapshotEntities * y
      BY <2>11, TimesAdds, Sizes
    <3>2. SnapshotEntities * (x + 1) = (SnapshotEntities * x) + SnapshotEntities
          /\ SnapshotEntities * x \in Nat
      BY Sizes
    <3>3. QED
      BY <3>1, <3>2, Sizes
  <2>13. r.parseEntitiesNum - s.parseEntitiesNum <= SnapshotEntities * y
    <3>1. s.parseEntitiesNum \in Nat
      BY ClSnapshotTypes
    <3>2. k.parseEntitiesNum - s.parseEntitiesNum <= SnapshotEntities * x
      BY <2>5, <2>9
    <3>3. QED
      BY <1>1, <1>9, <2>12, <3>1, <3>2, Sizes
  <2>14. QED
    BY <2>5, <2>8, <2>10, <2>13
<1>13. QED
  BY <1>5, <1>9, <1>11, <1>12

-----------------------------------------------------------------------------
\* The client's steps.

LEMMA ClearedRight ==
    ASSUME NEW level \in Nat, NEW number \in Nat, NEW k, k = ClearState(level, number)
    PROVE  /\ k \in ClientActives /\ ClientRight(k)
           /\ k.level = level /\ k.serverMessageSequence = number
           /\ ~k.snap.valid
<1>1. NoSnapshot \in ClSnapshots /\ ~NoSnapshot.valid /\ NoSnapshot.messageNum = 0
  BY DEF NoSnapshot, ClSnapshots
<1> DEFINE snapshots == [i \in 0..(PacketBackup - 1) |-> NoSnapshot]
           entities == [i \in 0..(ParseEntities - 1) |-> 0]
<1>2. snapshots \in [0..(PacketBackup - 1) -> ClSnapshots]
      /\ \A i \in 0..(PacketBackup - 1) : snapshots[i] = NoSnapshot
  BY <1>1
<1>3. entities \in [0..(ParseEntities - 1) -> Nat]
  OBVIOUS
<1>4. k = [level |-> level, serverMessageSequence |-> number, snap |-> NoSnapshot,
           snapshots |-> snapshots, parseEntitiesNum |-> 0,
           parseEntities |-> entities, dumped |-> FALSE]
  BY DEF ClearState
<1> HIDE DEF snapshots, entities
<1>5. /\ k \in ClientActives
      /\ k.level = level /\ k.serverMessageSequence = number
      /\ k.snap = NoSnapshot /\ k.snapshots = snapshots /\ ~k.dumped
  BY <1>1, <1>2, <1>3, <1>4 DEF ClientActives
<1>6. \A i \in 0..(PacketBackup - 1) : SnapRight(k, i)
  BY <1>1, <1>2, <1>5 DEF SnapRight
<1>7. QED
  BY <1>1, <1>5, <1>6 DEF ClientRight

LEMMA GamestateArrives ==
    ASSUME IInv, NEW i \in 1..Len(toClient), ToClient!Overtake(i),
           UNCHANGED <<svs, client, toServer>>,
           NEW m, m = toClient[i].message, NEW number, number = toClient[i].number,
           m.kind = "gamestate", cl' = ClearState(m.level, number)
    PROVE  IInv'
<1>1. svs \in Storages /\ client \in Clients /\ cl \in ClientActives
      /\ toClient \in Seq(ServerMessages) /\ toServer \in Seq(Packets)
  BY DEF IInv, Types
<1>2. svs' = svs /\ client' = client /\ toServer' = toServer
  OBVIOUS
<1>3. m \in Contents /\ m.level \in Nat /\ number \in Nat
  <2>1. toClient[i] \in ServerMessages
    BY <1>1, ElementOfSeq
  <2>2. m \in Contents /\ number \in Nat
    BY <2>1 DEF ServerMessages
  <2>3. QED
    BY <2>2 DEF Contents
<1>4. /\ cl' \in ClientActives /\ ClientRight(cl')
      /\ cl'.level = m.level /\ cl'.serverMessageSequence = number
      /\ ~cl'.snap.valid
  BY <1>3, ClearedRight
<1>5. client.outgoingSequence \in Nat /\ client.gamestateMessageNum \in Nat
      /\ cl.serverMessageSequence \in Nat
  BY <1>1, ClientTypes, ClientActiveTypes
<1>6. MessageRight(client, svs, cl, m, number)
  BY DEF IInv, MessagesRight
<1>7. /\ cl.serverMessageSequence < number /\ number < client.outgoingSequence
      /\ number <= client.gamestateMessageNum /\ 1 <= m.level /\ m.level <= svs.level
  BY <1>6 DEF MessageRight
<1>8. BothRight(client, svs, cl')
  BY <1>4, <1>7 DEF BothRight
<1> DEFINE rest == SubSeq(toClient, i + 1, Len(toClient))
<1>9. toClient' = rest
  BY DEF ToClient!Overtake
<1>10. /\ rest \in Seq(ServerMessages) /\ MessagesRight(client, svs, cl, rest)
       /\ \A j \in 1..Len(rest) :
             number < rest[j].number /\ rest[j].message.delta = 0
  <2>1. MessagesRight(client, svs, cl, toClient)
    BY DEF IInv
  <2>2. /\ rest \in Seq(ServerMessages)
        /\ MessagesRight(client, svs, cl, rest)
        /\ \A j \in 1..Len(rest) :
              /\ toClient[i].number < rest[j].number
              /\ toClient[i].message.kind = "gamestate" => rest[j].message.delta = 0
    BY <1>1, <2>1, MessagesDropped
  <2> HIDE DEF rest
  <2>3. QED
    BY <2>2
<1> HIDE DEF rest
<1>11. MessagesRight(client, svs, cl', rest)
  <2>1. ASSUME NEW j \in 1..Len(rest)
        PROVE  MessageRight(client, svs, cl', rest[j].message, rest[j].number)
    <3>1. MessageRight(client, svs, cl, rest[j].message, rest[j].number)
      BY <1>10 DEF MessagesRight
    <3>2. QED
      BY <1>4, <1>10, <3>1 DEF MessageRight
  <2>2. QED
    BY <1>10, <2>1 DEF MessagesRight
<1>12. PacketsRight(client, cl', toServer)
  <2>1. PacketsRight(client, cl, toServer)
    BY DEF IInv
  <2>2. ASSUME NEW j \in 1..Len(toServer)
        PROVE  /\ toServer[j].messageAcknowledge <= number
               /\ toServer[j].delta => AskedFor(client, cl', toServer[j].messageAcknowledge)
    <3>1. toServer[j] \in Packets
      BY <1>1, ElementOfSeq
    <3>2. PICK a \in Nat : a = toServer[j].messageAcknowledge
      BY <3>1 DEF Packets
    <3>3. a <= cl.serverMessageSequence
      BY <2>1, <3>2 DEF PacketsRight
    <3>4. a < client.gamestateMessageNum /\ a <= number
      BY <1>3, <1>5, <1>7, <3>3
    <3>5. toServer[j].delta => AskedFor(client, cl', a)
      BY <2>1, <3>2, <3>4 DEF PacketsRight, AskedFor
    <3>6. QED
      BY <3>2, <3>4, <3>5
  <2>3. QED
    BY <1>4, <2>1, <2>2 DEF PacketsRight
<1>13. ActiveRight(client, cl', toServer)
  <2>1. client.state # "active"
    <3>1. ActiveRight(client, cl, toServer)
      BY DEF IInv
    <3>2. QED
      BY <1>3, <1>5, <1>7, <3>1 DEF ActiveRight
  <2>2. QED
    BY <2>1 DEF ActiveRight
<1>14. Types'
  BY <1>1, <1>2, <1>4, <1>9, <1>10 DEF Types
<1>15. Bounded'
  BY <1>2 DEF IInv, Bounded
<1>16. QED
  BY <1>2, <1>4, <1>8, <1>9, <1>11, <1>12, <1>13, <1>14, <1>15 DEF IInv

LEMMA SnapshotArrives ==
    ASSUME IInv, NEW i \in 1..Len(toClient), ToClient!Overtake(i),
           UNCHANGED <<svs, client, toServer>>,
           NEW m, m = toClient[i].message, NEW number, number = toClient[i].number,
           m.kind = "snapshot", NEW c \in ClientActives, c.serverMessageSequence = number,
           c.level = cl.level, c.snap = cl.snap, c.snapshots = cl.snapshots,
           c.parseEntitiesNum = cl.parseEntitiesNum, c.parseEntities = cl.parseEntities,
           c.dumped = cl.dumped,
           cl' = CL_ParseSnapshot(c, m, number)
    PROVE  IInv'
<1>1. svs \in Storages /\ client \in Clients /\ cl \in ClientActives
      /\ toClient \in Seq(ServerMessages) /\ toServer \in Seq(Packets)
  BY DEF IInv, Types
<1>2. svs' = svs /\ client' = client /\ toServer' = toServer
  OBVIOUS
<1>3. m \in Contents /\ m.delta \in Nat /\ number \in Nat
  <2>1. toClient[i] \in ServerMessages
    BY <1>1, ElementOfSeq
  <2>2. m \in Contents /\ number \in Nat
    BY <2>1 DEF ServerMessages
  <2>3. QED
    BY <2>2 DEF Contents
<1>5. MessageRight(client, svs, cl, m, number)
  BY DEF IInv, MessagesRight
<1>6. /\ cl.serverMessageSequence < number /\ number < client.outgoingSequence
      /\ Framed(client, number) /\ m.entities <= SnapshotEntities /\ m.whole
      /\ m.delta # 0 => DeltaKept(cl, number, m.delta)
  BY <1>5 DEF MessageRight
<1>7. /\ cl' \in ClientActives /\ ClientRight(cl')
      /\ cl'.serverMessageSequence = number /\ cl'.level = cl.level
      /\ cl'.snap.valid /\ cl'.snap.messageNum = number
      /\ \A a \in Int : 1 <= a /\ a <= cl.serverMessageSequence /\ Kept(cl, a)
            => Kept(cl', a)
  <2>1. PICK k : k = CL_ParseSnapshot(c, m, number) /\ k = cl'
    OBVIOUS
  <2>2. ClientRight(cl)
    BY DEF IInv
  <2>3. /\ k \in ClientActives /\ ClientRight(k)
        /\ k.serverMessageSequence = number /\ k.level = cl.level
        /\ k.snap.valid /\ k.snap.messageNum = number
        /\ \A a \in Int : 1 <= a /\ a <= cl.serverMessageSequence /\ Kept(cl, a)
              => Kept(k, a)
    BY <1>1, <1>3, <1>6, <2>1, <2>2, SnapshotParsed
  <2>4. QED
    BY <2>1, <2>3
<1>8. client.outgoingSequence \in Nat /\ client.gamestateMessageNum \in Nat
      /\ cl.serverMessageSequence \in Nat
  BY <1>1, ClientTypes, ClientActiveTypes
<1>9. BothRight(client, svs, cl')
  BY <1>6, <1>7 DEF IInv, BothRight
<1> DEFINE rest == SubSeq(toClient, i + 1, Len(toClient))
<1>10. toClient' = rest
  BY DEF ToClient!Overtake
<1>11. /\ rest \in Seq(ServerMessages) /\ MessagesRight(client, svs, cl, rest)
       /\ \A j \in 1..Len(rest) : number < rest[j].number
  <2>1. MessagesRight(client, svs, cl, toClient)
    BY DEF IInv
  <2>2. /\ rest \in Seq(ServerMessages)
        /\ MessagesRight(client, svs, cl, rest)
        /\ \A j \in 1..Len(rest) : toClient[i].number < rest[j].number
    BY <1>1, <2>1, MessagesDropped
  <2> HIDE DEF rest
  <2>3. QED
    BY <2>2
<1> HIDE DEF rest
<1>12. MessagesRight(client, svs, cl', rest)
  <2>1. ASSUME NEW j \in 1..Len(rest)
        PROVE  MessageRight(client, svs, cl', rest[j].message, rest[j].number)
    <3>1. MessageRight(client, svs, cl, rest[j].message, rest[j].number)
      BY <1>11 DEF MessagesRight
    <3>2. rest[j] \in ServerMessages
      BY <1>11, ElementOfSeq
    <3>3. rest[j].number \in Nat /\ rest[j].message \in Contents
      BY <3>2 DEF ServerMessages
    <3>4. PICK n \in Nat, t \in Contents : n = rest[j].number /\ t = rest[j].message
      BY <3>3
    <3>5. t.delta \in Nat
      BY DEF Contents
    <3>6. MessageRight(client, svs, cl, t, n) /\ number < n
      BY <1>11, <3>1, <3>4
    <3>7. DeltaKept(cl, n, t.delta) => DeltaKept(cl', n, t.delta)
      <4>1. SUFFICES ASSUME DeltaKept(cl, n, t.delta) PROVE DeltaKept(cl', n, t.delta)
        OBVIOUS
      <4>2. PICK a \in Int : a = n - t.delta
        BY <3>5
      <4>3. 1 <= a /\ a <= cl.serverMessageSequence /\ Kept(cl, a)
        BY <4>1, <4>2 DEF DeltaKept
      <4>4. Kept(cl', a) /\ a <= number
        BY <1>3, <1>6, <1>7, <1>8, <4>3
      <4>5. QED
        BY <1>7, <4>1, <4>2, <4>3, <4>4 DEF DeltaKept
    <3>8. MessageRight(client, svs, cl', t, n)
      BY <1>7, <3>6, <3>7 DEF MessageRight
    <3>9. QED
      BY <3>4, <3>8
  <2>2. QED
    BY <1>11, <2>1 DEF MessagesRight
<1>13. PacketsRight(client, cl', toServer)
  <2>1. PacketsRight(client, cl, toServer)
    BY DEF IInv
  <2>2. ASSUME NEW j \in 1..Len(toServer)
        PROVE  /\ toServer[j].messageAcknowledge <= number
               /\ toServer[j].delta => AskedFor(client, cl', toServer[j].messageAcknowledge)
    <3>1. toServer[j] \in Packets
      BY <1>1, ElementOfSeq
    <3>2. PICK a \in Nat : a = toServer[j].messageAcknowledge
      BY <3>1 DEF Packets
    <3>3. a <= cl.serverMessageSequence
      BY <2>1, <3>2 DEF PacketsRight
    <3>4. a <= number
      BY <1>3, <1>6, <1>8, <3>3
    <3>5. toServer[j].delta => AskedFor(client, cl, a)
      BY <2>1, <3>2 DEF PacketsRight
    <3>6. AskedFor(client, cl, a) => AskedFor(client, cl', a)
      BY <1>7, <3>3 DEF AskedFor
    <3>7. QED
      BY <3>2, <3>4, <3>5, <3>6
  <2>3. QED
    BY <1>7, <2>1, <2>2 DEF PacketsRight
<1>14. ActiveRight(client, cl', toServer)
  <2>1. SUFFICES ASSUME client.state = "active" PROVE ActiveRight(client, cl', toServer)
    BY DEF ActiveRight
  <2>2. ActiveRight(client, cl, toServer) /\ ServerRight(client, svs)
    BY DEF IInv
  <2>3. client.gamestateMessageNum <= number
    BY <1>3, <1>6, <1>8, <2>1, <2>2 DEF ActiveRight
  <2>4. PICK a \in Int : a = client.deltaMessage
    BY <1>1, ClientTypes
  <2>5. BaseRight(client, cl, a)
    BY <2>1, <2>2, <2>4 DEF ActiveRight
  <2>6. BaseRight(client, cl', a)
    <3>1. SUFFICES ASSUME client.outgoingSequence - a < PacketBackup - DeltaMargin
                   PROVE  /\ client.gamestateMessageNum <= a /\ a <= number
                          /\ Framed(client, a) /\ Kept(cl', a)
      BY <1>7 DEF BaseRight
    <3>2. /\ client.gamestateMessageNum <= a /\ a <= cl.serverMessageSequence
          /\ Framed(client, a) /\ Kept(cl, a)
      BY <2>5, <3>1 DEF BaseRight
    <3>3. 1 <= a
      BY <1>8, <2>2, <3>2 DEF ServerRight
    <3>4. QED
      BY <1>3, <1>6, <1>7, <1>8, <3>2, <3>3
  <2>7. QED
    BY <1>7, <2>1, <2>2, <2>3, <2>4, <2>6 DEF ActiveRight
<1>15. Types'
  BY <1>1, <1>2, <1>7, <1>10, <1>11 DEF Types
<1>16. Bounded'
  BY <1>2 DEF IInv, Bounded
<1>17. QED
  BY <1>2, <1>7, <1>9, <1>10, <1>12, <1>13, <1>14, <1>15, <1>16 DEF IInv

LEMMA ClientPacketRight ==
    ASSUME IInv, NEW i \in 1..Len(toClient), CL_PacketEvent(i)
    PROVE  IInv'
<1> DEFINE m == toClient[i].message
           number == toClient[i].number
           c == [cl EXCEPT !.serverMessageSequence = number]
<1>1. ToClient!Overtake(i) /\ UNCHANGED <<svs, client, toServer>>
  BY DEF CL_PacketEvent
<1>2. CASE m.kind = "gamestate" /\ cl' = ClearState(m.level, number)
  <2>1. PICK t, n : t = m /\ n = number
    OBVIOUS
  <2>2. QED
    BY <1>1, <1>2, <2>1, GamestateArrives
<1>3. CASE m.kind = "snapshot" /\ cl' = CL_ParseSnapshot(c, m, number)
  <2>1. toClient[i] \in ServerMessages /\ cl \in ClientActives
    <3>1. toClient \in Seq(ServerMessages) /\ cl \in ClientActives
      BY DEF IInv, Types
    <3>2. QED
      BY <3>1, ElementOfSeq
  <2>2. number \in Nat
    BY <2>1 DEF ServerMessages
  <2>3. PICK k \in ClientActives :
          /\ k = c
          /\ k.serverMessageSequence = number
          /\ k.level = cl.level /\ k.snap = cl.snap /\ k.snapshots = cl.snapshots
          /\ k.parseEntitiesNum = cl.parseEntitiesNum
          /\ k.parseEntities = cl.parseEntities
          /\ k.dumped = cl.dumped
    <3> HIDE DEF number
    <3>1. c \in ClientActives
          /\ c.serverMessageSequence = number
          /\ c.level = cl.level /\ c.snap = cl.snap /\ c.snapshots = cl.snapshots
          /\ c.parseEntitiesNum = cl.parseEntitiesNum
          /\ c.parseEntities = cl.parseEntities
          /\ c.dumped = cl.dumped
      BY <2>1, <2>2 DEF ClientActives
    <3> HIDE DEF c
    <3>2. QED
      BY <3>1
  <2>4. cl' = CL_ParseSnapshot(k, m, number)
    BY <1>3, <2>3
  <2>5. PICK t, n : t = m /\ n = number
    OBVIOUS
  <2> HIDE DEF c
  <2>6. QED
    BY <1>1, <1>3, <2>3, <2>4, <2>5, SnapshotArrives
<1>4. QED
  BY <1>2, <1>3 DEF CL_PacketEvent

LEMMA WritePacketRight ==
    ASSUME IInv, NEW nodelta \in BOOLEAN, CL_WritePacket(nodelta)
    PROVE  IInv'
<1>1. svs \in Storages /\ client \in Clients /\ cl \in ClientActives
      /\ toClient \in Seq(ServerMessages) /\ toServer \in Seq(Packets)
  BY DEF IInv, Types
<1>2. svs' = svs /\ client' = client /\ cl' = cl /\ toClient' = toClient
  BY DEF CL_WritePacket
<1> DEFINE a == cl.serverMessageSequence
           asks == AsksForDelta(nodelta)
           m == [level |-> cl.level, messageAcknowledge |-> a, delta |-> asks]
<1>3. toServer' = Post(toServer, m)
  BY DEF CL_WritePacket
<1>4. a \in Nat /\ asks \in BOOLEAN /\ cl.level \in Nat /\ cl.snap \in ClSnapshots
      /\ cl.parseEntitiesNum \in Nat /\ cl.snap.parseEntitiesNum \in Nat
      /\ cl.snap.numEntities \in Nat
  BY <1>1, ClientActiveTypes DEF AsksForDelta
<1>5. ASSUME asks PROVE AskedFor(client, cl, a)
  <2>1. cl.snap.valid /\ a = cl.snap.messageNum
    BY <1>5 DEF AsksForDelta
  <2>2. Framed(client, a)
    BY <2>1 DEF IInv, BothRight
  <2>3. /\ cl.snapshots[PacketSlot(a)] = cl.snap
        /\ cl.parseEntitiesNum = cl.snap.parseEntitiesNum + cl.snap.numEntities
    BY <2>1 DEF IInv, ClientRight
  <2>4. SnapRight(cl, PacketSlot(a))
    BY <1>4, PacketSlotType DEF IInv, ClientRight
  <2>5. 1 <= a /\ cl.snap.numEntities <= SnapshotEntities
    BY <2>1, <2>3, <2>4 DEF SnapRight
  <2>6. cl.parseEntitiesNum - cl.snap.parseEntitiesNum <= SnapshotEntities * (a - a + 1)
    <3>1. a - a + 1 = 1 /\ SnapshotEntities * 1 = SnapshotEntities
      BY <1>4, Sizes
    <3>2. cl.parseEntitiesNum - cl.snap.parseEntitiesNum = cl.snap.numEntities
      BY <1>4, <2>3
    <3>3. QED
      BY <2>5, <3>1, <3>2
  <2>7. Kept(cl, a)
    BY <2>1, <2>3, <2>6 DEF Kept
  <2>8. QED
    BY <2>2, <2>5, <2>7 DEF AskedFor
<1>6. m \in Packets /\ m.messageAcknowledge = a /\ m.delta = asks
  <2> HIDE DEF a, asks
  <2>1. QED
    BY <1>4 DEF Packets
<1> HIDE DEF m
<1>7. /\ Post(toServer, m) \in Seq(Packets)
      /\ PacketsRight(client, cl, Post(toServer, m))
      /\ \A g \in Nat :
            /\ \A i \in 1..Len(toServer) : g <= toServer[i].messageAcknowledge
            /\ g <= a
            => \A i \in 1..Len(Post(toServer, m)) :
                  g <= Post(toServer, m)[i].messageAcknowledge
  <2>1. PacketsRight(client, cl, toServer)
    BY DEF IInv
  <2>2. m.messageAcknowledge = cl.serverMessageSequence
        /\ (m.delta => AskedFor(client, cl, m.messageAcknowledge))
    BY <1>5, <1>6
  <2>3. QED
    BY <1>1, <1>6, <2>1, <2>2, PacketPosted
<1>8. ActiveRight(client, cl, Post(toServer, m))
  <2>1. client.gamestateMessageNum \in Nat
    BY <1>1, ClientTypes
  <2>2. QED
    BY <1>7, <2>1 DEF IInv, ActiveRight
<1>9. Types'
  BY <1>1, <1>2, <1>3, <1>7 DEF Types
<1>10. Bounded'
  BY <1>2 DEF IInv, Bounded
<1>11. QED
  BY <1>2, <1>3, <1>7, <1>8, <1>9, <1>10 DEF IInv

LEMMA InitRight == Init => IInv
<1>1. SUFFICES ASSUME Init PROVE IInv
  OBVIOUS
<1>2. /\ svs.level = 1 /\ svs.built = 0 /\ svs.snapshotFrame = 0 /\ svs.lastValidFrame = 0
      /\ svs.freeStorageEntities = StorageEntities /\ svs.currentStoragePosition = 0
      /\ svs \in Storages
  <2>1. [i \in 0..(SnapshotFrames - 1) |-> [frameNum |-> 0, start |-> 0, count |-> 0]]
            \in [0..(SnapshotFrames - 1) -> SnapFrames]
    BY DEF SnapFrames
  <2>2. [p \in 0..(StorageEntities - 1) |-> None] \in [0..(StorageEntities - 1) -> Nat \X Nat]
    <3>1. None \in Nat \X Nat
      BY DEF None
    <3>2. QED
      BY <3>1
  <2>3. svs = EmptyStorage(1, 0)
    BY <1>1 DEF Init
  <2>4. StorageEntities \in Int
    BY Sizes
  <2>5. QED
    BY <2>1, <2>2, <2>3, <2>4 DEF EmptyStorage, Storages
<1>3. StorageRight(svs)
  <2> DEFINE E == [n \in Nat |-> 0]
  <2>1. E \in [Nat -> Nat] /\ E[0] = 0 /\ 0 % StorageEntities = 0
    BY Sizes
  <2>2. \A f, g \in 0..0 : f <= g => E[f] <= E[g]
    BY <2>1
  <2> HIDE DEF E
  <2>3. 0..(0 - 1) = {}
    OBVIOUS
  <2>4. StorageAt(svs, E)
    BY <1>2, <2>1, <2>2, <2>3, Sizes DEF StorageAt
  <2>5. QED
    BY <2>1, <2>4 DEF StorageRight
<1>4. /\ client \in Clients /\ client.state = "primed" /\ client.outgoingSequence = 2
      /\ client.deltaMessage = 0 /\ client.gamestateMessageNum = 1
      /\ \A i \in 0..(PacketBackup - 1) : client.frames[i] = EmptyFrame
  <2>1. EmptyFrame \in Frames
    BY DEF EmptyFrame, Frames, Positions
  <2> DEFINE frames == [i \in 0..(PacketBackup - 1) |-> EmptyFrame]
  <2>2. frames \in [0..(PacketBackup - 1) -> Frames]
        /\ \A i \in 0..(PacketBackup - 1) : frames[i] = EmptyFrame
    BY <2>1
  <2>3. client = [state |-> "primed", outgoingSequence |-> 2, deltaMessage |-> 0,
                  gamestateMessageNum |-> 1, frames |-> frames]
    BY <1>1 DEF Init
  <2> HIDE DEF frames
  <2>4. QED
    BY <2>2, <2>3 DEF Clients
<1>5. ServerRight(client, svs)
  <2>1. EmptyFrame.number = 0 /\ EmptyFrame.level = 0
    BY DEF EmptyFrame
  <2>2. FrameRight(client, svs, EmptyFrame)
    BY <1>2, <1>4, <2>1 DEF FrameRight
  <2>3. QED
    BY <1>4, <2>2 DEF ServerRight
<1>6. /\ cl \in ClientActives /\ ClientRight(cl)
      /\ cl.level = 1 /\ cl.serverMessageSequence = 1 /\ ~cl.snap.valid
  <2>1. cl = ClearState(1, 1)
    BY <1>1 DEF Init
  <2>2. QED
    BY <2>1, ClearedRight
<1>7. BothRight(client, svs, cl)
  BY <1>2, <1>4, <1>6 DEF BothRight
<1>8. /\ toClient = << >> /\ toServer = << >> /\ Len(toClient) = 0 /\ Len(toServer) = 0
      /\ toClient \in Seq(ServerMessages) /\ toServer \in Seq(Packets)
  BY <1>1, EmptySeq DEF Init
<1>9. MessagesRight(client, svs, cl, toClient) /\ PacketsRight(client, cl, toServer)
  BY <1>8 DEF MessagesRight, PacketsRight
<1>10. ActiveRight(client, cl, toServer)
  BY <1>4 DEF ActiveRight
<1>11. Types
  BY <1>2, <1>4, <1>6, <1>8 DEF Types
<1>12. Bounded
  BY <1>2, <1>4, Sizes DEF Bounded
<1>13. QED
  BY <1>3, <1>5, <1>6, <1>7, <1>9, <1>10, <1>11, <1>12 DEF IInv

LEMMA NextRight == IInv /\ [Next]_vars => IInv'
<1>1. SUFFICES ASSUME IInv, [Next]_vars PROVE IInv'
  OBVIOUS
<1>2. ASSUME NEW count \in LinkedCounts, SV_SendOtherSnapshots(count) PROVE IInv'
  BY <1>1, <1>2, SendOtherRight
<1>3. ASSUME NEW count \in LinkedCounts, SV_SendClientSnapshot(count) PROVE IInv'
  BY <1>1, <1>3, SendClientSnapshotRight
<1>4. ASSUME NEW i \in 1..Len(toServer), SV_PacketEvent(i) PROVE IInv'
  BY <1>1, <1>4, ServerPacketRight
<1>5. CASE SV_SpawnServer
  BY <1>1, <1>5, SpawnServerRight
<1>6. ASSUME NEW i \in 1..Len(toClient), CL_PacketEvent(i) PROVE IInv'
  BY <1>1, <1>6, ClientPacketRight
<1>7. ASSUME NEW nodelta \in BOOLEAN, CL_WritePacket(nodelta) PROVE IInv'
  BY <1>1, <1>7, WritePacketRight
<1>8. CASE UNCHANGED vars
  <2>1. svs' = svs /\ client' = client /\ cl' = cl
        /\ toClient' = toClient /\ toServer' = toServer
    BY <1>8 DEF vars
  <2>2. Types' /\ Bounded'
    BY <1>1, <2>1 DEF IInv, Types, Bounded
  <2>3. QED
    BY <1>1, <2>1, <2>2 DEF IInv
<1>9. QED
  BY <1>1, <1>2, <1>3, <1>4, <1>5, <1>6, <1>7, <1>8 DEF Next

-----------------------------------------------------------------------------
\* The theorems.

\* The inductive invariant, for any rings and levels (SV_BuildCommonSnapshot,
\* SV_WriteSnapshotToClient, CL_ParseSnapshot): the storage holds the entities of
\* the valid common snapshots and free space, and every base of a difference that
\* is written, on its way or asked for is whole on the server and kept by the
\* client for as long as it may be used.
THEOREM SnapshotInvariant == Spec => []IInv
<1>1. Init => IInv
  BY InitRight
<1>2. IInv /\ [Next]_vars => IInv'
  BY NextRight
<1>3. QED
  BY <1>1, <1>2, PTL DEF Spec

\* The state keeps its types, and the counters their order.
THEOREM TypesKept == Spec => []TypeOK
<1>1. IInv => TypeOK
  <2>1. SUFFICES ASSUME IInv PROVE TypeOK
    OBVIOUS
  <2>2. /\ svs \in Storages /\ client \in Clients /\ cl \in ClientActives
        /\ Bounded /\ BothRight(client, svs, cl) /\ ClientRight(cl)
        /\ ServerRight(client, svs)
    BY <2>1 DEF IInv, Types
  <2>3. PICK E \in [Nat -> Nat] : StorageAt(svs, E)
    BY <2>1 DEF IInv, StorageRight
  <2>4. /\ svs.level \in Nat /\ svs.built \in Nat /\ svs.snapshotFrame \in Nat
        /\ svs.lastValidFrame \in Nat /\ svs.freeStorageEntities \in Int
    BY <2>2 DEF Storages
  <2>5. svs.freeStorageEntities \in 0..StorageEntities
        /\ svs.lastValidFrame \in 0..svs.snapshotFrame
    <3>1. /\ svs.lastValidFrame <= svs.snapshotFrame
          /\ svs.freeStorageEntities >= 0
          /\ svs.freeStorageEntities + E[svs.snapshotFrame] - E[svs.lastValidFrame]
                = StorageEntities
      BY <2>3 DEF StorageAt
    <3>2. /\ E[svs.lastValidFrame] <= E[svs.snapshotFrame]
          /\ E[svs.lastValidFrame] \in Nat /\ E[svs.snapshotFrame] \in Nat
      BY <2>3, <2>4, <3>1 DEF StorageAt
    <3>3. QED
      BY <2>4, <3>1, <3>2, Sizes
  <2>6. svs.currentStoragePosition \in 0..(StorageEntities - 1)
    <3>1. E[svs.snapshotFrame] \in Int
      BY <2>4
    <3>2. E[svs.snapshotFrame] % StorageEntities \in 0..(StorageEntities - 1)
      BY <3>1, Sizes, ModType
    <3>3. QED
      BY <2>3, <3>2 DEF StorageAt
  <2>7. svs.level \in 1..MaxLevels /\ svs.built \in 0..MaxFrames
        /\ svs.snapshotFrame \in 0..svs.built
    BY <2>2, <2>4, Sizes DEF Bounded
  <2>8. /\ client.state \in {"connected", "primed", "active"}
        /\ client.outgoingSequence \in 1..(MaxMessages + 1)
        /\ client.deltaMessage \in -PacketBackup..MaxMessages
    <3>1. /\ client.outgoingSequence \in Nat /\ client.deltaMessage \in Int
          /\ client.gamestateMessageNum \in Nat
          /\ client.state \in {"connected", "primed", "active"}
      BY <2>2 DEF Clients
    <3>2. QED
      BY <2>2, <3>1, Sizes DEF Bounded, ServerRight
  <2>9. /\ cl.level \in 1..svs.level
        /\ cl.snap.messageNum \in 0..cl.serverMessageSequence
        /\ cl.serverMessageSequence < client.outgoingSequence
    <3>1. cl.level \in Nat /\ cl.snap.messageNum \in Nat /\ cl.serverMessageSequence \in Nat
      BY <2>2, ClientActiveTypes
    <3>2. QED
      BY <2>2, <2>4, <3>1 DEF BothRight, ClientRight
  <2>10. QED
    BY <2>5, <2>6, <2>7, <2>8, <2>9 DEF TypeOK
<1>2. QED
  BY <1>1, SnapshotInvariant, PTL

\* The storage is accounted for (SV_BuildCommonSnapshot): whatever counts of
\* entities follow one another, what is free and what the valid common snapshots
\* hold is the whole ring, and nobody has overwritten their entities.
THEOREM StorageKept == Spec => []StorageAccounted
<1>1. IInv => StorageAccounted
  <2>1. SUFFICES ASSUME IInv PROVE StorageAccounted
    OBVIOUS
  <2>2. svs \in Storages
    BY <2>1 DEF IInv, Types
  <2>3. PICK E \in [Nat -> Nat] : StorageAt(svs, E)
    BY <2>1 DEF IInv, StorageRight
  <2>4. svs.lastValidFrame \in Nat /\ svs.snapshotFrame \in Nat
        /\ svs.lastValidFrame <= svs.snapshotFrame /\ svs.freeStorageEntities \in Int
    BY <2>2, <2>3 DEF Storages, StorageAt
  <2>5. Held(svs, svs.lastValidFrame, svs.snapshotFrame)
            = E[svs.snapshotFrame] - E[svs.lastValidFrame]
    BY <2>2, <2>3, <2>4, HeldRight
  <2>6. E[svs.snapshotFrame] \in Nat /\ E[svs.lastValidFrame] \in Nat
    BY <2>4
  <2>7. svs.freeStorageEntities + Held(svs, svs.lastValidFrame, svs.snapshotFrame)
            = StorageEntities
    <3>1. svs.freeStorageEntities + E[svs.snapshotFrame] - E[svs.lastValidFrame]
              = StorageEntities
      BY <2>3 DEF StorageAt
    <3>2. QED
      BY <2>4, <2>5, <2>6, <3>1, Sizes
  <2>8. ASSUME NEW f \in svs.lastValidFrame..(svs.snapshotFrame - 1)
        PROVE  FrameAt(svs, E, f)
    BY <2>3 DEF StorageAt
  <2>9. QED
    BY <2>7, <2>8 DEF StorageAccounted, FrameAt, FrameOf
<1>2. QED
  BY <1>1, SnapshotInvariant, PTL

\* Every snapshot the client takes for valid is the frame the server meant
\* (CL_ParseSnapshot, SV_WriteSnapshotToClient): its base was whole when the
\* server wrote the difference, and is the one the client rebuilt it from.
THEOREM RightSnapshots == Spec => []ValidSnapshotsRight
<1>1. IInv => ValidSnapshotsRight
  <2>1. SUFFICES ASSUME IInv PROVE ValidSnapshotsRight
    OBVIOUS
  <2>2. DOMAIN cl.snapshots = 0..(PacketBackup - 1)
    BY <2>1 DEF IInv, Types, ClientActives
  <2>3. \A i \in 0..(PacketBackup - 1) : SnapRight(cl, i)
    BY <2>1 DEF IInv, ClientRight
  <2>4. QED
    BY <2>2, <2>3 DEF ValidSnapshotsRight, SnapRight
<1>2. QED
  BY <1>1, SnapshotInvariant, PTL

\* "Delta from invalid frame (not supposed to happen!)" does not happen
\* (CL_ParseSnapshot).
THEOREM NothingDumped == Spec => []NeverDumped
<1>1. IInv => NeverDumped
  BY DEF IInv, ClientRight, NeverDumped
<1>2. QED
  BY <1>1, SnapshotInvariant, PTL

\* A snapshot that cgame is given has all its entities (fnql::snapshot::Lookup).
THEOREM HandedOutWhole == Spec => []HandedOutIntact
<1>1. IInv => HandedOutIntact
  <2>1. SUFFICES ASSUME IInv, NEW requested \in 0..MaxMessages, Available(requested)
                 PROVE  EntitiesIntact(cl, cl.snapshots[PacketSlot(requested)])
    BY DEF HandedOutIntact
  <2>2. requested \in Int /\ PacketSlot(requested) \in 0..(PacketBackup - 1)
    BY PacketSlotType
  <2>3. SnapRight(cl, PacketSlot(requested))
    BY <2>1, <2>2 DEF IInv, ClientRight
  <2>4. QED
    BY <2>1, <2>3 DEF Available, SnapRight
<1>2. QED
  BY <1>1, SnapshotInvariant, PTL
=============================================================================
