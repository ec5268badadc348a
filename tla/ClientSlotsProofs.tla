-------------------------- MODULE ClientSlotsProofs --------------------------
(***************************************************************************)
(* Proofs about module ClientSlots: for any number of slots and clients, any *)
(* times, and any window no smaller than the number of slots.               *)
(***************************************************************************)
EXTENDS ClientSlots, FiniteSetTheorems, WellFoundedInduction, TLAPS

-----------------------------------------------------------------------------
\* The inductive invariant. Its parts are about any record sv of what a server
\* call can change, for the handlers pass through many.

Servers ==
    [slots : [Slots -> SlotRecords], game : SUBSET Slots, sessions : SUBSET Range(User)]

Addressed(sv) == \A s \in Slots : sv.slots[s].state # "free" => sv.slots[s].who # NoClient

Own(sv) ==
    \A s, t \in Slots :
        s # t /\ sv.slots[s].state # "free" /\ sv.slots[t].state # "free"
            => sv.slots[s].who # sv.slots[t].who

\* Only a connected client has a session.
Quiet(sv) == \A s \in Slots : ~Live(sv.slots[s]) => sv.slots[s].auth = "none"

\* Nobody else holds its session, and every session is held.
Held(sv) ==
    /\ \A s \in Slots : sv.slots[s].auth # "none" => sv.slots[s].user \in sv.sessions
    /\ \A s, t \in Slots :
        sv.slots[s].auth # "none" /\ sv.slots[t].auth # "none"
            /\ sv.slots[s].user = sv.slots[t].user => s = t
    /\ \A u \in sv.sessions :
        \E s \in Slots : sv.slots[s].auth # "none" /\ sv.slots[s].user = u

NoGhosts(sv) ==
    \A s \in Slots : s \in sv.game /\ sv.slots[s].odd # "restarted" => Live(sv.slots[s])

\* What holds all through a loop over the slots, ...
Sound(sv) ==
    sv \in Servers /\ Addressed(sv) /\ Own(sv) /\ Quiet(sv) /\ Held(sv) /\ NoGhosts(sv)

\* ... and what holds of a slot that it has passed. The platform must authenticate
\* the clients in p.
InGame(sv, s) == Live(sv.slots[s]) /\ sv.slots[s].odd # "refused" => s \in sv.game

Validated(slot) ==
    \/ slot.auth = "valid"
    \/ slot.auth = "pending" /\ slot.sinceConnect <= AuthTime

Admitted(p, sv, s) ==
    sv.slots[s].who \in p /\ Live(sv.slots[s])
      /\ sv.slots[s].odd \notin {"refused", "readmitted"}
        => Validated(sv.slots[s])

\* Its authentication has begun, and may be overdue.
Begun(p, sv, s) ==
    sv.slots[s].who \in p /\ Live(sv.slots[s])
      /\ sv.slots[s].odd \notin {"refused", "readmitted"}
        => sv.slots[s].auth # "none"

Good(p, sv) == Sound(sv) /\ \A s \in Slots : InGame(sv, s) /\ Admitted(p, sv, s)

Others ==
    /\ retail \subseteq Clients
    /\ tickets \in [Addresses -> Range(User) \cup {NoUser}]
    /\ clients \in [Clients -> {"off", "challenging", "connected"}]
    /\ connects \subseteq Clients

IInv == Others /\ Good(retail, Server)

-----------------------------------------------------------------------------
\* The constants.

LEMMA LargerOfTwo ==
    ASSUME NEW a \in Int, NEW b \in Int
    PROVE  Max({a, b}) \in {a, b} /\ Max({a, b}) >= a /\ Max({a, b}) >= b
<1>1. \E x \in {a, b} : \A y \in {a, b} : x >= y
  OBVIOUS
<1>2. Max({a, b}) \in {a, b} /\ \A y \in {a, b} : Max({a, b}) >= y
  BY <1>1 DEF Max
<1>3. QED
  BY <1>2

LEMMA LargestOfThree ==
    ASSUME NEW a \in Int, NEW b \in Int, NEW c \in Int
    PROVE  Max({a, b, c}) \in {a, b, c} /\ \A y \in {a, b, c} : Max({a, b, c}) >= y
<1>1. \E x \in {a, b, c} : \A y \in {a, b, c} : x >= y
  OBVIOUS
<1>2. QED
  BY <1>1 DEF Max

LEMMA Numbers ==
    /\ MaxClients \in Nat /\ MaxClients >= 1 /\ MaxRoom \in Nat /\ MaxRoom >= MaxClients
    /\ ReconnectLimit \in Nat /\ ZombieTime \in Nat /\ ConnectTime \in Nat
    /\ AuthTime \in Nat /\ Timeout \in Nat
BY SlotsAssumption

LEMMA Ages ==
    /\ OldConnect \in Nat /\ OldConnect >= ReconnectLimit /\ OldConnect >= AuthTime + 1
    /\ OldPacket \in Nat /\ OldPacket >= 1
<1>1. /\ Max({ReconnectLimit, AuthTime + 1}) \in {ReconnectLimit, AuthTime + 1}
      /\ Max({ReconnectLimit, AuthTime + 1}) >= ReconnectLimit
      /\ Max({ReconnectLimit, AuthTime + 1}) >= AuthTime + 1
  BY Numbers, LargerOfTwo
<1>2. Max({ZombieTime, ConnectTime, Timeout}) \in {ZombieTime, ConnectTime, Timeout}
  <2>1. ZombieTime \in Int /\ ConnectTime \in Int /\ Timeout \in Int
    BY Numbers
  <2>2. QED
    BY <2>1, LargestOfThree, Zenon
<1>3. QED
  BY <1>1, <1>2, Numbers DEF OldConnect, OldPacket

-----------------------------------------------------------------------------
\* Slots, and the record that holds them.

LEMMA SlotFields ==
    ASSUME NEW r \in SlotRecords
    PROVE  /\ r.state \in {"free", "zombie", "connected", "active"}
           /\ r.who \in Clients \cup {NoClient} /\ r.just \in BOOLEAN /\ r.linked \in BOOLEAN
           /\ r.sinceConnect \in 0 .. OldConnect /\ r.sincePacket \in 0 .. OldPacket
           /\ r.auth \in {"none", "pending", "valid"} /\ r.user \in Range(User) \cup {NoUser}
           /\ r.room \in 0 .. MaxRoom /\ r.odd \in {"no", "refused", "readmitted", "restarted"}
BY DEF SlotRecords

\* What the invariant reads of a slot is in q as in r.
SameOwner(r, q) ==
    /\ q.who = r.who /\ q.linked = r.linked /\ q.user = r.user
    /\ q.sinceConnect = r.sinceConnect

SameStanding(r, q) ==
    SameOwner(r, q) /\ q.state = r.state /\ q.auth = r.auth /\ q.odd = r.odd

LEMMA EmptySlotFields == EmptySlot \in SlotRecords
BY Numbers, Ages DEF EmptySlot, SlotRecords

LEMMA ZombieFields ==
    ASSUME NEW r \in SlotRecords
    PROVE  /\ Zombie(r) \in SlotRecords /\ SameOwner(r, Zombie(r))
           /\ Zombie(r).state = "zombie" /\ Zombie(r).auth = "none" /\ Zombie(r).odd = "no"
           /\ Zombie(r).room = MaxRoom /\ Zombie(r).sincePacket = r.sincePacket
<1>1. MaxRoom \in 0 .. MaxRoom
  BY Numbers
<1> DEFINE z == [r EXCEPT !.state = "zombie", !.just = FALSE, !.auth = "none",
                          !.room = MaxRoom, !.odd = "no"]
<1>2. z \in SlotRecords
  BY <1>1 DEF SlotRecords
<1>3. SameOwner(r, z) /\ z.sincePacket = r.sincePacket
  BY DEF SlotRecords, SameOwner
<1>4. z.state = "zombie" /\ z.auth = "none" /\ z.odd = "no" /\ z.room = MaxRoom
  BY DEF SlotRecords
<1>5. Zombie(r) = z
  BY DEF Zombie
<1> HIDE DEF z
<1>6. QED
  BY <1>2, <1>3, <1>4, <1>5

LEMMA RoomFields ==
    ASSUME NEW r \in SlotRecords, NEW n \in 0 .. MaxRoom
    PROVE  /\ [r EXCEPT !.room = n] \in SlotRecords
           /\ SameStanding(r, [r EXCEPT !.room = n])
           /\ [r EXCEPT !.room = n].room = n
BY DEF SlotRecords, SameOwner, SameStanding

LEMMA ServerFields ==
    ASSUME NEW sv \in Servers
    PROVE  /\ sv.slots \in [Slots -> SlotRecords] /\ sv.game \subseteq Slots
           /\ sv.sessions \subseteq Range(User)
           /\ \A s \in Slots : sv.slots[s] \in SlotRecords
BY DEF Servers

\* One slot of sv is replaced.
Put(sv, s, r) == [sv EXCEPT !.slots = [@ EXCEPT ![s] = r]]

LEMMA PutFields ==
    ASSUME NEW sv \in Servers, NEW s \in Slots, NEW r \in SlotRecords
    PROVE  /\ Put(sv, s, r) \in Servers
           /\ Put(sv, s, r).game = sv.game /\ Put(sv, s, r).sessions = sv.sessions
           /\ Put(sv, s, r).slots[s] = r
           /\ \A t \in Slots : t # s => Put(sv, s, r).slots[t] = sv.slots[t]
BY DEF Servers, Put

-----------------------------------------------------------------------------
\* What a server call does to the clients' connections, and how calls compose.

\* A connection that is up in w was up in sv, and the game still has its client.
Later(sv, w) ==
    \A s \in Slots :
        /\ w.slots[s].who = sv.slots[s].who
        /\ w.slots[s].sinceConnect = sv.slots[s].sinceConnect
        /\ Live(w.slots[s]) =>
            /\ Live(sv.slots[s]) /\ w.slots[s].linked = sv.slots[s].linked
            /\ s \in sv.game => s \in w.game

\* No slot comes free.
Uses(sv, w) ==
    \A s \in Slots : sv.slots[s].state # "free" => w.slots[s].state # "free"

Keeps(sv, w) ==
    /\ Sound(w) /\ Later(sv, w)
    /\ \A s \in Slots : InGame(sv, s) => InGame(w, s)
    /\ \A p \in SUBSET Clients, s \in Slots :
        /\ Begun(p, sv, s) => Begun(p, w, s)
        /\ Admitted(p, sv, s) => Admitted(p, w, s)

LEMMA KeepsSelf ==
    ASSUME NEW sv, Sound(sv)
    PROVE  Keeps(sv, sv) /\ Uses(sv, sv)
BY DEF Keeps, Later, Uses

LEMMA KeepsOn ==
    ASSUME NEW sv, NEW w, NEW x, Keeps(sv, w), Keeps(w, x)
    PROVE  Keeps(sv, x) /\ (Uses(sv, w) /\ Uses(w, x) => Uses(sv, x))
<1>1. Sound(x)
  BY DEF Keeps
<1>2. Later(sv, x)
  BY DEF Keeps, Later
<1>3. \A s \in Slots : InGame(sv, s) => InGame(x, s)
  BY DEF Keeps
<1>4. \A p \in SUBSET Clients, s \in Slots : /\ Begun(p, sv, s) => Begun(p, x, s)
                                             /\ Admitted(p, sv, s) => Admitted(p, x, s)
  BY DEF Keeps
<1>5. Uses(sv, w) /\ Uses(w, x) => Uses(sv, x)
  BY DEF Uses
<1>6. QED
  BY <1>1, <1>2, <1>3, <1>4, <1>5 DEF Keeps

\* Windows alone.
LEMMA StandingKept ==
    ASSUME NEW sv, NEW w \in Servers, Sound(sv), w.game = sv.game, w.sessions = sv.sessions,
           \A s \in Slots : SameStanding(sv.slots[s], w.slots[s])
    PROVE  Keeps(sv, w) /\ Uses(sv, w)
<1>1. Addressed(w) /\ Own(w) /\ Uses(sv, w)
  BY DEF Sound, Addressed, Own, Uses, SameStanding, SameOwner
<1>2. Quiet(w) /\ NoGhosts(w)
  BY DEF Sound, Quiet, NoGhosts, SameStanding, SameOwner, Live
<1>3. Held(w)
  BY DEF Sound, Held, SameStanding, SameOwner
<1>4. Later(sv, w)
  BY DEF Later, SameStanding, SameOwner, Live
<1>5. \A s \in Slots : InGame(sv, s) => InGame(w, s)
  BY DEF InGame, SameStanding, SameOwner, Live
<1>6. \A p \in SUBSET Clients, s \in Slots : /\ Begun(p, sv, s) => Begun(p, w, s)
                                             /\ Admitted(p, sv, s) => Admitted(p, w, s)
  BY DEF Begun, Admitted, Validated, SameStanding, SameOwner, Live
<1>7. QED
  BY <1>1, <1>2, <1>3, <1>4, <1>5, <1>6 DEF Keeps, Sound

\* Clients are dropped.
LEMMA DroppedFields ==
    ASSUME NEW sv \in Servers, NEW lost \in SUBSET Slots
    PROVE  LET w == Dropped(sv, lost) IN
           /\ w \in Servers
           /\ w.game = sv.game \ lost
           /\ w.sessions = sv.sessions
                \ {sv.slots[s].user : s \in {t \in lost : sv.slots[t].auth # "none"}}
           /\ \A s \in lost : w.slots[s] = Zombie(sv.slots[s])
           /\ \A s \in Slots \ lost : w.slots[s] = sv.slots[s]
<1> DEFINE f == [s \in Slots |-> IF s \in lost THEN Zombie(sv.slots[s]) ELSE sv.slots[s]]
           ended == {sv.slots[s].user : s \in {t \in lost : sv.slots[t].auth # "none"}}
<1>1. f \in [Slots -> SlotRecords]
  <2>1. ASSUME NEW s \in Slots
        PROVE  (IF s \in lost THEN Zombie(sv.slots[s]) ELSE sv.slots[s]) \in SlotRecords
    BY ServerFields, ZombieFields
  <2>2. QED
    BY <2>1
<1>2. sv.game \ lost \subseteq Slots /\ sv.sessions \ ended \subseteq Range(User)
  BY ServerFields
<1>3. \A s \in lost : f[s] = Zombie(sv.slots[s])
  OBVIOUS
<1>4. \A s \in Slots \ lost : f[s] = sv.slots[s]
  OBVIOUS
<1>5. Dropped(sv, lost) =
        [slots |-> f, game |-> sv.game \ lost, sessions |-> sv.sessions \ ended]
  BY DEF Dropped
<1> HIDE DEF f
<1>6. QED
  BY <1>1, <1>2, <1>3, <1>4, <1>5 DEF Servers

LEMMA DroppedKeeps ==
    ASSUME NEW sv, Sound(sv), NEW lost \in SUBSET Slots,
           \A s \in lost : sv.slots[s].state # "free"
    PROVE  /\ Keeps(sv, Dropped(sv, lost)) /\ Uses(sv, Dropped(sv, lost))
           /\ \A s \in lost : Dropped(sv, lost).slots[s].state = "zombie"
<1> DEFINE w == Dropped(sv, lost)
           ended == {sv.slots[s].user : s \in {t \in lost : sv.slots[t].auth # "none"}}
<1>1. /\ w \in Servers /\ w.game = sv.game \ lost /\ w.sessions = sv.sessions \ ended
      /\ \A s \in lost : w.slots[s] = Zombie(sv.slots[s])
      /\ \A s \in Slots \ lost : w.slots[s] = sv.slots[s]
  BY DroppedFields DEF Sound
<1> SUFFICES /\ Keeps(sv, w) /\ Uses(sv, w)
             /\ \A s \in lost : w.slots[s].state = "zombie"
  OBVIOUS
<1> HIDE DEF w
<1>2. \A s \in lost : /\ SameOwner(sv.slots[s], w.slots[s])
                      /\ w.slots[s].state = "zombie" /\ w.slots[s].auth = "none"
                      /\ w.slots[s].odd = "no"
  <2>1. \A s \in lost : sv.slots[s] \in SlotRecords
    BY ServerFields DEF Sound
  <2>2. QED
    BY <1>1, <2>1, ZombieFields
<1>3. \A s \in lost : ~Live(w.slots[s])
  BY <1>2 DEF Live
<1>4. Addressed(w) /\ Uses(sv, w)
  BY <1>1, <1>2 DEF Sound, Addressed, Uses, SameOwner
<1>5. Own(w)
  <2>1. \A s \in Slots : /\ w.slots[s].who = sv.slots[s].who
                         /\ w.slots[s].state # "free" => sv.slots[s].state # "free"
    BY <1>1, <1>2 DEF SameOwner
  <2>2. QED
    BY <2>1 DEF Sound, Own
<1>6. Quiet(w)
  BY <1>1, <1>2 DEF Sound, Quiet
<1>7. NoGhosts(w)
  BY <1>1, <1>2 DEF Sound, NoGhosts
<1>8. Held(w)
  <2>1. ASSUME NEW s \in Slots, w.slots[s].auth # "none"
        PROVE  s \notin lost /\ w.slots[s] = sv.slots[s]
    BY <1>1, <1>2, <2>1
  <2>2. ASSUME NEW s \in Slots, w.slots[s].auth # "none"
        PROVE  w.slots[s].user \in w.sessions
    <3>1. sv.slots[s].user \in sv.sessions
      BY <2>1, <2>2 DEF Sound, Held
    <3>2. sv.slots[s].user \notin ended
      BY <2>1, <2>2 DEF Sound, Held
    <3>3. QED
      BY <1>1, <2>1, <2>2, <3>1, <3>2
  <2>3. ASSUME NEW s \in Slots, NEW t \in Slots, w.slots[s].auth # "none",
               w.slots[t].auth # "none", w.slots[s].user = w.slots[t].user
        PROVE  s = t
    BY <2>1, <2>3 DEF Sound, Held
  <2>4. ASSUME NEW u \in w.sessions
        PROVE  \E s \in Slots : w.slots[s].auth # "none" /\ w.slots[s].user = u
    <3>1. u \in sv.sessions /\ u \notin ended
      BY <1>1
    <3>2. PICK s \in Slots : sv.slots[s].auth # "none" /\ sv.slots[s].user = u
      BY <3>1 DEF Sound, Held
    <3>3. s \notin lost
      BY <3>1, <3>2
    <3>4. QED
      BY <1>1, <3>2, <3>3
  <2>5. QED
    BY <2>2, <2>3, <2>4 DEF Held
<1>9. Later(sv, w)
  BY <1>1, <1>2, <1>3 DEF Later, SameOwner
<1>10. \A s \in Slots : InGame(sv, s) => InGame(w, s)
  BY <1>1, <1>3 DEF InGame
<1>11. \A p \in SUBSET Clients, s \in Slots : /\ Begun(p, sv, s) => Begun(p, w, s)
                                              /\ Admitted(p, sv, s) => Admitted(p, w, s)
  BY <1>1, <1>3 DEF Begun, Admitted
<1>12. QED
  BY <1>1, <1>2, <1>4, <1>5, <1>6, <1>7, <1>8, <1>9, <1>10, <1>11 DEF Keeps, Sound

-----------------------------------------------------------------------------
\* A broadcast, and what it takes with it.

\* A set of numbers has a least one: the intervals below its members have a
\* smallest.
LEMMA LeastFound ==
    ASSUME NEW S \in SUBSET Nat, S # {}
    PROVE  Least(S) \in S /\ \A j \in S : Least(S) <= j
<1> DEFINE T == {1..n : n \in S}
<1>1. T \subseteq FiniteSubsetsOf(Nat) /\ T # {}
  <2>1. \A n \in Nat : IsFiniteSet(1..n) /\ 1..n \subseteq Nat
    BY FS_Interval
  <2>2. QED
    BY <2>1 DEF FiniteSubsetsOf
<1>2. PICK x \in T : \A y \in T : ~ (<<y, x>> \in StrictSubsetOrdering(Nat))
  BY <1>1, FS_StrictSubsetOrderingWellFounded, WFMin
<1>3. PICK m \in S : x = 1..m
  BY <1>2
<1>4. ASSUME NEW j \in S, j < m PROVE FALSE
  <2>1. 1..j \subseteq 1..m /\ m \in 1..m /\ m \notin 1..j
    BY <1>4
  <2>2. <<1..j, 1..m>> \in StrictSubsetOrdering(Nat)
    BY <2>1 DEF StrictSubsetOrdering
  <2>3. QED
    BY <1>2, <1>3, <2>2
<1>5. \A j \in S : m <= j
  BY <1>4
<1>6. QED
  BY <1>5 DEF Least

LEMMA SlotsFinite ==
    /\ IsFiniteSet(Slots) /\ Cardinality(Slots) = MaxClients
    /\ \A S \in SUBSET Slots :
        IsFiniteSet(S) /\ Cardinality(S) \in Nat /\ Cardinality(S) <= MaxClients
<1>1. IsFiniteSet(Slots) /\ Cardinality(Slots) = MaxClients
  BY Numbers, FS_Interval DEF Slots
<1>2. ASSUME NEW S \in SUBSET Slots
      PROVE  IsFiniteSet(S) /\ Cardinality(S) \in Nat /\ Cardinality(S) <= MaxClients
  <2>1. IsFiniteSet(S) /\ Cardinality(S) <= Cardinality(Slots)
    BY <1>1, FS_Subset
  <2>2. QED
    BY <1>1, <2>1, FS_CardinalityType
<1>3. QED
  BY <1>1, <1>2

\* The broadcasts end: there are no more than clients to drop, and the first.
LEMMA BroadcastsEnd ==
    ASSUME NEW sv
    PROVE  /\ Broadcasts(sv) \in 1 .. MaxClients + 1
           /\ Cardinality(Overrun(sv, Broadcasts(sv))) < Broadcasts(sv)
<1> DEFINE N == {n \in 1 .. MaxClients + 1 : Cardinality(Overrun(sv, n)) < n}
<1>1. MaxClients + 1 \in N
  <2>1. Overrun(sv, MaxClients + 1) \in SUBSET Slots
    BY DEF Overrun
  <2>2. Cardinality(Overrun(sv, MaxClients + 1)) < MaxClients + 1
    BY <2>1, SlotsFinite, Numbers
  <2>3. QED
    BY <2>2, Numbers
<1>2. N \in SUBSET Nat
  BY Numbers
<1>3. Least(N) \in N
  <2> HIDE DEF N
  <2>1. QED
    BY <1>1, <1>2, LeastFound
<1>4. QED
  BY <1>3, Zenon DEF Broadcasts

LEMMA BroadcastKeeps ==
    ASSUME NEW sv, Sound(sv)
    PROVE  Keeps(sv, Broadcast(sv)) /\ Uses(sv, Broadcast(sv))
<1> DEFINE n == Broadcasts(sv)
           lost == Overrun(sv, n)
           rest == [s \in Slots |-> IF s \in lost THEN sv.slots[s] ELSE Charged(sv.slots[s], n)]
           w == [sv EXCEPT !.slots = rest]
<1>1. n \in 1 .. MaxClients + 1
  BY BroadcastsEnd
<1>2. Broadcast(sv) = Dropped(w, lost)
  BY DEF Broadcast
<1>3. lost \in SUBSET Slots /\ \A s \in lost : sv.slots[s].state = "active"
  BY DEF Overrun
<1>4. \A s \in Slots \ lost : sv.slots[s].state = "active" => ~(sv.slots[s].room < n)
  BY DEF Overrun
<1>5. sv \in Servers /\ \A s \in Slots : sv.slots[s] \in SlotRecords
  BY ServerFields DEF Sound
<1> HIDE DEF n, lost
<1>6. ASSUME NEW s \in Slots \ lost
      PROVE  /\ Charged(sv.slots[s], n) \in SlotRecords
             /\ SameStanding(sv.slots[s], Charged(sv.slots[s], n))
  <2>1. sv.slots[s] \in SlotRecords
    BY <1>5
  <2>2. CASE sv.slots[s].state = "active"
    <3>1. sv.slots[s].room - n \in 0 .. MaxRoom
      <4>1. sv.slots[s].room \in 0 .. MaxRoom
        BY <2>1, SlotFields
      <4>2. QED
        BY <1>1, <1>4, <2>2, <4>1, Numbers
    <3>2. Charged(sv.slots[s], n) = [sv.slots[s] EXCEPT !.room = sv.slots[s].room - n]
      BY <2>2 DEF Charged
    <3>3. QED
      BY <2>1, <3>1, <3>2, RoomFields
  <2>3. CASE sv.slots[s].state # "active"
    BY <2>1, <2>3 DEF Charged, SameStanding, SameOwner
  <2>4. QED
    BY <2>2, <2>3
<1>7. rest \in [Slots -> SlotRecords] /\ \A s \in Slots : SameStanding(sv.slots[s], rest[s])
  BY <1>5, <1>6 DEF SameStanding, SameOwner
<1> HIDE DEF rest
<1>8. w \in Servers /\ w.slots = rest /\ w.game = sv.game /\ w.sessions = sv.sessions
  BY <1>5, <1>7 DEF Servers
<1> HIDE DEF w
<1>9. Keeps(sv, w) /\ Uses(sv, w)
  BY <1>7, <1>8, StandingKept
<1>10. \A s \in lost : w.slots[s].state # "free"
  BY <1>3, <1>7, <1>8 DEF SameStanding
<1>11. Keeps(w, Dropped(w, lost)) /\ Uses(w, Dropped(w, lost))
  <2>1. Sound(w)
    BY <1>9 DEF Keeps
  <2>2. QED
    BY <1>3, <1>10, <2>1, DroppedKeeps
<1>12. QED
  BY <1>2, <1>9, <1>11, KeepsOn

-----------------------------------------------------------------------------
\* Dropping a client and sending it a command.

LEMMA RoomKept ==
    ASSUME NEW sv, Sound(sv), NEW s \in Slots, NEW n \in 0 .. MaxRoom
    PROVE  /\ Keeps(sv, [sv EXCEPT !.slots[s].room = n])
           /\ Uses(sv, [sv EXCEPT !.slots[s].room = n])
           /\ SameStanding(sv.slots[s], [sv EXCEPT !.slots[s].room = n].slots[s])
<1> DEFINE r == [sv.slots[s] EXCEPT !.room = n]
           w == Put(sv, s, r)
<1>1. sv \in Servers /\ \A t \in Slots : sv.slots[t] \in SlotRecords
  BY ServerFields DEF Sound
<1>2. r \in SlotRecords /\ SameStanding(sv.slots[s], r)
  BY <1>1, RoomFields
<1>3. [sv EXCEPT !.slots[s].room = n] = w
  BY DEF Put
<1> HIDE DEF r
<1>4. /\ w \in Servers /\ w.game = sv.game /\ w.sessions = sv.sessions /\ w.slots[s] = r
      /\ \A t \in Slots : t # s => w.slots[t] = sv.slots[t]
  BY <1>1, <1>2, PutFields
<1> HIDE DEF w
<1>5. \A t \in Slots : SameStanding(sv.slots[t], w.slots[t])
  BY <1>2, <1>4 DEF SameStanding, SameOwner
<1>6. Keeps(sv, w) /\ Uses(sv, w)
  BY <1>4, <1>5, StandingKept
<1>7. QED
  BY <1>3, <1>5, <1>6

LEMMA CollapsedKeeps ==
    ASSUME NEW sv, Sound(sv), NEW s \in Slots
    PROVE  /\ Keeps(sv, Collapsed(sv, s)) /\ Uses(sv, Collapsed(sv, s))
           /\ SameStanding(sv.slots[s], Collapsed(sv, s).slots[s])
<1>1. MaxRoom \in 0 .. MaxRoom
  BY Numbers
<1>2. QED
  BY <1>1, RoomKept DEF Collapsed

LEMMA ToldKeeps ==
    ASSUME NEW sv, Sound(sv), NEW s \in Slots
    PROVE  Keeps(sv, Told(sv, s)) /\ Uses(sv, Told(sv, s))
<1> DEFINE all == Broadcast(sv)
           once == Collapsed(all, s)
<1>1. Keeps(sv, all) /\ Uses(sv, all) /\ Sound(all)
  BY BroadcastKeeps DEF Keeps
<1>2. Told(sv, s) \in {all, Broadcast(once)}
  BY DEF Told
<1> HIDE DEF all
<1>3. Keeps(all, once) /\ Uses(all, once) /\ Sound(once)
  BY <1>1, CollapsedKeeps DEF Keeps
<1> HIDE DEF once
<1>4. Keeps(once, Broadcast(once)) /\ Uses(once, Broadcast(once))
  BY <1>3, BroadcastKeeps
<1>5. Keeps(sv, once) /\ Uses(sv, once)
  BY <1>1, <1>3, KeepsOn
<1>6. Keeps(sv, Broadcast(once)) /\ Uses(sv, Broadcast(once))
  BY <1>4, <1>5, KeepsOn
<1>7. QED
  BY <1>1, <1>2, <1>6

LEMMA DropKeeps ==
    ASSUME NEW sv, Sound(sv), NEW s \in Slots, NEW reason, sv.slots[s].state # "free"
    PROVE  /\ Keeps(sv, DropClient(sv, s, reason)) /\ Uses(sv, DropClient(sv, s, reason))
           /\ DropClient(sv, s, reason).slots[s].state = "zombie"
<1>1. CASE sv.slots[s].state = "zombie"
  BY <1>1, KeepsSelf DEF DropClient
<1>2. CASE sv.slots[s].state # "zombie"
  <2> DEFINE told == IF reason THEN Told(sv, s) ELSE sv
  <2>1. Keeps(sv, told) /\ Uses(sv, told)
    BY ToldKeeps, KeepsSelf
  <2>2. DropClient(sv, s, reason) = Dropped(told, {s})
    BY <1>2 DEF DropClient
  <2> HIDE DEF told
  <2>3. Sound(told) /\ {s} \in SUBSET Slots /\ \A t \in {s} : told.slots[t].state # "free"
    BY <2>1 DEF Keeps, Uses
  <2>4. /\ Keeps(told, Dropped(told, {s})) /\ Uses(told, Dropped(told, {s}))
        /\ Dropped(told, {s}).slots[s].state = "zombie"
    BY <2>3, DroppedKeeps
  <2>5. QED
    BY <2>1, <2>2, <2>4, KeepsOn
<1>3. QED
  BY <1>1, <1>2

LEMMA AddKeeps ==
    ASSUME NEW sv, Sound(sv), NEW s \in Slots
    PROVE  Keeps(sv, AddServerCommand(sv, s)) /\ Uses(sv, AddServerCommand(sv, s))
<1>1. CASE sv.slots[s].state # "active"
  BY <1>1, KeepsSelf DEF AddServerCommand
<1>2. CASE sv.slots[s].state = "active" /\ sv.slots[s].room > 0
  <2>1. sv.slots[s].room - 1 \in 0 .. MaxRoom
    <3>1. sv.slots[s].room \in 0 .. MaxRoom
      BY ServerFields, SlotFields DEF Sound
    <3>2. QED
      BY <1>2, <3>1, Numbers
  <2> DEFINE n == sv.slots[s].room - 1
  <2>2. AddServerCommand(sv, s) = [sv EXCEPT !.slots[s].room = n]
    BY <1>2 DEF AddServerCommand
  <2>3. n \in 0 .. MaxRoom
    BY <2>1
  <2> HIDE DEF n
  <2>4. /\ Keeps(sv, [sv EXCEPT !.slots[s].room = n])
        /\ Uses(sv, [sv EXCEPT !.slots[s].room = n])
    BY <2>3, RoomKept
  <2>5. QED
    BY <2>2, <2>4, Zenon
<1>3. CASE sv.slots[s].state = "active" /\ ~(sv.slots[s].room > 0)
  <2> DEFINE once == Collapsed(sv, s)
  <2>1. Keeps(sv, once) /\ Uses(sv, once) /\ once.slots[s].state # "free"
    BY <1>3, CollapsedKeeps DEF SameStanding
  <2>2. AddServerCommand(sv, s) = DropClient(once, s, TRUE)
    BY <1>3 DEF AddServerCommand
  <2> HIDE DEF once
  <2>3. Keeps(once, DropClient(once, s, TRUE)) /\ Uses(once, DropClient(once, s, TRUE))
    <3>1. Sound(once)
      BY <2>1 DEF Keeps
    <3>2. QED
      BY <2>1, <3>1, DropKeeps
  <2>4. QED
    BY <2>1, <2>2, <2>3, KeepsOn
<1>4. QED
  BY <1>1, <1>2, <1>3

-----------------------------------------------------------------------------
\* The loop over the slots.

\* Numbers before which a property holds, and which inherit it, have it.
LEMMA EverySlotReached ==
    ASSUME NEW G, 0 \in G, \A k \in Slots : k - 1 \in G => k \in G
    PROVE  \A k \in 0 .. MaxClients : k \in G
<1> DEFINE Bad == {k \in 0 .. MaxClients : k \notin G}
<1>1. SUFFICES ASSUME Bad # {} PROVE FALSE
  OBVIOUS
<1>2. Bad \in SUBSET Nat
  BY Numbers
<1>3. Least(Bad) \in Bad /\ \A j \in Bad : Least(Bad) <= j
  <2> HIDE DEF Bad
  <2>1. QED
    BY <1>1, <1>2, LeastFound
<1> DEFINE m == Least(Bad)
<1>4. m \in Bad /\ \A j \in Bad : m <= j
  BY <1>3
<1> HIDE DEF m
<1>5. m \in Slots /\ m \notin G
  BY <1>4, Numbers DEF Slots
<1>6. m - 1 \notin Bad
  BY <1>4, <1>5, Numbers DEF Slots
<1>7. QED
  BY <1>5, <1>6, Numbers DEF Slots

Loops(f, F, x) == f[0] = x /\ \A n \in Slots : f[n] = F[<<n, f[n - 1]>>]

LEMMA LoopFound ==
    ASSUME NEW S, NEW x \in S, NEW F \in [Slots \X S -> S]
    PROVE  \E f \in [0 .. MaxClients -> S] : Loops(f, F, x)
<1> DEFINE Steps(m, u) == u[0] = x /\ \A k \in 1 .. m : u[k] = F[<<k, u[k - 1]>>]
           G == {m \in Nat : \E u \in [0 .. m -> S] : Steps(m, u)}
<1>1. 0 \in G
  <2>1. [k \in 0 .. 0 |-> x] \in [0 .. 0 -> S] /\ Steps(0, [k \in 0 .. 0 |-> x])
    OBVIOUS
  <2>2. QED
    BY <2>1
<1>2. ASSUME NEW k \in Slots, k - 1 \in G PROVE k \in G
  <2>1. PICK u \in [0 .. (k - 1) -> S] : Steps(k - 1, u)
    BY <1>2
  <2> DEFINE v == [j \in 0 .. k |-> IF j = k THEN F[<<k, u[k - 1]>>] ELSE u[j]]
  <2>2. k \in Nat /\ k >= 1 /\ u[k - 1] \in S
    BY Numbers DEF Slots
  <2>3. v \in [0 .. k -> S] /\ v[0] = x
    <3>1. F[<<k, u[k - 1]>>] \in S
      BY <2>2
    <3>2. QED
      BY <2>1, <2>2, <3>1
  <2>4. ASSUME NEW j \in 1 .. k PROVE v[j] = F[<<j, v[j - 1]>>]
    <3>1. CASE j = k
      <4>1. v[j] = F[<<k, u[k - 1]>>] /\ v[j - 1] = u[k - 1]
        BY <2>2, <3>1
      <4>2. QED
        BY <3>1, <4>1
    <3>2. CASE j # k
      <4>1. j \in 1 .. (k - 1) /\ v[j] = u[j] /\ v[j - 1] = u[j - 1]
        BY <2>2, <3>2
      <4>2. QED
        BY <2>1, <4>1
    <3>3. QED
      BY <3>1, <3>2
  <2>5. Steps(k, v)
    BY <2>3, <2>4
  <2>6. QED
    BY <2>2, <2>3, <2>5
<1>3. MaxClients \in G
  <2> HIDE DEF G
  <2>1. \A k \in 0 .. MaxClients : k \in G
    BY <1>1, <1>2, EverySlotReached
  <2>2. QED
    BY <2>1, Numbers
<1>4. QED
  BY <1>3 DEF Slots, Loops

SoundServers == {sv \in Servers : Sound(sv)}

LEMMA AnsweredKeeps ==
    ASSUME NEW sv, Sound(sv), NEW s \in Slots, NEW user, NEW ok \in BOOLEAN
    PROVE  Keeps(sv, Answered(sv, s, user, ok))
<1> DEFINE r == [sv.slots[s] EXCEPT !.auth = "valid"]
           w == Put(sv, s, r)
<1>1. CASE sv.slots[s].user # user \/ sv.slots[s].auth = "none" \/ ~Live(sv.slots[s])
  BY <1>1, KeepsSelf DEF Answered
<1>2. CASE sv.slots[s].auth # "none" /\ Live(sv.slots[s]) /\ sv.slots[s].user = user /\ ~ok
  <2>1. sv.slots[s].state # "free" /\ Answered(sv, s, user, ok) = DropClient(sv, s, TRUE)
    BY <1>2 DEF Answered, Live
  <2>2. QED
    BY <2>1, DropKeeps
<1>3. CASE sv.slots[s].auth # "none" /\ Live(sv.slots[s]) /\ sv.slots[s].user = user /\ ok
  <2>1. Answered(sv, s, user, ok) = w
    BY <1>3 DEF Answered, Put
  <2>2. sv \in Servers /\ \A t \in Slots : sv.slots[t] \in SlotRecords
    BY ServerFields DEF Sound
  <2>3. /\ r \in SlotRecords /\ SameOwner(sv.slots[s], r) /\ r.auth = "valid"
        /\ r.state = sv.slots[s].state /\ r.odd = sv.slots[s].odd
    BY <2>2 DEF SlotRecords, SameOwner
  <2> HIDE DEF r
  <2>4. /\ w \in Servers /\ w.game = sv.game /\ w.sessions = sv.sessions /\ w.slots[s] = r
        /\ \A t \in Slots : t # s => w.slots[t] = sv.slots[t]
    BY <2>2, <2>3, PutFields
  <2> HIDE DEF w
  <2>5. \A t \in Slots : /\ SameOwner(sv.slots[t], w.slots[t])
                         /\ w.slots[t].state = sv.slots[t].state
                         /\ w.slots[t].odd = sv.slots[t].odd
                         /\ w.slots[t].auth = "none" <=> sv.slots[t].auth = "none"
    BY <1>3, <2>3, <2>4 DEF SameOwner
  <2>6. Addressed(w) /\ Own(w)
    BY <2>5 DEF Sound, Addressed, Own, SameOwner
  <2>7. Quiet(w) /\ NoGhosts(w)
    BY <2>4, <2>5 DEF Sound, Quiet, NoGhosts, Live
  <2>8. Held(w)
    BY <2>4, <2>5 DEF Sound, Held, SameOwner
  <2>9. Later(sv, w)
    BY <2>4, <2>5 DEF Later, SameOwner, Live
  <2>10. \A t \in Slots : InGame(sv, t) => InGame(w, t)
    BY <2>4, <2>5 DEF InGame, Live
  <2>11. \A p \in SUBSET Clients, t \in Slots : /\ Begun(p, sv, t) => Begun(p, w, t)
                                                /\ Admitted(p, sv, t) => Admitted(p, w, t)
    BY <2>3, <2>4, <2>5 DEF Begun, Admitted, Validated, SameOwner
  <2>12. QED
    BY <2>1, <2>4, <2>6, <2>7, <2>8, <2>9, <2>10, <2>11 DEF Keeps, Sound
<1>4. QED
  BY <1>1, <1>2, <1>3

LEMMA AnswersRun ==
    ASSUME NEW x \in SoundServers, NEW user, NEW ok \in BOOLEAN
    PROVE  \E g : /\ g[0] = x
                  /\ \A n \in Slots : g[n] = Answered(g[n - 1], n, user, ok)
                  /\ AnsweredAll(x, user, ok) = g[MaxClients]
<1> DEFINE F == [q \in Slots \X SoundServers |-> Answered(q[2], q[1], user, ok)]
<1>1. F \in [Slots \X SoundServers -> SoundServers]
  <2>1. ASSUME NEW q \in Slots \X SoundServers
        PROVE  Answered(q[2], q[1], user, ok) \in SoundServers
    BY AnsweredKeeps DEF SoundServers, Keeps, Sound
  <2>2. QED
    BY <2>1
<1>2. PICK f \in [0 .. MaxClients -> SoundServers] : Loops(f, F, x)
  <2> HIDE DEF F
  <2>1. QED
    BY <1>1, LoopFound, Zenon
<1>3. \A n \in Slots : f[n] = Answered(f[n - 1], n, user, ok)
  <2>1. \A n \in Slots : f[n - 1] \in SoundServers
    BY Numbers DEF Slots
  <2>2. QED
    BY <1>2, <2>1 DEF Loops
<1> DEFINE Is(g) == g = [n \in 0 .. MaxClients |->
                          IF n = 0 THEN x ELSE Answered(g[n - 1], n, user, ok)]
<1>4. Is(f)
  <2>1. ASSUME NEW n \in 0 .. MaxClients
        PROVE  f[n] = IF n = 0 THEN x ELSE Answered(f[n - 1], n, user, ok)
    BY <1>2, <1>3, Numbers DEF Slots, Loops
  <2>2. QED
    BY <1>2, <2>1
<1> DEFINE g == CHOOSE h : Is(h)
<1>5. Is(g)
  BY <1>4
<1>6. AnsweredAll(x, user, ok) = g[MaxClients]
  BY DEF EachSlot, AnsweredAll
<1>7. g[0] = x /\ \A n \in Slots : g[n] = Answered(g[n - 1], n, user, ok)
  <2> HIDE DEF g
  <2>1. QED
    BY <1>5, Numbers DEF Slots
<1>8. QED
  BY <1>6, <1>7

-----------------------------------------------------------------------------
\* Time-outs.

LEMMA FreeKeeps ==
    ASSUME NEW sv, Sound(sv), NEW s \in Slots, sv.slots[s].state = "zombie"
    PROVE  Keeps(sv, Free(sv, s)) /\ ~Live(Free(sv, s).slots[s])
<1> DEFINE r == [sv.slots[s] EXCEPT !.state = "free", !.sincePacket = 0, !.linked = FALSE,
                                    !.user = NoUser]
           w == Put(sv, s, r)
<1>1. sv \in Servers /\ \A t \in Slots : sv.slots[t] \in SlotRecords
  BY ServerFields DEF Sound
<1>2. Free(sv, s) = w
  BY <1>1, ServerFields DEF Free, Put, Servers
<1>3. /\ r \in SlotRecords /\ r.state = "free" /\ r.auth = sv.slots[s].auth
      /\ r.odd = sv.slots[s].odd /\ r.who = sv.slots[s].who
      /\ r.sinceConnect = sv.slots[s].sinceConnect
  <2>1. 0 \in 0 .. OldPacket
    BY Ages
  <2>2. r \in SlotRecords
    BY <1>1, <2>1, ZenonT(30) DEF SlotRecords
  <2>3. QED
    BY <1>1, <2>2 DEF SlotRecords
<1> HIDE DEF r
<1>4. /\ w \in Servers /\ w.game = sv.game /\ w.sessions = sv.sessions /\ w.slots[s] = r
      /\ \A t \in Slots : t # s => w.slots[t] = sv.slots[t]
  BY <1>1, <1>3, PutFields
<1> HIDE DEF w
<1>5. sv.slots[s].auth = "none" /\ ~Live(w.slots[s]) /\ ~Live(sv.slots[s])
  BY <1>3, <1>4 DEF Sound, Quiet, Live
<1>6. Addressed(w) /\ Own(w) /\ Quiet(w)
  <2>1. Addressed(w)
    BY <1>3, <1>4 DEF Sound, Addressed
  <2>2. Own(w)
    BY <1>3, <1>4 DEF Sound, Own
  <2>3. Quiet(w)
    BY <1>3, <1>4, <1>5 DEF Sound, Quiet
  <2>4. QED
    BY <2>1, <2>2, <2>3
<1>7. NoGhosts(w)
  BY <1>3, <1>4, <1>5 DEF Sound, NoGhosts
<1>8. Held(w)
  <2>1. \A t \in Slots : /\ w.slots[t].auth = sv.slots[t].auth
                         /\ sv.slots[t].auth # "none" => w.slots[t].user = sv.slots[t].user
    BY <1>3, <1>4, <1>5
  <2>2. QED
    BY <1>4, <2>1 DEF Sound, Held
<1>9. Later(sv, w)
  BY <1>3, <1>4, <1>5 DEF Later
<1>10. \A t \in Slots : InGame(sv, t) => InGame(w, t)
  BY <1>4, <1>5 DEF InGame
<1>11. \A p \in SUBSET Clients, t \in Slots : /\ Begun(p, sv, t) => Begun(p, w, t)
                                              /\ Admitted(p, sv, t) => Admitted(p, w, t)
  BY <1>4, <1>5 DEF Begun, Admitted
<1>12. QED
  BY <1>2, <1>4, <1>5, <1>6, <1>7, <1>8, <1>9, <1>10, <1>11 DEF Keeps, Sound

\* A client that is left connected is not overdue.
LEMMA CheckTimeoutKeeps ==
    ASSUME NEW sv, Sound(sv), NEW s \in Slots
    PROVE  /\ Keeps(sv, CheckTimeout(sv, s))
           /\ \A p \in SUBSET Clients : Begun(p, sv, s) => Admitted(p, CheckTimeout(sv, s), s)
<1> DEFINE slot == sv.slots[s]
           Overdue == slot.auth = "pending" /\ slot.sinceConnect > AuthTime
<1>1. slot \in SlotRecords
  BY ServerFields DEF Sound
<1>2. ASSUME NEW reason, slot.state # "free"
      PROVE  /\ Keeps(sv, Free(DropClient(sv, s, reason), s))
             /\ ~Live(Free(DropClient(sv, s, reason), s).slots[s])
             /\ Keeps(sv, DropClient(sv, s, reason))
             /\ ~Live(DropClient(sv, s, reason).slots[s])
  <2> DEFINE w == DropClient(sv, s, reason)
  <2>1. Keeps(sv, w) /\ w.slots[s].state = "zombie"
    BY <1>2, DropKeeps
  <2> HIDE DEF w
  <2>2. Keeps(w, Free(w, s)) /\ ~Live(Free(w, s).slots[s])
    BY <2>1, FreeKeeps DEF Keeps
  <2>3. Keeps(sv, Free(w, s))
    BY <2>1, <2>2, KeepsOn
  <2>4. ~Live(w.slots[s])
    BY <2>1 DEF Live
  <2>5. QED
    BY <2>1, <2>2, <2>3, <2>4 DEF w
<1>3. ASSUME NEW w, ~Live(w.slots[s]) PROVE \A p \in SUBSET Clients : Admitted(p, w, s)
  BY <1>3 DEF Admitted
<1>4. CASE slot.state = "free"
  <2>1. CheckTimeout(sv, s) = sv /\ ~Live(slot)
    BY <1>4 DEF CheckTimeout, Live
  <2>2. QED
    BY <1>3, <2>1, KeepsSelf
<1>5. CASE slot.state # "free" /\ Overdue
  <2>1. CheckTimeout(sv, s) = DropClient(sv, s, TRUE)
    BY <1>5 DEF CheckTimeout
  <2>2. QED
    BY <1>2, <1>3, <1>5, <2>1
<1>6. CASE slot.state = "zombie" /\ ~Overdue
  <2>1. CheckTimeout(sv, s) \in {sv, Free(sv, s)}
    BY <1>6 DEF CheckTimeout
  <2>2. ~Live(slot)
    BY <1>6 DEF Live
  <2>3. QED
    BY <1>3, <1>6, <2>1, <2>2, KeepsSelf, FreeKeeps
<1>7. CASE slot.state \notin {"free", "zombie"} /\ ~Overdue
  <2>1. CheckTimeout(sv, s) \in
          {sv, Free(DropClient(sv, s, FALSE), s), Free(DropClient(sv, s, TRUE), s)}
    BY <1>7 DEF CheckTimeout
  <2>2. \A p \in SUBSET Clients : Begun(p, sv, s) => Admitted(p, sv, s)
    BY <1>1, <1>7, SlotFields, Numbers, Ages DEF Begun, Admitted, Validated
  <2>3. QED
    BY <1>2, <1>3, <1>7, <2>1, <2>2, KeepsSelf
<1>8. QED
  BY <1>4, <1>5, <1>6, <1>7

LEMMA TimeoutsRun ==
    ASSUME NEW x \in SoundServers
    PROVE  \E g : /\ g[0] = x
                  /\ \A n \in Slots : g[n] = CheckTimeout(g[n - 1], n)
                  /\ CheckedAll(x) = g[MaxClients]
<1> DEFINE F == [q \in Slots \X SoundServers |-> CheckTimeout(q[2], q[1])]
<1>1. F \in [Slots \X SoundServers -> SoundServers]
  <2>1. ASSUME NEW q \in Slots \X SoundServers
        PROVE  CheckTimeout(q[2], q[1]) \in SoundServers
    BY CheckTimeoutKeeps DEF SoundServers, Keeps, Sound
  <2>2. QED
    BY <2>1
<1>2. PICK f \in [0 .. MaxClients -> SoundServers] : Loops(f, F, x)
  <2> HIDE DEF F
  <2>1. QED
    BY <1>1, LoopFound, Zenon
<1>3. \A n \in Slots : f[n] = CheckTimeout(f[n - 1], n)
  <2>1. \A n \in Slots : f[n - 1] \in SoundServers
    BY Numbers DEF Slots
  <2>2. QED
    BY <1>2, <2>1 DEF Loops
<1> DEFINE Is(g) == g = [n \in 0 .. MaxClients |->
                          IF n = 0 THEN x ELSE CheckTimeout(g[n - 1], n)]
<1>4. Is(f)
  <2>1. ASSUME NEW n \in 0 .. MaxClients
        PROVE  f[n] = IF n = 0 THEN x ELSE CheckTimeout(f[n - 1], n)
    BY <1>2, <1>3, Numbers DEF Slots, Loops
  <2>2. QED
    BY <1>2, <2>1
<1> DEFINE g == CHOOSE h : Is(h)
<1>5. Is(g)
  BY <1>4
<1>6. CheckedAll(x) = g[MaxClients]
  BY DEF EachSlot, CheckedAll
<1>7. g[0] = x /\ \A n \in Slots : g[n] = CheckTimeout(g[n - 1], n)
  <2> HIDE DEF g
  <2>1. QED
    BY <1>5, Numbers DEF Slots
<1>8. QED
  BY <1>6, <1>7

-----------------------------------------------------------------------------
\* Map changes and restarts.

\* Slot s joins the game of w, its history and whether it is active or
\* connected apart.
LEMMA JoinKeeps ==
    ASSUME NEW sv, Sound(sv), NEW s \in Slots, NEW r \in SlotRecords, NEW w,
           SameOwner(sv.slots[s], r), r.auth = sv.slots[s].auth,
           Live(r) <=> Live(sv.slots[s]), (r.state = "free") <=> (sv.slots[s].state = "free"),
           r.odd = IF Live(r) THEN Readmitted(sv.slots[s].odd) ELSE "restarted",
           w.slots = [sv.slots EXCEPT ![s] = r], w.game = sv.game \cup {s},
           w.sessions = sv.sessions, w \in Servers
    PROVE  Keeps(sv, w)
<1>1. sv.slots \in [Slots -> SlotRecords]
  BY ServerFields DEF Sound
<1>2. w.slots[s] = r /\ \A t \in Slots : t # s => w.slots[t] = sv.slots[t]
  BY <1>1
<1>3. \A t \in Slots : /\ SameOwner(sv.slots[t], w.slots[t])
                       /\ Live(w.slots[t]) <=> Live(sv.slots[t])
                       /\ w.slots[t].auth = sv.slots[t].auth
                       /\ w.slots[t].state = "free" <=> sv.slots[t].state = "free"
  BY <1>2 DEF SameOwner
<1>4. Addressed(w)
  BY <1>3 DEF Sound, Addressed, SameOwner
<1>5. Own(w)
  BY <1>3 DEF Sound, Own, SameOwner
<1>6. Quiet(w)
  BY <1>3 DEF Sound, Quiet
<1>7. Held(w)
  BY <1>3 DEF Sound, Held, SameOwner
<1>8. NoGhosts(w)
  BY <1>2, <1>3 DEF Sound, NoGhosts
<1>9. Later(sv, w)
  BY <1>3 DEF Later, SameOwner
<1>10. \A t \in Slots : InGame(sv, t) => InGame(w, t)
  BY <1>2, <1>3 DEF InGame
<1>11. \A p \in SUBSET Clients, t \in Slots : /\ Begun(p, sv, t) => Begun(p, w, t)
                                              /\ Admitted(p, sv, t) => Admitted(p, w, t)
  <2>1. \A t \in Slots : Live(w.slots[t]) /\ w.slots[t].odd \notin {"refused", "readmitted"}
                            => sv.slots[t].odd \notin {"refused", "readmitted"}
    BY <1>2 DEF Readmitted
  <2>2. QED
    BY <1>3, <2>1 DEF Begun, Admitted, Validated, SameOwner
<1>12. QED
  BY <1>4, <1>5, <1>6, <1>7, <1>8, <1>9, <1>10, <1>11 DEF Keeps, Sound

LEMMA RespawnedKeeps ==
    ASSUME NEW sv, Sound(sv), NEW s \in Slots, NEW denied
    PROVE  LET w == Respawned(sv, s, denied) IN
           Keeps(sv, w) /\ (Live(w.slots[s]) => s \in w.game)
<1>1. CASE ~Live(sv.slots[s])
  BY <1>1, KeepsSelf DEF Respawned
<1>2. CASE Live(sv.slots[s]) /\ s \in denied
  <2>1. Respawned(sv, s, denied) = DropClient(sv, s, TRUE) /\ sv.slots[s].state # "free"
    BY <1>2 DEF Respawned, Reconnect, Live
  <2>2. /\ Keeps(sv, DropClient(sv, s, TRUE))
        /\ DropClient(sv, s, TRUE).slots[s].state = "zombie"
    BY <2>1, DropKeeps
  <2>3. QED
    BY <2>1, <2>2 DEF Live
<1>3. CASE Live(sv.slots[s]) /\ s \notin denied
  <2> DEFINE r == [sv.slots[s] EXCEPT !.state = "connected", !.odd = Readmitted(@)]
             w == [sv EXCEPT !.game = @ \cup {s}, !.slots = [@ EXCEPT ![s] = r]]
  <2>1. sv \in Servers /\ sv.slots[s] \in SlotRecords
    BY ServerFields DEF Sound
  <2>2. Respawned(sv, s, denied) = w
    BY <1>3, <2>1, ServerFields DEF Respawned, Reconnect, Servers
  <2>3. Readmitted(sv.slots[s].odd) \in {"no", "refused", "readmitted", "restarted"}
    BY <2>1, SlotFields DEF Readmitted
  <2>4. /\ r \in SlotRecords /\ SameOwner(sv.slots[s], r) /\ r.auth = sv.slots[s].auth
        /\ r.state = "connected" /\ r.odd = Readmitted(sv.slots[s].odd)
    BY <2>1, <2>3 DEF SlotRecords, SameOwner
  <2>5. Live(r) /\ sv.slots[s].state # "free" /\ r.state # "free"
    BY <1>3, <2>4 DEF Live
  <2> HIDE DEF r
  <2>6. /\ w \in Servers /\ w.slots = [sv.slots EXCEPT ![s] = r]
        /\ w.game = sv.game \cup {s} /\ w.sessions = sv.sessions
    BY <2>1, <2>4 DEF Servers
  <2> HIDE DEF w
  <2>7. Keeps(sv, w)
    BY <1>3, <2>4, <2>5, <2>6, JoinKeeps
  <2>8. QED
    BY <2>2, <2>6, <2>7
<1>4. QED
  BY <1>1, <1>2, <1>3

LEMMA RestartedKeeps ==
    ASSUME NEW sv, Sound(sv), NEW s \in Slots, NEW denied
    PROVE  LET w == Restarted(sv, s, denied) IN
           Keeps(sv, w) /\ (Live(w.slots[s]) => s \in w.game)
<1> DEFINE told == AddServerCommand(sv, s)
<1>1. CASE ~Live(sv.slots[s])
  BY <1>1, KeepsSelf DEF Restarted
<1>2. Keeps(sv, told) /\ Uses(sv, told) /\ Sound(told)
  BY AddKeeps DEF Keeps
<1>3. CASE Live(sv.slots[s]) /\ s \in denied
  <2>1. Restarted(sv, s, denied) = DropClient(told, s, TRUE)
    BY <1>3 DEF Restarted, Reconnect
  <2>2. told.slots[s].state # "free"
    BY <1>2, <1>3 DEF Uses, Live
  <2> HIDE DEF told
  <2>3. /\ Keeps(told, DropClient(told, s, TRUE))
        /\ DropClient(told, s, TRUE).slots[s].state = "zombie"
    BY <1>2, <2>2, DropKeeps
  <2>4. Keeps(sv, DropClient(told, s, TRUE))
    BY <1>2, <2>3, KeepsOn
  <2>5. QED
    BY <2>1, <2>3, <2>4 DEF Live
<1>4. CASE Live(sv.slots[s]) /\ s \notin denied
  <2> DEFINE odd == IF Live(told.slots[s]) THEN Readmitted(told.slots[s].odd) ELSE "restarted"
             r == [told.slots[s] EXCEPT !.odd = odd]
             w == [told EXCEPT !.game = @ \cup {s}, !.slots = [@ EXCEPT ![s] = r]]
  <2>1. told \in Servers /\ told.slots[s] \in SlotRecords
    BY <1>2, ServerFields DEF Sound
  <2>2. Restarted(sv, s, denied) = w
    BY <1>4, <2>1, ServerFields DEF Restarted, Reconnect, Servers
  <2> HIDE DEF told
  <2>3. odd \in {"no", "refused", "readmitted", "restarted"}
    BY <2>1, SlotFields DEF Readmitted
  <2>4. /\ r \in SlotRecords /\ SameOwner(told.slots[s], r) /\ r.auth = told.slots[s].auth
        /\ r.state = told.slots[s].state /\ r.odd = odd
    <3> HIDE DEF odd
    <3>1. QED
      BY <2>1, <2>3 DEF SlotRecords, SameOwner
  <2>5. Live(r) <=> Live(told.slots[s])
    BY <2>4 DEF Live
  <2>6. r.odd = IF Live(r) THEN Readmitted(told.slots[s].odd) ELSE "restarted"
    BY <2>4, <2>5
  <2> HIDE DEF r, odd
  <2>7. /\ w \in Servers /\ w.slots = [told.slots EXCEPT ![s] = r]
        /\ w.game = told.game \cup {s} /\ w.sessions = told.sessions
    BY <2>1, <2>4 DEF Servers
  <2> HIDE DEF w
  <2>8. Keeps(told, w)
    BY <1>2, <2>4, <2>5, <2>6, <2>7, JoinKeeps
  <2>9. Keeps(sv, w)
    BY <1>2, <2>8, KeepsOn
  <2>10. QED
    BY <2>2, <2>7, <2>9
<1>5. QED
  BY <1>1, <1>3, <1>4

LEMMA RespawnsRun ==
    ASSUME NEW x \in SoundServers, NEW denied
    PROVE  \E g : /\ g[0] = x
                  /\ \A n \in Slots : g[n] = Respawned(g[n - 1], n, denied)
                  /\ RespawnedAll(x, denied) = g[MaxClients]
<1> DEFINE F == [q \in Slots \X SoundServers |-> Respawned(q[2], q[1], denied)]
<1>1. F \in [Slots \X SoundServers -> SoundServers]
  <2>1. ASSUME NEW q \in Slots \X SoundServers
        PROVE  Respawned(q[2], q[1], denied) \in SoundServers
    BY RespawnedKeeps DEF SoundServers, Keeps, Sound
  <2>2. QED
    BY <2>1
<1>2. PICK f \in [0 .. MaxClients -> SoundServers] : Loops(f, F, x)
  <2> HIDE DEF F
  <2>1. QED
    BY <1>1, LoopFound, Zenon
<1>3. \A n \in Slots : f[n] = Respawned(f[n - 1], n, denied)
  <2>1. \A n \in Slots : f[n - 1] \in SoundServers
    BY Numbers DEF Slots
  <2>2. QED
    BY <1>2, <2>1 DEF Loops
<1> DEFINE Is(g) == g = [n \in 0 .. MaxClients |->
                          IF n = 0 THEN x ELSE Respawned(g[n - 1], n, denied)]
<1>4. Is(f)
  <2>1. ASSUME NEW n \in 0 .. MaxClients
        PROVE  f[n] = IF n = 0 THEN x ELSE Respawned(f[n - 1], n, denied)
    BY <1>2, <1>3, Numbers DEF Slots, Loops
  <2>2. QED
    BY <1>2, <2>1
<1> DEFINE g == CHOOSE h : Is(h)
<1>5. Is(g)
  BY <1>4
<1>6. RespawnedAll(x, denied) = g[MaxClients]
  BY DEF EachSlot, RespawnedAll
<1>7. g[0] = x /\ \A n \in Slots : g[n] = Respawned(g[n - 1], n, denied)
  <2> HIDE DEF g
  <2>1. QED
    BY <1>5, Numbers DEF Slots
<1>8. QED
  BY <1>6, <1>7

LEMMA RestartsRun ==
    ASSUME NEW x \in SoundServers, NEW denied
    PROVE  \E g : /\ g[0] = x
                  /\ \A n \in Slots : g[n] = Restarted(g[n - 1], n, denied)
                  /\ RestartedAll(x, denied) = g[MaxClients]
<1> DEFINE F == [q \in Slots \X SoundServers |-> Restarted(q[2], q[1], denied)]
<1>1. F \in [Slots \X SoundServers -> SoundServers]
  <2>1. ASSUME NEW q \in Slots \X SoundServers
        PROVE  Restarted(q[2], q[1], denied) \in SoundServers
    BY RestartedKeeps DEF SoundServers, Keeps, Sound
  <2>2. QED
    BY <2>1
<1>2. PICK f \in [0 .. MaxClients -> SoundServers] : Loops(f, F, x)
  <2> HIDE DEF F
  <2>1. QED
    BY <1>1, LoopFound, Zenon
<1>3. \A n \in Slots : f[n] = Restarted(f[n - 1], n, denied)
  <2>1. \A n \in Slots : f[n - 1] \in SoundServers
    BY Numbers DEF Slots
  <2>2. QED
    BY <1>2, <2>1 DEF Loops
<1> DEFINE Is(g) == g = [n \in 0 .. MaxClients |->
                          IF n = 0 THEN x ELSE Restarted(g[n - 1], n, denied)]
<1>4. Is(f)
  <2>1. ASSUME NEW n \in 0 .. MaxClients
        PROVE  f[n] = IF n = 0 THEN x ELSE Restarted(f[n - 1], n, denied)
    BY <1>2, <1>3, Numbers DEF Slots, Loops
  <2>2. QED
    BY <1>2, <2>1
<1> DEFINE g == CHOOSE h : Is(h)
<1>5. Is(g)
  BY <1>4
<1>6. RestartedAll(x, denied) = g[MaxClients]
  BY DEF EachSlot, RestartedAll
<1>7. g[0] = x /\ \A n \in Slots : g[n] = Restarted(g[n - 1], n, denied)
  <2> HIDE DEF g
  <2>1. QED
    BY <1>5, Numbers DEF Slots
<1>8. QED
  BY <1>6, <1>7

-----------------------------------------------------------------------------
\* The actions.

\* A step of ReconnectLimitKept.
LimitStep ==
    \A s \in Slots :
        /\ Live(slots[s]) /\ slots[s].linked
        /\ slots[s].sinceConnect < ReconnectLimit
        /\ ~\E t \in SameAddress(slots[s].who) : t < s
        => /\ slots'[s].who = slots[s].who
           /\ slots'[s].sinceConnect >= slots[s].sinceConnect
           /\ \/ ~Live(slots'[s])
              \/ slots'[s].linked /\ (s \in game => s \in game')

LEMMA NowFields ==
    ASSUME IInv
    PROVE  /\ Good(retail, Server) /\ Sound(Server) /\ Server \in SoundServers
           /\ Server.slots = slots /\ Server.game = game /\ Server.sessions = sessions
           /\ slots \in [Slots -> SlotRecords] /\ \A s \in Slots : slots[s] \in SlotRecords
           /\ game \subseteq Slots /\ sessions \subseteq Range(User) /\ retail \subseteq Clients
<1>1. Good(retail, Server) /\ Sound(Server) /\ Server \in SoundServers
  BY DEF IInv, Good, Sound, SoundServers
<1>2. Server.slots = slots /\ Server.game = game /\ Server.sessions = sessions
  BY DEF Server
<1>3. /\ slots \in [Slots -> SlotRecords] /\ \A s \in Slots : slots[s] \in SlotRecords
      /\ game \subseteq Slots /\ sessions \subseteq Range(User)
  BY <1>1, <1>2, ServerFields DEF Sound
<1>4. QED
  BY <1>1, <1>2, <1>3 DEF IInv, Others

LEMMA NextGood ==
    ASSUME NEW w, Good(retail, w), Becomes(w), retail' = retail, Others'
    PROVE  IInv'
<1>1. w = [slots |-> w.slots, game |-> w.game, sessions |-> w.sessions]
  BY DEF Good, Sound, Servers
<1>2. w = [slots |-> slots', game |-> game', sessions |-> sessions']
  BY <1>1 DEF Becomes
<1>3. Good(retail', [slots |-> slots', game |-> game', sessions |-> sessions'])
  BY <1>2
<1>4. QED
  BY <1>3 DEF IInv, Server

\* The connections of w are those that there were.
LEMMA LimitFollows ==
    ASSUME IInv, NEW w, Becomes(w), Later(Server, w)
    PROVE  LimitStep
<1>1. ASSUME NEW s \in Slots
      PROVE  /\ slots'[s].who = slots[s].who
             /\ slots'[s].sinceConnect = slots[s].sinceConnect
             /\ Live(slots'[s]) => /\ slots'[s].linked = slots[s].linked
                                   /\ s \in game => s \in game'
  BY NowFields DEF Later, Becomes
<1>2. ASSUME NEW s \in Slots PROVE slots[s].sinceConnect \in Int
  BY NowFields, SlotFields, Ages
<1>3. QED
  BY <1>1, <1>2 DEF LimitStep

LEMMA KeepsGood ==
    ASSUME NEW p \in SUBSET Clients, NEW sv, NEW w, Good(p, sv), Keeps(sv, w)
    PROVE  Good(p, w)
BY DEF Good, Keeps

LEMMA KeepsStep ==
    ASSUME IInv, NEW w, Keeps(Server, w), Becomes(w), retail' = retail, Others'
    PROVE  IInv' /\ LimitStep
<1>1. Good(retail, w)
  BY NowFields, KeepsGood
<1>2. Later(Server, w)
  BY DEF Keeps
<1>3. QED
  BY <1>1, <1>2, NextGood, LimitFollows

LEMMA SameServer ==
    ASSUME IInv, UNCHANGED <<retail, slots, game, sessions>>, Others'
    PROVE  IInv' /\ LimitStep
<1>1. Keeps(Server, Server) /\ Becomes(Server)
  BY NowFields, KeepsSelf DEF Becomes
<1>2. QED
  BY <1>1, KeepsStep

LEMMA SameOthers ==
    ASSUME IInv, UNCHANGED <<retail, tickets, clients, connects>>
    PROVE  Others' /\ retail' = retail
BY DEF IInv, Others

LEMMA ObtainChallengeStep ==
    ASSUME IInv, NEW c \in Clients, ObtainChallenge(c)
    PROVE  IInv' /\ LimitStep
<1>1. User[c] \in Range(User)
  BY SlotsAssumption DEF Range
<1>2. Others'
  <2>1. tickets' \in [Addresses -> Range(User) \cup {NoUser}]
    BY <1>1 DEF IInv, Others, ObtainChallenge
  <2>2. clients' \in [Clients -> {"off", "challenging", "connected"}]
    BY DEF IInv, Others, ObtainChallenge
  <2>3. connects' \subseteq Clients /\ retail' \subseteq Clients
    BY DEF IInv, Others, ObtainChallenge
  <2>4. QED
    BY <2>1, <2>2, <2>3 DEF Others
<1>3. QED
  BY <1>2, SameServer DEF ObtainChallenge

LEMMA LoseConnectStep ==
    ASSUME IInv, NEW c \in Clients, LoseConnect(c)
    PROVE  IInv' /\ LimitStep
<1>1. Others'
  BY DEF IInv, Others, LoseConnect
<1>2. QED
  BY <1>1, SameServer DEF LoseConnect

LEMMA TicketExpiresStep ==
    ASSUME IInv, NEW a \in Addresses, TicketExpires(a)
    PROVE  IInv' /\ LimitStep
<1>1. Others'
  BY DEF IInv, Others, TicketExpires
<1>2. QED
  BY <1>1, SameServer DEF TicketExpires

LEMMA QuitStep ==
    ASSUME IInv, NEW c \in Clients, Quit(c)
    PROVE  IInv' /\ LimitStep
<1>1. Others' /\ retail' = retail
  BY DEF IInv, Others, Quit
<1>2. CASE UNCHANGED <<slots, game, sessions>>
  BY <1>1, <1>2, SameServer
<1>3. CASE \E s \in SlotsOf(c) : slots[s].linked /\ Becomes(DropClient(Server, s, TRUE))
  <2>1. PICK s \in Slots : slots[s].state # "free" /\ Becomes(DropClient(Server, s, TRUE))
    BY <1>3 DEF SlotsOf
  <2>2. Keeps(Server, DropClient(Server, s, TRUE))
    BY <2>1, NowFields, DropKeeps
  <2>3. QED
    BY <1>1, <2>1, <2>2, KeepsStep
<1>4. QED
  BY <1>2, <1>3 DEF Quit

LEMMA PacketStep ==
    ASSUME IInv, NEW c \in Clients, Packet(c)
    PROVE  IInv' /\ LimitStep
<1> DEFINE s == Least(SlotsOf(c))
<1>1. Others' /\ retail' = retail
  BY DEF IInv, Others, Packet
<1>2. s \in SlotsOf(c)
  <2>1. SlotsOf(c) # {}
    BY DEF Packet
  <2>2. SlotsOf(c) \in SUBSET Nat
    BY Numbers DEF SlotsOf, Slots
  <2>3. QED
    BY <2>1, <2>2, LeastFound
<1>3. /\ slots[s].state # "zombie" /\ game' = game /\ sessions' = sessions
      /\ \/ \E room \in {slots[s].room, MaxRoom}, state \in {slots[s].state, "active"} :
                  slots' = [slots EXCEPT ![s].sincePacket = 0, ![s].just = FALSE,
                                         ![s].room = room, ![s].state = state]
         \/ slots' = [slots EXCEPT ![s].sincePacket = 0]
  BY DEF Packet
<1> HIDE DEF s
<1>4. s \in Slots /\ slots[s].state # "free" /\ slots[s] \in SlotRecords
  BY <1>2, NowFields DEF SlotsOf
<1>5. Live(slots[s])
  BY <1>3, <1>4, SlotFields DEF Live
<1> DEFINE Heard(r) == /\ slots' = [slots EXCEPT ![s] = r] /\ Live(r)
                       /\ SameOwner(slots[s], r)
                       /\ r.auth = slots[s].auth /\ r.odd = slots[s].odd
<1>6. PICK r \in SlotRecords : Heard(r)
  <2>0. 0 \in 0 .. OldPacket /\ MaxRoom \in 0 .. MaxRoom
    BY Ages, Numbers
  <2>1. CASE slots' = [slots EXCEPT ![s].sincePacket = 0]
    <3> DEFINE r == [slots[s] EXCEPT !.sincePacket = 0]
    <3>1. r \in SlotRecords /\ SameStanding(slots[s], r)
      BY <1>4, <2>0 DEF SlotRecords, SameStanding, SameOwner
    <3>2. slots' = [slots EXCEPT ![s] = r]
      BY <2>1
    <3> HIDE DEF r
    <3>3. QED
      BY <1>5, <3>1, <3>2 DEF SameStanding, Live
  <2>2. ASSUME NEW room \in {slots[s].room, MaxRoom}, NEW state \in {slots[s].state, "active"},
               slots' = [slots EXCEPT ![s].sincePacket = 0, ![s].just = FALSE,
                                      ![s].room = room, ![s].state = state]
        PROVE  \E r \in SlotRecords : Heard(r)
    <3> DEFINE r == [slots[s] EXCEPT !.sincePacket = 0, !.just = FALSE, !.room = room,
                                     !.state = state]
    <3>1. /\ room \in 0 .. MaxRoom
          /\ state \in {"free", "zombie", "connected", "active"}
      BY <1>4, <2>0, SlotFields
    <3>2. r \in SlotRecords
      BY <1>4, <2>0, <3>1 DEF SlotRecords
    <3>3. /\ SameOwner(slots[s], r) /\ r.state = state
          /\ r.auth = slots[s].auth /\ r.odd = slots[s].odd
      BY <1>4, <2>0, <3>1 DEF SlotRecords, SameOwner
    <3>4. slots' = [slots EXCEPT ![s] = r]
      BY <2>2, <1>4, NowFields
    <3> HIDE DEF r
    <3>5. Live(r)
      BY <1>5, <3>3 DEF Live
    <3>6. QED
      BY <3>2, <3>3, <3>4, <3>5
  <2>3. QED
    BY <1>3, <2>1, <2>2
<1> DEFINE w == Put(Server, s, r)
<1>7. Becomes(w)
  BY <1>3, <1>6 DEF Becomes, Put, Server
<1>8. Server \in Servers
  BY NowFields DEF Sound
<1>9. /\ w \in Servers /\ w.game = game /\ w.sessions = sessions /\ w.slots[s] = r
      /\ \A t \in Slots : t # s => w.slots[t] = slots[t]
  <2>1. /\ w \in Servers /\ w.game = Server.game /\ w.sessions = Server.sessions
        /\ w.slots[s] = r /\ \A t \in Slots : t # s => w.slots[t] = Server.slots[t]
    BY <1>4, <1>6, <1>8, PutFields
  <2>2. QED
    BY <2>1, NowFields
<1> HIDE DEF w
<1>10. \A t \in Slots : /\ SameOwner(slots[t], w.slots[t])
                        /\ Live(w.slots[t]) <=> Live(slots[t])
                        /\ w.slots[t].state = "free" <=> slots[t].state = "free"
                        /\ w.slots[t].auth = slots[t].auth /\ w.slots[t].odd = slots[t].odd
  BY <1>4, <1>5, <1>6, <1>9 DEF SameOwner, Live
<1>11. Keeps(Server, w)
  <2>1. Sound(Server) /\ Server.slots = slots /\ Server.game = game /\ Server.sessions = sessions
    BY NowFields
  <2>2. Addressed(w) /\ Own(w) /\ Quiet(w)
    BY <1>10, <2>1 DEF Sound, Addressed, Own, Quiet, SameOwner
  <2>3. NoGhosts(w)
    BY <1>9, <1>10, <2>1 DEF Sound, NoGhosts
  <2>4. Held(w)
    BY <1>9, <1>10, <2>1 DEF Sound, Held, SameOwner
  <2>5. Later(Server, w)
    BY <1>9, <1>10, <2>1 DEF Later, SameOwner
  <2>6. \A t \in Slots : InGame(Server, t) => InGame(w, t)
    BY <1>9, <1>10, <2>1 DEF InGame
  <2>7. \A p \in SUBSET Clients, t \in Slots : /\ Begun(p, Server, t) => Begun(p, w, t)
                                               /\ Admitted(p, Server, t) => Admitted(p, w, t)
    BY <1>10, <2>1 DEF Begun, Admitted, Validated, SameOwner
  <2>8. QED
    BY <1>9, <2>2, <2>3, <2>4, <2>5, <2>6, <2>7 DEF Keeps, Sound
<1>12. QED
  BY <1>1, <1>7, <1>11, KeepsStep

LEMMA SendServerCommandStep ==
    ASSUME IInv, SendServerCommand
    PROVE  IInv' /\ LimitStep
<1>1. PICK s \in Slots : Becomes(AddServerCommand(Server, s))
  BY DEF SendServerCommand
<1>2. Keeps(Server, AddServerCommand(Server, s))
  BY NowFields, AddKeeps
<1>3. Others' /\ retail' = retail
  BY SameOthers DEF SendServerCommand
<1>4. QED
  BY <1>1, <1>2, <1>3, KeepsStep

LEMMA AuthResultStep ==
    ASSUME IInv, NEW user, AuthResult(user)
    PROVE  IInv' /\ LimitStep
<1>1. PICK ok \in BOOLEAN :
        Becomes(AnsweredAll(Server, user, ok))
  BY DEF AuthResult
<1>2. PICK g : /\ g[0] = Server
               /\ \A n \in Slots : g[n] = Answered(g[n - 1], n, user, ok)
               /\ AnsweredAll(Server, user, ok) = g[MaxClients]
  BY NowFields, AnswersRun
<1> DEFINE G == {n \in 0 .. MaxClients : Keeps(Server, g[n])}
<1>3. 0 \in G
  BY <1>2, NowFields, KeepsSelf, Numbers
<1>4. ASSUME NEW n \in Slots, n - 1 \in G PROVE n \in G
  <2>1. Sound(g[n - 1])
    BY <1>4 DEF Keeps
  <2>2. Keeps(g[n - 1], g[n])
    BY <1>2, <2>1, AnsweredKeeps
  <2>3. Keeps(Server, g[n])
    BY <1>4, <2>2, KeepsOn
  <2>4. QED
    BY <2>3, Numbers DEF Slots
<1>5. MaxClients \in G
  <2> HIDE DEF G
  <2>1. \A n \in 0 .. MaxClients : n \in G
    BY <1>3, <1>4, EverySlotReached
  <2>2. QED
    BY <2>1, Numbers
<1>6. Becomes(g[MaxClients])
  BY <1>1, <1>2
<1>7. Others' /\ retail' = retail
  BY SameOthers DEF AuthResult
<1>8. QED
  BY <1>5, <1>6, <1>7, KeepsStep

LEMMA AgedFields ==
    ASSUME NEW r \in SlotRecords
    PROVE  /\ Aged(r) \in SlotRecords /\ Aged(r).who = r.who /\ Aged(r).linked = r.linked
           /\ Aged(r).user = r.user /\ Aged(r).state = r.state /\ Aged(r).auth = r.auth
           /\ Aged(r).odd = r.odd /\ Aged(r).sinceConnect >= r.sinceConnect
<1> DEFINE connect == IF r.sinceConnect < OldConnect THEN r.sinceConnect + 1 ELSE r.sinceConnect
           packet == IF r.state = "free" THEN 0
                     ELSE IF r.sincePacket < OldPacket THEN r.sincePacket + 1 ELSE r.sincePacket
           a == [r EXCEPT !.sinceConnect = connect, !.sincePacket = packet]
<1>1. r.sinceConnect \in 0 .. OldConnect /\ r.sincePacket \in 0 .. OldPacket
  BY SlotFields
<1>2. connect \in 0 .. OldConnect /\ packet \in 0 .. OldPacket /\ connect >= r.sinceConnect
  BY <1>1, Ages
<1>3. Aged(r) = a
  BY DEF Aged
<1> HIDE DEF connect, packet
<1>4. a \in SlotRecords
  BY <1>2 DEF SlotRecords
<1>5. /\ a.who = r.who /\ a.linked = r.linked /\ a.user = r.user /\ a.state = r.state
      /\ a.auth = r.auth /\ a.odd = r.odd /\ a.sinceConnect = connect
  BY DEF SlotRecords
<1> HIDE DEF a
<1>6. QED
  BY <1>2, <1>3, <1>4, <1>5

LEMMA TickStep ==
    ASSUME IInv, Tick
    PROVE  IInv' /\ LimitStep
<1> DEFINE aged == [s \in Slots |-> Aged(slots[s])]
           x == [Server EXCEPT !.slots = aged]
<1>1. Becomes(CheckedAll(x))
  BY DEF Tick
<1>2. ASSUME NEW s \in Slots
      PROVE  /\ aged[s] \in SlotRecords /\ aged[s].who = slots[s].who
             /\ aged[s].linked = slots[s].linked /\ aged[s].user = slots[s].user
             /\ aged[s].state = slots[s].state /\ aged[s].auth = slots[s].auth
             /\ aged[s].odd = slots[s].odd /\ aged[s].sinceConnect >= slots[s].sinceConnect
  BY NowFields, AgedFields
<1>3. aged \in [Slots -> SlotRecords]
  BY <1>2
<1> HIDE DEF aged
<1>4. x \in Servers /\ x.slots = aged /\ x.game = game /\ x.sessions = sessions
  BY <1>3, NowFields DEF Servers, Server
<1> HIDE DEF x
<1>5. /\ Good(retail, Server) /\ Sound(Server)
      /\ Server.slots = slots /\ Server.game = game /\ Server.sessions = sessions
      /\ retail \subseteq Clients
  BY NowFields
<1>6. ASSUME NEW s \in Slots PROVE Live(x.slots[s]) <=> Live(slots[s])
  BY <1>2, <1>4 DEF Live
<1>7. Sound(x)
  <2>1. Addressed(x) /\ Own(x)
    BY <1>2, <1>4, <1>5 DEF Sound, Addressed, Own
  <2>2. Quiet(x) /\ NoGhosts(x)
    BY <1>2, <1>4, <1>5, <1>6 DEF Sound, Quiet, NoGhosts
  <2>3. Held(x)
    BY <1>2, <1>4, <1>5 DEF Sound, Held
  <2>4. QED
    BY <1>4, <2>1, <2>2, <2>3 DEF Sound
<1>8. \A s \in Slots : InGame(x, s) /\ Begun(retail, x, s)
  <2>1. ASSUME NEW s \in Slots PROVE InGame(x, s)
    BY <1>2, <1>4, <1>5, <1>6 DEF Good, InGame
  <2>2. ASSUME NEW s \in Slots PROVE Begun(retail, x, s)
    BY <1>2, <1>4, <1>5, <1>6 DEF Good, Begun, Admitted, Validated
  <2>3. QED
    BY <2>1, <2>2
<1>9. PICK g : /\ g[0] = x /\ \A n \in Slots : g[n] = CheckTimeout(g[n - 1], n)
               /\ CheckedAll(x) = g[MaxClients]
  BY <1>4, <1>7, TimeoutsRun DEF SoundServers
<1> DEFINE G == {n \in 0 .. MaxClients :
                    /\ Keeps(x, g[n])
                    /\ \A t \in 1 .. n : Admitted(retail, g[n], t)}
<1>10. 0 \in G
  BY <1>7, <1>9, KeepsSelf, Numbers
<1>11. ASSUME NEW n \in Slots, n - 1 \in G PROVE n \in G
  <2>1. Sound(g[n - 1]) /\ Keeps(x, g[n - 1])
    BY <1>11 DEF Keeps
  <2>2. /\ Keeps(g[n - 1], g[n])
        /\ Begun(retail, g[n - 1], n) => Admitted(retail, g[n], n)
    BY <1>5, <1>9, <2>1, CheckTimeoutKeeps
  <2>3. Keeps(x, g[n])
    BY <2>1, <2>2, KeepsOn
  <2>4. Admitted(retail, g[n], n)
    BY <1>5, <1>8, <2>1, <2>2 DEF Keeps
  <2>5. ASSUME NEW t \in 1 .. n, t # n PROVE Admitted(retail, g[n], t)
    <3>1. t \in 1 .. n - 1 /\ t \in Slots
      BY <2>5, Numbers DEF Slots
    <3>2. Admitted(retail, g[n - 1], t)
      BY <1>11, <3>1
    <3>3. QED
      BY <1>5, <2>2, <3>1, <3>2 DEF Keeps
  <2>6. QED
    BY <2>3, <2>4, <2>5, Numbers DEF Slots
<1>12. MaxClients \in G
  <2> HIDE DEF G
  <2>1. \A n \in 0 .. MaxClients : n \in G
    BY <1>10, <1>11, EverySlotReached
  <2>2. QED
    BY <2>1, Numbers
<1> DEFINE w == g[MaxClients]
<1>13. Keeps(x, w) /\ (\A t \in Slots : Admitted(retail, w, t)) /\ Becomes(w)
  BY <1>1, <1>9, <1>12 DEF Slots
<1> HIDE DEF w
<1>14. Good(retail, w)
  BY <1>8, <1>13 DEF Good, Keeps
<1>15. LimitStep
  <2>1. ASSUME NEW s \in Slots
        PROVE  /\ slots'[s].who = slots[s].who
               /\ slots'[s].sinceConnect >= slots[s].sinceConnect
               /\ Live(slots'[s]) => /\ slots'[s].linked = slots[s].linked
                                     /\ s \in game => s \in game'
    BY <1>2, <1>4, <1>13 DEF Keeps, Later, Becomes
  <2>2. QED
    BY <2>1 DEF LimitStep
<1>16. Others' /\ retail' = retail
  BY SameOthers DEF Tick
<1>17. QED
  BY <1>13, <1>14, <1>15, <1>16, NextGood

LEMMA NewGame ==
    ASSUME IInv
    PROVE  /\ [Server EXCEPT !.game = {}] \in SoundServers
           /\ \A w : /\ Keeps([Server EXCEPT !.game = {}], w)
                     /\ \A t \in Slots : Live(w.slots[t]) => t \in w.game
                     /\ Becomes(w)
                     => Good(retail, w) /\ LimitStep
<1> DEFINE x == [Server EXCEPT !.game = {}]
<1>1. /\ Good(retail, Server) /\ Sound(Server)
      /\ Server.slots = slots /\ Server.game = game /\ Server.sessions = sessions
      /\ retail \subseteq Clients
  BY NowFields
<1>2. x \in Servers /\ x.slots = slots /\ x.game = {} /\ x.sessions = sessions
  BY NowFields DEF Servers, Server
<1> SUFFICES /\ x \in SoundServers
             /\ \A w : /\ Keeps(x, w)
                       /\ \A t \in Slots : Live(w.slots[t]) => t \in w.game
                       /\ Becomes(w)
                       => Good(retail, w) /\ LimitStep
  OBVIOUS
<1> HIDE DEF x
<1>3. Sound(x)
  <2>1. Addressed(x) /\ Own(x) /\ Quiet(x) /\ Held(x)
    BY <1>1, <1>2 DEF Sound, Addressed, Own, Quiet, Held
  <2>2. NoGhosts(x)
    BY <1>2 DEF NoGhosts
  <2>3. QED
    BY <1>2, <2>1, <2>2 DEF Sound
<1>4. \A s \in Slots : Admitted(retail, x, s)
  BY <1>1, <1>2 DEF Good, Admitted
<1>5. ASSUME NEW w, Keeps(x, w), \A t \in Slots : Live(w.slots[t]) => t \in w.game,
             Becomes(w)
      PROVE  Good(retail, w) /\ LimitStep
  <2>1. Good(retail, w)
    BY <1>1, <1>4, <1>5 DEF Good, Keeps, InGame
  <2>2. ASSUME NEW s \in Slots
        PROVE  /\ slots'[s].who = slots[s].who
               /\ slots'[s].sinceConnect = slots[s].sinceConnect
               /\ Live(slots'[s]) => slots'[s].linked = slots[s].linked /\ s \in game'
    BY <1>2, <1>5 DEF Keeps, Later, Becomes
  <2>3. ASSUME NEW s \in Slots PROVE slots[s].sinceConnect \in Int
    BY NowFields, SlotFields, Ages
  <2>4. LimitStep
    BY <2>2, <2>3 DEF LimitStep
  <2>5. QED
    BY <2>1, <2>4
<1>6. QED
  BY <1>2, <1>3, <1>5 DEF SoundServers

LEMMA SpawnServerStep ==
    ASSUME IInv, SpawnServer
    PROVE  IInv' /\ LimitStep
<1> DEFINE x == [Server EXCEPT !.game = {}]
<1>1. PICK denied \in SUBSET Connected : Becomes(RespawnedAll(x, denied))
  BY DEF SpawnServer
<1>2. x \in SoundServers
  BY NewGame
<1>3. \A w : /\ Keeps(x, w) /\ \A t \in Slots : Live(w.slots[t]) => t \in w.game
            /\ Becomes(w)
            => Good(retail, w) /\ LimitStep
  BY NewGame
<1> HIDE DEF x
<1>4. PICK g : /\ g[0] = x /\ \A n \in Slots : g[n] = Respawned(g[n - 1], n, denied)
               /\ RespawnedAll(x, denied) = g[MaxClients]
  BY <1>2, RespawnsRun
<1> DEFINE G == {n \in 0 .. MaxClients :
                    /\ Keeps(x, g[n])
                    /\ \A t \in 1 .. n : Live(g[n].slots[t]) => t \in g[n].game}
<1>5. 0 \in G
  BY <1>2, <1>4, KeepsSelf, Numbers DEF SoundServers
<1>6. ASSUME NEW n \in Slots, n - 1 \in G PROVE n \in G
  <2>1. Sound(g[n - 1]) /\ Keeps(x, g[n - 1])
    BY <1>6 DEF Keeps
  <2>2. Keeps(g[n - 1], g[n]) /\ (Live(g[n].slots[n]) => n \in g[n].game)
    BY <1>4, <2>1, RespawnedKeeps
  <2>3. Keeps(x, g[n])
    BY <2>1, <2>2, KeepsOn
  <2>4. ASSUME NEW t \in 1 .. n, t # n, Live(g[n].slots[t]) PROVE t \in g[n].game
    <3>1. t \in 1 .. n - 1 /\ t \in Slots
      BY <2>4, Numbers DEF Slots
    <3>2. Live(g[n - 1].slots[t]) => t \in g[n - 1].game
      BY <1>6, <3>1
    <3>3. QED
      BY <2>2, <2>4, <3>1, <3>2 DEF Keeps, Later
  <2>5. QED
    BY <2>2, <2>3, <2>4, Numbers DEF Slots
<1>7. MaxClients \in G
  <2> HIDE DEF G
  <2>1. \A n \in 0 .. MaxClients : n \in G
    BY <1>5, <1>6, EverySlotReached
  <2>2. QED
    BY <2>1, Numbers
<1> DEFINE w == g[MaxClients]
<1>8. /\ Keeps(x, w) /\ \A t \in Slots : Live(w.slots[t]) => t \in w.game
      /\ Becomes(w)
  BY <1>1, <1>4, <1>7 DEF Slots
<1> HIDE DEF w
<1>9. Good(retail, w) /\ LimitStep
  BY <1>3, <1>8
<1>10. Others' /\ retail' = retail
  BY SameOthers DEF SpawnServer
<1>11. QED
  BY <1>8, <1>9, <1>10, NextGood

LEMMA MapRestartStep ==
    ASSUME IInv, MapRestart
    PROVE  IInv' /\ LimitStep
<1> DEFINE x == [Server EXCEPT !.game = {}]
<1>1. PICK denied \in SUBSET Connected : Becomes(RestartedAll(x, denied))
  BY DEF MapRestart
<1>2. x \in SoundServers
  BY NewGame
<1>3. \A w : /\ Keeps(x, w) /\ \A t \in Slots : Live(w.slots[t]) => t \in w.game
            /\ Becomes(w)
            => Good(retail, w) /\ LimitStep
  BY NewGame
<1> HIDE DEF x
<1>4. PICK g : /\ g[0] = x /\ \A n \in Slots : g[n] = Restarted(g[n - 1], n, denied)
               /\ RestartedAll(x, denied) = g[MaxClients]
  BY <1>2, RestartsRun
<1> DEFINE G == {n \in 0 .. MaxClients :
                    /\ Keeps(x, g[n])
                    /\ \A t \in 1 .. n : Live(g[n].slots[t]) => t \in g[n].game}
<1>5. 0 \in G
  BY <1>2, <1>4, KeepsSelf, Numbers DEF SoundServers
<1>6. ASSUME NEW n \in Slots, n - 1 \in G PROVE n \in G
  <2>1. Sound(g[n - 1]) /\ Keeps(x, g[n - 1])
    BY <1>6 DEF Keeps
  <2>2. Keeps(g[n - 1], g[n]) /\ (Live(g[n].slots[n]) => n \in g[n].game)
    BY <1>4, <2>1, RestartedKeeps
  <2>3. Keeps(x, g[n])
    BY <2>1, <2>2, KeepsOn
  <2>4. ASSUME NEW t \in 1 .. n, t # n, Live(g[n].slots[t]) PROVE t \in g[n].game
    <3>1. t \in 1 .. n - 1 /\ t \in Slots
      BY <2>4, Numbers DEF Slots
    <3>2. Live(g[n - 1].slots[t]) => t \in g[n - 1].game
      BY <1>6, <3>1
    <3>3. QED
      BY <2>2, <2>4, <3>1, <3>2 DEF Keeps, Later
  <2>5. QED
    BY <2>2, <2>3, <2>4, Numbers DEF Slots
<1>7. MaxClients \in G
  <2> HIDE DEF G
  <2>1. \A n \in 0 .. MaxClients : n \in G
    BY <1>5, <1>6, EverySlotReached
  <2>2. QED
    BY <2>1, Numbers
<1> DEFINE w == g[MaxClients]
<1>8. /\ Keeps(x, w) /\ \A t \in Slots : Live(w.slots[t]) => t \in w.game
      /\ Becomes(w)
  BY <1>1, <1>4, <1>7 DEF Slots
<1> HIDE DEF w
<1>9. Good(retail, w) /\ LimitStep
  BY <1>3, <1>8
<1>10. Others' /\ retail' = retail
  BY SameOthers DEF MapRestart
<1>11. QED
  BY <1>8, <1>9, <1>10, NextGood

-----------------------------------------------------------------------------
\* SV_DirectConnect replaces one slot.

\* The sessions that are left when slot s gives up its own.
Rest(sv, s) ==
    IF sv.slots[s].auth = "none" THEN sv.sessions ELSE sv.sessions \ {sv.slots[s].user}

LEMMA ReplacedGood ==
    ASSUME NEW p \in SUBSET Clients, NEW sv, Good(p, sv), NEW s \in Slots, NEW w \in Servers,
           NEW r \in SlotRecords, w.slots[s] = r,
           \A t \in Slots : t # s => /\ w.slots[t] = sv.slots[t]
                                     /\ t \in w.game <=> t \in sv.game,
           w.sessions = Rest(sv, s) \cup (IF r.auth = "none" THEN {} ELSE {r.user}),
           r.auth # "none" => Live(r) /\ r.user \notin Rest(sv, s),
           r.state # "free" =>
               /\ r.who # NoClient
               /\ \A t \in Slots : t # s /\ sv.slots[t].state # "free" => sv.slots[t].who # r.who,
           s \in w.game /\ r.odd # "restarted" => Live(r),
           InGame(w, s), Admitted(p, w, s)
    PROVE  Good(p, w)
<1>1. Sound(sv) /\ \A t \in Slots : InGame(sv, t) /\ Admitted(p, sv, t)
  BY DEF Good
<1>2. Addressed(w) /\ Own(w)
  BY <1>1 DEF Sound, Addressed, Own
<1>3. Quiet(w) /\ NoGhosts(w)
  BY <1>1 DEF Sound, Quiet, NoGhosts
<1>4. Held(w)
  <2>1. /\ \A t \in Slots : sv.slots[t].auth # "none" => sv.slots[t].user \in sv.sessions
        /\ \A t, v \in Slots :
            sv.slots[t].auth # "none" /\ sv.slots[v].auth # "none"
                /\ sv.slots[t].user = sv.slots[v].user => t = v
        /\ \A u \in sv.sessions :
            \E t \in Slots : sv.slots[t].auth # "none" /\ sv.slots[t].user = u
    BY <1>1 DEF Sound, Held
  <2>2. ASSUME NEW t \in Slots, t # s, sv.slots[t].auth # "none"
        PROVE  sv.slots[t].user \in Rest(sv, s)
    BY <2>1, <2>2 DEF Rest
  <2>3. ASSUME NEW t \in Slots, w.slots[t].auth # "none"
        PROVE  w.slots[t].user \in w.sessions
    BY <2>2, <2>3
  <2>4. ASSUME NEW t \in Slots, NEW v \in Slots, w.slots[t].auth # "none",
               w.slots[v].auth # "none", w.slots[t].user = w.slots[v].user
        PROVE  t = v
    BY <2>1, <2>2, <2>4
  <2>5. ASSUME NEW u \in w.sessions
        PROVE  \E t \in Slots : w.slots[t].auth # "none" /\ w.slots[t].user = u
    <3>1. CASE u \in Rest(sv, s)
      <4>1. PICK t \in Slots : sv.slots[t].auth # "none" /\ sv.slots[t].user = u
        BY <2>1, <3>1 DEF Rest
      <4>2. t # s
        BY <3>1, <4>1 DEF Rest
      <4>3. QED
        BY <4>1, <4>2
    <3>2. CASE u \notin Rest(sv, s)
      BY <2>5, <3>2
    <3>3. QED
      BY <3>1, <3>2
  <2>6. QED
    BY <2>3, <2>4, <2>5 DEF Held
<1>5. ASSUME NEW t \in Slots PROVE InGame(w, t) /\ Admitted(p, w, t)
  <2>1. CASE t = s
    BY <2>1
  <2>2. CASE t # s
    BY <1>1, <2>2 DEF InGame, Admitted
  <2>3. QED
    BY <2>1, <2>2
<1>6. QED
  BY <1>2, <1>3, <1>4, <1>5 DEF Good, Sound

\* What is left of a slot that its client had.
LEMMA ReleasedFields ==
    ASSUME NEW sv, Sound(sv), NEW s \in Slots
    PROVE  LET w == Released(sv, s) IN
           /\ w = [Put(sv, s, [sv.slots[s] EXCEPT !.auth = "none"]) EXCEPT
                      !.game = IF Live(sv.slots[s]) THEN @ \ {s} ELSE @,
                      !.sessions = Rest(sv, s)]
           /\ w \in Servers
<1> DEFINE q == [sv.slots[s] EXCEPT !.auth = "none"]
           P == Put(sv, s, q)
           x == [P EXCEPT !.game = IF Live(sv.slots[s]) THEN @ \ {s} ELSE @,
                          !.sessions = Rest(sv, s)]
<1>1. sv \in Servers /\ sv.slots[s] \in SlotRecords
  BY ServerFields DEF Sound
<1>2. q \in SlotRecords
  BY <1>1 DEF SlotRecords
<1>3. P \in Servers
  BY <1>1, <1>2, PutFields
<1>4. Rest(sv, s) \subseteq Range(User)
  BY <1>1, ServerFields DEF Rest
<1>5. x \in Servers
  BY <1>3, <1>4 DEF Servers
<1>6. Released(sv, s) = x
  <2>1. CASE Live(sv.slots[s])
    BY <1>1, <2>1 DEF Released, FreeClient, GameDisconnect, Put, Rest, Servers
  <2>2. CASE ~Live(sv.slots[s])
    <3>1. sv.slots[s].auth = "none"
      BY <2>2 DEF Sound, Quiet
    <3>2. q = sv.slots[s]
      BY <1>1, <3>1 DEF SlotRecords
    <3>3. x = sv
      BY <1>1, <2>2, <3>1, <3>2 DEF Put, Rest, Servers
    <3>4. QED
      BY <2>2, <3>3 DEF Released
  <2>3. QED
    BY <2>1, <2>2
<1>7. QED
  BY <1>5, <1>6

LeftBy(sv, s, v) ==
    /\ v \in Servers /\ v.slots[s] = [sv.slots[s] EXCEPT !.auth = "none"]
    /\ \A t \in Slots : t # s => v.slots[t] = sv.slots[t]
    /\ v.game = (IF Live(sv.slots[s]) THEN sv.game \ {s} ELSE sv.game)
    /\ v.sessions = Rest(sv, s)

LEMMA ReleasedParts ==
    ASSUME NEW sv, Sound(sv), NEW s \in Slots
    PROVE  LeftBy(sv, s, Released(sv, s))
<1> DEFINE v == Released(sv, s)
           q == [sv.slots[s] EXCEPT !.auth = "none"]
           P == Put(sv, s, q)
<1>1. sv \in Servers /\ sv.slots[s] \in SlotRecords
  BY ServerFields DEF Sound
<1>2. q \in SlotRecords
  BY <1>1 DEF SlotRecords
<1>3. /\ P \in Servers /\ P.game = sv.game /\ P.slots[s] = q
      /\ \A t \in Slots : t # s => P.slots[t] = sv.slots[t]
  BY <1>1, <1>2, PutFields, ZenonT(30)
<1>4. /\ v = [P EXCEPT !.game = IF Live(sv.slots[s]) THEN @ \ {s} ELSE @,
                       !.sessions = Rest(sv, s)]
      /\ v \in Servers
  BY ReleasedFields
<1> HIDE DEF P, v
<1>5. /\ v.slots = P.slots
      /\ v.game = (IF Live(sv.slots[s]) THEN P.game \ {s} ELSE P.game)
      /\ v.sessions = Rest(sv, s)
  BY <1>3, <1>4 DEF Servers
<1>6. LeftBy(sv, s, v)
  BY <1>3, <1>4, <1>5 DEF LeftBy
<1>7. QED
  BY <1>6 DEF v

LEMMA AuthFields ==
    ASSUME NEW v, NEW c, NEW user, NEW auth \in AuthResults(v, c, user), auth # "rejected"
    PROVE  /\ auth \in {"none", "pending", "valid"} /\ (auth = "none" <=> c \notin retail)
           /\ auth # "none" => user # NoUser /\ user \notin v.sessions
BY DEF AuthResults, BeginAuthSession

\* The slot is the client's own or free, and no other is the client's.
LEMMA CandidateFields ==
    ASSUME IInv, NEW c \in Clients, NEW s \in Candidates(c)
    PROVE  /\ s \in Slots
           /\ slots[s].state # "free" => slots[s].who = c
           /\ \A t \in Slots : t # s /\ slots[t].state # "free" => slots[t].who # c
<1>1. SlotsOf(c) \in SUBSET Nat /\ SameAddress(c) \in SUBSET Nat
  BY Numbers DEF SlotsOf, SameAddress, Slots
<1>2. CASE SlotsOf(c) # {}
  <2>1. s \in SlotsOf(c)
    BY <1>1, <1>2, LeastFound DEF Candidates
  <2>2. Own(Server) /\ Server.slots = slots
    BY NowFields DEF Sound
  <2>3. QED
    BY <2>1, <2>2 DEF SlotsOf, Own
<1>3. CASE SlotsOf(c) = {}
  <2>1. s \in FreeSlots
    BY <1>3 DEF Candidates
  <2>2. QED
    BY <1>3, <2>1 DEF FreeSlots, SlotsOf
<1>4. QED
  BY <1>2, <1>3

\* The slot of a connection that may not begin anew is no candidate.
LEMMA CandidateLimit ==
    ASSUME IInv, NEW c \in Clients, ~TooSoon(c), NEW s \in Candidates(c),
           \A t \in Slots : t # s => slots'[t] = slots[t] /\ (t \in game => t \in game')
    PROVE  LimitStep
<1>1. s \in Slots /\ (slots[s].state # "free" => slots[s].who = c)
  BY CandidateFields
<1>2. ASSUME Live(slots[s]), slots[s].sinceConnect < ReconnectLimit,
             ~\E t \in SameAddress(slots[s].who) : t < s
      PROVE  FALSE
  <2>1. slots[s].who = c /\ c # NoClient
    BY <1>1, <1>2, SlotsAssumption DEF Live
  <2>2. s \in SameAddress(c)
    BY <1>1, <2>1 DEF SameAddress
  <2>3. SameAddress(c) \in SUBSET Nat
    BY Numbers DEF SameAddress, Slots
  <2>4. Least(SameAddress(c)) \in SameAddress(c) /\ Least(SameAddress(c)) <= s
    BY <2>2, <2>3, LeastFound
  <2>5. Least(SameAddress(c)) = s
    BY <1>2, <2>1, <2>2, <2>3, <2>4
  <2>6. QED
    BY <1>2, <2>2, <2>5 DEF TooSoon
<1>3. ASSUME NEW t \in Slots PROVE slots[t].sinceConnect \in Int
  BY NowFields, SlotFields, Ages
<1>4. QED
  BY <1>2, <1>3 DEF LimitStep

OthersKept(sv, w, s) ==
    \A t \in Slots : t # s => w.slots[t] = sv.slots[t] /\ (t \in w.game <=> t \in sv.game)

Refusal(v, s) == [v EXCEPT !.slots[s].odd = IF Live(v.slots[s]) THEN "refused" ELSE @]

LEMMA RefusedGood ==
    ASSUME NEW p \in SUBSET Clients, NEW sv, Good(p, sv), NEW s \in Slots,
           NEW v, v = Released(sv, s), NEW w, w = Refusal(v, s)
    PROVE  Good(p, w) /\ OthersKept(sv, w, s)
<1> DEFINE q == [sv.slots[s] EXCEPT !.auth = "none"]
           r == [q EXCEPT !.odd = IF Live(q) THEN "refused" ELSE @]
<1>1. Sound(sv) /\ sv \in Servers /\ sv.slots[s] \in SlotRecords
  BY ServerFields DEF Good, Sound
<1>2. /\ v \in Servers /\ v.slots[s] = q
      /\ \A t \in Slots : t # s => v.slots[t] = sv.slots[t]
      /\ v.game = (IF Live(sv.slots[s]) THEN sv.game \ {s} ELSE sv.game)
      /\ v.sessions = Rest(sv, s)
  <2>1. LeftBy(sv, s, v)
    BY <1>1, ReleasedParts, Zenon
  <2>2. QED
    BY <2>1, Zenon DEF LeftBy
<1>3. w = Put(v, s, r)
  BY <1>2 DEF Put, Servers, Refusal
<1>4. q \in SlotRecords /\ q.auth = "none" /\ q.state = sv.slots[s].state
      /\ q.who = sv.slots[s].who /\ q.odd = sv.slots[s].odd
  BY <1>1 DEF SlotRecords
<1> HIDE DEF q
<1>5. r \in SlotRecords /\ r.auth = "none" /\ r.state = sv.slots[s].state
      /\ r.who = sv.slots[s].who
      /\ r.odd = (IF Live(q) THEN "refused" ELSE sv.slots[s].odd)
  BY <1>4 DEF SlotRecords
<1>6. Live(q) <=> Live(sv.slots[s])
  BY <1>4 DEF Live
<1> HIDE DEF r
<1>7. /\ w \in Servers /\ w.game = v.game /\ w.sessions = Rest(sv, s) /\ w.slots[s] = r
      /\ \A t \in Slots : t # s => w.slots[t] = sv.slots[t]
  BY <1>2, <1>3, <1>5, PutFields
<1>8. Live(r) <=> Live(sv.slots[s])
  BY <1>5 DEF Live
<1>9. OthersKept(sv, w, s)
  BY <1>2, <1>7 DEF OthersKept
<1>10. r.state # "free" =>
          /\ r.who # NoClient
          /\ \A t \in Slots : t # s /\ sv.slots[t].state # "free" => sv.slots[t].who # r.who
  BY <1>1, <1>5 DEF Sound, Addressed, Own
<1>11. s \in w.game /\ r.odd # "restarted" => Live(r)
  BY <1>1, <1>2, <1>5, <1>6, <1>7, <1>8 DEF Sound, NoGhosts
<1>12. InGame(w, s) /\ Admitted(p, w, s)
  BY <1>5, <1>6, <1>7, <1>8 DEF InGame, Admitted
<1>13. w.sessions = Rest(sv, s) \cup (IF r.auth = "none" THEN {} ELSE {r.user})
  BY <1>5, <1>7
<1>14. Good(p, w)
  BY <1>5, <1>7, <1>9, <1>10, <1>11, <1>12, <1>13, ReplacedGood DEF OthersKept
<1>15. QED
  BY <1>9, <1>14

\* The slot that SV_DirectConnect writes, and its authentication.
Entered(sv, s, c, user, auth, r, x) ==
    /\ r \in SlotRecords /\ r.state = "connected" /\ r.who = c /\ r.auth = auth
    /\ r.odd = "no" /\ r.sinceConnect = 0 /\ (auth # "none" => r.user = user)
    /\ x \in Servers /\ x.slots[s] = r
    /\ \A t \in Slots : t # s => x.slots[t] = sv.slots[t]
    /\ x.game = (IF Live(sv.slots[s]) THEN sv.game \ {s} ELSE sv.game)
    /\ x.sessions = Rest(sv, s) \cup (IF auth = "none" THEN {} ELSE {user})

LEMMA AcceptedParts ==
    ASSUME NEW sv, Sound(sv), NEW s \in Slots, NEW v, v = Released(sv, s),
           NEW c \in Clients, NEW user \in Range(User) \cup {NoUser},
           NEW auth \in {"none", "pending", "valid"}, NEW linked \in BOOLEAN,
           auth # "none" => user # NoUser,
           NEW x, x = Accept(v, c, s, user, auth, linked),
           NEW r, r = NewSlot(c, user, auth, linked)
    PROVE  Entered(sv, s, c, user, auth, r, x)
<1>1. 0 \in 0 .. OldConnect /\ EmptySlot \in SlotRecords
  BY Ages, EmptySlotFields
<1> DEFINE e == [EmptySlot EXCEPT !.state = "connected", !.who = c, !.just = TRUE,
                                  !.linked = linked, !.sinceConnect = 0, !.auth = auth,
                                  !.user = IF auth = "none" THEN NoUser ELSE user]
<1>2. e \in SlotRecords
  BY <1>1 DEF SlotRecords
<1>3. /\ e.state = "connected" /\ e.who = c /\ e.auth = auth /\ e.odd = EmptySlot.odd
      /\ e.sinceConnect = 0 /\ (auth # "none" => e.user = user)
  BY <1>1 DEF SlotRecords
<1>4. EmptySlot.odd = "no"
  BY DEF EmptySlot
<1>5. r = e
  BY DEF NewSlot
<1> HIDE DEF e
<1>6. /\ r \in SlotRecords /\ r.state = "connected" /\ r.who = c /\ r.auth = auth
      /\ r.odd = "no" /\ r.sinceConnect = 0 /\ (auth # "none" => r.user = user)
  BY <1>2, <1>3, <1>4, <1>5
<1>7. /\ v \in Servers /\ \A t \in Slots : t # s => v.slots[t] = sv.slots[t]
      /\ v.game = (IF Live(sv.slots[s]) THEN sv.game \ {s} ELSE sv.game)
      /\ v.sessions = Rest(sv, s)
  <2>1. LeftBy(sv, s, v)
    BY ReleasedParts, Zenon
  <2>2. QED
    BY <2>1, Zenon DEF LeftBy
<1> DEFINE P == Put(v, s, r)
<1>8. /\ P \in Servers /\ P.game = v.game /\ P.sessions = v.sessions /\ P.slots[s] = r
      /\ \A t \in Slots : t # s => P.slots[t] = sv.slots[t]
  BY <1>6, <1>7, PutFields
<1>9. x = [P EXCEPT !.sessions = IF auth = "none" THEN @ ELSE @ \cup {user}]
  BY <1>5, <1>7 DEF Accept, Put, Servers
<1> HIDE DEF P
<1>10. /\ x \in Servers /\ x.slots = P.slots /\ x.game = P.game
       /\ x.sessions = IF auth = "none" THEN P.sessions ELSE P.sessions \cup {user}
  BY <1>8, <1>9 DEF Servers
<1>11. x.sessions = Rest(sv, s) \cup (IF auth = "none" THEN {} ELSE {user})
  BY <1>7, <1>8, <1>10
<1>12. QED
  BY <1>6, <1>7, <1>8, <1>10, <1>11 DEF Entered

\* What SV_FreeClient and the empty slot leave of it.
Denial(x, s, e) == [FreeClient(x, s) EXCEPT !.slots[s] = e]

LEMMA DeniedGood ==
    ASSUME NEW p \in SUBSET Clients, NEW sv, Good(p, sv), NEW s \in Slots, NEW c, NEW user,
           NEW auth \in {"none", "pending", "valid"}, auth # "none" => user \notin Rest(sv, s),
           NEW r, NEW x, Entered(sv, s, c, user, auth, r, x),
           NEW e \in SlotRecords, e.state = "free", e.auth = "none", e.odd = sv.slots[s].odd,
           NEW w, w = Denial(x, s, e)
    PROVE  Good(p, w) /\ OthersKept(sv, w, s)
<1>1. Sound(sv) /\ sv \in Servers /\ sv.slots[s] \in SlotRecords
  BY ServerFields DEF Good, Sound
<1>2. /\ x \in Servers /\ x.slots[s] = r /\ r.auth = auth /\ (auth # "none" => r.user = user)
      /\ \A t \in Slots : t # s => x.slots[t] = sv.slots[t]
      /\ x.game = (IF Live(sv.slots[s]) THEN sv.game \ {s} ELSE sv.game)
      /\ x.sessions = Rest(sv, s) \cup (IF auth = "none" THEN {} ELSE {user})
  BY Zenon DEF Entered
<1> DEFINE P == Put(x, s, e)
<1>3. /\ P \in Servers /\ P.game = x.game /\ P.sessions = x.sessions /\ P.slots[s] = e
      /\ \A t \in Slots : t # s => P.slots[t] = x.slots[t]
  BY <1>2, PutFields
<1>4. w = [P EXCEPT !.sessions = IF auth = "none" THEN @ ELSE @ \ {r.user}]
  BY <1>2 DEF Denial, FreeClient, Put, Servers
<1> HIDE DEF P
<1>5. /\ w \in Servers /\ w.slots = P.slots /\ w.game = P.game
      /\ w.sessions = IF auth = "none" THEN P.sessions ELSE P.sessions \ {r.user}
  BY <1>3, <1>4 DEF Servers
<1>6. w.sessions = Rest(sv, s)
  BY <1>2, <1>3, <1>5
<1>7. /\ w.slots[s] = e /\ \A t \in Slots : t # s => w.slots[t] = sv.slots[t]
      /\ w.game = (IF Live(sv.slots[s]) THEN sv.game \ {s} ELSE sv.game)
  BY <1>2, <1>3, <1>5
<1>8. OthersKept(sv, w, s)
  BY <1>7 DEF OthersKept
<1>9. ~Live(e)
  BY DEF Live
<1>10. s \in w.game /\ e.odd # "restarted" => Live(e)
  BY <1>1, <1>7 DEF Sound, NoGhosts
<1>11. InGame(w, s) /\ Admitted(p, w, s)
  BY <1>7, <1>9 DEF InGame, Admitted
<1>12. w.sessions = Rest(sv, s) \cup (IF e.auth = "none" THEN {} ELSE {e.user})
  BY <1>6
<1>13. Good(p, w)
  BY <1>5, <1>7, <1>10, <1>11, <1>12, ReplacedGood
<1>14. QED
  BY <1>8, <1>13

\* The client is in the game, and authenticated where that is done.
Joined(x, s) == [x EXCEPT !.game = @ \cup {s}]

LEMMA AcceptedGood ==
    ASSUME NEW p \in SUBSET Clients, NEW sv, Good(p, sv), NEW s \in Slots, NEW c \in Clients,
           NEW user, NEW auth \in {"none", "pending", "valid"}, c \in p => auth # "none",
           auth # "none" => user \notin Rest(sv, s),
           \A t \in Slots : t # s /\ sv.slots[t].state # "free" => sv.slots[t].who # c,
           NEW r, NEW x, Entered(sv, s, c, user, auth, r, x),
           NEW w, w = Joined(x, s)
    PROVE  Good(p, w) /\ OthersKept(sv, w, s)
<1>1. /\ r \in SlotRecords /\ r.state = "connected" /\ r.who = c /\ r.auth = auth
      /\ r.odd = "no" /\ r.sinceConnect = 0 /\ (auth # "none" => r.user = user)
      /\ x \in Servers /\ x.slots[s] = r
      /\ \A t \in Slots : t # s => x.slots[t] = sv.slots[t]
      /\ x.game = (IF Live(sv.slots[s]) THEN sv.game \ {s} ELSE sv.game)
      /\ x.sessions = Rest(sv, s) \cup (IF auth = "none" THEN {} ELSE {user})
  BY Zenon DEF Entered
<1>2. /\ w \in Servers /\ w.slots = x.slots /\ w.game = x.game \cup {s}
      /\ w.sessions = x.sessions
  BY <1>1 DEF Joined, Servers
<1>3. /\ w.slots[s] = r /\ s \in w.game
      /\ \A t \in Slots : t # s => w.slots[t] = sv.slots[t] /\ (t \in w.game <=> t \in sv.game)
  BY <1>1, <1>2
<1>4. OthersKept(sv, w, s)
  BY <1>3 DEF OthersKept
<1>5. Live(r) /\ (Validated(r) \/ auth = "none")
  BY <1>1, Numbers DEF Live, Validated
<1>6. InGame(w, s) /\ Admitted(p, w, s)
  BY <1>1, <1>3, <1>5 DEF InGame, Admitted
<1>7. w.sessions = Rest(sv, s) \cup (IF r.auth = "none" THEN {} ELSE {r.user})
  BY <1>1, <1>2
<1>8. r.state # "free" =>
          /\ r.who # NoClient
          /\ \A t \in Slots : t # s /\ sv.slots[t].state # "free" => sv.slots[t].who # r.who
  BY <1>1, SlotsAssumption
<1>9. Good(p, w)
  BY <1>1, <1>2, <1>3, <1>5, <1>6, <1>7, <1>8, ReplacedGood
<1>10. QED
  BY <1>4, <1>9

\* What DirectConnect does with candidate s and the ticket's identity.
Responds(c, s, user, v, auth) ==
    /\ auth \in AuthResults(v, c, user)
    /\ tickets' = IF user = NoUser THEN tickets
                  ELSE [tickets EXCEPT ![AddressOf(c)] = NoUser]
    /\ \/ Becomes(Refusal(v, s)) /\ UNCHANGED clients
       \/ /\ auth # "rejected"
          /\ Becomes(Denial(Accept(v, c, s, user, auth, FALSE), s,
                            [EmptySlot EXCEPT !.odd = slots[s].odd]))
          /\ UNCHANGED clients
       \/ /\ auth # "rejected"
          /\ \E linked \in BOOLEAN :
               /\ Becomes(Joined(Accept(v, c, s, user, auth, linked), s))
               /\ clients' = [clients EXCEPT ![c] = IF linked THEN "connected" ELSE @]

LEMMA DirectConnectStep ==
    ASSUME IInv, NEW c \in Clients, DirectConnect(c)
    PROVE  IInv' /\ LimitStep
<1>1. ~TooSoon(c) /\ UNCHANGED <<retail, connects>>
  BY DEF DirectConnect
<1>2. PICK s \in Candidates(c), user \in TicketsFor(c) :
        \E auth : Responds(c, s, user, Released(Server, s), auth)
  <2>1. PICK s \in Candidates(c), user \in TicketsFor(c) :
          LET sv == Released(Server, s) IN
          /\ tickets' = IF user = NoUser THEN tickets
                        ELSE [tickets EXCEPT ![AddressOf(c)] = NoUser]
          /\ \E auth \in AuthResults(sv, c, user) :
               \/ auth = "rejected" /\ Refuse(sv, s) /\ UNCHANGED clients
               \/ /\ auth # "rejected"
                  /\ Deny(Accept(sv, c, s, user, auth, FALSE), s)
                  /\ UNCHANGED clients
               \/ /\ auth # "rejected"
                  /\ \E linked \in {FALSE, clients[c] = "challenging"} :
                       /\ Becomes([Accept(sv, c, s, user, auth, linked) EXCEPT
                                       !.game = @ \cup {s}])
                       /\ clients' = [clients EXCEPT ![c] = IF linked THEN "connected" ELSE @]
    BY Zenon DEF DirectConnect
  <2>2. QED
    BY <2>1, Zenon DEF Responds, Refuse, Refusal, Deny, Denial, Joined
<1>3. PICK auth : Responds(c, s, user, Released(Server, s), auth)
  BY <1>2
<1> DEFINE v == Released(Server, s)
<1>4. Good(retail, Server) /\ Sound(Server) /\ Server.slots = slots /\ Server.game = game
      /\ retail \subseteq Clients /\ slots[s] \in SlotRecords
  BY NowFields, CandidateFields
<1>5. /\ s \in Slots
      /\ \A t \in Slots : t # s /\ slots[t].state # "free" => slots[t].who # c
  BY CandidateFields
<1>6. user \in Range(User) \cup {NoUser}
  <2>1. AddressOf(c) \in Addresses
    BY DEF Addresses
  <2>2. QED
    BY <2>1 DEF TicketsFor, IInv, Others
<1>7. retail' = retail /\ connects' = connects
  BY <1>1
<1>8. tickets' \in [Addresses -> Range(User) \cup {NoUser}]
  BY <1>3 DEF Responds, IInv, Others
<1>9. v.sessions = Rest(Server, s)
  BY <1>4, <1>5, ReleasedParts, Zenon DEF LeftBy
<1>10. ASSUME auth # "rejected"
       PROVE  /\ auth \in {"none", "pending", "valid"} /\ (c \in retail => auth # "none")
              /\ auth # "none" => user # NoUser /\ user \notin Rest(Server, s)
  <2>1. auth \in AuthResults(v, c, user)
    BY <1>3, Zenon DEF Responds
  <2> HIDE DEF v
  <2>2. QED
    BY <1>4, <1>9, <1>10, <2>1, AuthFields
<1>11. ASSUME NEW w, Good(retail, w), OthersKept(Server, w, s), Becomes(w),
              clients' \in [Clients -> {"off", "challenging", "connected"}]
       PROVE  IInv' /\ LimitStep
  <2>1. Others'
    BY <1>7, <1>8, <1>11 DEF IInv, Others
  <2>2. IInv'
    BY <1>7, <1>11, <2>1, NextGood
  <2>3. \A t \in Slots : t # s => slots'[t] = slots[t] /\ (t \in game => t \in game')
    BY <1>4, <1>11 DEF OthersKept, Becomes
  <2>4. LimitStep
    BY <1>1, <2>3, CandidateLimit
  <2>5. QED
    BY <2>2, <2>4
<1>12. CASE Becomes(Refusal(v, s)) /\ UNCHANGED clients
  <2>1. Good(retail, Refusal(v, s)) /\ OthersKept(Server, Refusal(v, s), s)
    BY <1>4, <1>5, RefusedGood, Zenon
  <2>2. QED
    BY <1>11, <1>12, <2>1 DEF IInv, Others
<1>13. CASE /\ auth # "rejected"
            /\ Becomes(Denial(Accept(v, c, s, user, auth, FALSE), s,
                              [EmptySlot EXCEPT !.odd = slots[s].odd]))
            /\ UNCHANGED clients
  <2> DEFINE x == Accept(v, c, s, user, auth, FALSE)
             r == NewSlot(c, user, auth, FALSE)
             e == [EmptySlot EXCEPT !.odd = slots[s].odd]
  <2>1. Entered(Server, s, c, user, auth, r, x)
    BY <1>4, <1>5, <1>6, <1>10, <1>13, AcceptedParts, Zenon
  <2>2. e \in SlotRecords /\ e.state = EmptySlot.state /\ e.auth = EmptySlot.auth
        /\ e.odd = slots[s].odd
    BY <1>4, EmptySlotFields DEF SlotRecords
  <2>3. EmptySlot.state = "free" /\ EmptySlot.auth = "none"
    BY DEF EmptySlot
  <2> HIDE DEF x, r, e, v
  <2>4. Good(retail, Denial(x, s, e)) /\ OthersKept(Server, Denial(x, s, e), s)
    BY <1>4, <1>5, <1>10, <1>13, <2>1, <2>2, <2>3, DeniedGood
  <2>5. Becomes(Denial(x, s, e))
    BY <1>13 DEF x, e
  <2>6. QED
    BY <1>11, <1>13, <2>4, <2>5 DEF IInv, Others
<1>14. CASE /\ auth # "rejected"
            /\ \E linked \in BOOLEAN :
                 /\ Becomes(Joined(Accept(v, c, s, user, auth, linked), s))
                 /\ clients' = [clients EXCEPT ![c] = IF linked THEN "connected" ELSE @]
  <2>1. PICK linked \in BOOLEAN :
          /\ Becomes(Joined(Accept(v, c, s, user, auth, linked), s))
          /\ clients' = [clients EXCEPT ![c] = IF linked THEN "connected" ELSE @]
    BY <1>14
  <2> DEFINE x == Accept(v, c, s, user, auth, linked)
             r == NewSlot(c, user, auth, linked)
  <2> HIDE DEF v
  <2>2. /\ auth \in {"none", "pending", "valid"} /\ (c \in retail => auth # "none")
        /\ auth # "none" => user # NoUser
        /\ auth # "none" => user \notin Rest(Server, s)
    BY <1>10, <1>14
  <2>3. Entered(Server, s, c, user, auth, r, x)
    BY <1>4, <1>5, <1>6, <2>2, AcceptedParts, Zenon DEF v
  <2> HIDE DEF x, r
  <2>4. \A t \in Slots : t # s /\ Server.slots[t].state # "free" => Server.slots[t].who # c
    BY <1>4, <1>5
  <2>5. Good(retail, Joined(x, s)) /\ OthersKept(Server, Joined(x, s), s)
    BY <1>4, <1>5, <2>2, <2>3, <2>4, AcceptedGood, Zenon
  <2>6. clients' \in [Clients -> {"off", "challenging", "connected"}]
    BY <2>1 DEF IInv, Others
  <2>7. Becomes(Joined(x, s))
    BY <2>1 DEF x
  <2>8. QED
    BY <1>11, <2>5, <2>6, <2>7
<1>15. QED
  BY <1>3, <1>12, <1>13, <1>14 DEF Responds

-----------------------------------------------------------------------------
\* The specification.

LEMMA InitKept == Init => IInv
<1> SUFFICES ASSUME Init PROVE IInv
  OBVIOUS
<1>1. Server.slots = slots /\ Server.game = {} /\ Server.sessions = {}
  BY DEF Server, Init
<1>2. \A s \in Slots : slots[s] = EmptySlot
  BY DEF Init
<1>3. /\ EmptySlot.state = "free" /\ EmptySlot.auth = "none" /\ ~Live(EmptySlot)
  BY DEF EmptySlot, Live
<1>4. Server \in Servers
  <2>1. slots \in [Slots -> SlotRecords]
    BY EmptySlotFields DEF Init
  <2>2. QED
    BY <2>1 DEF Server, Servers, Init
<1>5. Sound(Server)
  BY <1>1, <1>2, <1>3, <1>4 DEF Sound, Addressed, Own, Quiet, Held, NoGhosts
<1>6. Good(retail, Server)
  BY <1>1, <1>2, <1>3, <1>5 DEF Good, InGame, Admitted
<1>7. Others
  BY SlotsAssumption DEF Others, Init
<1>8. QED
  BY <1>6, <1>7 DEF IInv

LEMMA StepKept ==
    ASSUME IInv, [Next]_vars
    PROVE  IInv' /\ LimitStep
<1>1. CASE UNCHANGED vars
  <2>1. Others'
    BY <1>1 DEF vars, IInv, Others
  <2>2. QED
    BY <1>1, <2>1, SameServer DEF vars
<1>2. ASSUME NEW c \in Clients, ObtainChallenge(c) PROVE IInv' /\ LimitStep
  BY <1>2, ObtainChallengeStep
<1>3. ASSUME NEW c \in Clients, LoseConnect(c) PROVE IInv' /\ LimitStep
  BY <1>3, LoseConnectStep
<1>4. ASSUME NEW c \in Clients, Quit(c) PROVE IInv' /\ LimitStep
  BY <1>4, QuitStep
<1>5. ASSUME NEW c \in Clients, Packet(c) PROVE IInv' /\ LimitStep
  BY <1>5, PacketStep
<1>6. ASSUME NEW c \in Clients, DirectConnect(c) PROVE IInv' /\ LimitStep
  BY <1>6, DirectConnectStep
<1>7. ASSUME NEW a \in Addresses, TicketExpires(a) PROVE IInv' /\ LimitStep
  BY <1>7, TicketExpiresStep
<1>8. ASSUME NEW u \in Range(User), AuthResult(u) PROVE IInv' /\ LimitStep
  BY <1>8, AuthResultStep
<1>9. CASE SendServerCommand
  BY <1>9, SendServerCommandStep
<1>10. CASE Tick
  BY <1>10, TickStep
<1>11. CASE SpawnServer
  BY <1>11, SpawnServerStep
<1>12. CASE MapRestart
  BY <1>12, MapRestartStep
<1>13. QED
  BY <1>1, <1>2, <1>3, <1>4, <1>5, <1>6, <1>7, <1>8, <1>9, <1>10, <1>11, <1>12 DEF Next

\* The inductive invariant: through every handler, with whatever it drops on
\* the way, the slots, the game's clients and the platform's sessions agree.
THEOREM SlotsInvariant == Spec => []IInv
<1>1. Init => IInv
  BY InitKept
<1>2. IInv /\ [Next]_vars => IInv'
  BY StepKept
<1>3. QED
  BY <1>1, <1>2, PTL DEF Spec

\* Types: above all, the window of unacknowledged commands is never overrun
\* (SV_AddServerCommand), however the broadcasts of dropped clients nest, and
\* no age or state leaves its range.
THEOREM SlotsTyped == Spec => []TypeOK
<1>1. IInv => TypeOK
  BY NowFields DEF IInv, Others, TypeOK
<1>2. QED
  BY <1>1, SlotsInvariant, PTL

\* SV_DirectConnect never gives a client a second slot: the loop of
\* SV_PacketEvent that stops at the first match finds the only one.
THEOREM OneSlotAlways == Spec => []OneSlotPerClient
<1>1. IInv => OneSlotPerClient
  <2>1. ASSUME IInv PROVE OneSlotPerClient
    <3>1. Own(Server) /\ Server.slots = slots
      BY <2>1, NowFields DEF Sound
    <3>2. QED
      BY <3>1 DEF Own, OneSlotPerClient
  <2>2. QED
    BY <2>1
<1>2. QED
  BY <1>1, SlotsInvariant, PTL

\* GAME_CLIENT_CONNECT and GAME_CLIENT_DISCONNECT are called in pairs: the game
\* has the connected clients, through reconnections (SV_DirectConnect), drops
\* inside drops (SV_DropClient), SV_SpawnServer and SV_MapRestart_f.
THEOREM GameStaysInStep == Spec => []GameInStep
<1>1. IInv => GameInStep
  <2>1. ASSUME IInv PROVE GameInStep
    <3>1. /\ Good(retail, Server) /\ NoGhosts(Server)
          /\ Server.slots = slots /\ Server.game = game
      BY <2>1, NowFields DEF Sound
    <3>2. QED
      BY <3>1 DEF Good, InGame, NoGhosts, GameInStep
  <2>2. QED
    BY <2>1
<1>2. QED
  BY <1>1, SlotsInvariant, PTL

\* SV_FreeClient ends each session of the platform once: no slot that is lost,
\* refused, denied or timed out leaves one open, and SV_CheckTimeouts leaves no
\* client of protocol 91 connected whose validation is overdue.
THEOREM SessionsAlwaysHeld == Spec => []SessionsHeld
<1>1. IInv => SessionsHeld
  <2>1. ASSUME IInv PROVE SessionsHeld
    <3>1. /\ Good(retail, Server) /\ Held(Server) /\ retail \subseteq Clients
          /\ Server.slots = slots /\ Server.sessions = sessions
      BY <2>1, NowFields DEF Sound
    <3>2. ASSUME NEW u \in sessions
          PROVE  \E s \in Slots :
                    {t \in Slots : slots[t].auth # "none" /\ slots[t].user = u} = {s}
      <4>1. PICK s \in Slots : slots[s].auth # "none" /\ slots[s].user = u
        BY <3>1, <3>2 DEF Held
      <4>2. \A t \in Slots : slots[t].auth # "none" /\ slots[t].user = u => t = s
        BY <3>1, <4>1 DEF Held
      <4>3. QED
        BY <4>1, <4>2
    <3>3. ASSUME NEW s \in Slots
          PROVE  /\ slots[s].auth # "none" => slots[s].user \in sessions
                 /\ slots[s].who \in retail /\ Live(slots[s])
                    /\ slots[s].odd \notin {"refused", "readmitted"}
                      => Validated(slots[s])
      BY <3>1 DEF Held, Good, Admitted
    <3>4. QED
      BY <3>2, <3>3 DEF SessionsHeld, Validated
  <2>2. QED
    BY <2>1
<1>2. QED
  BY <1>1, SlotsInvariant, PTL

\* A repeated or duplicated connect never takes a young connection down
\* (sv_reconnectlimit in SV_DirectConnect), nor does any other handler begin it
\* anew.
THEOREM ReconnectLimitAlways == Spec => ReconnectLimitKept
<1>1. IInv /\ [Next]_vars => [LimitStep]_vars
  BY StepKept
<1>2. Spec => [][LimitStep]_vars
  BY <1>1, SlotsInvariant, PTL DEF Spec
<1>3. QED
  BY <1>2 DEF ReconnectLimitKept, LimitStep
=============================================================================
