----------------------------- MODULE BucketProofs -----------------------------
(***************************************************************************)
(* Proofs about module BucketChains: for any number of addresses, hashes and *)
(* buckets, any burst, period and limit of the toxicity.                    *)
(***************************************************************************)
EXTENDS BucketChains, FiniteSetTheorems, FunctionTheorems, WellFoundedInduction, TLAPS

-----------------------------------------------------------------------------
\* The inductive invariant.  Its parts are about any state s of the array and its
\* heads, and any set U of buckets in the chains.

Nodes ==
    [address : Addresses \cup {NoAddress}, hash : Hashes, next : Indices \cup {Null},
     prev : Indices \cup {Null}, rate : Bucket]

States == [b : [Indices -> Nodes], heads : [Hashes -> Indices \cup {Null}]]

InUse(b) == {i \in Indices : b[i].address # NoAddress}

\* Bucket j comes right after bucket i; the ranks exclude a circle.
Precedes(s, U, rank, i, j) ==
    /\ i \in U /\ j \in U /\ s.b[i].hash = s.b[j].hash
    /\ s.b[i].next = j /\ s.b[j].prev = i
    /\ rank[i] < rank[j]

\* The chains hold the buckets of U.
Linked(s, U, rank) ==
    /\ \A i \in U :
        /\ s.b[i].prev = Null => s.heads[s.b[i].hash] = i
        /\ s.b[i].prev # Null => Precedes(s, U, rank, s.b[i].prev, i)
        /\ s.b[i].next # Null => Precedes(s, U, rank, i, s.b[i].next)
    /\ \A h \in Hashes : s.heads[h] # Null =>
        /\ s.heads[h] \in U
        /\ s.b[s.heads[h]].hash = h /\ s.b[s.heads[h]].prev = Null

Chained(s, U) == \E rank \in [Indices -> Nat] : Linked(s, U, rank)

\* An address has one bucket, in the chain of its hash.
Filed(b) ==
    /\ \A i \in InUse(b) : b[i].hash = HashOf[b[i].address]
    /\ \A i, j \in InUse(b) : b[i].address = b[j].address => i = j

Right(s) == s \in States /\ Chained(s, InUse(s.b)) /\ Filed(s.b)

IInv == Right(Now) /\ start \in 0 .. NumBuckets - 1

-----------------------------------------------------------------------------
\* The assignments of the code, one field each.

LEMMA Sizes ==
    /\ NumBuckets \in Nat /\ NumBuckets >= 1 /\ RelinkAfter \in Nat
    /\ HashOf \in [Addresses -> Hashes] /\ Hashes # {} /\ NoAddress \notin Addresses
    /\ Null \notin Indices /\ Indices \subseteq Nat
BY BucketsAssumption DEF Null, Indices

SameContents(s, t) ==
    \A x \in Indices :
        /\ t.b[x].address = s.b[x].address /\ t.b[x].hash = s.b[x].hash
        /\ t.b[x].rate = s.b[x].rate

LEMMA StateFields ==
    ASSUME NEW s \in States
    PROVE  /\ s.b \in [Indices -> Nodes] /\ s.heads \in [Hashes -> Indices \cup {Null}]
           /\ \A x \in Indices :
                /\ s.b[x].next \in Indices \cup {Null} /\ s.b[x].prev \in Indices \cup {Null}
                /\ s.b[x].hash \in Hashes /\ s.b[x].rate \in Bucket
                /\ s.b[x].address \in Addresses \cup {NoAddress}
           /\ \A h \in Hashes : s.heads[h] \in Indices \cup {Null}
<1>1. s.b \in [Indices -> Nodes] /\ s.heads \in [Hashes -> Indices \cup {Null}]
  BY DEF States
<1>2. \A x \in Indices : s.b[x] \in Nodes
  BY <1>1
<1>3. QED
  BY <1>1, <1>2 DEF Nodes

\* One entry of the array replaced.
Entry(s, i, node) == [b |-> [s.b EXCEPT ![i] = node], heads |-> s.heads]

LEMMA EntryFields ==
    ASSUME NEW s \in States, NEW i \in Indices, NEW node \in Nodes
    PROVE  /\ Entry(s, i, node) \in States /\ Entry(s, i, node).heads = s.heads
           /\ \A x \in Indices :
                Entry(s, i, node).b[x] = IF x = i THEN node ELSE s.b[x]
BY StateFields DEF Entry, States

LEMMA SetNextFields ==
    ASSUME NEW s \in States, NEW i \in Indices, NEW j \in Indices \cup {Null}
    PROVE  LET t == SetNext(s, i, j) IN
           /\ t \in States /\ SameContents(s, t) /\ t.heads = s.heads
           /\ \A x \in Indices :
                /\ t.b[x].next = IF x = i THEN j ELSE s.b[x].next
                /\ t.b[x].prev = s.b[x].prev
<1> DEFINE node == [s.b[i] EXCEPT !.next = j]
<1>1. s.b[i] \in Nodes /\ s.b \in [Indices -> Nodes]
  BY StateFields
<1>2. node \in Nodes /\ node.next = j /\ node.prev = s.b[i].prev
      /\ node.address = s.b[i].address /\ node.hash = s.b[i].hash /\ node.rate = s.b[i].rate
  BY <1>1 DEF Nodes
<1>3. SetNext(s, i, j) = Entry(s, i, node)
  BY <1>1 DEF SetNext, Entry, States
<1> HIDE DEF node
<1>4. QED
  BY <1>2, <1>3, EntryFields DEF SameContents

LEMMA SetPrevFields ==
    ASSUME NEW s \in States, NEW i \in Indices \cup {Null}, NEW j \in Indices \cup {Null}
    PROVE  LET t == SetPrev(s, i, j) IN
           /\ t \in States /\ SameContents(s, t) /\ t.heads = s.heads
           /\ \A x \in Indices :
                /\ t.b[x].prev = IF x = i THEN j ELSE s.b[x].prev
                /\ t.b[x].next = s.b[x].next
<1>1. CASE i = Null
  BY <1>1, Sizes DEF SetPrev, SameContents
<1>2. CASE i \in Indices
  <2> DEFINE node == [s.b[i] EXCEPT !.prev = j]
  <2>1. s.b[i] \in Nodes /\ s.b \in [Indices -> Nodes]
    BY <1>2, StateFields
  <2>2. node \in Nodes /\ node.prev = j /\ node.next = s.b[i].next
        /\ node.address = s.b[i].address /\ node.hash = s.b[i].hash /\ node.rate = s.b[i].rate
    BY <2>1 DEF Nodes
  <2>3. SetPrev(s, i, j) = Entry(s, i, node)
    <3>1. i # Null
      BY <1>2, Sizes
    <3>2. QED
      BY <2>1, <3>1 DEF SetPrev, Entry, States
  <2> HIDE DEF node
  <2>4. QED
    BY <1>2, <2>2, <2>3, EntryFields DEF SameContents
<1>3. QED
  BY <1>1, <1>2

LEMMA SetHeadFields ==
    ASSUME NEW s \in States, NEW h \in Hashes, NEW j \in Indices \cup {Null}
    PROVE  LET t == [s EXCEPT !.heads[h] = j] IN
           /\ t \in States /\ SameContents(s, t)
           /\ \A x \in Indices : t.b[x].prev = s.b[x].prev /\ t.b[x].next = s.b[x].next
           /\ \A g \in Hashes : t.heads[g] = IF g = h THEN j ELSE s.heads[g]
<1> DEFINE heads == [s.heads EXCEPT ![h] = j]
<1>1. s.heads \in [Hashes -> Indices \cup {Null}]
  BY StateFields
<1>2. heads \in [Hashes -> Indices \cup {Null}]
      /\ \A g \in Hashes : heads[g] = IF g = h THEN j ELSE s.heads[g]
  BY <1>1
<1>3. [s EXCEPT !.heads[h] = j] = [b |-> s.b, heads |-> heads]
  BY <1>1 DEF States
<1> HIDE DEF heads
<1>4. QED
  BY <1>2, <1>3, StateFields DEF SameContents, States

-----------------------------------------------------------------------------
\* What the operations on the chains do.

Unlinked(s, i, t) ==
    /\ t \in States /\ SameContents(s, t)
    /\ \A x \in Indices :
        /\ t.b[x].next = IF x = s.b[i].prev THEN s.b[i].next ELSE s.b[x].next
        /\ t.b[x].prev = IF x = s.b[i].next THEN s.b[i].prev ELSE s.b[x].prev
    /\ \A h \in Hashes :
        t.heads[h] = IF s.b[i].prev = Null /\ h = s.b[i].hash THEN s.b[i].next
                     ELSE s.heads[h]

LEMMA UnlinkFields ==
    ASSUME NEW s \in States, NEW i \in Indices
    PROVE  Unlinked(s, i, UnlinkBucket(s, i))
<1> DEFINE prev == s.b[i].prev
           next == s.b[i].next
           hash == s.b[i].hash
           before == IF prev # Null THEN SetNext(s, prev, next)
                     ELSE [s EXCEPT !.heads[hash] = next]
<1>1. prev \in Indices \cup {Null} /\ next \in Indices \cup {Null} /\ hash \in Hashes
  BY StateFields
<1>2. UnlinkBucket(s, i) = SetPrev(before, next, prev)
  BY Zenon DEF UnlinkBucket
<1> HIDE DEF prev, next, hash
<1>3. /\ before \in States /\ SameContents(s, before)
      /\ \A x \in Indices :
            /\ before.b[x].next = IF x = prev THEN next ELSE s.b[x].next
            /\ before.b[x].prev = s.b[x].prev
      /\ \A h \in Hashes :
            before.heads[h] = IF prev = Null /\ h = hash THEN next ELSE s.heads[h]
  <2>1. CASE prev # Null
    <3>1. prev \in Indices /\ before = SetNext(s, prev, next)
      BY <1>1, <2>1
    <3> DEFINE u == SetNext(s, prev, next)
    <3>2. /\ u \in States /\ SameContents(s, u) /\ u.heads = s.heads
          /\ \A x \in Indices :
                /\ u.b[x].next = IF x = prev THEN next ELSE s.b[x].next
                /\ u.b[x].prev = s.b[x].prev
      BY <1>1, <3>1, SetNextFields
    <3> HIDE DEF before, u
    <3>3. before = u
      BY <3>1 DEF u
    <3>4. QED
      BY <2>1, <3>2, <3>3
  <2>2. CASE prev = Null
    <3>1. before = [s EXCEPT !.heads[hash] = next]
      BY <2>2
    <3> HIDE DEF before
    <3>2. /\ before \in States /\ SameContents(s, before)
          /\ \A x \in Indices : before.b[x].prev = s.b[x].prev /\ before.b[x].next = s.b[x].next
          /\ \A g \in Hashes : before.heads[g] = IF g = hash THEN next ELSE s.heads[g]
      BY <1>1, <3>1, SetHeadFields
    <3>3. \A x \in Indices : before.b[x].next = IF x = prev THEN next ELSE s.b[x].next
      BY <2>2, <3>2, Sizes
    <3>4. \A g \in Hashes :
              before.heads[g] = IF prev = Null /\ g = hash THEN next ELSE s.heads[g]
      BY <2>2, <3>2
    <3>5. QED
      BY <3>2, <3>3, <3>4
  <2>3. QED
    BY <2>1, <2>2
<1> HIDE DEF before
<1> DEFINE t == SetPrev(before, next, prev)
<1>4. /\ t \in States /\ SameContents(before, t) /\ t.heads = before.heads
      /\ \A x \in Indices :
            /\ t.b[x].prev = IF x = next THEN prev ELSE before.b[x].prev
            /\ t.b[x].next = before.b[x].next
  BY <1>1, <1>3, SetPrevFields, ZenonT(40)
<1> HIDE DEF t
<1>5. SameContents(s, t)
  BY <1>3, <1>4 DEF SameContents
<1>6. Unlinked(s, i, t)
  BY <1>3, <1>4, <1>5 DEF Unlinked, prev, next, hash
<1>7. QED
  BY <1>2, <1>6 DEF t

Pushed(s, i, h, t) ==
    /\ t \in States /\ SameContents(s, t)
    /\ \A x \in Indices :
        /\ t.b[x].next = IF x = i THEN s.heads[h] ELSE s.b[x].next
        /\ t.b[x].prev = IF x = i THEN Null ELSE IF x = s.heads[h] THEN i ELSE s.b[x].prev
    /\ \A g \in Hashes : t.heads[g] = IF g = h THEN i ELSE s.heads[g]

LEMMA PushFields ==
    ASSUME NEW s \in States, NEW i \in Indices, NEW h \in Hashes
    PROVE  Pushed(s, i, h, PushFront(s, i, h))
<1> DEFINE head == s.heads[h]
           s1 == SetNext(s, i, head)
           s2 == SetPrev(s1, head, i)
           s3 == SetPrev(s2, i, Null)
           t == [s3 EXCEPT !.heads[h] = i]
<1>1. head \in Indices \cup {Null}
  BY StateFields
<1>2. PushFront(s, i, h) = t
  BY Zenon DEF PushFront
<1> HIDE DEF head
<1>3. /\ s1 \in States /\ SameContents(s, s1) /\ s1.heads = s.heads
      /\ \A x \in Indices :
            /\ s1.b[x].next = IF x = i THEN head ELSE s.b[x].next
            /\ s1.b[x].prev = s.b[x].prev
  BY <1>1, SetNextFields
<1> HIDE DEF s1
<1>4. /\ s2 \in States /\ SameContents(s1, s2) /\ s2.heads = s1.heads
      /\ \A x \in Indices :
            /\ s2.b[x].prev = IF x = head THEN i ELSE s1.b[x].prev
            /\ s2.b[x].next = s1.b[x].next
  <2>1. i \in Indices \cup {Null} /\ s1 \in States
    BY <1>3
  <2>2. QED
    BY <1>1, <2>1, SetPrevFields, ZenonT(40)
<1> HIDE DEF s2
<1>5. /\ s3 \in States /\ SameContents(s2, s3) /\ s3.heads = s2.heads
      /\ \A x \in Indices :
            /\ s3.b[x].prev = IF x = i THEN Null ELSE s2.b[x].prev
            /\ s3.b[x].next = s2.b[x].next
  BY <1>4, SetPrevFields
<1> HIDE DEF s3
<1>6. /\ t \in States /\ SameContents(s3, t)
      /\ \A x \in Indices : t.b[x].prev = s3.b[x].prev /\ t.b[x].next = s3.b[x].next
      /\ \A g \in Hashes : t.heads[g] = IF g = h THEN i ELSE s3.heads[g]
  BY <1>5, SetHeadFields
<1> HIDE DEF t
<1>7. SameContents(s, t)
  BY <1>3, <1>4, <1>5, <1>6 DEF SameContents
<1>8. \A x \in Indices :
          /\ t.b[x].next = IF x = i THEN head ELSE s.b[x].next
          /\ t.b[x].prev = IF x = i THEN Null ELSE IF x = head THEN i ELSE s.b[x].prev
  BY <1>3, <1>4, <1>5, <1>6
<1>9. Pushed(s, i, h, t)
  BY <1>3, <1>4, <1>5, <1>6, <1>7, <1>8 DEF Pushed, head
<1>10. QED
  BY <1>2, <1>9

-----------------------------------------------------------------------------
\* They leave the chains whole.

LEMMA LinkFields ==
    ASSUME NEW s \in States, NEW U \in SUBSET Indices, NEW rank \in [Indices -> Nat],
           Linked(s, U, rank), NEW i \in U
    PROVE  /\ s.b[i].prev = Null => s.heads[s.b[i].hash] = i
           /\ s.b[i].prev # Null => Precedes(s, U, rank, s.b[i].prev, i)
           /\ s.b[i].next # Null => Precedes(s, U, rank, i, s.b[i].next)
           /\ s.b[i].prev # i /\ s.b[i].next # i
           /\ i \in Indices /\ i # Null /\ s.b[i].hash \in Hashes
           /\ rank[i] \in Nat
<1>1. /\ s.b[i].prev = Null => s.heads[s.b[i].hash] = i
      /\ s.b[i].prev # Null => Precedes(s, U, rank, s.b[i].prev, i)
      /\ s.b[i].next # Null => Precedes(s, U, rank, i, s.b[i].next)
      /\ i \in Indices /\ i # Null /\ s.b[i].hash \in Hashes
      /\ rank[i] \in Nat
  BY StateFields, Sizes DEF Linked
<1>2. s.b[i].prev # i /\ s.b[i].next # i
  BY <1>1 DEF Precedes
<1>3. QED
  BY <1>1, <1>2

LEMMA UnlinkLinked ==
    ASSUME NEW s \in States, NEW U \in SUBSET Indices, NEW rank \in [Indices -> Nat],
           Linked(s, U, rank), NEW i \in U, NEW t, Unlinked(s, i, t)
    PROVE  Linked(t, U \ {i}, rank)
<1> DEFINE V == U \ {i}
           prev == s.b[i].prev
           next == s.b[i].next
<1>1. /\ t \in States /\ \A x \in Indices : t.b[x].hash = s.b[x].hash
      /\ \A x \in Indices :
            /\ t.b[x].next = IF x = prev THEN next ELSE s.b[x].next
            /\ t.b[x].prev = IF x = next THEN prev ELSE s.b[x].prev
      /\ \A h \in Hashes :
            t.heads[h] = IF prev = Null /\ h = s.b[i].hash THEN next ELSE s.heads[h]
  BY DEF Unlinked, SameContents
<1>2. /\ prev = Null => s.heads[s.b[i].hash] = i
      /\ prev # Null => Precedes(s, U, rank, prev, i)
      /\ next # Null => Precedes(s, U, rank, i, next)
      /\ prev # i /\ next # i /\ i \in Indices /\ i # Null /\ s.b[i].hash \in Hashes
      /\ rank[i] \in Nat
  BY LinkFields
<1>3. prev # Null /\ next # Null =>
          s.b[prev].hash = s.b[next].hash /\ rank[prev] < rank[next]
  <2>1. ASSUME prev # Null, next # Null PROVE rank[prev] < rank[next]
    <3>1. rank[prev] < rank[i] /\ rank[i] < rank[next] /\ prev \in Indices /\ next \in Indices
      BY <1>2, <2>1 DEF Precedes
    <3>2. rank[prev] \in Nat /\ rank[next] \in Nat
      BY <3>1
    <3>3. QED
      BY <1>2, <3>1, <3>2
  <2>2. QED
    BY <1>2, <2>1 DEF Precedes
<1> HIDE DEF prev, next
<1>4. ASSUME NEW x \in V
      PROVE  /\ t.b[x].prev = Null => t.heads[t.b[x].hash] = x
             /\ t.b[x].prev # Null => Precedes(t, V, rank, t.b[x].prev, x)
             /\ t.b[x].next # Null => Precedes(t, V, rank, x, t.b[x].next)
  <2>1. /\ s.b[x].prev = Null => s.heads[s.b[x].hash] = x
        /\ s.b[x].prev # Null => Precedes(s, U, rank, s.b[x].prev, x)
        /\ s.b[x].next # Null => Precedes(s, U, rank, x, s.b[x].next)
        /\ x \in Indices /\ x # Null /\ s.b[x].hash \in Hashes /\ x \in U /\ x # i
    BY LinkFields
  <2>2. x = next => s.b[x].prev = i /\ s.b[x].hash = s.b[i].hash
    BY <1>2, <2>1 DEF Precedes
  <2>3. x = prev => s.b[x].next = i /\ s.b[x].hash = s.b[i].hash
    BY <1>2, <2>1 DEF Precedes
  <2>4. s.b[x].prev = i => x = next
    BY <1>2, <2>1 DEF Precedes, next
  <2>5. s.b[x].next = i => x = prev
    BY <1>2, <2>1 DEF Precedes, prev
  <2>6. t.b[x].prev = Null => t.heads[t.b[x].hash] = x
    <3>1. CASE x = next
      BY <1>1, <2>1, <2>2, <3>1
    <3>2. CASE x # next
      <4>1. ASSUME s.b[x].prev = Null PROVE t.heads[s.b[x].hash] = s.heads[s.b[x].hash]
        <5>1. CASE prev = Null
          <6>1. s.b[x].hash # s.b[i].hash
            BY <1>2, <2>1, <4>1, <5>1
          <6>2. QED
            BY <1>1, <2>1, <6>1
        <5>2. CASE prev # Null
          BY <1>1, <2>1, <5>2
        <5>3. QED
          BY <5>1, <5>2
      <4>2. QED
        BY <1>1, <2>1, <3>2, <4>1
    <3>3. QED
      BY <3>1, <3>2
  <2>7. t.b[x].prev # Null => Precedes(t, V, rank, t.b[x].prev, x)
    <3>1. CASE x = next
      BY <1>1, <1>2, <1>3, <2>1, <3>1 DEF Precedes
    <3>2. CASE x # next
      BY <1>1, <1>2, <2>1, <2>4, <3>2 DEF Precedes
    <3>3. QED
      BY <3>1, <3>2
  <2>8. t.b[x].next # Null => Precedes(t, V, rank, x, t.b[x].next)
    <3>1. CASE x = prev
      BY <1>1, <1>2, <1>3, <2>1, <3>1 DEF Precedes
    <3>2. CASE x # prev
      BY <1>1, <1>2, <2>1, <2>5, <3>2 DEF Precedes
    <3>3. QED
      BY <3>1, <3>2
  <2>9. QED
    BY <2>6, <2>7, <2>8
<1>5. ASSUME NEW h \in Hashes, t.heads[h] # Null
      PROVE  /\ t.heads[h] \in V
             /\ t.b[t.heads[h]].hash = h /\ t.b[t.heads[h]].prev = Null
  <2>1. CASE prev = Null /\ h = s.b[i].hash
    <3>1. t.heads[h] = next /\ next # Null
      BY <1>1, <1>5, <2>1
    <3>2. QED
      BY <1>1, <1>2, <2>1, <3>1 DEF Precedes
  <2>2. CASE ~(prev = Null /\ h = s.b[i].hash)
    <3>1. t.heads[h] = s.heads[h]
      BY <1>1, <2>2
    <3>2. /\ s.heads[h] \in U /\ s.b[s.heads[h]].hash = h /\ s.b[s.heads[h]].prev = Null
      BY <1>5, <3>1 DEF Linked
    <3>3. s.heads[h] # i
      BY <2>2, <3>2 DEF prev
    <3>4. s.heads[h] # next
      BY <1>2, <3>2, Sizes DEF Precedes
    <3>5. QED
      BY <1>1, <3>1, <3>2, <3>3, <3>4
  <2>3. QED
    BY <2>1, <2>2
<1>6. QED
  BY <1>4, <1>5 DEF Linked

LEMMA PushLinked ==
    ASSUME NEW s \in States, NEW U \in SUBSET Indices, NEW rank \in [Indices -> Nat],
           Linked(s, U, rank), NEW i \in Indices, i \notin U, NEW h, h = s.b[i].hash,
           NEW t, Pushed(s, i, h, t)
    PROVE  Chained(t, U \cup {i})
<1> DEFINE V == U \cup {i}
           head == s.heads[h]
           r == [x \in Indices |-> IF x = i THEN 0 ELSE rank[x] + 1]
<1>1. h \in Hashes /\ i # Null /\ head \in Indices \cup {Null} /\ V \in SUBSET Indices
  BY StateFields, Sizes
<1>2. /\ t \in States /\ \A x \in Indices : t.b[x].hash = s.b[x].hash
      /\ \A x \in Indices :
            /\ t.b[x].next = IF x = i THEN head ELSE s.b[x].next
            /\ t.b[x].prev = IF x = i THEN Null ELSE IF x = head THEN i ELSE s.b[x].prev
      /\ \A g \in Hashes : t.heads[g] = IF g = h THEN i ELSE s.heads[g]
  BY DEF Pushed, SameContents
<1>3. head # Null => head \in U /\ s.b[head].hash = h /\ s.b[head].prev = Null /\ head # i
  BY <1>1 DEF Linked
<1>4. /\ r \in [Indices -> Nat] /\ r[i] = 0
      /\ \A x \in Indices : x # i => r[x] = rank[x] + 1 /\ rank[x] \in Nat
  OBVIOUS
<1> HIDE DEF head, r
<1>5. ASSUME NEW x \in U
      PROVE  /\ t.b[x].prev = Null => t.heads[t.b[x].hash] = x
             /\ t.b[x].prev # Null => Precedes(t, V, r, t.b[x].prev, x)
             /\ t.b[x].next # Null => Precedes(t, V, r, x, t.b[x].next)
  <2>1. /\ s.b[x].prev = Null => s.heads[s.b[x].hash] = x
        /\ s.b[x].prev # Null => Precedes(s, U, rank, s.b[x].prev, x)
        /\ s.b[x].next # Null => Precedes(s, U, rank, x, s.b[x].next)
        /\ x \in Indices /\ x # Null /\ s.b[x].hash \in Hashes /\ x # i
    BY LinkFields
  <2>2. t.b[x].next = s.b[x].next /\ t.b[x].hash = s.b[x].hash
    BY <1>2, <2>1
  <2>3. t.b[x].next # Null => Precedes(t, V, r, x, t.b[x].next)
    <3>1. ASSUME t.b[x].next # Null
          PROVE  /\ t.b[x].next \in U /\ t.b[x].next \in Indices /\ t.b[x].next # i
                 /\ s.b[x].hash = s.b[t.b[x].next].hash /\ s.b[t.b[x].next].prev = x
                 /\ rank[x] < rank[t.b[x].next]
      BY <2>1, <2>2, <3>1 DEF Precedes
    <3>2. ASSUME t.b[x].next # Null PROVE t.b[x].next # head
      BY <1>3, <2>1, <3>1, <3>2
    <3>3. QED
      BY <1>2, <1>4, <2>1, <2>2, <3>1, <3>2 DEF Precedes
  <2>4. CASE x = head
    <3>1. t.b[x].prev = i /\ s.b[x].hash = h
      BY <1>2, <1>3, <2>1, <2>4
    <3>2. t.b[i].next = x /\ r[i] < r[x]
      BY <1>2, <1>4, <2>1, <2>4
    <3>3. QED
      BY <1>1, <1>2, <2>1, <2>3, <3>1, <3>2 DEF Precedes
  <2>5. CASE x # head
    <3>1. t.b[x].prev = s.b[x].prev
      BY <1>2, <2>1, <2>5
    <3>2. t.b[x].prev = Null => t.heads[t.b[x].hash] = x
      <4>1. s.b[x].prev = Null => s.b[x].hash # h
        BY <2>1, <2>5 DEF head
      <4>2. QED
        BY <1>2, <2>1, <2>2, <3>1, <4>1
    <3>3. t.b[x].prev # Null => Precedes(t, V, r, t.b[x].prev, x)
      <4>1. ASSUME t.b[x].prev # Null
            PROVE  /\ t.b[x].prev \in U /\ t.b[x].prev \in Indices /\ t.b[x].prev # i
                   /\ s.b[x].hash = s.b[t.b[x].prev].hash /\ s.b[t.b[x].prev].next = x
                   /\ rank[t.b[x].prev] < rank[x]
        BY <2>1, <3>1, <4>1 DEF Precedes
      <4>2. QED
        BY <1>2, <1>4, <2>1, <2>2, <3>1, <4>1 DEF Precedes
    <3>4. QED
      BY <2>3, <3>2, <3>3
  <2>6. QED
    BY <2>4, <2>5
<1>6. /\ t.b[i].prev = Null /\ t.heads[t.b[i].hash] = i
      /\ t.b[i].next # Null => Precedes(t, V, r, i, t.b[i].next)
  <2>1. t.b[i].prev = Null /\ t.heads[t.b[i].hash] = i /\ t.b[i].next = head
    BY <1>1, <1>2
  <2>2. ASSUME head # Null PROVE Precedes(t, V, r, i, head)
    <3>1. head \in Indices /\ r[head] > r[i]
      BY <1>1, <1>3, <1>4, <2>2
    <3>2. QED
      BY <1>1, <1>2, <1>3, <2>1, <2>2, <3>1 DEF Precedes
  <2>3. QED
    BY <2>1, <2>2
<1>7. ASSUME NEW g \in Hashes, t.heads[g] # Null
      PROVE  /\ t.heads[g] \in V
             /\ t.b[t.heads[g]].hash = g /\ t.b[t.heads[g]].prev = Null
  <2>1. CASE g = h
    BY <1>1, <1>2, <1>6, <2>1
  <2>2. CASE g # h
    <3>1. t.heads[g] = s.heads[g]
      BY <1>2, <2>2
    <3>2. s.heads[g] \in U /\ s.b[s.heads[g]].hash = g /\ s.b[s.heads[g]].prev = Null
      BY <1>7, <3>1 DEF Linked
    <3>3. s.heads[g] # i /\ s.heads[g] # head
      BY <1>1, <1>3, <2>2, <3>2, Sizes
    <3>4. QED
      BY <1>2, <3>1, <3>2, <3>3
  <2>3. QED
    BY <2>1, <2>2
<1>8. Linked(t, V, r)
  BY <1>5, <1>6, <1>7 DEF Linked
<1>9. QED
  BY <1>4, <1>8 DEF Chained

-----------------------------------------------------------------------------
\* Numbers, and what is defined step by step.

\* A set of numbers has a least one: the intervals below its members have a
\* smallest.
LEMMA LeastIn ==
    ASSUME NEW S \in SUBSET Nat, S # {}
    PROVE  \E m \in S : \A j \in S : m <= j
<1> DEFINE T == {1..n : n \in S}
<1>1. T \subseteq FiniteSubsetsOf(Nat) /\ T # {}
  <2>1. \A n \in Nat : IsFiniteSet(1..n) /\ 1..n \subseteq Nat
    BY FS_Interval
  <2>2. QED
    BY <2>1 DEF FiniteSubsetsOf
<1>2. PICK x \in T : \A y \in T : ~ (<<y, x>> \in StrictSubsetOrdering(Nat))
  BY <1>1, FS_StrictSubsetOrderingWellFounded, WFMin
<1>3. PICK m \in S : x = 1..m
  BY <1>2
<1>4. ASSUME NEW j \in S, j < m PROVE FALSE
  <2>1. 1..j \subseteq 1..m /\ m \in 1..m /\ m \notin 1..j
    BY <1>4
  <2>2. <<1..j, 1..m>> \in StrictSubsetOrdering(Nat)
    BY <2>1 DEF StrictSubsetOrdering
  <2>3. QED
    BY <1>2, <1>3, <2>2
<1>5. QED
  BY <1>4

\* Numbers before which a property holds, and which inherit it, have it.
LEMMA Upwards ==
    ASSUME NEW n \in Nat, NEW G, 0 \in G, \A k \in 1..n : k - 1 \in G => k \in G
    PROVE  \A k \in 0..n : k \in G
<1> DEFINE Bad == {k \in 0..n : k \notin G}
<1>1. SUFFICES ASSUME Bad # {} PROVE FALSE
  OBVIOUS
<1>2. Bad \in SUBSET Nat
  OBVIOUS
<1>3. PICK m \in Bad : \A j \in Bad : m <= j
  <2> HIDE DEF Bad
  <2>1. QED
    BY <1>1, <1>2, LeastIn
<1>4. m \in 1..n /\ m \notin G
  OBVIOUS
<1>5. m - 1 \notin Bad
  BY <1>3, <1>4
<1>6. QED
  BY <1>4, <1>5

\* What is defined step by step exists.
Iteration(u, base, next, n) == u[0] = base /\ \A k \in 1 .. n : u[k] = next[u[k - 1]]

LEMMA Iterates ==
    ASSUME NEW S, NEW base \in S, NEW next \in [S -> S], NEW n \in Nat
    PROVE  \E u \in [0 .. n -> S] : Iteration(u, base, next, n)
<1> DEFINE Steps(m, u) == u[0] = base /\ \A k \in 1 .. m : u[k] = next[u[k - 1]]
           G == {m \in Nat : \E u \in [0 .. m -> S] : Steps(m, u)}
<1>1. 0 \in G
  <2>1. [k \in 0 .. 0 |-> base] \in [0 .. 0 -> S] /\ Steps(0, [k \in 0 .. 0 |-> base])
    OBVIOUS
  <2>2. QED
    BY <2>1
<1>2. ASSUME NEW k \in 1 .. n, k - 1 \in G PROVE k \in G
  <2>1. PICK u \in [0 .. (k - 1) -> S] : Steps(k - 1, u)
    BY <1>2
  <2> DEFINE v == [j \in 0 .. k |-> IF j = k THEN next[u[k - 1]] ELSE u[j]]
  <2>2. u[k - 1] \in S /\ k \in Nat
    OBVIOUS
  <2>3. v \in [0 .. k -> S] /\ v[0] = base
    BY <2>1, <2>2
  <2>4. ASSUME NEW j \in 1 .. k PROVE v[j] = next[v[j - 1]]
    <3>1. CASE j = k
      BY <3>1
    <3>2. CASE j # k
      <4>1. j \in 1 .. (k - 1) /\ v[j] = u[j] /\ v[j - 1] = u[j - 1]
        BY <3>2
      <4>2. QED
        BY <2>1, <4>1
    <3>3. QED
      BY <3>1, <3>2
  <2>5. Steps(k, v)
    BY <2>3, <2>4
  <2>6. QED
    BY <2>2, <2>3, <2>5
<1>3. n \in G
  <2> HIDE DEF G
  <2>1. \A k \in 1 .. n : k - 1 \in G => k \in G
    BY <1>2
  <2>2. \A k \in 0 .. n : k \in G
    BY <1>1, <2>1, Upwards, Zenon
  <2>3. n \in 0 .. n
    OBVIOUS
  <2>4. QED
    BY <2>2, <2>3
<1>4. QED
  BY <1>3 DEF Iteration

-----------------------------------------------------------------------------
\* The walk along a chain.

Walks(w, s, h) ==
    /\ w \in [0 .. NumBuckets -> Indices \cup {Null}]
    /\ w[0] = s.heads[h]
    /\ \A n \in 1 .. NumBuckets :
        w[n] = IF w[n - 1] = Null THEN Null ELSE s.b[w[n - 1]].next

LEMMA WalkFields ==
    ASSUME NEW s \in States, NEW h \in Hashes
    PROVE  Walks(Walk(s, h), s, h)
<1> DEFINE S == Indices \cup {Null}
           Step(x) == IF x = Null THEN Null ELSE s.b[x].next
           next == [x \in S |-> Step(x)]
           Body(u) == [n \in 0 .. NumBuckets |-> IF n = 0 THEN s.heads[h] ELSE Step(u[n - 1])]
<1>1. s.heads[h] \in S /\ \A x \in S : Step(x) \in S
  BY StateFields
<1> HIDE DEF S
<1>2. PICK u \in [0 .. NumBuckets -> S] :
          Iteration(u, s.heads[h], next, NumBuckets)
  <2>1. next \in [S -> S] /\ NumBuckets \in Nat
    BY <1>1, Sizes
  <2> HIDE DEF next
  <2>2. QED
    BY <1>1, <2>1, Iterates, Zenon
<1>3. u = Body(u)
  <2>1. ASSUME NEW n \in 0 .. NumBuckets
        PROVE  u[n] = IF n = 0 THEN s.heads[h] ELSE Step(u[n - 1])
    <3>1. CASE n = 0
      BY <1>2, <3>1 DEF Iteration
    <3>2. CASE n # 0
      <4>1. n \in 1 .. NumBuckets /\ n - 1 \in 0 .. NumBuckets
        BY <3>2, Sizes
      <4>2. u[n - 1] \in S /\ u[n] = next[u[n - 1]]
        BY <1>2, <4>1 DEF Iteration
      <4>3. QED
        BY <3>2, <4>2
    <3>3. QED
      BY <3>1, <3>2
  <2> HIDE DEF Step
  <2>2. QED
    BY <2>1
<1> DEFINE node == CHOOSE v : v = Body(v)
<1>4. Walk(s, h) = node
  BY Zenon DEF Walk
<1>5. node = Body(node)
  <2> HIDE DEF Body
  <2>1. QED
    BY <1>3
<1> HIDE DEF node
<1>6. /\ DOMAIN node = 0 .. NumBuckets /\ node[0] = s.heads[h]
      /\ \A n \in 1 .. NumBuckets : node[n] = Step(node[n - 1])
  <2> HIDE DEF Step
  <2>1. QED
    BY <1>5, Sizes
<1> DEFINE G == {n \in Nat : node[n] \in S}
<1>7. \A n \in 0 .. NumBuckets : n \in G
  <2>1. 0 \in G
    BY <1>1, <1>6
  <2>2. ASSUME NEW k \in 1 .. NumBuckets, k - 1 \in G PROVE k \in G
    <3>1. node[k] = Step(node[k - 1]) /\ node[k - 1] \in S
      BY <1>6, <2>2
    <3>2. QED
      BY <1>1, <3>1
  <2> HIDE DEF G
  <2>3. QED
    BY <2>1, <2>2, Upwards, Sizes, Zenon
<1>8. node \in [0 .. NumBuckets -> S]
  <2>1. node = [n \in 0 .. NumBuckets |-> node[n]]
    BY <1>5
  <2>2. QED
    BY <1>7, <2>1
<1>9. QED
  BY <1>4, <1>6, <1>8 DEF Walks, S

\* What the walk of a whole chain comes upon, and in which order.
Visits(w, s, U, h) ==
    \A n \in 0 .. NumBuckets : w[n] # Null =>
        /\ w[n] \in U /\ s.b[w[n]].hash = h
        /\ s.b[w[n]].prev = IF n = 0 THEN Null ELSE w[n - 1]

Ascends(w, rank) ==
    \A n \in 0 .. NumBuckets : w[n] # Null =>
        \A m \in 0 .. NumBuckets : m < n => w[m] # Null /\ rank[w[m]] < rank[w[n]]

LEMMA WalkOrder ==
    ASSUME NEW s \in States, NEW U \in SUBSET Indices, NEW rank \in [Indices -> Nat],
           Linked(s, U, rank), NEW h \in Hashes, NEW w, Walks(w, s, h)
    PROVE  Visits(w, s, U, h) /\ Ascends(w, rank)
<1> DEFINE Member(n) == w[n] # Null =>
                            /\ w[n] \in U /\ s.b[w[n]].hash = h
                            /\ s.b[w[n]].prev = IF n = 0 THEN Null ELSE w[n - 1]
           G == {n \in Nat : Member(n)}
           After(n) == w[n] # Null =>
                           \A m \in 0 .. NumBuckets :
                               m < n => w[m] # Null /\ rank[w[m]] < rank[w[n]]
           K == {n \in Nat : After(n)}
<1>1. \A n \in 0 .. NumBuckets : n \in G
  <2>1. 0 \in G
    BY DEF Walks, Linked
  <2>2. ASSUME NEW n \in 1 .. NumBuckets, n - 1 \in G PROVE n \in G
    <3>1. n \in Nat /\ n # 0 /\ w[n] = IF w[n - 1] = Null THEN Null ELSE s.b[w[n - 1]].next
      BY DEF Walks
    <3>2. CASE w[n] = Null
      BY <3>1, <3>2
    <3>3. CASE w[n] # Null
      <4>1. w[n - 1] # Null /\ w[n] = s.b[w[n - 1]].next
        BY <3>1, <3>3
      <4>2. w[n - 1] \in U /\ s.b[w[n - 1]].hash = h
        BY <2>2, <4>1
      <4>3. Precedes(s, U, rank, w[n - 1], w[n])
        BY <3>3, <4>1, <4>2 DEF Linked
      <4>4. QED
        BY <3>1, <4>2, <4>3 DEF Precedes
    <3>4. QED
      BY <3>2, <3>3
  <2> HIDE DEF G
  <2>3. QED
    BY <2>1, <2>2, Upwards, Sizes, Zenon
<1>2. \A n \in 0 .. NumBuckets : n \in K
  <2>1. 0 \in K
    OBVIOUS
  <2>2. ASSUME NEW n \in 1 .. NumBuckets, n - 1 \in K PROVE n \in K
    <3>1. SUFFICES ASSUME w[n] # Null, NEW m \in 0 .. NumBuckets, m < n
                   PROVE  w[m] # Null /\ rank[w[m]] < rank[w[n]]
      OBVIOUS
    <3>2. /\ w[n - 1] # Null /\ w[n] = s.b[w[n - 1]].next
          /\ n - 1 \in 0 .. NumBuckets /\ n \in 0 .. NumBuckets
      BY <3>1, Sizes DEF Walks
    <3>3. w[n - 1] \in U /\ w[n] \in U
      BY <1>1, <3>1, <3>2
    <3>4. rank[w[n - 1]] < rank[w[n]] /\ rank[w[n - 1]] \in Nat /\ rank[w[n]] \in Nat
      BY <3>1, <3>2, <3>3 DEF Linked, Precedes
    <3>5. CASE m = n - 1
      BY <3>2, <3>4, <3>5
    <3>6. CASE m # n - 1
      <4>1. m < n - 1
        BY <3>1, <3>6, Sizes
      <4>2. w[m] # Null /\ rank[w[m]] < rank[w[n - 1]]
        BY <2>2, <3>2, <4>1
      <4>3. rank[w[m]] \in Nat
        BY <1>1, <4>2
      <4>4. QED
        BY <3>4, <4>2, <4>3
    <3>7. QED
      BY <3>5, <3>6
  <2> HIDE DEF K
  <2>3. QED
    BY <2>1, <2>2, Upwards, Sizes, Zenon
<1>3. QED
  BY <1>1, <1>2 DEF Visits, Ascends

\* The walk ends, and comes upon no bucket twice.
LEMMA WalkDistinct ==
    ASSUME NEW s \in States, NEW U \in SUBSET Indices, NEW rank \in [Indices -> Nat],
           Linked(s, U, rank), NEW h \in Hashes, NEW w, Walks(w, s, h),
           NEW n \in 0 .. NumBuckets, NEW m \in 0 .. NumBuckets, w[n] # Null, w[m] = w[n]
    PROVE  m = n
<1>1. Visits(w, s, U, h) /\ Ascends(w, rank)
  BY WalkOrder, Zenon
<1>2. w[n] \in U
  BY <1>1 DEF Visits
<1>3. rank[w[n]] \in Nat
  BY <1>2
<1>4. ~(m < n) /\ ~(n < m)
  BY <1>1, <1>3 DEF Ascends
<1>5. QED
  BY <1>4, Sizes

LEMMA WalkEnds ==
    ASSUME NEW s \in States, NEW U \in SUBSET Indices, NEW rank \in [Indices -> Nat],
           Linked(s, U, rank), NEW h \in Hashes, NEW w, Walks(w, s, h)
    PROVE  w[NumBuckets] = Null
<1> SUFFICES ASSUME w[NumBuckets] # Null PROVE FALSE
  OBVIOUS
<1>1. /\ NumBuckets \in 0 .. NumBuckets
      /\ \A m \in 0 .. NumBuckets : m < NumBuckets => w[m] # Null
  <2>1. NumBuckets \in 0 .. NumBuckets
    BY Sizes
  <2>2. Ascends(w, rank)
    BY WalkOrder, Zenon
  <2>3. QED
    BY <2>1, <2>2 DEF Ascends
<1>2. ASSUME NEW n \in 0 .. NumBuckets PROVE w[n] # Null /\ w[n] \in Indices
  <2>1. w[n] # Null
    <3>1. CASE n = NumBuckets
      BY <3>1
    <3>2. CASE n < NumBuckets
      BY <1>1, <3>2
    <3>3. QED
      BY <3>1, <3>2, Sizes
  <2>2. Visits(w, s, U, h)
    BY WalkOrder, Zenon
  <2>3. QED
    BY <2>1, <2>2 DEF Visits
<1>3. w \in [0 .. NumBuckets -> Indices]
  BY <1>2 DEF Walks
<1>4. /\ IsFiniteSet(0 .. NumBuckets) /\ Cardinality(0 .. NumBuckets) = NumBuckets + 1
      /\ IsFiniteSet(Indices) /\ Cardinality(Indices) = NumBuckets
  BY Sizes, FS_Interval DEF Indices
<1>5. Cardinality(Indices) < Cardinality(0 .. NumBuckets)
  BY <1>4, Sizes
<1>6. PICK m \in 0 .. NumBuckets, n \in 0 .. NumBuckets : m # n /\ w[m] = w[n]
  BY <1>3, <1>4, <1>5, FS_PigeonHole, ZenonT(40)
<1>7. QED
  BY <1>2, <1>6, WalkDistinct

\* It comes upon every bucket of the chain.
LEMMA WalkReaches ==
    ASSUME NEW s \in States, NEW U \in SUBSET Indices, NEW rank \in [Indices -> Nat],
           Linked(s, U, rank), NEW h \in Hashes, NEW w, Walks(w, s, h),
           NEW i \in U, s.b[i].hash = h
    PROVE  \E n \in 0 .. NumBuckets : w[n] = i
<1> DEFINE Reached == {w[n] : n \in 0 .. NumBuckets}
           Missed == {j \in U : s.b[j].hash = h /\ j \notin Reached}
           Ranks == {rank[j] : j \in Missed}
<1>1. SUFFICES ASSUME Missed # {} PROVE FALSE
  OBVIOUS
<1>2. PICK k \in Ranks : \A l \in Ranks : k <= l
  <2>1. Ranks \in SUBSET Nat /\ Ranks # {}
    BY <1>1
  <2> HIDE DEF Ranks
  <2>2. QED
    BY <2>1, LeastIn
<1>3. PICK j \in Missed : k = rank[j]
  OBVIOUS
<1>4. /\ j \in U /\ j \in Indices /\ j # Null /\ s.b[j].hash = h /\ j \notin Reached
      /\ rank[j] \in Nat
  BY <1>3, Sizes
<1>5. s.b[j].prev # Null
  <2>1. w[0] = s.heads[h] /\ 0 \in 0 .. NumBuckets
    BY Sizes DEF Walks
  <2>2. QED
    BY <1>4, <2>1 DEF Linked
<1> DEFINE p == s.b[j].prev
<1>6. Precedes(s, U, rank, p, j)
  BY <1>4, <1>5 DEF Linked
<1>7. p \in U /\ s.b[p].hash = h /\ s.b[p].next = j /\ rank[p] < rank[j] /\ rank[p] \in Nat
      /\ p # Null
  BY <1>4, <1>5, <1>6 DEF Precedes
<1> HIDE DEF p
<1>8. p \in Reached
  <2>1. p \notin Missed
    <3>1. ASSUME p \in Missed PROVE FALSE
      <4>1. rank[p] \in Ranks
        BY <3>1
      <4>2. QED
        BY <1>2, <1>3, <1>4, <1>7, <4>1
    <3>2. QED
      BY <3>1
  <2>2. QED
    BY <1>7, <2>1
<1>9. PICK n \in 0 .. NumBuckets : w[n] = p
  BY <1>8
<1>10. n + 1 \in 1 .. NumBuckets
  <2>1. n # NumBuckets
    BY <1>7, <1>9, WalkEnds
  <2>2. QED
    BY <2>1, Sizes
<1>11. w[n + 1] = j
  <2>1. w[(n + 1)] = IF w[(n + 1) - 1] = Null THEN Null ELSE s.b[w[(n + 1) - 1]].next
    BY <1>10 DEF Walks
  <2>2. (n + 1) - 1 = n
    BY <1>9
  <2>3. QED
    BY <1>7, <1>9, <2>1, <2>2
<1>12. n + 1 \in 0 .. NumBuckets
  BY <1>10
<1>13. QED
  BY <1>4, <1>11, <1>12

-----------------------------------------------------------------------------
\* Whole chains.

LEMMA NowFields ==
    /\ Now.b = buckets /\ Now.heads = bucketHashes
    /\ InUse(buckets) = Used /\ Used \in SUBSET Indices
BY DEF Now, InUse, Used

LEMMA ChainWhole ==
    ASSUME IInv, NEW h \in Hashes, NEW node, Walks(node, Now, h)
    PROVE  LET members == {i \in Used : HashOf[buckets[i].address] = h}
               last == Cardinality(members) - 1
           IN  /\ {node[n] : n \in 0 .. last} = members
               /\ node[last + 1] = Null
               /\ \A n \in 0 .. last :
                   /\ buckets[node[n]].prev = IF n = 0 THEN Null ELSE node[n - 1]
                   /\ buckets[node[n]].hash = h
<1> DEFINE members == {i \in Used : HashOf[buckets[i].address] = h}
           last == Cardinality(members) - 1
<1>1. /\ Now \in States /\ Now.b = buckets /\ Filed(buckets) /\ Used \in SUBSET Indices
      /\ InUse(buckets) = Used
  BY NowFields DEF IInv, Right
<1>2. PICK rank \in [Indices -> Nat] : Linked(Now, Used, rank)
  BY <1>1 DEF IInv, Right, Chained
<1>3. members = {i \in Used : buckets[i].hash = h}
  BY <1>1 DEF Filed
<1> DEFINE Ends == {n \in 0 .. NumBuckets : node[n] = Null}
<1>4. PICK k \in Ends : \A n \in Ends : k <= n
  <2>1. Ends \in SUBSET Nat /\ NumBuckets \in Ends
    BY <1>1, <1>2, WalkEnds, Sizes
  <2> HIDE DEF Ends
  <2>2. QED
    BY <2>1, LeastIn
<1>5. /\ k \in 0 .. NumBuckets /\ node[k] = Null
      /\ \A n \in 0 .. NumBuckets : n < k <=> node[n] # Null
  <2>1. \A n \in 0 .. NumBuckets : n < k => node[n] # Null
    BY <1>4, Sizes
  <2>2. \A n \in 0 .. NumBuckets : node[n] # Null => n < k
    <3>1. Ascends(node, rank)
      BY <1>1, <1>2, WalkOrder, Zenon
    <3>2. k \in 0 .. NumBuckets /\ node[k] = Null
      BY <1>4
    <3>3. QED
      BY <3>1, <3>2, Sizes DEF Ascends
  <2>3. QED
    BY <1>4, <2>1, <2>2
<1>6. \A n \in 0 .. (k - 1) : n \in 0 .. NumBuckets /\ node[n] # Null
  BY <1>5, Sizes
<1>7. \A n \in 0 .. (k - 1) :
          /\ node[n] \in members
          /\ buckets[node[n]].prev = IF n = 0 THEN Null ELSE node[n - 1]
          /\ buckets[node[n]].hash = h
  <2>1. Visits(node, Now, Used, h)
    BY <1>1, <1>2, WalkOrder, Zenon
  <2> HIDE DEF members
  <2>2. QED
    BY <1>1, <1>3, <1>6, <2>1 DEF Visits
<1>8. \A i \in members : \E n \in 0 .. (k - 1) : node[n] = i
  <2>1. SUFFICES ASSUME NEW i \in members PROVE \E n \in 0 .. (k - 1) : node[n] = i
    OBVIOUS
  <2>2. i \in Used /\ Now.b[i].hash = h
    BY <1>1, <1>3
  <2>3. PICK n \in 0 .. NumBuckets : node[n] = i
    BY <1>1, <1>2, <2>2, WalkReaches
  <2>4. i # Null
    BY <1>1, <2>2, Sizes
  <2>5. n \in 0 .. (k - 1)
    BY <1>5, <2>3, <2>4
  <2>6. QED
    BY <2>3, <2>5
<1> HIDE DEF Ends, members
<1>9. Cardinality(members) = k
  <2> DEFINE f == [n \in 0 .. (k - 1) |-> node[n]]
  <2>1. f \in [0 .. (k - 1) -> members] /\ \A i \in members : \E n \in 0 .. (k - 1) : f[n] = i
    BY <1>7, <1>8
  <2>2. \A m, n \in 0 .. (k - 1) : f[m] = f[n] => m = n
    BY <1>1, <1>2, <1>6, WalkDistinct
  <2>3. IsFiniteSet(0 .. (k - 1)) /\ Cardinality(0 .. (k - 1)) = k
    BY <1>5, FS_Interval, Sizes
  <2> HIDE DEF f
  <2>4. f \in Bijection(0 .. (k - 1), members)
    BY <2>1, <2>2 DEF Bijection, Injection, Surjection, IsInjective
  <2>5. ExistsBijection(0 .. (k - 1), members)
    BY <2>4 DEF ExistsBijection
  <2>6. QED
    BY <2>3, <2>5, FS_Bijection
<1>10. last = k - 1 /\ last + 1 = k
  BY <1>5, <1>9
<1> HIDE DEF last
<1>11. {node[n] : n \in 0 .. last} = members
  BY <1>7, <1>8, <1>10
<1>12. QED
  BY <1>5, <1>7, <1>10, <1>11 DEF members, last

LEMMA WholeFollows == IInv => ChainsWhole
<1> SUFFICES ASSUME IInv PROVE ChainsWhole
  OBVIOUS
<1>1. Now \in States /\ Now.b = buckets /\ Now.heads = bucketHashes
  BY NowFields DEF IInv, Right
<1>2. TypeOK
  BY <1>1, StateFields DEF TypeOK, Nodes, IInv
<1>3. \A h \in Hashes : Walks(Walk(Now, h), Now, h)
  BY <1>1, WalkFields
<1>4. QED
  BY <1>2, <1>3, ChainWhole DEF ChainsWhole

-----------------------------------------------------------------------------
\* What the array says of the addresses.

LEMMA SameRight ==
    ASSUME NEW s \in States, NEW t \in States, SameContents(s, t), Filed(s.b)
    PROVE  InUse(t.b) = InUse(s.b) /\ Filed(t.b)
<1>1. \A x \in Indices : t.b[x].address = s.b[x].address /\ t.b[x].hash = s.b[x].hash
  BY DEF SameContents
<1>2. InUse(t.b) = InUse(s.b)
  BY <1>1 DEF InUse
<1>3. \A x \in InUse(s.b) : x \in Indices
  BY DEF InUse
<1>4. QED
  BY <1>1, <1>2, <1>3 DEF Filed

\* RelinkToHead changes no more than the order of a chain.
LEMMA Relinked ==
    ASSUME NEW s, Right(s), NEW i \in InUse(s.b), NEW h, h = s.b[i].hash
    PROVE  Right(RelinkToHead(s, i, h)) /\ SameContents(s, RelinkToHead(s, i, h))
<1> DEFINE U == InUse(s.b)
           u == UnlinkBucket(s, i)
           t == PushFront(u, i, h)
<1>1. s \in States /\ U \in SUBSET Indices /\ i \in Indices /\ h \in Hashes
  <2>1. s \in States /\ i \in Indices
    BY DEF Right, InUse
  <2>2. QED
    BY <2>1, StateFields DEF InUse
<1>2. PICK rank \in [Indices -> Nat] : Linked(s, U, rank)
  BY DEF Right, Chained
<1>3. CASE s.b[i].prev = Null
  <2>1. RelinkToHead(s, i, h) = s
    BY <1>3 DEF RelinkToHead
  <2>2. QED
    BY <2>1 DEF SameContents
<1>4. CASE s.b[i].prev # Null
  <2>1. RelinkToHead(s, i, h) = t
    BY <1>4, Zenon DEF RelinkToHead, UnlinkBucket
  <2>2. Unlinked(s, i, u)
    BY <1>1, UnlinkFields, Zenon
  <2> HIDE DEF u
  <2>3. u \in States /\ SameContents(s, u) /\ u.b[i].hash = h
    BY <1>1, <2>2 DEF Unlinked, SameContents
  <2> HIDE DEF U
  <2>4. Linked(u, U \ {i}, rank) /\ i \in U
    BY <1>1, <1>2, <2>2, UnlinkLinked DEF U
  <2>5. Pushed(u, i, h, t)
    BY <1>1, <2>3, PushFields, Zenon
  <2> HIDE DEF t
  <2>6. Chained(t, (U \ {i}) \cup {i})
    <3> DEFINE V == U \ {i}
    <3>1. V \in SUBSET Indices /\ i \notin V
      BY <1>1
    <3>2. Linked(u, V, rank)
      BY <2>4
    <3> HIDE DEF V
    <3>3. Chained(t, V \cup {i})
      BY <1>1, <2>3, <2>5, <3>1, <3>2, PushLinked
    <3>4. QED
      BY <3>3 DEF V
  <2>7. (U \ {i}) \cup {i} = U
    BY <2>4
  <2>8. t \in States /\ SameContents(s, t)
    BY <2>3, <2>5 DEF Pushed, SameContents
  <2>9. InUse(t.b) = U /\ Filed(t.b)
    BY <1>1, <2>8, SameRight DEF U, Right
  <2>10. Right(t)
    BY <2>6, <2>7, <2>8, <2>9 DEF Right
  <2>11. QED
    BY <2>1, <2>8, <2>10
<1>5. QED
  BY <1>3, <1>4

\* x is the table that the array b amounts to.
Shows(b, x) ==
    /\ DOMAIN x = {b[i].address : i \in InUse(b)}
    /\ x = [a \in DOMAIN x |-> x[a]]
    /\ \A i \in InUse(b) : x[b[i].address] = b[i].rate

LEMMA ShowsOne ==
    ASSUME NEW b, NEW x, NEW y, Shows(b, x), Shows(b, y)
    PROVE  x = y
<1>1. DOMAIN x = DOMAIN y
  BY DEF Shows
<1>2. \A a \in DOMAIN x : x[a] = y[a]
  BY DEF Shows
<1>3. x = [a \in DOMAIN x |-> x[a]] /\ y = [a \in DOMAIN y |-> y[a]]
  BY DEF Shows
<1>4. QED
  BY <1>1, <1>2, <1>3

LEMMA TableShown ==
    ASSUME Filed(buckets)
    PROVE  Shows(buckets, TableOf)
<1>1. Used = InUse(buckets)
  BY NowFields
<1> DEFINE A == {buckets[i].address : i \in Used}
           Of(a) == CHOOSE i \in Used : buckets[i].address = a
<1>2. TableOf = [a \in A |-> buckets[Of(a)].rate]
  BY Zenon DEF TableOf
<1>3. \A i \in Used : Of(buckets[i].address) = i
  BY <1>1 DEF Filed
<1> HIDE DEF Of
<1>4. DOMAIN TableOf = A /\ \A i \in Used : TableOf[buckets[i].address] = buckets[i].rate
  BY <1>2, <1>3
<1>5. TableOf = [a \in DOMAIN TableOf |-> TableOf[a]]
  BY <1>2
<1>6. QED
  BY <1>1, <1>4, <1>5 DEF Shows

LEMMA SameShown ==
    ASSUME NEW s \in States, NEW t \in States, SameContents(s, t), NEW x, Shows(s.b, x)
    PROVE  Shows(t.b, x)
<1>1. \A i \in Indices : t.b[i].address = s.b[i].address /\ t.b[i].rate = s.b[i].rate
  BY DEF SameContents
<1>2. InUse(t.b) = InUse(s.b) /\ InUse(s.b) \subseteq Indices
  BY <1>1 DEF InUse
<1>3. {t.b[i].address : i \in InUse(t.b)} = {s.b[i].address : i \in InUse(s.b)}
  BY <1>1, <1>2
<1>4. QED
  BY <1>1, <1>2, <1>3 DEF Shows

-----------------------------------------------------------------------------
\* A bucket that is changed, and one that is claimed.

LEMMA SameLinked ==
    ASSUME NEW s, NEW t, NEW U, NEW rank, Linked(s, U, rank), t.heads = s.heads,
           \A x \in U : /\ t.b[x].hash = s.b[x].hash
                        /\ t.b[x].next = s.b[x].next /\ t.b[x].prev = s.b[x].prev
    PROVE  Linked(t, U, rank)
<1>1. ASSUME NEW i, NEW j, Precedes(s, U, rank, i, j) PROVE Precedes(t, U, rank, i, j)
  BY <1>1 DEF Precedes
<1>2. ASSUME NEW i \in U
      PROVE  /\ t.b[i].prev = Null => t.heads[t.b[i].hash] = i
             /\ t.b[i].prev # Null => Precedes(t, U, rank, t.b[i].prev, i)
             /\ t.b[i].next # Null => Precedes(t, U, rank, i, t.b[i].next)
  <2>1. /\ s.b[i].prev = Null => s.heads[s.b[i].hash] = i
        /\ s.b[i].prev # Null => Precedes(s, U, rank, s.b[i].prev, i)
        /\ s.b[i].next # Null => Precedes(s, U, rank, i, s.b[i].next)
    BY DEF Linked
  <2>2. QED
    BY <1>1, <2>1
<1>3. ASSUME NEW h \in Hashes, t.heads[h] # Null
      PROVE  /\ t.heads[h] \in U
             /\ t.b[t.heads[h]].hash = h /\ t.b[t.heads[h]].prev = Null
  BY <1>3 DEF Linked
<1>4. QED
  BY <1>2, <1>3 DEF Linked

Restored(s, i, rate) == [b |-> [s.b EXCEPT ![i].rate = rate], heads |-> s.heads]

LEMMA Stored ==
    ASSUME NEW s, Right(s), NEW i \in InUse(s.b), NEW rate \in Bucket,
           NEW x, Shows(s.b, x)
    PROVE  /\ Right(Restored(s, i, rate))
           /\ Shows(Restored(s, i, rate).b, Table!With(x, s.b[i].address, rate))
<1> DEFINE node == [s.b[i] EXCEPT !.rate = rate]
           t == Restored(s, i, rate)
           U == InUse(s.b)
           a == s.b[i].address
           y == Table!With(x, a, rate)
<1>1. s \in States /\ Filed(s.b) /\ i \in Indices /\ U \in SUBSET Indices
  BY DEF Right, InUse
<1>2. s.b[i] \in Nodes /\ s.b \in [Indices -> Nodes]
  BY <1>1, StateFields
<1>3. node \in Nodes /\ node.rate = rate /\ node.address = a /\ node.hash = s.b[i].hash
      /\ node.next = s.b[i].next /\ node.prev = s.b[i].prev
  BY <1>2 DEF Nodes
<1>4. t = Entry(s, i, node)
  BY <1>2 DEF Restored, Entry
<1> HIDE DEF t, node
<1>5. /\ t \in States /\ t.heads = s.heads
      /\ \A j \in Indices : t.b[j] = IF j = i THEN node ELSE s.b[j]
  BY <1>1, <1>3, <1>4, EntryFields
<1>6. \A j \in Indices :
          /\ t.b[j].address = s.b[j].address /\ t.b[j].hash = s.b[j].hash
          /\ t.b[j].next = s.b[j].next /\ t.b[j].prev = s.b[j].prev
          /\ t.b[j].rate = IF j = i THEN rate ELSE s.b[j].rate
  BY <1>3, <1>5
<1>7. InUse(t.b) = U
  BY <1>6 DEF InUse
<1>8. Filed(t.b)
  <2>1. \A j \in U : j \in Indices
    BY <1>1
  <2> HIDE DEF U
  <2>2. /\ \A j \in U : t.b[j].hash = HashOf[t.b[j].address]
        /\ \A j, k \in U : t.b[j].address = t.b[k].address => j = k
    BY <1>1, <1>6, <2>1 DEF Filed, U
  <2>3. QED
    BY <1>7, <2>2 DEF Filed
<1>9. PICK rank \in [Indices -> Nat] : Linked(s, U, rank)
  BY DEF Right, Chained
<1>10. Linked(t, U, rank)
  BY <1>1, <1>5, <1>6, <1>9, SameLinked
<1>11. Right(t)
  BY <1>5, <1>7, <1>8, <1>10 DEF Right, Chained
<1>12. DOMAIN x = {s.b[j].address : j \in U} /\ \A j \in U : x[s.b[j].address] = s.b[j].rate
       /\ x = [c \in DOMAIN x |-> x[c]]
  BY DEF Shows
<1>13. a \in DOMAIN x
  BY <1>12
<1>14. /\ DOMAIN y = DOMAIN x /\ y = [c \in DOMAIN y |-> y[c]]
       /\ \A c \in DOMAIN x : y[c] = IF c = a THEN rate ELSE x[c]
  <2> HIDE DEF a
  <2>1. y = [x EXCEPT ![a] = rate]
    BY DEF Table!With
  <2>2. QED
    BY <1>12, <1>13, <2>1
<1>15. \A j \in U : s.b[j].address = a <=> j = i
  BY <1>1 DEF Filed
<1> HIDE DEF a, y, U
<1>16. {t.b[j].address : j \in U} = {s.b[j].address : j \in U}
  BY <1>1, <1>6
<1>17. \A j \in U : y[t.b[j].address] = t.b[j].rate
  BY <1>1, <1>6, <1>12, <1>14, <1>15
<1>18. Shows(t.b, y)
  BY <1>7, <1>12, <1>14, <1>16, <1>17 DEF Shows
<1>19. QED
  BY <1>11, <1>18 DEF t, y, a

Claimed(s, i, a) ==
    [s EXCEPT !.b[i].address = a, !.b[i].hash = HashOf[a], !.b[i].rate = NewBucket]

LEMMA ClaimFields ==
    ASSUME NEW s \in States, NEW i \in Indices, NEW a \in Addresses
    PROVE  LET t == Claimed(s, i, a) IN
           /\ t \in States /\ t.heads = s.heads
           /\ \A x \in Indices :
                /\ t.b[x].address = IF x = i THEN a ELSE s.b[x].address
                /\ t.b[x].hash = IF x = i THEN HashOf[a] ELSE s.b[x].hash
                /\ t.b[x].rate = IF x = i THEN NewBucket ELSE s.b[x].rate
                /\ t.b[x].next = s.b[x].next /\ t.b[x].prev = s.b[x].prev
<1> DEFINE n0 == s.b[i]
           node == [address |-> a, hash |-> HashOf[a], next |-> n0.next, prev |-> n0.prev,
                    rate |-> NewBucket]
<1>1. n0 \in Nodes /\ s.b \in [Indices -> Nodes]
  BY StateFields
<1>2. HashOf[a] \in Hashes /\ NewBucket \in Bucket
  <2>1. Old \in Nat /\ Burst * MaxToxic \in Nat /\ MaxToxic \in Nat
    BY RateAssumption DEF Old
  <2>2. QED
    BY <2>1, Sizes DEF NewBucket, Bucket
<1>3. node \in Nodes
  BY <1>1, <1>2 DEF Nodes
<1>4. [n0 EXCEPT !.address = a, !.hash = HashOf[a], !.rate = NewBucket] = node
  <2> DEFINE n1 == [n0 EXCEPT !.address = a]
             n2 == [n1 EXCEPT !.hash = HashOf[a]]
             n3 == [n2 EXCEPT !.rate = NewBucket]
  <2> HIDE DEF n0
  <2>1. n0 = [address |-> n0.address, hash |-> n0.hash, next |-> n0.next, prev |-> n0.prev,
              rate |-> n0.rate]
    BY <1>1 DEF Nodes
  <2>2. n1 = [address |-> a, hash |-> n0.hash, next |-> n0.next, prev |-> n0.prev, rate |-> n0.rate]
    BY <2>1
  <2> HIDE DEF n1
  <2>3. n2 = [address |-> a, hash |-> HashOf[a], next |-> n0.next, prev |-> n0.prev,
              rate |-> n0.rate]
    BY <2>2
  <2> HIDE DEF n2
  <2>4. n3 = node
    BY <2>3
  <2>5. QED
    BY <2>4 DEF n1, n2
<1>5. Claimed(s, i, a) = Entry(s, i, node)
  <2> DEFINE n1 == [n0 EXCEPT !.address = a]
             n2 == [n1 EXCEPT !.hash = HashOf[a]]
             n3 == [n2 EXCEPT !.rate = NewBucket]
             s1 == [s EXCEPT !.b[i].address = a]
             s2 == [s1 EXCEPT !.b[i].hash = HashOf[a]]
             s3 == [s2 EXCEPT !.b[i].rate = NewBucket]
  <2>1. Claimed(s, i, a) = s3
    BY DEF Claimed
  <2>2. n3 = node
    BY <1>4
  <2>3. s = [b |-> s.b, heads |-> s.heads] /\ DOMAIN s.b = Indices
    BY <1>1 DEF States
  <2> HIDE DEF node
  <2>4. s1 = Entry(s, i, n1) /\ DOMAIN s1.b = Indices /\ s1.b[i] = n1
    BY <2>3 DEF Entry
  <2> HIDE DEF s1, n1
  <2>5. s2 = Entry(s, i, n2) /\ DOMAIN s2.b = Indices /\ s2.b[i] = n2
    BY <2>3, <2>4 DEF Entry
  <2> HIDE DEF s2, n2
  <2>6. s3 = Entry(s, i, n3)
    BY <2>3, <2>5 DEF Entry
  <2>7. QED
    BY <2>1, <2>2, <2>6
<1>6. /\ node.address = a /\ node.hash = HashOf[a] /\ node.rate = NewBucket
      /\ node.next = s.b[i].next /\ node.prev = s.b[i].prev
  OBVIOUS
<1> HIDE DEF node
<1>7. QED
  BY <1>3, <1>5, <1>6, EntryFields

\* What the lookup that allocates bucket i for a has done.
Allocates(a, i, r) ==
    /\ r.bucket = i /\ r.start = i % NumBuckets
    /\ Right(r.s) /\ i \in InUse(r.s.b) /\ r.s.b[i].address = a
    /\ Shows(r.s.b, Table!Replacing(IF i \in Used THEN {buckets[i].address} ELSE {}, a))

LEMMA AllocatedRight ==
    ASSUME IInv, NEW a \in Addresses, a \notin {buckets[x].address : x \in Used},
           NEW i \in Indices
    PROVE  Allocates(a, i, Allocated(a, i))
<1> DEFINE V == Used \ {i}
           h == HashOf[a]
           unlinked == IF buckets[i].address = NoAddress THEN Now ELSE UnlinkBucket(Now, i)
           claimed == Claimed(unlinked, i, a)
           t == PushFront(claimed, i, h)
           gone == IF i \in Used THEN {buckets[i].address} ELSE {}
           y == Table!Replacing(gone, a)
<1>1. /\ Now \in States /\ Now.b = buckets /\ Filed(buckets) /\ Used \in SUBSET Indices
      /\ InUse(buckets) = Used /\ h \in Hashes /\ V \in SUBSET Indices /\ i \notin V
  BY NowFields, Sizes DEF IInv, Right
<1>2. PICK rank \in [Indices -> Nat] : Linked(Now, Used, rank)
  BY <1>1 DEF IInv, Right, Chained
<1>3. Allocated(a, i) = [s |-> t, bucket |-> i, start |-> i % NumBuckets]
  BY Zenon DEF Allocated, Claimed
<1>4. unlinked \in States /\ SameContents(Now, unlinked) /\ Linked(unlinked, V, rank)
  <2>1. CASE i \notin Used
    <3>1. V = Used /\ unlinked = Now
      BY <1>1, <2>1 DEF Used
    <3>2. QED
      BY <1>1, <1>2, <3>1 DEF SameContents
  <2>2. CASE i \in Used
    <3>1. unlinked = UnlinkBucket(Now, i)
      BY <2>2 DEF Used
    <3> DEFINE u == UnlinkBucket(Now, i)
    <3>2. Unlinked(Now, i, u)
      BY <1>1, UnlinkFields, Zenon
    <3> HIDE DEF u, unlinked
    <3>3. Linked(u, V, rank)
      BY <1>1, <1>2, <2>2, <3>2, UnlinkLinked
    <3>4. u = unlinked
      BY <3>1 DEF u
    <3>5. QED
      BY <3>2, <3>3, <3>4 DEF Unlinked
  <2>3. QED
    BY <2>1, <2>2
<1> HIDE DEF unlinked
<1>5. /\ claimed \in States /\ claimed.heads = unlinked.heads
      /\ \A x \in Indices :
            /\ claimed.b[x].address = IF x = i THEN a ELSE unlinked.b[x].address
            /\ claimed.b[x].hash = IF x = i THEN h ELSE unlinked.b[x].hash
            /\ claimed.b[x].rate = IF x = i THEN NewBucket ELSE unlinked.b[x].rate
            /\ claimed.b[x].next = unlinked.b[x].next /\ claimed.b[x].prev = unlinked.b[x].prev
  BY <1>4, ClaimFields
<1> HIDE DEF claimed, h
<1>6. Linked(claimed, V, rank)
  <2>1. \A x \in V : /\ claimed.b[x].hash = unlinked.b[x].hash
                     /\ claimed.b[x].next = unlinked.b[x].next
                     /\ claimed.b[x].prev = unlinked.b[x].prev
    BY <1>1, <1>5
  <2> HIDE DEF V
  <2>2. QED
    BY <1>4, <1>5, <2>1, SameLinked
<1>7. Pushed(claimed, i, h, t)
  BY <1>1, <1>5, PushFields, Zenon
<1> HIDE DEF t
<1>8. Chained(t, V \cup {i})
  <2> HIDE DEF V
  <2>1. h = claimed.b[i].hash
    BY <1>5
  <2>2. QED
    BY <1>1, <1>5, <1>6, <1>7, <2>1, PushLinked
<1>9. /\ t \in States
      /\ \A x \in Indices :
            /\ t.b[x].address = IF x = i THEN a ELSE buckets[x].address
            /\ t.b[x].hash = IF x = i THEN h ELSE buckets[x].hash
            /\ t.b[x].rate = IF x = i THEN NewBucket ELSE buckets[x].rate
  BY <1>1, <1>4, <1>5, <1>7 DEF Pushed, SameContents
<1>10. a # NoAddress
  BY Sizes
<1>11. InUse(t.b) = V \cup {i}
  BY <1>9, <1>10 DEF InUse, Used
<1>12. \A x \in V : x \in Indices /\ x \in Used /\ x # i
  BY <1>1
<1>13. \A x \in V : buckets[x].address # a
  OBVIOUS
<1>14. Filed(t.b)
  <2>1. /\ \A x \in Used : buckets[x].hash = HashOf[buckets[x].address]
        /\ \A x, z \in Used : buckets[x].address = buckets[z].address => x = z
    BY <1>1 DEF Filed
  <2> HIDE DEF V
  <2>2. \A x \in V \cup {i} : t.b[x].hash = HashOf[t.b[x].address]
    BY <1>9, <1>12, <2>1 DEF h
  <2>3. \A x, z \in V \cup {i} : t.b[x].address = t.b[z].address => x = z
    BY <1>9, <1>12, <1>13, <2>1
  <2>4. QED
    BY <1>11, <2>2, <2>3 DEF Filed
<1>15. Right(t)
  BY <1>8, <1>9, <1>11, <1>14 DEF Right
<1>16. /\ DOMAIN TableOf = {buckets[x].address : x \in Used}
       /\ \A x \in Used : TableOf[buckets[x].address] = buckets[x].rate
  BY <1>1, TableShown DEF Shows
<1>17. /\ DOMAIN y = (DOMAIN TableOf \ gone) \cup {a} /\ y = [x \in DOMAIN y |-> y[x]]
       /\ \A x \in DOMAIN y : y[x] = IF x = a THEN NewBucket ELSE TableOf[x]
  <2> HIDE DEF gone
  <2>1. QED
    BY DEF Table!Replacing, Table!NewBucket, NewBucket
<1> HIDE DEF y
<1>18. (DOMAIN TableOf \ gone) \cup {a} = {t.b[x].address : x \in V \cup {i}}
  <2>1. DOMAIN TableOf \ gone = {buckets[x].address : x \in V}
    <3>1. CASE i \in Used
      <4>1. \A x \in Used : buckets[x].address = buckets[i].address <=> x = i
        BY <1>1, <3>1 DEF Filed
      <4>2. QED
        BY <1>16, <3>1, <4>1
    <3>2. CASE i \notin Used
      <4>1. V = Used /\ gone = {}
        BY <3>2
      <4>2. QED
        BY <1>16, <4>1
    <3>3. QED
      BY <3>1, <3>2
  <2>2. \A x \in V : t.b[x].address = buckets[x].address
    BY <1>9, <1>12
  <2>3. t.b[i].address = a
    BY <1>9
  <2> HIDE DEF V, gone
  <2>4. QED
    BY <2>1, <2>2, <2>3
<1>19. \A x \in V \cup {i} : y[t.b[x].address] = t.b[x].rate
  <2>1. t.b[i].address = a /\ t.b[i].rate = NewBucket /\ y[a] = NewBucket
    BY <1>9, <1>17
  <2>2. ASSUME NEW x \in V PROVE y[t.b[x].address] = t.b[x].rate
    <3>1. t.b[x].address = buckets[x].address /\ t.b[x].rate = buckets[x].rate /\ x \in Used
      BY <1>9, <1>12
    <3>2. t.b[x].address \in DOMAIN y
      BY <1>17, <1>18
    <3>3. QED
      BY <1>13, <1>16, <1>17, <3>1, <3>2
  <2>3. QED
    BY <2>1, <2>2
<1>20. Shows(t.b, y)
  BY <1>11, <1>17, <1>18, <1>19 DEF Shows
<1>21. t.b[i].address = a /\ i \in InUse(t.b)
  BY <1>9, <1>11
<1>22. QED
  BY <1>3, <1>15, <1>20, <1>21 DEF Allocates, y

-----------------------------------------------------------------------------
\* The two loops of the lookup.

LEMMA FirstIn ==
    ASSUME NEW S \in SUBSET Nat, S # {}
    PROVE  First(S) \in S
<1>1. \E k \in S : \A j \in S : k <= j
  BY LeastIn
<1>2. QED
  BY <1>1 DEF First

LEMMA DepthsFound ==
    ASSUME IInv, NEW a \in Addresses
    PROVE  /\ DepthsOf(a) \in SUBSET Nat
           /\ \A n \in DepthsOf(a) :
                Walk(Now, HashOf[a])[n] \in Used /\ buckets[Walk(Now, HashOf[a])[n]].address = a
           /\ DepthsOf(a) = {} => a \notin {buckets[x].address : x \in Used}
<1> DEFINE h == HashOf[a]
           node == Walk(Now, h)
<1>1. /\ Now \in States /\ Now.b = buckets /\ Filed(buckets) /\ Used \in SUBSET Indices
      /\ InUse(buckets) = Used /\ h \in Hashes
  BY NowFields, Sizes DEF IInv, Right
<1>2. PICK rank \in [Indices -> Nat] : Linked(Now, Used, rank)
  BY <1>1 DEF IInv, Right, Chained
<1>3. DepthsOf(a) = {n \in 0 .. NumBuckets : node[n] # Null /\ buckets[node[n]].address = a}
  BY Zenon DEF DepthsOf
<1>4. Walks(node, Now, h)
  BY <1>1, WalkFields
<1> HIDE DEF node, h
<1>5. Visits(node, Now, Used, h)
  BY <1>1, <1>2, <1>4, WalkOrder, Zenon
<1>6. DepthsOf(a) \in SUBSET Nat
  BY <1>3, Sizes
<1>7. \A n \in DepthsOf(a) : node[n] \in Used /\ buckets[node[n]].address = a
  BY <1>3, <1>5 DEF Visits
<1>8. ASSUME NEW x \in Used, buckets[x].address = a PROVE DepthsOf(a) # {}
  <2>1. Now.b[x].hash = h /\ x # Null
    BY <1>1, <1>8, Sizes DEF Filed, h
  <2>2. PICK n \in 0 .. NumBuckets : node[n] = x
    BY <1>1, <1>2, <1>4, <2>1, WalkReaches
  <2>3. n \in DepthsOf(a)
    BY <1>3, <1>8, <2>1, <2>2
  <2>4. QED
    BY <2>3
<1>9. QED
  BY <1>6, <1>7, <1>8 DEF node, h

\* Remainders of what is less than twice the divisor.
LEMMA Modulo ==
    ASSUME NEW d \in Nat \ {0}, NEW x \in 0 .. d - 1
    PROVE  x % d = x /\ (x + d) % d = x
<1>1. x % d = x
  OBVIOUS
<1>2. (x + d) % d = x
  OBVIOUS
<1>3. QED
  BY <1>1, <1>2

\* The search for a bucket to claim comes by every one.
LEMMA Scans ==
    ASSUME start \in 0 .. NumBuckets - 1
    PROVE  /\ \A k \in 0 .. NumBuckets - 1 : Scanned(k) \in Indices
           /\ \A i \in Indices : \E k \in 0 .. NumBuckets - 1 : Scanned(k) = i
<1>1. NumBuckets \in Nat \ {0} /\ start \in Nat
  BY Sizes
<1>2. ASSUME NEW k \in 0 .. NumBuckets - 1 PROVE Scanned(k) \in Indices
  <2>1. start + k \in Nat
    BY <1>1
  <2>2. (start + k) % NumBuckets \in 0 .. NumBuckets - 1
    BY <1>1, <2>1
  <2>3. QED
    BY <1>1, <2>2 DEF Scanned, Indices
<1>3. ASSUME NEW i \in Indices PROVE \E k \in 0 .. NumBuckets - 1 : Scanned(k) = i
  <2>1. i - 1 \in 0 .. NumBuckets - 1 /\ i \in Nat
    BY <1>1 DEF Indices
  <2>2. CASE start <= i - 1
    <3>1. /\ i - 1 - start \in 0 .. NumBuckets - 1
          /\ start + (i - 1 - start) = i - 1 /\ 1 + (i - 1) = i
      BY <1>1, <2>1, <2>2
    <3>2. (i - 1) % NumBuckets = i - 1
      BY <1>1, <2>1, Modulo
    <3>3. Scanned(i - 1 - start) = i
      BY <3>1, <3>2 DEF Scanned
    <3>4. QED
      BY <3>1, <3>3
  <2>3. CASE ~(start <= i - 1)
    <3>1. /\ i - 1 - start + NumBuckets \in 0 .. NumBuckets - 1
          /\ start + (i - 1 - start + NumBuckets) = (i - 1) + NumBuckets /\ 1 + (i - 1) = i
      BY <1>1, <2>1, <2>3
    <3>2. ((i - 1) + NumBuckets) % NumBuckets = i - 1
      BY <1>1, <2>1, Modulo
    <3>3. Scanned(i - 1 - start + NumBuckets) = i
      BY <3>1, <3>2 DEF Scanned
    <3>4. QED
      BY <3>1, <3>3
  <2>4. QED
    BY <2>2, <2>3
<1>4. QED
  BY <1>2, <1>3

\* There are as many addresses with a bucket as there are buckets in use.
LEMMA TableSize ==
    ASSUME IInv
    PROVE  /\ Cardinality(DOMAIN TableOf) = Cardinality(Used)
           /\ Used = Indices => Cardinality(Used) = NumBuckets
           /\ Used # Indices => Cardinality(Used) < NumBuckets
<1>1. Filed(buckets) /\ Used \in SUBSET Indices /\ InUse(buckets) = Used
  BY NowFields DEF IInv, Right
<1>2. IsFiniteSet(Indices) /\ Cardinality(Indices) = NumBuckets
  BY Sizes, FS_Interval DEF Indices
<1>3. IsFiniteSet(Used) /\ Cardinality(Used) \in Nat
  BY <1>1, <1>2, FS_Subset, FS_CardinalityType
<1>4. Cardinality(DOMAIN TableOf) = Cardinality(Used)
  <2> DEFINE f == [i \in Used |-> buckets[i].address]
  <2>1. DOMAIN TableOf = {buckets[i].address : i \in Used}
    BY <1>1, TableShown DEF Shows
  <2>2. f \in [Used -> DOMAIN TableOf] /\ \A x \in DOMAIN TableOf : \E i \in Used : f[i] = x
    BY <2>1
  <2>3. \A i, j \in Used : f[i] = f[j] => i = j
    BY <1>1 DEF Filed
  <2> HIDE DEF f
  <2>4. f \in Bijection(Used, DOMAIN TableOf)
    BY <2>2, <2>3 DEF Bijection, Injection, Surjection, IsInjective
  <2>5. ExistsBijection(Used, DOMAIN TableOf)
    BY <2>4 DEF ExistsBijection
  <2>6. QED
    BY <1>3, <2>5, FS_Bijection
<1>5. Used # Indices => Cardinality(Used) < NumBuckets
  <2>1. /\ Cardinality(Used) <= Cardinality(Indices)
        /\ Cardinality(Indices) = Cardinality(Used) => Indices = Used
    BY <1>1, <1>2, FS_Subset, Zenon
  <2>2. QED
    BY <1>2, <1>3, <2>1, Sizes
<1>6. QED
  BY <1>2, <1>4, <1>5

-----------------------------------------------------------------------------
\* The lookup.  There is no bucket, or it is of a; the table has become one that
\* RateLimits allows, and the chains are right.

Looks(a, r, x) ==
    \/ r.bucket = Null /\ x = TableOf /\ a \notin DOMAIN TableOf
    \/ /\ r.bucket \in InUse(r.s.b) /\ r.s.b[r.bucket].address = a
       /\ Right(r.s) /\ r.start \in 0 .. NumBuckets - 1
       /\ Shows(r.s.b, x)

LEMMA FoundLooks ==
    ASSUME IInv, NEW a \in Addresses, DepthsOf(a) # {}
    PROVE  /\ Looks(a, Found(a, First(DepthsOf(a))), TableOf)
           /\ TableOf \in Table!BucketForAddress(a)
<1> DEFINE n == First(DepthsOf(a))
           i == Walk(Now, HashOf[a])[n]
           s == IF n > RelinkAfter THEN RelinkToHead(Now, i, HashOf[a]) ELSE Now
<1>1. /\ Now \in States /\ Now.b = buckets /\ Filed(buckets) /\ Used \in SUBSET Indices
      /\ InUse(buckets) = Used /\ Right(Now) /\ start \in 0 .. NumBuckets - 1
  BY NowFields DEF IInv, Right
<1>2. DepthsOf(a) \in SUBSET Nat
  BY DepthsFound
<1>3. n \in DepthsOf(a)
  BY <1>2, FirstIn
<1>4. i \in Used /\ buckets[i].address = a
  BY <1>3, DepthsFound
<1>5. Found(a, n) = [s |-> s, bucket |-> i, start |-> start]
  BY Zenon DEF Found
<1> HIDE DEF n, i
<1>6. HashOf[a] = Now.b[i].hash
  BY <1>1, <1>4 DEF Filed
<1>7. Right(s) /\ SameContents(Now, s)
  <2>1. CASE n > RelinkAfter
    BY <1>1, <1>4, <1>6, <2>1, Relinked
  <2>2. CASE ~(n > RelinkAfter)
    <3>1. SameContents(Now, Now)
      BY DEF SameContents
    <3>2. QED
      BY <1>1, <2>2, <3>1
  <2>3. QED
    BY <2>1, <2>2
<1> HIDE DEF s
<1>8. s \in States /\ InUse(s.b) = Used /\ s.b[i].address = a
  BY <1>1, <1>4, <1>7, SameRight DEF Right, SameContents
<1>9. Shows(Now.b, TableOf)
  BY <1>1, TableShown
<1>10. Shows(s.b, TableOf)
  BY <1>1, <1>7, <1>8, <1>9, SameShown
<1>11. a \in DOMAIN TableOf
  BY <1>1, <1>4, <1>9 DEF Shows
<1>12. Looks(a, Found(a, n), TableOf)
  BY <1>1, <1>4, <1>5, <1>7, <1>8, <1>10 DEF Looks
<1>13. QED
  BY <1>11, <1>12 DEF n, Table!BucketForAddress

LEMMA SameCardinality == \A S : Table!Cardinality(S) = Cardinality(S)
BY Zenon DEF Table!Cardinality, Cardinality

LEMMA Allocatable ==
    ASSUME IInv, NEW a \in Addresses, NEW i \in Indices, Usable(i)
    PROVE  Table!Replacing(IF i \in Used THEN {buckets[i].address} ELSE {}, a)
               \in Table!Allocations(a)
<1>1. Filed(buckets) /\ InUse(buckets) = Used
  BY NowFields DEF IInv, Right
<1>2. DOMAIN TableOf = {buckets[x].address : x \in Used}
      /\ \A x \in Used : TableOf[buckets[x].address] = buckets[x].rate
  BY <1>1, TableShown DEF Shows
<1>3. CASE i \in Used
  <2> DEFINE x == buckets[i].address
  <2>1. x \in DOMAIN TableOf /\ TableOf[x] = buckets[i].rate
    BY <1>2, <1>3
  <2>2. Expired(buckets[i].rate)
    BY <1>3 DEF Usable, Used
  <2>3. Table!Expired(TableOf[x])
    BY <2>1, <2>2 DEF Expired, Table!Expired
  <2> HIDE DEF x
  <2>4. Table!Replacing({x}, a) \in Table!Allocations(a)
    BY <2>1, <2>3 DEF Table!Allocations
  <2>5. QED
    BY <1>3, <2>4 DEF x
<1>4. CASE i \notin Used
  <2>1. Cardinality(DOMAIN TableOf) < NumBuckets
    BY <1>4, TableSize
  <2>2. Table!Replacing({}, a) \in Table!Allocations(a)
    BY <2>1, SameCardinality DEF Table!Allocations
  <2>3. QED
    BY <1>4, <2>2
<1>5. QED
  BY <1>3, <1>4

LEMMA NoneAllocatable ==
    ASSUME IInv, NEW a \in Addresses, \A i \in Indices : ~Usable(i)
    PROVE  Table!Allocations(a) = {}
<1>1. Filed(buckets) /\ InUse(buckets) = Used /\ Used \in SUBSET Indices
  BY NowFields DEF IInv, Right
<1>2. DOMAIN TableOf = {buckets[x].address : x \in Used}
      /\ \A x \in Used : TableOf[buckets[x].address] = buckets[x].rate
  BY <1>1, TableShown DEF Shows
<1>3. \A x \in DOMAIN TableOf : ~Table!Expired(TableOf[x])
  BY <1>1, <1>2 DEF Usable, Expired, Table!Expired
<1>4. Used = Indices
  BY DEF Usable, Used
<1>5. ~(Cardinality(DOMAIN TableOf) < NumBuckets)
  BY <1>4, TableSize, Sizes
<1>6. QED
  BY <1>3, <1>5, SameCardinality DEF Table!Allocations

LEMMA LooksRight ==
    ASSUME IInv, NEW a \in Addresses
    PROVE  \E x \in Table!BucketForAddress(a) : Looks(a, BucketForAddress(a), x)
<1> DEFINE depths == DepthsOf(a)
           turns == Turns
           r == BucketForAddress(a)
<1>1. /\ Filed(buckets) /\ InUse(buckets) = Used /\ start \in 0 .. NumBuckets - 1
      /\ Used \in SUBSET Indices
  BY NowFields DEF IInv, Right
<1>2. /\ depths # {} => r = Found(a, First(depths))
      /\ depths = {} /\ turns # {} => r = Allocated(a, Scanned(First(turns)))
      /\ depths = {} /\ turns = {} => r = [s |-> Now, bucket |-> Null, start |-> start]
  BY Zenon DEF BucketForAddress
<1>0. SUFFICES \E x \in Table!BucketForAddress(a) : Looks(a, r, x)
  BY Zenon
<1> HIDE DEF r
<1>3. DOMAIN TableOf = {buckets[x].address : x \in Used}
  BY <1>1, TableShown DEF Shows
<1>4. CASE depths # {}
  <2>1. Looks(a, r, TableOf) /\ TableOf \in Table!BucketForAddress(a)
    BY <1>2, <1>4, FoundLooks
  <2>2. QED
    BY <2>1
<1>5. CASE depths = {} /\ turns # {}
  <2> DEFINE k == First(turns)
             i == Scanned(k)
             x == Table!Replacing(IF i \in Used THEN {buckets[i].address} ELSE {}, a)
  <2>1. a \notin {buckets[z].address : z \in Used}
    BY <1>5, DepthsFound
  <2>2. k \in 0 .. NumBuckets - 1 /\ Usable(i)
    <3>1. Turns \in SUBSET Nat
      BY DEF Turns
    <3>2. First(Turns) \in Turns
      BY <1>5, <3>1, FirstIn
    <3>3. QED
      BY <3>2 DEF Turns
  <2> HIDE DEF k
  <2>3. i \in Indices
    BY <1>1, <2>2, Scans
  <2>4. r = Allocated(a, i)
    BY <1>2, <1>5 DEF k
  <2> HIDE DEF i
  <2>5. Allocates(a, i, r)
    BY <2>1, <2>3, <2>4, AllocatedRight
  <2>6. x \in Table!Allocations(a)
    BY <2>2, <2>3, Allocatable
  <2>7. x \in Table!BucketForAddress(a)
    BY <1>3, <2>1, <2>6 DEF Table!BucketForAddress
  <2>8. i % NumBuckets \in 0 .. NumBuckets - 1
    BY <2>3, Sizes
  <2>9. Looks(a, r, x)
    BY <2>5, <2>8 DEF Allocates, Looks
  <2>10. QED
    BY <2>7, <2>9
<1>6. CASE depths = {} /\ turns = {}
  <2>1. a \notin DOMAIN TableOf
    BY <1>3, <1>6, DepthsFound
  <2>2. \A i \in Indices : ~Usable(i)
    <3>1. SUFFICES ASSUME NEW i \in Indices, Usable(i) PROVE Turns # {}
      BY <1>6
    <3>2. PICK k \in 0 .. NumBuckets - 1 : Scanned(k) = i
      BY <1>1, Scans
    <3>3. QED
      BY <3>1, <3>2 DEF Turns
  <2>3. TableOf \in Table!BucketForAddress(a)
    BY <2>2, NoneAllocatable DEF Table!BucketForAddress
  <2>4. Looks(a, r, TableOf)
    BY <1>2, <1>6, <2>1 DEF Looks
  <2>5. QED
    BY <2>3, <2>4
<1>7. QED
  BY <1>4, <1>5, <1>6

-----------------------------------------------------------------------------
\* The invariant of a bucket, beside what its address owes (d) and what is left of
\* its penalty (p). What an address owes is in its bucket, but for the rounding of
\* one period, and the bucket leaks no faster than the penalty passes.

Sound(d, p, b) ==
    /\ b \in Bucket
    /\ d < (Burst + 1) * Period
    /\ d > 0 => d + b.age < (b.burst + 1) * Period
    /\ p > 0 => b.age + p <= (b.burst - Burst + 1) * Period

LEMMA Positive ==
    /\ Burst \in Nat /\ Burst >= 1
    /\ Period \in Nat /\ Period >= 1
    /\ MaxToxic \in Nat /\ MaxToxic >= 1
  BY RateAssumption

LEMMA Distributes ==
    ASSUME NEW x \in Int, NEW y \in Int, NEW p \in Int
    PROVE  /\ (x + y) * p = x * p + y * p
           /\ (x - y) * p = x * p - y * p
           /\ x * p \in Int
  OBVIOUS

LEMMA Monotone ==
    ASSUME NEW x \in Int, NEW y \in Int, NEW p \in Nat, x <= y
    PROVE  x * p <= y * p
<1>1. PICK k \in Nat : y = x + k
  <2>1. y - x \in Nat /\ y = x + (y - x)
    OBVIOUS
  <2>2. QED
    BY <2>1
<1>2. y * p = x * p + k * p
  BY <1>1, Distributes
<1>3. k * p \in Nat
  OBVIOUS
<1>4. QED
  BY <1>2, <1>3, Distributes

LEMMA Division ==
    ASSUME NEW n \in Nat
    PROVE  /\ n \div Period \in Nat
           /\ n % Period \in 0 .. Period - 1
           /\ n = ((n \div Period) * Period) + (n % Period)
  BY Positive

LEMMA Bounds ==
    /\ Burst * MaxToxic \in Nat
    /\ Burst <= Burst * MaxToxic
    /\ Old \in Nat
    /\ Old = Burst * MaxToxic * Period + Period
    /\ Burst * Period \in Nat
    /\ Period <= Burst * Period
<1>1. Burst * MaxToxic \in Nat
  BY Positive
<1>2. 1 * Burst <= MaxToxic * Burst
  BY Positive, Monotone
<1>3. 1 * Period <= Burst * Period
  BY Positive, Monotone
<1>4. Burst * MaxToxic * Period \in Nat /\ Burst * Period \in Nat
  BY Positive, <1>1
<1>5. Old = Burst * MaxToxic * Period + 1 * Period
  BY Positive, <1>1, Distributes DEF Old
<1>6. QED
  BY Positive, <1>1, <1>2, <1>3, <1>4, <1>5

-----------------------------------------------------------------------------
\* Buckets.

\* Leaking keeps what is owed.
LEMMA LeakSound ==
    ASSUME NEW d \in Nat, NEW p \in Nat, NEW b, Sound(d, p, b)
    PROVE  Sound(d, p, Leaked(b))
<1> DEFINE expired == b.age \div Period
           remainder == b.age % Period
<1>1. b \in Bucket /\ b.burst \in 0 .. Burst * MaxToxic /\ b.age \in Nat
  BY Bounds DEF Sound, Bucket
<1>2. expired \in Nat /\ remainder \in 0 .. Period - 1 /\ b.age = expired * Period + remainder
  BY <1>1, Division
<1>3. Leaked(b) = IF expired > b.burst THEN [b EXCEPT !.burst = 0, !.age = 0]
                  ELSE [b EXCEPT !.burst = b.burst - expired, !.age = remainder]
  BY <1>1 DEF Leaked, Bucket
<1>4. 0 \in 0 .. Burst * MaxToxic /\ 0 \in 0 .. Old
  BY Bounds
<1> HIDE DEF expired, remainder
<1>5. CASE expired > b.burst
  <2>1. Leaked(b) = [b EXCEPT !.burst = 0, !.age = 0]
    BY <1>5, <1>3
  <2>2. Leaked(b) \in Bucket /\ Leaked(b).burst = 0 /\ Leaked(b).age = 0
    BY <1>1, <2>1, <1>4 DEF Bucket
  <2>3. (b.burst + 1) * Period <= expired * Period
    <3>1. b.burst + 1 <= expired /\ b.burst + 1 \in Int /\ expired \in Int
      BY <1>1, <1>2, <1>5
    <3>2. QED
      BY <3>1, Positive, Monotone
  <2>4. d = 0
    BY <1>1, <1>2, <2>3, Positive, Distributes DEF Sound
  <2>5. (b.burst - Burst + 1) * Period <= (b.burst + 1) * Period
    BY <1>1, Bounds, Positive, Monotone
  <2>6. p = 0
    <3>1. p > 0 => b.age + p <= (b.burst - Burst + 1) * Period
      BY DEF Sound
    <3>2. /\ (b.burst - Burst + 1) * Period \in Int
          /\ (b.burst + 1) * Period \in Int /\ expired * Period \in Int
      BY <1>1, <1>2, Positive
    <3>3. QED
      BY <1>1, <1>2, <2>3, <2>5, <3>1, <3>2
  <2>7. QED
    BY <2>2, <2>4, <2>6 DEF Sound
<1>6. CASE ~(expired > b.burst)
  <2>1. Leaked(b) = [b EXCEPT !.burst = b.burst - expired, !.age = remainder]
    BY <1>6, <1>3
  <2>2. remainder \in 0 .. Old
    <3>1. Burst * MaxToxic * Period \in Nat
      BY Bounds, Positive
    <3>2. QED
      BY <1>2, <3>1, Bounds, Positive
  <2>3. b.burst - expired \in 0 .. Burst * MaxToxic
    BY <1>1, <1>2, <1>6, Bounds
  <2>4. Leaked(b) \in Bucket /\ Leaked(b).burst = b.burst - expired /\ Leaked(b).age = remainder
    BY <1>1, <2>3, <2>1, <2>2 DEF Bucket
  <2>5. (b.burst - expired + 1) * Period = (b.burst + 1) * Period - expired * Period
    BY <1>1, <1>2, Bounds, Positive, Distributes
  <2>6. (b.burst - expired - Burst + 1) * Period = (b.burst - Burst + 1) * Period - expired * Period
    <3>1. b.burst - expired - Burst + 1 = (b.burst - Burst + 1) - expired
      BY <1>1, <1>2, Positive
    <3>2. b.burst - Burst + 1 \in Int
      BY <1>1, Positive
    <3>3. QED
      BY <1>2, <3>1, <3>2, Positive, Distributes
  <2>7. d > 0 => d + remainder < (b.burst - expired + 1) * Period
    BY <1>1, <1>2, <2>5, Positive, Distributes DEF Sound
  <2>8. p > 0 => remainder + p <= (b.burst - expired - Burst + 1) * Period
    BY <1>1, <1>2, <2>6, Positive, Distributes DEF Sound
  <2>9. QED
    BY <2>4, <2>7, <2>8 DEF Sound
<1>7. QED
  BY <1>5, <1>6

\* A bucket with a penalty is over its limit.
LEMMA PenaltyRefuses ==
    ASSUME NEW d \in Nat, NEW p \in Nat, NEW b, Sound(d, p, b), p > 0
    PROVE  ~Admits(b)
<1> DEFINE c == Leaked(b)
<1>1. Sound(d, p, c)
  BY LeakSound
<1>2. c.burst \in 0 .. Burst * MaxToxic /\ c.age \in Nat
  BY <1>1, Bounds DEF Sound, Bucket
<1>3. (c.burst - Burst + 1) * Period > 0
  BY <1>1, <1>2, Bounds, Positive, Distributes DEF Sound
<1>4. CASE c.burst < Burst
  <2>1. (c.burst - Burst + 1) * Period <= 0 * Period
    BY <1>2, <1>4, Bounds, Positive, Monotone
  <2>2. QED
    BY <1>2, <1>3, <2>1, Bounds, Positive, Distributes
<1>5. QED
  BY <1>4 DEF Admits

\* An admission is owed, and stays within the burst.
LEMMA AdmissionSound ==
    ASSUME NEW d \in Nat, NEW p \in Nat, NEW b, Sound(d, p, b), Admits(b)
    PROVE  Sound(d + Period, p, RateLimit(b))
<1> DEFINE c == Leaked(b)
<1>1. Sound(d, p, c) /\ p = 0
  BY LeakSound, PenaltyRefuses
<1>2. /\ c \in Bucket /\ c.burst \in 0 .. Burst * MaxToxic /\ c.age \in Nat
      /\ c.burst < Burst
  BY <1>1, Bounds DEF Sound, Bucket, Admits
<1>3. RateLimit(b) = [c EXCEPT !.burst = c.burst + 1]
  BY <1>2 DEF RateLimit, Bucket
<1>4. RateLimit(b) \in Bucket /\ RateLimit(b).burst = c.burst + 1 /\ RateLimit(b).age = c.age
  BY <1>2, <1>3, Bounds, Positive DEF Bucket
<1>5. (c.burst + 1 + 1) * Period = (c.burst + 1) * Period + Period
  BY <1>2, Bounds, Positive, Distributes
<1>6. (c.burst + 1) * Period <= Burst * Period /\ (Burst + 1) * Period = Burst * Period + Period
  BY <1>2, Bounds, Positive, Monotone, Distributes
<1>7. d < Burst * Period
  BY <1>1, <1>2, <1>6, Bounds, Positive, Distributes DEF Sound
<1>8. c.age < (c.burst + 1) * Period
  <2>1. CASE Leaked(b).age = 0
    <3>1. 1 * Period <= (c.burst + 1) * Period
      BY <1>2, Bounds, Positive, Monotone
    <3>2. QED
      BY <2>1, <3>1, <1>2, Positive, Distributes
  <2>2. CASE Leaked(b).age = b.age % Period
    <3>1. b.age \in Nat
      BY Bounds DEF Sound, Bucket
    <3>2. c.age < Period
      BY <2>2, <3>1, Division, Positive
    <3>3. 1 * Period <= (c.burst + 1) * Period
      BY <1>2, Bounds, Positive, Monotone
    <3>4. QED
      BY <3>2, <3>3, <1>2, Positive, Distributes
  <2>3. QED
    BY <2>1, <2>2 DEF Leaked, Sound, Bucket
<1>9. d + Period + c.age < (c.burst + 1 + 1) * Period
  BY <1>1, <1>2, <1>5, <1>8, Bounds, Positive, Distributes DEF Sound
<1>10. d + Period < (Burst + 1) * Period
  BY <1>6, <1>7, Bounds, Positive
<1>11. QED
  BY <1>1, <1>4, <1>9, <1>10 DEF Sound

\* A refusal only lets the bucket leak.
LEMMA RefusalSound ==
    ASSUME NEW d \in Nat, NEW p \in Nat, NEW b, Sound(d, p, b), ~Admits(b)
    PROVE  Sound(d, p, RateLimit(b))
  BY LeakSound DEF RateLimit

\* A burst that is given back was never taken.
LEMMA RestoreSound ==
    ASSUME NEW d \in Nat, NEW p \in Nat, NEW b, Sound(d, p, b), Admits(b)
    PROVE  Sound(d, p, RestoreBurst(RateLimit(b)))
<1> DEFINE c == Leaked(b)
<1>1. Sound(d, p, c)
  BY LeakSound
<1>2. c \in Bucket /\ c.burst \in Nat
  BY <1>1, Bounds DEF Sound, Bucket
<1>3. RateLimit(b) = [c EXCEPT !.burst = c.burst + 1]
  BY <1>2 DEF RateLimit, Bucket
<1> HIDE DEF c
<1>4. c = [burst |-> c.burst, age |-> c.age, toxic |-> c.toxic]
  BY <1>2 DEF Bucket
<1>5. RateLimit(b) = [burst |-> c.burst + 1, age |-> c.age, toxic |-> c.toxic]
  BY <1>3, <1>4
<1>6. RestoreBurst(RateLimit(b)) = [burst |-> c.burst + 1 - 1, age |-> c.age, toxic |-> c.toxic]
  BY <1>2, <1>5 DEF RestoreBurst
<1>7. RestoreBurst(RateLimit(b)) = c
  BY <1>2, <1>4, <1>6
<1>8. QED
  BY <1>1, <1>7

LEMMA ForgivenSound ==
    ASSUME NEW d \in Nat, NEW p \in Nat, NEW b, Sound(d, p, b)
    PROVE  Sound(d, p, RestoreToxic(b))
<1>1. b \in Bucket
  BY DEF Sound
<1>2. /\ RestoreToxic(b) \in Bucket
      /\ RestoreToxic(b).burst = b.burst /\ RestoreToxic(b).age = b.age
  BY <1>1, Positive DEF RestoreToxic, Bucket
<1>3. QED
  BY <1>2 DEF Sound

\* The burst of a drop covers what was owed and the penalty.
LEMMA DropSound ==
    ASSUME NEW d \in Nat, NEW p \in Nat, NEW b, Sound(d, p, b)
    PROVE  /\ (Burst * (RateDrop(b).toxic - 1) + 1) * Period \in Nat
           /\ Sound(d, (Burst * (RateDrop(b).toxic - 1) + 1) * Period, RateDrop(b))
<1> DEFINE t == RateDrop(b).toxic
<1>1. t \in 1 .. MaxToxic /\ RateDrop(b) = [burst |-> Burst * t, age |-> 0, toxic |-> t]
  BY Positive DEF RateDrop, Sound, Bucket
<1>2. 1 * Burst <= t * Burst /\ t * Burst <= MaxToxic * Burst /\ Burst * t \in Nat
  BY <1>1, Positive, Monotone
<1>3. Burst <= Burst * t /\ Burst * t <= Burst * MaxToxic
  BY <1>1, <1>2, Positive
<1>4. RateDrop(b) \in Bucket
  BY <1>1, <1>2, <1>3, Bounds DEF Bucket
<1> HIDE DEF t
<1>5. Burst * (t - 1) = Burst * t - Burst /\ Burst * (t - 1) + 1 \in Nat
  <2>1. (t - 1) * Burst = t * Burst - 1 * Burst
    BY <1>1, Positive, Distributes
  <2>2. Burst * (t - 1) = (t - 1) * Burst /\ t * Burst = Burst * t /\ 1 * Burst = Burst
    BY <1>1, Positive
  <2>3. QED
    BY <1>1, <1>2, <1>3, <2>1, <2>2, Positive
<1>6. (Burst * (t - 1) + 1) * Period = (RateDrop(b).burst - Burst + 1) * Period
  BY <1>1, <1>5
<1>7. (Burst * (t - 1) + 1) * Period \in Nat
  BY <1>5, Positive
<1>8. (Burst + 1) * Period <= (RateDrop(b).burst + 1) * Period
  BY <1>1, <1>2, <1>3, Positive, Monotone
<1>9. d < (RateDrop(b).burst + 1) * Period
  BY <1>1, <1>2, <1>8, Positive DEF Sound
<1>10. QED
  BY <1>1, <1>4, <1>6, <1>7, <1>9 DEF Sound

\* One tick.
LEMMA OlderSound ==
    ASSUME NEW d \in Nat, NEW p \in Nat, NEW b, Sound(d, p, b)
    PROVE  Sound(IF d > 0 THEN d - 1 ELSE d, IF p > 0 THEN p - 1 ELSE p, Older(b))
<1>1. b \in Bucket /\ b.burst \in 0 .. Burst * MaxToxic /\ b.age \in 0 .. Old
  BY DEF Sound, Bucket
<1>2. CASE b.age < Old
  <2>1. Older(b) = [b EXCEPT !.age = b.age + 1]
    BY <1>1, <1>2 DEF Older, Bucket
  <2>2. Older(b) \in Bucket /\ Older(b).burst = b.burst /\ Older(b).age = b.age + 1
    BY <1>1, <1>2, <2>1, Bounds DEF Bucket
  <2>3. (b.burst + 1) * Period \in Int /\ (b.burst - Burst + 1) * Period \in Int
    BY <1>1, Bounds, Positive
  <2>4. (Burst + 1) * Period \in Int
    BY Positive
  <2>5. QED
    BY <1>1, <2>2, <2>3, <2>4, Bounds DEF Sound
<1>3. CASE b.age = Old
  <2>1. Older(b) = b
    BY <1>1, <1>3, Bounds DEF Older, Bucket
  <2>2. (b.burst + 1) * Period <= (Burst * MaxToxic + 1) * Period
    BY <1>1, Bounds, Positive, Monotone
  <2>3. (b.burst - Burst + 1) * Period <= (Burst * MaxToxic + 1) * Period
    BY <1>1, Bounds, Positive, Monotone
  <2>4. (b.burst + 1) * Period \in Int /\ (b.burst - Burst + 1) * Period \in Int
    BY <1>1, Bounds, Positive
  <2>5. d = 0
    BY <1>3, <2>2, <2>4, Bounds DEF Sound, Old
  <2>6. p = 0
    BY <1>3, <2>3, <2>4, Bounds DEF Sound, Old
  <2>7. QED
    BY <2>1, <2>5, <2>6
<1>4. QED
  BY <1>1, <1>2, <1>3, Bounds

\* Forgetting an expired bucket forgets nothing but a part of a period.
LEMMA ExpiredForgettable ==
    ASSUME NEW d \in Nat, NEW p \in Nat, NEW b, Sound(d, p, b), Expired(b)
    PROVE  d < Period /\ p = 0
<1>1. b.burst \in 0 .. Burst * MaxToxic /\ b.age \in 0 .. Old
  BY DEF Sound, Bucket
<1>2. b.age > b.burst * Period /\ b.burst * Period \in Int
  BY <1>1, Bounds, Positive DEF Expired
<1>3. (b.burst + 1) * Period = b.burst * Period + Period
  BY <1>1, Bounds, Positive, Distributes
<1>4. (b.burst - Burst + 1) * Period <= b.burst * Period
  BY <1>1, Bounds, Positive, Monotone
<1>5. d < Period
  BY <1>1, <1>2, <1>3, Bounds, Positive DEF Sound
<1>6. p = 0
  <2>1. (b.burst - Burst + 1) * Period \in Int
    BY <1>1, Bounds, Positive
  <2>2. QED
    BY <1>1, <1>2, <1>4, <2>1, Bounds DEF Sound
<1>7. QED
  BY <1>5, <1>6

LEMMA NewSound ==
    ASSUME NEW d \in Nat, d < Period
    PROVE  Sound(d, 0, NewBucket)
<1>1. NewBucket \in Bucket /\ NewBucket.burst = 0 /\ NewBucket.age = 0
  BY Bounds, Positive DEF NewBucket, Bucket
<1>2. (Burst + 1) * Period = Burst * Period + Period /\ (0 + 1) * Period = Period
  BY Positive, Distributes
<1>3. QED
  BY <1>1, <1>2, Bounds, Positive DEF Sound

\* What the operations make of a bucket is a bucket.
LEMMA Rates ==
    ASSUME NEW b \in Bucket
    PROVE  /\ RateLimit(b) \in Bucket /\ RestoreToxic(b) \in Bucket
           /\ RateDrop(b) \in Bucket /\ Older(b) \in Bucket
           /\ Admits(b) => /\ RestoreBurst(RateLimit(b)) \in Bucket
                           /\ RestoreToxic(RestoreBurst(RateLimit(b))) \in Bucket
<1>1. 0 < (Burst + 1) * Period
  <2>1. Burst \in Nat /\ Period \in Nat /\ Period >= 1
    BY RateAssumption
  <2>2. (Burst + 1) * Period = Burst * Period + Period /\ Burst * Period \in Nat
    BY <2>1
  <2>3. QED
    BY <2>1, <2>2
<1>2. \A c : Sound(0, 0, c) <=> c \in Bucket
  BY <1>1 DEF Sound
<1>3. Sound(0, 0, b)
  BY <1>2
<1>4. RestoreToxic(b) \in Bucket
  <2>1. Sound(0, 0, RestoreToxic(b))
    BY <1>3, ForgivenSound
  <2>2. QED
    BY <1>2, <2>1
<1>5. RateLimit(b) \in Bucket
  <2>1. \E d \in Nat : Sound(d, 0, RateLimit(b))
    <3>1. CASE Admits(b)
      <4>1. Sound(0 + Period, 0, RateLimit(b))
        BY <1>3, <3>1, AdmissionSound
      <4>2. 0 + Period \in Nat
        BY RateAssumption
      <4>3. QED
        BY <4>1, <4>2
    <3>2. CASE ~Admits(b)
      BY <1>3, <3>2, RefusalSound
    <3>3. QED
      BY <3>1, <3>2
  <2>2. RateLimit(b) \in Bucket
    BY <2>1 DEF Sound
  <2>3. QED
    BY <2>2
<1>6. RateDrop(b) \in Bucket
  <2>1. RateDrop(b) \in Bucket
    BY <1>3, DropSound DEF Sound
  <2>2. QED
    BY <2>1
<1>7. Older(b) \in Bucket
  <2>1. Older(b) \in Bucket
    BY <1>3, OlderSound DEF Sound
  <2>2. QED
    BY <2>1
<1>8. ASSUME Admits(b)
      PROVE  /\ RestoreBurst(RateLimit(b)) \in Bucket
             /\ RestoreToxic(RestoreBurst(RateLimit(b))) \in Bucket
  <2> DEFINE c == RestoreBurst(RateLimit(b))
  <2>1. Admits(b)
    BY <1>8
  <2>2. Sound(0, 0, c)
    BY <1>3, <2>1, RestoreSound
  <2> HIDE DEF c
  <2>3. Sound(0, 0, RestoreToxic(c))
    BY <2>2, ForgivenSound
  <2>4. c \in Bucket /\ RestoreToxic(c) \in Bucket
    BY <1>2, <2>2, <2>3
  <2>5. c = RestoreBurst(RateLimit(b)) /\ RestoreToxic(c) = RestoreToxic(c)
    BY DEF c
  <2>6. QED
    BY <2>4, <2>5
<1>9. QED
  BY <1>4, <1>5, <1>6, <1>7, <1>8

-----------------------------------------------------------------------------
\* Steps.

TableIn(b) ==
    [a \in {b[i].address : i \in InUse(b)} |->
        b[CHOOSE i \in InUse(b) : b[i].address = a].rate]

LEMMA TableInShown ==
    ASSUME NEW b, Filed(b)
    PROVE  Shows(b, TableIn(b))
<1> DEFINE A == {b[i].address : i \in InUse(b)}
           Of(a) == CHOOSE i \in InUse(b) : b[i].address = a
<1>1. TableIn(b) = [a \in A |-> b[Of(a)].rate]
  BY Zenon DEF TableIn
<1>2. \A i \in InUse(b) : Of(b[i].address) = i
  BY DEF Filed
<1> HIDE DEF Of
<1>3. DOMAIN TableIn(b) = A /\ \A i \in InUse(b) : TableIn(b)[b[i].address] = b[i].rate
  BY <1>1, <1>2
<1>4. TableIn(b) = [a \in DOMAIN TableIn(b) |-> TableIn(b)[a]]
  BY <1>1
<1>5. QED
  BY <1>3, <1>4 DEF Shows

LEMMA NextState ==
    ASSUME NEW s, Right(s), s.b = buckets', s.heads = bucketHashes',
           start' \in 0 .. NumBuckets - 1, NEW x, Shows(s.b, x)
    PROVE  IInv' /\ TableOf' = x
<1>1. s = [b |-> s.b, heads |-> s.heads]
  BY DEF Right, States
<1>2. Right([b |-> buckets', heads |-> bucketHashes'])
  BY <1>1
<1>3. IInv'
  BY <1>2 DEF IInv, Now
<1>4. TableOf' = TableIn(s.b)
  BY DEF TableOf, TableIn, Used, InUse
<1>5. Filed(s.b)
  BY DEF Right
<1>6. Shows(s.b, TableIn(s.b))
  BY <1>5, TableInShown
<1>7. TableOf' = x
  BY <1>4, <1>6, ShowsOne
<1>8. QED
  BY <1>3, <1>7

LEMMA InitRight == Init => IInv /\ Table!Init
<1> SUFFICES ASSUME Init PROVE IInv /\ Table!Init
  OBVIOUS
<1>1. Free \in Nodes /\ Free.address = NoAddress
  <2>1. (CHOOSE h \in Hashes : TRUE) \in Hashes
    BY Sizes
  <2>2. [burst |-> 0, age |-> 0, toxic |-> 0] \in Bucket
    <3>1. Old \in Nat /\ Burst * MaxToxic \in Nat /\ MaxToxic \in Nat
      BY RateAssumption DEF Old
    <3>2. QED
      BY <3>1 DEF Bucket
  <2>3. QED
    BY <2>1, <2>2 DEF Free, Nodes
<1>2. buckets \in [Indices -> Nodes] /\ \A i \in Indices : buckets[i].address = NoAddress
  BY <1>1 DEF Init
<1>3. bucketHashes \in [Hashes -> Indices \cup {Null}] /\ \A h \in Hashes : bucketHashes[h] = Null
  BY DEF Init
<1>4. Now \in States /\ Now.b = buckets /\ Now.heads = bucketHashes
  BY <1>2, <1>3 DEF Now, States
<1>5. InUse(buckets) = {}
  BY <1>2 DEF InUse
<1>6. Chained(Now, {})
  <2>1. [i \in Indices |-> 0] \in [Indices -> Nat]
    OBVIOUS
  <2>2. Linked(Now, {}, [i \in Indices |-> 0])
    BY <1>3, <1>4 DEF Linked
  <2>3. QED
    BY <2>1, <2>2 DEF Chained
<1>7. Filed(buckets)
  BY <1>5 DEF Filed
<1>8. IInv
  <2>1. start \in 0 .. NumBuckets - 1
    BY Sizes DEF Init
  <2>2. Right(Now)
    BY <1>4, <1>5, <1>6, <1>7 DEF Right
  <2>3. QED
    BY <2>1, <2>2 DEF IInv
<1>9. TableOf = [a \in {} |-> NewBucket]
  <2>1. Shows(buckets, [a \in {} |-> NewBucket])
    BY <1>5 DEF Shows
  <2>2. QED
    BY <1>7, <2>1, TableShown, ShowsOne
<1>10. Table!Init
  BY <1>9 DEF Table!Init, Init, Table!NewBucket, NewBucket
<1>11. QED
  BY <1>8, <1>10

\* The change of a bucket that was looked up.
LEMMA StoreRight ==
    ASSUME NEW a, NEW r, NEW x, Looks(a, r, x), r.bucket # Null,
           NEW rate \in Bucket, Store(r, rate)
    PROVE  IInv' /\ TableOf' = Table!With(x, a, rate)
<1> DEFINE t == Restored(r.s, r.bucket, rate)
<1>1. /\ r.bucket \in InUse(r.s.b) /\ r.s.b[r.bucket].address = a
      /\ Right(r.s) /\ r.start \in 0 .. NumBuckets - 1 /\ Shows(r.s.b, x)
  BY DEF Looks
<1>2. Right(t) /\ Shows(t.b, Table!With(x, a, rate))
  BY <1>1, Stored
<1>3. t.b = buckets' /\ t.heads = bucketHashes' /\ start' \in 0 .. NumBuckets - 1
  BY <1>1 DEF Restored, Store
<1> HIDE DEF t
<1>4. QED
  BY <1>2, <1>3, NextState

\* The rate of the bucket is that of the table.
LEMMA LooksRate ==
    ASSUME NEW a, NEW r, NEW x, Looks(a, r, x), r.bucket # Null
    PROVE  a \in DOMAIN x /\ r.s.b[r.bucket].rate = x[a] /\ x[a] \in Bucket
<1>1. /\ r.bucket \in InUse(r.s.b) /\ r.s.b[r.bucket].address = a
      /\ Right(r.s) /\ Shows(r.s.b, x)
  BY DEF Looks
<1>2. a \in DOMAIN x /\ r.s.b[r.bucket].rate = x[a]
  BY <1>1 DEF Shows
<1>3. r.bucket \in Indices /\ r.s \in States
  BY <1>1 DEF InUse, Right
<1>4. r.s.b[r.bucket].rate \in Bucket
  BY <1>3, StateFields
<1>5. QED
  BY <1>2, <1>4

LEMMA SameTable ==
    /\ \A b : /\ Table!Leaked(b) = Leaked(b) /\ Table!Admits(b) = Admits(b)
              /\ Table!RateLimit(b) = RateLimit(b) /\ Table!RateDrop(b) = RateDrop(b)
              /\ Table!RestoreBurst(b) = RestoreBurst(b)
              /\ Table!RestoreToxic(b) = RestoreToxic(b) /\ Table!Older(b) = Older(b)
              /\ Table!Expired(b) = Expired(b)
    /\ Table!NewBucket = NewBucket
<1>1. \A b : Table!Leaked(b) = Leaked(b)
  BY Zenon DEF Table!Leaked, Leaked
<1>2. \A b : Table!Admits(b) = Admits(b)
  BY <1>1, Zenon DEF Table!Admits, Admits
<1>3. \A b : Table!RateLimit(b) = RateLimit(b)
  BY <1>1, <1>2, Zenon DEF Table!RateLimit, RateLimit
<1>4. \A b : Table!RateDrop(b) = RateDrop(b)
  BY Zenon DEF Table!RateDrop, RateDrop
<1>5. \A b : /\ Table!RestoreBurst(b) = RestoreBurst(b)
             /\ Table!RestoreToxic(b) = RestoreToxic(b)
  BY Zenon DEF Table!RestoreBurst, RestoreBurst, Table!RestoreToxic, RestoreToxic
<1>6. Table!Old = Old
  BY Zenon DEF Table!Old, Old
<1>7. \A b : Table!Older(b) = Older(b)
  BY <1>6, Zenon DEF Table!Older, Older
<1>8. \A b : Table!Expired(b) = Expired(b)
  BY Zenon DEF Table!Expired, Expired
<1>9. Table!NewBucket = NewBucket
  BY DEF Table!NewBucket, NewBucket
<1>10. QED
  BY <1>1, <1>2, <1>3, <1>4, <1>5, <1>7, <1>8, <1>9

LEMMA StayRight ==
    ASSUME IInv, UNCHANGED <<buckets, bucketHashes, start>>
    PROVE  IInv' /\ TableOf' = TableOf
BY DEF IInv, Now, TableOf, Used

LEMMA RequestRight ==
    ASSUME IInv, NEW a \in Addresses, Request(a)
    PROVE  IInv' /\ Table!Request(a)
<1> DEFINE r == BucketForAddress(a)
           rate == r.s.b[r.bucket].rate
<1>1. PICK x \in Table!BucketForAddress(a) : Looks(a, r, x)
  BY LooksRight, Zenon
<1>2. /\ IF r.bucket = Null
         THEN UNCHANGED <<buckets, bucketHashes, start, debt>>
         ELSE /\ Store(r, RateLimit(rate))
              /\ debt' = IF Admits(rate) THEN Table!Owing(a) ELSE debt
      /\ UNCHANGED penalty
  BY Zenon DEF Request
<1> HIDE DEF r
<1>3. CASE r.bucket = Null
  <2>1. UNCHANGED <<buckets, bucketHashes, start>> /\ debt' = debt /\ penalty' = penalty
    BY <1>2, <1>3
  <2>2. IInv' /\ TableOf' = TableOf
    BY <2>1, StayRight
  <2>3. x = TableOf /\ a \notin DOMAIN x
    <3>1. \A s : r.bucket \notin InUse(s)
      BY <1>3, Sizes DEF InUse
    <3>2. QED
      BY <1>1, <3>1 DEF Looks
  <2>4. Table!Request(a)
    BY <1>1, <2>1, <2>2, <2>3 DEF Table!Request
  <2>5. QED
    BY <2>2, <2>4
<1>4. CASE r.bucket # Null
  <2>1. a \in DOMAIN x /\ rate = x[a] /\ x[a] \in Bucket
    BY <1>1, <1>4, LooksRate
  <2> HIDE DEF rate
  <2>2. RateLimit(rate) \in Bucket
    BY <2>1, Rates
  <2>3. Store(r, RateLimit(rate))
    BY <1>2, <1>4 DEF rate
  <2>4. IInv' /\ TableOf' = Table!With(x, a, RateLimit(rate))
    BY <1>1, <1>4, <2>2, <2>3, StoreRight
  <2>5. debt' = (IF Admits(rate) THEN Table!Owing(a) ELSE debt) /\ penalty' = penalty
    BY <1>2, <1>4 DEF rate
  <2>6. /\ Table!RateLimit(x[a]) = RateLimit(rate)
        /\ Table!Admits(x[a]) = Admits(rate)
    BY <2>1, SameTable
  <2>7. Table!Request(a)
    BY <1>1, <2>1, <2>4, <2>5, <2>6 DEF Table!Request
  <2>8. QED
    BY <2>4, <2>7
<1>5. QED
  BY <1>3, <1>4

LEMMA ConnectRight ==
    ASSUME IInv, NEW a \in Addresses, NEW accepted \in BOOLEAN, Connect(a, accepted)
    PROVE  IInv' /\ Table!Connect(a, accepted)
<1> DEFINE r == BucketForAddress(a)
           rate == r.s.b[r.bucket].rate
           restored == RestoreBurst(RateLimit(rate))
           stored == IF accepted THEN RestoreToxic(restored) ELSE restored
<1>1. PICK x \in Table!BucketForAddress(a) : Looks(a, r, x)
  BY LooksRight, Zenon
<1>2. r.bucket # Null /\ Admits(rate) /\ Store(r, stored) /\ debt' = debt /\ penalty' = penalty
  BY Zenon DEF Connect
<1> HIDE DEF r
<1>3. a \in DOMAIN x /\ rate = x[a] /\ x[a] \in Bucket
  BY <1>1, <1>2, LooksRate
<1> HIDE DEF rate
<1>4. restored \in Bucket /\ stored \in Bucket
  BY <1>2, <1>3, Rates
<1> HIDE DEF stored
<1>5. IInv' /\ TableOf' = Table!With(x, a, stored)
  BY <1>1, <1>2, <1>4, StoreRight
<1>6. /\ Table!Admits(x[a])
      /\ Table!RestoreBurst(Table!RateLimit(x[a])) = restored
      /\ Table!RestoreToxic(restored) = RestoreToxic(restored)
  BY <1>2, <1>3, SameTable
<1> HIDE DEF restored
<1>7. TableOf' = Table!With(x, a, IF accepted
                                  THEN Table!RestoreToxic(Table!RestoreBurst(Table!RateLimit(x[a])))
                                  ELSE Table!RestoreBurst(Table!RateLimit(x[a])))
  BY <1>5, <1>6 DEF stored
<1>8. Table!Connect(a, accepted)
  BY <1>1, <1>2, <1>3, <1>6, <1>7, Zenon DEF Table!Connect
<1>9. QED
  BY <1>5, <1>8

LEMMA DropRight ==
    ASSUME IInv, NEW a \in Addresses, Drop(a)
    PROVE  IInv' /\ Table!Drop(a)
<1> DEFINE r == BucketForAddress(a)
           dropped == RateDrop(r.s.b[r.bucket].rate)
<1>1. PICK x \in Table!BucketForAddress(a) : Looks(a, r, x)
  BY LooksRight, Zenon
<1>2. r.bucket # Null /\ Store(r, dropped) /\ penalty' = Table!Barred(a, dropped) /\ debt' = debt
  BY Zenon DEF Drop
<1> HIDE DEF r
<1>3. a \in DOMAIN x /\ r.s.b[r.bucket].rate = x[a] /\ x[a] \in Bucket
  BY <1>1, <1>2, LooksRate
<1>4. dropped \in Bucket /\ Table!RateDrop(x[a]) = dropped
  BY <1>3, Rates, SameTable
<1> HIDE DEF dropped
<1>5. IInv' /\ TableOf' = Table!With(x, a, dropped)
  BY <1>1, <1>2, <1>4, StoreRight
<1>6. Table!Drop(a)
  BY <1>1, <1>2, <1>3, <1>4, <1>5 DEF Table!Drop
<1>7. QED
  BY <1>5, <1>6

LEMMA TickRight ==
    ASSUME IInv, Tick
    PROVE  IInv' /\ Table!Tick
<1> DEFINE b == [i \in Indices |->
                    IF i \in Used THEN [buckets[i] EXCEPT !.rate = Older(@)] ELSE buckets[i]]
           t == [b |-> b, heads |-> bucketHashes]
           y == [a \in DOMAIN TableOf |-> Table!Older(TableOf[a])]
<1>1. /\ Now \in States /\ Now.b = buckets /\ Now.heads = bucketHashes /\ Filed(buckets)
      /\ Used \in SUBSET Indices /\ InUse(buckets) = Used
  BY NowFields DEF IInv, Right
<1>2. buckets \in [Indices -> Nodes] /\ bucketHashes \in [Hashes -> Indices \cup {Null}]
  BY <1>1, StateFields
<1>3. ASSUME NEW i \in Indices
      PROVE  /\ b[i] \in Nodes
             /\ b[i].address = buckets[i].address /\ b[i].hash = buckets[i].hash
             /\ b[i].next = buckets[i].next /\ b[i].prev = buckets[i].prev
             /\ i \in Used => b[i].rate = Older(buckets[i].rate)
  <2> DEFINE n == buckets[i]
             m == [n EXCEPT !.rate = Older(n.rate)]
  <2>1. n \in Nodes
    BY <1>2
  <2> HIDE DEF n
  <2>2. n.rate \in Bucket
    BY <2>1 DEF Nodes
  <2>3. Older(n.rate) \in Bucket
    BY <2>2, Rates
  <2>4. /\ m \in Nodes /\ m.address = n.address /\ m.hash = n.hash
        /\ m.next = n.next /\ m.prev = n.prev /\ m.rate = Older(n.rate)
    BY <2>1, <2>3 DEF Nodes
  <2>5. b[i] = IF i \in Used THEN m ELSE n
    BY DEF n
  <2> HIDE DEF m
  <2>6. QED
    BY <2>1, <2>4, <2>5 DEF n
<1>4. b = [i \in Indices |-> b[i]]
  OBVIOUS
<1>5. buckets' = b /\ bucketHashes' = bucketHashes /\ start' = start
  BY DEF Tick
<1> HIDE DEF b
<1>6. t \in States /\ t.b = b /\ t.heads = Now.heads
  BY <1>1, <1>2, <1>3, <1>4 DEF States
<1> HIDE DEF t
<1>7. InUse(t.b) = Used
  BY <1>3, <1>6 DEF InUse, Used
<1>8. \A i \in Used : i \in Indices
  BY <1>1
<1>9. Filed(t.b)
  <2>1. /\ \A i \in Used : buckets[i].hash = HashOf[buckets[i].address]
        /\ \A i, j \in Used : buckets[i].address = buckets[j].address => i = j
    BY <1>1 DEF Filed
  <2>2. QED
    BY <1>3, <1>6, <1>7, <1>8, <2>1 DEF Filed
<1>10. PICK rank \in [Indices -> Nat] : Linked(Now, Used, rank)
  BY <1>1 DEF IInv, Right, Chained
<1>11. Linked(t, Used, rank)
  BY <1>1, <1>3, <1>6, <1>8, <1>10, SameLinked
<1>12. Right(t)
  BY <1>6, <1>7, <1>9, <1>11 DEF Right, Chained
<1>13. /\ DOMAIN TableOf = {buckets[i].address : i \in Used}
       /\ \A i \in Used : TableOf[buckets[i].address] = buckets[i].rate
  BY <1>1, TableShown DEF Shows
<1>14. DOMAIN y = DOMAIN TableOf /\ y = [a \in DOMAIN y |-> y[a]]
       /\ \A a \in DOMAIN TableOf : y[a] = Older(TableOf[a])
  BY SameTable
<1> HIDE DEF y
<1>15. Shows(t.b, y)
  <2>1. {t.b[i].address : i \in Used} = {buckets[i].address : i \in Used}
    BY <1>3, <1>6, <1>8
  <2>2. \A i \in Used : y[t.b[i].address] = t.b[i].rate
    BY <1>3, <1>6, <1>8, <1>13, <1>14
  <2>3. QED
    BY <1>7, <1>13, <1>14, <2>1, <2>2 DEF Shows
<1>16. IInv' /\ TableOf' = y
  <2>1. start' \in 0 .. NumBuckets - 1
    BY <1>5 DEF IInv
  <2>2. t.b = buckets' /\ t.heads = bucketHashes'
    BY <1>1, <1>5, <1>6
  <2>3. QED
    BY <1>12, <1>15, <2>1, <2>2, NextState
<1>17. Table!Tick
  BY <1>16 DEF Tick, Table!Tick, y
<1>18. QED
  BY <1>16, <1>17

LEMMA StepRight == IInv /\ [Next]_vars => IInv' /\ [Table!Next]_(Table!vars)
<1>1. SUFFICES ASSUME IInv, [Next]_vars PROVE IInv' /\ [Table!Next]_(Table!vars)
  OBVIOUS
<1>2. CASE UNCHANGED vars
  <2>1. UNCHANGED <<buckets, bucketHashes, start>> /\ debt' = debt /\ penalty' = penalty
    BY <1>2 DEF vars
  <2>2. IInv' /\ TableOf' = TableOf
    BY <1>1, <2>1, StayRight
  <2>3. QED
    BY <2>1, <2>2 DEF Table!vars
<1>3. CASE Next
  <2>1. CASE \E a \in Addresses : Request(a)
    BY <1>1, <2>1, RequestRight DEF Table!Next
  <2>2. CASE \E a \in Addresses : \E accepted \in BOOLEAN : Connect(a, accepted)
    BY <1>1, <2>2, ConnectRight DEF Table!Next
  <2>3. CASE \E a \in Addresses : Drop(a)
    BY <1>1, <2>3, DropRight DEF Table!Next
  <2>4. CASE Tick
    BY <1>1, <2>4, TickRight DEF Table!Next
  <2>5. QED
    BY <1>3, <2>1, <2>2, <2>3, <2>4 DEF Next
<1>4. QED
  BY <1>1, <1>2, <1>3

-----------------------------------------------------------------------------
\* What the table promises. An address without a bucket owes less than a period.

Kept(t, d, p) ==
    /\ DOMAIN t \subseteq Addresses
    /\ t \in [DOMAIN t -> Bucket]
    /\ d \in [Addresses -> Nat]
    /\ p \in [Addresses -> Nat]
    /\ \A a \in DOMAIN t : Sound(d[a], p[a], t[a])
    /\ \A a \in Addresses \ DOMAIN t : d[a] < Period /\ p[a] = 0

Accounted == Kept(TableOf, debt, penalty)

LEMMA TableInitKept == Table!Init => Accounted
<1>1. SUFFICES ASSUME Table!Init PROVE Accounted
  OBVIOUS
<1>2. DOMAIN TableOf = {} /\ TableOf \in [{} -> Bucket]
  BY <1>1 DEF Table!Init
<1>3. debt = [a \in Addresses |-> 0] /\ penalty = [a \in Addresses |-> 0]
  BY <1>1 DEF Table!Init
<1>4. QED
  BY <1>2, <1>3, Positive DEF Accounted, Kept

\* A lookup may forget an expired bucket and allocate a new one.
LEMMA LookupKept ==
    ASSUME Accounted, NEW a \in Addresses, NEW t \in Table!BucketForAddress(a)
    PROVE  Kept(t, debt, penalty)
<1> USE DEF Accounted
<1>1. CASE t = TableOf
  BY <1>1
<1>2. CASE a \notin DOMAIN TableOf /\ t \in Table!Allocations(a)
  <2>1. PICK gone \in SUBSET DOMAIN TableOf :
            /\ t = Table!Replacing(gone, a)
            /\ \A x \in gone : Expired(TableOf[x])
    <3>1. CASE t = Table!Replacing({}, a)
      BY <3>1
    <3>2. CASE t \in {Table!Replacing({x}, a) : x \in {y \in DOMAIN TableOf : Expired(TableOf[y])}}
      <4>1. PICK x \in DOMAIN TableOf : Expired(TableOf[x]) /\ t = Table!Replacing({x}, a)
        BY <3>2
      <4>2. {x} \in SUBSET DOMAIN TableOf /\ \A y \in {x} : Expired(TableOf[y])
        BY <4>1
      <4>3. QED
        BY <4>1, <4>2
    <3>3. QED
      BY <1>2, <3>1, <3>2, SameTable DEF Table!Allocations
  <2>2. /\ DOMAIN t = (DOMAIN TableOf \ gone) \cup {a}
        /\ \A x \in DOMAIN t : t[x] = IF x = a THEN NewBucket ELSE TableOf[x]
        /\ t = [x \in DOMAIN t |-> t[x]]
    BY <2>1, SameTable DEF Table!Replacing
  <2>3. /\ DOMAIN TableOf \subseteq Addresses
        /\ debt \in [Addresses -> Nat] /\ penalty \in [Addresses -> Nat]
        /\ \A x \in DOMAIN TableOf : Sound(debt[x], penalty[x], TableOf[x])
        /\ \A x \in Addresses \ DOMAIN TableOf : debt[x] < Period /\ penalty[x] = 0
    BY DEF Kept
  <2>4. \A x \in gone : debt[x] < Period /\ penalty[x] = 0
    BY <2>1, <2>3, ExpiredForgettable
  <2>5. Sound(debt[a], penalty[a], NewBucket)
    BY <1>2, <2>3, NewSound
  <2>6. \A x \in DOMAIN t : Sound(debt[x], penalty[x], t[x])
    BY <2>2, <2>3, <2>5
  <2>7. \A x \in DOMAIN t : t[x] \in Bucket
    BY <2>6 DEF Sound
  <2>8. DOMAIN t \subseteq Addresses /\ t \in [DOMAIN t -> Bucket]
    BY <2>2, <2>3, <2>7
  <2>9. \A x \in Addresses \ DOMAIN t : debt[x] < Period /\ penalty[x] = 0
    BY <2>2, <2>3, <2>4
  <2>10. QED
    BY <2>3, <2>6, <2>8, <2>9 DEF Kept
<1>3. QED
  BY <1>1, <1>2 DEF Table!BucketForAddress

\* Changing the bucket, the debt and the penalty of one address together.
LEMMA StoreKept ==
    ASSUME NEW t, NEW d, NEW p, Kept(t, d, p),
           NEW a \in DOMAIN t, NEW owed \in Nat, NEW barred \in Nat, NEW b,
           Sound(owed, barred, b)
    PROVE  Kept(Table!With(t, a, b), [d EXCEPT ![a] = owed], [p EXCEPT ![a] = barred])
<1> DEFINE u == Table!With(t, a, b)
<1>1. a \in Addresses /\ b \in Bucket
  BY DEF Kept, Sound
<1>2. /\ DOMAIN u = DOMAIN t /\ u \in [DOMAIN t -> Bucket]
      /\ u[a] = b /\ \A x \in DOMAIN t : x # a => u[x] = t[x]
  BY <1>1 DEF Table!With, Kept
<1>3. QED
  BY <1>1, <1>2 DEF Kept

LEMMA RequestKept ==
    ASSUME Accounted, NEW a \in Addresses, Table!Request(a)
    PROVE  Accounted'
<1>1. PICK t \in Table!BucketForAddress(a) :
          /\ IF a \in DOMAIN t
             THEN /\ TableOf' = Table!With(t, a, RateLimit(t[a]))
                  /\ debt' = IF Admits(t[a]) THEN Table!Owing(a) ELSE debt
             ELSE UNCHANGED <<TableOf, debt>>
          /\ UNCHANGED penalty
  BY SameTable DEF Table!Request
<1>2. Kept(t, debt, penalty)
  BY LookupKept
<1>3. debt \in [Addresses -> Nat] /\ penalty \in [Addresses -> Nat]
  BY <1>2 DEF Kept
<1>4. CASE a \notin DOMAIN t
  BY <1>1, <1>4 DEF Accounted
<1>5. CASE a \in DOMAIN t
  <2>1. Sound(debt[a], penalty[a], t[a]) /\ debt[a] \in Nat /\ penalty[a] \in Nat
    BY <1>2, <1>3, <1>5 DEF Kept
  <2>2. penalty' = [penalty EXCEPT ![a] = penalty[a]]
    BY <1>1, <1>3
  <2>3. CASE Admits(t[a])
    <3>1. Sound(debt[a] + Period, penalty[a], RateLimit(t[a])) /\ debt[a] + Period \in Nat
      BY <2>1, <2>3, AdmissionSound, Positive
    <3>2. debt' = [debt EXCEPT ![a] = debt[a] + Period]
      BY <1>1, <1>5, <2>3 DEF Table!Owing
    <3>3. Kept(Table!With(t, a, RateLimit(t[a])), [debt EXCEPT ![a] = debt[a] + Period],
               [penalty EXCEPT ![a] = penalty[a]])
      BY <1>2, <1>5, <2>1, <3>1, StoreKept
    <3>4. QED
      BY <1>1, <1>5, <2>2, <3>2, <3>3 DEF Accounted
  <2>4. CASE ~Admits(t[a])
    <3>1. Sound(debt[a], penalty[a], RateLimit(t[a]))
      BY <2>1, <2>4, RefusalSound
    <3>2. debt' = [debt EXCEPT ![a] = debt[a]]
      BY <1>1, <1>3, <1>5, <2>4
    <3>3. Kept(Table!With(t, a, RateLimit(t[a])), [debt EXCEPT ![a] = debt[a]],
               [penalty EXCEPT ![a] = penalty[a]])
      BY <1>2, <1>5, <2>1, <3>1, StoreKept
    <3>4. QED
      BY <1>1, <1>5, <2>2, <3>2, <3>3 DEF Accounted
  <2>5. QED
    BY <2>3, <2>4
<1>6. QED
  BY <1>4, <1>5

LEMMA ConnectKept ==
    ASSUME Accounted, NEW a \in Addresses, NEW accepted \in BOOLEAN, Table!Connect(a, accepted)
    PROVE  Accounted'
<1>1. PICK t \in Table!BucketForAddress(a) :
          /\ a \in DOMAIN t /\ Admits(t[a])
          /\ TableOf' = Table!With(t, a, IF accepted THEN RestoreToxic(RestoreBurst(RateLimit(t[a])))
                                 ELSE RestoreBurst(RateLimit(t[a])))
          /\ UNCHANGED <<debt, penalty>>
  BY SameTable DEF Table!Connect
<1> DEFINE b == IF accepted THEN RestoreToxic(RestoreBurst(RateLimit(t[a])))
                ELSE RestoreBurst(RateLimit(t[a]))
<1>2. Kept(t, debt, penalty)
  BY LookupKept
<1>3. debt \in [Addresses -> Nat] /\ penalty \in [Addresses -> Nat]
  BY <1>2 DEF Kept
<1>4. Sound(debt[a], penalty[a], t[a]) /\ debt[a] \in Nat /\ penalty[a] \in Nat
  BY <1>1, <1>2, <1>3 DEF Kept
<1>5. Sound(debt[a], penalty[a], b)
  BY <1>1, <1>4, RestoreSound, ForgivenSound
<1>6. /\ debt' = [debt EXCEPT ![a] = debt[a]]
      /\ penalty' = [penalty EXCEPT ![a] = penalty[a]]
  BY <1>1, <1>3
<1> HIDE DEF b
<1>7. Kept(Table!With(t, a, b), [debt EXCEPT ![a] = debt[a]], [penalty EXCEPT ![a] = penalty[a]])
  BY <1>1, <1>2, <1>4, <1>5, StoreKept
<1>8. QED
  BY <1>1, <1>6, <1>7 DEF Accounted, b

LEMMA DropKept ==
    ASSUME Accounted, NEW a \in Addresses, Table!Drop(a)
    PROVE  Accounted'
<1>1. PICK t \in Table!BucketForAddress(a) :
          /\ a \in DOMAIN t
          /\ TableOf' = Table!With(t, a, RateDrop(t[a]))
          /\ penalty' = Table!Barred(a, RateDrop(t[a]))
          /\ UNCHANGED debt
  BY SameTable DEF Table!Drop
<1> DEFINE barred == (Burst * (RateDrop(t[a]).toxic - 1) + 1) * Period
<1>2. Kept(t, debt, penalty)
  BY LookupKept
<1>3. debt \in [Addresses -> Nat] /\ penalty \in [Addresses -> Nat]
  BY <1>2 DEF Kept
<1>4. Sound(debt[a], penalty[a], t[a]) /\ debt[a] \in Nat /\ penalty[a] \in Nat
  BY <1>1, <1>2, <1>3 DEF Kept
<1>5. barred \in Nat /\ Sound(debt[a], barred, RateDrop(t[a]))
  BY <1>4, DropSound
<1>6. /\ debt' = [debt EXCEPT ![a] = debt[a]]
      /\ penalty' = [penalty EXCEPT ![a] = barred]
  BY <1>1, <1>3 DEF Table!Barred
<1> HIDE DEF barred
<1>7. Kept(Table!With(t, a, RateDrop(t[a])), [debt EXCEPT ![a] = debt[a]],
           [penalty EXCEPT ![a] = barred])
  BY <1>1, <1>2, <1>4, <1>5, StoreKept
<1>8. QED
  BY <1>1, <1>6, <1>7 DEF Accounted

LEMMA TickKept ==
    ASSUME Accounted, Table!Tick
    PROVE  Accounted'
<1> DEFINE d == Table!Passed(debt)
           p == Table!Passed(penalty)
           t == [a \in DOMAIN TableOf |-> Older(TableOf[a])]
<1>1. /\ DOMAIN TableOf \subseteq Addresses
      /\ debt \in [Addresses -> Nat] /\ penalty \in [Addresses -> Nat]
      /\ \A a \in DOMAIN TableOf : Sound(debt[a], penalty[a], TableOf[a])
      /\ \A a \in Addresses \ DOMAIN TableOf : debt[a] < Period /\ penalty[a] = 0
  BY DEF Accounted, Kept
<1>2. \A a \in Addresses : /\ d[a] = IF debt[a] > 0 THEN debt[a] - 1 ELSE debt[a]
                          /\ p[a] = IF penalty[a] > 0 THEN penalty[a] - 1 ELSE penalty[a]
  BY DEF Table!Passed
<1>3. d \in [Addresses -> Nat] /\ p \in [Addresses -> Nat]
  BY <1>1 DEF Table!Passed
<1>4. \A a \in DOMAIN t : Sound(d[a], p[a], t[a])
  BY <1>1, <1>2, OlderSound
<1>5. \A a \in DOMAIN t : t[a] \in Bucket
  BY <1>4 DEF Sound
<1>6. \A a \in Addresses \ DOMAIN t : d[a] < Period /\ p[a] = 0
  BY <1>1, <1>2, Positive
<1>7. Kept(t, d, p)
  BY <1>1, <1>3, <1>4, <1>5, <1>6 DEF Kept
<1>8. QED
  BY <1>7, SameTable DEF Table!Tick, Accounted

LEMMA TableStepKept == Accounted /\ [Table!Next]_(Table!vars) => Accounted'
<1>1. SUFFICES ASSUME Accounted, [Table!Next]_(Table!vars) PROVE Accounted'
  OBVIOUS
<1>2. CASE UNCHANGED Table!vars
  BY <1>1, <1>2 DEF Table!vars, Accounted
<1>3. CASE Table!Next
  BY <1>1, <1>3, RequestKept, ConnectKept, DropKept, TickKept DEF Table!Next
<1>4. QED
  BY <1>1, <1>2, <1>3

LEMMA LimitsFollow == Accounted => Table!LimitsKept
<1>1. SUFFICES ASSUME Accounted, NEW a \in Addresses
               PROVE  /\ debt[a] < (Burst + 1) * Period
                      /\ penalty[a] > 0 => a \in DOMAIN TableOf /\ ~Admits(TableOf[a])
  BY SameTable DEF Table!LimitsKept, Table!BurstBounded, Table!PenaltyServed
<1>2. debt[a] \in Nat /\ penalty[a] \in Nat
  BY <1>1 DEF Accounted, Kept
<1>3. CASE a \in DOMAIN TableOf
  <2>1. Sound(debt[a], penalty[a], TableOf[a])
    BY <1>1, <1>3 DEF Accounted, Kept
  <2>2. penalty[a] > 0 => ~Admits(TableOf[a])
    BY <1>2, <2>1, PenaltyRefuses
  <2>3. QED
    BY <1>3, <2>1, <2>2 DEF Sound
<1>4. CASE a \notin DOMAIN TableOf
  <2>1. debt[a] < Period /\ penalty[a] = 0
    BY <1>1, <1>4 DEF Accounted, Kept
  <2>2. (Burst + 1) * Period = Burst * Period + Period /\ Burst * Period \in Nat
    BY Positive, Distributes, Bounds
  <2>3. QED
    BY <1>2, <2>1, <2>2, Positive
<1>5. QED
  BY <1>3, <1>4

-----------------------------------------------------------------------------
\* Theorems.

\* The invariant of the array, its chains and the index at which the search goes on.
THEOREM BucketInvariant == Spec => []IInv
<1>1. Init => IInv
  BY InitRight
<1>2. IInv /\ [Next]_vars => IInv'
  BY StepRight
<1>3. QED
  BY <1>1, <1>2, PTL DEF Spec

\* Reclaiming and relinking leave every chain whole (SVC_UnlinkBucket,
\* SVC_RelinkToHead, SVC_BucketForAddress).
THEOREM ChainsStayWhole == Spec => []ChainsWhole
  BY BucketInvariant, WholeFollows, PTL

\* The array, its chains and the search amount to the table of RateLimits: no
\* address has two buckets, and none is reclaimed that still limits its address
\* (SVC_BucketForAddress).
THEOREM ArrayIsTable == Spec => ImplementsTable
<1>1. Init => Table!Init
  BY InitRight
<1>2. IInv /\ [Next]_vars => [Table!Next]_(Table!vars)
  BY StepRight
<1>3. QED
  BY <1>1, <1>2, BucketInvariant, PTL DEF Spec, ImplementsTable, Table!Spec

\* No address is admitted beyond its burst, whatever the table forgot in between,
\* and a dropped address serves its penalty (SVC_RateLimit, SVC_RateDrop).
THEOREM TableKeepsLimits == Table!Spec => []Table!LimitsKept
<1>1. Table!Init => Accounted
  BY TableInitKept
<1>2. Accounted /\ [Table!Next]_(Table!vars) => Accounted'
  BY TableStepKept
<1>3. Accounted => Table!LimitsKept
  BY LimitsFollow
<1>4. QED
  BY <1>1, <1>2, <1>3, PTL DEF Table!Spec

\* So the limits hold of the array too (SVC_RateLimitAddress, SVC_RateDropAddress).
THEOREM ArrayKeepsLimits == Spec => []LimitsKept
  BY ArrayIsTable, TableKeepsLimits, PTL DEF ImplementsTable, LimitsKept
=============================================================================
