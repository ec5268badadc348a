----------------------------- MODULE BucketChains -----------------------------
(* The leaky buckets of the connectionless commands as the server keeps them: *)
(* one array, a doubly linked chain for every hash, an index at which the     *)
(* search for a bucket to reclaim goes on. NULL is 0.                         *)
EXTENDS LeakyBucket, FiniteSets

CONSTANTS
    Addresses,
    NumBuckets,  \* MAX_BUCKETS
    Hashes,      \* 0 .. MAX_HASHES - 1
    HashOf,      \* SVC_HashForAddress, of each address
    NoAddress,   \* NA_BAD
    RelinkAfter  \* 8: how deep an address may be in its chain

ASSUME BucketsAssumption ==
    /\ NumBuckets \in Nat \ {0} /\ RelinkAfter \in Nat
    /\ Hashes # {} /\ HashOf \in [Addresses -> Hashes]
    /\ NoAddress \notin Addresses

VARIABLES
    buckets,       \* buckets[]
    bucketHashes,  \* bucketHashes[]
    start,         \* start of SVC_BucketForAddress
    debt, penalty  \* history, as in RateLimits

vars == <<buckets, bucketHashes, start, debt, penalty>>

Null == 0
Indices == 1 .. NumBuckets
Free == [address |-> NoAddress, hash |-> CHOOSE h \in Hashes : TRUE, next |-> Null, prev |-> Null,
         rate |-> [burst |-> 0, age |-> 0, toxic |-> 0]]
Used == {i \in Indices : buckets[i].address # NoAddress}

\* Which bucket an address has, seen from outside.
TableOf ==
    [a \in {buckets[i].address : i \in Used} |->
        buckets[CHOOSE i \in Used : buckets[i].address = a].rate]

Table == INSTANCE RateLimits WITH table <- TableOf

-----------------------------------------------------------------------------
(* The chains. These operators work on a pair of buckets and heads, as the    *)
(* code does on the arrays, one assignment after the other.                   *)

Now == [b |-> buckets, heads |-> bucketHashes]

\* node[n] of a chain, for the n of the loop; a broken chain may be circular.
Walk(s, h) ==
    LET node[n \in 0 .. NumBuckets] ==
            IF n = 0 THEN s.heads[h]
            ELSE IF node[n - 1] = Null THEN Null ELSE s.b[node[n - 1]].next
    IN  node

SetNext(s, i, j) == [s EXCEPT !.b[i].next = j]
SetPrev(s, i, j) == IF i = Null THEN s ELSE [s EXCEPT !.b[i].prev = j]

PushFront(s, i, h) ==
    LET linked == SetPrev(SetNext(s, i, s.heads[h]), s.heads[h], i)
    IN  [SetPrev(linked, i, Null) EXCEPT !.heads[h] = i]

\* Defective: the bucket behind keeps pointing to the one that left.
BypassForward(s, i) ==
    LET node == s.b[i]
    IN  IF node.prev # Null THEN SetNext(s, node.prev, node.next)
        ELSE [s EXCEPT !.heads[node.hash] = node.next]

\* SVC_UnlinkBucket.
UnlinkBucket(s, i) ==
    LET node == s.b[i]
        before == IF node.prev # Null THEN SetNext(s, node.prev, node.next)
                  ELSE [s EXCEPT !.heads[node.hash] = node.next]
    IN  SetPrev(before, node.next, node.prev)

\* SVC_RelinkToHead: nothing to do for a bucket that is the head.
RelinkToHead(s, i, h) ==
    IF s.b[i].prev = Null THEN s
    ELSE PushFront(SetPrev(SetNext(s, s.b[i].prev, s.b[i].next), s.b[i].next, s.b[i].prev), i, h)

-----------------------------------------------------------------------------
(* SVC_BucketForAddress *)

\* The n of the loop over the chain at which it comes upon a.
DepthsOf(a) ==
    LET node == Walk(Now, HashOf[a])
    IN  {n \in 0 .. NumBuckets : node[n] # Null /\ buckets[node[n]].address = a}

\* The bucket of the k-th turn of the search.
Scanned(k) == 1 + ((start + k) % NumBuckets)

\* Defective: every bucket is reclaimed that did nothing in this tick.
UsableWhenIdle(i) == buckets[i].address = NoAddress \/ buckets[i].rate.age > 0

Usable(i) == buckets[i].address = NoAddress \/ Expired(buckets[i].rate)

Turns == {k \in 0 .. NumBuckets - 1 : Usable(Scanned(k))}

First(S) == CHOOSE k \in S : \A j \in S : k <= j

Found(a, n) ==
    LET i == Walk(Now, HashOf[a])[n]
    IN  [s |-> IF n > RelinkAfter THEN RelinkToHead(Now, i, HashOf[a]) ELSE Now,
         bucket |-> i, start |-> start]

Allocated(a, i) ==
    LET unlinked == IF buckets[i].address = NoAddress THEN Now ELSE UnlinkBucket(Now, i)
        claimed == [unlinked EXCEPT !.b[i].address = a, !.b[i].hash = HashOf[a],
                                    !.b[i].rate = NewBucket]
    IN  [s |-> PushFront(claimed, i, HashOf[a]), bucket |-> i, start |-> i % NumBuckets]

\* What the lookup leaves behind, and the bucket it returns.
BucketForAddress(a) ==
    LET depths == DepthsOf(a)
        turns == Turns
    IN  CASE depths # {} -> Found(a, First(depths))
          [] depths = {} /\ turns # {} -> Allocated(a, Scanned(First(turns)))
          [] OTHER -> [s |-> Now, bucket |-> Null, start |-> start]

\* The state after a lookup and a change of the bucket it returned.
Store(r, rate) ==
    /\ buckets' = [r.s.b EXCEPT ![r.bucket].rate = rate]
    /\ bucketHashes' = r.s.heads
    /\ start' = r.start

-----------------------------------------------------------------------------
Init ==
    /\ buckets = [i \in Indices |-> Free]
    /\ bucketHashes = [h \in Hashes |-> Null]
    /\ start = 0
    /\ debt = [a \in Addresses |-> 0]
    /\ penalty = [a \in Addresses |-> 0]

\* SVC_RateLimitAddress; a lookup without a bucket is a refusal.
Request(a) ==
    LET r == BucketForAddress(a)
        rate == r.s.b[r.bucket].rate
    IN  /\ IF r.bucket = Null
           THEN UNCHANGED <<buckets, bucketHashes, start, debt>>
           ELSE /\ Store(r, RateLimit(rate))
                /\ debt' = IF Admits(rate) THEN Table!Owing(a) ELSE debt
        /\ UNCHANGED penalty

\* SV_DirectConnect: the lookups that follow the first one find its bucket, at
\* most RelinkAfter deep.
Connect(a, accepted) ==
    LET r == BucketForAddress(a)
        rate == r.s.b[r.bucket].rate
        restored == RestoreBurst(RateLimit(rate))
    IN  /\ r.bucket # Null
        /\ Admits(rate)
        /\ Store(r, IF accepted THEN RestoreToxic(restored) ELSE restored)
        /\ UNCHANGED <<debt, penalty>>

\* SVC_RateDropAddress.
Drop(a) ==
    LET r == BucketForAddress(a)
        dropped == RateDrop(r.s.b[r.bucket].rate)
    IN  /\ r.bucket # Null
        /\ Store(r, dropped)
        /\ penalty' = Table!Barred(a, dropped)
        /\ UNCHANGED debt

Tick ==
    /\ buckets' = [i \in Indices |->
                      IF i \in Used THEN [buckets[i] EXCEPT !.rate = Older(@)] ELSE buckets[i]]
    /\ debt' = Table!Passed(debt)
    /\ penalty' = Table!Passed(penalty)
    /\ UNCHANGED <<bucketHashes, start>>

Next ==
    \/ \E a \in Addresses :
        \/ Request(a)
        \/ \E accepted \in BOOLEAN : Connect(a, accepted)
        \/ Drop(a)
    \/ Tick

Spec == Init /\ [][Next]_vars

-----------------------------------------------------------------------------
\* The type of the state.
TypeOK ==
    /\ buckets \in [Indices -> [address : Addresses \cup {NoAddress}, hash : Hashes,
                                next : Indices \cup {Null}, prev : Indices \cup {Null},
                                rate : Bucket]]
    /\ bucketHashes \in [Hashes -> Indices \cup {Null}]
    /\ start \in 0 .. NumBuckets - 1

\* Reclaiming and relinking leave every chain whole: it ends, its prev pointers
\* mirror its next pointers, and it holds the buckets in use of its hash, each
\* once and no others. So the search of SVC_BucketForAddress ends, never comes
\* upon a free bucket, and finds the bucket of every address that has one.
ChainsWhole ==
    /\ TypeOK
    /\ \A h \in Hashes :
        LET node == Walk(Now, h)
            members == {i \in Used : HashOf[buckets[i].address] = h}
            last == Cardinality(members) - 1
        IN  /\ {node[n] : n \in 0 .. last} = members
            /\ node[last + 1] = Null
            /\ \A n \in 0 .. last :
                /\ buckets[node[n]].prev = IF n = 0 THEN Null ELSE node[n - 1]
                /\ buckets[node[n]].hash = h

\* The array and its chains are a table that gives every address one bucket:
\* no second one is allocated for an address that has one, and no bucket is
\* reclaimed that still limits its address (SVC_BucketForAddress).
ImplementsTable == Table!Spec

\* An address is never admitted beyond its burst, even when its bucket was
\* reclaimed and allocated anew in between, and one that was dropped is refused
\* until its burst times its toxicity has leaked away (SVC_RateLimitAddress,
\* SVC_RateDropAddress).
LimitsKept == Table!LimitsKept
=============================================================================
