------------------------------ MODULE RateLimits ------------------------------
(* What the per-address rate limit of the server promises: a table that gives *)
(* an address its leaky bucket, of which there are only so many, and that may *)
(* forget an expired one to make room. BucketChains is the server's table.    *)
EXTENDS LeakyBucket, FiniteSets

CONSTANTS
    Addresses,
    NumBuckets  \* MAX_BUCKETS

VARIABLES
    table,    \* the addresses that have a bucket -> their buckets
    debt,     \* history: the bucket each address would have if none were
              \* forgotten, in ticks until it is empty
    penalty   \* history: ticks for which a dropped address is to be refused

vars == <<table, debt, penalty>>

-----------------------------------------------------------------------------
(* The history, which looks at no bucket: each admission owes one period, and *)
(* after a drop the burst must leak below its limit before the next one.      *)

Owing(a) == [debt EXCEPT ![a] = @ + Period]

Barred(a, b) == [penalty EXCEPT ![a] = (Burst * (b.toxic - 1) + 1) * Period]

Passed(f) == [a \in Addresses |-> IF f[a] > 0 THEN f[a] - 1 ELSE f[a]]

-----------------------------------------------------------------------------
\* The table in which a has taken the place of the addresses in gone.
Replacing(gone, a) ==
    [x \in (DOMAIN table \ gone) \cup {a} |-> IF x = a THEN NewBucket ELSE table[x]]

\* What SVC_BucketForAddress may make of the table: it takes a free bucket or
\* that of an expired address, and finds none when there is neither.
Allocations(a) ==
    {Replacing({x}, a) : x \in {y \in DOMAIN table : Expired(table[y])}}
        \cup (IF Cardinality(DOMAIN table) < NumBuckets THEN {Replacing({}, a)} ELSE {})

BucketForAddress(a) ==
    IF a \in DOMAIN table \/ Allocations(a) = {} THEN {table} ELSE Allocations(a)

With(t, a, b) == [t EXCEPT ![a] = b]

Init ==
    /\ table = [a \in {} |-> NewBucket]
    /\ debt = [a \in Addresses |-> 0]
    /\ penalty = [a \in Addresses |-> 0]

\* A connectionless request: getchallenge, getinfo, getstatus, or a connect
\* that is refused before SVC_RateRestoreBurstAddress.
Request(a) ==
    \E t \in BucketForAddress(a) :
        /\ IF a \in DOMAIN t
           THEN /\ table' = With(t, a, RateLimit(t[a]))
                /\ debt' = IF Admits(t[a]) THEN Owing(a) ELSE debt
           ELSE UNCHANGED <<table, debt>>
        /\ UNCHANGED penalty

\* A connect with a good challenge gives its burst back, and its toxicity too
\* when the client is accepted.
Connect(a, accepted) ==
    \E t \in BucketForAddress(a) :
        /\ a \in DOMAIN t /\ Admits(t[a])
        /\ LET b == RestoreBurst(RateLimit(t[a]))
           IN  table' = With(t, a, IF accepted THEN RestoreToxic(b) ELSE b)
        /\ UNCHANGED <<debt, penalty>>

\* SV_CheckTimeouts drops a client that never sent its first packet.
Drop(a) ==
    \E t \in BucketForAddress(a) :
        /\ a \in DOMAIN t
        /\ table' = With(t, a, RateDrop(t[a]))
        /\ penalty' = Barred(a, RateDrop(t[a]))
        /\ UNCHANGED debt

Tick ==
    /\ table' = [a \in DOMAIN table |-> Older(table[a])]
    /\ debt' = Passed(debt)
    /\ penalty' = Passed(penalty)

Next ==
    \/ \E a \in Addresses :
        \/ Request(a)
        \/ \E accepted \in BOOLEAN : Connect(a, accepted)
        \/ Drop(a)
    \/ Tick

Spec == Init /\ [][Next]_vars

-----------------------------------------------------------------------------
\* An address is never admitted beyond its burst, however often its bucket was
\* reclaimed and allocated anew in between: what it owes stays within the
\* burst and the part of a period that rounding may give it.
BurstBounded == \A a \in Addresses : debt[a] < (Burst + 1) * Period

\* An address that was dropped is refused until the burst times its toxicity
\* has leaked away; its bucket, which knows this, is not reclaimed before.
PenaltyServed ==
    \A a \in Addresses :
        penalty[a] > 0 => a \in DOMAIN table /\ ~Admits(table[a])

\* Both: the limit and the penalty, whatever the table has forgotten.
LimitsKept == BurstBounded /\ PenaltyServed
=============================================================================
