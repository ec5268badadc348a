----------------------------- MODULE LeakyBucket -----------------------------
(* One leaky bucket of the server: leakyBucket_t and its rateLimit_t, what a  *)
(* request, a drop and a connect do to it, and what the clock does. Every     *)
(* caller that limits an address passes one burst and one period, 10 requests *)
(* and a second.                                                              *)
EXTENDS Integers

CONSTANTS
    Burst,    \* requests an address may have outstanding
    Period,   \* ticks of the clock in which one of them leaks away
    MaxToxic  \* 10000 in SVC_RateDrop

ASSUME RateAssumption == {Burst, Period, MaxToxic} \subseteq Nat \ {0}

\* An age no comparison can tell from a later one; an interval that the int
\* clock makes negative, after 24 days, is treated by the code as such a one.
Old == (Burst * MaxToxic + 1) * Period

\* "age" is the time since lastTime.
Bucket == [burst : 0 .. Burst * MaxToxic, age : 0 .. Old, toxic : 0 .. MaxToxic]

NewBucket == [burst |-> 0, age |-> 0, toxic |-> 0]

Expired(b) == b.age > b.burst * Period

-----------------------------------------------------------------------------
(* SVC_RateLimit: what has leaked since lastTime, then the limit. *)

Leaked(b) ==
    IF b.age \div Period > b.burst
    THEN [b EXCEPT !.burst = 0, !.age = 0]
    ELSE [b EXCEPT !.burst = @ - b.age \div Period, !.age = @ % Period]

Admits(b) == Leaked(b).burst < Burst

RateLimit(b) ==
    IF Admits(b) THEN [Leaked(b) EXCEPT !.burst = @ + 1] ELSE Leaked(b)

\* Defective: the time the bucket was last used is kept.
RateDropAged(b) ==
    LET toxic == IF b.toxic < MaxToxic THEN b.toxic + 1 ELSE b.toxic
    IN  [b EXCEPT !.burst = Burst * toxic, !.toxic = toxic]

RateDrop(b) ==
    LET toxic == IF b.toxic < MaxToxic THEN b.toxic + 1 ELSE b.toxic
    IN  [burst |-> Burst * toxic, age |-> 0, toxic |-> toxic]

RestoreBurst(b) == [b EXCEPT !.burst = IF @ > 0 THEN @ - 1 ELSE @]

RestoreToxic(b) == [b EXCEPT !.toxic = IF @ > 0 THEN @ - 1 ELSE @]

Older(b) == [b EXCEPT !.age = IF @ < Old THEN @ + 1 ELSE @]
=============================================================================
