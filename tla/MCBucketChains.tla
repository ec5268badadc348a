---------------------------- MODULE MCBucketChains ----------------------------
(* Three addresses share a chain, which a fourth does not.                    *)
EXTENDS BucketChains, TLC

CONSTANTS a1, a2, a3, a4, h1, h2

MCHashOf == [a \in Addresses |-> IF a = a4 THEN h2 ELSE h1]
MCSymmetry == Permutations({a1, a2, a3})
=============================================================================
