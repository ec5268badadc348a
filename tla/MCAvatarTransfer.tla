-------------------------- MODULE MCAvatarTransfer --------------------------
(* One user's avatar in several sizes: one more than the cache and the        *)
(* worker's queue hold, or two, for liveness.                                 *)
EXTENDS AvatarTransfer, TLC

CONSTANT user

MCUsers == {user}
ThreeSizes == {<<user, 0>>, <<user, 1>>, <<user, 2>>}
TwoSizes == {<<user, 0>>, <<user, 2>>}
=============================================================================
