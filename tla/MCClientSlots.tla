---------------------------- MODULE MCClientSlots ----------------------------
(* Two client programs of one user on one address, such as a client that was  *)
(* started anew: the qport tells them apart. The second may be of an older    *)
(* protocol, so that it needs no session.                                     *)
EXTENDS ClientSlots, TLC

CONSTANTS address, q1, q2, user

MCClients == {<<address, q1>>, <<address, q2>>}
MCOlder == {<<address, q2>>}
MCUser == [c \in MCClients |-> user]

\* The calls that nest, for the clients of four users, and the fewest commands
\* that a window may have for them. A user is named by its number.
FourClients == {<<address, q>> : q \in 1 .. 4}
FourUsers == [c \in FourClients |-> c[2]]
Four == INSTANCE DropCascade WITH
    MaxClients <- 4, MaxRoom <- 4, Clients <- FourClients, Older <- {}, User <- FourUsers, NoUser <- 0

ASSUME CascadesAssumption == Four!CascadesSettle
=============================================================================
