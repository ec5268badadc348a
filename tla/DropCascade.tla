----------------------------- MODULE DropCascade -----------------------------
(* SV_AddServerCommand, SV_SendServerCommand and SV_DropClient as they call   *)
(* each other: a command too many drops its client, which is told to everyone *)
(* else, which may drop others in the middle of it. ClientSlots says in one   *)
(* step what this comes to.                                                   *)
EXTENDS ClientSlots, SequencesExt

InOrder == [s \in Slots |-> s]

RECURSIVE NestedAddServerCommand(_, _)

NestedBroadcast(sv) == FoldLeftDomain(LAMBDA acc, s : NestedAddServerCommand(acc, s), sv, InOrder)

MakeZombie(sv, s) ==
    [sv EXCEPT !.slots[s].just = FALSE, !.slots[s].state = "zombie",
               !.slots[s].room = MaxRoom, !.slots[s].odd = "no"]

NestedDropClient(sv, s, reason) ==
    IF sv.slots[s].state = "zombie" THEN sv
    ELSE LET freed == FreeClient(sv, s)
             told  == IF reason THEN NestedBroadcast(freed) ELSE freed
             left  == GameDisconnect(told, s)
         IN  MakeZombie(IF reason THEN NestedAddServerCommand(left, s) ELSE left, s)

\* The window is collapsed before the drop, for the broadcast comes back here.
NestedAddServerCommand(sv, s) ==
    IF sv.slots[s].state # "active" THEN sv
    ELSE IF sv.slots[s].room > 0 THEN [sv EXCEPT !.slots[s].room = @ - 1]
    ELSE NestedDropClient(Collapsed(sv, s), s, TRUE)

-----------------------------------------------------------------------------
\* The servers a call may begin with: the slots of different clients, each of a
\* user of its own, connected, in the game with any window, or gone.
InUse(s, state, room) ==
    LET c == CHOOSE d \in Clients : d[2] = s IN
    [EmptySlot EXCEPT !.state = state, !.who = c, !.user = User[c], !.room = room,
                      !.auth = IF state = "zombie" THEN "none" ELSE "valid"]

Standings == ({"zombie", "connected"} \X {MaxRoom}) \cup ({"active"} \X (0 .. MaxRoom))

ServerOf(standing) ==
    LET used == [s \in Slots |-> InUse(s, standing[s][1], standing[s][2])]
        here == {s \in Slots : Live(used[s])}
    IN  [slots |-> used, game |-> here, sessions |-> {used[s].user : s \in here}]

\* However drops and commands nest, in the middle of each other and of the
\* client's own drop, they end, every client that overflows is dropped once and
\* the others are charged one command for each drop: what ClientSlots says of
\* a whole call. (A command that overflows is a drop with its window collapsed.)
CascadesSettle ==
    \A standing \in [Slots -> Standings], s \in Slots, reason \in BOOLEAN :
        LET sv == ServerOf(standing) IN
        NestedDropClient(sv, s, reason) = DropClient(sv, s, reason)
=============================================================================
