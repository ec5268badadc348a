----------------------------- MODULE ClientSlots -----------------------------
(* Client slots of the server, from the connect datagram to the freed slot:   *)
(* SV_DirectConnect, SV_FreeClient, SV_DropClient, SV_CheckTimeouts,          *)
(* SV_PacketEvent and the two places that connect everybody to a new game.    *)
(* What the game has been told (GAME_CLIENT_CONNECT, GAME_CLIENT_DISCONNECT)  *)
(* and the platform's authentication sessions are kept beside the slots.      *)
(* Remote clients only: bots, loopback and reserved slots are left out, and a *)
(* refusal that changes nothing (rate, filter, version, stale challenge) is   *)
(* the loss of the datagram.                                                  *)
EXTENDS Integers, FiniteSets, FiniteSetsExt, Functions

CONSTANTS
    MaxClients,      \* sv.maxclients
    Clients,         \* <<address, qport>> of every client program
    NoClient,
    Older,           \* clients that may be of a protocol before 69
    User,            \* the platform identity of each client
    NoUser,
    MaxPerIP,        \* sv_maxclientsPerIP, the addresses having one IP
    ReconnectLimit,  \* sv_reconnectlimit; times are in ticks of one length
    ZombieTime,      \* sv_zombietime
    ConnectTime,     \* 4 seconds for the first packet
    AuthTime,        \* 10 seconds for the platform's answer
    Timeout,         \* sv_timeout
    MaxRoom          \* MAX_RELIABLE_COMMANDS

ASSUME SlotsAssumption ==
    /\ {MaxClients, MaxPerIP, MaxRoom} \subseteq Nat \ {0}
    /\ MaxClients <= MaxRoom  \* MAX_CLIENTS = 64 = MAX_RELIABLE_COMMANDS
    /\ {ReconnectLimit, ZombieTime, ConnectTime, AuthTime, Timeout} \subseteq Nat
    /\ \A c \in Clients : c = <<c[1], c[2]>>
    /\ NoClient \notin Clients /\ Older \subseteq Clients
    /\ NoUser \notin Range(User) /\ DOMAIN User = Clients

VARIABLES
    retail,    \* clients the platform must authenticate; they do not change
    slots,     \* svs.clients
    game,      \* the slots in which the game has a client
    sessions,  \* identities with an authentication session on the platform
    tickets,   \* pendingRetailAuth: address -> identity, or NoUser
    clients,   \* the client programs: how far each has got
    connects   \* clients of which a connect datagram may still arrive

vars == <<retail, slots, game, sessions, tickets, clients, connects>>

Slots == 1 .. MaxClients
AddressOf(c) == c[1]
Addresses == {AddressOf(c) : c \in Clients}
Least(S) == CHOOSE i \in S : \A j \in S : i <= j

\* Ages stop where no comparison can tell them apart.
OldConnect == Max({ReconnectLimit, AuthTime + 1})
OldPacket == 1 + Max({ZombieTime, ConnectTime, Timeout})

\* "active" stands for CS_PRIMED and CS_ACTIVE. "linked" says that the client
\* has this connection's response, so that its messages are of this
\* connection. "odd" is history: how the slot and the game came apart.
EmptySlot == [state |-> "free", who |-> NoClient, just |-> FALSE, linked |-> FALSE,
              sinceConnect |-> OldConnect, sincePacket |-> 0, auth |-> "none", user |-> NoUser,
              room |-> MaxRoom, odd |-> "no"]

SlotRecords == [state : {"free", "zombie", "connected", "active"},
                who : Clients \cup {NoClient}, just : BOOLEAN, linked : BOOLEAN,
                sinceConnect : 0 .. OldConnect, sincePacket : 0 .. OldPacket,
                auth : {"none", "pending", "valid"}, user : Range(User) \cup {NoUser},
                room : 0 .. MaxRoom, odd : {"no", "refused", "readmitted", "restarted"}]

TypeOK ==
    /\ retail \subseteq Clients
    /\ slots \in [Slots -> SlotRecords]
    /\ game \subseteq Slots
    /\ sessions \subseteq Range(User)
    /\ tickets \in [Addresses -> Range(User) \cup {NoUser}]
    /\ clients \in [Clients -> {"off", "challenging", "connected"}]
    /\ connects \subseteq Clients

\* A ticket is asked of clients of QL_RETAIL_PROTOCOL_VERSION while
\* SV_PlatformServiceAvailable( AUTH ). A server that has no such service asks
\* nobody, and a client of an older protocol, which is let in with any, is not
\* asked.
Init ==
    /\ retail \in {{}} \cup {Clients \ old : old \in SUBSET Older}
    /\ slots = [s \in Slots |-> EmptySlot]
    /\ game = {}
    /\ sessions = {}
    /\ tickets = [a \in Addresses |-> NoUser]
    /\ clients = [c \in Clients |-> "off"]
    /\ connects = {}

Live(slot) == slot.state \in {"connected", "active"}

-----------------------------------------------------------------------------
(* Calls that other handlers make. They work on a record of what a server    *)
(* call can change, because dropping a client broadcasts, and a broadcast    *)
(* drops every client whose window of unacknowledged commands is full, which  *)
(* broadcasts again. This is what such a cascade comes to; DropCascade has    *)
(* the calls as the code nests them.                                         *)

Server == [slots |-> slots, game |-> game, sessions |-> sessions]
Becomes(sv) == slots' = sv.slots /\ game' = sv.game /\ sessions' = sv.sessions

\* The loop of a handler over the slots.
EachSlot(Step(_, _), sv) ==
    LET after[n \in 0 .. MaxClients] == IF n = 0 THEN sv ELSE Step(after[n - 1], n)
    IN  after[MaxClients]

FreeClient(sv, s) ==
    [sv EXCEPT !.slots[s].auth = "none",
               !.sessions = IF sv.slots[s].auth = "none" THEN @ ELSE @ \ {sv.slots[s].user}]

GameDisconnect(sv, s) == [sv EXCEPT !.game = @ \ {s}]

\* What SV_DropClient leaves of each of the clients lost.
Zombie(slot) ==
    [slot EXCEPT !.state = "zombie", !.just = FALSE, !.auth = "none", !.room = MaxRoom, !.odd = "no"]

Dropped(sv, lost) ==
    [slots |-> [s \in Slots |-> IF s \in lost THEN Zombie(sv.slots[s]) ELSE sv.slots[s]],
     game |-> sv.game \ lost,
     sessions |-> sv.sessions \ {sv.slots[s].user : s \in {t \in lost : sv.slots[t].auth # "none"}}]

\* The clients whose windows n broadcasts overrun.
Overrun(sv, n) == {s \in Slots : sv.slots[s].state = "active" /\ sv.slots[s].room < n}

\* One broadcast, and one more for every client that is dropped on the way.
Broadcasts(sv) == Least({n \in 1 .. MaxClients + 1 : Cardinality(Overrun(sv, n)) < n})

Charged(slot, n) == IF slot.state = "active" THEN [slot EXCEPT !.room = @ - n] ELSE slot

Broadcast(sv) ==
    LET n    == Broadcasts(sv)
        lost == Overrun(sv, n)
    IN  Dropped([sv EXCEPT !.slots = [s \in Slots |->
                    IF s \in lost THEN sv.slots[s] ELSE Charged(sv.slots[s], n)]], lost)

Collapsed(sv, s) == [sv EXCEPT !.slots[s].room = MaxRoom]

\* Everybody is told, then the client itself is sent "disconnect": if that
\* overflows its window, it is dropped for it once more.
Told(sv, s) ==
    LET all == Broadcast(sv) IN
    IF all.slots[s].state = "active" /\ all.slots[s].room = 0
    THEN Broadcast(Collapsed(all, s)) ELSE all

DropClient(sv, s, reason) ==
    IF sv.slots[s].state = "zombie" THEN sv
    ELSE Dropped(IF reason THEN Told(sv, s) ELSE sv, {s})

\* Defective variant: an overflow is not noticed.
AddServerCommandUnbounded(sv, s) ==
    IF sv.slots[s].state # "active" THEN sv ELSE [sv EXCEPT !.slots[s].room = @ - 1]

AddServerCommand(sv, s) ==
    IF sv.slots[s].state # "active" THEN sv
    ELSE IF sv.slots[s].room > 0 THEN [sv EXCEPT !.slots[s].room = @ - 1]
    ELSE DropClient(Collapsed(sv, s), s, TRUE)

\* A freed slot keeps its address, qport and time of connection.
Free(sv, s) ==
    [sv EXCEPT !.slots[s].state = "free", !.slots[s].sincePacket = 0,
               !.slots[s].linked = FALSE, !.slots[s].user = NoUser]

-----------------------------------------------------------------------------
(* Client programs.                                                          *)

\* connect, getchallenge and its response. The ticket is kept on the server
\* from then on, for the address, in place of an earlier one (and expires at
\* once where the client has none); an older client sends none. In CA_CHALLENGING
\* CL_CheckForResend sends connect again and again, so that one is always to be
\* expected.
ObtainChallenge(c) ==
    /\ clients[c] = "off"
    /\ clients' = [clients EXCEPT ![c] = "challenging"]
    /\ tickets' = [tickets EXCEPT ![AddressOf(c)] = IF c \in retail THEN User[c] ELSE @]
    /\ connects' = connects \cup {c}
    /\ UNCHANGED <<retail, slots, game, sessions>>

\* The last datagram under way arrived or was lost.
LoseConnect(c) ==
    /\ c \in connects
    /\ clients[c] # "challenging"
    /\ connects' = connects \ {c}
    /\ UNCHANGED <<retail, slots, game, sessions, tickets, clients>>

TicketExpires(a) ==
    /\ tickets[a] # NoUser
    /\ tickets' = [tickets EXCEPT ![a] = NoUser]
    /\ UNCHANGED <<retail, slots, game, sessions, clients, connects>>

\* The program ends or gives up; its disconnect command may reach the server.
SlotsOf(c) == {s \in Slots : slots[s].state # "free" /\ slots[s].who = c}

Quit(c) ==
    /\ clients[c] # "off"
    /\ clients' = [clients EXCEPT ![c] = "off"]
    /\ \/ UNCHANGED <<slots, game, sessions>>
       \/ \E s \in SlotsOf(c) : slots[s].linked /\ Becomes(DropClient(Server, s, TRUE))
    /\ UNCHANGED <<retail, tickets, connects>>

\* SV_PacketEvent: any message of the client keeps its slot alive; one of this
\* connection acknowledges commands and, at first, is sent the gamestate. A slot's
\* address keeps its port: no router translates it ("fixing up a translated port").
Packet(c) ==
    /\ clients[c] = "connected"
    /\ SlotsOf(c) # {}
    /\ LET s == Least(SlotsOf(c)) IN
       /\ slots[s].state # "zombie"
       /\ \/ /\ slots[s].linked
             /\ \E room \in {slots[s].room, MaxRoom}, state \in {slots[s].state, "active"} :
                  slots' = [slots EXCEPT ![s].sincePacket = 0, ![s].just = FALSE,
                                         ![s].room = room, ![s].state = state]
          \/ /\ ~slots[s].linked
             /\ slots' = [slots EXCEPT ![s].sincePacket = 0]
    /\ UNCHANGED <<retail, game, sessions, tickets, clients, connects>>

-----------------------------------------------------------------------------
(* SV_DirectConnect.                                                         *)

TooManyConnections ==
    Cardinality({s \in Slots : Live(slots[s]) /\ ~slots[s].just}) >= MaxPerIP

\* Slots with the client's address, free ones too.
SameAddress(c) ==
    {s \in Slots : slots[s].who # NoClient /\ AddressOf(slots[s].who) = AddressOf(c)}

\* Defective variant: the time since the connection is not looked at.
TooSoonNever(c) == FALSE

\* Only the first slot with the address is looked at.
TooSoon(c) ==
    /\ SameAddress(c) # {}
    /\ slots[Least(SameAddress(c))].sinceConnect < ReconnectLimit

FreeSlots == {s \in Slots : slots[s].state = "free"}

\* Defective variant: a slot that the client still has is not looked for.
CandidatesFree(c) == FreeSlots

\* The client's own slot; the first of its address, if that is free; or any
\* free one (the code takes the one left longest ago, on which nothing here
\* depends).
Candidates(c) ==
    IF SlotsOf(c) # {} THEN {Least(SlotsOf(c))}
    ELSE IF SameAddress(c) # {} /\ Least(SameAddress(c)) \in FreeSlots
         THEN {Least(SameAddress(c))}
         ELSE FreeSlots

\* Defective variant: the game is not told that the client left.
ReleasedSilently(sv, s) == IF Live(sv.slots[s]) THEN FreeClient(sv, s) ELSE sv

\* The game is told that a client still connected there has left.
Released(sv, s) ==
    IF Live(sv.slots[s]) THEN FreeClient(GameDisconnect(sv, s), s) ELSE sv

NewSlot(c, user, auth, linked) ==
    [EmptySlot EXCEPT !.state = "connected", !.who = c, !.just = TRUE, !.linked = linked,
                      !.sinceConnect = 0, !.auth = auth,
                      !.user = IF auth = "none" THEN NoUser ELSE user]

\* BeginAuthSession. The platform refuses a second session of an identity.
BeginAuthSession(sv, user) ==
    IF user \in sv.sessions THEN {"rejected"} ELSE {"pending", "valid", "rejected"}

\* The ticket that is kept may belong to another challenge than this connect: of
\* another client on the address, or of a later attempt. It stays then.
TicketsFor(c) == IF c \in retail THEN {tickets[AddressOf(c)], NoUser} ELSE {NoUser}

\* What becomes of the ticket: how the slot is authenticated, or a refusal.
AuthResults(sv, c, user) ==
    IF c \notin retail THEN {"none"}
    ELSE IF user = NoUser THEN {"rejected"}
    ELSE BeginAuthSession(sv, user)

\* A refusal returns and leaves the slot as it is by then.
Refuse(sv, s) ==
    Becomes([sv EXCEPT !.slots[s].odd = IF Live(sv.slots[s]) THEN "refused" ELSE @])

\* Defective variant: the session that was just begun is left open.
DenyKept(sv, s) == Becomes([sv EXCEPT !.slots[s] = [EmptySlot EXCEPT !.odd = slots[s].odd]])

\* GAME_CLIENT_CONNECT may deny: SV_FreeClient and an empty slot.
Deny(sv, s) ==
    Becomes([FreeClient(sv, s) EXCEPT !.slots[s] = [EmptySlot EXCEPT !.odd = slots[s].odd]])

Accept(sv, c, s, user, auth, linked) ==
    [sv EXCEPT !.slots[s] = NewSlot(c, user, auth, linked),
               !.sessions = IF auth = "none" THEN @ ELSE @ \cup {user}]

DirectConnect(c) ==
    /\ c \in connects
    /\ ~TooManyConnections
    /\ ~TooSoon(c)
    /\ \E s \in Candidates(c), user \in TicketsFor(c) :
         LET sv == Released(Server, s) IN
         /\ tickets' = IF user = NoUser THEN tickets
                       ELSE [tickets EXCEPT ![AddressOf(c)] = NoUser]
         /\ \E auth \in AuthResults(sv, c, user) :
              \/ auth = "rejected" /\ Refuse(sv, s) /\ UNCHANGED clients
              \/ /\ auth # "rejected"
                 /\ Deny(Accept(sv, c, s, user, auth, FALSE), s)
                 /\ UNCHANGED clients
              \* The response reaches a client that waits for it, or does not.
              \/ /\ auth # "rejected"
                 /\ \E linked \in {FALSE, clients[c] = "challenging"} :
                      /\ Becomes([Accept(sv, c, s, user, auth, linked) EXCEPT
                                      !.game = @ \cup {s}])
                      /\ clients' = [clients EXCEPT ![c] = IF linked THEN "connected" ELSE @]
    /\ UNCHANGED <<retail, connects>>

-----------------------------------------------------------------------------
(* The rest of the server.                                                   *)

\* SV_HandleSteamProviderEvent: the platform's answer for an identity.
Answered(sv, s, user, ok) ==
    IF sv.slots[s].user # user \/ sv.slots[s].auth = "none" \/ ~Live(sv.slots[s]) THEN sv
    ELSE IF ok THEN [sv EXCEPT !.slots[s].auth = "valid"]
    ELSE DropClient(sv, s, TRUE)

AnsweredAll(sv, user, ok) == EachSlot(LAMBDA w, s : Answered(w, s, user, ok), sv)

AuthResult(user) ==
    /\ user \in sessions
    /\ \E ok \in BOOLEAN : Becomes(AnsweredAll(Server, user, ok))
    /\ UNCHANGED <<retail, tickets, clients, connects>>

\* The game or the server sends a command to a client.
SendServerCommand ==
    /\ \E s \in Slots : Becomes(AddServerCommand(Server, s))
    /\ UNCHANGED <<retail, tickets, clients, connects>>

\* Defective variant: a silent client is left alone once it has sent a packet.
TimedOutJust(slot) == slot.just /\ slot.sincePacket > Timeout

\* Five more frames have to pass, which is less than a tick.
TimedOut(slot) == slot.sincePacket > Timeout

CheckTimeout(sv, s) ==
    LET slot == sv.slots[s] IN
    CASE slot.state = "free" -> sv
      [] slot.state # "free" /\ slot.auth = "pending" /\ slot.sinceConnect > AuthTime ->
            DropClient(sv, s, TRUE)
      [] OTHER ->
           IF slot.state = "zombie"
           THEN IF slot.sincePacket > ZombieTime THEN Free(sv, s) ELSE sv
           ELSE IF slot.just /\ slot.sincePacket > ConnectTime
           THEN Free(DropClient(sv, s, FALSE), s)
           ELSE IF TimedOut(slot) THEN Free(DropClient(sv, s, TRUE), s)
           ELSE sv

Aged(slot) ==
    [slot EXCEPT !.sinceConnect = IF @ < OldConnect THEN @ + 1 ELSE @,
                 !.sincePacket = IF slot.state = "free" THEN 0
                                 ELSE IF @ < OldPacket THEN @ + 1 ELSE @]

CheckedAll(sv) == EachSlot(CheckTimeout, sv)

\* SV_Frame: time passes, then SV_CheckTimeouts goes through the slots.
Tick ==
    /\ Becomes(CheckedAll([Server EXCEPT !.slots = [s \in Slots |-> Aged(slots[s])]]))
    /\ UNCHANGED <<retail, tickets, clients, connects>>

\* GAME_CLIENT_CONNECT for a client of the game before; denied, it is dropped.
Reconnect(sv, s, denied) ==
    IF s \in denied THEN DropClient(sv, s, TRUE)
    ELSE [sv EXCEPT !.game = @ \cup {s}]

Readmitted(odd) == IF odd = "refused" THEN "readmitted" ELSE odd

Connected == {s \in Slots : Live(slots[s])}

\* SV_SpawnServer: everybody starts again from the gamestate.
Respawned(sv, s, denied) ==
    IF ~Live(sv.slots[s]) THEN sv
    ELSE IF s \in denied THEN Reconnect(sv, s, denied)
    ELSE [Reconnect(sv, s, denied) EXCEPT !.slots[s].state = "connected",
                                          !.slots[s].odd = Readmitted(@)]

RespawnedAll(sv, denied) == EachSlot(LAMBDA w, s : Respawned(w, s, denied), sv)

SpawnServer ==
    /\ \E denied \in SUBSET Connected :
         Becomes(RespawnedAll([Server EXCEPT !.game = {}], denied))
    /\ UNCHANGED <<retail, tickets, clients, connects>>

\* SV_MapRestart_f: each client is sent map_restart and connected. A client
\* dropped for that command is connected all the same.
Restarted(sv, s, denied) ==
    IF ~Live(sv.slots[s]) THEN sv
    ELSE LET told == AddServerCommand(sv, s) IN
         IF s \in denied THEN Reconnect(told, s, denied)
         ELSE [Reconnect(told, s, denied) EXCEPT
                  !.slots[s].odd = IF Live(told.slots[s]) THEN Readmitted(@) ELSE "restarted"]

RestartedAll(sv, denied) == EachSlot(LAMBDA w, s : Restarted(w, s, denied), sv)

MapRestart ==
    /\ \E denied \in SUBSET Connected :
         Becomes(RestartedAll([Server EXCEPT !.game = {}], denied))
    /\ UNCHANGED <<retail, tickets, clients, connects>>

-----------------------------------------------------------------------------

Next ==
    \/ \E c \in Clients : \/ ObtainChallenge(c) \/ LoseConnect(c)
                          \/ Quit(c) \/ Packet(c) \/ DirectConnect(c)
    \/ \E a \in Addresses : TicketExpires(a)
    \/ \E u \in Range(User) : AuthResult(u)
    \/ SendServerCommand
    \/ Tick
    \/ SpawnServer
    \/ MapRestart

AllFree == \A s \in Slots : slots[s].state = "free"
TimePasses == \E s \in Slots : slots'[s].sincePacket > slots[s].sincePacket

\* The server's frames go on while a slot is in use, and no datagram stays
\* under way for ever. (Weak fairness of Tick and of LoseConnect, said of what
\* they change.)
Fairness ==
    /\ []<><<AllFree \/ TimePasses>>_vars
    /\ \A c \in Clients : []<>(c \in connects => clients[c] = "challenging")

Spec == Init /\ [][Next]_vars
LiveSpec == Spec /\ Fairness
-----------------------------------------------------------------------------
(* Properties.                                                               *)

\* One slot to a client: no two slots in use have the same address and qport,
\* so that SV_PacketEvent finds the connection a message belongs to.
OneSlotPerClient ==
    \A s, t \in Slots :
        s # t /\ slots[s].state # "free" /\ slots[t].state # "free"
            => slots[s].who # slots[t].who

\* The game's clients are the connected ones, through reconnections, drops
\* inside drops, map changes and restarts: except a client whose reconnection
\* was refused after the game had been told it left, and one that was dropped
\* for the map_restart command and connected to the new game all the same.
GameInStep ==
    \A s \in Slots :
        /\ Live(slots[s]) /\ slots[s].odd # "refused" => s \in game
        /\ s \in game /\ slots[s].odd # "restarted" => Live(slots[s])

\* The same without the exceptions: "call QVM disconnect function before
\* calling connect again" (SV_DirectConnect).
GameAlwaysInStep == \A s \in Slots : s \in game <=> Live(slots[s])

\* Every session of the platform is held by the one slot that will end it. A
\* connected client that the platform must authenticate has a session, one that
\* was validated within AuthTime: except a client whose reconnection was refused.
\* Who comes with an older protocol is let in without a session.
SessionsHeld ==
    /\ \A u \in sessions :
         \E s \in Slots : {t \in Slots : slots[t].auth # "none" /\ slots[t].user = u} = {s}
    /\ \A s \in Slots :
         /\ slots[s].auth # "none" => slots[s].user \in sessions
         /\ slots[s].who \in retail /\ Live(slots[s])
            /\ slots[s].odd \notin {"refused", "readmitted"}
              => \/ slots[s].auth = "valid"
                 \/ slots[s].auth = "pending" /\ slots[s].sinceConnect <= AuthTime

\* A connection its client knows of is neither taken down nor begun anew by the
\* client's next connect datagram, repeated or duplicated, before
\* sv_reconnectlimit has passed (it may be dropped or time out, which leaves the
\* client's address in the slot): unless an earlier slot has the address too, at
\* whose time SV_DirectConnect looks instead.
ReconnectLimitKept ==
    [][\A s \in Slots :
         /\ Live(slots[s]) /\ slots[s].linked
         /\ slots[s].sinceConnect < ReconnectLimit
         /\ ~\E t \in SameAddress(slots[s].who) : t < s
         => /\ slots'[s].who = slots[s].who
            /\ slots'[s].sinceConnect >= slots[s].sinceConnect
            /\ \/ ~Live(slots'[s])
               \/ slots'[s].linked /\ (s \in game => s \in game')]_vars

Abandoned(slot) == slot.state # "free" /\ clients[slot.who] = "off"

\* A slot whose client has gone is free in the end, or has a client that is
\* there, whatever the client left under way: no slot is lost for good.
SlotReclaimed == \A s \in Slots : Abandoned(slots[s]) ~> ~Abandoned(slots[s])
=============================================================================
