# FnQL: the client/server protocol in TLA+

FnQL is an engine for Quake Live clients and servers, a descendant of
ioquake3. Its own core logic is the protocol between one server and its
clients: message channels over UDP, two streams of reliable commands, the
gamestate that takes a client into a level, file downloads and delta-compressed
snapshots, the slots that clients are admitted to, and the limits that keep
others out. Beside it stands one part that has a thread of its own, the transfer
of Steam avatars. The rest (renderers, audio, UI, bots, file system, virtual
machine, other platform services) is either single-threaded computation or input
and output.

This directory models the protocol, the slots, the limits and the avatars. The
modules are checked with TLC on small instances, and the safety properties of all
of them are proved with TLAPS for every value of their constants.

    MessageChannel      what a netchan promises            (abstract)
    SequenceArith       circular message numbers
    Netchan             fragments, queue, reassembly       implements MessageChannel
    NetchanProofs       the theorems about Netchan
    ReliableCommands    both command streams               over MessageChannel
    ReliableProofs      the theorems about ReliableCommands
    Gamestate           entering a level                   over MessageChannel
    GamestateProofs     the theorems about Gamestate
    Download            file blocks                        over MessageChannel
    DownloadProofs      the theorems about Download
    Snapshot            delta-compressed snapshots         over MessageChannel
    SnapshotProofs      the theorems about Snapshot
    ClientSlots         connecting, dropping, freeing
    DropCascade         drops and broadcasts, call by call over ClientSlots
    ClientSlotsProofs   the theorems about ClientSlots
    LeakyBucket         one bucket
    RateLimits          a bucket for each address          (abstract)
    BucketChains        the array, its hash chains         implements RateLimits
    BucketProofs        the theorems about RateLimits, BucketChains
    AvatarTransfer      worker thread and shader cache
    AvatarProofs        the theorems about AvatarTransfer

`MC*.tla` and `MC*.cfg` give the constants their values for TLC.

## Inventory

The protocol runs in one thread per process: a frame loop (`Com_Frame`) reads the
packets that have arrived, runs each to the end of its handler
(`SV_PacketEvent`, `CL_PacketEvent`), then runs `SV_Frame` and `CL_Frame`. Two
processes run at the same time, so a step of the models is one handler call of
one process, and steps of the two interleave freely with the network. The avatar
worker is a second thread of the client: there a step is one section under its
mutex, or one call of the provider outside it.

| Component | State | Operations | Hard because | Correct when |
|---|---|---|---|---|
| Sequence arithmetic, `qcommon/netchan_safety.hpp` | none | circular compare and advance of 31-bit numbers, 32-bit counters, fragment bounds | wrap, half a circle, equality | a number is newer exactly when it was issued later |
| Netchan, `qcommon/net_chan.cpp`, `server/sv_net_chan.cpp`, `client/cl_net_chan.cpp` | `netchan_t`: outgoing and incoming sequence, send buffer, reassembly buffer; the server's queue | transmit, next fragment, enqueue, process, encode, decode | loss, duplication and reordering of datagrams; a message that arrives while another fragments | messages come out whole, once, in order and decodable |
| Reliable commands, `SV_AddServerCommand`, `SV_ClientCommand`, `CL_AddReliableCommand`, `CL_ParseCommandString`, `CL_GetServerCommand` | two rings of 64 texts, their sequence and acknowledge counters, the last executed command | add, resend with every message, acknowledge, execute, drop, disconnect | windows at their limit, ring slots reused, a drop that re-enters itself, keys taken from ring slots | each command is handled once, in order, unaltered, before later snapshots |
| Gamestate, `SV_SendClientGameState`, `SV_AcknowledgeGamestate`, `SV_UserMove`, `CL_ParseGamestate` | `clientState_t`, `gamestateAck`, `gamestateMessageNum`, `csUpdated`; `connstate_t`, configstrings | send and repeat the gamestate, acknowledge, enter the world, change configstrings and level | a gamestate repeated while its answer is on the way; changes at every stage of connecting | who enters the world has the level's gamestate and current configstrings |
| Download, `SV_WriteDownloadToClient`, `SV_NextDownload_f`, `CL_ParseDownload`, `CL_NextDownload` | ring of blocks, three block counters, end flag; expected block, file | open, read ahead, send, resend, acknowledge, finish, next file | resending while acknowledgements are on the way; block numbers of 16 bits; blocks that do not name their file | a finished file is intact; downloading ends |
| Snapshots, `SV_BuildClientSnapshot`, `SV_WriteSnapshotToClient`, `CL_ParseSnapshot` | two rings of 32 frames, `deltaMessage`, the common snapshots, the client's entity ring | build, delta-encode, parse, invalidate | a delta against a frame the other end lost or has reused; entity storage shared by all clients | no snapshot is decoded against another frame than it was encoded against |
| Handshake and client slots, `SV_GetChallenge`, `SV_DirectConnect`, `SV_CheckTimeouts`, `SV_DropClient`, `SV_MapRestart_f` | `client_t` slots, pending tickets, the platform's sessions, who is in the game | challenge, connect, reconnect, first packet, drop, time out, free, validate, new map, restart | connects lost, repeated and late; a refusal after the game was told; a drop that broadcasts and drops others | a client has one slot, the game and the platform are told of each that comes and goes, slots are freed |
| Rate limiting, `SVC_BucketForAddress`, `SVC_RateLimit`, `SVC_RateDrop` and their callers | an array of leaky buckets, hash chains through it | find, reclaim, relink, leak, admit, drop, restore | two doubly linked chains changed while one is searched; a reclaimed bucket forgets what it knew | no address gets more than its burst and what leaks away, however often buckets are forgotten |
| Steam avatars, `AvatarWorker` in `platform/fnql_steam.cpp`, `CL_GetSteamAvatarImageHandle` and its neighbours in `client/cl_webui.cpp` | the worker's queue, key in flight and results; the cache of shaders and its session; provider and renderer | request, transfer, take, forget, time out, tear down, stop, start | a thread that sleeps, works and is stopped; pictures replaced meanwhile; handles that mean another shader after a restart | no call outlives the provider, what is waited for comes, the right face is drawn |
| Bit stream and Huffman, `qcommon/msg.cpp` | a buffer | read and write | overflow | what is written is read back |
| Loopback, packet queue, lockstep, demos, QVM, file system, bots, renderers, audio, rest of UI and platform services | | | | |

Components call each other directly (a handler adds commands, sends messages,
drops clients) and across the network by messages. Callbacks go to the game and
cgame modules, which may call back: `SV_DropClient` tells the game, which may
send commands.

`PROJECT.json` lists each component's status, and each hazard with its line and
the properties that would catch it going wrong.

## Modules and code

Every definition's source lines are in `PROJECT.json` under `map`. Names are
the code's. A *defective variant* next to a definition is what a plausible bug
would make of it; properties are tested against those variants, no
specification uses them.

**SequenceArith** is `netchan_safety.hpp` with the circle as a parameter.

**Netchan** is one direction of a channel. `sender` says whether the sending end
is a server (one fragment per call, a queue for messages that come meanwhile,
XOR key from the sequence number) or a client (all fragments at once, several
copies of a datagram, key from the message itself). `network` is the set of all
datagrams ever sent: receiving does not remove one, so each may be lost,
repeated and reordered without bound. The receiver is `Netchan_Process` with its
reassembly buffer, byte by byte, so that a byte in the wrong place shows.
`sent`, `accepted` and `delivered` are history.

**MessageChannel** is what the code above relies on: a line of messages, any of
which may be overtaken and lost, none of which repeats or changes. Netchan
implements it (`ChannelSpec`), with the sent messages beyond
`incomingSequence` as the line. The protocol modules use its operator
`Overtake` for reception, on channels that also lose their oldest message when
`MaxInFlight` are on the way; loss anywhere else is overtaking.

**ReliableCommands** has `client_t` and `clientConnection_t` with their rings,
and the texts of commands as the number they were issued under, so that a wrong
slot shows. A packet whose key slot differs at the two ends (`DecodedByServer`,
`DecodedByClient`) is noise, whose outcomes are those the parsers have: an
unknown command byte, a bogus command number that drops the client, an illegible
message. Flood protection has two forms (`SV_ExecuteClientCommand`). A userinfo
command over its rate stops the packet and is sent again (`StopsAfter`); any other
text over the rate of `sv_floodProtect`, which is on by default, is ignored, and
recorded and acknowledged as if it had been executed (`Ignorable`, `Handled`). So
`handledByServer` is the history of what became of each command, and not all of
them reach the game. `gameDisconnects` counts `GAME_CLIENT_DISCONNECT`, `snapIssued`
remembers which commands existed when a snapshot was made.

**Gamestate** takes all configstrings as one version number. Messages that
fragment wait in `client.line` and get their number when their last fragment
leaves, as `SV_Netchan_Transmit` and `SV_Netchan_TransmitNextFragment` do; a
gamestate always fragments, a snapshot may. `GamestateIfRateAllows` is the
`gamestate_rate` limit as a free choice. `gamestateQueued` is history: a
gamestate had to wait in line.

**Download** has both ends' block counters, the server's ring with the content
of each slot (file and block), and the client's file as the sequence of contents
it stored. `timedOut` is the second since the last block. Acknowledgements are
reliable commands, of which a packet brings all up to some number. Which files
the server has is chosen in `Init`.

**Snapshot** has, on the server, `svs` with the common snapshots (`snapFrames`,
their storage `snapshotEntities`, `lastValidFrame`, the free count) and the
client's ring of frames that point into the storage; on the client, `cl` with the
rings `snapshots` and `parseEntities`. A stored entity carries the level and
number of the common snapshot that wrote it, a parsed one the number of its
message, so that an entity that has been overwritten shows. `whole` in a
message says whether the frame it was written from was still what its number
says, `right` in a client's snapshot whether it was rebuilt from the same;
neither exists in the code. `SV_SendOtherSnapshots` is a server frame in which
only other clients are sent to, which uses up storage. Of the gamestate
handshake it keeps the level, `gamestateMessageNum` and a free choice between
acceptance and repetition wherever Gamestate may do either; fragmenting only
delays a snapshot, since none is built while another waits. A packet without
usercmds is left out: it does nothing a packet that is not accepted does not.
What is in view is everything, up to `MAX_SNAPSHOT_ENTITIES`, and a delta always
removes an entity when its base has one, which is the worst case for the ring.

**ClientSlots** has `svs.clients` with what decides over a slot's life: state,
address and qport, `justConnected`, the ages of its connection and of its last
packet, its authentication, and the room left in its command window. `retail` has
the clients that the platform must authenticate: those of protocol 91, on a server of
that protocol whose provider is there. Clients of protocol 68 and below (`Older`) are
let in beside them with no ticket and no session, and so is everybody when `retail`
is empty. `game` is
who the game has been told of, `sessions` what the platform has open. Calls that
handlers share (`FreeClient`, `DropClient`, `AddServerCommand`) work on a record of
the three, and a handler's loop over the slots is `EachSlot`. A client program is
off, challenging or connected, and one of its connect datagrams may be under way
in any of these. `odd` is history: which of the two known ways a slot and the
game came apart.

`SV_AddServerCommand` drops a client that overflows, `SV_DropClient` broadcasts to
all, and a broadcast is a command for each: a drop inside a broadcast inside a drop
is one step of the code. ClientSlots says what it comes to. A broadcast that drops
clients becomes as many broadcasts as it drops clients, and one: the least n such
that fewer than n windows have no room for n (`Broadcasts`). Those clients are lost
(`Overrun`), the others charged n commands. A window that was collapsed for its own
drop is charged like any other. It does not fill up again in the middle as long as
there are no more clients than a window has commands (`MaxClients <= MaxRoom`; both
are 64 in the code); with windows of one command the calls would never end. After
that the client itself is sent "disconnect", which may drop it once more (`Told`).
**DropCascade** is the same calls as the code nests them, recursively, from any
windows a server may have when a call begins. `CascadesSettle` says that both agree;
`MCClientSlots` has TLC evaluate it for four clients, as an assumption of the runs
`slots` and `slots_refused`.

**LeakyBucket** is `leakyBucket_t` with `SVC_RateLimit`, `SVC_RateDrop` and the
restorations, **RateLimits** a table of buckets that may forget an expired one,
with what each address owes and how long it is to be refused as history that
looks at no bucket. **BucketChains** is the server's table: the array, the heads,
next and prev, and the index where reclaiming goes on, one assignment after the
other. It implements RateLimits, with the addresses in use as the table.

**AvatarTransfer** has the worker (`workerPc`, `queue`, `inFlight`, `results`),
the condition variable (`notified`; a wake-up when nobody waits is lost), the
three parts of `Stop` on the main thread (`mainPc`), and the cache of shaders.
`provider` is whether the library is loaded; a provider that is initialised again
starts a worker anew. A shader is known by where it came from (renderer session,
avatar and picture), so that a stale handle shows. cgame's `drawn` is the handle
it holds. Steam replaces pictures when it likes and says so by an event.

### Abstractions

* Message bytes are message and offset; usercmds and snapshots have no content
  beyond the fields the properties need.
* Clocks are free choices: a timeout may happen whenever it is waited for. Only
  ClientSlots and the buckets count time, in ticks.
* 32-bit reliable counters are natural numbers. Message numbers do live on the
  circle, though no channel of the models goes around it (`NetchanAssumption`).
* A corrupted packet has the listed outcomes only, not every value of every
  field.
* The client's pak report is always right; files open, are created and read without
  errors once available, and begin with a valid pak signature.
* A late block 65536 of one file, which names no size, can be misread as block zero of
  the next and be stored by luck (`MisreadBlock`). The model leaves that out: it
  takes a file of 65536 blocks, and the checksum then keeps the next from finishing.
* Flood protection's rates are free choices: `info_rate` (5 in a second) may stop any
  packet before a userinfo command, `cmd_rate` (8 in half a second) may ignore any other
  text. The few server commands that are never ignored (downloads, pak reports) are
  texts that happen not to be.
* A configstring that `SVF_NOSERVERINFO` withholds from a client (`CS_SERVERINFO`) is
  not among the configstrings of Gamestate: `ConfigCurrent` is about those that are not
  withheld.
* One client, but in ClientSlots. Clients share no protocol state on the server,
  except that a drop broadcasts to all of them, which ReliableCommands has for
  the client itself and ClientSlots for all.
* ClientSlots has remote clients only: no bots, no loopback, no reserved slots. A
  refusal that changes nothing is the loss of the datagram, a challenge is good
  for as long as its client wants. A client keeps its address and port:
  `SV_PacketEvent` finds a slot by base address and qport and takes over a port that a
  router has translated, after which `SV_DirectConnect`, which compares the port as
  well, may take the same program for another. `OneSlotPerClient` is about clients
  whose port stays. That the provider comes or goes, or the protocol of the server
  changes, while clients are there is left out. `SV_Frame`'s test of time-outs is in `Tick`.
* The buckets are of addresses that can be compared; a loopback address, whose
  bytes nobody sets, is left out. A tick's rounding is kept; a clock that runs
  backwards counts as a long time, as in the code. The global bucket for outgoing
  messages is a LeakyBucket without a table.
* The avatar's pixels are the number of the picture; a picture's extents are
  those of a placeholder or of a portrait. The event of a new picture is delivered
  after a restart of the provider if it was not before; the code loses it with the
  provider, and an entry may then keep its old picture. `PicturesCurrent` speaks of
  handled events only.

## Runs

| Run | Shows |
|---|---|
| `netchan` | the inductive invariant, order of queued messages, that every accepted message leaves, and the refinement |
| `reliable` | windows (in `TypeOK`), commands handled in order on the server and executed in order by cgame, snapshots behind their commands, agreement on keys |
| `reliable_live` | a command is executed, or the connection ends, or both windows are full at once |
| `gamestate` | current configstrings in the world, no entry with an older level's gamestate, no return to loading, no configstring going back |
| `download` | the ring is never overrun, files are stored in order and finished only when whole, both ends keep in step, downloading ends |
| `snapshot` | storage accounted for, snapshots rebuilt from the frame they were written from, none dumped, whole ones for cgame |
| `slots` | one slot to a client, the game and the platform in step with the slots, no reconnection before its time, slots freed |
| `buckets` | chains whole under reclaiming and relinking, the chains as a table of buckets, burst and penalty kept; also that no state is without a next |
| `avatar` | no call without a provider, no transfer twice, what is waited for outstanding, right faces, current pictures |
| `avatar_live` | an avatar asked for is drawn in the end, `Stop` returns |
| `gamestate_queued`, `slots_refused` | where the code does not do what its comments say; see Divergences |

### Bounds

* `netchan`: three messages of up to two full fragments of two bytes. Two
  messages are needed to mix up their fragments, the third to find one in the
  queue behind the others; a message may be shorter than a fragment, end with a
  partial one, or need the empty one. The circle has 16 numbers.
* `reliable`: rings of two, four server and three client commands, two messages
  on the way each way. Both rings wrap, both windows fill, and an old message
  can be on the way with a new one behind it. The second of the client's commands
  is a userinfo command, which flood protection stops, the others are text, which
  it may ignore. In `reliable_live` all are userinfo commands, since what the
  server ignores makes no difference to whether its own commands arrive; one message
  is on the way, since liveness needs the whole behaviour graph.
* `gamestate`: two levels, three versions, five messages to the client: up to
  three gamestates, repeated, with snapshots and blocks between them. Init chooses whether
  the server is pure, which makes the way into the world longer.
* `download`: a window of two, block numbers modulo three, files of one and
  three blocks and three messages on the way: every slot and every number is
  used twice, and a block of the first file can arrive in the second.
  `MaxCommands` leaves room for commands no finished download needs.

* `snapshot`: rings of four, a base at most two messages back, three common
  snapshots over storage for two and a half, so that storage runs out before
  slots do or the other way round, and positions wrap inside a snapshot; five
  common snapshots, six messages and two levels, one message on the way each
  way. A frame is released, and a slot reused, while the client can still ask
  for it; the entity ring is filled exactly; a delta is possible in either
  level. `LinkedCounts` has snapshots with and without entities.

* `slots`: two client programs of one user on one address, two slots, as many of
  an address as slots, a window of two, times of zero or one tick. Two programs are
  the fewest that compete for a slot, share an address and a ticket, and drop one
  another by a broadcast; with times of zero and one, every order of the timers
  is met. A client that connects twice is the same program with the same qport,
  one that was started anew is the other. Either both must be authenticated, or only
  the first (the second is of an older protocol), or none.
  `CascadesSettle` has four clients, each connected, in the game with any window, or
  gone, and windows of four commands: one drop can drop all three others, at once or
  each through the one before, and can overflow its own client's window again.
* `buckets`: three buckets, three addresses in one chain and a fourth in another,
  so that buckets are reclaimed from one chain for another, at its head, in its
  middle and at its end; a burst, a period and a toxicity of one, relinking from
  the second of a chain. `BucketProofs` covers all other values. Addresses of one chain are symmetric.
* `avatar`: three sizes of one user's picture, a queue and a cache of two, so that
  both are exhausted; the picture arrives and is replaced once; two renderer and
  two provider sessions. The user is one since the worker does not look at users,
  and one picture's event forgets all sizes. `avatar_live`: two sizes, and a queue
  of one, which is full more often.

A bound smaller than the program's (64 commands, 48 blocks, 1300 bytes) keeps
its relation to the others: what the properties depend on is that rings wrap and
that what is on the way can be older than a ring.

### Fairness

* `Netchan`: the server keeps calling `SV_Netchan_TransmitNextFragment`
  (`SV_SendQueuedMessages`, every pass of the main loop), so it is weakly fair.
  Nothing is assumed of the network.
* `ReliableCommands`: sending is weakly fair on both sides, since the main loops
  send at a rate and not when asked; so is cgame's asking for commands.
  Reception is strongly fair: a network that loses everything for ever is a
  timeout. The bucket of `info_rate` drains with time, so that a packet is not stopped
  for ever.
* `Download`: the same, with reception fair for each block number: a network
  that loses one block out of the three every time is not assumed.
* `ClientSlots`: frames go on while a slot is in use, so its time passes, and no
  datagram stays under way for ever. Of clients, the platform and the game nothing
  is assumed.
* `AvatarTransfer`: threads are scheduled and provider calls return (weak fairness
  of the worker and of `Stop`); the main thread goes round its frame loop, which
  handles events, takes results and lets cgame ask again; time passes for an entry
  that waits. Nothing is assumed of Steam: `AvatarArrives` says "once everybody
  has a picture".
* `Gamestate` and `Snapshot` state no liveness: their bounds on messages end every
  behaviour. `BucketChains` has nothing that must happen.

`CHECK_DEADLOCK` is off, because bounded behaviours end and connections close,
but for `buckets`: a server that limits addresses never stops.

### Divergences

Two runs show where the code does other than its comments say.

* `gamestate_queued`: `gamestateMessageNum` is read before the message gets its
  number. A gamestate that queues behind a fragmenting one leaves under another
  number, the answer to the earlier one passes for its acknowledgement, and when
  the queued one is lost the client plays with configstrings nobody corrects.
* `slots_refused`: a client whose connectResponse was lost connects again, and its
  own slot is taken from the game and loses its session before the refusal that
  follows, since the ticket is used up. The slot stays connected, and the game
  knows nothing of it.

Others are in the models; where a property meets one, it names it as its
exception and says what holds besides:

* `ConfigCurrent` and `EnteredForGood`: the queued gamestate, above.
* `StoredPrefix` and `InStep`: blocks do not name their file, so a late block zero is
  taken for the next file's. Then its checksum keeps it from being finished, and
  the client may be dropped. Block zero says the file size in every copy; the
  client reads it in the first only.
* `KeysAgree`: exactly one full ring behind, the slot that a key is looked up in
  holds a newer command, and a valid window is not enough to decode.
* `CommandsArrive`: the window left for the disconnect command is one too small for
  `CL_WritePacket`'s check, so disconnecting may fail; and both windows may be full.
* `TypeOK` of ReliableCommands and `CgameExecutesInOrder`: the broadcast inside
  `SV_DropClient` may drop the client first; the game is told twice
  (`gameDisconnects` in 0..2).
* `GameInStep`: `map_restart` looks at a client's state, sends it a command and
  connects it to the new game, also when the command overflowed its window and
  dropped it (`sv_ccmds.cpp`:383-386).
* `ReconnectLimitKept`: the "minimum seconds between connect messages" are counted
  for the first slot of the address, connected or not.
* The limit of clients with one IP counts no `justConnected` ones, so it may be
  passed while they have not sent their first packet.
* `PicturesCurrent`: a request that joins a transfer queued before the picture was
  replaced may draw the old one, against the comment at `cl_webui.cpp`:1184-1187.
* `Target`: a refused request "keeps its slot so the poll stays bounded"
  (`cl_webui.cpp`:1274), but the lookup of another avatar may take the slot over:
  two that are refused in turn ask the worker every frame.

## Proofs

Eight modules hold theorems, one for each module of the table above that has one
named after it. The constants are any that satisfy the assumption of the model
(`NetchanAssumption`, `ReliableAssumption` and so on; TLC evaluates them for
every instance it runs). Each asks for positive sizes, and for what the code's sizes
satisfy besides: rings of at least two commands (64), a download window smaller than the
modulus of the block numbers (48, 65536), a margin of bases smaller than the ring of
frames (`DeltaMargin`), fewer messages than half the circle of sequence numbers,
hashes for all addresses. The bounds that keep TLC's state spaces finite are
constants too, so a theorem holds for any number of messages, levels or commands.

Every proof has the same shape. The property is not inductive: it depends on
what is on its way, or on what one end remembers of the other. A strengthened
invariant `IInv` adds that, each action preserves each of its parts, and the
properties follow from it. Where a handler calls another the parts are predicates of
records, any server `s` and client `c`, and not of the variables: they can
then speak of the states between two calls.

### Netchan

* `NetchanInvariant`: `Spec => []IInv`
* `TypeCorrect`: `Spec => []TypeOK`
* `Integrity`: `Spec => []DeliveredIntact`
* `LeaveInOrder`: `Spec => []SentInOrderAccepted`
* `NetchanImplementsChannel`: `Spec => ChannelSpec`

That delivered messages are intact is not inductive: it depends on what is in
the reassembly buffer, which depends on what is on the network. `IInv` adds that
every datagram is a true piece of the message its number stands for
(`DatagramsGenuine`), that the number in use is that of the message in the send
buffer (`SequenceOfSender`), that the buffer begins with consecutive bytes of
one message (`ReassemblyPure`), and that the receiver is behind the sender
(`ReceiverBehind`), which keeps the circular comparison unambiguous
(lemmas on `IsNewerSequence`). `InOrder` adds the queue: what waits there was
accepted after all that was sent.

For the refinement, giving a message to the netchan is the channel's `Send`,
handing message n up is `Receive(n - incomingSequence)`, and every other step
leaves the line and the delivered messages as they are. Only the safety part of
`Spec` is needed: the channel promises nothing else.

### Reliable commands

* `StreamsRight`: `Spec => []IInv`
* `WindowsFit`, `ServerInOrder`, `CgameInOrder`, `CommandsBeforeSnapshots`,
  `KeysOfBothEnds`: the five invariants of the run `reliable`

`IInv` says of each direction (`ServerStream`, `ClientStream`) that the last
`MaxReliableCommands` numbers have their texts in the ring, and that the text of
any number, wherever it is (in the other end's ring, in a packet, as the key of a
packet), is the ring's while the ring still holds that number, and bears that
number anyway. Packets on their way acknowledge in order.
`CommandsHandledInOrder` follows for any choice of what flood protection ignores, and
any numbers of userinfo commands. A handler is followed
through the calls it makes: adding a command may drop the client, whose farewell
broadcast adds another, which may find the window full again (`collapsed`). From
there on nothing is claimed of the server's stream, and the exceptions of the
properties are exactly those.

### Gamestate

* `GamestateInvariant`: `Spec => []IInv`
* `GamestateTypes`, `ConfigsCurrent`, `EnteredOnce`: `TypeOK`, `ConfigCurrent`,
  `EnteredForGood`
* `ConfigsForward`: `ConfigNeverBackwards`, an action property

A client's configstrings are a version, and a prefix of the server's commands; the
two must fit (`Version`: the commands that follow are exactly those that bring
something newer). This holds of the client, of each gamestate on its way and of
each that waits in line: `Coming` is the set of both, with the number a waiting
message will have, so that sending and queueing are the same step to most of the
proof. `LevelRight` says what the server's state implies about the level the
client has, and `AckRight` what a `gamestateAck` or an acknowledged
`gamestateMessageNum` implies about its version: that is where a gamestate which
had to queue is excepted, and the run `gamestate_queued` shows that it must be.

### Download

* `DownloadInvariant`: `Spec => []IInv`
* `DownloadTypes`, `WindowHeld`, `FilesWhole`, `ServerInStep`: `TypeOK`,
  `RingHoldsWindow`, `StoredPrefix`, `InStep`

A block on its way says its number modulo 65536 and not its file. `IInv` gives each
message its true number (`NumbersRight`: such an assignment exists) and keeps
those of one file within a window of each other (`PairRight`), so that a number is
ambiguous between files only. The client's reliable commands are a log of
what it has taken (`CommandsRight`, with `Start` for where each file begins), and
the server's position in that log says what it may send (`PositionRight`,
`SentRight`). The one way out is a block of the file before that passes for one of
this file (`Confused`); `OfFileBefore` bounds how far that goes, and the file's
checksum does not let it finish.

### Snapshots

* `SnapshotInvariant`: `Spec => []IInv`
* `TypesKept`, `StorageKept`, `RightSnapshots`, `NothingDumped`, `HandedOutWhole`:
  the five invariants of the run `snapshot`

The storage is a ring that several frames share. `StorageRight` says that there is
a function `E` that counts the entities stored before each common snapshot since
the level began; it never wraps, so overlap in the ring becomes a comparison of
numbers. A base that the client may name is one it holds until `PacketBackup`
messages have followed (`Kept`), and one the server's ring holds until it has sent
that many (`Framed`). These are said of each message on its way, of each packet that
acknowledges one, and of the server's `deltaMessage`: with them the tests of
`SV_WriteSnapshotToClient` and of `CL_ParseSnapshot` are strong enough.

### Client slots

* `SlotsInvariant`: `Spec => []IInv`
* `SlotsTyped`, `OneSlotAlways`, `GameStaysInStep`, `SessionsAlwaysHeld`: `TypeOK`,
  `OneSlotPerClient`, `GameInStep`, `SessionsHeld`
* `ReconnectLimitAlways`: `ReconnectLimitKept`, an action property

The parts of `IInv` are predicates of a server record, since a handler passes
through many. Some hold in all of them (`Sound`): slots in use have owners, no two
the same one (`Own`), no session outlives its connection (`Quiet`) nor has two
holders or none (`Held`), and nobody but connected clients is in the game
(`NoGhosts`). The rest (`InGame`, `Admitted`) is said of one slot, because a new game
or the clock breaks it for all slots at once, and the handler's loop repairs them one
after the other. When the clock has moved, an authentication may be overdue: between
then and the slot's turn it is only `Begun`. `Admitted` asks for a session of the clients
that must be authenticated, whichever set of clients these are.

Whatever drops and broadcasts do inside each other is one relation, `Keeps`: no slot
changes its owner or its times, a connection that is up afterwards was up before and
has not left the game, `Sound` holds, and so does of each slot what held of it before.
It is transitive, each shared call keeps it, and so does each turn of a loop but the
new game's. That there is such a number as `Broadcasts` is a count: no more clients
can be lost than there are (`BroadcastsEnd`). A loop's intermediate servers exist by
`LoopFound`, and an argument over them runs from slot to slot by `EverySlotReached`.
The assumption `MaxClients <= MaxRoom` is not what these proofs rest on: it
is what makes the closed form that of the calls (`CascadesSettle`).

`SV_DirectConnect` is the step that all parts meet in. The slot it chooses is free or
has the client's own address and qport (`CandidateFields`), and no other slot in use
has them, or that one would have been chosen; releasing its session and
telling the game leaves the server sound without it, and whatever record takes its
place needs to be right for itself alone (`ReplacedGood`). The reconnect limit
compares two states: only this step can begin a connection anew, and then `TooSoon`
had looked at the first slot of the address (`CandidateLimit`).

### Rate limits

* `TableKeepsLimits`: `Table!Spec => []Table!LimitsKept`, of RateLimits
* `BucketInvariant`: `Spec => []IInv` of BucketChains
* `ChainsStayWhole`: `Spec => []ChainsWhole`
* `ArrayIsTable`: `Spec => ImplementsTable`, BucketChains implements RateLimits
* `ArrayKeepsLimits`: `Spec => []LimitsKept` of BucketChains

In RateLimits, an address's history is compared with its bucket. What it owes,
in ticks, is less than one period more than what its bucket holds and has not yet
leaked, since a bucket leaks in whole periods; a penalty is over no later than
the bucket is back below its burst; and an address without a bucket
owes less than a period and has no penalty. The last is why forgetting is safe: a
bucket is reclaimed only when it has expired, and then its history has passed as
well. The arithmetic of division is in lemmas of its own.

In BucketChains, a chain is described without following it (`Linked`): next and
prev of neighbours mirror each other, a bucket without prev is the head of its
hash, and each bucket has a rank smaller than that of the next, which excludes
circles. Unlinking keeps the ranks, pushing to the front shifts them by one. The
walk of the lookup is a recursive function of how far it has gone; since its ranks
grow it meets no bucket twice, so it ends within the array (the pigeonhole theorem
of the library), and it reaches every bucket, or one of least rank that
it missed would be the head or follow one that it reached. What holds
up to a number is shown by the least exception (`LeastIn`, `Upwards`), since
the library's induction takes an operator. From there the lookup returns either
the address's own bucket, a free or expired one in the place of its address, or
none (`Looks`), and each action is the action of RateLimits of the same name. The
limits of the table are proved for the table alone (`Kept`), and those of the array
follow from the refinement.

### Avatars

* `AvatarInvariant`: `Spec => []IInv`
* `CallsSafe`: `Spec => []CallsLoadedProvider`
* `PromiseKeptAlways`: `Spec => []PromiseHeld`
* `RightFace`: `Spec => []RightFaceDrawn`
* `OnlyOnce`: `Spec => []TransferredOnce`
* `NewestPictures`: `Spec => []PicturesCurrent`

`IInv` adds to the properties: that the provider is loaded as long as a
worker lives or is being stopped (`ProviderUp`), that a key is in flight exactly
from the section that takes it off the queue to the one that publishes its result
(`InTransfer`), that a copy is of a picture (`CopiesReal`), and that the cache has
one entry for an avatar, of the session that is up, which no longer waits once it
has a shader (`CacheRight`). An entry's promise survives each step of the worker
because the avatar only moves on, and each of the main thread because `Take` and
the restart of the provider settle every entry they disappoint. `Once` says
that queue, key in flight and results are disjoint, and `CopiesCurrent` that what
an entry expects from the worker is the newest picture, or an event that will
forget it is still to be handled.

### Model-checked only

* The liveness properties (`AcceptedLeaves`, `CommandsArrive`, `DownloadEnds`,
  `SlotReclaimed`, `AvatarArrives`, `StopReturns`): the prover does not handle
  liveness under fairness.
* `CascadesSettle`: the calls of DropCascade nest by RECURSIVE operators, and the
  prover has no arithmetic where there are any. The proofs about ClientSlots are
  about its closed form of them.
* The two violations, which are about instances.

## Plan

1. Done: SequenceArith, MessageChannel, Netchan, its proofs, ReliableCommands,
   Gamestate, Download, Snapshot.
2. Done: ClientSlots; LeakyBucket, RateLimits, BucketChains and the proofs about
   the limits; AvatarTransfer and its proofs.
3. Done: proofs of every safety property of Netchan, ReliableCommands, Gamestate,
   Download, Snapshot, ClientSlots, RateLimits, BucketChains and AvatarTransfer, and
   of both refinements.
4. An abstract reliable stream, implemented by ReliableCommands in both
   directions, and an abstract file transfer, implemented by Download; the invariants
   above are what these refinements need.
5. Snapshot under `map_restart`, with several clients sharing a common snapshot,
   and the client's return to a full snapshot after losing track, as liveness.
6. Bots, loopback and reserved slots in ClientSlots.

## Not modelled

`PROJECT.json` gives the reason for each component. Most of the source is not
protocol: the renderers and their shaders, audio, the bot library and collision are
computation with floating point, driven once per frame; the file system, cvars,
commands and the virtual machine are sequential; the codecs of the message stream
are data conversion, of which the models use only that what is written is read
back; the WebUI, apart from the avatars, is presentation. Their difficulty is in
data and in what the outside world returns, not in the order of steps, and is
better tested than model-checked. Demos record the messages modelled here, and
lockstep drives the server's clock from a test; neither changes the protocol.
