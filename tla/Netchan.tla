------------------------------ MODULE Netchan ------------------------------
(***************************************************************************)
(* One direction of a netchan (code/qcommon/net_chan.cpp) over a network   *)
(* that loses, duplicates and reorders datagrams.                          *)
(*                                                                         *)
(* The sender is a server (code/server/sv_net_chan.cpp), which sends one   *)
(* fragment per call and queues the messages that arrive meanwhile, or a   *)
(* client (code/client/cl_net_chan.cpp), which sends all the fragments of  *)
(* a message at once and may send every datagram several times.  The       *)
(* receiver is Netchan_Process.                                            *)
(*                                                                         *)
(* Message number n of a channel is the n-th one given to Netchan_Transmit *)
(* or Netchan_Enqueue.  Its bytes are named by the message and the offset, *)
(* so that bytes of two messages never look alike.                         *)
(***************************************************************************)
EXTENDS SequenceArith, Sequences

CONSTANTS FragmentSize,       \* FragmentSize, 1300 in the program
          MaxMessageLength,   \* MAX_MSGLEN
          MaxMessages         \* bound: messages per channel

\* A message is shorter than the reassembly buffer, and a channel carries
\* fewer messages than half the sequence circle: no number is reused.
ASSUME NetchanAssumption ==
    /\ FragmentSize \in Nat \ {0}
    /\ MaxMessageLength \in Nat
    /\ MaxMessages \in Nat
    /\ MaxMessages + 1 < SequenceHalfRange

VARIABLES
    sender,               \* which kind of endpoint transmits
    \* the sender's netchan_t and message queue
    outgoingSequence, unsentFragments, unsentFragmentStart, unsentMessage,
    queue,                \* netchan_start_queue: messages, not yet encoded
    \* the datagrams sent so far; none is ever removed, since each may still
    \* arrive, again and in any order
    network,
    \* the receiver's netchan_t
    incomingSequence, fragmentSequence, fragmentLength, fragmentBuffer,
    \* history
    accepted,             \* number of messages the sender was asked to send
    sent,                 \* messages given to the netchan, by sequence number
    delivered             \* what Netchan_Process returned qtrue for

senderVars == <<outgoingSequence, unsentFragments, unsentFragmentStart,
                unsentMessage, sent>>
receiverVars == <<incomingSequence, fragmentSequence, fragmentLength,
                  fragmentBuffer, delivered>>
vars == <<sender, senderVars, queue, network, receiverVars, accepted>>

-----------------------------------------------------------------------------
\* Messages and datagrams.

Sequences == 1..MaxMessages

Messages == [id : 1..MaxMessages, length : 0..MaxMessageLength]

\* The key the reliable XOR codec folds in.  A server uses the sequence number
\* of the message; a client uses fields the message itself carries.
SequenceKey(sequence) == IF sender = "server" THEN sequence ELSE 0

Encoded(message, sequence) ==
    [id |-> message.id, length |-> message.length, key |-> SequenceKey(sequence)]

EncodedMessages ==
    [id : 0..MaxMessages, length : 0..MaxMessageLength, key : 0..MaxMessages]

Bytes == [id : 0..MaxMessages, key : 0..MaxMessages, at : 0..MaxMessageLength]

\* Com_Memset of a fresh netchan_t.
NoByte == [id |-> 0, key |-> 0, at |-> 0]

FragmentLength(message, start) ==
    IF start + FragmentSize > message.length
    THEN message.length - start
    ELSE FragmentSize

Datagrams ==
    [sequence : Sequences, fragmented : BOOLEAN, start : 0..MaxMessageLength,
     length : 0..MaxMessageLength, id : 1..MaxMessages, key : 0..MaxMessages]

Datagram(message, sequence, isFragment, start, length) ==
    [sequence |-> sequence, fragmented |-> isFragment, start |-> start,
     length |-> length, id |-> message.id, key |-> message.key]

Fragment(message, sequence, start) ==
    Datagram(message, sequence, TRUE, start, FragmentLength(message, start))

Whole(message, sequence) ==
    Datagram(message, sequence, FALSE, 0, message.length)

\* Defective variant: never counts an empty fragment as the last.
LastFragmentNotEmpty(message, start) ==
    /\ start + FragmentLength(message, start) = message.length
    /\ FragmentLength(message, start) \in 1..(FragmentSize - 1)

\* A message of exactly k fragments ends with an empty one, "so that the
\* other side can tell there aren't more to follow".
LastFragment(message, start) ==
    /\ start + FragmentLength(message, start) = message.length
    /\ FragmentLength(message, start) # FragmentSize

AllDatagrams(message, sequence) ==
    IF message.length >= FragmentSize
    THEN {Fragment(message, sequence, FragmentSize * k) :
            k \in 0..(message.length \div FragmentSize)}
    ELSE {Whole(message, sequence)}

\* The byte of the sender's buffer that datagram p carries for offset k.
ByteAt(p, k) == [id |-> p.id, key |-> p.key, at |-> k]

\* CL_Netchan_Decode / SV_Netchan_Decode: bytes encoded under another key
\* come out as noise.
Decoded(byte, sequence) ==
    IF byte.key = SequenceKey(sequence) THEN <<byte.id, byte.at>> ELSE <<0, byte.at>>

PlainText(message) == [k \in 0..(message.length - 1) |-> <<message.id, k>>]

-----------------------------------------------------------------------------
\* The sender.

\* Netchan_TransmitNextFragment for the message in the send buffer.
Netchan_TransmitNextFragment(message, start) ==
    /\ network' = network \union {Fragment(message, outgoingSequence, start)}
    /\ unsentFragmentStart' = start + FragmentLength(message, start)
    /\ unsentFragments' = ~LastFragment(message, start)
    /\ outgoingSequence' = IF LastFragment(message, start)
                           THEN NextSequence(outgoingSequence)
                           ELSE outgoingSequence

Netchan_TransmitWhole(message) ==
    /\ network' = network \union {Whole(message, outgoingSequence)}
    /\ unsentFragmentStart' = 0
    /\ outgoingSequence' = NextSequence(outgoingSequence)
    /\ UNCHANGED unsentFragments

\* SV_Netchan_Encode, then Netchan_Transmit: a long message goes to the send
\* buffer and only its first fragment leaves now.
Netchan_Transmit(m) ==
    LET message == Encoded(m, outgoingSequence)
    IN  /\ sent' = Append(sent, m)
        /\ IF m.length >= FragmentSize
           THEN /\ unsentMessage' = message
                /\ Netchan_TransmitNextFragment(message, 0)
           ELSE /\ UNCHANGED unsentMessage
                /\ Netchan_TransmitWhole(message)

\* Any code above the channel asks for a message to be sent.
Accept(m) ==
    /\ accepted < MaxMessages
    /\ m.id = accepted + 1
    /\ accepted' = accepted + 1

\* Defective variant: forgets that the queue may outlive the fragments.
FragmentsPending == unsentFragments

MustQueue == unsentFragments \/ queue # <<>>

SV_Netchan_Transmit(m) ==
    /\ sender = "server"
    /\ Accept(m)
    /\ IF MustQueue
       THEN /\ queue' = Append(queue, m)
            /\ UNCHANGED <<senderVars, network>>
       ELSE /\ Netchan_Transmit(m)
            /\ UNCHANGED queue
    /\ UNCHANGED <<sender, receiverVars>>

SV_Netchan_TransmitNextInQueue ==
    /\ Netchan_Transmit(Head(queue))
    /\ queue' = Tail(queue)

\* Called by SV_SendQueuedMessages for each client the rate allows.
SV_Netchan_TransmitNextFragment ==
    /\ sender = "server"
    /\ \/ /\ unsentFragments
          /\ Netchan_TransmitNextFragment(unsentMessage, unsentFragmentStart)
          /\ UNCHANGED <<queue, unsentMessage, sent>>
       \/ /\ ~unsentFragments
          /\ queue # <<>>
          /\ SV_Netchan_TransmitNextInQueue
    /\ UNCHANGED <<sender, receiverVars, accepted>>

\* SV_FreeClient discards what has not been given to the netchan.
SV_Netchan_FreeQueue ==
    /\ sender = "server"
    /\ queue # <<>>
    /\ queue' = <<>>
    /\ UNCHANGED <<sender, senderVars, network, receiverVars, accepted>>

\* "Transmit all fragments without delay."
CL_Netchan_Transmit(m) ==
    /\ sender = "client"
    /\ Accept(m)
    /\ LET message == Encoded(m, outgoingSequence)
           long    == m.length >= FragmentSize
       IN  /\ network' = network \union AllDatagrams(message, outgoingSequence)
           /\ unsentFragmentStart' = IF long THEN m.length ELSE 0
           /\ unsentMessage' = IF long THEN message ELSE unsentMessage
    /\ unsentFragments' = FALSE
    /\ outgoingSequence' = NextSequence(outgoingSequence)
    /\ sent' = Append(sent, m)
    /\ UNCHANGED <<sender, queue, receiverVars>>

\* All copies carry the same sequence number.  The packet queue they pass
\* through (NET_QueuePacket, NET_FlushPacketQueue) is part of the network.
CL_Netchan_Enqueue(m) ==
    /\ sender = "client"
    /\ Accept(m)
    /\ network' = network \union
                    AllDatagrams(Encoded(m, outgoingSequence), outgoingSequence)
    /\ outgoingSequence' = NextSequence(outgoingSequence)
    /\ sent' = Append(sent, m)
    /\ UNCHANGED <<sender, unsentFragments, unsentFragmentStart, unsentMessage,
                   queue, receiverVars>>

-----------------------------------------------------------------------------
\* The receiver.  A datagram whose header word is -1 is taken for an
\* out-of-band packet before the netchan sees it.
Connectionless(p) == p.fragmented /\ p.sequence = SequenceMask

Newer(p) == ~Connectionless(p) /\ IsNewerSequence(p.sequence, incomingSequence)

\* Defective variant: keeps what another message left in the buffer.
AssembledOfAny(p) == fragmentLength

\* What is assembled of the message p belongs to, before p.
Assembled(p) == IF p.sequence # fragmentSequence THEN 0 ELSE fragmentLength

FragmentFits(p) == Assembled(p) + p.length <= MaxMessageLength

Stored(p) ==
    [k \in 0..(MaxMessageLength - 1) |->
        IF k \in Assembled(p)..(Assembled(p) + p.length - 1)
        THEN ByteAt(p, p.start + k - Assembled(p))
        ELSE fragmentBuffer[k]]

Reassembled(p) == [k \in 0..(Assembled(p) + p.length - 1) |-> Stored(p)[k]]

Deliver(p, bytes) ==
    /\ incomingSequence' = p.sequence
    /\ delivered' = Append(delivered,
           [sequence |-> p.sequence,
            data     |-> [k \in DOMAIN bytes |-> Decoded(bytes[k], p.sequence)]])

ProcessWhole(p) ==
    /\ ~p.fragmented
    /\ Deliver(p, [k \in 0..(p.length - 1) |-> ByteAt(p, k)])
    /\ UNCHANGED <<fragmentSequence, fragmentLength, fragmentBuffer>>

\* "if we missed a fragment, dump the message": the part assembled so far is
\* kept, since the missing fragment may still arrive.
MissFragment(p) ==
    /\ p.fragmented
    /\ p.start # Assembled(p) \/ ~FragmentFits(p)
    /\ fragmentSequence' = p.sequence
    /\ fragmentLength' = Assembled(p)
    /\ UNCHANGED <<incomingSequence, fragmentBuffer, delivered>>

StoreFragment(p) ==
    /\ p.fragmented
    /\ p.start = Assembled(p) /\ FragmentFits(p)
    /\ fragmentSequence' = p.sequence
    /\ fragmentBuffer' = Stored(p)
    /\ IF p.length = FragmentSize
       THEN /\ fragmentLength' = Assembled(p) + p.length
            /\ UNCHANGED <<incomingSequence, delivered>>
       ELSE /\ fragmentLength' = 0
            /\ Deliver(p, Reassembled(p))

Netchan_Process(p) ==
    /\ Newer(p)
    /\ \/ ProcessWhole(p)
       \/ MissFragment(p)
       \/ StoreFragment(p)
    /\ UNCHANGED <<sender, senderVars, queue, network, accepted>>

-----------------------------------------------------------------------------
\* Netchan_Setup on both ends.
Init ==
    /\ sender \in {"server", "client"}
    /\ outgoingSequence = 1
    /\ unsentFragments = FALSE
    /\ unsentFragmentStart = 0
    /\ unsentMessage = [id |-> 0, length |-> 0, key |-> 0]
    /\ queue = <<>>
    /\ network = {}
    /\ incomingSequence = 0
    /\ fragmentSequence = 0
    /\ fragmentLength = 0
    /\ fragmentBuffer = [k \in 0..(MaxMessageLength - 1) |-> NoByte]
    /\ accepted = 0
    /\ sent = <<>>
    /\ delivered = <<>>

Next ==
    \/ \E m \in Messages : SV_Netchan_Transmit(m)
    \/ SV_Netchan_TransmitNextFragment
    \/ SV_Netchan_FreeQueue
    \/ \E m \in Messages : CL_Netchan_Transmit(m)
    \/ \E m \in Messages : CL_Netchan_Enqueue(m)
    \/ \E p \in network : Netchan_Process(p)

\* The server's frame loop keeps calling SV_SendQueuedMessages; nothing makes
\* the network deliver, or the code above ask for another message.
Fairness == WF_vars(SV_Netchan_TransmitNextFragment)

Spec == Init /\ [][Next]_vars /\ Fairness

-----------------------------------------------------------------------------
\* What a receiver may get: the plain text of a message, under its number.
NumberedMessages ==
    {[sequence |-> n, data |-> PlainText(m)] : n \in Sequences, m \in Messages}

\* Type invariant.
TypeOK ==
    /\ sender \in {"server", "client"}
    /\ outgoingSequence \in 1..(MaxMessages + 1)
    /\ unsentFragments \in BOOLEAN
    /\ unsentFragmentStart \in 0..MaxMessageLength
    /\ unsentMessage \in EncodedMessages
    /\ queue \in Seq(Messages)
    /\ network \subseteq Datagrams
    /\ incomingSequence \in 0..MaxMessages
    /\ fragmentSequence \in 0..MaxMessages
    /\ fragmentLength \in 0..MaxMessageLength
    /\ fragmentBuffer \in [0..(MaxMessageLength - 1) -> Bytes]
    /\ accepted \in 0..MaxMessages
    /\ sent \in Seq(Messages)
    /\ delivered \in Seq(NumberedMessages)

\* The sequence number in use belongs to the message being sent: the channel
\* has started Len(sent) messages and finished all but a fragmenting one.
SequenceOfSender ==
    /\ outgoingSequence = Len(sent) + (IF unsentFragments THEN 0 ELSE 1)
    /\ unsentFragments =>
        /\ Len(sent) > 0
        /\ unsentMessage = Encoded(sent[Len(sent)], Len(sent))
        /\ unsentFragmentStart <= unsentMessage.length
    /\ sender = "client" => ~unsentFragments
    /\ Len(sent) + Len(queue) <= accepted

\* Each datagram is a piece of the message its sequence number stands for,
\* encoded with the key the receiver will decode it with.
DatagramsGenuine ==
    \A p \in network :
        /\ p.sequence <= Len(sent)
        /\ p.id = sent[p.sequence].id
        /\ p.key = SequenceKey(p.sequence)
        /\ p.length = IF p.fragmented
                      THEN FragmentLength(sent[p.sequence], p.start)
                      ELSE sent[p.sequence].length
        /\ p.start + p.length <= sent[p.sequence].length
        /\ p.fragmented /\ p.length # FragmentSize =>
               p.start + p.length = sent[p.sequence].length

\* The receiver has not seen a number the sender has not used.
ReceiverBehind == incomingSequence <= Len(sent)

\* The reassembly buffer begins with the bytes of one message, in place.
ReassemblyPure ==
    fragmentLength > 0 =>
        /\ fragmentSequence \in 1..Len(sent)
        /\ fragmentLength <= sent[fragmentSequence].length
        /\ \A k \in 0..(fragmentLength - 1) :
              fragmentBuffer[k] = [id  |-> sent[fragmentSequence].id,
                                   key |-> SequenceKey(fragmentSequence),
                                   at  |-> k]

\* Safety.  A message Netchan_Process hands up is, byte for byte and
\* decodable, one whole message the other end sent under that number: pieces
\* of two messages are never joined, and a queued message is encoded for the
\* number it finally leaves under.
DeliveredIntact ==
    \A k \in DOMAIN delivered :
        /\ delivered[k].sequence \in DOMAIN sent
        /\ delivered[k].data = PlainText(sent[delivered[k].sequence])

\* Safety.  Messages are handed up in the order they were sent, none twice,
\* whatever the network repeats or reorders.
DeliveredInOrder ==
    /\ \A j, k \in DOMAIN delivered :
          j < k => delivered[j].sequence < delivered[k].sequence
    /\ \A k \in DOMAIN delivered : delivered[k].sequence <= incomingSequence

\* Safety.  Messages that collide with a fragmenting one go to the netchan in
\* the order they were asked for ("make sure they get sent in correct order").
SentInOrderAccepted ==
    LET ids == [k \in 1..(Len(sent) + Len(queue)) |-> (sent \o queue)[k].id]
    IN  \A j, k \in DOMAIN ids : j < k => ids[j] < ids[k]

IInv ==
    /\ TypeOK
    /\ SequenceOfSender
    /\ DatagramsGenuine
    /\ ReceiverBehind
    /\ ReassemblyPure
    /\ DeliveredIntact
    /\ DeliveredInOrder

\* Liveness.  A message the server accepts is transmitted to its last
\* fragment, unless the client is freed first: neither the fragments nor the
\* queue of sv_net_chan.cpp can get stuck.
Transmitted(id) == \E n \in DOMAIN sent : sent[n].id = id /\ outgoingSequence > n
Queued(id) == \E n \in DOMAIN queue : queue[n].id = id
Discarded(id) ==
    ~Queued(id) /\ \A n \in DOMAIN sent : sent[n].id # id
AcceptedLeaves ==
    \A id \in 1..MaxMessages :
        accepted >= id ~> Transmitted(id) \/ Discarded(id)

\* Refinement.  The netchan is a message channel: it loses messages, and does
\* nothing else to them.
Numbered(n) == [sequence |-> n, data |-> PlainText(sent[n])]
Channel == INSTANCE MessageChannel WITH
    Message   <- NumberedMessages,
    inFlight  <- [k \in 1..(Len(sent) - incomingSequence) |->
                     Numbered(incomingSequence + k)],
    delivered <- delivered
ChannelSpec == Channel!Spec
=============================================================================
