--------------------------- MODULE NetchanProofs ---------------------------
(***************************************************************************)
(* Proofs about module Netchan, for every fragment size, message length,   *)
(* and every channel shorter than half the sequence circle.                *)
(***************************************************************************)
EXTENDS Netchan, SequenceTheorems, TLAPS

-----------------------------------------------------------------------------
\* Sequence arithmetic.

\* While no number is reused, "newer" is "greater".
LEMMA NewerIsGreater ==
    ASSUME NEW a \in 0..(MaxMessages + 1), NEW b \in 0..(MaxMessages + 1)
    PROVE  IsNewerSequence(a, b) <=> a > b
<1> DEFINE M == SequenceModulus
           h == SequenceHalfRange
<1>1. M \in Nat /\ M >= 4 /\ h \in Nat /\ 2 * h <= M /\ M <= 2 * h + 1
  BY ModulusAssumption DEF SequenceHalfRange
<1>2. a < h /\ b < h
  BY <1>1, NetchanAssumption
<1>3. CASE a >= b
  <2>1. SequenceDistance(a, b) = a - b
    BY <1>1, <1>2, <1>3 DEF SequenceDistance
  <2>2. QED
    BY <1>1, <1>2, <1>3, <2>1 DEF IsNewerSequence
<1>4. CASE a < b
  <2>1. SequenceDistance(a, b) = M - (b - a)
    BY <1>1, <1>2, <1>4 DEF SequenceDistance
  <2>2. QED
    BY <1>1, <1>2, <1>4, <2>1 DEF IsNewerSequence
<1>5. QED
  BY <1>3, <1>4

\* Nor does the number in use wrap.
LEMMA NextIsSuccessor ==
    ASSUME NEW a \in 0..MaxMessages
    PROVE  NextSequence(a) = a + 1
<1>1. SequenceModulus \in Nat /\ a + 1 < SequenceModulus
  BY ModulusAssumption, NetchanAssumption DEF SequenceHalfRange
<1>2. QED
  BY <1>1 DEF NextSequence, AdvanceSequence

-----------------------------------------------------------------------------
\* Fragments.

\* A fragment lies inside its message, and a short one ends it.
LEMMA FragmentGeometry ==
    ASSUME NEW message, message.length \in Nat,
           NEW start \in 0..message.length
    PROVE  /\ FragmentLength(message, start) \in 0..FragmentSize
           /\ start + FragmentLength(message, start) <= message.length
           /\ FragmentLength(message, start) # FragmentSize =>
                start + FragmentLength(message, start) = message.length
  BY NetchanAssumption DEF FragmentLength

\* The fragments a client sends at once start inside the message.
LEMMA FragmentStarts ==
    ASSUME NEW length \in Nat, NEW k \in 0..(length \div FragmentSize)
    PROVE  FragmentSize * k \in 0..length
<1> DEFINE q == length \div FragmentSize
<1>1. FragmentSize \in Nat /\ FragmentSize > 0 /\ q \in Nat /\ k \in Nat /\ k <= q
  BY NetchanAssumption
<1>2. FragmentSize * q <= length
  BY <1>1
<1>3. FragmentSize * k <= FragmentSize * q
  <2>1. FragmentSize * (q - k) >= 0
    BY <1>1
  <2>2. FragmentSize * (q - k) = FragmentSize * q - FragmentSize * k
    BY <1>1
  <2>3. FragmentSize * k \in Int /\ FragmentSize * q \in Int
    BY <1>1
  <2>4. QED
    BY <2>1, <2>2, <2>3
<1>4. FragmentSize * k \in Nat
  BY <1>1
<1>5. QED
  BY <1>1, <1>2, <1>3, <1>4

\* What datagrams a message can be sent as: pieces that lie inside it.
Piece(p, message, sequence) ==
    /\ p \in [sequence : Nat, fragmented : BOOLEAN, start : Nat, length : Nat,
              id : Nat, key : Nat]
    /\ p.sequence = sequence
    /\ p.id = message.id
    /\ p.key = message.key
    /\ p.start + p.length <= message.length
    /\ IF p.fragmented
       THEN p.length = FragmentLength(message, p.start)
       ELSE p.length = message.length
    /\ p.fragmented /\ p.length # FragmentSize => p.start + p.length = message.length

LEMMA FragmentIsPiece ==
    ASSUME NEW message \in EncodedMessages, NEW sequence \in Nat,
           NEW start \in 0..message.length
    PROVE  Piece(Fragment(message, sequence, start), message, sequence)
<1>1. message.length \in Nat /\ message.id \in Nat /\ message.key \in Nat /\ start \in Nat
  BY NetchanAssumption DEF EncodedMessages
<1>2. FragmentLength(message, start) \in Nat
  BY <1>1, FragmentGeometry, NetchanAssumption
<1>3. QED
  BY <1>1, <1>2, FragmentGeometry DEF Piece, Fragment, Datagram

LEMMA WholeIsPiece ==
    ASSUME NEW message \in EncodedMessages, NEW sequence \in Nat
    PROVE  Piece(Whole(message, sequence), message, sequence)
<1>1. message.length \in Nat /\ message.id \in Nat /\ message.key \in Nat
  BY NetchanAssumption DEF EncodedMessages
<1>2. QED
  BY <1>1 DEF Piece, Whole, Datagram

LEMMA AllArePieces ==
    ASSUME NEW message \in EncodedMessages, NEW sequence \in Nat,
           NEW p \in AllDatagrams(message, sequence)
    PROVE  Piece(p, message, sequence)
<1>1. message.length \in Nat
  BY NetchanAssumption DEF EncodedMessages
<1>2. CASE message.length >= FragmentSize
  <2>1. PICK k \in 0..(message.length \div FragmentSize) :
           p = Fragment(message, sequence, FragmentSize * k)
    BY <1>2 DEF AllDatagrams
  <2>2. FragmentSize * k \in 0..message.length
    BY <1>1, FragmentStarts
  <2>3. QED
    BY <2>1, <2>2, FragmentIsPiece
<1>3. CASE ~(message.length >= FragmentSize)
  BY <1>3, WholeIsPiece DEF AllDatagrams
<1>4. QED
  BY <1>2, <1>3

-----------------------------------------------------------------------------
\* The inductive invariant, one lemma for each way a step touches the state.

\* Encoding keeps a message's identity and length.
LEMMA EncodedMessage ==
    ASSUME TypeOK, NEW m \in Messages, NEW sequence \in Sequences
    PROVE  /\ Encoded(m, sequence) \in EncodedMessages
           /\ Encoded(m, sequence).id = m.id
           /\ Encoded(m, sequence).length = m.length
           /\ Encoded(m, sequence).key = SequenceKey(sequence)
           /\ \A start : FragmentLength(Encoded(m, sequence), start) = FragmentLength(m, start)
  BY NetchanAssumption
     DEF Encoded, EncodedMessages, Messages, SequenceKey, Sequences, FragmentLength

\* How the list of sent messages may change in a step.
SentGrows ==
    /\ sent' \in Seq(Messages)
    /\ Len(sent) <= Len(sent')
    /\ Len(sent') <= MaxMessages
    /\ \A n \in 1..Len(sent) : sent'[n] = sent[n]

\* Putting pieces of the message in progress on the network.
LEMMA NetworkGrows ==
    ASSUME IInv, sender' = sender, SentGrows, Len(sent') > 0, NEW D,
           network' = network \union D,
           \A p \in D : Piece(p, Encoded(sent'[Len(sent')], Len(sent')), Len(sent'))
    PROVE  DatagramsGenuine' /\ network' \subseteq Datagrams
<1> DEFINE n == Len(sent')
<1>1. n \in Sequences /\ sent'[n] \in Messages
  BY DEF SentGrows, Sequences
<1>2. \A p \in D : /\ p \in Datagrams
                   /\ p.sequence <= n
                   /\ p.id = sent'[p.sequence].id
                   /\ p.key = SequenceKey(p.sequence)
                   /\ p.length = IF p.fragmented
                                 THEN FragmentLength(sent'[p.sequence], p.start)
                                 ELSE sent'[p.sequence].length
                   /\ p.start + p.length <= sent'[p.sequence].length
                   /\ p.fragmented /\ p.length # FragmentSize =>
                        p.start + p.length = sent'[p.sequence].length
  <2> SUFFICES ASSUME NEW p \in D
               PROVE  /\ p \in Datagrams
                      /\ p.sequence <= n
                      /\ p.id = sent'[p.sequence].id
                      /\ p.key = SequenceKey(p.sequence)
                      /\ p.length = IF p.fragmented
                                    THEN FragmentLength(sent'[p.sequence], p.start)
                                    ELSE sent'[p.sequence].length
                      /\ p.start + p.length <= sent'[p.sequence].length
                      /\ p.fragmented /\ p.length # FragmentSize =>
                           p.start + p.length = sent'[p.sequence].length
    OBVIOUS
  <2> DEFINE message == Encoded(sent'[n], n)
  <2>1. Piece(p, message, n)
    OBVIOUS
  <2>2. /\ message \in EncodedMessages
        /\ message.id = sent'[n].id
        /\ message.length = sent'[n].length
        /\ message.key = SequenceKey(n)
        /\ \A start : FragmentLength(message, start) = FragmentLength(sent'[n], start)
    BY <1>1, EncodedMessage DEF IInv
  <2>3. sent'[n].id \in 1..MaxMessages /\ sent'[n].length \in 0..MaxMessageLength
    BY <1>1 DEF Messages
  <2>4. message.key \in 0..MaxMessages
    BY <2>2 DEF EncodedMessages
  <2> HIDE DEF message, n
  <2>5. p \in Datagrams
    BY <1>1, <2>1, <2>2, <2>3, <2>4, NetchanAssumption DEF Piece, Datagrams
  <2>6. QED
    BY <1>1, <2>1, <2>2, <2>5 DEF Piece, Sequences
<1>3. \A p \in network : sent'[p.sequence] = sent[p.sequence] /\ p.sequence <= n
  BY DEF IInv, TypeOK, DatagramsGenuine, SentGrows, Datagrams, Sequences
<1>4. network' \subseteq Datagrams
  BY <1>2 DEF IInv, TypeOK
<1>5. \A s : SequenceKey(s)' = SequenceKey(s)
  BY DEF SequenceKey
<1>6. DatagramsGenuine'
  BY <1>2, <1>3, <1>5 DEF IInv, DatagramsGenuine
<1>7. QED
  BY <1>4, <1>6

\* What the receiver holds stays right while the sender works.
LEMMA ReceiverUntouched ==
    ASSUME IInv, sender' = sender, SentGrows, UNCHANGED receiverVars
    PROVE  ReceiverBehind' /\ ReassemblyPure' /\ DeliveredIntact' /\ DeliveredInOrder'
<1>1. \A s : SequenceKey(s)' = SequenceKey(s)
  BY DEF SequenceKey
<1>2. ReassemblyPure'
  BY <1>1 DEF IInv, ReassemblyPure, SentGrows, receiverVars
<1>3. DeliveredIntact'
  <2>1. \A k \in DOMAIN delivered : /\ delivered[k].sequence \in 1..Len(sent)
                                    /\ delivered[k].data = PlainText(sent[delivered[k].sequence])
    BY DEF IInv, TypeOK, DeliveredIntact
  <2>2. DOMAIN sent' = 1..Len(sent')
    BY DEF SentGrows
  <2>3. QED
    BY <2>1, <2>2 DEF DeliveredIntact, SentGrows, receiverVars, IInv, TypeOK
<1>4. DeliveredInOrder'
  BY DEF IInv, DeliveredInOrder, receiverVars
<1>5. ReceiverBehind'
  BY NetchanAssumption DEF IInv, TypeOK, ReceiverBehind, SentGrows, receiverVars
<1>6. QED
  BY <1>2, <1>3, <1>4, <1>5

\* The part of the invariant about the sender's netchan_t and the network.
SenderInv ==
    /\ outgoingSequence \in 1..(MaxMessages + 1)
    /\ unsentFragments \in BOOLEAN
    /\ unsentFragmentStart \in 0..MaxMessageLength
    /\ unsentMessage \in EncodedMessages
    /\ network \subseteq Datagrams
    /\ sent \in Seq(Messages)
    /\ outgoingSequence = Len(sent) + (IF unsentFragments THEN 0 ELSE 1)
    /\ unsentFragments =>
        /\ Len(sent) > 0
        /\ unsentMessage = Encoded(sent[Len(sent)], Len(sent))
        /\ unsentFragmentStart <= unsentMessage.length
    /\ DatagramsGenuine

\* One more fragment of the message in progress, which is the last of sent'.
LEMMA FragmentStep ==
    ASSUME IInv, sender' = sender, SentGrows, Len(sent') > 0,
           outgoingSequence = Len(sent'),
           unsentMessage' = Encoded(sent'[Len(sent')], Len(sent')),
           NEW start \in 0..unsentMessage'.length,
           Netchan_TransmitNextFragment(unsentMessage', start)
    PROVE  SenderInv'
<1> DEFINE n == Len(sent')
           message == Encoded(sent'[n], n)
<1>1. n \in Sequences /\ sent'[n] \in Messages
  BY DEF SentGrows, Sequences
<1>2. message \in EncodedMessages
  BY <1>1, EncodedMessage DEF IInv
<1>3. message.length \in 0..MaxMessageLength
  BY <1>2 DEF EncodedMessages
<1>4. Piece(Fragment(message, n, start), message, n)
  BY <1>1, <1>2, FragmentIsPiece DEF Sequences
<1>5. DatagramsGenuine' /\ network' \subseteq Datagrams
  <2> DEFINE D == {Fragment(message, n, start)}
  <2>1. network' = network \union D
    BY DEF Netchan_TransmitNextFragment
  <2>2. \A p \in D : Piece(p, Encoded(sent'[Len(sent')], Len(sent')), Len(sent'))
    BY <1>4
  <2> HIDE DEF D
  <2>3. QED
    BY <2>1, <2>2, NetworkGrows
<1>6. /\ start + FragmentLength(message, start) \in 0..message.length
      /\ unsentFragmentStart' = start + FragmentLength(message, start)
  <2>1. message.length \in Nat
    BY <1>3, NetchanAssumption
  <2> HIDE DEF message
  <2>2. start + FragmentLength(message, start) \in 0..message.length
    BY <2>1, FragmentGeometry, NetchanAssumption DEF message
  <2>3. QED
    BY <2>2 DEF message, Netchan_TransmitNextFragment
<1>7. outgoingSequence' = n + (IF unsentFragments' THEN 0 ELSE 1)
      /\ unsentFragments' \in BOOLEAN
  <2>1. NextSequence(n) = n + 1
    BY <1>1, NextIsSuccessor DEF Sequences
  <2>2. CASE LastFragment(message, start)
    <3>1. unsentFragments' = FALSE /\ outgoingSequence' = n + 1
      BY <2>1, <2>2 DEF Netchan_TransmitNextFragment
    <3>2. QED
      BY <1>1, <3>1 DEF Sequences
  <2>3. CASE ~LastFragment(message, start)
    <3>1. unsentFragments' = TRUE /\ outgoingSequence' = n
      BY <2>3 DEF Netchan_TransmitNextFragment
    <3>2. QED
      BY <1>1, <3>1 DEF Sequences
  <2>4. QED
    BY <2>2, <2>3
<1> HIDE DEF message
<1>8. outgoingSequence' \in 1..(MaxMessages + 1)
  BY <1>1, <1>7, NetchanAssumption DEF Sequences
<1>9. unsentFragmentStart' \in 0..MaxMessageLength
  BY <1>3, <1>6, NetchanAssumption
<1>10. Encoded(sent[Len(sent)], Len(sent))' = message
  BY DEF message, Encoded, SequenceKey
<1>11. unsentMessage' = message /\ unsentFragmentStart' <= unsentMessage'.length
  BY <1>3, <1>6, NetchanAssumption DEF message
<1>12. QED
  BY <1>2, <1>5, <1>7, <1>8, <1>9, <1>10, <1>11 DEF SenderInv, SentGrows

\* A message given to an idle netchan.
LEMMA TransmitStep ==
    ASSUME IInv, sender' = sender, ~unsentFragments, Len(sent) < MaxMessages,
           NEW m \in Messages, Netchan_Transmit(m)
    PROVE  SenderInv' /\ SentGrows /\ Len(sent') = Len(sent) + 1
<1> DEFINE n == Len(sent) + 1
           message == Encoded(m, n)
<1>1. outgoingSequence = n /\ n \in Sequences
  <2>1. Len(sent) \in Nat /\ outgoingSequence = Len(sent) + 1
    BY DEF IInv, TypeOK, SequenceOfSender
  <2>2. QED
    BY <2>1, NetchanAssumption DEF Sequences
<1>2. /\ sent' = Append(sent, m)
      /\ SentGrows
      /\ Len(sent') = n
      /\ sent'[n] = m
  BY <1>1 DEF IInv, TypeOK, Netchan_Transmit, SentGrows, Sequences
<1>3. message \in EncodedMessages /\ message.length = m.length /\ m.length \in Nat
  BY <1>1, EncodedMessage, NetchanAssumption DEF IInv, Messages
<1>4. CASE m.length >= FragmentSize
  <2>1. unsentMessage' = message /\ Netchan_TransmitNextFragment(message, 0)
    BY <1>1, <1>4 DEF Netchan_Transmit
  <2>2. 0 \in 0..unsentMessage'.length
    BY <1>3, <2>1
  <2>3. QED
    BY <1>1, <1>2, <2>1, <2>2, FragmentStep
<1>5. CASE ~(m.length >= FragmentSize)
  <2>1. Netchan_TransmitWhole(message) /\ unsentMessage' = unsentMessage
    BY <1>1, <1>5 DEF Netchan_Transmit
  <2>2. Piece(Whole(message, n), message, n)
    BY <1>1, <1>3, WholeIsPiece DEF Sequences
  <2>3. DatagramsGenuine' /\ network' \subseteq Datagrams
    <3> DEFINE D == {Whole(message, n)}
    <3>1. network' = network \union D
      BY <1>1, <2>1 DEF Netchan_TransmitWhole
    <3>2. \A p \in D : Piece(p, Encoded(sent'[Len(sent')], Len(sent')), Len(sent'))
      BY <1>2, <2>2
    <3>3. Len(sent') > 0
      BY <1>1, <1>2 DEF Sequences
    <3> HIDE DEF D
    <3>4. QED
      BY <1>2, <3>1, <3>2, <3>3, NetworkGrows
  <2>4. outgoingSequence' = n + 1
    BY <1>1, <2>1, NextIsSuccessor DEF Netchan_TransmitWhole, Sequences
  <2>5. unsentFragments' = FALSE /\ unsentFragmentStart' = 0
    BY <2>1 DEF Netchan_TransmitWhole, IInv, TypeOK
  <2>6. outgoingSequence' \in 1..(MaxMessages + 1) /\ outgoingSequence' = Len(sent') + 1
    BY <1>1, <1>2, <2>4, NetchanAssumption DEF Sequences
  <2>7. unsentMessage' \in EncodedMessages /\ unsentFragmentStart' \in 0..MaxMessageLength
    BY <2>1, <2>5, NetchanAssumption DEF IInv, TypeOK
  <2>8. QED
    BY <1>2, <2>3, <2>5, <2>6, <2>7 DEF SenderInv, SentGrows
<1>6. QED
  BY <1>2, <1>4, <1>5

\* A step of the sender, put together.
LEMMA SenderStep ==
    ASSUME IInv, sender' = sender, SentGrows, SenderInv', UNCHANGED receiverVars,
           sender = "client" => ~unsentFragments',
           accepted' \in 0..MaxMessages,
           queue' \in Seq(Messages),
           Len(sent') + Len(queue') <= accepted'
    PROVE  IInv'
<1>1. ReceiverBehind' /\ ReassemblyPure' /\ DeliveredIntact' /\ DeliveredInOrder'
  BY ReceiverUntouched
<1>2. SequenceOfSender'
  BY DEF SequenceOfSender, SenderInv
<1>3. TypeOK'
  <2>1. NumberedMessages' = NumberedMessages
    BY DEF NumberedMessages
  <2>2. QED
    BY <2>1 DEF TypeOK, SenderInv, IInv, receiverVars
<1>4. QED
  BY <1>1, <1>2, <1>3 DEF IInv, SenderInv

LEMMA Lengths ==
    ASSUME IInv
    PROVE  /\ Len(sent) \in Nat
           /\ Len(queue) \in Nat
           /\ accepted \in Nat
           /\ MaxMessages \in Nat
           /\ accepted <= MaxMessages
           /\ Len(sent) + Len(queue) <= accepted
  BY NetchanAssumption DEF IInv, TypeOK, SequenceOfSender

LEMMA TransmitInvariant ==
    ASSUME IInv, NEW m \in Messages, SV_Netchan_Transmit(m)
    PROVE  IInv'
<1>1. accepted' = accepted + 1 /\ accepted < MaxMessages /\ accepted' \in 0..MaxMessages
  BY Lengths DEF SV_Netchan_Transmit, Accept
<1>2. sender' = sender /\ UNCHANGED receiverVars /\ sender = "server"
  BY DEF SV_Netchan_Transmit
<1>3. CASE MustQueue
  <2>1. queue' = Append(queue, m) /\ UNCHANGED <<senderVars, network>>
    BY <1>3 DEF SV_Netchan_Transmit
  <2>2. queue' \in Seq(Messages) /\ Len(queue') = Len(queue) + 1
    BY <2>1 DEF IInv, TypeOK
  <2>3. SentGrows
    BY <2>1, Lengths DEF SentGrows, senderVars, IInv, TypeOK
  <2>4. Encoded(sent[Len(sent)], Len(sent))' = Encoded(sent[Len(sent)], Len(sent))
    BY <1>2, <2>1 DEF Encoded, SequenceKey, senderVars
  <2>5. DatagramsGenuine'
    <3>1. \A s : SequenceKey(s)' = SequenceKey(s)
      BY <1>2 DEF SequenceKey
    <3>2. QED
      BY <2>1, <3>1 DEF IInv, DatagramsGenuine, senderVars
  <2>6. SenderInv'
    BY <2>1, <2>4, <2>5 DEF SenderInv, senderVars, IInv, TypeOK, SequenceOfSender
  <2>7. Len(sent') + Len(queue') <= accepted'
    BY <1>1, <2>1, <2>2, Lengths DEF senderVars
  <2>8. QED
    BY <1>1, <1>2, <2>2, <2>3, <2>6, <2>7, SenderStep
<1>4. CASE ~MustQueue
  <2>1. Netchan_Transmit(m) /\ queue' = queue /\ ~unsentFragments
    BY <1>4 DEF SV_Netchan_Transmit, MustQueue
  <2>2. Len(sent) < MaxMessages
    BY <1>1, Lengths
  <2>3. SenderInv' /\ SentGrows /\ Len(sent') = Len(sent) + 1
    BY <1>2, <2>1, <2>2, TransmitStep
  <2>4. queue' \in Seq(Messages) /\ Len(sent') + Len(queue') <= accepted'
    BY <1>1, <2>1, <2>3, Lengths DEF IInv, TypeOK
  <2>5. QED
    BY <1>1, <1>2, <2>3, <2>4, SenderStep
<1>5. QED
  BY <1>3, <1>4

LEMMA NextFragmentInvariant ==
    ASSUME IInv, SV_Netchan_TransmitNextFragment
    PROVE  IInv'
<1>1. /\ sender' = sender
      /\ sender = "server"
      /\ UNCHANGED receiverVars
      /\ accepted' = accepted
      /\ accepted' \in 0..MaxMessages
  BY DEF SV_Netchan_TransmitNextFragment, IInv, TypeOK
<1>2. CASE /\ unsentFragments
           /\ Netchan_TransmitNextFragment(unsentMessage, unsentFragmentStart)
           /\ UNCHANGED <<queue, unsentMessage, sent>>
  <2>1. SentGrows
    BY <1>2, Lengths DEF SentGrows, IInv, TypeOK
  <2>2. /\ Len(sent') > 0
        /\ outgoingSequence = Len(sent')
        /\ unsentMessage = Encoded(sent[Len(sent)], Len(sent))
        /\ unsentFragmentStart <= unsentMessage.length
    BY <1>2, Lengths DEF IInv, SequenceOfSender
  <2>3. Encoded(sent'[Len(sent')], Len(sent')) = Encoded(sent[Len(sent)], Len(sent))
    BY <1>2
  <2>4. unsentFragmentStart \in 0..unsentMessage'.length
    BY <1>2, <2>2, NetchanAssumption DEF IInv, TypeOK, EncodedMessages
  <2>5. SenderInv'
    BY <1>1, <1>2, <2>1, <2>2, <2>3, <2>4, FragmentStep
  <2>6. queue' \in Seq(Messages) /\ Len(sent') + Len(queue') <= accepted'
    BY <1>1, <1>2, Lengths DEF IInv, TypeOK
  <2>7. QED
    BY <1>1, <2>1, <2>5, <2>6, SenderStep
<1>3. CASE /\ ~unsentFragments
           /\ queue # <<>>
           /\ SV_Netchan_TransmitNextInQueue
  <2>1. /\ Head(queue) \in Messages
        /\ queue' = Tail(queue)
        /\ queue' \in Seq(Messages)
        /\ Len(queue') = Len(queue) - 1
        /\ Netchan_Transmit(Head(queue))
    BY <1>3 DEF SV_Netchan_TransmitNextInQueue, IInv, TypeOK
  <2>2. Len(queue) > 0
    BY <1>3 DEF IInv, TypeOK
  <2>3. Len(sent) < MaxMessages
    BY <2>2, Lengths
  <2>4. SenderInv' /\ SentGrows /\ Len(sent') = Len(sent) + 1
    BY <1>1, <1>3, <2>1, <2>3, TransmitStep
  <2>5. Len(sent') + Len(queue') <= accepted'
    BY <1>1, <2>1, <2>4, Lengths
  <2>6. QED
    BY <1>1, <2>1, <2>4, <2>5, SenderStep
<1>4. QED
  BY <1>2, <1>3 DEF SV_Netchan_TransmitNextFragment

LEMMA FreeQueueInvariant ==
    ASSUME IInv, SV_Netchan_FreeQueue
    PROVE  IInv'
<1>1. /\ sender' = sender /\ UNCHANGED senderVars /\ network' = network
      /\ UNCHANGED receiverVars /\ accepted' = accepted /\ queue' = <<>>
  BY DEF SV_Netchan_FreeQueue
<1>2. \A s : SequenceKey(s)' = SequenceKey(s)
  BY <1>1 DEF SequenceKey
<1>3. TypeOK'
  BY <1>1 DEF IInv, TypeOK, senderVars, receiverVars, NumberedMessages
<1>4. SequenceOfSender'
  <2>1. Encoded(sent[Len(sent)], Len(sent))' = Encoded(sent[Len(sent)], Len(sent))
    BY <1>1 DEF Encoded, SequenceKey, senderVars
  <2>2. Len(sent') + Len(queue') <= accepted'
    BY <1>1, Lengths DEF senderVars
  <2>3. QED
    BY <1>1, <2>1, <2>2 DEF IInv, SequenceOfSender, senderVars
<1>5. DatagramsGenuine'
  BY <1>1, <1>2 DEF IInv, DatagramsGenuine, senderVars
<1>6. SentGrows
  BY <1>1, Lengths DEF SentGrows, senderVars, IInv, TypeOK
<1>7. ReceiverBehind' /\ ReassemblyPure' /\ DeliveredIntact' /\ DeliveredInOrder'
  BY <1>1, <1>6, ReceiverUntouched
<1>8. QED
  BY <1>3, <1>4, <1>5, <1>7 DEF IInv

\* A client puts every piece of a message on the network in one step.
LEMMA ClientStep ==
    ASSUME IInv, sender = "client", sender' = sender, NEW m \in Messages, Accept(m),
           network' = network \union
               AllDatagrams(Encoded(m, outgoingSequence), outgoingSequence),
           outgoingSequence' = NextSequence(outgoingSequence),
           unsentFragments' = FALSE,
           unsentFragmentStart' \in 0..MaxMessageLength,
           unsentMessage' \in EncodedMessages,
           sent' = Append(sent, m),
           queue' = queue, UNCHANGED receiverVars
    PROVE  IInv'
<1> DEFINE n == Len(sent) + 1
<1>1. /\ accepted' = accepted + 1
      /\ accepted' \in 0..MaxMessages
      /\ Len(sent) < MaxMessages
      /\ n \in Sequences
  BY Lengths DEF Accept, Sequences
<1>2. outgoingSequence = n
  BY DEF IInv, SequenceOfSender
<1>3. SentGrows /\ Len(sent') = n /\ sent'[n] = m
  BY <1>1 DEF IInv, TypeOK, SentGrows, Sequences
<1>4. DatagramsGenuine' /\ network' \subseteq Datagrams
  <2> DEFINE D == AllDatagrams(Encoded(m, n), n)
  <2>1. network' = network \union D
    BY <1>2
  <2>2. \A p \in D : Piece(p, Encoded(m, n), n)
    BY <1>1, EncodedMessage, AllArePieces DEF IInv, Sequences
  <2>3. \A p \in D : Piece(p, Encoded(sent'[Len(sent')], Len(sent')), Len(sent'))
    BY <1>3, <2>2
  <2>4. Len(sent') > 0
    BY <1>1, <1>3 DEF Sequences
  <2> HIDE DEF D
  <2>5. QED
    BY <1>3, <2>1, <2>3, <2>4, NetworkGrows
<1>5. outgoingSequence' = n + 1
  BY <1>1, <1>2, NextIsSuccessor DEF Sequences
<1>6. outgoingSequence' \in 1..(MaxMessages + 1)
  BY <1>1, <1>5, NetchanAssumption DEF Sequences
<1>7. SenderInv'
  BY <1>3, <1>4, <1>5, <1>6 DEF SenderInv, SentGrows
<1>8. queue' \in Seq(Messages) /\ Len(sent') + Len(queue') <= accepted'
  BY <1>1, <1>3, Lengths DEF IInv, TypeOK
<1>9. QED
  BY <1>1, <1>3, <1>7, <1>8, SenderStep

LEMMA ClientTransmitInvariant ==
    ASSUME IInv, NEW m \in Messages, CL_Netchan_Transmit(m)
    PROVE  IInv'
<1>1. m.length \in 0..MaxMessageLength /\ 0 \in 0..MaxMessageLength
  BY NetchanAssumption DEF Messages
<1>2. outgoingSequence \in Sequences
  BY Lengths DEF CL_Netchan_Transmit, Accept, IInv, SequenceOfSender, Sequences
<1>3. Encoded(m, outgoingSequence) \in EncodedMessages
  BY <1>2, EncodedMessage DEF IInv
<1>4. unsentMessage' \in EncodedMessages /\ unsentFragmentStart' \in 0..MaxMessageLength
  BY <1>1, <1>3 DEF CL_Netchan_Transmit, IInv, TypeOK
<1>5. QED
  BY <1>4, ClientStep DEF CL_Netchan_Transmit

LEMMA ClientEnqueueInvariant ==
    ASSUME IInv, NEW m \in Messages, CL_Netchan_Enqueue(m)
    PROVE  IInv'
<1>1. unsentFragments' = FALSE
  BY DEF CL_Netchan_Enqueue, IInv, TypeOK, SequenceOfSender
<1>2. unsentMessage' \in EncodedMessages /\ unsentFragmentStart' \in 0..MaxMessageLength
  BY DEF CL_Netchan_Enqueue, IInv, TypeOK
<1>3. QED
  BY <1>1, <1>2, ClientStep DEF CL_Netchan_Enqueue

-----------------------------------------------------------------------------
\* The receiver.

\* What is known of a datagram Netchan_Process accepts.
LEMMA AcceptedDatagram ==
    ASSUME IInv, NEW p \in network, Newer(p)
    PROVE  /\ p \in Datagrams
           /\ p.sequence \in 1..Len(sent)
           /\ sent[p.sequence] \in Messages
           /\ p.sequence > incomingSequence
           /\ p.start \in Nat /\ p.length \in Nat
           /\ Assembled(p) \in 0..MaxMessageLength
<1>1. p \in Datagrams /\ p.sequence \in 1..Len(sent)
  BY Lengths DEF IInv, TypeOK, DatagramsGenuine, Datagrams, Sequences
<1>2. p.sequence > incomingSequence
  <2>1. p.sequence \in 0..(MaxMessages + 1) /\ incomingSequence \in 0..(MaxMessages + 1)
    BY <1>1, NetchanAssumption DEF Datagrams, Sequences, IInv, TypeOK
  <2>2. QED
    BY <2>1, NewerIsGreater DEF Newer
<1>3. sent[p.sequence] \in Messages
  BY <1>1 DEF IInv, TypeOK
<1>4. p.start \in Nat /\ p.length \in Nat
  BY <1>1, NetchanAssumption DEF Datagrams
<1>5. Assembled(p) \in 0..MaxMessageLength
  BY NetchanAssumption DEF Assembled, IInv, TypeOK
<1>6. QED
  BY <1>1, <1>2, <1>3, <1>4, <1>5

\* Handing up a whole message.
LEMMA DeliverStep ==
    ASSUME IInv, NEW p \in network, Newer(p), NEW bytes, Deliver(p, bytes),
           sender' = sender, sent' = sent,
           DOMAIN bytes = 0..(sent[p.sequence].length - 1),
           \A k \in DOMAIN bytes :
               bytes[k] = [id |-> sent[p.sequence].id,
                           key |-> SequenceKey(p.sequence), at |-> k]
    PROVE  /\ incomingSequence' \in 0..MaxMessages
           /\ delivered' \in Seq(NumberedMessages')
           /\ ReceiverBehind'
           /\ DeliveredIntact'
           /\ DeliveredInOrder'
<1> DEFINE item == [sequence |-> p.sequence,
                    data     |-> [k \in DOMAIN bytes |-> Decoded(bytes[k], p.sequence)]]
<1>1. /\ p.sequence \in 1..Len(sent)
      /\ sent[p.sequence] \in Messages
      /\ p.sequence > incomingSequence
      /\ p.sequence \in Sequences
  BY AcceptedDatagram, Lengths DEF Sequences
<1>2. item.data = PlainText(sent[p.sequence])
  <2>1. \A k \in DOMAIN bytes : Decoded(bytes[k], p.sequence) = <<sent[p.sequence].id, k>>
    <3> SUFFICES ASSUME NEW k \in DOMAIN bytes
                 PROVE  Decoded(bytes[k], p.sequence) = <<sent[p.sequence].id, k>>
      OBVIOUS
    <3>1. /\ bytes[k].key = SequenceKey(p.sequence)
          /\ bytes[k].id = sent[p.sequence].id
          /\ bytes[k].at = k
      <4>1. bytes[k] = [id |-> sent[p.sequence].id,
                        key |-> SequenceKey(p.sequence), at |-> k]
        OBVIOUS
      <4>2. QED
        BY <4>1
    <3>2. QED
      BY <3>1 DEF Decoded
  <2>2. QED
    BY <2>1 DEF PlainText
<1>3. item \in NumberedMessages
  <2>1. item = [sequence |-> p.sequence, data |-> PlainText(sent[p.sequence])]
    BY <1>2
  <2> HIDE DEF item
  <2>2. QED
    BY <1>1, <2>1 DEF NumberedMessages
<1>4. delivered' = Append(delivered, item) /\ incomingSequence' = p.sequence
  BY DEF Deliver
<1>5. item.sequence = p.sequence
  OBVIOUS
<1> HIDE DEF item
<1>6. delivered \in Seq(NumberedMessages)
  BY DEF IInv, TypeOK
<1>7. /\ delivered' \in Seq(NumberedMessages)
      /\ Len(delivered') = Len(delivered) + 1
      /\ \A k \in 1..Len(delivered) : delivered'[k] = delivered[k]
      /\ delivered'[Len(delivered) + 1] = item
      /\ DOMAIN delivered' = 1..(Len(delivered) + 1)
      /\ DOMAIN delivered = 1..Len(delivered)
      /\ Len(delivered) \in Nat
  BY <1>3, <1>4, <1>6
<1>8. DOMAIN sent = 1..Len(sent)
  BY DEF IInv, TypeOK
<1>9. DeliveredIntact'
  BY <1>1, <1>2, <1>5, <1>7, <1>8 DEF IInv, DeliveredIntact
<1>10. DeliveredInOrder'
  <2>1. \A k \in 1..Len(delivered) :
           delivered[k].sequence \in Nat /\ delivered[k].sequence < p.sequence
    <3>1. \A k \in 1..Len(delivered) : delivered[k].sequence \in 1..Len(sent)
      BY <1>7, <1>8 DEF IInv, DeliveredIntact
    <3>2. incomingSequence \in Nat
      BY NetchanAssumption DEF IInv, TypeOK
    <3>3. QED
      BY <1>1, <1>7, <3>1, <3>2 DEF IInv, DeliveredInOrder
  <2>2. \A j, k \in 1..Len(delivered) : j < k => delivered[j].sequence < delivered[k].sequence
    BY <1>7 DEF IInv, DeliveredInOrder
  <2>3. QED
    BY <1>1, <1>4, <1>5, <1>7, <2>1, <2>2 DEF DeliveredInOrder
<1>11. NumberedMessages' = NumberedMessages
  BY DEF NumberedMessages
<1>12. incomingSequence' \in 0..MaxMessages
  BY <1>1, <1>4 DEF Sequences
<1>13. ReceiverBehind'
  BY <1>1, <1>4 DEF ReceiverBehind
<1>14. QED
  BY <1>7, <1>9, <1>10, <1>11, <1>12, <1>13

\* Where a fragment that continues the buffer puts its bytes.
LEMMA StoredBytes ==
    ASSUME IInv, NEW p \in network, Newer(p), p.fragmented,
           p.start = Assembled(p), FragmentFits(p)
    PROVE  /\ Stored(p) \in [0..(MaxMessageLength - 1) -> Bytes]
           /\ Assembled(p) + p.length \in 0..MaxMessageLength
           /\ Assembled(p) + p.length <= sent[p.sequence].length
           /\ \A k \in 0..(Assembled(p) + p.length - 1) :
                 Stored(p)[k] = [id  |-> sent[p.sequence].id,
                                 key |-> SequenceKey(p.sequence),
                                 at  |-> k]
<1> DEFINE a == Assembled(p)
           n == p.sequence
<1>1. /\ p \in Datagrams
      /\ n \in 1..Len(sent)
      /\ sent[n] \in Messages
      /\ p.length \in Nat
      /\ a \in Nat
      /\ a + p.length \in 0..MaxMessageLength
      /\ MaxMessageLength \in Nat
  BY AcceptedDatagram, NetchanAssumption DEF FragmentFits
<1>2. p.id = sent[n].id /\ p.key = SequenceKey(n) /\ a + p.length <= sent[n].length
  BY DEF IInv, DatagramsGenuine
<1>3. \A k \in 0..(a - 1) :
         fragmentBuffer[k] = [id |-> sent[n].id, key |-> SequenceKey(n), at |-> k]
  BY <1>1 DEF Assembled, IInv, ReassemblyPure
<1>4. ASSUME NEW k \in a..(a + p.length - 1)
      PROVE  ByteAt(p, p.start + k - a) = [id |-> p.id, key |-> p.key, at |-> k]
             /\ ByteAt(p, p.start + k - a) \in Bytes
  <2>1. p.start + k - a = k /\ k \in 0..MaxMessageLength
    BY <1>1
  <2>2. p.id \in 0..MaxMessages /\ p.key \in 0..MaxMessages
    BY <1>1 DEF Datagrams
  <2>3. QED
    BY <2>1, <2>2 DEF ByteAt, Bytes
<1>5. Stored(p) \in [0..(MaxMessageLength - 1) -> Bytes]
  <2>1. \A k \in 0..(MaxMessageLength - 1) : fragmentBuffer[k] \in Bytes
    BY DEF IInv, TypeOK
  <2>2. QED
    BY <1>4, <2>1 DEF Stored
<1>6. ASSUME NEW k \in 0..(a + p.length - 1)
      PROVE  Stored(p)[k] = [id |-> sent[n].id, key |-> SequenceKey(n), at |-> k]
  <2>1. k \in 0..(MaxMessageLength - 1)
    BY <1>1
  <2>2. CASE k \in a..(a + p.length - 1)
    BY <1>2, <1>4, <2>1, <2>2 DEF Stored
  <2>3. CASE k \in 0..(a - 1)
    <3>1. ~(k \in a..(a + p.length - 1))
      BY <1>1, <2>3
    <3>2. QED
      BY <1>3, <2>1, <2>3, <3>1 DEF Stored
  <2>4. QED
    BY <1>1, <2>2, <2>3
<1>7. QED
  BY <1>1, <1>2, <1>5, <1>6

LEMMA ReassembledBytes ==
    ASSUME NEW p
    PROVE  /\ DOMAIN Reassembled(p) = 0..(Assembled(p) + p.length - 1)
           /\ \A k \in 0..(Assembled(p) + p.length - 1) : Reassembled(p)[k] = Stored(p)[k]
  BY DEF Reassembled

LEMMA ProcessInvariant ==
    ASSUME IInv, NEW p \in network, Netchan_Process(p)
    PROVE  IInv'
<1> DEFINE n == p.sequence
<1>1. /\ Newer(p)
      /\ sender' = sender
      /\ UNCHANGED senderVars /\ sent' = sent
      /\ queue' = queue /\ network' = network /\ accepted' = accepted
  BY DEF Netchan_Process, senderVars
<1>2. /\ p \in Datagrams
      /\ n \in 1..Len(sent)
      /\ n \in 0..MaxMessages
      /\ sent[n] \in Messages
      /\ p.sequence > incomingSequence
      /\ p.length \in Nat
      /\ Assembled(p) \in 0..MaxMessageLength
  BY <1>1, AcceptedDatagram, Lengths
<1>3. /\ \A s : SequenceKey(s)' = SequenceKey(s)
      /\ NumberedMessages' = NumberedMessages
  BY <1>1 DEF SequenceKey, NumberedMessages
<1>4. SequenceOfSender'
  <2>1. Encoded(sent[Len(sent)], Len(sent))' = Encoded(sent[Len(sent)], Len(sent))
    BY <1>1 DEF Encoded, SequenceKey
  <2>2. QED
    BY <1>1, <2>1 DEF IInv, SequenceOfSender, senderVars
<1>5. DatagramsGenuine'
  BY <1>1, <1>3 DEF IInv, DatagramsGenuine
<1>6. CASE ProcessWhole(p)
  <2> DEFINE bytes == [k \in 0..(p.length - 1) |-> ByteAt(p, k)]
  <2>1. p.length = sent[n].length /\ p.id = sent[n].id /\ p.key = SequenceKey(n)
    BY <1>6 DEF ProcessWhole, IInv, DatagramsGenuine
  <2>2. DOMAIN bytes = 0..(sent[n].length - 1)
    BY <2>1
  <2>3. \A k \in DOMAIN bytes :
           bytes[k] = [id |-> sent[n].id, key |-> SequenceKey(n), at |-> k]
    BY <2>1 DEF ByteAt
  <2>4. Deliver(p, bytes)
    BY <1>6 DEF ProcessWhole
  <2> HIDE DEF bytes
  <2>5. /\ incomingSequence' \in 0..MaxMessages
        /\ delivered' \in Seq(NumberedMessages')
        /\ ReceiverBehind'
        /\ DeliveredIntact'
        /\ DeliveredInOrder'
    BY <1>1, <2>2, <2>3, <2>4, DeliverStep
  <2>6. TypeOK'
    BY <1>1, <1>6, <2>5 DEF ProcessWhole, IInv, TypeOK, senderVars
  <2>7. ReassemblyPure'
    BY <1>1, <1>3, <1>6 DEF ProcessWhole, IInv, ReassemblyPure
  <2>8. QED
    BY <1>4, <1>5, <2>5, <2>6, <2>7 DEF IInv
<1>7. CASE MissFragment(p)
  <2>1. /\ fragmentSequence' = n
        /\ fragmentLength' = Assembled(p)
        /\ UNCHANGED <<incomingSequence, fragmentBuffer, delivered>>
    BY <1>7 DEF MissFragment
  <2>2. TypeOK'
    BY <1>1, <1>2, <1>3, <2>1 DEF IInv, TypeOK, senderVars
  <2>3. ReassemblyPure'
    BY <1>1, <1>3, <2>1 DEF IInv, ReassemblyPure, Assembled
  <2>4. ReceiverBehind' /\ DeliveredIntact' /\ DeliveredInOrder'
    BY <1>1, <2>1 DEF IInv, ReceiverBehind, DeliveredIntact, DeliveredInOrder
  <2>5. QED
    BY <1>4, <1>5, <2>2, <2>3, <2>4 DEF IInv
<1>8. CASE StoreFragment(p)
  <2>1. /\ Newer(p) /\ p.fragmented /\ p.start = Assembled(p) /\ FragmentFits(p)
        /\ fragmentSequence' = n
        /\ fragmentBuffer' = Stored(p)
    BY <1>1, <1>8 DEF StoreFragment
  <2>2. /\ Stored(p) \in [0..(MaxMessageLength - 1) -> Bytes]
        /\ Assembled(p) + p.length \in 0..MaxMessageLength
        /\ Assembled(p) + p.length <= sent[p.sequence].length
        /\ \A k \in 0..(Assembled(p) + p.length - 1) :
              Stored(p)[k] = [id  |-> sent[p.sequence].id,
                              key |-> SequenceKey(p.sequence),
                              at  |-> k]
    BY <2>1, StoredBytes
  <2>3. CASE p.length = FragmentSize
    <3>1. /\ fragmentLength' = Assembled(p) + p.length
          /\ UNCHANGED <<incomingSequence, delivered>>
      BY <1>8, <2>3 DEF StoreFragment
    <3>2. TypeOK'
      BY <1>1, <1>2, <1>3, <2>1, <2>2, <3>1 DEF IInv, TypeOK, senderVars
    <3>3. ReassemblyPure'
      BY <1>1, <1>2, <1>3, <2>1, <2>2, <3>1 DEF ReassemblyPure
    <3>4. ReceiverBehind' /\ DeliveredIntact' /\ DeliveredInOrder'
      BY <1>1, <3>1 DEF IInv, ReceiverBehind, DeliveredIntact, DeliveredInOrder
    <3>5. QED
      BY <1>4, <1>5, <3>2, <3>3, <3>4 DEF IInv
  <2>4. CASE p.length # FragmentSize
    <3>1. fragmentLength' = 0 /\ Deliver(p, Reassembled(p))
      BY <1>8, <2>4 DEF StoreFragment
    <3>2. Assembled(p) + p.length = sent[p.sequence].length
      BY <2>1, <2>4 DEF IInv, DatagramsGenuine
    <3>3. /\ DOMAIN Reassembled(p) = 0..(Assembled(p) + p.length - 1)
          /\ \A k \in 0..(Assembled(p) + p.length - 1) : Reassembled(p)[k] = Stored(p)[k]
      BY ReassembledBytes
    <3>4. DOMAIN Reassembled(p) = 0..(sent[p.sequence].length - 1)
      <4>1. /\ Assembled(p) \in Nat /\ p.length \in Nat
            /\ sent[p.sequence].length \in Nat
        BY <1>2, NetchanAssumption DEF Messages
      <4>2. QED
        BY <3>2, <3>3, <4>1
    <3>5. \A k \in DOMAIN Reassembled(p) :
             Reassembled(p)[k] = [id |-> sent[p.sequence].id,
                                  key |-> SequenceKey(p.sequence), at |-> k]
      BY <2>2, <3>3
    <3>6. /\ incomingSequence' \in 0..MaxMessages
          /\ delivered' \in Seq(NumberedMessages')
          /\ ReceiverBehind'
          /\ DeliveredIntact'
          /\ DeliveredInOrder'
      BY <1>1, <3>1, <3>4, <3>5, DeliverStep
    <3>7. 0 \in 0..MaxMessageLength
      BY NetchanAssumption
    <3>8. TypeOK'
      BY <1>1, <1>2, <2>1, <2>2, <3>1, <3>6, <3>7 DEF IInv, TypeOK, senderVars
    <3>9. ReassemblyPure'
      BY <3>1 DEF ReassemblyPure
    <3>10. QED
      BY <1>4, <1>5, <3>6, <3>8, <3>9 DEF IInv
  <2>5. QED
    BY <2>3, <2>4
<1>9. QED
  BY <1>6, <1>7, <1>8 DEF Netchan_Process

-----------------------------------------------------------------------------
\* The invariant of the specification.

LEMMA InitInvariant == Init => IInv
<1> SUFFICES ASSUME Init PROVE IInv
  OBVIOUS
<1>1. TypeOK
  <2>1. /\ 0 \in 0..MaxMessages /\ 0 \in 0..MaxMessageLength
        /\ 1 \in 1..(MaxMessages + 1)
    BY NetchanAssumption
  <2>2. fragmentBuffer \in [0..(MaxMessageLength - 1) -> Bytes]
    BY <2>1 DEF Init, Bytes, NoByte
  <2>3. unsentMessage \in EncodedMessages
    BY <2>1 DEF Init, EncodedMessages
  <2>4. <<>> \in Seq(Messages) /\ <<>> \in Seq(NumberedMessages)
    OBVIOUS
  <2>5. network \subseteq Datagrams
    BY DEF Init
  <2>6. /\ sender \in {"server", "client"}
        /\ unsentFragments \in BOOLEAN
        /\ queue \in Seq(Messages) /\ sent \in Seq(Messages)
        /\ delivered \in Seq(NumberedMessages)
    BY <2>4 DEF Init
  <2>7. /\ outgoingSequence \in 1..(MaxMessages + 1)
        /\ unsentFragmentStart \in 0..MaxMessageLength
        /\ incomingSequence \in 0..MaxMessages
        /\ fragmentSequence \in 0..MaxMessages
        /\ fragmentLength \in 0..MaxMessageLength
        /\ accepted \in 0..MaxMessages
    BY <2>1 DEF Init
  <2>8. QED
    BY <2>2, <2>3, <2>5, <2>6, <2>7 DEF TypeOK
<1>2. QED
  BY <1>1, NetchanAssumption DEF Init, IInv, SequenceOfSender, DatagramsGenuine,
     ReceiverBehind, ReassemblyPure, DeliveredIntact, DeliveredInOrder

LEMMA StepInvariant == IInv /\ [Next]_vars => IInv'
<1> SUFFICES ASSUME IInv, [Next]_vars PROVE IInv'
  OBVIOUS
<1>1. CASE \E m \in Messages : SV_Netchan_Transmit(m)
  BY <1>1, TransmitInvariant
<1>2. CASE SV_Netchan_TransmitNextFragment
  BY <1>2, NextFragmentInvariant
<1>3. CASE SV_Netchan_FreeQueue
  BY <1>3, FreeQueueInvariant
<1>4. CASE \E m \in Messages : CL_Netchan_Transmit(m)
  BY <1>4, ClientTransmitInvariant
<1>5. CASE \E m \in Messages : CL_Netchan_Enqueue(m)
  BY <1>5, ClientEnqueueInvariant
<1>6. CASE \E p \in network : Netchan_Process(p)
  BY <1>6, ProcessInvariant
<1>7. CASE UNCHANGED vars
  BY <1>7 DEF vars, senderVars, receiverVars, IInv, TypeOK, SequenceOfSender,
     DatagramsGenuine, ReceiverBehind, ReassemblyPure, DeliveredIntact,
     DeliveredInOrder, NumberedMessages, Encoded, SequenceKey
<1>8. QED
  BY <1>1, <1>2, <1>3, <1>4, <1>5, <1>6, <1>7 DEF Next

\* Every reachable state satisfies the inductive invariant: in particular, what
\* Netchan_Process hands up is byte for byte one message of the other end, and
\* no later message has been handed up before it.
THEOREM NetchanInvariant == Spec => []IInv
  BY InitInvariant, StepInvariant, PTL DEF Spec

\* The variables of the netchan keep their types; the sequence number in use
\* stays below half the circle, so no comparison of numbers is ambiguous.
THEOREM TypeCorrect == Spec => []TypeOK
<1>1. IInv => TypeOK
  BY DEF IInv
<1>2. QED
  BY <1>1, NetchanInvariant, PTL

\* Whatever the network loses, repeats or reorders, a delivered message is the
\* plain text of the message sent under its number.
THEOREM Integrity == Spec => []DeliveredIntact
<1>1. IInv => DeliveredIntact
  BY DEF IInv
<1>2. QED
  BY <1>1, NetchanInvariant, PTL

-----------------------------------------------------------------------------
\* Refinement: every step of the netchan is a step of the message channel.

\* The messages in flight, as the refinement mapping of Channel names them.
InFlight ==
    [k \in 1..(Len(sent) - incomingSequence) |-> Numbered(incomingSequence + k)]

LEMMA InFlightMessages ==
    ASSUME IInv
    PROVE  /\ InFlight \in Seq(NumberedMessages)
           /\ Len(InFlight) = Len(sent) - incomingSequence
           /\ Len(InFlight) \in Nat
           /\ \A k \in 1..Len(InFlight) : InFlight[k] = Numbered(incomingSequence + k)
<1> DEFINE n == Len(sent) - incomingSequence
<1>1. n \in Nat /\ incomingSequence \in Nat
  BY Lengths, NetchanAssumption DEF IInv, TypeOK, ReceiverBehind
<1>2. ASSUME NEW k \in 1..n PROVE Numbered(incomingSequence + k) \in NumberedMessages
  <2>1. incomingSequence + k \in 1..Len(sent) /\ incomingSequence + k \in Sequences
    BY <1>1, Lengths DEF Sequences
  <2>2. sent[incomingSequence + k] \in Messages
    BY <2>1 DEF IInv, TypeOK
  <2>3. QED
    BY <2>1, <2>2 DEF Numbered, NumberedMessages
<1>3. InFlight = [k \in 1..n |-> Numbered(incomingSequence + k)]
  BY DEF InFlight
<1> HIDE DEF n
<1>4. InFlight \in Seq(NumberedMessages) /\ Len(InFlight) = n
  BY <1>1, <1>2, <1>3
<1>5. QED
  BY <1>1, <1>3, <1>4 DEF n

LEMMA AppendAsFunction ==
    ASSUME NEW S, NEW s \in Seq(S), NEW e \in S
    PROVE  Append(s, e) = [k \in 1..(Len(s) + 1) |-> IF k <= Len(s) THEN s[k] ELSE e]
<1> DEFINE t == [k \in 1..(Len(s) + 1) |-> IF k <= Len(s) THEN s[k] ELSE e]
<1>1. Len(s) \in Nat
  OBVIOUS
<1>2. \A k \in 1..(Len(s) + 1) : (IF k <= Len(s) THEN s[k] ELSE e) \in S
  BY <1>1
<1>3. t \in Seq(S) /\ Len(t) = Len(s) + 1
  BY <1>1, <1>2
<1>4. /\ Append(s, e) \in Seq(S)
      /\ Len(Append(s, e)) = Len(s) + 1
      /\ \A k \in 1..(Len(s) + 1) : Append(s, e)[k] = IF k <= Len(s) THEN s[k] ELSE e
  BY <1>1, AppendProperties
<1>5. \A k \in 1..(Len(s) + 1) : t[k] = IF k <= Len(s) THEN s[k] ELSE e
  OBVIOUS
<1> HIDE DEF t
<1>6. Append(s, e) = t
  BY <1>3, <1>4, <1>5, SeqEqual
<1>7. QED
  BY <1>6 DEF t

\* Giving the netchan a message puts it in flight.
LEMMA SendRefines ==
    ASSUME IInv, IInv', NEW m \in Messages, sent' = Append(sent, m),
           UNCHANGED receiverVars
    PROVE  Channel!Next
<1> DEFINE item == [sequence |-> Len(sent) + 1, data |-> PlainText(m)]
<1>1. /\ Len(sent') = Len(sent) + 1
      /\ \A k \in 1..Len(sent) : sent'[k] = sent[k]
      /\ sent'[Len(sent) + 1] = m
      /\ Len(sent) \in Nat
      /\ incomingSequence' = incomingSequence /\ delivered' = delivered
      /\ incomingSequence \in Nat
      /\ incomingSequence <= Len(sent)
  BY NetchanAssumption DEF IInv, TypeOK, ReceiverBehind, receiverVars
<1>2. item \in NumberedMessages
  <2>1. Len(queue') \in Nat /\ accepted' <= MaxMessages /\ accepted' \in Nat
        /\ MaxMessages \in Nat
    BY NetchanAssumption DEF IInv, TypeOK
  <2>2. Len(sent') + Len(queue') <= accepted'
    BY DEF IInv, SequenceOfSender
  <2>3. Len(sent) + 1 \in Sequences
    BY <1>1, <2>1, <2>2 DEF Sequences
  <2>4. QED
    BY <2>3 DEF NumberedMessages
<1>3. InFlight' = Append(InFlight, item)
  <2>1. /\ InFlight \in Seq(NumberedMessages)
        /\ Len(InFlight) = Len(sent) - incomingSequence
    BY InFlightMessages
  <2>2. \A k \in 1..Len(InFlight) : Numbered(incomingSequence + k)' = Numbered(incomingSequence + k)
    BY <1>1, <2>1 DEF Numbered
  <2>3. InFlight' = [k \in 1..(Len(InFlight) + 1) |-> Numbered(incomingSequence + k)']
    BY <1>1, <2>1 DEF InFlight
  <2>4. incomingSequence + (Len(InFlight) + 1) = Len(sent) + 1
    BY <1>1, <2>1
  <2>5. \A k \in 1..Len(InFlight) : InFlight[k] = Numbered(incomingSequence + k)
    BY InFlightMessages
  <2> HIDE DEF item
  <2>6. Append(InFlight, item) =
          [k \in 1..(Len(InFlight) + 1) |-> IF k <= Len(InFlight) THEN InFlight[k] ELSE item]
    BY <1>2, <2>1, AppendAsFunction
  <2>7. ASSUME NEW k \in 1..(Len(InFlight) + 1)
        PROVE  Numbered(incomingSequence + k)' = IF k <= Len(InFlight) THEN InFlight[k] ELSE item
    <3>1. CASE k <= Len(InFlight)
      BY <2>1, <2>2, <2>5, <3>1
    <3>2. CASE ~(k <= Len(InFlight))
      <4>1. k = Len(InFlight) + 1
        BY <2>1, <3>2
      <4>2. incomingSequence + k = Len(sent) + 1
        BY <2>4, <4>1
      <4>3. Numbered(incomingSequence + k)' = item
        <5>1. Numbered(incomingSequence + k)' =
                [sequence |-> incomingSequence + k,
                 data     |-> PlainText(sent'[incomingSequence + k])]
          BY <1>1 DEF Numbered
        <5>2. QED
          BY <1>1, <4>2, <5>1 DEF item
      <4>4. QED
        BY <3>2, <4>3
    <3>3. QED
      BY <3>1, <3>2
  <2>8. QED
    BY <2>3, <2>6, <2>7
<1> HIDE DEF item
<1>4. Channel!Send(item) /\ UNCHANGED delivered
  BY <1>1, <1>3 DEF Channel!Send, InFlight
<1>5. QED
  BY <1>2, <1>4 DEF Channel!Next

\* Handing up the message in flight at distance i drops the i - 1 before it.
LEMMA DeliverRefines ==
    ASSUME IInv, IInv', NEW p \in network, Newer(p), sent' = sent,
           NEW bytes, Deliver(p, bytes)
    PROVE  Channel!Next
<1> DEFINE i == p.sequence - incomingSequence
<1>1. /\ p.sequence \in 1..Len(sent)
      /\ p.sequence > incomingSequence
      /\ incomingSequence \in Nat
      /\ incomingSequence' = p.sequence
      /\ Len(sent) \in Nat
      /\ Len(sent') = Len(sent)
  BY AcceptedDatagram, Lengths, NetchanAssumption, SMTT(30) DEF IInv, TypeOK, Deliver
<1>2. /\ Len(InFlight) = Len(sent) - incomingSequence
      /\ InFlight \in Seq(NumberedMessages)
      /\ \A k \in 1..Len(InFlight) : InFlight[k] = Numbered(incomingSequence + k)
  BY InFlightMessages
<1>3. i \in 1..Len(InFlight)
  BY <1>1, <1>2
<1>4. InFlight' = SubSeq(InFlight, i + 1, Len(InFlight))
  <2>1. InFlight' = [k \in 1..(Len(sent) - p.sequence) |-> Numbered(p.sequence + k)]
    BY <1>1 DEF InFlight, Numbered
  <2>2. SubSeq(InFlight, i + 1, Len(InFlight)) =
          [k \in 1..(Len(InFlight) - i) |-> InFlight[i + k]]
    BY <1>2, <1>3
  <2>3. Len(InFlight) - i = Len(sent) - p.sequence
    BY <1>1, <1>2
  <2>4. ASSUME NEW k \in 1..(Len(InFlight) - i)
        PROVE  InFlight[i + k] = Numbered(p.sequence + k)
    <3>1. i + k \in 1..Len(InFlight) /\ incomingSequence + (i + k) = p.sequence + k
      BY <1>1, <1>2, <1>3, SMTT(30)
    <3>2. InFlight[i + k] = Numbered(incomingSequence + (i + k))
      BY <1>2, <3>1
    <3>3. QED
      BY <3>1, <3>2
  <2> HIDE DEF i
  <2>5. QED
    BY <2>1, <2>2, <2>3, <2>4
<1>5. delivered' = Append(delivered, InFlight[i])
  <2>1. delivered' = Append(delivered, [sequence |-> p.sequence,
           data |-> [k \in DOMAIN bytes |-> Decoded(bytes[k], p.sequence)]])
    BY DEF Deliver
  <2>2. delivered \in Seq(NumberedMessages) /\ Len(delivered) \in Nat
    BY DEF IInv, TypeOK
  <2>3. delivered'[Len(delivered) + 1].data = PlainText(sent'[p.sequence])
    <3>1. Len(delivered) + 1 \in DOMAIN delivered'
          /\ delivered'[Len(delivered) + 1].sequence = p.sequence
      BY <2>1, <2>2
    <3>2. QED
      BY <3>1 DEF IInv, DeliveredIntact
  <2>4. [k \in DOMAIN bytes |-> Decoded(bytes[k], p.sequence)] = PlainText(sent[p.sequence])
    BY <2>1, <2>2, <2>3
  <2>5. InFlight[i] = Numbered(p.sequence)
    BY <1>1, <1>2, <1>3
  <2>6. QED
    BY <2>1, <2>4, <2>5 DEF Numbered
<1> HIDE DEF i
<1>6. Channel!Receive(i)
  BY <1>4, <1>5 DEF Channel!Receive, Channel!Overtake, InFlight
<1>7. QED
  BY <1>2, <1>3, <1>6 DEF Channel!Next, InFlight

\* A step that neither starts a message nor hands one up is invisible.
LEMMA StutterRefines ==
    ASSUME sent' = sent, incomingSequence' = incomingSequence, delivered' = delivered
    PROVE  UNCHANGED <<InFlight, delivered>>
  BY DEF InFlight, Numbered

LEMMA StepRefines ==
    ASSUME IInv, IInv', [Next]_vars
    PROVE  Channel!Next \/ UNCHANGED <<InFlight, delivered>>
<1>1. CASE \E m \in Messages : SV_Netchan_Transmit(m)
  <2>1. PICK m \in Messages : SV_Netchan_Transmit(m)
    BY <1>1
  <2>2. CASE MustQueue
    BY <2>1, <2>2, StutterRefines DEF SV_Netchan_Transmit, senderVars, receiverVars
  <2>3. CASE ~MustQueue
    BY <2>1, <2>3, SendRefines DEF SV_Netchan_Transmit, Netchan_Transmit
  <2>4. QED
    BY <2>2, <2>3
<1>2. CASE SV_Netchan_TransmitNextFragment
  <2>1. CASE UNCHANGED <<queue, unsentMessage, sent>>
    BY <1>2, <2>1, StutterRefines DEF SV_Netchan_TransmitNextFragment, receiverVars
  <2>2. CASE queue # <<>> /\ SV_Netchan_TransmitNextInQueue
    <3>1. Head(queue) \in Messages
      <4>1. queue \in Seq(Messages)
        BY DEF IInv, TypeOK
      <4>2. queue # <<>>
        BY <2>2
      <4>3. QED
        BY <4>1, <4>2
    <3>2. sent' = Append(sent, Head(queue)) /\ UNCHANGED receiverVars
      BY <1>2, <2>2
         DEF SV_Netchan_TransmitNextFragment, SV_Netchan_TransmitNextInQueue, Netchan_Transmit
    <3>3. QED
      BY <3>1, <3>2, SendRefines
  <2>3. QED
    BY <1>2, <2>1, <2>2 DEF SV_Netchan_TransmitNextFragment
<1>3. CASE SV_Netchan_FreeQueue
  BY <1>3, StutterRefines DEF SV_Netchan_FreeQueue, senderVars, receiverVars
<1>4. CASE \E m \in Messages : CL_Netchan_Transmit(m)
  BY <1>4, SendRefines DEF CL_Netchan_Transmit
<1>5. CASE \E m \in Messages : CL_Netchan_Enqueue(m)
  BY <1>5, SendRefines DEF CL_Netchan_Enqueue
<1>6. CASE \E p \in network : Netchan_Process(p)
  <2>1. PICK p \in network : Netchan_Process(p)
    BY <1>6
  <2>2. sent' = sent /\ Newer(p)
    BY <2>1 DEF Netchan_Process, senderVars
  <2>3. CASE ProcessWhole(p)
    BY <2>2, <2>3, DeliverRefines DEF ProcessWhole
  <2>4. CASE MissFragment(p)
    BY <2>2, <2>4, StutterRefines DEF MissFragment
  <2>5. CASE StoreFragment(p) /\ p.length = FragmentSize
    BY <2>2, <2>5, StutterRefines DEF StoreFragment
  <2>6. CASE StoreFragment(p) /\ p.length # FragmentSize
    BY <2>2, <2>6, DeliverRefines DEF StoreFragment
  <2>7. QED
    BY <2>1, <2>3, <2>4, <2>5, <2>6 DEF Netchan_Process
<1>7. CASE UNCHANGED vars
  BY <1>7, StutterRefines DEF vars, senderVars, receiverVars
<1>8. QED
  BY <1>1, <1>2, <1>3, <1>4, <1>5, <1>6, <1>7 DEF Next

\* The netchan implements the message channel: to the code above, an exchange
\* of fragments over a network that loses, repeats and reorders datagrams is a
\* line of whole messages some of which never arrive.
THEOREM NetchanImplementsChannel == Spec => ChannelSpec
<1>1. Init => Channel!Init
  <2>1. ASSUME Init PROVE InFlight = <<>> /\ delivered = <<>>
    BY <2>1 DEF Init, InFlight
  <2>2. QED
    BY <2>1 DEF Channel!Init, InFlight
<1>2. IInv /\ IInv' /\ [Next]_vars => [Channel!Next]_<<InFlight, delivered>>
  BY StepRefines
<1>3. IInv /\ IInv' /\ [Next]_vars => 
        [Channel!Next]_<<[k \in 1..(Len(sent) - incomingSequence) |->
                             Numbered(incomingSequence + k)], delivered>>
  BY <1>2 DEF InFlight
<1>4. QED
  BY <1>1, <1>3, NetchanInvariant, PTL DEF Spec, ChannelSpec, Channel!Spec

-----------------------------------------------------------------------------
\* The order of the queue. What has been sent, and after it what is queued, has
\* ever greater numbers, and none greater than the last message accepted; only a
\* server queues.
InOrder ==
    /\ \A j, k \in 1..Len(sent) : j < k => sent[j].id < sent[k].id
    /\ \A j, k \in 1..Len(queue) : j < k => queue[j].id < queue[k].id
    /\ \A j \in 1..Len(sent), k \in 1..Len(queue) : sent[j].id < queue[k].id
    /\ \A j \in 1..Len(sent) : sent[j].id <= accepted
    /\ \A j \in 1..Len(queue) : queue[j].id <= accepted
    /\ sender = "client" => queue = <<>>

LEMMA QueueTypes ==
    ASSUME TypeOK
    PROVE  /\ sent \in Seq(Messages) /\ queue \in Seq(Messages)
           /\ Len(sent) \in Nat /\ Len(queue) \in Nat /\ accepted \in Nat
           /\ \A j \in 1..Len(sent) : sent[j] \in Messages /\ sent[j].id \in Nat
           /\ \A j \in 1..Len(queue) : queue[j] \in Messages /\ queue[j].id \in Nat
<1>1. sent \in Seq(Messages) /\ queue \in Seq(Messages) /\ accepted \in Nat
  BY NetchanAssumption DEF TypeOK
<1>2. \A m \in Messages : m.id \in Nat
  BY NetchanAssumption DEF Messages
<1>3. QED
  BY <1>1, <1>2, ElementOfSeq, LenProperties

\* A message goes past an empty queue.
LEMMA OrderSent ==
    ASSUME TypeOK, InOrder, NEW m \in Messages, m.id = accepted + 1,
           accepted' = accepted + 1, sent' = Append(sent, m),
           queue = <<>>, queue' = queue, sender' = sender
    PROVE  InOrder'
<1> DEFINE l == Len(sent)
<1>1. l \in Nat /\ accepted \in Nat /\ Len(queue) = 0 /\ Len(queue') = 0
  BY QueueTypes
<1>2. Len(sent') = l + 1 /\ sent'[l + 1] = m /\ \A j \in 1..l : sent'[j] = sent[j]
  BY QueueTypes, AppendProperties
<1> HIDE DEF l
<1>3. \A j \in 1..Len(sent') :
          (j \in 1..l /\ sent'[j] = sent[j]) \/ (j = l + 1 /\ sent'[j] = m)
  BY <1>1, <1>2
<1>4. /\ \A j, k \in 1..l : j < k => sent[j].id < sent[k].id
      /\ \A j \in 1..l : sent[j].id \in Nat /\ sent[j].id <= accepted
  BY QueueTypes DEF InOrder, l
<1>5. \A j \in 1..Len(sent') : sent'[j].id <= accepted'
  BY <1>1, <1>3, <1>4
<1>6. ASSUME NEW j \in 1..Len(sent'), NEW k \in 1..Len(sent'), j < k
      PROVE  sent'[j].id < sent'[k].id
  <2>1. j \in 1..l /\ sent'[j] = sent[j]
    BY <1>1, <1>2, <1>3, <1>6
  <2>2. CASE k \in 1..l /\ sent'[k] = sent[k]
    BY <1>4, <1>6, <2>1, <2>2
  <2>3. CASE k = l + 1 /\ sent'[k] = m
    BY <1>1, <1>4, <2>1, <2>3
  <2>4. QED
    BY <1>3, <2>2, <2>3
<1>7. QED
  BY <1>1, <1>5, <1>6 DEF InOrder

\* A message joins the queue.
LEMMA OrderQueued ==
    ASSUME TypeOK, InOrder, NEW m \in Messages, m.id = accepted + 1,
           accepted' = accepted + 1, queue' = Append(queue, m),
           sent' = sent, sender' = sender, sender # "client"
    PROVE  InOrder'
<1> DEFINE l == Len(queue)
<1>1. l \in Nat /\ accepted \in Nat
  BY QueueTypes
<1>2. Len(queue') = l + 1 /\ queue'[l + 1] = m /\ \A j \in 1..l : queue'[j] = queue[j]
  BY QueueTypes, AppendProperties
<1> HIDE DEF l
<1>3. \A j \in 1..Len(queue') :
          (j \in 1..l /\ queue'[j] = queue[j]) \/ (j = l + 1 /\ queue'[j] = m)
  BY <1>1, <1>2
<1>4. /\ \A j, k \in 1..l : j < k => queue[j].id < queue[k].id
      /\ \A j \in 1..l : queue[j].id \in Nat /\ queue[j].id <= accepted
      /\ \A j \in 1..Len(sent) : sent[j].id \in Nat /\ sent[j].id <= accepted
      /\ \A j \in 1..Len(sent), k \in 1..l : sent[j].id < queue[k].id
  BY QueueTypes DEF InOrder, l
<1>5. /\ \A j \in 1..Len(queue') : queue'[j].id <= accepted'
      /\ \A j \in 1..Len(sent) : sent[j].id <= accepted'
  BY <1>1, <1>3, <1>4
<1>6. ASSUME NEW j \in 1..Len(queue'), NEW k \in 1..Len(queue'), j < k
      PROVE  queue'[j].id < queue'[k].id
  <2>1. j \in 1..l /\ queue'[j] = queue[j]
    BY <1>1, <1>2, <1>3, <1>6
  <2>2. CASE k \in 1..l /\ queue'[k] = queue[k]
    BY <1>4, <1>6, <2>1, <2>2
  <2>3. CASE k = l + 1 /\ queue'[k] = m
    BY <1>1, <1>4, <2>1, <2>3
  <2>4. QED
    BY <1>3, <2>2, <2>3
<1>7. \A j \in 1..Len(sent), k \in 1..Len(queue') : sent[j].id < queue'[k].id
  <2>1. \A j \in 1..Len(sent) : sent[j].id < m.id
    BY <1>1, <1>4
  <2>2. QED
    BY <1>3, <1>4, <2>1
<1>8. \A j, k \in 1..Len(sent) : j < k => sent[j].id < sent[k].id
  BY DEF InOrder
<1>9. QED
  BY <1>5, <1>6, <1>7, <1>8 DEF InOrder

\* The head of the queue is sent.
LEMMA OrderPassed ==
    ASSUME TypeOK, InOrder, queue # <<>>, accepted' = accepted,
           sent' = Append(sent, Head(queue)), queue' = Tail(queue), sender' = sender
    PROVE  InOrder'
<1> DEFINE l == Len(sent)
           q == Len(queue)
           m == Head(queue)
<1>1. l \in Nat /\ q \in Nat /\ accepted \in Nat /\ sender # "client"
  BY QueueTypes DEF InOrder
<1>2. /\ m \in Messages /\ q >= 1 /\ m = queue[1] /\ Len(queue') = q - 1
      /\ \A j \in 1..(q - 1) : queue'[j] = queue[j + 1]
  BY QueueTypes, HeadTailProperties
<1>3. Len(sent') = l + 1 /\ sent'[l + 1] = m /\ \A j \in 1..l : sent'[j] = sent[j]
  BY <1>2, QueueTypes, AppendProperties
<1>4. /\ \A j, k \in 1..l : j < k => sent[j].id < sent[k].id
      /\ \A j, k \in 1..q : j < k => queue[j].id < queue[k].id
      /\ \A j \in 1..l, k \in 1..q : sent[j].id < queue[k].id
      /\ \A j \in 1..l : sent[j].id <= accepted
      /\ \A j \in 1..q : queue[j].id <= accepted
  BY DEF InOrder
<1> HIDE DEF l, q, m
<1>5. \A j \in 1..Len(sent') :
          (j \in 1..l /\ sent'[j] = sent[j]) \/ (j = l + 1 /\ sent'[j] = queue[1])
  BY <1>1, <1>2, <1>3
<1>6. \A j \in 1..Len(queue') :
          j + 1 \in 1..q /\ 1 \in 1..q /\ 1 < j + 1 /\ queue'[j] = queue[j + 1]
  BY <1>1, <1>2
<1>7. /\ \A j \in 1..Len(sent') : sent'[j].id <= accepted
      /\ \A j \in 1..Len(queue') : queue'[j].id <= accepted
  BY <1>1, <1>2, <1>4, <1>5, <1>6
<1>8. ASSUME NEW j \in 1..Len(sent'), NEW k \in 1..Len(sent'), j < k
      PROVE  sent'[j].id < sent'[k].id
  <2>1. j \in 1..l /\ sent'[j] = sent[j] /\ 1 \in 1..q
    BY <1>1, <1>2, <1>3, <1>5, <1>8
  <2>2. QED
    BY <1>4, <1>5, <1>8, <2>1
<1>9. ASSUME NEW j \in 1..Len(queue'), NEW k \in 1..Len(queue'), j < k
      PROVE  queue'[j].id < queue'[k].id
  <2>1. j + 1 < k + 1
    BY <1>1, <1>2, <1>9
  <2>2. QED
    BY <1>4, <1>6, <2>1
<1>10. \A j \in 1..Len(sent'), k \in 1..Len(queue') : sent'[j].id < queue'[k].id
  BY <1>4, <1>5, <1>6
<1>11. QED
  BY <1>1, <1>7, <1>8, <1>9, <1>10 DEF InOrder

LEMMA OrderUntouched ==
    ASSUME InOrder, UNCHANGED <<sent, accepted, sender>>, queue' = queue \/ queue' = <<>>
    PROVE  InOrder'
<1>1. CASE queue' = queue
  BY <1>1 DEF InOrder
<1>2. CASE queue' = <<>>
  <2>1. Len(queue') = 0
    BY <1>2
  <2>2. QED
    BY <1>2, <2>1 DEF InOrder
<1>3. QED
  BY <1>1, <1>2

LEMMA OrderStep ==
    ASSUME IInv, InOrder, [Next]_vars
    PROVE  InOrder'
<1>0. TypeOK
  BY DEF IInv
<1>1. ASSUME NEW m \in Messages, SV_Netchan_Transmit(m)
      PROVE  InOrder'
  <2>1. /\ m.id = accepted + 1 /\ accepted' = accepted + 1 /\ sender' = sender
        /\ sender # "client"
    BY <1>1 DEF SV_Netchan_Transmit, Accept
  <2>2. CASE MustQueue
    BY <1>0, <1>1, <2>1, <2>2, OrderQueued DEF SV_Netchan_Transmit, senderVars
  <2>3. CASE ~MustQueue
    BY <1>0, <1>1, <2>1, <2>3, OrderSent DEF SV_Netchan_Transmit, MustQueue, Netchan_Transmit
  <2>4. QED
    BY <2>2, <2>3
<1>2. CASE SV_Netchan_TransmitNextFragment
  <2>1. accepted' = accepted /\ sender' = sender
    BY <1>2 DEF SV_Netchan_TransmitNextFragment
  <2>2. CASE UNCHANGED <<queue, sent>>
    BY <2>1, <2>2, OrderUntouched
  <2>3. CASE queue # <<>> /\ SV_Netchan_TransmitNextInQueue
    BY <1>0, <2>1, <2>3, OrderPassed DEF SV_Netchan_TransmitNextInQueue, Netchan_Transmit
  <2>4. QED
    BY <1>2, <2>2, <2>3 DEF SV_Netchan_TransmitNextFragment
<1>3. CASE SV_Netchan_FreeQueue
  BY <1>3, OrderUntouched DEF SV_Netchan_FreeQueue, senderVars
<1>4. ASSUME NEW m \in Messages, CL_Netchan_Transmit(m) \/ CL_Netchan_Enqueue(m)
      PROVE  InOrder'
  <2>1. /\ m.id = accepted + 1 /\ accepted' = accepted + 1 /\ sender' = sender
        /\ sender = "client" /\ queue' = queue /\ sent' = Append(sent, m)
    BY <1>4 DEF CL_Netchan_Transmit, CL_Netchan_Enqueue, Accept
  <2>2. queue = <<>>
    BY <2>1 DEF InOrder
  <2>3. QED
    BY <1>0, <2>1, <2>2, OrderSent
<1>5. CASE \E p \in network : Netchan_Process(p)
  BY <1>5, OrderUntouched DEF Netchan_Process, senderVars
<1>6. CASE UNCHANGED vars
  BY <1>6, OrderUntouched DEF vars, senderVars
<1>7. QED
  BY <1>1, <1>2, <1>3, <1>4, <1>5, <1>6 DEF Next

\* Sent and queued messages, laid end to end.
LEMMA OrderOfBoth ==
    ASSUME TypeOK, InOrder
    PROVE  SentInOrderAccepted
<1> DEFINE l == Len(sent)
           q == Len(queue)
           all == sent \o queue
           ids == [k \in 1..(l + q) |-> all[k].id]
<1>1. l \in Nat /\ q \in Nat /\ sent \in Seq(Messages) /\ queue \in Seq(Messages)
  BY QueueTypes
<1>2. \A k \in 1..(l + q) : all[k] = IF k <= l THEN sent[k] ELSE queue[k - l]
  BY <1>1, ConcatProperties
<1> HIDE DEF all
<1>3. DOMAIN ids = 1..(l + q) /\ \A k \in 1..(l + q) : ids[k] = all[k].id
  OBVIOUS
<1>4. SentInOrderAccepted <=> \A j, k \in DOMAIN ids : j < k => ids[j] < ids[k]
  BY DEF SentInOrderAccepted, all
<1>5. /\ \A j, k \in 1..l : j < k => sent[j].id < sent[k].id
      /\ \A j, k \in 1..q : j < k => queue[j].id < queue[k].id
      /\ \A j \in 1..l, k \in 1..q : sent[j].id < queue[k].id
  BY DEF InOrder
<1> HIDE DEF ids, l, q
<1>6. ASSUME NEW j \in 1..(l + q), NEW k \in 1..(l + q), j < k
      PROVE  ids[j] < ids[k]
  <2>1. CASE k <= l
    <3>1. j \in 1..l /\ k \in 1..l /\ j <= l
      BY <1>1, <1>6, <2>1
    <3>2. all[j] = sent[j] /\ all[k] = sent[k]
      BY <1>2, <1>6, <2>1, <3>1, Zenon
    <3>3. QED
      BY <1>3, <1>5, <1>6, <3>1, <3>2
  <2>2. CASE j <= l /\ ~(k <= l)
    <3>1. j \in 1..l /\ k - l \in 1..q
      BY <1>1, <1>6, <2>2
    <3>2. all[j] = sent[j] /\ all[k] = queue[k - l]
      BY <1>2, <1>6, <2>2, Zenon
    <3>3. QED
      BY <1>3, <1>5, <1>6, <3>1, <3>2
  <2>3. CASE ~(j <= l)
    <3>1. j - l \in 1..q /\ k - l \in 1..q /\ ~(k <= l) /\ j - l < k - l
      BY <1>1, <1>6, <2>3
    <3>2. all[j] = queue[j - l] /\ all[k] = queue[k - l]
      BY <1>2, <1>6, <2>3, <3>1, Zenon
    <3>3. QED
      BY <1>3, <1>5, <1>6, <3>1, <3>2
  <2>4. QED
    BY <2>1, <2>2, <2>3
<1>7. QED
  BY <1>3, <1>4, <1>6

\* Messages leave in the order they were asked for, those that had to wait for
\* the fragments of another included (SV_Netchan_Transmit,
\* SV_Netchan_TransmitNextInQueue).
THEOREM LeaveInOrder == Spec => []SentInOrderAccepted
<1>1. Init => InOrder
  <2>1. SUFFICES ASSUME Init PROVE InOrder
    OBVIOUS
  <2>2. queue = <<>> /\ Len(queue) = 0 /\ Len(sent) = 0
    BY <2>1 DEF Init
  <2>3. QED
    BY <2>2 DEF InOrder
<1>2. IInv /\ InOrder /\ [Next]_vars => InOrder'
  BY OrderStep
<1>3. IInv /\ InOrder => SentInOrderAccepted
  BY OrderOfBoth DEF IInv
<1>4. QED
  BY <1>1, <1>2, <1>3, NetchanInvariant, PTL DEF Spec
=============================================================================
