--------------------------- MODULE MessageChannel ---------------------------
(***************************************************************************)
(* What a netchan promises to the code above it (SV_ExecuteClientMessage,  *)
(* CL_ParseServerMessage): each message handed over arrives whole, at most *)
(* once and never behind a later one; any message may be lost.             *)
(*                                                                         *)
(* inFlight holds the messages that are on the way and not yet overtaken.  *)
(* Receiving the i-th of them gives up the i - 1 before it: a message that *)
(* has been overtaken is lost, whether its datagrams arrive or not.        *)
(***************************************************************************)
EXTENDS Naturals, Sequences

CONSTANT Message

VARIABLES inFlight,    \* messages sent, neither received nor overtaken
          delivered    \* messages received, in the order they were

TypeOK == inFlight \in Seq(Message) /\ delivered \in Seq(Message)

Init == inFlight = <<>> /\ delivered = <<>>

Send(m) == inFlight' = Append(inFlight, m)

Overtake(i) == inFlight' = SubSeq(inFlight, i + 1, Len(inFlight))

Receive(i) ==
    /\ Overtake(i)
    /\ delivered' = Append(delivered, inFlight[i])

Next ==
    \/ \E m \in Message : Send(m) /\ UNCHANGED delivered
    \/ \E i \in 1..Len(inFlight) : Receive(i)

Spec == Init /\ [][Next]_<<inFlight, delivered>>
=============================================================================
