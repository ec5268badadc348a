------------------------------ MODULE Download ------------------------------
(***************************************************************************)
(* Download of the files a client misses, over its netchan: the server     *)
(* (SV_WriteDownloadToClient) keeps a window of blocks in a ring, sends    *)
(* them in turn and, a second after the last one, again from the first     *)
(* unacknowledged; the client (CL_ParseDownload) takes the block it waits  *)
(* for, answers "nextdl" and ignores the others.  A block says its number  *)
(* modulo BlockModulus, and not its file.                                  *)
(*                                                                         *)
(* Blocks travel through module MessageChannel.  The client's commands are *)
(* reliable: a packet brings the server all commands up to some number     *)
(* (ReliableCommands.tla).  The block after the last of a file, an empty   *)
(* one, ends it.                                                           *)
(***************************************************************************)
EXTENDS Integers, Sequences

CONSTANTS DownloadWindow,   \* SV_DownloadWindow
          BlockModulus,     \* 2^16: blocks are numbered by a short
          FileCount,        \* the files the client misses are 1..FileCount
          Blocks,           \* blocks of each file
          MaxInFlight,      \* bound: messages on the way each way
          MaxCommands       \* bound: client commands

ASSUME DownloadAssumption ==
    /\ DownloadWindow \in Nat \ {0}
    /\ BlockModulus \in Nat /\ BlockModulus > DownloadWindow
    /\ FileCount \in Nat \ {0}
    /\ Blocks \in [1..FileCount -> Nat \ {0}]
    /\ MaxInFlight \in Nat \ {0} /\ MaxCommands \in Nat \ {0}

VARIABLES sv,         \* the download fields of the server's client_t
          cl,         \* those of the client's clc
          toClient, toServer    \* messages in flight

vars == <<sv, cl, toClient, toServer>>

-----------------------------------------------------------------------------
Slots == 0..(DownloadWindow - 1)

Slot(block) == block % DownloadWindow

\* The content of a block; those of file 0 have never been read.
Data(file, index) == [file |-> file, index |-> index]

Empty(data) == data.file = 0 \/ data.index = Blocks[data.file]

File(file) == [k \in 1..Blocks[file] |-> Data(file, k - 1)]

Command(name, arg) == [name |-> name, arg |-> arg]

\* A message with one block: sized when it holds the file size, refused when
\* that is -1.
BlockMessage(block, sized, refused, data) ==
    [block |-> block % BlockModulus, sized |-> sized, refused |-> refused,
     data |-> data]

\* A sender never waits: what exceeds the bound is lost, oldest first.
Post(channel, message) ==
    IF Len(channel) < MaxInFlight
    THEN Append(channel, message)
    ELSE Append(Tail(channel), message)

ToClient == INSTANCE MessageChannel WITH
    Message <- {}, inFlight <- toClient, delivered <- <<>>
ToServer == INSTANCE MessageChannel WITH
    Message <- {}, inFlight <- toServer, delivered <- <<>>

-----------------------------------------------------------------------------
\* The server.

\* SV_CloseDownload: the numbers of the download stay behind.
SV_CloseDownload(s) == [s EXCEPT !.name = 0, !.open = FALSE]

\* SV_BeginDownload_f: the file is opened with its first block.
SV_BeginDownload(s, file) == [SV_CloseDownload(s) EXCEPT !.name = file]

\* SV_NextDownload_f.
SV_NextDownload(s, block) ==
    CASE block # s.clientBlock -> [SV_CloseDownload(s) EXCEPT !.state = "dropped"]
      [] block = s.clientBlock /\ Empty(s.ring[Slot(block)]) -> SV_CloseDownload(s)
      [] OTHER -> [s EXCEPT !.clientBlock = @ + 1]

SV_ExecuteClientCommand(s, command) ==
    CASE s.state = "dropped" -> s
      [] s.state = "connected" /\ command.name = "download" ->
            SV_BeginDownload(s, command.arg)
      [] s.state = "connected" /\ command.name = "nextdl" ->
            SV_NextDownload(s, command.arg)
      [] s.state = "connected" /\ command.name = "stopdl" -> SV_CloseDownload(s)

\* The client's commands up to number last, of which some were executed before.
AfterCommands(last) ==
    LET executed[k \in 0..last] ==
            IF k <= sv.lastClientCommand
            THEN sv
            ELSE [SV_ExecuteClientCommand(executed[k - 1], cl.commands[k])
                    EXCEPT !.lastClientCommand = k]
    IN  executed[last]

SV_PacketEvent(i) ==
    /\ ToServer!Overtake(i)
    /\ sv' = AfterCommands(toServer[i])
    /\ UNCHANGED <<cl, toClient>>

\* Defective variant: takes the end of the last file for this file's.
OpenedAtEnd(s) ==
    IF s.open
    THEN s
    ELSE [s EXCEPT !.open = TRUE, !.current = 0, !.clientBlock = 0, !.xmit = 0]

Opened(s) ==
    IF s.open
    THEN s
    ELSE [s EXCEPT !.open = TRUE, !.current = 0, !.clientBlock = 0, !.xmit = 0,
                   !.eof = FALSE]

\* Defective variant: reads one block more than the ring holds.
WindowEndLate(s) == s.clientBlock + DownloadWindow + 1

WindowEnd(s) == s.clientBlock + DownloadWindow

\* "Perform any reads that we need to."
ReadAhead(s) ==
    LET end == IF WindowEnd(s) < Blocks[s.name] THEN WindowEnd(s) ELSE Blocks[s.name]
    IN  [s EXCEPT
            !.current = IF end > @ THEN end ELSE @,
            !.ring = [slot \in Slots |->
                LET read == {k \in s.current..(end - 1) : Slot(k) = slot}
                IN  IF read = {} THEN @[slot]
                    ELSE Data(s.name, CHOOSE k \in read : \A j \in read : j <= k)]]

\* Defective variant: forgets that the block has been added.
EndOfFileAgain(s) == s.current >= Blocks[s.name] /\ s.current < WindowEnd(s)

EndOfFile(s) == s.current >= Blocks[s.name] /\ ~s.eof /\ s.current < WindowEnd(s)

\* "Check to see if we have eof condition and add the EOF block."
AddEndOfFile(s) ==
    IF EndOfFile(s)
    THEN [s EXCEPT !.ring[Slot(s.current)] = Data(s.name, Blocks[s.name]),
                   !.current = @ + 1, !.eof = TRUE]
    ELSE s

Window(s) == AddEndOfFile(ReadAhead(Opened(s)))

Sending == sv.state = "connected" /\ sv.name # 0

\* "Client is expecting block zero."
SV_RefuseDownload ==
    /\ Sending /\ ~sv.open
    /\ sv.name \notin sv.available
    /\ toClient' = Post(toClient, BlockMessage(0, TRUE, TRUE, Data(sv.name, 0)))
    /\ sv' = SV_CloseDownload(sv)
    /\ UNCHANGED <<cl, toServer>>

\* Sends block number block of window s, from whatever its slot holds.
SendBlock(s, block) ==
    /\ toClient' = Post(toClient,
           BlockMessage(block, block = 0, FALSE, s.ring[Slot(block)]))
    /\ sv' = [s EXCEPT !.xmit = block + 1]

\* "We have transmitted the complete window, should we start resending?"
SV_WriteDownloadToClient(timedOut) ==
    /\ Sending
    /\ sv.open \/ sv.name \in sv.available
    /\ LET s == Window(sv)
       IN  \/ /\ s.clientBlock # s.current
              /\ s.xmit # s.current
              /\ ~timedOut
              /\ SendBlock(s, s.xmit)
           \/ /\ s.clientBlock # s.current
              /\ s.xmit = s.current
              /\ timedOut
              /\ SendBlock(s, s.clientBlock)
           \/ /\ s.clientBlock = s.current \/ s.xmit = s.current
              /\ ~timedOut
              /\ sv' = s
              /\ UNCHANGED toClient
    /\ UNCHANGED <<cl, toServer>>

-----------------------------------------------------------------------------
\* The client.

Say(c, name, arg) == [c EXCEPT !.commands = Append(@, Command(name, arg))]

\* CL_BeginDownload.
CL_BeginDownload(c, file) ==
    Say([c EXCEPT !.file = file, !.block = 0, !.stored = <<>>], "download", file)

\* FS_CompareZipChecksum.
CompareZipChecksum(c) == c.stored = File(c.file)

\* CL_NextDownload: "a download completed or failed".
CL_NextDownload(c) ==
    CASE ~CompareZipChecksum(c) -> [c EXCEPT !.state = "failed"]
      [] CompareZipChecksum(c) /\ c.file < FileCount -> CL_BeginDownload(c, c.file + 1)
      [] OTHER -> [c EXCEPT !.state = "complete"]

\* Block zero "contains file size", and the client reads one when it waits for
\* block zero.
Misread(m) == m.block = 0 /\ m.sized # (cl.block = 0)

\* Defective variant: takes a block for one that was lost before it.
ExpectedOrLater(m) == m.block >= cl.block % BlockModulus

Expected(m) == m.block = cl.block % BlockModulus

\* Defective variant: acknowledges the block it waits for now.
AcceptedThenNext(m) ==
    Say([cl EXCEPT !.block = @ + 1,
                   !.stored = IF Empty(m.data) THEN @ ELSE Append(@, m.data)],
        "nextdl", cl.block + 1)

\* The block is stored and acknowledged.
Accepted(m) ==
    Say([cl EXCEPT !.block = @ + 1,
                   !.stored = IF Empty(m.data) THEN @ ELSE Append(@, m.data)],
        "nextdl", cl.block)

\* "Server sending download, but no download was requested."
NotRequested(m) ==
    /\ cl.state = "complete"
    /\ cl' = Say(cl, "stopdl", 0)
    /\ UNCHANGED toServer

\* Size and data are taken from the wrong place: "Invalid size", "Illegible
\* server message" or, by luck, a block that is not expected. Left out is that a late
\* block 65536 of the file before, misread so, may even be taken for block zero.
MisreadBlock(m) ==
    /\ cl.state = "downloading"
    /\ Misread(m)
    /\ cl' \in {cl, [cl EXCEPT !.state = "illegible"]}
    /\ UNCHANGED toServer

Refused(m) ==
    /\ cl.state = "downloading"
    /\ ~Misread(m) /\ m.refused
    /\ cl' = [cl EXCEPT !.state = "failed"]
    /\ UNCHANGED toServer

IgnoreBlock(m) ==
    /\ cl.state = "downloading"
    /\ ~Misread(m) /\ ~m.refused
    /\ ~Expected(m)
    /\ UNCHANGED <<cl, toServer>>

\* After the last block, "send intentions now", then "get another file if
\* needed".
AcceptBlock(m) ==
    /\ cl.state = "downloading"
    /\ ~Misread(m) /\ ~m.refused
    /\ Expected(m)
    /\ IF Empty(m.data)
       THEN /\ cl' = CL_NextDownload(Accepted(m))
            /\ toServer' = Post(toServer, Len(Accepted(m).commands))
       ELSE /\ cl' = Accepted(m)
            /\ UNCHANGED toServer

\* CL_PacketEvent with CL_ParseDownload.
CL_PacketEvent(i) ==
    /\ ToClient!Overtake(i)
    /\ \/ NotRequested(toClient[i])
       \/ MisreadBlock(toClient[i])
       \/ Refused(toClient[i])
       \/ IgnoreBlock(toClient[i])
       \/ AcceptBlock(toClient[i])
    /\ Len(cl'.commands) <= MaxCommands
    /\ UNCHANGED sv

CL_WritePacket ==
    /\ cl.state \in {"downloading", "complete"}
    /\ toServer' = Post(toServer, Len(cl.commands))
    /\ UNCHANGED <<sv, cl, toClient>>

-----------------------------------------------------------------------------
\* The client has parsed a gamestate and found that files are missing; the
\* server does not refuse those that are available.
Init ==
    /\ sv \in [state : {"connected"}, available : SUBSET (1..FileCount),
               name : {0}, open : {FALSE}, current : {0}, clientBlock : {0},
               xmit : {0}, eof : {FALSE},
               ring : {[slot \in Slots |-> Data(0, 0)]},
               lastClientCommand : {0}]
    /\ cl = CL_BeginDownload(
                [state |-> "downloading", file |-> 0, block |-> 0,
                 stored |-> <<>>, commands |-> <<>>], 1)
    /\ toClient = <<>> /\ toServer = <<>>

Next ==
    \/ \E i \in 1..Len(toServer) : SV_PacketEvent(i)
    \/ SV_RefuseDownload
    \/ \E timedOut \in BOOLEAN : SV_WriteDownloadToClient(timedOut)
    \/ \E i \in 1..Len(toClient) : CL_PacketEvent(i)
    \/ CL_WritePacket

\* Both main loops run on, and a block or packet that is sent again and again
\* is received again and again.
Fairness ==
    /\ WF_vars(SV_RefuseDownload)
    /\ \A timedOut \in BOOLEAN : WF_vars(SV_WriteDownloadToClient(timedOut))
    /\ WF_vars(CL_WritePacket)
    /\ SF_vars(\E i \in 1..Len(toServer) : SV_PacketEvent(i))
    /\ \A block \in 0..(BlockModulus - 1) :
          SF_vars(\E i \in 1..Len(toClient) :
                      toClient[i].block = block /\ CL_PacketEvent(i))

Spec == Init /\ [][Next]_vars /\ Fairness

-----------------------------------------------------------------------------
Contents == [file : 0..FileCount, index : Nat]

Commands == [name : {"download", "nextdl", "stopdl"}, arg : Nat]

\* Type invariant.
TypeOK ==
    /\ sv \in [state : {"connected", "dropped"},
               available : SUBSET (1..FileCount), name : 0..FileCount,
               open : BOOLEAN, current : Nat, clientBlock : Nat, xmit : Nat,
               eof : BOOLEAN, ring : [Slots -> Contents],
               lastClientCommand : 0..MaxCommands]
    /\ cl \in [state : {"downloading", "complete", "failed", "illegible"},
               file : 1..FileCount, block : Nat, stored : Seq(Contents),
               commands : Seq(Commands)]
    /\ sv.open =>
        /\ sv.name \in sv.available
        /\ sv.clientBlock <= sv.current /\ sv.xmit <= sv.current
        /\ sv.current <= Blocks[sv.name] + (IF sv.eof THEN 1 ELSE 0)

\* Safety.  The ring holds every block not acknowledged yet, whatever the
\* client acknowledged late: no slot is reused before its block has arrived.
RingHoldsWindow ==
    sv.open => \A k \in sv.clientBlock..(sv.current - 1) :
        sv.ring[Slot(k)] = Data(sv.name, k)

\* A block of an earlier file, sent once more and late, was taken for one of
\* this file.
Mistaken == \E k \in DOMAIN cl.stored : cl.stored[k].file # cl.file

\* Safety.  The client stores a prefix of the file, in order and without gaps:
\* a block sent again after its slot was reused is never taken.  A client that
\* has all its files has the last one complete, even if blocks of another were
\* mistaken for its own.
StoredPrefix ==
    /\ ~Mistaken => cl.stored = SubSeq(File(cl.file), 1, Len(cl.stored))
    /\ cl.state = "complete" => cl.stored = File(cl.file)

\* Safety.  The server does not get ahead of the client's acknowledgements, nor
\* drop a client for them.
InStep ==
    ~Mistaken =>
        /\ sv.state = "connected"
        /\ sv.open /\ sv.name = cl.file => sv.clientBlock <= cl.block

\* Liveness.  Downloading comes to an end, whatever is lost.
DownloadEnds == <>(cl.state # "downloading" \/ sv.state = "dropped")
=============================================================================
