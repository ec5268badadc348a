--------------------------- MODULE DownloadProofs ---------------------------
(***************************************************************************)
(* Proofs about module Download: for any files, size of the window, modulus *)
(* of the block numbers beyond that and number of messages on the way.      *)
(***************************************************************************)
EXTENDS Download, SequenceTheorems, FiniteSetTheorems, WellFoundedInduction, TLAPS

-----------------------------------------------------------------------------
\* The inductive invariant, about a state s of the server and c of the client.

Servers ==
    [state : {"connected", "dropped"}, available : SUBSET (1..FileCount),
     name : 0..FileCount, open : BOOLEAN, current : Nat, clientBlock : Nat,
     xmit : Nat, eof : BOOLEAN, ring : [Slots -> Contents],
     lastClientCommand : Nat]

Clients ==
    [state : {"downloading", "complete", "failed", "illegible"},
     file : 1..FileCount, block : Nat, stored : Seq(Contents),
     commands : Seq(Commands)]

BlockMessages == [block : Nat, sized : BOOLEAN, refused : BOOLEAN, data : Contents]

\* The number of the command that asks for a file: each file before has been
\* asked for, and each of its blocks and its end acknowledged.
Start[f \in 1..FileCount] == IF f = 1 THEN 1 ELSE Start[f - 1] + Blocks[f - 1] + 2

\* The client has taken a block of another file.
Confused(c) == \E k \in DOMAIN c.stored : c.stored[k].file # c.file

\* How many blocks of a file the client has taken; the end counts.
Taken(c, f) == IF f = c.file THEN c.block ELSE Blocks[f] + 1

\* The file the client is at, and the one before.
Recent(c) == {f \in 1..c.file : c.file <= f + 1}

\* The client's commands are a log of what it has taken.
CommandsRight(c) ==
    /\ \A f \in Recent(c) :
        /\ c.commands[Start[f]] = Command("download", f)
        /\ \A b \in 0..(Taken(c, f) - 1) :
              c.commands[Start[f] + 1 + b] = Command("nextdl", b)
    /\ c.state # "complete" => Len(c.commands) = Start[c.file] + c.block
    /\ c.state = "complete" =>
        /\ c.file = FileCount /\ c.block = Blocks[c.file] + 1
        /\ Len(c.commands) >= Start[c.file] + c.block
        /\ \A k \in (Start[c.file] + c.block + 1)..Len(c.commands) :
              c.commands[k] = Command("stopdl", 0)

\* What it has stored.
StoredRight(c) ==
    /\ ~Confused(c) =>
        /\ c.block <= Blocks[c.file] + 1
        /\ c.stored = [k \in 1..(IF c.block <= Blocks[c.file] THEN c.block ELSE Blocks[c.file])
                        |-> Data(c.file, k - 1)]
        /\ c.state = "downloading" => c.block <= Blocks[c.file]
    /\ c.state = "complete" => ~Confused(c)

\* The server's window.
WindowRight(s) ==
    /\ s.name = 0 => ~s.open
    /\ s.state = "dropped" => s.name = 0
    /\ s.open =>
        /\ s.name \in s.available
        /\ s.clientBlock <= s.current /\ s.current <= s.clientBlock + DownloadWindow
        /\ 1 <= s.xmit /\ s.xmit <= s.current
        /\ s.eof => s.current = Blocks[s.name] + 1 /\ s.clientBlock <= Blocks[s.name]
        /\ ~s.eof => DownloadWindow <= s.current /\ s.current <= Blocks[s.name]
        /\ \A k \in s.clientBlock..(s.current - 1) : s.ring[Slot(k)] = Data(s.name, k)
        /\ \A k \in 0..(s.current - 1) : s.ring[Slot(k)].file = s.name

\* The server after the request for file f and b acknowledgements, if nothing
\* was mistaken.
InStepAt(s, c, f, b) ==
    /\ s.state = "connected"
    /\ b <= Blocks[f] + 1
    /\ b = Blocks[f] + 1 => s.name = 0
    /\ b \in 1..Blocks[f] => s.open /\ s.clientBlock = b
    /\ b = 0 =>
        /\ s.open => s.clientBlock = 0
        /\ ~s.open => f = c.file /\ c.block = 0

AtBlock(s, c, f, b) ==
    /\ s.name \in {0, f}
    /\ (f = c.file /\ Confused(c)) \/ InStepAt(s, c, f, b)

\* Where the server is in the client's commands.
PositionRight(s, c) ==
    LET n == s.lastClientCommand
    IN  /\ n <= Len(c.commands)
        /\ c.file > 1 => Start[c.file - 1] <= n
        /\ n = 0 => s.name = 0 /\ s.state = "connected"
        /\ \A f \in Recent(c) : \A b \in 0..Taken(c, f) :
              n = Start[f] + b => AtBlock(s, c, f, b)
        /\ n > Start[c.file] + c.block => s.state = "connected" /\ s.name = 0

\* Nothing of its file has been sent to the client: what it took was mistaken.
NotSent(s, c) ==
    \/ s.lastClientCommand < Start[c.file]
    \/ s.lastClientCommand = Start[c.file] /\ ~s.open
    \/ s.name = c.file /\ ~s.open

FewMistaken(c) == c.block = 0 \/ (Confused(c) /\ c.block <= DownloadWindow)

\* What the server sends next against what the client has taken.
SentRight(s, c) ==
    /\ s.open =>
        /\ Taken(c, s.name) <= s.xmit + DownloadWindow
        /\ \/ Taken(c, s.name) <= s.current
           \/ s.name = c.file /\ Confused(c) /\ c.block <= DownloadWindow
    /\ NotSent(s, c) => FewMistaken(c)

\* As long as blocks of the file before can be mistaken, the file was no longer
\* than the window.
OfFileBefore(c, f) ==
    \/ c.block = 0
    \/ Confused(c) /\ Blocks[f] < DownloadWindow /\ c.block <= Blocks[f]

\* A block of file f on its way was sent under number x.
NumberRight(c, m, f, x) ==
    /\ x <= Blocks[f]
    /\ m.block = x % BlockModulus
    /\ m.sized = (x = 0)
    /\ x = 0 => m.data.index = 0
    /\ m.data = Data(f, x) \/ x < Blocks[f]
    /\ Taken(c, f) <= x + DownloadWindow

MessageRight(s, c, m, x) ==
    LET f == m.data.file
    IN  /\ f \in Recent(c)
        /\ Start[f] <= s.lastClientCommand
        /\ NumberRight(c, m, f, x)
        /\ s.open /\ s.name = f => x < s.current /\ x + 1 <= s.xmit + DownloadWindow
        /\ s.name = f => s.open
        /\ s.lastClientCommand = Start[f] => s.open
        /\ f = c.file /\ ~Confused(c) =>
            /\ s.name = f
            /\ x < c.block + DownloadWindow
            /\ m.data = Data(f, x) \/ x < c.block
        /\ f < c.file => OfFileBefore(c, f)

PairRight(m, x, n, y) ==
    /\ m.data.file <= n.data.file
    /\ m.data.file = n.data.file => x + 1 <= y + DownloadWindow

\* The numbers of the blocks that are under way to a client that downloads.
NumbersRight(s, c, messages, N) ==
    /\ \A i \in 1..Len(messages) :
          ~messages[i].refused => MessageRight(s, c, messages[i], N[i])
    /\ \A i, j \in 1..Len(messages) :
          i < j /\ ~messages[i].refused /\ ~messages[j].refused =>
              PairRight(messages[i], N[i], messages[j], N[j])

MessagesRight(s, c, messages) ==
    /\ messages \in Seq(BlockMessages) /\ Len(messages) <= MaxInFlight
    /\ c.state = "downloading" =>
        /\ \E N \in [1..Len(messages) -> Nat] : NumbersRight(s, c, messages, N)
        /\ s.lastClientCommand < Start[c.file] /\ c.file > 1 => OfFileBefore(c, c.file - 1)

PacketsRight(c, packets) ==
    /\ packets \in Seq(Nat) /\ Len(packets) <= MaxInFlight
    /\ \A i \in 1..Len(packets) : packets[i] <= Len(c.commands)

ClientRight(c) == c \in Clients /\ CommandsRight(c) /\ StoredRight(c)

ServerRight(s, c) ==
    s \in Servers /\ WindowRight(s) /\ PositionRight(s, c) /\ SentRight(s, c)

IInv ==
    /\ Len(cl.commands) <= MaxCommands
    /\ ClientRight(cl)
    /\ ServerRight(sv, cl)
    /\ MessagesRight(sv, cl, toClient)
    /\ PacketsRight(cl, toServer)

-----------------------------------------------------------------------------
\* Lemmas: numbers.

LEMMA Sizes ==
    /\ DownloadWindow \in Nat /\ DownloadWindow >= 1
    /\ BlockModulus \in Nat /\ BlockModulus > DownloadWindow
    /\ FileCount \in Nat /\ FileCount >= 1
    /\ \A f \in 1..FileCount : Blocks[f] \in Nat /\ Blocks[f] >= 1
    /\ MaxInFlight \in Nat /\ MaxInFlight >= 1
    /\ MaxCommands \in Nat /\ MaxCommands >= 1
  BY DownloadAssumption

\* Less than the modulus apart, two numbers have different remainders.
LEMMA RemaindersApart ==
    ASSUME NEW R \in Nat, R >= 1, NEW m \in Nat, NEW n \in Nat, m < n, n - m < R
    PROVE  m % R # n % R
<1> DEFINE q == m \div R
           r == n \div R
<1>1. q \in Int /\ r \in Int /\ m = (R * q) + (m % R) /\ n = (R * r) + (n % R)
  OBVIOUS
<1>2. SUFFICES ASSUME m % R = n % R PROVE FALSE
  OBVIOUS
<1>3. R * (r - q) = n - m
  BY <1>1, <1>2
<1>4. r - q >= 1
  BY <1>1, <1>3
<1>5. QED
  BY <1>1, <1>3, <1>4

LEMMA SlotType ==
    ASSUME NEW k \in Nat
    PROVE  Slot(k) \in Slots
  BY Sizes DEF Slot, Slots

\* Two blocks of one window have slots of their own.
LEMMA SlotsApart ==
    ASSUME NEW j \in Nat, NEW k \in Nat, j # k, j < k + DownloadWindow, k < j + DownloadWindow
    PROVE  Slot(j) # Slot(k)
<1>0. DownloadWindow \in Nat /\ DownloadWindow >= 1
  BY Sizes
<1>1. CASE j < k
  <2>1. k - j < DownloadWindow
    BY <1>0
  <2>2. j % DownloadWindow # k % DownloadWindow
    BY <1>0, <1>1, <2>1, RemaindersApart
  <2>3. QED
    BY <2>2 DEF Slot
<1>2. CASE k < j
  <2>1. j - k < DownloadWindow
    BY <1>0
  <2>2. k % DownloadWindow # j % DownloadWindow
    BY <1>0, <1>2, <2>1, RemaindersApart
  <2>3. QED
    BY <2>2 DEF Slot
<1>3. QED
  BY <1>1, <1>2

\* Closer than the modulus, equal remainders are of equal numbers.
LEMMA SameNumber ==
    ASSUME NEW x \in Nat, NEW y \in Nat, x % BlockModulus = y % BlockModulus,
           x < y + BlockModulus, y < x + BlockModulus
    PROVE  x = y
<1>0. BlockModulus \in Nat /\ BlockModulus >= 1
  BY Sizes
<1>1. CASE x < y
  <2>1. y - x < BlockModulus
    BY <1>0
  <2>2. QED
    BY <1>0, <1>1, <2>1, RemaindersApart
<1>2. CASE y < x
  <2>1. x - y < BlockModulus
    BY <1>0
  <2>2. QED
    BY <1>0, <1>2, <2>1, RemaindersApart
<1>3. QED
  BY <1>1, <1>2

\* A set of numbers has a least one: the intervals below its members have a
\* smallest.
LEMMA LeastIn ==
    ASSUME NEW S \in SUBSET Nat, S # {}
    PROVE  \E m \in S : \A j \in S : m <= j
<1> DEFINE T == {1..n : n \in S}
<1>1. T \subseteq FiniteSubsetsOf(Nat) /\ T # {}
  <2>1. \A n \in Nat : IsFiniteSet(1..n) /\ 1..n \subseteq Nat
    BY FS_Interval
  <2>2. QED
    BY <2>1 DEF FiniteSubsetsOf
<1>2. PICK x \in T : \A y \in T : ~ (<<y, x>> \in StrictSubsetOrdering(Nat))
  BY <1>1, FS_StrictSubsetOrderingWellFounded, WFMin
<1>3. PICK m \in S : x = 1..m
  BY <1>2
<1>4. ASSUME NEW j \in S, j < m PROVE FALSE
  <2>1. 1..j \subseteq 1..m /\ m \in 1..m /\ m \notin 1..j
    BY <1>4
  <2>2. <<1..j, 1..m>> \in StrictSubsetOrdering(Nat)
    BY <2>1 DEF StrictSubsetOrdering
  <2>3. QED
    BY <1>2, <1>3, <2>2
<1>5. QED
  BY <1>4

\* Numbers before which a property holds, and which inherit it, have it.
LEMMA Upwards ==
    ASSUME NEW n \in Nat, NEW G, 0 \in G, \A k \in 1..n : k - 1 \in G => k \in G
    PROVE  \A k \in 0..n : k \in G
<1> DEFINE Bad == {k \in 0..n : k \notin G}
<1>1. SUFFICES ASSUME Bad # {} PROVE FALSE
  OBVIOUS
<1>2. Bad \in SUBSET Nat
  OBVIOUS
<1>3. PICK m \in Bad : \A j \in Bad : m <= j
  <2> HIDE DEF Bad
  <2>1. QED
    BY <1>1, <1>2, LeastIn
<1>4. m \in 1..n /\ m \notin G
  OBVIOUS
<1>5. m - 1 \notin Bad
  BY <1>3, <1>4
<1>6. QED
  BY <1>4, <1>5

\* What is defined step by step exists.
Iteration(u, base, next, n) == u[0] = base /\ \A k \in 1..n : u[k] = next[k][u[k - 1]]

LEMMA Iterates ==
    ASSUME NEW S, NEW base \in S, NEW next \in [Nat -> [S -> S]], NEW n \in Nat
    PROVE  \E u \in [0..n -> S] : Iteration(u, base, next, n)
<1> DEFINE Steps(m, u) == u[0] = base /\ \A k \in 1..m : u[k] = next[k][u[k - 1]]
           G == {m \in Nat : \E u \in [0..m -> S] : Steps(m, u)}
<1>1. 0 \in G
  <2>1. [k \in 0..0 |-> base] \in [0..0 -> S] /\ Steps(0, [k \in 0..0 |-> base])
    OBVIOUS
  <2>2. QED
    BY <2>1
<1>2. ASSUME NEW k \in 1..n, k - 1 \in G PROVE k \in G
  <2>1. PICK u \in [0..(k - 1) -> S] : Steps(k - 1, u)
    BY <1>2
  <2> DEFINE v == [j \in 0..k |-> IF j = k THEN next[k][u[k - 1]] ELSE u[j]]
  <2>2. u[k - 1] \in S /\ k \in Nat
    OBVIOUS
  <2>3. next[k][u[k - 1]] \in S
    BY <2>2
  <2>4. v \in [0..k -> S]
    BY <2>3
  <2>5. v[0] = base
    BY <2>1
  <2>6. ASSUME NEW j \in 1..k PROVE v[j] = next[j][v[j - 1]]
    <3>1. CASE j = k
      BY <3>1
    <3>2. CASE j # k
      <4>1. j \in 1..(k - 1) /\ v[j] = u[j] /\ v[j - 1] = u[j - 1]
        BY <3>2
      <4>2. QED
        BY <2>1, <4>1
    <3>3. QED
      BY <3>1, <3>2
  <2>7. Steps(k, v)
    BY <2>5, <2>6
  <2>8. QED
    BY <2>2, <2>4, <2>7
<1>3. n \in G
  <2> HIDE DEF G
  <2>1. \A k \in 1..n : k - 1 \in G => k \in G
    BY <1>2
  <2>2. \A k \in 0..n : k \in G
    BY <1>1, <2>1, Upwards, Zenon
  <2>3. n \in 0..n
    OBVIOUS
  <2>4. QED
    BY <2>2, <2>3
<1>4. QED
  BY <1>3 DEF Iteration

\* The commands of a file come after those of the file before.
LEMMA StartRight ==
    /\ Start \in [1..FileCount -> Nat]
    /\ Start[1] = 1
    /\ \A f \in 1..FileCount : f # 1 => Start[f] = Start[f - 1] + Blocks[f - 1] + 2
    /\ \A f \in 1..FileCount : Start[f] >= 1
<1> DEFINE Body(u) == [f \in 1..FileCount |-> IF f = 1 THEN 1 ELSE u[f - 1] + Blocks[f - 1] + 2]
           next == [k \in Nat |-> [v \in Nat |-> IF k \in 1..FileCount THEN v + Blocks[k] + 2 ELSE v]]
<1>1. next \in [Nat -> [Nat -> Nat]]
  BY Sizes
<1>2. PICK u \in [0..FileCount -> Nat] :
        u[0] = 1 /\ \A k \in 1..FileCount : u[k] = next[k][u[k - 1]]
  <2>1. FileCount \in Nat /\ 1 \in Nat
    BY Sizes
  <2> HIDE DEF next
  <2>2. \E u \in [0..FileCount -> Nat] : Iteration(u, 1, next, FileCount)
    BY <1>1, <2>1, Iterates, Zenon
  <2>3. QED
    BY <2>2 DEF Iteration
<1> DEFINE g == [f \in 1..FileCount |-> u[f - 1]]
<1>3. g = Body(g)
  <2>1. ASSUME NEW f \in 1..FileCount
        PROVE  u[f - 1] = IF f = 1 THEN 1 ELSE g[f - 1] + Blocks[f - 1] + 2
    <3>1. CASE f = 1
      BY <1>2, <3>1
    <3>2. CASE f # 1
      <4>1. f - 1 \in 1..FileCount /\ f - 1 \in Nat /\ u[f - 2] \in Nat
        BY <3>2, Sizes
      <4>2. u[f - 1] = next[f - 1][u[f - 1 - 1]]
        BY <1>2, <4>1
      <4>3. u[f - 1] = u[f - 1 - 1] + Blocks[f - 1] + 2
        BY <4>1, <4>2
      <4>4. g[f - 1] = u[f - 1 - 1]
        BY <4>1
      <4>5. QED
        BY <3>2, <4>3, <4>4
    <3>3. QED
      BY <3>1, <3>2
  <2>2. QED
    BY <2>1
<1>4. Start = Body(Start)
  <2>1. Start = CHOOSE v : v = Body(v)
    BY Zenon DEF Start
  <2> HIDE DEF g, Body
  <2>2. QED
    BY <1>3, <2>1
<1>5. /\ Start[1] = 1
      /\ \A f \in 1..FileCount : f # 1 => Start[f] = Start[f - 1] + Blocks[f - 1] + 2
  BY <1>4, Sizes
<1> DEFINE G == {f \in Nat : f \in 1..FileCount => Start[f] \in Nat /\ Start[f] >= 1}
<1>6. \A f \in 0..FileCount : f \in G
  <2>1. 0 \in G
    OBVIOUS
  <2>2. ASSUME NEW f \in 1..FileCount, f - 1 \in G PROVE f \in G
    <3>1. CASE f = 1
      BY <1>5, <3>1
    <3>2. CASE f # 1
      <4>1. f - 1 \in 1..FileCount
        BY <3>2, Sizes
      <4>2. Start[f - 1] \in Nat /\ Start[f - 1] >= 1 /\ Blocks[f - 1] \in Nat
        BY <2>2, <4>1, Sizes
      <4>3. QED
        BY <1>5, <3>2, <4>2
    <3>3. QED
      BY <3>1, <3>2
  <2> HIDE DEF G
  <2>3. QED
    BY <2>1, <2>2, Sizes, Upwards
<1>7. DOMAIN Start = 1..FileCount /\ Start = [f \in 1..FileCount |-> Start[f]]
  BY <1>4
<1>8. \A f \in 1..FileCount : f \in 0..FileCount
  OBVIOUS
<1>9. \A f \in 1..FileCount : Start[f] \in Nat /\ Start[f] >= 1
  BY <1>6, <1>8
<1>10. QED
  <2>1. Start \in [1..FileCount -> Nat]
    BY <1>7, <1>9
  <2>2. QED
    BY <2>1, <1>5, <1>9

-----------------------------------------------------------------------------
\* Lemmas: where the server is in the client's commands.

LEMMA RecentFiles ==
    ASSUME NEW c \in Clients
    PROVE  /\ c.file \in Recent(c) /\ c.file \in 1..FileCount /\ c.block \in Nat
           /\ c.file > 1 => /\ c.file - 1 \in Recent(c)
                            /\ Start[c.file] = Start[c.file - 1] + Blocks[c.file - 1] + 2
                            /\ Taken(c, c.file - 1) = Blocks[c.file - 1] + 1
           /\ Taken(c, c.file) = c.block
           /\ \A f \in Recent(c) :
                /\ f \in 1..FileCount /\ f <= c.file
                /\ f = c.file \/ (f = c.file - 1 /\ c.file > 1)
                /\ Start[f] \in Nat /\ Start[f] >= 1
                /\ Blocks[f] \in Nat /\ Blocks[f] >= 1
                /\ Taken(c, f) \in Nat
<1>1. c.file \in 1..FileCount /\ c.block \in Nat
  BY DEF Clients
<1>2. FileCount \in Nat /\ FileCount >= 1
  BY Sizes
<1>3. c.file \in Recent(c)
  BY <1>1, <1>2 DEF Recent
<1>4. ASSUME c.file > 1
      PROVE  /\ c.file - 1 \in Recent(c)
             /\ Start[c.file] = Start[c.file - 1] + Blocks[c.file - 1] + 2
             /\ Taken(c, c.file - 1) = Blocks[c.file - 1] + 1
  BY <1>1, <1>2, <1>4, StartRight DEF Recent, Taken
<1>5. Taken(c, c.file) = c.block
  BY DEF Taken
<1>6. ASSUME NEW f \in Recent(c)
      PROVE  /\ f \in 1..FileCount /\ f <= c.file
             /\ f = c.file \/ (f = c.file - 1 /\ c.file > 1)
  BY <1>1, <1>2 DEF Recent
<1>7. ASSUME NEW f \in Recent(c)
      PROVE  /\ Start[f] \in Nat /\ Start[f] >= 1
             /\ Blocks[f] \in Nat /\ Blocks[f] >= 1
             /\ Taken(c, f) \in Nat
  BY <1>1, <1>6, StartRight, Sizes DEF Taken
<1>8. QED
  BY <1>1, <1>3, <1>4, <1>5, <1>6, <1>7

\* The position tells the file and the block.
LEMMA OnePlace ==
    ASSUME NEW c \in Clients, NEW f \in Recent(c), NEW g \in Recent(c),
           NEW b \in 0..Taken(c, f), NEW d \in 0..Taken(c, g), Start[f] + b = Start[g] + d
    PROVE  f = g /\ b = d
<1>1. CASE f = g
  <2>1. Start[f] \in Nat /\ b \in Int /\ d \in Int
    BY RecentFiles
  <2>2. QED
    BY <1>1, <2>1
<1>2. CASE f = c.file - 1 /\ g = c.file /\ c.file > 1
  BY <1>2, RecentFiles
<1>3. CASE g = c.file - 1 /\ f = c.file /\ c.file > 1
  BY <1>3, RecentFiles
<1>4. QED
  BY <1>1, <1>2, <1>3, RecentFiles

IsDownload(c, n) ==
    /\ n + 1 = Start[c.file]
    /\ c.commands[n + 1] = Command("download", c.file)
    /\ c.file > 1 => n = Start[c.file - 1] + Blocks[c.file - 1] + 1
    /\ c.file = 1 => n = 0

IsNextdl(c, n, f, b) == n = Start[f] + b /\ c.commands[n + 1] = Command("nextdl", b)

IsStopdl(c, n) ==
    /\ c.state = "complete" /\ n >= Start[c.file] + c.block
    /\ c.commands[n + 1] = Command("stopdl", 0)

LEMMA NextCommand ==
    ASSUME NEW c, ClientRight(c), NEW n \in Nat, n + 1 <= Len(c.commands),
           c.file > 1 => Start[c.file - 1] <= n
    PROVE  \/ IsDownload(c, n)
           \/ \E f \in Recent(c) : \E b \in 0..(Taken(c, f) - 1) : IsNextdl(c, n, f, b)
           \/ IsStopdl(c, n)
<1>1. c \in Clients /\ CommandsRight(c)
  BY DEF ClientRight
<1>2. Len(c.commands) \in Nat
  BY <1>1 DEF Clients
<1>3. CASE n + 1 < Start[c.file]
  <2>1. c.file > 1
    BY <1>3, StartRight, <1>1, RecentFiles
  <2> DEFINE f == c.file - 1
             b == n - Start[f]
  <2>2. f \in Recent(c) /\ b \in 0..(Taken(c, f) - 1) /\ n = Start[f] + b
    <3>1. f \in Recent(c) /\ Start[c.file] = Start[f] + Blocks[f] + 2 /\ Taken(c, f) = Blocks[f] + 1
      BY <1>1, <2>1, RecentFiles
    <3>2. Start[f] \in Nat /\ Blocks[f] \in Nat /\ Start[f] <= n
      BY <1>1, <2>1, <3>1, RecentFiles
    <3>3. QED
      BY <1>3, <3>1, <3>2
  <2>3. c.commands[Start[f] + 1 + b] = Command("nextdl", b)
    BY <1>1, <2>2 DEF CommandsRight
  <2>4. Start[f] + 1 + b = n + 1
    BY <2>2, <1>1, RecentFiles
  <2>5. QED
    BY <2>2, <2>3, <2>4 DEF IsNextdl
<1>4. CASE n + 1 = Start[c.file]
  <2>1. c.commands[n + 1] = Command("download", c.file)
    BY <1>1, <1>4, RecentFiles DEF CommandsRight
  <2>2. c.file > 1 => n = Start[c.file - 1] + Blocks[c.file - 1] + 1
    BY <1>1, <1>4, RecentFiles
  <2>3. c.file = 1 => n = 0
    BY <1>4, StartRight
  <2>4. QED
    BY <1>4, <2>1, <2>2, <2>3 DEF IsDownload
<1>5. CASE n >= Start[c.file] /\ n < Start[c.file] + c.block
  <2> DEFINE f == c.file
             b == n - Start[f]
  <2>2. f \in Recent(c) /\ b \in 0..(Taken(c, f) - 1) /\ n = Start[f] + b
    BY <1>1, <1>5, RecentFiles
  <2>3. c.commands[Start[f] + 1 + b] = Command("nextdl", b)
    BY <1>1, <2>2 DEF CommandsRight
  <2>4. Start[f] + 1 + b = n + 1
    BY <2>2, <1>1, RecentFiles
  <2>5. QED
    BY <2>2, <2>3, <2>4 DEF IsNextdl
<1>6. CASE n >= Start[c.file] + c.block
  <2>1. Start[c.file] \in Nat /\ c.block \in Nat
    BY <1>1, RecentFiles
  <2>2. c.state = "complete"
    BY <1>1, <1>2, <1>6, <2>1 DEF CommandsRight
  <2>3. n + 1 \in (Start[c.file] + c.block + 1)..Len(c.commands)
    BY <1>2, <1>6, <2>1
  <2>4. QED
    BY <1>1, <1>6, <2>2, <2>3 DEF CommandsRight, IsStopdl
<1>7. QED
  <2>1. Start[c.file] \in Nat /\ c.block \in Nat
    BY <1>1, RecentFiles
  <2>2. QED
    BY <1>3, <1>4, <1>5, <1>6, <2>1

-----------------------------------------------------------------------------
\* Lemmas: the server executes a command.

\* Messages stay right for a server that goes on, and opens nothing.
LEMMA MessagesKept ==
    ASSUME NEW s \in Servers, NEW t \in Servers, NEW c, NEW messages,
           MessagesRight(s, c, messages),
           s.lastClientCommand < t.lastClientCommand,
           t.open => s.open /\ t.name = s.name /\ t.current = s.current /\ t.xmit = s.xmit,
           \A m \in BlockMessages : \A x \in Nat :
              c.state = "downloading" /\ MessageRight(s, c, m, x) =>
                  /\ t.name = m.data.file => t.open
                  /\ m.data.file = c.file /\ ~Confused(c) => t.name = c.file,
           c.state = "downloading" /\ t.lastClientCommand < Start[c.file] /\ c.file > 1
              => s.lastClientCommand < Start[c.file]
    PROVE  MessagesRight(t, c, messages)
<1>1. SUFFICES ASSUME c.state = "downloading"
               PROVE  /\ \E N \in [1..Len(messages) -> Nat] : NumbersRight(t, c, messages, N)
                      /\ t.lastClientCommand < Start[c.file] /\ c.file > 1 =>
                            OfFileBefore(c, c.file - 1)
  BY DEF MessagesRight
<1>2. PICK N \in [1..Len(messages) -> Nat] : NumbersRight(s, c, messages, N)
  BY <1>1 DEF MessagesRight
<1>3. ASSUME NEW m \in BlockMessages, NEW x \in Nat, MessageRight(s, c, m, x)
      PROVE  MessageRight(t, c, m, x)
  <2>1. /\ t.name = m.data.file => t.open
        /\ m.data.file = c.file /\ ~Confused(c) => t.name = c.file
    BY <1>1, <1>3
  <2>2. Start[m.data.file] < t.lastClientCommand /\ Start[m.data.file] <= t.lastClientCommand
        /\ t.lastClientCommand # Start[m.data.file]
    <3>1. Start[m.data.file] <= s.lastClientCommand
      BY <1>3 DEF MessageRight
    <3>2. s.lastClientCommand \in Nat /\ t.lastClientCommand \in Nat
      BY DEF Servers
    <3>3. m.data.file \in 1..FileCount
      BY <1>3 DEF MessageRight, Recent, BlockMessages, Contents
    <3>4. Start[m.data.file] \in Nat
      BY <3>3, StartRight
    <3>5. QED
      BY <3>1, <3>2, <3>4
  <2>3. QED
    BY <1>3, <2>1, <2>2 DEF MessageRight
<1>4. messages \in Seq(BlockMessages)
  BY DEF MessagesRight
<1>5. NumbersRight(t, c, messages, N)
  <2>1. ASSUME NEW i \in 1..Len(messages), ~messages[i].refused
        PROVE  MessageRight(t, c, messages[i], N[i])
    <3>1. messages[i] \in BlockMessages /\ N[i] \in Nat
      BY <1>4
    <3>2. MessageRight(s, c, messages[i], N[i])
      BY <1>2, <2>1 DEF NumbersRight
    <3>3. QED
      BY <1>3, <3>1, <3>2
  <2>2. QED
    BY <1>2, <2>1 DEF NumbersRight
<1>6. t.lastClientCommand < Start[c.file] /\ c.file > 1 => OfFileBefore(c, c.file - 1)
  BY <1>1 DEF MessagesRight
<1>7. QED
  BY <1>5, <1>6

\* What a command leaves of the server.
Keeps(s, t) ==
    /\ t.available = s.available /\ t.current = s.current /\ t.xmit = s.xmit
    /\ t.eof = s.eof /\ t.ring = s.ring
    /\ t.lastClientCommand = s.lastClientCommand + 1

\* Carries what holds of server s over to t.
Carried(s, t, c) ==
    /\ ServerRight(t, c)
    /\ \A messages : MessagesRight(s, c, messages) => MessagesRight(t, c, messages)

LEMMA DownloadExecuted ==
    ASSUME NEW c, ClientRight(c), NEW s, ServerRight(s, c),
           s.lastClientCommand + 1 <= Len(c.commands),
           IsDownload(c, s.lastClientCommand),
           NEW t \in Servers, Keeps(s, t),
           t.state = s.state, t.name = c.file, t.open = FALSE
    PROVE  Carried(s, t, c)
<1>1. /\ c \in Clients /\ s \in Servers /\ WindowRight(s) /\ PositionRight(s, c) /\ SentRight(s, c)
      /\ s.lastClientCommand \in Nat
  BY DEF ClientRight, ServerRight, Servers
<1>2. s.state = "connected" /\ s.name = 0
  <2>1. CASE c.file = 1
    BY <1>1, <2>1 DEF IsDownload, PositionRight
  <2>2. CASE c.file # 1
    <3> DEFINE f == c.file - 1
               b == Blocks[f] + 1
    <3>1. c.file > 1 /\ f \in Recent(c) /\ f # c.file
      BY <1>1, <2>2, RecentFiles
    <3>2. b \in 0..Taken(c, f) /\ s.lastClientCommand = Start[f] + b /\ b = Blocks[f] + 1
      BY <1>1, <3>1, RecentFiles DEF IsDownload
    <3> HIDE DEF f, b
    <3>3. AtBlock(s, c, f, b)
      BY <1>1, <3>1, <3>2 DEF PositionRight
    <3>4. QED
      BY <3>1, <3>2, <3>3 DEF AtBlock, InStepAt
  <2>3. QED
    BY <2>1, <2>2
<1>3. NotSent(s, c) /\ FewMistaken(c)
  <2>1. s.lastClientCommand < Start[c.file]
    BY <1>1 DEF IsDownload
  <2>2. QED
    BY <1>1, <2>1 DEF NotSent, SentRight
<1>4. PositionRight(t, c)
  <2>1. t.lastClientCommand = Start[c.file] + 0 /\ t.lastClientCommand = Start[c.file]
    BY <1>1, RecentFiles DEF Keeps, IsDownload
  <2>2. ASSUME NEW f \in Recent(c), NEW b \in 0..Taken(c, f), t.lastClientCommand = Start[f] + b
        PROVE  AtBlock(t, c, f, b)
    <3>1. 0 \in 0..Taken(c, c.file)
      BY <1>1, RecentFiles
    <3>2. f = c.file /\ b = 0
      <4>1. c.file \in Recent(c) /\ Start[c.file] + 0 = Start[f] + b
        BY <1>1, <2>1, <2>2, RecentFiles
      <4>2. QED
        BY <1>1, <3>1, <4>1, OnePlace
    <3>3. Blocks[f] \in Nat
      BY <1>1, <3>2, RecentFiles
    <3>4. QED
      BY <1>2, <1>3, <3>2, <3>3 DEF AtBlock, InStepAt, FewMistaken
  <2>3. c.file > 1 => Start[c.file - 1] <= t.lastClientCommand
    BY <1>1, <2>1, RecentFiles
  <2>4. t.lastClientCommand <= Len(c.commands) /\ t.lastClientCommand # 0
    BY <1>1, <2>1, RecentFiles DEF Keeps
  <2>5. ~(t.lastClientCommand > Start[c.file] + c.block)
    BY <1>1, <2>1, RecentFiles
  <2>6. QED
    BY <2>2, <2>3, <2>4, <2>5 DEF PositionRight
<1>5. WindowRight(t)
  <2>1. t.name # 0
    BY <1>1, RecentFiles
  <2>2. QED
    BY <1>2, <2>1 DEF WindowRight
<1>6. SentRight(t, c)
  BY <1>3 DEF SentRight
<1>7. ASSUME NEW messages, MessagesRight(s, c, messages) PROVE MessagesRight(t, c, messages)
  <2>1. /\ s.lastClientCommand < t.lastClientCommand
        /\ t.lastClientCommand < Start[c.file] /\ c.file > 1 => s.lastClientCommand < Start[c.file]
    BY <1>1, RecentFiles DEF Keeps, IsDownload
  <2>2. ASSUME NEW m, NEW x, MessageRight(s, c, m, x) PROVE m.data.file # c.file
    <3>1. Start[m.data.file] <= s.lastClientCommand
      BY <2>2 DEF MessageRight
    <3>2. Start[c.file] \in Nat /\ s.lastClientCommand + 1 = Start[c.file]
      BY <1>1, RecentFiles DEF IsDownload
    <3>3. QED
      BY <1>1, <3>1, <3>2
  <2>3. QED
    BY <1>1, <1>7, <2>1, <2>2, MessagesKept
<1>8. QED
  BY <1>4, <1>5, <1>6, <1>7 DEF Carried, ServerRight

LEMMA StopExecuted ==
    ASSUME NEW c, ClientRight(c), NEW s, ServerRight(s, c),
           s.lastClientCommand + 1 <= Len(c.commands),
           IsStopdl(c, s.lastClientCommand),
           NEW t \in Servers, Keeps(s, t),
           t.state = s.state, t.name = 0, t.open = FALSE
    PROVE  Carried(s, t, c)
<1>1. /\ c \in Clients /\ s \in Servers /\ WindowRight(s) /\ PositionRight(s, c) /\ SentRight(s, c)
      /\ s.lastClientCommand \in Nat /\ CommandsRight(c) /\ StoredRight(c)
  BY DEF ClientRight, ServerRight, Servers
<1>0. /\ Start[c.file] \in Nat /\ Start[c.file] >= 1 /\ c.block \in Nat
      /\ s.lastClientCommand >= Start[c.file] + c.block
      /\ t.lastClientCommand = s.lastClientCommand + 1
  BY <1>1, RecentFiles DEF IsStopdl, Keeps
<1>2. c.state = "complete" /\ c.block = Blocks[c.file] + 1 /\ ~Confused(c)
  BY <1>1 DEF IsStopdl, CommandsRight, StoredRight
<1>3. s.state = "connected"
  <2>1. CASE s.lastClientCommand = Start[c.file] + c.block
    <3>1. c.file \in Recent(c) /\ c.block \in 0..Taken(c, c.file)
      BY <1>1, RecentFiles
    <3>2. AtBlock(s, c, c.file, c.block)
      BY <1>1, <2>1, <3>1 DEF PositionRight
    <3>3. QED
      BY <1>2, <3>2 DEF AtBlock, InStepAt
  <2>2. CASE s.lastClientCommand > Start[c.file] + c.block
    BY <1>1, <2>2 DEF PositionRight
  <2>3. QED
    BY <1>0, <1>1, <2>1, <2>2
<1>4. t.lastClientCommand > Start[c.file] + c.block
  BY <1>0, <1>1
<1>5. PositionRight(t, c)
  <2>1. ASSUME NEW f \in Recent(c), NEW b \in 0..Taken(c, f), t.lastClientCommand = Start[f] + b
        PROVE  FALSE
    <3>1. CASE f = c.file
      <4>1. b \in 0..c.block
        BY <1>1, <3>1, RecentFiles
      <4>2. QED
        BY <1>0, <1>1, <1>4, <2>1, <3>1, <4>1
    <3>2. CASE f # c.file
      <4>1. /\ Start[c.file] = Start[f] + Blocks[f] + 2 /\ b \in 0..(Blocks[f] + 1)
            /\ Start[f] \in Nat /\ Blocks[f] \in Nat
        BY <1>1, <3>2, RecentFiles
      <4>2. QED
        BY <1>0, <1>1, <1>4, <2>1, <4>1
    <3>3. QED
      BY <3>1, <3>2
  <2>2. c.file > 1 => Start[c.file - 1] <= t.lastClientCommand
    <3>1. c.file > 1 => Start[c.file - 1] <= s.lastClientCommand /\ Start[c.file - 1] \in Nat
      BY <1>1, RecentFiles DEF PositionRight
    <3>2. QED
      BY <1>0, <1>1, <3>1
  <2>3. t.lastClientCommand <= Len(c.commands) /\ t.lastClientCommand # 0
    BY <1>1 DEF Keeps
  <2>4. QED
    BY <1>3, <2>1, <2>2, <2>3 DEF PositionRight
<1>6. WindowRight(t)
  BY <1>3 DEF WindowRight
<1>7. SentRight(t, c)
  <2>1. ~NotSent(t, c)
    <3>1. t.name # c.file
      BY <1>1, RecentFiles
    <3>2. QED
      BY <1>0, <1>1, <1>4, <3>1 DEF NotSent
  <2>2. QED
    BY <2>1 DEF SentRight
<1>8. ASSUME NEW messages, MessagesRight(s, c, messages) PROVE MessagesRight(t, c, messages)
  BY <1>2, <1>8 DEF MessagesRight
<1>9. QED
  BY <1>5, <1>6, <1>7, <1>8 DEF Carried, ServerRight

\* What an acknowledgement makes of the server.
Closes(s, t) == t.state = s.state /\ t.name = 0 /\ t.open = FALSE /\ t.clientBlock = s.clientBlock

Advances(s, t) ==
    /\ t.state = s.state /\ t.name = s.name /\ t.open = s.open
    /\ t.clientBlock = s.clientBlock + 1

TakesAck(s, t, b) ==
    \/ /\ s.state = "dropped"
       /\ t.state = "dropped" /\ t.name = s.name /\ t.open = s.open
       /\ t.clientBlock = s.clientBlock
    \/ /\ s.state = "connected" /\ b # s.clientBlock
       /\ t.state = "dropped" /\ t.name = 0 /\ t.open = FALSE
       /\ t.clientBlock = s.clientBlock
    \/ s.state = "connected" /\ b = s.clientBlock /\ Empty(s.ring[Slot(b)]) /\ Closes(s, t)
    \/ s.state = "connected" /\ b = s.clientBlock /\ ~Empty(s.ring[Slot(b)]) /\ Advances(s, t)

\* The place after an acknowledgement.
LEMMA NextPlace ==
    ASSUME NEW c, ClientRight(c), NEW s, ServerRight(s, c),
           NEW f \in Recent(c), NEW b \in 0..(Taken(c, f) - 1),
           s.lastClientCommand = Start[f] + b, s.lastClientCommand + 1 <= Len(c.commands),
           NEW t \in Servers, t.lastClientCommand = s.lastClientCommand + 1,
           AtBlock(t, c, f, b + 1)
    PROVE  /\ PositionRight(t, c)
           /\ t.lastClientCommand < Start[c.file] => s.lastClientCommand < Start[c.file]
           /\ t.lastClientCommand # Start[c.file]
<1>1. /\ c \in Clients /\ s \in Servers /\ PositionRight(s, c) /\ s.lastClientCommand \in Nat
  BY DEF ClientRight, ServerRight, Servers
<1>2. /\ Start[f] \in Nat /\ Start[f] >= 1 /\ Blocks[f] \in Nat /\ Taken(c, f) \in Nat
      /\ f = c.file \/ (f = c.file - 1 /\ c.file > 1)
      /\ Start[c.file] \in Nat /\ c.block \in Nat
  BY <1>1, RecentFiles
<1>3. b + 1 \in 0..Taken(c, f) /\ t.lastClientCommand = Start[f] + (b + 1) /\ b \in Nat
  <2>1. b \in Nat /\ b + 1 \in 0..Taken(c, f)
    BY <1>2
  <2>2. t.lastClientCommand = Start[f] + (b + 1)
    BY <1>2, <2>1
  <2>3. QED
    BY <2>1, <2>2
<1>4. ASSUME NEW g \in Recent(c), NEW d \in 0..Taken(c, g), t.lastClientCommand = Start[g] + d
      PROVE  AtBlock(t, c, g, d)
  <2>1. Start[f] + (b + 1) = Start[g] + d
    BY <1>3, <1>4
  <2>2. g = f /\ d = b + 1
    BY <1>1, <1>3, <2>1, OnePlace
  <2>3. QED
    BY <2>2
<1>5. /\ ~(t.lastClientCommand > Start[c.file] + c.block)
      /\ t.lastClientCommand # Start[c.file]
      /\ t.lastClientCommand < Start[c.file] => s.lastClientCommand < Start[c.file]
  <2>1. CASE f = c.file
    <3>1. Taken(c, f) = c.block
      BY <1>1, <2>1, RecentFiles
    <3>2. QED
      BY <1>1, <1>2, <1>3, <2>1, <3>1
  <2>2. CASE f = c.file - 1 /\ c.file > 1
    <3>1. Start[c.file] = Start[f] + Blocks[f] + 2 /\ Taken(c, f) = Blocks[f] + 1
      BY <1>1, <2>2, RecentFiles
    <3>2. b + 1 <= Blocks[f] + 1
      BY <1>2, <1>3, <3>1
    <3>3. t.lastClientCommand < Start[c.file]
      BY <1>2, <1>3, <3>1, <3>2
    <3>4. s.lastClientCommand < Start[c.file]
      BY <1>1, <1>2, <3>3
    <3>5. QED
      BY <1>1, <1>2, <3>3, <3>4
  <2>3. QED
    BY <1>2, <2>1, <2>2, Zenon
<1>6. c.file > 1 => Start[c.file - 1] <= t.lastClientCommand
  <2>1. c.file > 1 => Start[c.file - 1] <= s.lastClientCommand /\ Start[c.file - 1] \in Nat
    BY <1>1, RecentFiles DEF PositionRight
  <2>2. QED
    BY <1>1, <2>1
<1>7. t.lastClientCommand <= Len(c.commands) /\ t.lastClientCommand # 0
  BY <1>1
<1>8. QED
  BY <1>4, <1>5, <1>6, <1>7 DEF PositionRight

\* A server whose client has mistaken a block.
LEMMA ConfusedAck ==
    ASSUME NEW c, ClientRight(c), NEW s, ServerRight(s, c),
           s.lastClientCommand + 1 <= Len(c.commands),
           Confused(c), NEW b \in 0..(c.block - 1),
           s.lastClientCommand = Start[c.file] + b,
           NEW t \in Servers, Keeps(s, t), TakesAck(s, t, b)
    PROVE  Carried(s, t, c)
<1>1. /\ c \in Clients /\ s \in Servers /\ WindowRight(s) /\ PositionRight(s, c) /\ SentRight(s, c)
      /\ s.lastClientCommand \in Nat /\ t.lastClientCommand = s.lastClientCommand + 1
  BY DEF ClientRight, ServerRight, Servers, Keeps
<1>2. /\ c.file \in Recent(c) /\ c.file \in 1..FileCount /\ Start[c.file] \in Nat /\ Start[c.file] >= 1
      /\ Blocks[c.file] \in Nat /\ Blocks[c.file] >= 1
      /\ Taken(c, c.file) = c.block /\ c.block \in Nat /\ b \in Nat /\ b < c.block
  BY <1>1, RecentFiles
<1>3. b \in 0..Taken(c, c.file) /\ b \in 0..(Taken(c, c.file) - 1)
  BY <1>2
<1>4. s.name \in {0, c.file}
  BY <1>2, <1>1, <1>3 DEF PositionRight, AtBlock
<1>5. /\ s.name = 0 => ~s.open
      /\ s.state = "dropped" => s.name = 0
      /\ t.state \in {"connected", "dropped"}
  BY <1>1 DEF WindowRight, Servers
<1>6. AtBlock(t, c, c.file, b + 1)
  BY <1>4 DEF AtBlock, TakesAck, Closes, Advances
<1>7. /\ PositionRight(t, c)
      /\ t.lastClientCommand < Start[c.file] => s.lastClientCommand < Start[c.file]
      /\ t.lastClientCommand # Start[c.file]
  BY <1>1, <1>2, <1>3, <1>6, NextPlace
<1>8. /\ s.current \in Nat /\ s.clientBlock \in Nat /\ s.xmit \in Nat
      /\ DownloadWindow \in Nat
  BY <1>1, Sizes DEF Servers
<1>9. WindowRight(t)
  <2>1. CASE t.open
    <3>1. Advances(s, t) /\ s.open /\ b = s.clientBlock /\ ~Empty(s.ring[Slot(b)])
      <4>1. s.state = "dropped" => ~s.open
        BY <1>5
      <4>2. CASE s.state = "dropped"
        BY <2>1, <4>1, <4>2 DEF TakesAck, Closes
      <4>3. CASE s.state # "dropped"
        BY <2>1, <4>3 DEF TakesAck, Closes, Advances
      <4>4. QED
        BY <4>2, <4>3
    <3>2. s.name = c.file
      BY <1>4, <1>5, <3>1
    <3>3. /\ s.name \in s.available
          /\ s.clientBlock <= s.current /\ s.current <= s.clientBlock + DownloadWindow
          /\ 1 <= s.xmit /\ s.xmit <= s.current
          /\ s.eof => s.current = Blocks[s.name] + 1 /\ s.clientBlock <= Blocks[s.name]
          /\ ~s.eof => DownloadWindow <= s.current /\ s.current <= Blocks[s.name]
          /\ \A k \in s.clientBlock..(s.current - 1) : s.ring[Slot(k)] = Data(s.name, k)
          /\ \A k \in 0..(s.current - 1) : s.ring[Slot(k)].file = s.name
      BY <1>1, <3>1 DEF WindowRight
    <3>4. c.block <= s.current \/ c.block <= DownloadWindow
      BY <1>1, <1>2, <3>1, <3>2 DEF SentRight
    <3>5. b < s.current
      BY <1>2, <1>8, <3>1, <3>2, <3>3, <3>4
    <3>6. b # Blocks[c.file]
      <4>1. s.ring[Slot(b)] = Data(c.file, b)
        BY <1>2, <1>8, <3>1, <3>2, <3>3, <3>5, SMTT(30)
      <4>2. QED
        BY <3>1, <4>1 DEF Empty, Data
    <3>7. t.clientBlock = b + 1
      BY <3>1 DEF Advances
    <3>8. /\ t.name \in t.available
          /\ t.clientBlock <= t.current /\ t.current <= t.clientBlock + DownloadWindow
          /\ 1 <= t.xmit /\ t.xmit <= t.current
          /\ t.eof => t.current = Blocks[t.name] + 1 /\ t.clientBlock <= Blocks[t.name]
          /\ ~t.eof => DownloadWindow <= t.current /\ t.current <= Blocks[t.name]
      <4>1. /\ t.available = s.available /\ t.current = s.current /\ t.xmit = s.xmit
            /\ t.eof = s.eof /\ t.name = s.name
        BY <3>1 DEF Keeps, Advances
      <4>2. b + 1 <= s.current /\ s.current <= b + 1 + DownloadWindow
        BY <1>2, <1>8, <3>1, <3>3, <3>5
      <4>3. s.eof => b + 1 <= Blocks[s.name]
        BY <1>2, <3>1, <3>2, <3>3, <3>6
      <4>4. QED
        BY <3>3, <3>7, <4>1, <4>2, <4>3
    <3>9. /\ \A k \in t.clientBlock..(t.current - 1) : t.ring[Slot(k)] = Data(t.name, k)
          /\ \A k \in 0..(t.current - 1) : t.ring[Slot(k)].file = t.name
      <4>1. \A k \in t.clientBlock..(t.current - 1) : k \in s.clientBlock..(s.current - 1)
        BY <1>8, <3>1, <3>7 DEF Keeps
      <4>2. QED
        BY <3>1, <3>3, <4>1 DEF Keeps, Advances
    <3>10. t.name # 0 /\ t.state # "dropped"
      BY <1>2, <1>5, <3>1, <3>2 DEF Advances
    <3>11. QED
      BY <3>8, <3>9, <3>10 DEF WindowRight
  <2>2. CASE ~t.open
    <3>1. t.state = "dropped" => t.name = 0
      BY <1>5 DEF TakesAck, Closes, Advances
    <3>2. QED
      BY <2>2, <3>1 DEF WindowRight
  <2>3. QED
    BY <2>1, <2>2
<1>10. t.open => s.open /\ t.name = s.name /\ t.current = s.current /\ t.xmit = s.xmit
  BY <1>5 DEF TakesAck, Closes, Advances, Keeps
<1>11. t.name # 0 => s.name = t.name /\ s.open = t.open
  BY <1>5 DEF TakesAck, Closes, Advances
<1>12. SentRight(t, c)
  <2>1. NotSent(t, c) => NotSent(s, c)
    BY <1>2, <1>7, <1>11 DEF NotSent
  <2>2. QED
    BY <1>1, <1>10, <2>1 DEF SentRight
<1>13. ASSUME NEW messages, MessagesRight(s, c, messages) PROVE MessagesRight(t, c, messages)
  <2>1. s.lastClientCommand <= t.lastClientCommand
    BY <1>1
  <2>2. ASSUME NEW m, NEW x, MessageRight(s, c, m, x), t.name = m.data.file PROVE t.open
    <3>1. m.data.file \in Recent(c)
      BY <2>2 DEF MessageRight
    <3>2. t.name # 0
      BY <1>1, <2>2, <3>1, RecentFiles
    <3>3. QED
      BY <1>11, <2>2, <3>2 DEF MessageRight
  <2>3. QED
    BY <1>1, <1>7, <1>10, <1>13, <2>1, <2>2, MessagesKept
<1>14. QED
  BY <1>7, <1>9, <1>12, <1>13 DEF Carried, ServerRight

\* A server in step with its client.
LEMMA InStepAck ==
    ASSUME NEW c, ClientRight(c), NEW s, ServerRight(s, c),
           s.lastClientCommand + 1 <= Len(c.commands),
           NEW f \in Recent(c), ~(f = c.file /\ Confused(c)),
           NEW b \in 0..(Taken(c, f) - 1), s.lastClientCommand = Start[f] + b,
           NEW t \in Servers, Keeps(s, t), TakesAck(s, t, b)
    PROVE  Carried(s, t, c)
<1>1. /\ c \in Clients /\ s \in Servers /\ WindowRight(s) /\ PositionRight(s, c) /\ SentRight(s, c)
      /\ s.lastClientCommand \in Nat /\ t.lastClientCommand = s.lastClientCommand + 1
      /\ StoredRight(c)
  BY DEF ClientRight, ServerRight, Servers, Keeps
<1>2. /\ f \in 1..FileCount /\ Start[f] \in Nat /\ Start[f] >= 1
      /\ Blocks[f] \in Nat /\ Blocks[f] >= 1
      /\ Taken(c, f) \in Nat /\ b \in Nat /\ b < Taken(c, f)
      /\ b \in 0..Taken(c, f)
      /\ f # c.file => f = c.file - 1 /\ c.file > 1
      /\ f = c.file => Taken(c, f) = c.block
      /\ f # c.file => Taken(c, f) = Blocks[f] + 1
  BY <1>1, RecentFiles
<1>3. /\ s.current \in Nat /\ s.clientBlock \in Nat /\ s.xmit \in Nat
      /\ DownloadWindow \in Nat
  BY <1>1, Sizes DEF Servers
<1>4. s.name \in {0, f} /\ InStepAt(s, c, f, b)
  BY <1>1, <1>2 DEF PositionRight, AtBlock
<1>5. b <= Blocks[f]
  <2>1. CASE f = c.file
    BY <1>1, <1>2, <2>1 DEF StoredRight
  <2>2. CASE f # c.file
    BY <1>2, <2>2
  <2>3. QED
    BY <2>1, <2>2
<1>6. s.open /\ s.clientBlock = b /\ s.state = "connected" /\ s.name = f
  <2>1. s.open /\ s.clientBlock = b
    <3>1. CASE b = 0
      BY <1>2, <1>4, <3>1 DEF InStepAt
    <3>2. CASE b # 0
      BY <1>2, <1>4, <1>5, <3>2 DEF InStepAt
    <3>3. QED
      BY <3>1, <3>2
  <2>2. QED
    BY <1>1, <1>4, <2>1 DEF WindowRight, InStepAt
<1>7. /\ s.name \in s.available
      /\ s.clientBlock <= s.current /\ s.current <= s.clientBlock + DownloadWindow
      /\ 1 <= s.xmit /\ s.xmit <= s.current
      /\ s.eof => s.current = Blocks[s.name] + 1 /\ s.clientBlock <= Blocks[s.name]
      /\ ~s.eof => DownloadWindow <= s.current /\ s.current <= Blocks[s.name]
      /\ \A k \in s.clientBlock..(s.current - 1) : s.ring[Slot(k)] = Data(s.name, k)
      /\ \A k \in 0..(s.current - 1) : s.ring[Slot(k)].file = s.name
  BY <1>1, <1>6 DEF WindowRight
<1>8. Taken(c, f) <= s.current
  BY <1>1, <1>6 DEF SentRight
<1>9. b < s.current
  BY <1>2, <1>3, <1>8
<1>10. Empty(s.ring[Slot(b)]) <=> b = Blocks[f]
  <2>1. s.ring[Slot(b)] = Data(f, b)
    BY <1>2, <1>3, <1>6, <1>7, <1>9
  <2>2. f # 0
    BY <1>2
  <2>3. QED
    BY <2>1, <2>2 DEF Empty, Data
<1>11. CASE b = Blocks[f]
  <2>1. Closes(s, t)
    BY <1>6, <1>10, <1>11 DEF TakesAck
  <2>2. t.state = "connected" /\ t.name = 0 /\ t.open = FALSE
    BY <1>6, <2>1 DEF Closes
  <2>3. AtBlock(t, c, f, b + 1)
    BY <1>2, <1>11, <2>2 DEF AtBlock, InStepAt
  <2>4. /\ PositionRight(t, c)
        /\ t.lastClientCommand < Start[c.file] => s.lastClientCommand < Start[c.file]
        /\ t.lastClientCommand # Start[c.file]
    BY <1>1, <2>3, NextPlace
  <2>5. WindowRight(t)
    BY <2>2 DEF WindowRight
  <2>6. SentRight(t, c)
    <3>1. t.name # c.file
      BY <1>1, <2>2, RecentFiles
    <3>2. NotSent(t, c) => NotSent(s, c)
      BY <2>4, <3>1 DEF NotSent
    <3>3. QED
      BY <1>1, <2>2, <3>2 DEF SentRight
  <2>7. ASSUME NEW messages, MessagesRight(s, c, messages) PROVE MessagesRight(t, c, messages)
    <3>1. s.lastClientCommand <= t.lastClientCommand
      BY <1>1
    <3>2. ASSUME NEW m, NEW x, MessageRight(s, c, m, x)
          PROVE  /\ t.name # m.data.file
                 /\ c.state = "downloading" => ~(m.data.file = c.file /\ ~Confused(c))
      <4>1. m.data.file \in Recent(c)
        BY <3>2 DEF MessageRight
      <4>2. t.name # m.data.file
        BY <1>1, <2>2, <4>1, RecentFiles
      <4>3. SUFFICES ASSUME c.state = "downloading", m.data.file = c.file, ~Confused(c) PROVE FALSE
        BY <4>2
      <4>4. f = c.file
        BY <1>6, <3>2, <4>3 DEF MessageRight
      <4>5. c.block <= Blocks[f]
        BY <1>1, <4>3, <4>4 DEF StoredRight
      <4>6. QED
        BY <1>2, <1>11, <4>4, <4>5
    <3>3. QED
      BY <1>1, <2>2, <2>4, <2>7, <3>1, <3>2, MessagesKept
  <2>8. QED
    BY <2>4, <2>5, <2>6, <2>7 DEF Carried, ServerRight
<1>12. CASE b # Blocks[f]
  <2>1. Advances(s, t)
    BY <1>6, <1>10, <1>12 DEF TakesAck
  <2>2. /\ t.state = "connected" /\ t.name = f /\ t.open = s.open /\ t.clientBlock = b + 1
        /\ t.available = s.available /\ t.current = s.current /\ t.xmit = s.xmit
        /\ t.eof = s.eof /\ t.ring = s.ring
    BY <1>6, <2>1 DEF Advances, Keeps
  <2>3. b + 1 \in 1..Blocks[f] /\ b + 1 # Blocks[f] + 1 /\ b + 1 # 0 /\ b + 1 <= Blocks[f] + 1
    BY <1>2, <1>5, <1>12
  <2>4. AtBlock(t, c, f, b + 1)
    BY <1>6, <2>2, <2>3 DEF AtBlock, InStepAt
  <2>5. /\ PositionRight(t, c)
        /\ t.lastClientCommand < Start[c.file] => s.lastClientCommand < Start[c.file]
        /\ t.lastClientCommand # Start[c.file]
    BY <1>1, <2>4, NextPlace
  <2>6. WindowRight(t)
    <3>1. /\ b + 1 <= s.current /\ s.current <= b + 1 + DownloadWindow
          /\ b + 1 <= Blocks[f]
      BY <1>2, <1>3, <1>6, <1>7, <1>9, <2>3
    <3>2. \A k \in (b + 1)..(s.current - 1) : k \in s.clientBlock..(s.current - 1)
      BY <1>2, <1>3, <1>6
    <3>3. t.name # 0
      BY <1>2, <2>2
    <3>4. /\ t.name \in t.available
          /\ t.clientBlock <= t.current /\ t.current <= t.clientBlock + DownloadWindow
          /\ 1 <= t.xmit /\ t.xmit <= t.current
          /\ t.eof => t.current = Blocks[t.name] + 1 /\ t.clientBlock <= Blocks[t.name]
          /\ ~t.eof => DownloadWindow <= t.current /\ t.current <= Blocks[t.name]
      BY <1>6, <1>7, <2>2, <3>1
    <3>5. /\ \A k \in t.clientBlock..(t.current - 1) : t.ring[Slot(k)] = Data(t.name, k)
          /\ \A k \in 0..(t.current - 1) : t.ring[Slot(k)].file = t.name
      BY <1>6, <1>7, <2>2, <3>2
    <3>6. QED
      BY <2>2, <3>3, <3>4, <3>5 DEF WindowRight
  <2>7. SentRight(t, c)
    <3>1. NotSent(t, c) => NotSent(s, c)
      BY <1>6, <2>2, <2>5 DEF NotSent
    <3>2. QED
      BY <1>1, <1>6, <2>2, <3>1 DEF SentRight
  <2>8. ASSUME NEW messages, MessagesRight(s, c, messages) PROVE MessagesRight(t, c, messages)
    <3>1. s.lastClientCommand < t.lastClientCommand
      BY <1>1
    <3>2. QED
      BY <1>1, <1>6, <2>2, <2>5, <2>8, <3>1, MessagesKept DEF MessageRight
  <2>9. QED
    BY <2>5, <2>6, <2>7, <2>8 DEF Carried, ServerRight
<1>13. QED
  BY <1>11, <1>12

\* The server with the next command executed.
Executed(s, command, k) == [SV_ExecuteClientCommand(s, command) EXCEPT !.lastClientCommand = k]

LEMMA ExecutesDownload ==
    ASSUME NEW s \in Servers, s.state = "connected", NEW f \in 1..FileCount,
           NEW t, t = Executed(s, Command("download", f), s.lastClientCommand + 1)
    PROVE  /\ t \in Servers /\ Keeps(s, t)
           /\ t.state = s.state /\ t.name = f /\ t.open = FALSE
<1> DEFINE u == SV_ExecuteClientCommand(s, Command("download", f))
<1>1. u = [[s EXCEPT !.name = 0, !.open = FALSE] EXCEPT !.name = f]
  BY DEF SV_ExecuteClientCommand, Command, SV_BeginDownload, SV_CloseDownload
<1>2. u \in Servers
  <2> DEFINE v == [s EXCEPT !.name = 0, !.open = FALSE]
  <2>1. 0 \in 0..FileCount /\ f \in 0..FileCount
    BY Sizes
  <2>2. v \in Servers
    BY <2>1 DEF Servers
  <2>3. u = [v EXCEPT !.name = f]
    BY <1>1
  <2> HIDE DEF u, v
  <2>4. QED
    BY <2>1, <2>2, <2>3 DEF Servers
<1>3. /\ u.available = s.available /\ u.current = s.current /\ u.xmit = s.xmit
      /\ u.eof = s.eof /\ u.ring = s.ring
      /\ u.state = s.state /\ u.name = f /\ u.open = FALSE
  BY <1>1 DEF Servers
<1>4. t = [u EXCEPT !.lastClientCommand = s.lastClientCommand + 1]
  BY DEF Executed
<1> HIDE DEF u
<1>5. s.lastClientCommand + 1 \in Nat
  BY DEF Servers
<1>6. t \in Servers
  BY <1>2, <1>4, <1>5 DEF Servers
<1>7. QED
  BY <1>2, <1>3, <1>4, <1>6 DEF Servers, Keeps

LEMMA ExecutesStopdl ==
    ASSUME NEW s \in Servers, s.state = "connected",
           NEW t, t = Executed(s, Command("stopdl", 0), s.lastClientCommand + 1)
    PROVE  /\ t \in Servers /\ Keeps(s, t)
           /\ t.state = s.state /\ t.name = 0 /\ t.open = FALSE
<1> DEFINE u == SV_ExecuteClientCommand(s, Command("stopdl", 0))
<1>1. u = [s EXCEPT !.name = 0, !.open = FALSE]
  BY DEF SV_ExecuteClientCommand, Command, SV_CloseDownload
<1>2. u \in Servers
  <2>1. 0 \in 0..FileCount
    BY Sizes
  <2>2. QED
    BY <1>1, <2>1 DEF Servers
<1>3. /\ u.available = s.available /\ u.current = s.current /\ u.xmit = s.xmit
      /\ u.eof = s.eof /\ u.ring = s.ring
      /\ u.state = s.state /\ u.name = 0 /\ u.open = FALSE
  BY <1>1 DEF Servers
<1>4. t = [u EXCEPT !.lastClientCommand = s.lastClientCommand + 1]
  BY DEF Executed
<1> HIDE DEF u
<1>5. s.lastClientCommand + 1 \in Nat
  BY DEF Servers
<1>6. t \in Servers
  BY <1>2, <1>4, <1>5 DEF Servers
<1>7. QED
  BY <1>2, <1>3, <1>4, <1>6 DEF Servers, Keeps

LEMMA ExecutesNextdl ==
    ASSUME NEW s \in Servers, NEW b \in Nat,
           NEW t, t = Executed(s, Command("nextdl", b), s.lastClientCommand + 1)
    PROVE  t \in Servers /\ Keeps(s, t) /\ TakesAck(s, t, b)
<1> DEFINE u == SV_ExecuteClientCommand(s, Command("nextdl", b))
           closed == [s EXCEPT !.name = 0, !.open = FALSE]
<1>1. 0 \in 0..FileCount
  BY Sizes
<1>2. \/ s.state = "dropped" /\ u = s
      \/ s.state = "connected" /\ b # s.clientBlock /\ u = [closed EXCEPT !.state = "dropped"]
      \/ s.state = "connected" /\ b = s.clientBlock /\ Empty(s.ring[Slot(b)]) /\ u = closed
      \/ /\ s.state = "connected" /\ b = s.clientBlock /\ ~Empty(s.ring[Slot(b)])
         /\ u = [s EXCEPT !.clientBlock = s.clientBlock + 1]
  <2>1. CASE s.state = "dropped"
    BY <2>1 DEF SV_ExecuteClientCommand
  <2>2. CASE s.state = "connected"
    <3>1. u = SV_NextDownload(s, b)
      BY <2>2 DEF SV_ExecuteClientCommand, Command
    <3>2. CASE b # s.clientBlock
      BY <2>2, <3>1, <3>2 DEF SV_NextDownload, SV_CloseDownload
    <3>3. CASE b = s.clientBlock /\ Empty(s.ring[Slot(b)])
      BY <2>2, <3>1, <3>3 DEF SV_NextDownload, SV_CloseDownload
    <3>4. CASE b = s.clientBlock /\ ~Empty(s.ring[Slot(b)])
      BY <2>2, <3>1, <3>4 DEF SV_NextDownload
    <3>5. QED
      BY <3>2, <3>3, <3>4
  <2>3. QED
    BY <2>1, <2>2 DEF Servers
<1>3. /\ u \in Servers
      /\ u.available = s.available /\ u.current = s.current /\ u.xmit = s.xmit
      /\ u.eof = s.eof /\ u.ring = s.ring
      /\ TakesAck(s, u, b)
  <2>1. CASE s.state = "dropped" /\ u = s
    BY <2>1 DEF TakesAck
  <2>2. CASE s.state = "connected" /\ b # s.clientBlock /\ u = [closed EXCEPT !.state = "dropped"]
    BY <1>1, <2>2 DEF TakesAck, Servers
  <2>3. CASE s.state = "connected" /\ b = s.clientBlock /\ Empty(s.ring[Slot(b)]) /\ u = closed
    BY <1>1, <2>3 DEF TakesAck, Closes, Servers
  <2>4. CASE /\ s.state = "connected" /\ b = s.clientBlock /\ ~Empty(s.ring[Slot(b)])
             /\ u = [s EXCEPT !.clientBlock = s.clientBlock + 1]
    BY <1>1, <2>4 DEF TakesAck, Advances, Servers
  <2>5. QED
    BY <1>2, <2>1, <2>2, <2>3, <2>4
<1>4. t = [u EXCEPT !.lastClientCommand = s.lastClientCommand + 1]
  BY DEF Executed
<1> HIDE DEF u, closed
<1>5. s.lastClientCommand + 1 \in Nat
  BY DEF Servers
<1>6. t \in Servers
  BY <1>3, <1>4, <1>5 DEF Servers
<1>7. /\ t.available = u.available /\ t.current = u.current /\ t.xmit = u.xmit
      /\ t.eof = u.eof /\ t.ring = u.ring /\ t.lastClientCommand = s.lastClientCommand + 1
      /\ t.state = u.state /\ t.name = u.name /\ t.open = u.open
      /\ t.clientBlock = u.clientBlock
  BY <1>3, <1>4 DEF Servers
<1>8. TakesAck(s, t, b)
  BY <1>3, <1>7 DEF TakesAck, Closes, Advances
<1>9. QED
  BY <1>3, <1>6, <1>7, <1>8 DEF Keeps

LEMMA CommandExecuted ==
    ASSUME NEW c, ClientRight(c), NEW s, ServerRight(s, c),
           s.lastClientCommand + 1 <= Len(c.commands),
           NEW t, t = Executed(s, c.commands[s.lastClientCommand + 1], s.lastClientCommand + 1)
    PROVE  Carried(s, t, c) /\ t.lastClientCommand = s.lastClientCommand + 1
<1>1. /\ c \in Clients /\ s \in Servers /\ PositionRight(s, c) /\ WindowRight(s)
      /\ s.lastClientCommand \in Nat /\ StoredRight(c)
  BY DEF ClientRight, ServerRight, Servers
<1>2. c.file > 1 => Start[c.file - 1] <= s.lastClientCommand
  BY <1>1 DEF PositionRight
<1>3. CASE IsDownload(c, s.lastClientCommand)
  <2>1. s.state = "connected"
    <3>1. CASE c.file = 1
      BY <1>1, <1>3, <3>1 DEF IsDownload, PositionRight
    <3>2. CASE c.file # 1
      <4>1. /\ c.file - 1 \in Recent(c) /\ c.file - 1 # c.file
            /\ Blocks[c.file - 1] + 1 \in 0..Taken(c, c.file - 1)
            /\ s.lastClientCommand = Start[c.file - 1] + (Blocks[c.file - 1] + 1)
        <5>1. c.file > 1 /\ c.file - 1 # c.file
          BY <1>1, <3>2, RecentFiles
        <5>2. /\ c.file - 1 \in Recent(c) /\ Taken(c, c.file - 1) = Blocks[c.file - 1] + 1
              /\ Blocks[c.file - 1] \in Nat /\ Start[c.file - 1] \in Nat
          BY <1>1, <5>1, RecentFiles
        <5>3. QED
          BY <1>3, <5>1, <5>2 DEF IsDownload
      <4>2. AtBlock(s, c, c.file - 1, Blocks[c.file - 1] + 1)
        BY <1>1, <4>1 DEF PositionRight
      <4>3. QED
        BY <4>1, <4>2 DEF AtBlock, InStepAt
    <3>3. QED
      BY <3>1, <3>2
  <2>2. /\ c.file \in 1..FileCount
        /\ t = Executed(s, Command("download", c.file), s.lastClientCommand + 1)
    BY <1>1, <1>3, RecentFiles DEF IsDownload
  <2>3. /\ t \in Servers /\ Keeps(s, t)
        /\ t.state = s.state /\ t.name = c.file /\ t.open = FALSE
    BY <1>1, <2>1, <2>2, ExecutesDownload
  <2>4. Carried(s, t, c)
    BY <1>3, <2>3, DownloadExecuted
  <2>5. QED
    BY <2>3, <2>4 DEF Keeps
<1>4. ASSUME NEW f \in Recent(c), NEW b \in 0..(Taken(c, f) - 1),
             IsNextdl(c, s.lastClientCommand, f, b)
      PROVE  Carried(s, t, c) /\ t.lastClientCommand = s.lastClientCommand + 1
  <2>1. b \in Nat /\ t = Executed(s, Command("nextdl", b), s.lastClientCommand + 1)
    BY <1>1, <1>4, RecentFiles DEF IsNextdl
  <2>2. t \in Servers /\ Keeps(s, t) /\ TakesAck(s, t, b)
    BY <1>1, <2>1, ExecutesNextdl
  <2>3. s.lastClientCommand = Start[f] + b
    BY <1>4 DEF IsNextdl
  <2>4. CASE f = c.file /\ Confused(c)
    <3>1. b \in 0..(c.block - 1)
      BY <1>1, <2>4, RecentFiles
    <3>2. Carried(s, t, c)
      BY <2>2, <2>3, <2>4, <3>1, ConfusedAck
    <3>3. QED
      BY <2>2, <3>2 DEF Keeps
  <2>5. CASE ~(f = c.file /\ Confused(c))
    <3>1. Carried(s, t, c)
      BY <2>2, <2>3, <2>5, InStepAck
    <3>2. QED
      BY <2>2, <3>1 DEF Keeps
  <2>6. QED
    BY <2>4, <2>5
<1>5. CASE IsStopdl(c, s.lastClientCommand)
  <2>1. c.state = "complete" /\ s.lastClientCommand >= Start[c.file] + c.block
    BY <1>5 DEF IsStopdl
  <2>2. s.state = "connected"
    <3>1. CASE s.lastClientCommand = Start[c.file] + c.block
      <4>1. c.file \in Recent(c) /\ c.block \in 0..Taken(c, c.file)
        BY <1>1, RecentFiles
      <4>2. AtBlock(s, c, c.file, c.block) /\ ~Confused(c)
        BY <1>1, <2>1, <3>1, <4>1 DEF PositionRight, StoredRight
      <4>3. QED
        BY <4>2 DEF AtBlock, InStepAt
    <3>2. CASE s.lastClientCommand > Start[c.file] + c.block
      BY <1>1, <3>2 DEF PositionRight
    <3>3. Start[c.file] \in Nat /\ c.block \in Nat
      BY <1>1, RecentFiles
    <3>4. QED
      BY <1>1, <2>1, <3>1, <3>2, <3>3
  <2>3. t = Executed(s, Command("stopdl", 0), s.lastClientCommand + 1)
    BY <1>5 DEF IsStopdl
  <2>4. /\ t \in Servers /\ Keeps(s, t)
        /\ t.state = s.state /\ t.name = 0 /\ t.open = FALSE
    BY <1>1, <2>2, <2>3, ExecutesStopdl
  <2>5. Carried(s, t, c)
    BY <1>5, <2>4, StopExecuted
  <2>6. QED
    BY <2>4, <2>5 DEF Keeps
<1>6. QED
  BY <1>1, <1>2, <1>3, <1>4, <1>5, NextCommand

\* A packet brings several commands.
LEMMA CommandsExecuted ==
    ASSUME ClientRight(cl), ServerRight(sv, cl), MessagesRight(sv, cl, toClient),
           NEW last \in Nat, last <= Len(cl.commands)
    PROVE  /\ ServerRight(AfterCommands(last), cl)
           /\ MessagesRight(AfterCommands(last), cl, toClient)
<1> DEFINE n0 == sv.lastClientCommand
           Good(s, k) == /\ s \in Servers /\ ServerRight(s, cl) /\ MessagesRight(s, cl, toClient)
                         /\ k <= n0 => s = sv
                         /\ k > n0 => s.lastClientCommand = k
           Body(u) == [k \in 0..last |-> IF k <= n0 THEN sv
                                         ELSE Executed(u[k - 1], cl.commands[k], k)]
           next == [k \in Nat |-> [s \in Servers |->
                       IF k > n0 /\ k <= last /\ Good(s, k - 1)
                       THEN Executed(s, cl.commands[k], k)
                       ELSE sv]]
<1>1. n0 \in Nat /\ sv \in Servers
  BY DEF ServerRight, Servers
<1>2. \A k \in Nat : k <= n0 => Good(sv, k)
  BY <1>1
<1>3. ASSUME NEW k \in 1..last, k > n0, NEW s, Good(s, k - 1)
      PROVE  Good(Executed(s, cl.commands[k], k), k)
  <2> DEFINE t == Executed(s, cl.commands[k], k)
  <2>1. s.lastClientCommand = k - 1 /\ s.lastClientCommand + 1 = k
    BY <1>1, <1>3
  <2>2. s.lastClientCommand + 1 <= Len(cl.commands)
    <3>1. Len(cl.commands) \in Nat
      BY DEF ClientRight, Clients
    <3>2. QED
      BY <2>1, <3>1
  <2>3. t = Executed(s, cl.commands[s.lastClientCommand + 1], s.lastClientCommand + 1)
    BY <2>1
  <2>4. ServerRight(s, cl) /\ MessagesRight(s, cl, toClient)
    BY <1>3
  <2> HIDE DEF t
  <2>5. Carried(s, t, cl) /\ t.lastClientCommand = s.lastClientCommand + 1
    BY <2>2, <2>3, <2>4, CommandExecuted
  <2>6. ServerRight(t, cl) /\ MessagesRight(t, cl, toClient) /\ t \in Servers
    BY <2>4, <2>5 DEF Carried, ServerRight
  <2>7. Good(t, k)
    BY <1>1, <1>3, <2>1, <2>5, <2>6
  <2>8. QED
    BY <2>7 DEF t
<1>4. next \in [Nat -> [Servers -> Servers]]
  <2>1. ASSUME NEW k \in Nat, NEW s \in Servers, k > n0, k <= last, Good(s, k - 1)
        PROVE  Executed(s, cl.commands[k], k) \in Servers
    <3>1. k \in 1..last
      BY <1>1, <2>1
    <3>2. Good(Executed(s, cl.commands[k], k), k)
      BY <1>3, <2>1, <3>1
    <3>3. QED
      BY <3>2
  <2> HIDE DEF Good, n0
  <2>2. QED
    BY <1>1, <2>1
<1>5. PICK u \in [0..last -> Servers] : Iteration(u, sv, next, last)
  <2> HIDE DEF next
  <2>1. QED
    BY <1>1, <1>4, Iterates, Zenon
<1> HIDE DEF Good, n0
<1> DEFINE G == {k \in Nat : k \in 0..last => Good(u[k], k)}
<1>6. ASSUME NEW k \in 1..last
      PROVE  /\ k - 1 \in Nat /\ k - 1 \in 0..last /\ k \in Nat /\ k \in 0..last
             /\ u[k - 1] \in Servers
             /\ k > n0 /\ Good(u[k - 1], k - 1) => u[k] = Executed(u[k - 1], cl.commands[k], k)
             /\ k <= n0 => u[k] = sv
  <2>1. /\ k - 1 \in Nat /\ k - 1 \in 0..last /\ k \in Nat /\ k \in 0..last
        /\ u[k - 1] \in Servers
    OBVIOUS
  <2>2. u[k] = next[k][u[k - 1]]
    BY <1>5 DEF Iteration
  <2>3. QED
    BY <1>1, <2>1, <2>2
<1>7. \A k \in 0..last : k \in G
  <2>1. 0 \in G
    BY <1>1, <1>2, <1>5 DEF Iteration
  <2>2. ASSUME NEW k \in 1..last, k - 1 \in G PROVE k \in G
    <3>1. Good(u[k - 1], k - 1)
      BY <1>6, <2>2
    <3>2. CASE k <= n0
      BY <1>2, <1>6, <3>2
    <3>3. CASE k > n0
      BY <1>3, <1>6, <3>1, <3>3
    <3>4. QED
      BY <1>1, <3>2, <3>3
  <2> HIDE DEF G
  <2>3. QED
    BY <2>1, <2>2, Upwards
<1>8. u = Body(u)
  <2>1. ASSUME NEW k \in 0..last
        PROVE  u[k] = IF k <= n0 THEN sv ELSE Executed(u[k - 1], cl.commands[k], k)
    <3>1. CASE k = 0
      BY <1>1, <1>5, <3>1 DEF Iteration
    <3>2. CASE k # 0
      <4>1. k \in 1..last
        BY <3>2
      <4>2. Good(u[k - 1], k - 1)
        BY <1>6, <1>7, <4>1
      <4>3. QED
        BY <1>1, <1>6, <4>1, <4>2
    <3>3. QED
      BY <3>1, <3>2
  <2>2. QED
    BY <2>1
<1> DEFINE executed == CHOOSE v : v = Body(v)
<1>9. AfterCommands(last) = executed[last]
  BY Zenon DEF AfterCommands, Executed, n0
<1>10. executed = Body(executed)
  <2> HIDE DEF Body
  <2>1. QED
    BY <1>8
<1> HIDE DEF executed
<1> DEFINE H == {k \in Nat : k \in 0..last => Good(executed[k], k)}
<1>11. \A k \in 0..last : k \in H
  <2>1. 0 \in H
    BY <1>1, <1>2, <1>10
  <2>2. ASSUME NEW k \in 1..last, k - 1 \in H PROVE k \in H
    <3>1. Good(executed[k - 1], k - 1)
      BY <2>2
    <3>2. CASE k <= n0
      BY <1>2, <1>10, <3>2
    <3>3. CASE k > n0
      <4>1. executed[k] = Executed(executed[k - 1], cl.commands[k], k)
        BY <1>1, <1>10, <3>3
      <4>2. QED
        BY <1>3, <3>1, <3>3, <4>1
    <3>4. QED
      BY <1>1, <3>2, <3>3
  <2> HIDE DEF H
  <2>3. QED
    BY <2>1, <2>2, Upwards
<1>12. Good(executed[last], last)
  BY <1>11
<1>13. QED
  BY <1>9, <1>12 DEF Good

-----------------------------------------------------------------------------
\* Lemmas: the server fills its window.

\* An open window, which may not be full.
Filled(s) ==
    /\ s.clientBlock <= s.current /\ s.current <= s.clientBlock + DownloadWindow
    /\ s.eof => s.current = Blocks[s.name] + 1 /\ s.clientBlock <= Blocks[s.name]
    /\ ~s.eof => s.current <= Blocks[s.name]
    /\ \A k \in s.clientBlock..(s.current - 1) : s.ring[Slot(k)] = Data(s.name, k)
    /\ \A k \in 0..(s.current - 1) : s.ring[Slot(k)].file = s.name

\* What filling leaves alone.
SameBut(s, t) ==
    /\ t.state = s.state /\ t.available = s.available /\ t.name = s.name /\ t.open = s.open
    /\ t.clientBlock = s.clientBlock /\ t.xmit = s.xmit
    /\ t.lastClientCommand = s.lastClientCommand

\* How far the server reads.
ReadEnd(s) == IF WindowEnd(s) < Blocks[s.name] THEN WindowEnd(s) ELSE Blocks[s.name]

\* The blocks read into a slot: at most one.
ReadInto(s, slot) == {k \in s.current..(ReadEnd(s) - 1) : Slot(k) = slot}

\* A ring, from its slots.
LEMMA RingOf ==
    ASSUME NEW R, NEW ring, ring = [slot \in Slots |-> ring[slot]],
           \A slot \in Slots : ring[slot] \in R
    PROVE  ring \in [Slots -> R]
OBVIOUS

\* Reading ahead leaves the blocks that wait, and gives each slot its block.
LEMMA ReadAheadRing ==
    ASSUME NEW s \in Servers, s.name \in 1..FileCount, Filled(s),
           NEW ring, ring = [slot \in Slots |->
               IF ReadInto(s, slot) = {} THEN s.ring[slot]
               ELSE Data(s.name, CHOOSE k \in ReadInto(s, slot) : \A j \in ReadInto(s, slot) : j <= k)],
           NEW current, current = IF ReadEnd(s) > s.current THEN ReadEnd(s) ELSE s.current
    PROVE  /\ ring \in [Slots -> Contents]
           /\ \A k \in s.clientBlock..(current - 1) : ring[Slot(k)] = Data(s.name, k)
           /\ \A k \in 0..(current - 1) : ring[Slot(k)].file = s.name
<1>1. /\ s.current \in Nat /\ s.clientBlock \in Nat /\ Blocks[s.name] \in Nat
      /\ DownloadWindow \in Nat /\ DownloadWindow >= 1
      /\ s.ring \in [Slots -> Contents]
      /\ s.clientBlock <= s.current
  BY Sizes DEF Servers, Filled
<1>2. ReadEnd(s) \in Nat /\ ReadEnd(s) <= s.clientBlock + DownloadWindow
  BY <1>1 DEF ReadEnd, WindowEnd
<1>3. ASSUME NEW k \in s.current..(ReadEnd(s) - 1)
      PROVE  /\ k \in Nat /\ Slot(k) \in Slots /\ ReadInto(s, Slot(k)) = {k}
             /\ ring[Slot(k)] = Data(s.name, k)
  <2>1. k \in Nat /\ Slot(k) \in Slots
    BY <1>1, <1>2, SlotType
  <2>2. ASSUME NEW j \in s.current..(ReadEnd(s) - 1), Slot(j) = Slot(k) PROVE j = k
    <3>1. j \in Nat /\ j < k + DownloadWindow /\ k < j + DownloadWindow
      BY <1>1, <1>2
    <3>2. QED
      BY <2>1, <2>2, <3>1, SlotsApart
  <2>3. ReadInto(s, Slot(k)) = {k}
    BY <2>2 DEF ReadInto
  <2>4. (CHOOSE i \in {k} : \A j \in {k} : j <= i) = k
    BY <2>1
  <2>5. QED
    BY <2>1, <2>3, <2>4
<1>4. ASSUME NEW slot \in Slots, ReadInto(s, slot) = {} PROVE ring[slot] = s.ring[slot]
  BY <1>4
<1>5. ASSUME NEW slot \in Slots, ReadInto(s, slot) # {}
      PROVE  \E k \in s.current..(ReadEnd(s) - 1) : slot = Slot(k)
  BY <1>5 DEF ReadInto
<1>6. \A k \in Nat : Data(s.name, k) \in Contents
  BY Sizes DEF Data, Contents
<1>7. ring \in [Slots -> Contents]
  <2>1. ASSUME NEW slot \in Slots PROVE ring[slot] \in Contents
    <3>1. CASE ReadInto(s, slot) = {}
      <4>1. ring[slot] = s.ring[slot] /\ s.ring[slot] \in Contents
        BY <1>1, <1>4, <3>1
      <4>2. QED
        BY <4>1, Zenon
    <3>2. CASE ReadInto(s, slot) # {}
      <4>1. PICK k \in s.current..(ReadEnd(s) - 1) : slot = Slot(k)
        BY <1>5, <3>2
      <4>2. k \in Nat /\ ring[slot] = Data(s.name, k)
        BY <1>3, <4>1
      <4>3. QED
        BY <1>6, <4>2, Zenon
    <3>3. QED
      BY <3>1, <3>2
  <2>2. DOMAIN ring = Slots /\ ring = [slot \in Slots |-> ring[slot]]
    OBVIOUS
  <2>3. QED
    BY <2>1, <2>2, RingOf, Zenon
<1>8. ASSUME NEW k \in s.clientBlock..(current - 1) PROVE ring[Slot(k)] = Data(s.name, k)
  <2>1. CASE k >= s.current
    <3>1. k \in s.current..(ReadEnd(s) - 1)
      BY <1>1, <1>2, <2>1
    <3>2. QED
      BY <1>3, <3>1
  <2>2. CASE k < s.current
    <3>1. k \in Nat /\ k \in s.clientBlock..(s.current - 1)
      BY <1>1, <2>2
    <3>2. ASSUME NEW j \in s.current..(ReadEnd(s) - 1) PROVE Slot(j) # Slot(k)
      <4>1. j \in Nat /\ j # k /\ j < k + DownloadWindow /\ k < j + DownloadWindow
        BY <1>1, <1>2, <2>2, <3>1
      <4>2. QED
        BY <3>1, <4>1, SlotsApart
    <3>3. ReadInto(s, Slot(k)) = {} /\ Slot(k) \in Slots
      BY <3>1, <3>2, SlotType DEF ReadInto
    <3>4. QED
      BY <1>4, <3>1, <3>3 DEF Filled
  <2>3. QED
    BY <1>1, <2>1, <2>2
<1>9. ASSUME NEW k \in 0..(current - 1) PROVE ring[Slot(k)].file = s.name
  <2>1. k \in Nat /\ Slot(k) \in Slots
    BY <1>1, <1>2, SlotType
  <2>2. CASE ReadInto(s, Slot(k)) = {}
    <3>1. k < s.current
      <4>1. SUFFICES ASSUME k >= s.current PROVE FALSE
        BY <1>1, <2>1
      <4>2. k \in s.current..(ReadEnd(s) - 1)
        BY <1>1, <1>2, <2>1, <4>1
      <4>3. QED
        BY <2>2, <4>2 DEF ReadInto
    <3>2. k \in 0..(s.current - 1)
      BY <1>1, <2>1, <3>1
    <3>3. QED
      BY <1>4, <2>1, <2>2, <3>2 DEF Filled
  <2>3. CASE ReadInto(s, Slot(k)) # {}
    <3>1. PICK j \in s.current..(ReadEnd(s) - 1) : Slot(k) = Slot(j)
      BY <1>5, <2>1, <2>3
    <3>2. ring[Slot(k)] = Data(s.name, j)
      BY <1>3, <3>1
    <3>3. QED
      BY <3>2 DEF Data
  <2>4. QED
    BY <2>2, <2>3
<1>10. QED
  BY <1>7, <1>8, <1>9

LEMMA ReadAheadRight ==
    ASSUME NEW s \in Servers, s.name \in 1..FileCount, Filled(s),
           NEW t, t = ReadAhead(s)
    PROVE  /\ t \in Servers /\ Filled(t) /\ SameBut(s, t) /\ t.eof = s.eof
           /\ s.current <= t.current /\ ReadEnd(s) <= t.current
<1> DEFINE end == ReadEnd(s)
           current == IF end > s.current THEN end ELSE s.current
           ring == [slot \in Slots |->
               IF ReadInto(s, slot) = {} THEN s.ring[slot]
               ELSE Data(s.name, CHOOSE k \in ReadInto(s, slot) : \A j \in ReadInto(s, slot) : j <= k)]
<1>1. /\ s.current \in Nat /\ s.clientBlock \in Nat /\ Blocks[s.name] \in Nat
      /\ DownloadWindow \in Nat
  BY Sizes DEF Servers
<1>2. end \in Nat /\ end <= s.clientBlock + DownloadWindow /\ end <= Blocks[s.name]
  BY <1>1 DEF ReadEnd, WindowEnd
<1>3. /\ ring \in [Slots -> Contents]
      /\ \A k \in s.clientBlock..(current - 1) : ring[Slot(k)] = Data(s.name, k)
      /\ \A k \in 0..(current - 1) : ring[Slot(k)].file = s.name
  BY ReadAheadRing
<1>4. t = [s EXCEPT !.current = current, !.ring = ring]
  BY Zenon DEF ReadAhead, ReadEnd, ReadInto
<1> HIDE DEF ring
<1>5. current \in Nat /\ s.current <= current /\ end <= current
  BY <1>1, <1>2
<1> HIDE DEF current, end
<1>6. t \in Servers
  BY <1>3, <1>4, <1>5 DEF Servers
<1>7. t.current = current /\ t.ring = ring /\ SameBut(s, t) /\ t.eof = s.eof
  BY <1>4 DEF Servers, SameBut
<1>8. /\ t.clientBlock <= t.current /\ t.current <= t.clientBlock + DownloadWindow
      /\ t.eof => t.current = Blocks[t.name] + 1 /\ t.clientBlock <= Blocks[t.name]
      /\ ~t.eof => t.current <= Blocks[t.name]
  BY <1>1, <1>2, <1>7 DEF Filled, SameBut, current
<1>9. /\ \A k \in t.clientBlock..(t.current - 1) : t.ring[Slot(k)] = Data(t.name, k)
      /\ \A k \in 0..(t.current - 1) : t.ring[Slot(k)].file = t.name
  BY <1>3, <1>7 DEF SameBut
<1>10. QED
  BY <1>5, <1>6, <1>7, <1>8, <1>9 DEF Filled, end

LEMMA AddEndOfFileRight ==
    ASSUME NEW s \in Servers, s.name \in 1..FileCount, Filled(s), ReadEnd(s) <= s.current,
           NEW t, t = AddEndOfFile(s)
    PROVE  /\ t \in Servers /\ Filled(t) /\ SameBut(s, t)
           /\ s.current <= t.current
           /\ t.eof \/ DownloadWindow <= t.current
<1> DEFINE file == s.name
<1>1. /\ s.current \in Nat /\ s.clientBlock \in Nat /\ Blocks[file] \in Nat
      /\ DownloadWindow \in Nat /\ s.ring \in [Slots -> Contents] /\ s.eof \in BOOLEAN
  BY Sizes DEF Servers
<1>2. CASE ~EndOfFile(s)
  <2>1. t = s
    BY <1>2 DEF AddEndOfFile
  <2>2. s.eof \/ DownloadWindow <= s.current
    <3>1. SUFFICES ASSUME ~s.eof PROVE DownloadWindow <= s.current
      OBVIOUS
    <3>2. s.current <= Blocks[file]
      BY <3>1 DEF Filled
    <3>3. s.current < Blocks[file] \/ s.current >= s.clientBlock + DownloadWindow
      BY <1>1, <1>2, <3>1 DEF EndOfFile, WindowEnd
    <3>4. QED
      BY <1>1, <3>2, <3>3 DEF ReadEnd, WindowEnd
  <2>3. QED
    BY <1>1, <2>1, <2>2 DEF SameBut
<1>3. CASE EndOfFile(s)
  <2> DEFINE new == Data(file, Blocks[file])
             ring == [s.ring EXCEPT ![Slot(s.current)] = new]
             current == s.current + 1
  <2>1. t = [s EXCEPT !.ring = ring, !.current = current, !.eof = TRUE]
    BY <1>3 DEF AddEndOfFile
  <2>2. Slot(s.current) \in Slots /\ new \in Contents
    BY <1>1, SlotType, Sizes DEF Data, Contents
  <2>3. ring \in [Slots -> Contents] /\ current \in Nat
    BY <1>1, <2>2
  <2>4. ~s.eof /\ s.current >= Blocks[file] /\ s.current < s.clientBlock + DownloadWindow
    BY <1>3 DEF EndOfFile, WindowEnd
  <2>5. s.current = Blocks[file] /\ s.clientBlock <= s.current
    BY <1>1, <2>4 DEF Filled
  <2>6. ring[Slot(s.current)] = Data(file, s.current)
    BY <1>1, <2>2, <2>5
  <2>7. ASSUME NEW k \in s.clientBlock..s.current PROVE ring[Slot(k)] = Data(file, k)
    <3>1. CASE k = s.current
      BY <2>6, <3>1
    <3>2. CASE k # s.current
      <4>1. k \in Nat /\ k \in s.clientBlock..(s.current - 1)
        BY <1>1, <3>2
      <4>2. Slot(k) # Slot(s.current) /\ Slot(k) \in Slots
        BY <1>1, <2>4, <4>1, SlotsApart, SlotType
      <4>3. s.ring[Slot(k)] = Data(file, k)
        BY <4>1 DEF Filled
      <4>4. QED
        BY <1>1, <4>2, <4>3
    <3>3. QED
      BY <3>1, <3>2
  <2>8. ASSUME NEW k \in 0..s.current PROVE ring[Slot(k)].file = file
    <3>1. Slot(k) \in Slots
      BY <1>1, SlotType
    <3>2. CASE Slot(k) = Slot(s.current)
      BY <2>6, <3>2 DEF Data
    <3>3. CASE Slot(k) # Slot(s.current)
      <4>1. k \in 0..(s.current - 1)
        BY <1>1, <3>3
      <4>2. s.ring[Slot(k)].file = file
        BY <4>1 DEF Filled
      <4>3. QED
        BY <1>1, <3>1, <3>3, <4>2
    <3>4. QED
      BY <3>2, <3>3
  <2> HIDE DEF ring, current
  <2>9. t \in Servers
    BY <2>1, <2>3 DEF Servers
  <2>10. t.ring = ring /\ t.current = current /\ t.eof = TRUE /\ SameBut(s, t)
    BY <2>1 DEF Servers, SameBut
  <2>11. /\ t.clientBlock <= t.current /\ t.current <= t.clientBlock + DownloadWindow
         /\ t.current = Blocks[t.name] + 1 /\ t.clientBlock <= Blocks[t.name]
         /\ s.current <= t.current
    BY <1>1, <2>4, <2>5, <2>10 DEF SameBut, current
  <2>12. /\ \A k \in t.clientBlock..(t.current - 1) : t.ring[Slot(k)] = Data(t.name, k)
         /\ \A k \in 0..(t.current - 1) : t.ring[Slot(k)].file = t.name
    <3>1. t.current - 1 = s.current
      BY <1>1, <2>10 DEF current
    <3>2. QED
      BY <2>7, <2>8, <2>10, <3>1 DEF SameBut
  <2>13. QED
    BY <2>9, <2>10, <2>11, <2>12 DEF Filled
<1>4. QED
  BY <1>2, <1>3

\* The window as SV_WriteDownloadToClient sends from it.
LEMMA WindowFilled ==
    ASSUME NEW s \in Servers, WindowRight(s), s.state = "connected", s.name # 0,
           s.open \/ s.name \in s.available,
           NEW w, w = Window(s)
    PROVE  /\ w \in Servers /\ Filled(w)
           /\ w.state = s.state /\ w.available = s.available /\ w.name = s.name
           /\ w.lastClientCommand = s.lastClientCommand
           /\ w.open = TRUE /\ w.name \in w.available /\ w.xmit <= w.current
           /\ w.eof \/ DownloadWindow <= w.current
           /\ s.open => /\ w.clientBlock = s.clientBlock /\ w.xmit = s.xmit
                        /\ s.current <= w.current
           /\ ~s.open => w.clientBlock = 0 /\ w.xmit = 0 /\ w.current >= 1
<1> DEFINE o == Opened(s)
           r == ReadAhead(o)
<1>1. /\ o \in Servers /\ Filled(o)
      /\ o.state = s.state /\ o.available = s.available /\ o.name = s.name
      /\ o.lastClientCommand = s.lastClientCommand
      /\ o.open = TRUE /\ o.xmit <= o.current
      /\ s.open => /\ o.clientBlock = s.clientBlock /\ o.xmit = s.xmit
                   /\ s.current = o.current
      /\ ~s.open => o.clientBlock = 0 /\ o.xmit = 0
  <2>1. CASE s.open
    <3>1. o = s
      BY <2>1 DEF Opened
    <3>2. s.xmit <= s.current /\ Filled(s)
      BY <2>1 DEF WindowRight, Filled
    <3>3. s.open = TRUE
      BY <2>1 DEF Servers
    <3>4. QED
      BY <2>1, <3>1, <3>2, <3>3
  <2>2. CASE ~s.open
    <3>1. o = [s EXCEPT !.open = TRUE, !.current = 0, !.clientBlock = 0, !.xmit = 0, !.eof = FALSE]
      BY <2>2 DEF Opened
    <3>2. o \in Servers
      <4>1. 0 \in Nat /\ TRUE \in BOOLEAN /\ FALSE \in BOOLEAN
        OBVIOUS
      <4> HIDE DEF o
      <4>2. QED
        BY <3>1, <4>1 DEF Servers
    <3>3. /\ o.state = s.state /\ o.available = s.available /\ o.name = s.name
          /\ o.lastClientCommand = s.lastClientCommand
          /\ o.open = TRUE /\ o.current = 0 /\ o.clientBlock = 0 /\ o.xmit = 0 /\ o.eof = FALSE
      BY <3>1 DEF Servers
    <3>4. Blocks[s.name] \in Nat /\ DownloadWindow \in Nat
      BY Sizes DEF Servers
    <3>5. Filled(o)
      <4> HIDE DEF o
      <4>1. QED
        BY <3>3, <3>4 DEF Filled
    <3>6. QED
      BY <2>2, <3>2, <3>3, <3>5
  <2>3. QED
    BY <2>1, <2>2
<1>2. s.name \in 1..FileCount
  BY Sizes DEF Servers
<1>3. w = AddEndOfFile(r)
  BY DEF Window
<1> HIDE DEF o, r
<1>4. /\ r \in Servers /\ Filled(r) /\ SameBut(o, r) /\ r.eof = o.eof
      /\ o.current <= r.current /\ ReadEnd(o) <= r.current
  BY <1>1, <1>2, ReadAheadRight DEF r
<1>5. r.name = s.name /\ ReadEnd(r) = ReadEnd(o)
  BY <1>1, <1>4 DEF SameBut, ReadEnd, WindowEnd
<1>6. /\ w \in Servers /\ Filled(w) /\ SameBut(r, w)
      /\ r.current <= w.current
      /\ w.eof \/ DownloadWindow <= w.current
  BY <1>2, <1>3, <1>4, <1>5, AddEndOfFileRight
<1>7. /\ o.current \in Nat /\ r.current \in Nat /\ w.current \in Nat /\ o.xmit \in Nat
      /\ Blocks[s.name] \in Nat /\ Blocks[s.name] >= 1 /\ s.open \in BOOLEAN
      /\ DownloadWindow \in Nat /\ DownloadWindow >= 1 /\ o.clientBlock \in Nat
  BY <1>1, <1>2, <1>4, <1>6, Sizes DEF Servers
<1>8. SameBut(o, w) /\ o.current <= w.current /\ o.xmit <= w.current
  BY <1>1, <1>4, <1>6, <1>7 DEF SameBut
<1>9. ~s.open => w.current >= 1
  <2>1. SUFFICES ASSUME ~s.open PROVE w.current >= 1
    OBVIOUS
  <2>2. o.clientBlock = 0
    BY <1>1, <2>1
  <2>3. ReadEnd(o) \in Nat /\ ReadEnd(o) >= 1
    BY <1>1, <1>7, <2>2 DEF ReadEnd, WindowEnd
  <2>4. QED
    BY <1>4, <1>6, <1>7, <2>3
<1>10. w.name \in w.available
  <2>1. s.name \in s.available
    BY DEF WindowRight
  <2>2. QED
    BY <1>1, <1>8, <2>1 DEF SameBut
<1>11. QED
  BY <1>1, <1>6, <1>7, <1>8, <1>9, <1>10 DEF SameBut

-----------------------------------------------------------------------------
\* Lemmas: channels.

\* new is the channel with the message at the end, and perhaps without its first.
PostedTo(M, channel, message, new) ==
    /\ new \in Seq(M) /\ Len(new) \in 1..MaxInFlight
    /\ new[Len(new)] = message
    /\ \E d \in {0, 1} :
         /\ Len(new) = Len(channel) - d + 1
         /\ \A i \in 1..(Len(channel) - d) : new[i] = channel[i + d]

LEMMA Posted ==
    ASSUME NEW M, NEW channel \in Seq(M), NEW message \in M, Len(channel) <= MaxInFlight
    PROVE  PostedTo(M, channel, message, Post(channel, message))
<1>1. MaxInFlight \in Nat /\ MaxInFlight >= 1
  BY Sizes
<1>2. CASE Len(channel) < MaxInFlight
  <2>1. Post(channel, message) = Append(channel, message)
    BY <1>2 DEF Post
  <2>2. QED
    BY <1>1, <1>2, <2>1, AppendProperties DEF PostedTo
<1>3. CASE ~(Len(channel) < MaxInFlight)
  <2>1. channel # <<>> /\ Len(channel) = MaxInFlight
    BY <1>1, <1>3
  <2>2. /\ Tail(channel) \in Seq(M) /\ Len(Tail(channel)) = Len(channel) - 1
        /\ \A i \in 1..(Len(channel) - 1) : Tail(channel)[i] = channel[i + 1]
    BY <2>1, HeadTailProperties
  <2>3. Post(channel, message) = Append(Tail(channel), message)
    BY <1>3 DEF Post
  <2>4. QED
    BY <1>1, <2>1, <2>2, <2>3, AppendProperties DEF PostedTo
<1>4. QED
  BY <1>2, <1>3

\* Reception gives up a prefix.
LEMMA Overtaken ==
    ASSUME NEW M, NEW channel \in Seq(M), NEW i \in 1..Len(channel),
           NEW rest, rest = SubSeq(channel, i + 1, Len(channel))
    PROVE  /\ rest \in Seq(M)
           /\ Len(rest) = Len(channel) - i
           /\ \A j \in 1..Len(rest) : rest[j] = channel[i + j]
  BY SubSeqProperties

LEMMA PacketPosted ==
    ASSUME NEW c, PacketsRight(c, toServer), c.commands \in Seq(Commands)
    PROVE  PacketsRight(c, Post(toServer, Len(c.commands)))
<1> DEFINE n == Len(c.commands)
           new == Post(toServer, n)
<1>1. n \in Nat /\ toServer \in Seq(Nat) /\ Len(toServer) <= MaxInFlight
  BY DEF PacketsRight
<1>2. PostedTo(Nat, toServer, n, new)
  <2> HIDE DEF n
  <2>1. QED
    BY <1>1, Posted
<1> HIDE DEF n, new
<1>3. PICK d \in {0, 1} :
         /\ Len(new) = Len(toServer) - d + 1
         /\ \A i \in 1..(Len(toServer) - d) : new[i] = toServer[i + d]
  BY <1>2 DEF PostedTo
<1>4. ASSUME NEW i \in 1..Len(new) PROVE new[i] <= n
  <2>1. CASE i = Len(new)
    BY <1>1, <1>2, <2>1 DEF PostedTo
  <2>2. CASE i # Len(new)
    <3>1. i \in 1..(Len(toServer) - d) /\ i + d \in 1..Len(toServer)
      BY <1>1, <1>3, <2>2
    <3>2. QED
      BY <1>3, <3>1 DEF PacketsRight, n
  <2>3. QED
    BY <2>1, <2>2
<1>5. MaxInFlight \in Nat
  BY Sizes
<1>6. new \in Seq(Nat) /\ Len(new) <= MaxInFlight
  BY <1>2, <1>5 DEF PostedTo
<1>7. PacketsRight(c, new)
  BY <1>4, <1>6 DEF PacketsRight, n
<1>8. QED
  BY <1>7 DEF new, n

\* A block is put on the way, with the number it was sent under.
LEMMA NumbersPosted ==
    ASSUME NEW s, NEW c, NEW messages \in Seq(BlockMessages), Len(messages) <= MaxInFlight,
           NEW N \in [1..Len(messages) -> Nat], NumbersRight(s, c, messages, N),
           NEW m \in BlockMessages, NEW x \in Nat,
           ~m.refused =>
              /\ MessageRight(s, c, m, x)
              /\ \A i \in 1..Len(messages) :
                    ~messages[i].refused => PairRight(messages[i], N[i], m, x)
    PROVE  \E P \in [1..Len(Post(messages, m)) -> Nat] : NumbersRight(s, c, Post(messages, m), P)
<1> DEFINE new == Post(messages, m)
<1>1. PostedTo(BlockMessages, messages, m, new)
  BY Posted, Zenon
<1> HIDE DEF new
<1>2. PICK d \in {0, 1} :
         /\ Len(new) = Len(messages) - d + 1
         /\ \A i \in 1..(Len(messages) - d) : new[i] = messages[i + d]
  BY <1>1 DEF PostedTo
<1>3. new \in Seq(BlockMessages) /\ new[Len(new)] = m
  BY <1>1 DEF PostedTo
<1>4. Len(new) \in Nat /\ Len(messages) \in Nat
  BY <1>3
<1>5. ASSUME NEW i \in 1..Len(new), i # Len(new)
      PROVE  i + d \in 1..Len(messages) /\ new[i] = messages[i + d]
  <2>1. i \in 1..(Len(messages) - d) /\ i + d \in 1..Len(messages)
    BY <1>2, <1>4, <1>5
  <2>2. QED
    BY <1>2, <2>1
<1> DEFINE P == [i \in 1..Len(new) |-> IF i = Len(new) THEN x ELSE N[i + d]]
<1>6. P \in [1..Len(new) -> Nat]
  <2>1. ASSUME NEW i \in 1..Len(new) PROVE (IF i = Len(new) THEN x ELSE N[i + d]) \in Nat
    BY <1>5
  <2>2. QED
    BY <2>1
<1>7. \A i \in 1..Len(new) : P[i] = IF i = Len(new) THEN x ELSE N[i + d]
  OBVIOUS
<1> HIDE DEF P
<1>8. ASSUME NEW i \in 1..Len(new), ~new[i].refused
      PROVE  MessageRight(s, c, new[i], P[i])
  <2>1. CASE i = Len(new)
    <3>1. new[i] = m /\ P[i] = x
      BY <1>3, <1>7, <2>1
    <3>2. QED
      BY <1>8, <3>1
  <2>2. CASE i # Len(new)
    <3>1. i + d \in 1..Len(messages) /\ new[i] = messages[i + d] /\ P[i] = N[i + d]
      BY <1>5, <1>7, <2>2
    <3>2. QED
      BY <1>8, <3>1 DEF NumbersRight
  <2>3. QED
    BY <2>1, <2>2
<1>9. ASSUME NEW i \in 1..Len(new), NEW j \in 1..Len(new), i < j,
             ~new[i].refused, ~new[j].refused
      PROVE  PairRight(new[i], P[i], new[j], P[j])
  <2>1. i # Len(new)
    BY <1>4, <1>9
  <2>2. i + d \in 1..Len(messages) /\ new[i] = messages[i + d] /\ P[i] = N[i + d]
    BY <1>5, <1>7, <2>1
  <2>3. CASE j = Len(new)
    <3>1. new[j] = m /\ P[j] = x
      BY <1>3, <1>7, <2>3
    <3>2. QED
      BY <1>9, <2>2, <3>1
  <2>4. CASE j # Len(new)
    <3>1. j + d \in 1..Len(messages) /\ new[j] = messages[j + d] /\ P[j] = N[j + d]
      BY <1>5, <1>7, <2>4
    <3>2. i + d < j + d
      BY <1>4, <1>9
    <3>3. QED
      BY <1>9, <2>2, <3>1, <3>2 DEF NumbersRight
  <2>5. QED
    BY <2>3, <2>4
<1>10. NumbersRight(s, c, new, P)
  BY <1>8, <1>9 DEF NumbersRight
<1>11. \E Q \in [1..Len(new) -> Nat] : NumbersRight(s, c, new, Q)
  BY <1>6, <1>10
<1>12. QED
  BY <1>11 DEF new

-----------------------------------------------------------------------------
\* Lemmas: the server sends.

\* The file the server is at.
LEMMA Place ==
    ASSUME NEW c, ClientRight(c), NEW s, ServerRight(s, c), s.name # 0
    PROVE  \E f \in Recent(c) : \E b \in 0..Taken(c, f) :
              /\ s.lastClientCommand = Start[f] + b /\ s.name = f /\ AtBlock(s, c, f, b)
              /\ ~s.open => f = c.file
              /\ f # c.file => s.lastClientCommand < Start[c.file]
              /\ Start[f] <= s.lastClientCommand
<1>1. /\ c \in Clients /\ s \in Servers /\ PositionRight(s, c) /\ s.lastClientCommand \in Nat
  BY DEF ClientRight, ServerRight, Servers
<1> DEFINE n == s.lastClientCommand
<1>2. /\ c.file \in Recent(c) /\ Start[c.file] \in Nat /\ c.block \in Nat /\ c.file \in 1..FileCount
      /\ Taken(c, c.file) = c.block
  BY <1>1, RecentFiles
<1>3. n <= Start[c.file] + c.block /\ n # 0
  BY <1>1, <1>2 DEF PositionRight
<1>4. \E f \in Recent(c) : \E b \in 0..Taken(c, f) :
        n = Start[f] + b /\ (f # c.file => n < Start[c.file])
  <2>1. CASE n >= Start[c.file]
    <3>1. n - Start[c.file] \in 0..Taken(c, c.file) /\ n = Start[c.file] + (n - Start[c.file])
      BY <1>1, <1>2, <1>3, <2>1
    <3>2. QED
      BY <1>2, <3>1
  <2>2. CASE n < Start[c.file]
    <3>1. c.file > 1
      BY <1>1, <1>2, <1>3, <2>2, StartRight
    <3>2. /\ c.file - 1 \in Recent(c) /\ Start[c.file] = Start[c.file - 1] + Blocks[c.file - 1] + 2
          /\ Taken(c, c.file - 1) = Blocks[c.file - 1] + 1
          /\ Start[c.file - 1] \in Nat /\ Blocks[c.file - 1] \in Nat
      BY <1>1, <3>1, RecentFiles
    <3>3. Start[c.file - 1] <= n
      BY <1>1, <3>1 DEF PositionRight
    <3> DEFINE b == n - Start[c.file - 1]
    <3>4. b \in 0..Taken(c, c.file - 1) /\ n = Start[c.file - 1] + b
      BY <1>1, <2>2, <3>2, <3>3
    <3>5. QED
      BY <2>2, <3>2, <3>4
  <2>3. QED
    BY <1>1, <1>2, <2>1, <2>2
<1>5. PICK f \in Recent(c) : \E b \in 0..Taken(c, f) :
        n = Start[f] + b /\ (f # c.file => n < Start[c.file])
  BY <1>4
<1>6. PICK b \in 0..Taken(c, f) :
        n = Start[f] + b /\ (f # c.file => n < Start[c.file])
  BY <1>5
<1>7. AtBlock(s, c, f, b) /\ s.name = f
  BY <1>1, <1>6 DEF PositionRight, AtBlock
<1>8. ASSUME f # c.file PROVE s.open
  <2>1. InStepAt(s, c, f, b)
    BY <1>7, <1>8 DEF AtBlock
  <2>2. f # 0 /\ Blocks[f] \in Nat /\ Taken(c, f) \in Nat
    BY <1>1, RecentFiles
  <2>3. b = 0 \/ b \in 1..Blocks[f] \/ b = Blocks[f] + 1
    BY <2>1, <2>2 DEF InStepAt
  <2>4. QED
    BY <1>7, <1>8, <2>1, <2>2, <2>3 DEF InStepAt
<1>9. Start[f] <= n
  BY <1>1, <1>6, RecentFiles
<1>10. QED
  BY <1>6, <1>7, <1>8, <1>9

\* t is server s with its window w filled, and with xmit where it is now.
Wrote(s, w, t) ==
    /\ t \in Servers
    /\ t.state = w.state /\ t.available = w.available /\ t.name = w.name /\ t.open = w.open
    /\ t.clientBlock = w.clientBlock /\ t.current = w.current /\ t.eof = w.eof
    /\ t.ring = w.ring /\ t.lastClientCommand = w.lastClientCommand
    /\ 1 <= t.xmit /\ t.xmit <= t.current
    /\ s.open => w.xmit <= t.xmit \/ w.current <= t.xmit + DownloadWindow

LEMMA ServerWrote ==
    ASSUME NEW c, ClientRight(c), NEW s, ServerRight(s, c), s.state = "connected", s.name # 0,
           s.open \/ s.name \in s.available,
           NEW w, w = Window(s), NEW t, Wrote(s, w, t)
    PROVE  /\ ServerRight(t, c)
           /\ \A m \in BlockMessages : \A x \in Nat :
                 MessageRight(s, c, m, x) => MessageRight(t, c, m, x)
<1>1. /\ c \in Clients /\ s \in Servers /\ WindowRight(s) /\ PositionRight(s, c) /\ SentRight(s, c)
      /\ s.lastClientCommand \in Nat
  BY DEF ClientRight, ServerRight, Servers
<1>2. /\ w \in Servers /\ Filled(w)
      /\ w.state = s.state /\ w.available = s.available /\ w.name = s.name
      /\ w.lastClientCommand = s.lastClientCommand
      /\ w.open = TRUE /\ w.name \in w.available /\ w.xmit <= w.current
      /\ w.eof \/ DownloadWindow <= w.current
      /\ s.open => /\ w.clientBlock = s.clientBlock /\ w.xmit = s.xmit
                   /\ s.current <= w.current
      /\ ~s.open => w.clientBlock = 0 /\ w.xmit = 0 /\ w.current >= 1
  BY <1>1, WindowFilled
<1>3. /\ t.state = s.state /\ t.available = s.available /\ t.name = s.name /\ t.open = TRUE
      /\ t.lastClientCommand = s.lastClientCommand
      /\ s.open => t.clientBlock = s.clientBlock /\ s.current <= t.current
      /\ ~s.open => t.clientBlock = 0
      /\ 1 <= t.xmit /\ t.xmit <= t.current
      /\ t \in Servers
  BY <1>2 DEF Wrote
<1>4. /\ s.current \in Nat /\ s.xmit \in Nat /\ s.clientBlock \in Nat
      /\ t.current \in Nat /\ t.xmit \in Nat /\ t.clientBlock \in Nat
      /\ DownloadWindow \in Nat
  BY <1>1, <1>3, Sizes DEF Servers
<1>5. WindowRight(t)
  <2>1. Filled(t)
    BY <1>2 DEF Filled, Wrote
  <2>2. t.eof \/ DownloadWindow <= t.current
    BY <1>2 DEF Wrote
  <2>3. t.name # 0 /\ t.state = "connected" /\ t.name \in t.available
    BY <1>2, <1>3
  <2>4. QED
    BY <1>3, <2>1, <2>2, <2>3 DEF WindowRight, Filled
<1>6. PositionRight(t, c)
  <2>1. ASSUME NEW f \in Recent(c), NEW b \in 0..Taken(c, f), t.lastClientCommand = Start[f] + b
        PROVE  AtBlock(t, c, f, b)
    <3>1. AtBlock(s, c, f, b)
      BY <1>1, <1>3, <2>1 DEF PositionRight
    <3>2. InStepAt(s, c, f, b) => InStepAt(t, c, f, b)
      BY <1>3 DEF InStepAt
    <3>3. QED
      BY <1>3, <3>1, <3>2 DEF AtBlock
  <2>2. QED
    BY <1>1, <1>3, <2>1 DEF PositionRight
<1>7. PICK f \in Recent(c) : \E b \in 0..Taken(c, f) :
              /\ s.lastClientCommand = Start[f] + b /\ s.name = f /\ AtBlock(s, c, f, b)
              /\ ~s.open => f = c.file
              /\ f # c.file => s.lastClientCommand < Start[c.file]
              /\ Start[f] <= s.lastClientCommand
  BY Place
<1>8. s.name = f /\ Taken(c, f) \in Nat /\ c.block \in Nat /\ Taken(c, c.file) = c.block
      /\ (~s.open => f = c.file)
  BY <1>1, <1>7, RecentFiles
<1>9. SentRight(t, c)
  <2>1. NotSent(t, c) => FewMistaken(c)
    BY <1>1, <1>3 DEF NotSent, SentRight
  <2>2. CASE s.open
    <3>1. /\ Taken(c, f) <= s.xmit + DownloadWindow
          /\ \/ Taken(c, f) <= s.current
             \/ f = c.file /\ Confused(c) /\ c.block <= DownloadWindow
      BY <1>1, <1>8, <2>2 DEF SentRight
    <3>2. \/ Taken(c, f) <= t.current
          \/ f = c.file /\ Confused(c) /\ c.block <= DownloadWindow
      BY <1>3, <1>4, <1>8, <2>2, <3>1
    <3>3. Taken(c, f) <= t.xmit + DownloadWindow
      <4>1. s.xmit <= t.xmit \/ t.current <= t.xmit + DownloadWindow
        BY <1>2, <2>2 DEF Wrote
      <4>2. QED
        BY <1>4, <1>8, <3>1, <3>2, <4>1
    <3>4. QED
      BY <1>3, <1>8, <2>1, <3>2, <3>3 DEF SentRight
  <2>3. CASE ~s.open
    <3>1. f = c.file /\ FewMistaken(c)
      BY <1>1, <1>8, <2>3 DEF NotSent, SentRight
    <3>2. c.block <= t.xmit + DownloadWindow
      BY <1>4, <1>8, <3>1 DEF FewMistaken
    <3>3. c.block <= t.current \/ (Confused(c) /\ c.block <= DownloadWindow)
      BY <1>4, <1>8, <3>1 DEF FewMistaken
    <3>4. QED
      BY <1>3, <1>8, <2>1, <3>1, <3>2, <3>3 DEF SentRight
  <2>4. QED
    BY <2>2, <2>3
<1>10. ASSUME NEW m \in BlockMessages, NEW x \in Nat, MessageRight(s, c, m, x)
       PROVE  MessageRight(t, c, m, x)
  <2>1. ASSUME t.name = m.data.file PROVE x < t.current /\ x + 1 <= t.xmit + DownloadWindow
    <3>1. s.open /\ x < s.current /\ x + 1 <= s.xmit + DownloadWindow
      BY <1>3, <1>10, <2>1 DEF MessageRight
    <3>2. s.xmit <= t.xmit \/ t.current <= t.xmit + DownloadWindow
      BY <1>2, <3>1 DEF Wrote
    <3>3. QED
      BY <1>3, <1>4, <3>1, <3>2
  <2>2. QED
    BY <1>3, <1>10, <2>1 DEF MessageRight
<1>11. QED
  BY <1>3, <1>5, <1>6, <1>9, <1>10 DEF ServerRight

\* The block sent next, or again.
Sends(w, x) ==
    /\ x \in Nat /\ x < w.current
    /\ x = w.xmit \/ (x = w.clientBlock /\ w.xmit = w.current)

LEMMA BlockSent ==
    ASSUME NEW c, ClientRight(c), NEW s, ServerRight(s, c), s.state = "connected", s.name # 0,
           s.open \/ s.name \in s.available,
           NEW w, w = Window(s), NEW x, Sends(w, x), NEW t, Wrote(s, w, t), t.xmit = x + 1,
           NEW m \in BlockMessages,
           m.block = x % BlockModulus, m.sized = (x = 0), m.data = w.ring[Slot(x)],
           s.lastClientCommand < Start[c.file] /\ c.file > 1 => OfFileBefore(c, c.file - 1)
    PROVE  /\ MessageRight(t, c, m, x)
           /\ \A n \in BlockMessages : \A y \in Nat :
                 MessageRight(s, c, n, y) => PairRight(n, y, m, x)
<1>1. /\ c \in Clients /\ s \in Servers /\ WindowRight(s) /\ PositionRight(s, c) /\ SentRight(s, c)
      /\ s.lastClientCommand \in Nat
  BY DEF ClientRight, ServerRight, Servers
<1>2. /\ w \in Servers /\ Filled(w)
      /\ w.state = s.state /\ w.available = s.available /\ w.name = s.name
      /\ w.lastClientCommand = s.lastClientCommand
      /\ w.open = TRUE /\ w.name \in w.available /\ w.xmit <= w.current
      /\ w.eof \/ DownloadWindow <= w.current
      /\ s.open => /\ w.clientBlock = s.clientBlock /\ w.xmit = s.xmit
                   /\ s.current <= w.current
      /\ ~s.open => w.clientBlock = 0 /\ w.xmit = 0 /\ w.current >= 1
  BY <1>1, WindowFilled
<1>3. PICK f \in Recent(c) : \E b \in 0..Taken(c, f) :
              /\ s.lastClientCommand = Start[f] + b /\ s.name = f /\ AtBlock(s, c, f, b)
              /\ ~s.open => f = c.file
              /\ f # c.file => s.lastClientCommand < Start[c.file]
              /\ Start[f] <= s.lastClientCommand
  BY Place
<1>4. PICK b \in 0..Taken(c, f) :
              /\ s.lastClientCommand = Start[f] + b /\ s.name = f /\ AtBlock(s, c, f, b)
              /\ ~s.open => f = c.file
              /\ f # c.file => s.lastClientCommand < Start[c.file]
              /\ Start[f] <= s.lastClientCommand
  BY <1>3
<1>5. /\ f \in 1..FileCount /\ f <= c.file /\ (f = c.file \/ (f = c.file - 1 /\ c.file > 1))
      /\ Blocks[f] \in Nat /\ Taken(c, f) \in Nat /\ c.block \in Nat /\ Taken(c, c.file) = c.block
      /\ c.file \in 1..FileCount /\ b \in Nat /\ FileCount \in Nat
  BY <1>1, RecentFiles, Sizes
<1>6. /\ w.current \in Nat /\ w.clientBlock \in Nat /\ w.xmit \in Nat /\ x \in Nat
      /\ s.current \in Nat /\ s.xmit \in Nat
      /\ DownloadWindow \in Nat /\ DownloadWindow >= 1 /\ w.eof \in BOOLEAN /\ s.open \in BOOLEAN
  BY <1>1, <1>2, Sizes DEF Servers, Sends
<1>7. w.name = f /\ t.name = f /\ t.open = TRUE /\ t.lastClientCommand = s.lastClientCommand
      /\ t.current = w.current /\ t.clientBlock = w.clientBlock /\ t.xmit = x + 1
  BY <1>2, <1>4 DEF Wrote
<1>8. w.current <= Blocks[f] + 1 /\ w.current <= w.clientBlock + DownloadWindow
      /\ (w.current <= Blocks[f] \/ w.clientBlock <= Blocks[f])
  BY <1>2, <1>5, <1>6, <1>7 DEF Filled
<1>9. x < w.current /\ x <= Blocks[f]
  BY <1>5, <1>6, <1>8 DEF Sends
<1>10. x = w.clientBlock => s.open \/ x = w.xmit
  BY <1>2, <1>6 DEF Sends
<1>11. m.data.file = f
  BY <1>2, <1>6, <1>7, <1>9 DEF Filled
<1>12. x >= w.clientBlock => m.data = Data(f, x)
  BY <1>2, <1>6, <1>7, <1>9 DEF Filled
<1>13. x = 0 => m.data.index = 0
  <2>1. SUFFICES ASSUME x = 0 PROVE w.clientBlock = 0
    BY <1>12 DEF Data
  <2>2. s.open => 1 <= s.xmit
    BY <1>1 DEF WindowRight
  <2>3. QED
    BY <1>2, <1>6, <2>1, <2>2 DEF Sends
<1>14. m.data = Data(f, x) \/ x < Blocks[f]
  BY <1>5, <1>6, <1>8, <1>9, <1>12
<1>15. Taken(c, f) <= x + DownloadWindow
  <2>1. CASE s.open
    <3>1. /\ Taken(c, f) <= s.xmit + DownloadWindow
          /\ \/ Taken(c, f) <= s.current
             \/ f = c.file /\ Confused(c) /\ c.block <= DownloadWindow
      BY <1>1, <1>4, <2>1 DEF SentRight
    <3>2. x = s.xmit \/ w.current <= x + DownloadWindow
      BY <1>2, <1>6, <1>8, <2>1 DEF Sends
    <3>3. s.current <= w.current
      BY <1>2, <2>1
    <3>4. f = c.file => Taken(c, f) = c.block
      BY <1>5
    <3>5. QED
      BY <1>5, <1>6, <3>1, <3>2, <3>3, <3>4
  <2>2. CASE ~s.open
    <3>1. f = c.file /\ FewMistaken(c)
      BY <1>1, <1>4, <2>2 DEF NotSent, SentRight
    <3>2. QED
      BY <1>5, <1>6, <3>1 DEF FewMistaken
  <2>3. QED
    BY <2>1, <2>2
<1>16. NumberRight(c, m, f, x)
  BY <1>9, <1>13, <1>14, <1>15 DEF NumberRight
<1>17. ASSUME f = c.file, ~Confused(c)
       PROVE  x < c.block + DownloadWindow /\ (m.data = Data(f, x) \/ x < c.block)
  <2>1. InStepAt(s, c, f, b)
    BY <1>4, <1>17 DEF AtBlock
  <2>2. b <= c.block
    BY <1>5, <1>17
  <2>3. w.clientBlock = b
    <3>1. f # 0 /\ (b = 0 \/ b \in 1..Blocks[f] \/ b = Blocks[f] + 1)
      BY <1>5, <2>1 DEF InStepAt
    <3>2. b # Blocks[f] + 1
      BY <1>4, <2>1, <3>1 DEF InStepAt
    <3>3. QED
      BY <1>2, <2>1, <3>1, <3>2 DEF InStepAt
  <2>4. QED
    BY <1>5, <1>6, <1>8, <1>9, <1>12, <2>2, <2>3
<1>18. f < c.file => OfFileBefore(c, f)
  BY <1>4, <1>5
<1>19. MessageRight(t, c, m, x)
  <2>1. x < t.current /\ x + 1 <= t.xmit + DownloadWindow
    BY <1>6, <1>7, <1>9
  <2>2. QED
    BY <1>4, <1>7, <1>11, <1>16, <1>17, <1>18, <2>1 DEF MessageRight
<1>20. ASSUME NEW n \in BlockMessages, NEW y \in Nat, MessageRight(s, c, n, y)
       PROVE  PairRight(n, y, m, x)
  <2> DEFINE g == n.data.file
  <2>1. g \in Recent(c) /\ Start[g] <= s.lastClientCommand
    BY <1>20 DEF MessageRight
  <2>2. g <= f
    <3>1. g = c.file \/ (g = c.file - 1 /\ c.file > 1)
      BY <1>1, <2>1, RecentFiles
    <3>2. f # c.file => g # c.file
      <4>1. Start[c.file] \in Nat
        BY <1>1, RecentFiles
      <4>2. QED
        BY <1>1, <1>4, <2>1, <4>1
    <3>3. QED
      BY <1>5, <3>1, <3>2
  <2>3. ASSUME g = f PROVE y + 1 <= x + DownloadWindow
    <3>1. s.open /\ y < s.current /\ y + 1 <= s.xmit + DownloadWindow
      BY <1>4, <1>20, <2>3 DEF MessageRight
    <3>2. x = s.xmit \/ w.current <= x + DownloadWindow
      BY <1>2, <1>6, <1>8, <3>1 DEF Sends
    <3>3. s.current <= w.current
      BY <1>2, <3>1
    <3>4. QED
      BY <1>6, <3>1, <3>2, <3>3
  <2>4. QED
    BY <1>11, <2>2, <2>3 DEF PairRight
<1>21. QED
  BY <1>19, <1>20

\* Messages stay right when each of them does.
LEMMA EachKept ==
    ASSUME NEW s, NEW t, NEW c, NEW messages, MessagesRight(s, c, messages),
           t.lastClientCommand = s.lastClientCommand,
           c.state = "downloading" =>
              \A m \in BlockMessages : \A x \in Nat :
                 MessageRight(s, c, m, x) => MessageRight(t, c, m, x)
    PROVE  MessagesRight(t, c, messages)
<1>1. SUFFICES ASSUME c.state = "downloading"
               PROVE  \E N \in [1..Len(messages) -> Nat] : NumbersRight(t, c, messages, N)
  BY DEF MessagesRight
<1>2. PICK N \in [1..Len(messages) -> Nat] : NumbersRight(s, c, messages, N)
  BY <1>1 DEF MessagesRight
<1>3. messages \in Seq(BlockMessages)
  BY DEF MessagesRight
<1>4. ASSUME NEW i \in 1..Len(messages), ~messages[i].refused
      PROVE  MessageRight(t, c, messages[i], N[i])
  <2>1. messages[i] \in BlockMessages /\ N[i] \in Nat
    BY <1>3
  <2>2. MessageRight(s, c, messages[i], N[i])
    BY <1>2, <1>4 DEF NumbersRight
  <2>3. QED
    BY <1>1, <2>1, <2>2
<1>5. NumbersRight(t, c, messages, N)
  BY <1>2, <1>4 DEF NumbersRight
<1>6. QED
  BY <1>5

\* A message is put on the way by server s, which is t then.
LEMMA MessagePosted ==
    ASSUME NEW s, NEW t, NEW c, NEW messages, MessagesRight(s, c, messages),
           t.lastClientCommand = s.lastClientCommand,
           c.state = "downloading" =>
              \A m \in BlockMessages : \A x \in Nat :
                 MessageRight(s, c, m, x) => MessageRight(t, c, m, x),
           NEW m \in BlockMessages,
           c.state = "downloading" /\ ~m.refused =>
              \E x \in Nat :
                 /\ MessageRight(t, c, m, x)
                 /\ \A n \in BlockMessages : \A y \in Nat :
                       MessageRight(s, c, n, y) => PairRight(n, y, m, x)
    PROVE  MessagesRight(t, c, Post(messages, m))
<1> DEFINE new == Post(messages, m)
<1>1. messages \in Seq(BlockMessages) /\ Len(messages) <= MaxInFlight
  BY DEF MessagesRight
<1>2. PostedTo(BlockMessages, messages, m, new)
  BY <1>1, Posted, Zenon
<1>3. new \in Seq(BlockMessages) /\ Len(new) <= MaxInFlight
  <2> HIDE DEF new
  <2>1. QED
    BY <1>2, Sizes DEF PostedTo
<1>4. ASSUME c.state = "downloading"
      PROVE  \E P \in [1..Len(new) -> Nat] : NumbersRight(t, c, new, P)
  <2>1. PICK N \in [1..Len(messages) -> Nat] : NumbersRight(s, c, messages, N)
    BY <1>4 DEF MessagesRight
  <2>2. PICK x \in Nat :
          ~m.refused =>
             /\ MessageRight(t, c, m, x)
             /\ \A n \in BlockMessages : \A y \in Nat :
                   MessageRight(s, c, n, y) => PairRight(n, y, m, x)
    <3>1. CASE m.refused
      <4>1. 0 \in Nat
        OBVIOUS
      <4>2. QED
        BY <3>1, <4>1
    <3>2. CASE ~m.refused
      BY <1>4, <3>2
    <3>3. QED
      BY <3>1, <3>2
  <2>3. ASSUME ~m.refused, NEW i \in 1..Len(messages), ~messages[i].refused
        PROVE  PairRight(messages[i], N[i], m, x)
    <3>1. messages[i] \in BlockMessages /\ N[i] \in Nat
      BY <1>1
    <3>2. MessageRight(s, c, messages[i], N[i])
      BY <2>1, <2>3 DEF NumbersRight
    <3>3. QED
      BY <2>2, <2>3, <3>1, <3>2
  <2>4. ~m.refused =>
          /\ MessageRight(t, c, m, x)
          /\ \A i \in 1..Len(messages) :
                ~messages[i].refused => PairRight(messages[i], N[i], m, x)
    BY <2>2, <2>3
  <2>5. NumbersRight(t, c, messages, N)
    <3>1. ASSUME NEW i \in 1..Len(messages), ~messages[i].refused
          PROVE  MessageRight(t, c, messages[i], N[i])
      <4>1. messages[i] \in BlockMessages /\ N[i] \in Nat
        BY <1>1
      <4>2. MessageRight(s, c, messages[i], N[i])
        BY <2>1, <3>1 DEF NumbersRight
      <4>3. QED
        BY <1>4, <4>1, <4>2
    <3>2. QED
      BY <2>1, <3>1 DEF NumbersRight
  <2>6. QED
    BY <1>1, <2>4, <2>5, NumbersPosted
<1>5. c.state = "downloading" =>
        (t.lastClientCommand < Start[c.file] /\ c.file > 1 => OfFileBefore(c, c.file - 1))
  BY DEF MessagesRight
<1>6. MessagesRight(t, c, new)
  <2> HIDE DEF new
  <2>1. QED
    BY <1>3, <1>4, <1>5 DEF MessagesRight
<1>7. QED
  BY <1>6

\* SV_WriteDownloadToClient sends a block.
LEMMA BlockPosted ==
    ASSUME IInv, Sending, sv.open \/ sv.name \in sv.available,
           NEW w, w = Window(sv), NEW x, Sends(w, x), SendBlock(w, x)
    PROVE  ServerRight(sv', cl) /\ MessagesRight(sv', cl, toClient')
<1> DEFINE m == BlockMessage(x, x = 0, FALSE, w.ring[Slot(x)])
<1>1. /\ ClientRight(cl) /\ ServerRight(sv, cl) /\ MessagesRight(sv, cl, toClient)
      /\ sv \in Servers /\ WindowRight(sv) /\ sv.state = "connected" /\ sv.name # 0
  BY DEF IInv, ServerRight, Sending
<1>2. /\ w \in Servers /\ w.open = TRUE /\ w.xmit <= w.current /\ Filled(w)
      /\ w.lastClientCommand = sv.lastClientCommand
      /\ sv.open => w.clientBlock = sv.clientBlock /\ w.xmit = sv.xmit
  BY <1>1, WindowFilled
<1>3. x \in Nat /\ x < w.current /\ w.current \in Nat /\ w.xmit \in Nat /\ w.clientBlock \in Nat
      /\ DownloadWindow \in Nat /\ DownloadWindow >= 1
  BY <1>2, Sizes DEF Servers, Sends
<1>4. sv' = [w EXCEPT !.xmit = x + 1] /\ toClient' = Post(toClient, m)
  BY DEF SendBlock
<1>5. Wrote(sv, w, sv') /\ sv'.xmit = x + 1
  <2>1. /\ sv' \in Servers /\ sv'.xmit = x + 1
        /\ sv'.state = w.state /\ sv'.available = w.available /\ sv'.name = w.name
        /\ sv'.open = w.open /\ sv'.clientBlock = w.clientBlock /\ sv'.current = w.current
        /\ sv'.eof = w.eof /\ sv'.ring = w.ring /\ sv'.lastClientCommand = w.lastClientCommand
    BY <1>2, <1>3, <1>4 DEF Servers
  <2>2. sv'.xmit \in Nat /\ 1 <= sv'.xmit /\ sv'.xmit <= w.current
    BY <1>3, <2>1
  <2>3. w.xmit <= sv'.xmit \/ w.current <= sv'.xmit + DownloadWindow
    <3>1. w.current <= w.clientBlock + DownloadWindow
      BY <1>2 DEF Filled
    <3>2. QED
      BY <1>3, <2>1, <3>1 DEF Sends
  <2>4. QED
    BY <2>1, <2>2, <2>3 DEF Wrote
<1>6. m \in BlockMessages
  <2>1. x % BlockModulus \in Nat
    BY <1>3, Sizes
  <2>2. Slot(x) \in Slots
    BY <1>3, SlotType
  <2>3. w.ring[Slot(x)] \in Contents
    BY <1>2, <2>2 DEF Servers
  <2>4. QED
    BY <2>1, <2>3 DEF BlockMessages, BlockMessage
<1>7. /\ m.block = x % BlockModulus /\ m.sized = (x = 0) /\ m.refused = FALSE
      /\ m.data = w.ring[Slot(x)]
  BY DEF BlockMessage
<1> HIDE DEF m
<1>8. /\ ServerRight(sv', cl)
      /\ \A n \in BlockMessages : \A y \in Nat :
            MessageRight(sv, cl, n, y) => MessageRight(sv', cl, n, y)
  BY <1>1, <1>5, ServerWrote
<1>9. sv'.lastClientCommand = sv.lastClientCommand
  BY <1>2, <1>5 DEF Wrote
<1>11. ASSUME cl.state = "downloading"
       PROVE  \E z \in Nat :
                 /\ MessageRight(sv', cl, m, z)
                 /\ \A n \in BlockMessages : \A y \in Nat :
                       MessageRight(sv, cl, n, y) => PairRight(n, y, m, z)
  <2>1. sv.lastClientCommand < Start[cl.file] /\ cl.file > 1 => OfFileBefore(cl, cl.file - 1)
    BY <1>1, <1>11 DEF MessagesRight
  <2>2. /\ MessageRight(sv', cl, m, x)
        /\ \A n \in BlockMessages : \A y \in Nat :
              MessageRight(sv, cl, n, y) => PairRight(n, y, m, x)
    BY <1>1, <1>5, <1>6, <1>7, <2>1, BlockSent
  <2>3. QED
    BY <1>3, <2>2
<1>12. MessagesRight(sv', cl, Post(toClient, m))
  BY <1>1, <1>6, <1>8, <1>9, <1>11, MessagePosted
<1>13. QED
  BY <1>4, <1>8, <1>12

LEMMA BlockWritten ==
    ASSUME IInv, NEW timedOut \in BOOLEAN, SV_WriteDownloadToClient(timedOut)
    PROVE  ServerRight(sv', cl) /\ MessagesRight(sv', cl, toClient')
<1> DEFINE w == Window(sv)
<1>1. /\ ClientRight(cl) /\ ServerRight(sv, cl) /\ MessagesRight(sv, cl, toClient)
      /\ sv \in Servers /\ WindowRight(sv) /\ sv.state = "connected" /\ sv.name # 0
      /\ Sending /\ (sv.open \/ sv.name \in sv.available)
  BY DEF IInv, ServerRight, Sending, SV_WriteDownloadToClient
<1>2. /\ w \in Servers /\ Filled(w) /\ w.xmit <= w.current
      /\ w.lastClientCommand = sv.lastClientCommand
      /\ sv.open => w.clientBlock = sv.clientBlock /\ w.xmit = sv.xmit
      /\ ~sv.open => w.clientBlock = 0 /\ w.xmit = 0 /\ w.current >= 1
  BY <1>1, WindowFilled
<1>3. \/ w.clientBlock # w.current /\ w.xmit # w.current /\ SendBlock(w, w.xmit)
      \/ w.clientBlock # w.current /\ w.xmit = w.current /\ SendBlock(w, w.clientBlock)
      \/ (w.clientBlock = w.current \/ w.xmit = w.current) /\ sv' = w /\ toClient' = toClient
  BY DEF SV_WriteDownloadToClient
<1> HIDE DEF w
<1>4. /\ w.current \in Nat /\ w.clientBlock \in Nat /\ w.xmit \in Nat
      /\ DownloadWindow \in Nat /\ DownloadWindow >= 1
  BY <1>2, Sizes DEF Servers
<1>5. w.clientBlock <= w.current /\ w.current <= w.clientBlock + DownloadWindow
  BY <1>2 DEF Filled
<1>6. CASE w.clientBlock # w.current /\ w.xmit # w.current /\ SendBlock(w, w.xmit)
  <2>1. Sends(w, w.xmit)
    BY <1>2, <1>4, <1>6 DEF Sends
  <2>2. QED
    BY <1>1, <1>6, <2>1, BlockPosted DEF w
<1>7. CASE w.clientBlock # w.current /\ w.xmit = w.current /\ SendBlock(w, w.clientBlock)
  <2>1. Sends(w, w.clientBlock)
    BY <1>4, <1>5, <1>7 DEF Sends
  <2>2. QED
    BY <1>1, <1>7, <2>1, BlockPosted DEF w
<1>8. CASE (w.clientBlock = w.current \/ w.xmit = w.current) /\ sv' = w /\ toClient' = toClient
  <2>1. 1 <= w.xmit
    <3>1. sv.open
      BY <1>2, <1>4, <1>8
    <3>2. QED
      BY <1>1, <1>2, <3>1 DEF WindowRight
  <2>2. Wrote(sv, w, w)
    BY <1>2, <1>4, <2>1 DEF Wrote
  <2>3. /\ ServerRight(w, cl)
        /\ \A n \in BlockMessages : \A y \in Nat :
              MessageRight(sv, cl, n, y) => MessageRight(w, cl, n, y)
    BY <1>1, <2>2, ServerWrote DEF w
  <2>4. MessagesRight(w, cl, toClient)
    BY <1>1, <1>2, <2>3, EachKept
  <2>5. QED
    BY <1>8, <2>3, <2>4
<1>9. QED
  BY <1>3, <1>6, <1>7, <1>8

LEMMA DownloadRefused ==
    ASSUME IInv, SV_RefuseDownload
    PROVE  ServerRight(sv', cl) /\ MessagesRight(sv', cl, toClient')
<1> DEFINE m == BlockMessage(0, TRUE, TRUE, Data(sv.name, 0))
<1>1. /\ ClientRight(cl) /\ ServerRight(sv, cl) /\ MessagesRight(sv, cl, toClient)
      /\ cl \in Clients /\ sv \in Servers /\ WindowRight(sv) /\ PositionRight(sv, cl) /\ SentRight(sv, cl)
      /\ sv.state = "connected" /\ sv.name # 0 /\ ~sv.open
  BY DEF IInv, ServerRight, ClientRight, Sending, SV_RefuseDownload
<1>2. sv' = SV_CloseDownload(sv) /\ toClient' = Post(toClient, m)
  BY DEF SV_RefuseDownload
<1>3. /\ sv'.state = sv.state /\ sv'.available = sv.available /\ sv'.name = 0 /\ sv'.open = FALSE
      /\ sv'.lastClientCommand = sv.lastClientCommand /\ sv'.clientBlock = sv.clientBlock
      /\ sv' \in Servers
  <2>1. 0 \in 0..FileCount
    BY Sizes
  <2>2. QED
    BY <1>1, <1>2, <2>1 DEF Servers, SV_CloseDownload
<1>4. sv.name = cl.file /\ cl.file \in 1..FileCount /\ cl.block \in Nat
  <2>1. sv.name = cl.file
    BY <1>1, Place
  <2>2. QED
    BY <1>1, <2>1, RecentFiles
<1>5. WindowRight(sv')
  BY <1>1, <1>3 DEF WindowRight
<1>6. PositionRight(sv', cl)
  <2>1. ASSUME NEW f \in Recent(cl), NEW b \in 0..Taken(cl, f), sv'.lastClientCommand = Start[f] + b
        PROVE  AtBlock(sv', cl, f, b)
    <3>1. AtBlock(sv, cl, f, b)
      BY <1>1, <1>3, <2>1 DEF PositionRight
    <3>2. f = cl.file
      BY <1>1, <1>4, <3>1 DEF AtBlock
    <3>3. ASSUME InStepAt(sv, cl, f, b) PROVE InStepAt(sv', cl, f, b)
      <4>1. Blocks[f] \in Nat /\ b \in Nat
        BY <1>1, RecentFiles
      <4>2. b = 0
        BY <1>1, <3>3, <4>1 DEF InStepAt
      <4>3. cl.block = 0
        BY <1>1, <3>3, <4>2 DEF InStepAt
      <4>4. QED
        BY <1>1, <1>3, <3>2, <4>1, <4>2, <4>3 DEF InStepAt
    <3>4. QED
      BY <1>3, <3>1, <3>3 DEF AtBlock
  <2>2. QED
    BY <1>1, <1>3, <2>1 DEF PositionRight
<1>7. SentRight(sv', cl)
  <2>1. FewMistaken(cl)
    BY <1>1, <1>4 DEF SentRight, NotSent
  <2>2. QED
    BY <1>3, <2>1 DEF SentRight
<1>8. ASSUME NEW n \in BlockMessages, NEW y \in Nat, MessageRight(sv, cl, n, y)
      PROVE  MessageRight(sv', cl, n, y)
  <2>1. n.data.file # cl.file /\ n.data.file # 0
    <3>1. n.data.file \in Recent(cl)
      BY <1>8 DEF MessageRight
    <3>2. n.data.file # 0
      BY <1>1, <3>1, RecentFiles
    <3>3. QED
      BY <1>1, <1>4, <1>8, <3>2 DEF MessageRight
  <2>2. sv.lastClientCommand # Start[n.data.file]
    BY <1>1, <1>8 DEF MessageRight
  <2>3. QED
    BY <1>3, <1>8, <2>1, <2>2 DEF MessageRight
<1>9. m \in BlockMessages /\ m.refused = TRUE
  <2>1. 0 % BlockModulus \in Nat
    BY Sizes
  <2>2. Data(sv.name, 0) \in Contents
    BY <1>1 DEF Servers, Contents, Data
  <2>3. QED
    BY <2>1, <2>2 DEF BlockMessages, BlockMessage
<1> HIDE DEF m
<1>10. MessagesRight(sv', cl, Post(toClient, m))
  BY <1>1, <1>3, <1>8, <1>9, MessagePosted
<1>11. QED
  BY <1>1, <1>2, <1>3, <1>5, <1>6, <1>7, <1>10 DEF ServerRight

\* A packet is received: those behind it are left.
LEMMA PacketsLeft ==
    ASSUME NEW c, NEW packets, PacketsRight(c, packets), NEW i \in 1..Len(packets),
           NEW rest, rest = SubSeq(packets, i + 1, Len(packets))
    PROVE  PacketsRight(c, rest)
<1>1. packets \in Seq(Nat) /\ Len(packets) <= MaxInFlight /\ MaxInFlight \in Nat
      /\ Len(packets) \in Nat
  BY Sizes DEF PacketsRight
<1>2. /\ rest \in Seq(Nat) /\ Len(rest) = Len(packets) - i
      /\ \A j \in 1..Len(rest) : rest[j] = packets[i + j]
  BY <1>1, Overtaken
<1>3. ASSUME NEW j \in 1..Len(rest) PROVE rest[j] <= Len(c.commands)
  <2>1. i + j \in 1..Len(packets)
    BY <1>1, <1>2
  <2>2. QED
    BY <1>2, <2>1 DEF PacketsRight
<1>4. Len(rest) <= MaxInFlight
  BY <1>1, <1>2
<1>5. QED
  BY <1>2, <1>3, <1>4 DEF PacketsRight

\* SV_PacketEvent: every command up to the packet's last is the client's.
LEMMA PacketExecuted ==
    ASSUME IInv, NEW i \in 1..Len(toServer), SV_PacketEvent(i)
    PROVE  /\ ServerRight(sv', cl) /\ MessagesRight(sv', cl, toClient)
           /\ PacketsRight(cl, toServer')
<1>1. /\ ClientRight(cl) /\ ServerRight(sv, cl) /\ MessagesRight(sv, cl, toClient)
      /\ PacketsRight(cl, toServer)
  BY DEF IInv
<1>2. toServer[i] \in Nat /\ toServer[i] <= Len(cl.commands) /\ toServer \in Seq(Nat)
      /\ Len(toServer) <= MaxInFlight /\ MaxInFlight \in Nat
  BY <1>1, Sizes DEF PacketsRight
<1>3. sv' = AfterCommands(toServer[i]) /\ toServer' = SubSeq(toServer, i + 1, Len(toServer))
  BY DEF SV_PacketEvent, ToServer!Overtake
<1>4. ServerRight(sv', cl) /\ MessagesRight(sv', cl, toClient)
  BY <1>1, <1>2, <1>3, CommandsExecuted
<1>5. PacketsRight(cl, toServer')
  BY <1>1, <1>3, PacketsLeft
<1>6. QED
  BY <1>4, <1>5

-----------------------------------------------------------------------------
\* Lemmas: the client takes a block.

\* A message is received: those behind it are left.
LEMMA MessagesLeft ==
    ASSUME NEW s, NEW c, NEW d, NEW messages, MessagesRight(s, c, messages),
           NEW i \in 1..Len(messages), NEW rest, rest = SubSeq(messages, i + 1, Len(messages)),
           d.state = "downloading" =>
              \E N \in [1..Len(messages) -> Nat] :
                 /\ NumbersRight(s, c, messages, N)
                 /\ \A n \in BlockMessages : \A y \in Nat :
                       /\ MessageRight(s, c, n, y)
                       /\ ~messages[i].refused => PairRight(messages[i], N[i], n, y)
                       => MessageRight(s, d, n, y)
                 /\ s.lastClientCommand < Start[d.file] /\ d.file > 1 => OfFileBefore(d, d.file - 1)
    PROVE  MessagesRight(s, d, rest)
<1>1. messages \in Seq(BlockMessages) /\ Len(messages) <= MaxInFlight /\ MaxInFlight \in Nat
      /\ Len(messages) \in Nat
  BY Sizes DEF MessagesRight
<1>2. /\ rest \in Seq(BlockMessages) /\ Len(rest) = Len(messages) - i
      /\ \A j \in 1..Len(rest) : rest[j] = messages[i + j]
  BY <1>1, Overtaken
<1>3. \A j \in 1..Len(rest) : i + j \in 1..Len(messages) /\ i < i + j
  BY <1>1, <1>2
<1>4. ASSUME d.state = "downloading"
      PROVE  \E P \in [1..Len(rest) -> Nat] : NumbersRight(s, d, rest, P)
  <2>1. PICK N \in [1..Len(messages) -> Nat] :
                 /\ NumbersRight(s, c, messages, N)
                 /\ \A n \in BlockMessages : \A y \in Nat :
                       /\ MessageRight(s, c, n, y)
                       /\ ~messages[i].refused => PairRight(messages[i], N[i], n, y)
                       => MessageRight(s, d, n, y)
    BY <1>4
  <2> DEFINE P == [j \in 1..Len(rest) |-> N[i + j]]
  <2>2. P \in [1..Len(rest) -> Nat] /\ \A j \in 1..Len(rest) : P[j] = N[i + j]
    BY <1>3
  <2> HIDE DEF P
  <2>3. ASSUME NEW j \in 1..Len(rest), ~rest[j].refused PROVE MessageRight(s, d, rest[j], P[j])
    <3>1. rest[j] = messages[i + j] /\ P[j] = N[i + j] /\ i + j \in 1..Len(messages) /\ i < i + j
      BY <1>2, <1>3, <2>2
    <3>2. messages[i + j] \in BlockMessages /\ N[i + j] \in Nat
      <4> DEFINE k == i + j
      <4>1. k \in 1..Len(messages)
        BY <3>1
      <4> HIDE DEF k
      <4>2. messages[k] \in BlockMessages
        BY <1>1, <4>1
      <4>3. N[k] \in Nat
        BY <4>1
      <4>4. QED
        BY <4>2, <4>3 DEF k
    <3>3. MessageRight(s, c, messages[i + j], N[i + j])
      BY <2>1, <2>3, <3>1 DEF NumbersRight
    <3>4. ~messages[i].refused => PairRight(messages[i], N[i], messages[i + j], N[i + j])
      BY <2>1, <2>3, <3>1 DEF NumbersRight
    <3>5. QED
      BY <2>1, <3>1, <3>2, <3>3, <3>4
  <2>4. ASSUME NEW j \in 1..Len(rest), NEW k \in 1..Len(rest), j < k, ~rest[j].refused, ~rest[k].refused
        PROVE  PairRight(rest[j], P[j], rest[k], P[k])
    <3>1. /\ rest[j] = messages[i + j] /\ P[j] = N[i + j] /\ i + j \in 1..Len(messages)
          /\ rest[k] = messages[i + k] /\ P[k] = N[i + k] /\ i + k \in 1..Len(messages)
      BY <1>2, <1>3, <2>2
    <3>2. i + j < i + k
      BY <1>2, <2>4
    <3>3. QED
      BY <2>1, <2>4, <3>1, <3>2 DEF NumbersRight
  <2>5. NumbersRight(s, d, rest, P)
    BY <2>3, <2>4 DEF NumbersRight
  <2>6. QED
    BY <2>2, <2>5
<1>5. Len(rest) <= MaxInFlight
  BY <1>1, <1>2
<1>6. QED
  BY <1>2, <1>4, <1>5 DEF MessagesRight

\* The packets of a client that says more.
LEMMA PacketsKept ==
    ASSUME NEW c, NEW d, NEW packets, PacketsRight(c, packets),
           Len(c.commands) \in Nat, Len(d.commands) \in Nat, Len(c.commands) <= Len(d.commands)
    PROVE  PacketsRight(d, packets)
<1>1. ASSUME NEW i \in 1..Len(packets) PROVE packets[i] <= Len(d.commands)
  <2>1. packets[i] \in Nat /\ packets[i] <= Len(c.commands)
    BY DEF PacketsRight
  <2>2. QED
    BY <2>1
<1>2. QED
  BY <1>1 DEF PacketsRight

\* What a client says after an acknowledgement.
LEMMA ClientSays ==
    ASSUME NEW c, ClientRight(c), c.state = "downloading", NEW d \in Clients,
           d.file = c.file, d.block = c.block + 1,
           d.commands = Append(c.commands, Command("nextdl", c.block)),
           d.state = "complete" => c.file = FileCount /\ c.block = Blocks[c.file]
    PROVE  CommandsRight(d) /\ Len(d.commands) = Len(c.commands) + 1
<1>1. c \in Clients /\ CommandsRight(c) /\ c.commands \in Seq(Commands)
  BY DEF ClientRight, Clients
<1>2. /\ Len(d.commands) = Len(c.commands) + 1 /\ Len(c.commands) \in Nat
      /\ \A k \in 1..Len(c.commands) : d.commands[k] = c.commands[k]
      /\ d.commands[Len(c.commands) + 1] = Command("nextdl", c.block)
  BY <1>1
<1>3. /\ Start[c.file] \in Nat /\ c.block \in Nat /\ Start[c.file] >= 1
      /\ Len(c.commands) = Start[c.file] + c.block
  BY <1>1, RecentFiles DEF CommandsRight
<1>4. Recent(d) = Recent(c)
  BY DEF Recent
<1>5. ASSUME NEW f \in Recent(d)
      PROVE  /\ d.commands[Start[f]] = Command("download", f)
             /\ \A b \in 0..(Taken(d, f) - 1) :
                   d.commands[Start[f] + 1 + b] = Command("nextdl", b)
  <2>1. /\ c.commands[Start[f]] = Command("download", f)
        /\ \A b \in 0..(Taken(c, f) - 1) :
              c.commands[Start[f] + 1 + b] = Command("nextdl", b)
    BY <1>1, <1>4, <1>5 DEF CommandsRight
  <2>2. CASE f = c.file
    <3>1. Taken(d, f) = c.block + 1 /\ Taken(c, f) = c.block
      BY <2>2 DEF Taken
    <3>2. d.commands[Start[f]] = Command("download", f)
      BY <1>2, <1>3, <2>1, <2>2
    <3>3. ASSUME NEW b \in 0..(Taken(d, f) - 1)
          PROVE  d.commands[Start[f] + 1 + b] = Command("nextdl", b)
      <4>1. CASE b = c.block
        <5>1. Start[f] + 1 + b = Len(c.commands) + 1
          BY <1>3, <2>2, <4>1
        <5>2. QED
          BY <1>2, <4>1, <5>1
      <4>2. CASE b # c.block
        <5>1. b \in 0..(Taken(c, f) - 1) /\ Start[f] + 1 + b \in 1..Len(c.commands)
          BY <1>3, <2>2, <3>1, <4>2
        <5>2. QED
          BY <1>2, <2>1, <5>1
      <4>3. QED
        BY <4>1, <4>2
    <3>4. QED
      BY <3>2, <3>3
  <2>3. CASE f # c.file
    <3>1. f = c.file - 1 /\ c.file > 1 /\ Start[f] \in Nat /\ Start[f] >= 1 /\ Blocks[f] \in Nat
          /\ Start[c.file] = Start[c.file - 1] + Blocks[c.file - 1] + 2
      BY <1>1, <1>4, <2>3, RecentFiles
    <3>2. Taken(d, f) = Blocks[f] + 1 /\ Taken(c, f) = Blocks[f] + 1
      BY <2>3 DEF Taken
    <3>3. Start[f] \in 1..Len(c.commands)
      BY <1>2, <1>3, <3>1, SMTT(30)
    <3>4. ASSUME NEW b \in 0..(Taken(d, f) - 1)
          PROVE  d.commands[Start[f] + 1 + b] = Command("nextdl", b)
      <4>1. Start[f] + 1 + b \in 1..Len(c.commands)
        <5>1. b \in Nat /\ b <= Blocks[f]
          BY <3>1, <3>2
        <5>2. Len(c.commands) = Start[f] + Blocks[f] + 2 + c.block
          BY <1>3, <3>1
        <5>3. Start[f] \in Nat /\ Blocks[f] \in Nat /\ c.block \in Nat
          BY <1>3, <3>1
        <5>4. QED
          BY <5>1, <5>2, <5>3
      <4>2. QED
        BY <1>2, <2>1, <3>2, <4>1
    <3>5. QED
      BY <1>2, <2>1, <3>3, <3>4
  <2>4. QED
    BY <2>2, <2>3
<1>6. Len(d.commands) = Start[d.file] + d.block
  BY <1>2, <1>3
<1>7. \A k \in (Start[d.file] + d.block + 1)..Len(d.commands) : FALSE
  BY <1>2, <1>3, <1>6
<1>8. d.state = "complete" =>
        /\ d.file = FileCount /\ d.block = Blocks[d.file] + 1
        /\ Len(d.commands) >= Start[d.file] + d.block
  BY <1>2, <1>3, <1>6
<1>9. QED
  BY <1>2, <1>5, <1>6, <1>7, <1>8 DEF CommandsRight

\* The client has taken one block more of its file.
OneMore(c, d) ==
    /\ d \in Clients
    /\ d.file = c.file /\ d.block = c.block + 1
    /\ Len(d.commands) = Len(c.commands) + 1

LEMMA PositionAfter ==
    ASSUME NEW c, ClientRight(c), c.state = "downloading", NEW s, ServerRight(s, c),
           NEW d, OneMore(c, d),
           ~Confused(d) => ~Confused(c) /\ (s.lastClientCommand = Start[c.file] => s.open)
    PROVE  PositionRight(s, d)
<1>1. /\ c \in Clients /\ d \in Clients /\ s \in Servers /\ PositionRight(s, c)
      /\ s.lastClientCommand \in Nat /\ CommandsRight(c)
  BY DEF ClientRight, ServerRight, Servers, OneMore
<1>2. /\ Start[c.file] \in Nat /\ c.block \in Nat
      /\ Len(c.commands) = Start[c.file] + c.block /\ Len(d.commands) = Start[c.file] + c.block + 1
      /\ d.file = c.file /\ d.block = c.block + 1 /\ Recent(d) = Recent(c)
  BY <1>1, RecentFiles DEF CommandsRight, OneMore, Recent
<1>3. s.lastClientCommand <= Start[c.file] + c.block
  BY <1>1, <1>2 DEF PositionRight
<1>4. ASSUME NEW f \in Recent(d), NEW b \in 0..Taken(d, f), s.lastClientCommand = Start[f] + b
      PROVE  AtBlock(s, d, f, b)
  <2>1. b \in 0..Taken(c, f)
    <3>1. CASE f = c.file
      <4>1. Taken(d, f) = c.block + 1 /\ Taken(c, f) = c.block
        BY <1>2, <3>1 DEF Taken
      <4>2. b <= c.block
        BY <1>2, <1>3, <1>4, <3>1, <4>1
      <4>3. QED
        BY <1>2, <4>1, <4>2
    <3>2. CASE f # c.file
      BY <1>2, <3>2 DEF Taken
    <3>3. QED
      BY <3>1, <3>2
  <2>2. AtBlock(s, c, f, b)
    BY <1>1, <1>2, <1>4, <2>1 DEF PositionRight
  <2>3. ASSUME InStepAt(s, c, f, b), f # c.file \/ (s.lastClientCommand = Start[c.file] => s.open)
        PROVE  InStepAt(s, d, f, b)
    <3>1. b = 0 => s.open
      BY <1>2, <1>4, <2>3 DEF InStepAt
    <3>2. QED
      BY <2>3, <3>1 DEF InStepAt
  <2>4. CASE f = c.file
    BY <1>2, <2>2, <2>3, <2>4 DEF AtBlock
  <2>5. CASE f # c.file
    BY <1>2, <2>2, <2>3, <2>5 DEF AtBlock
  <2>6. QED
    BY <2>4, <2>5
<1>5. d.file > 1 => Start[d.file - 1] <= s.lastClientCommand
  BY <1>1, <1>2 DEF PositionRight
<1>6. s.lastClientCommand <= Len(d.commands) /\ ~(s.lastClientCommand > Start[d.file] + d.block)
  BY <1>1, <1>2, <1>3
<1>7. s.lastClientCommand = 0 => s.name = 0 /\ s.state = "connected"
  BY <1>1 DEF PositionRight
<1>8. QED
  BY <1>4, <1>5, <1>6, <1>7 DEF PositionRight

\* A block of its file.
LEMMA TookBlock ==
    ASSUME NEW c, ClientRight(c), c.state = "downloading", NEW s, ServerRight(s, c),
           NEW m \in BlockMessages, NEW x \in Nat, MessageRight(s, c, m, x),
           m.data.file = c.file, c.block <= x,
           NEW d, OneMore(c, d), Confused(d) <=> Confused(c)
    PROVE  /\ ServerRight(s, d)
           /\ \A n \in BlockMessages : \A y \in Nat :
                 MessageRight(s, c, n, y) /\ PairRight(m, x, n, y) => MessageRight(s, d, n, y)
           /\ Start[c.file] <= s.lastClientCommand
<1>1. /\ c \in Clients /\ d \in Clients /\ s \in Servers /\ PositionRight(s, c) /\ SentRight(s, c)
      /\ WindowRight(s)
  BY DEF ClientRight, ServerRight, OneMore
<1>2. /\ Start[c.file] \in Nat /\ c.block \in Nat /\ s.lastClientCommand \in Nat
      /\ s.current \in Nat /\ s.xmit \in Nat /\ DownloadWindow \in Nat
      /\ d.file = c.file /\ d.block = c.block + 1 /\ Recent(d) = Recent(c)
      /\ Taken(c, c.file) = c.block /\ Taken(d, c.file) = c.block + 1
      /\ \A f : f # c.file => Taken(d, f) = Taken(c, f)
  BY <1>1, RecentFiles, Sizes DEF OneMore, Recent, Taken, Servers
<1>3. /\ Start[c.file] <= s.lastClientCommand
      /\ s.open /\ s.name = c.file => x < s.current /\ x + 1 <= s.xmit + DownloadWindow
      /\ s.name = c.file => s.open
      /\ s.lastClientCommand = Start[c.file] => s.open
      /\ ~Confused(c) => s.name = c.file
  BY DEF MessageRight
<1>4. PositionRight(s, d)
  BY <1>3, PositionAfter
<1>5. SentRight(s, d)
  <2>1. ~NotSent(s, d)
    BY <1>2, <1>3 DEF NotSent
  <2>2. ASSUME s.open
        PROVE  /\ Taken(d, s.name) <= s.xmit + DownloadWindow
               /\ \/ Taken(d, s.name) <= s.current
                  \/ s.name = d.file /\ Confused(d) /\ d.block <= DownloadWindow
    <3>1. CASE s.name = c.file
      <4>1. c.block + 1 <= s.xmit + DownloadWindow /\ c.block + 1 <= s.current
        BY <1>2, <1>3, <2>2, <3>1
      <4>2. QED
        BY <1>2, <3>1, <4>1
    <3>2. CASE s.name # c.file
      BY <1>1, <1>2, <2>2, <3>2 DEF SentRight
    <3>3. QED
      BY <3>1, <3>2
  <2>3. QED
    BY <2>1, <2>2 DEF SentRight
<1>6. ASSUME NEW n \in BlockMessages, NEW y \in Nat, MessageRight(s, c, n, y), PairRight(m, x, n, y)
      PROVE  MessageRight(s, d, n, y)
  <2>1. n.data.file \in Recent(c) /\ c.file <= n.data.file
    BY <1>6 DEF MessageRight, PairRight
  <2>2. n.data.file = c.file
    BY <1>1, <2>1, RecentFiles
  <2>3. x + 1 <= y + DownloadWindow
    BY <1>6, <2>2 DEF PairRight
  <2>4. NumberRight(d, n, n.data.file, y)
    <3>1. Taken(d, n.data.file) <= y + DownloadWindow
      BY <1>2, <2>2, <2>3
    <3>2. QED
      BY <1>6, <3>1 DEF MessageRight, NumberRight
  <2>5. ~Confused(d) =>
          /\ s.name = n.data.file
          /\ y < d.block + DownloadWindow
          /\ n.data = Data(n.data.file, y) \/ y < d.block
    <3>1. ~Confused(c) =>
            /\ s.name = n.data.file
            /\ y < c.block + DownloadWindow
            /\ n.data = Data(n.data.file, y) \/ y < c.block
      BY <1>6, <2>2 DEF MessageRight
    <3>2. QED
      BY <1>2, <3>1
  <2>6. ~(n.data.file < d.file)
    <3>1. c.file \in Nat
      BY <1>1 DEF Clients
    <3>2. QED
      BY <1>2, <2>2, <3>1
  <2>7. QED
    BY <1>2, <1>6, <2>1, <2>4, <2>5, <2>6 DEF MessageRight
<1>7. QED
  BY <1>1, <1>3, <1>4, <1>5, <1>6 DEF ServerRight

\* A block of the file before: its number is the one the client waits for.
LEMMA MistookBlock ==
    ASSUME NEW c, ClientRight(c), c.state = "downloading", NEW s, ServerRight(s, c),
           NEW d, OneMore(c, d), Confused(d), d.block <= DownloadWindow
    PROVE  /\ ServerRight(s, d)
           /\ c.file > 1 /\ Blocks[c.file - 1] < DownloadWindow /\ d.block <= Blocks[c.file - 1] =>
                /\ \A n \in BlockMessages : \A y \in Nat :
                      MessageRight(s, c, n, y) => MessageRight(s, d, n, y)
                /\ OfFileBefore(d, c.file - 1)
<1>1. /\ c \in Clients /\ d \in Clients /\ s \in Servers /\ PositionRight(s, c) /\ SentRight(s, c)
      /\ WindowRight(s)
  BY DEF ClientRight, ServerRight, OneMore
<1>2. /\ Start[c.file] \in Nat /\ c.block \in Nat /\ s.lastClientCommand \in Nat
      /\ s.current \in Nat /\ s.xmit \in Nat /\ DownloadWindow \in Nat
      /\ d.file = c.file /\ d.block = c.block + 1 /\ Recent(d) = Recent(c)
      /\ Taken(c, c.file) = c.block /\ Taken(d, c.file) = c.block + 1
      /\ \A f : f # c.file => Taken(d, f) = Taken(c, f)
  BY <1>1, RecentFiles, Sizes DEF OneMore, Recent, Taken, Servers
<1>3. PositionRight(s, d)
  BY PositionAfter
<1>4. SentRight(s, d)
  <2>1. FewMistaken(d)
    BY DEF FewMistaken
  <2>2. ASSUME s.open
        PROVE  /\ Taken(d, s.name) <= s.xmit + DownloadWindow
               /\ \/ Taken(d, s.name) <= s.current
                  \/ s.name = d.file /\ Confused(d) /\ d.block <= DownloadWindow
    <3>1. CASE s.name = c.file
      BY <1>2, <3>1
    <3>2. CASE s.name # c.file
      BY <1>1, <1>2, <2>2, <3>2 DEF SentRight
    <3>3. QED
      BY <3>1, <3>2
  <2>3. QED
    BY <2>1, <2>2 DEF SentRight
<1>5. ASSUME c.file > 1, Blocks[c.file - 1] < DownloadWindow, d.block <= Blocks[c.file - 1]
      PROVE  OfFileBefore(d, c.file - 1)
  BY <1>5 DEF OfFileBefore
<1>6. ASSUME c.file > 1, Blocks[c.file - 1] < DownloadWindow, d.block <= Blocks[c.file - 1],
             NEW n \in BlockMessages, NEW y \in Nat, MessageRight(s, c, n, y)
      PROVE  MessageRight(s, d, n, y)
  <2>1. n.data.file \in Recent(c) /\ NumberRight(c, n, n.data.file, y)
    BY <1>6 DEF MessageRight
  <2>2. n.data.file = c.file \/ n.data.file = c.file - 1
    BY <1>1, <2>1, RecentFiles
  <2>3. NumberRight(d, n, n.data.file, y)
    <3>1. Taken(d, n.data.file) <= y + DownloadWindow
      <4>1. CASE n.data.file = c.file
        BY <1>2, <4>1
      <4>2. CASE n.data.file # c.file
        BY <1>2, <2>1, <4>2 DEF NumberRight
      <4>3. QED
        BY <4>1, <4>2
    <3>2. QED
      BY <2>1, <3>1 DEF NumberRight
  <2>4. n.data.file < d.file => OfFileBefore(d, n.data.file)
    <3>1. c.file \in Nat
      BY <1>1 DEF Clients
    <3>2. n.data.file < d.file => n.data.file = c.file - 1
      BY <1>2, <2>2, <3>1
    <3>3. QED
      BY <1>5, <1>6, <3>2
  <2>5. QED
    BY <1>2, <1>6, <2>1, <2>3, <2>4 DEF MessageRight
<1>7. QED
  BY <1>1, <1>3, <1>4, <1>5, <1>6 DEF ServerRight

\* The block a client takes: one of its file is the one it waits for, unless it
\* is confused, and one of the file before has the same number.
LEMMA GenuineNumber ==
    ASSUME NEW c \in Clients, NEW s, NEW m \in BlockMessages, NEW x \in Nat,
           MessageRight(s, c, m, x), m.data.file = c.file, m.block = c.block % BlockModulus
    PROVE  /\ c.block <= x
           /\ ~Confused(c) => x = c.block /\ m.data = Data(c.file, x)
<1>1. /\ c.block \in Nat /\ DownloadWindow \in Nat /\ BlockModulus \in Nat
      /\ BlockModulus > DownloadWindow /\ DownloadWindow >= 1
  BY RecentFiles, Sizes
<1>2. x % BlockModulus = c.block % BlockModulus /\ c.block <= x + DownloadWindow
  BY DEF MessageRight, NumberRight, Taken
<1>3. ASSUME x < c.block PROVE FALSE
  <2>1. c.block < x + BlockModulus /\ x < c.block + BlockModulus
    BY <1>1, <1>2, <1>3
  <2>2. x = c.block
    BY <1>1, <1>2, <2>1, SameNumber
  <2>3. QED
    BY <1>1, <1>3, <2>2
<1>4. ASSUME ~Confused(c) PROVE x = c.block /\ m.data = Data(c.file, x)
  <2>1. x < c.block + DownloadWindow /\ (m.data = Data(c.file, x) \/ x < c.block)
    BY <1>4 DEF MessageRight
  <2>2. c.block < x + BlockModulus /\ x < c.block + BlockModulus
    BY <1>1, <1>2, <2>1
  <2>3. x = c.block
    BY <1>1, <1>2, <2>2, SameNumber
  <2>4. QED
    BY <1>3, <2>1, <2>3
<1>5. QED
  BY <1>1, <1>3, <1>4

LEMMA MistakenNumber ==
    ASSUME NEW c \in Clients, NEW s, NEW m \in BlockMessages, NEW x \in Nat,
           MessageRight(s, c, m, x), m.data.file # c.file, m.block = c.block % BlockModulus,
           m.block = 0 => (m.sized <=> c.block = 0)
    PROVE  /\ c.file > 1 /\ m.data.file = c.file - 1 /\ x = c.block
           /\ Blocks[c.file - 1] < DownloadWindow
           /\ Empty(m.data) => Confused(c) /\ x <= Blocks[c.file - 1]
           /\ ~Empty(m.data) => x < Blocks[c.file - 1]
<1> DEFINE g == c.file - 1
<1>1. m.data.file = g /\ c.file > 1 /\ g \in Recent(c) /\ c.file \in Nat
  <2>1. m.data.file \in Recent(c)
    BY DEF MessageRight
  <2>2. QED
    BY <2>1, RecentFiles DEF Clients
<1>2. /\ c.block \in Nat /\ DownloadWindow \in Nat /\ BlockModulus \in Nat
      /\ BlockModulus > DownloadWindow /\ DownloadWindow >= 1
      /\ Blocks[g] \in Nat /\ Blocks[g] >= 1 /\ Taken(c, g) = Blocks[g] + 1
  BY <1>1, RecentFiles, Sizes
<1>3. /\ OfFileBefore(c, g) /\ x <= Blocks[g] /\ m.block = x % BlockModulus
      /\ m.sized = (x = 0) /\ (x = 0 => m.data.index = 0)
      /\ m.data = Data(g, x) \/ x < Blocks[g]
      /\ Blocks[g] + 1 <= x + DownloadWindow
  BY <1>1, <1>2 DEF MessageRight, NumberRight
<1> HIDE DEF g
<1>4. CASE c.block = 0
  <2>1. m.block = 0
    BY <1>2, <1>4
  <2>2. x = 0
    BY <1>3, <1>4, <2>1
  <2>3. ~Empty(m.data)
    <3>1. g # 0 /\ m.data.file = g /\ m.data.index = 0
      BY <1>1, <1>3, <2>2 DEF g
    <3>2. QED
      BY <1>2, <3>1 DEF Empty
  <2>4. QED
    BY <1>1, <1>2, <1>3, <1>4, <2>2, <2>3 DEF g
<1>5. CASE c.block # 0
  <2>1. Confused(c) /\ Blocks[g] < DownloadWindow /\ c.block <= Blocks[g]
    BY <1>3, <1>5 DEF OfFileBefore
  <2>2. c.block < x + BlockModulus /\ x < c.block + BlockModulus
    BY <1>2, <1>3, <2>1
  <2>3. x = c.block
    BY <1>2, <1>3, <2>2, SameNumber
  <2>4. ~Empty(m.data) => x < Blocks[g]
    <3>1. m.data = Data(g, x) => m.data.index = x
      BY DEF Data
    <3>2. x = Blocks[g] => m.data = Data(g, x)
      BY <1>2, <1>3
    <3>3. QED
      BY <1>1, <1>2, <1>3, <3>1, <3>2 DEF Empty, g
  <2>5. QED
    BY <1>1, <1>3, <2>1, <2>3, <2>4 DEF g
<1>6. QED
  BY <1>4, <1>5

\* What it stores.
LEMMA StoredNext ==
    ASSUME NEW c, ClientRight(c), c.state = "downloading", NEW data \in Contents,
           NEW d, d.file = c.file, d.block = c.block + 1,
           d.stored = IF Empty(data) THEN c.stored ELSE Append(c.stored, data),
           d.state = "downloading" => ~Empty(data),
           d.state = "complete" => ~Confused(c) /\ Empty(data),
           ~Confused(c) => (data.file # c.file /\ ~Empty(data)) \/ data = Data(c.file, c.block)
    PROVE  /\ StoredRight(d)
           /\ Confused(d) <=> Confused(c) \/ (~Empty(data) /\ data.file # c.file)
<1>1. /\ c.stored \in Seq(Contents) /\ c.block \in Nat /\ c.file \in 1..FileCount /\ StoredRight(c)
      /\ Blocks[c.file] \in Nat /\ Blocks[c.file] >= 1 /\ FileCount \in Nat
  BY Sizes DEF ClientRight, Clients
<1>2. Confused(d) <=> Confused(c) \/ (~Empty(data) /\ data.file # c.file)
  <2>1. CASE Empty(data)
    BY <2>1 DEF Confused
  <2>2. CASE ~Empty(data)
    <3>1. d.stored = Append(c.stored, data)
      BY <2>2
    <3>2. /\ DOMAIN d.stored = 1..(Len(c.stored) + 1) /\ DOMAIN c.stored = 1..Len(c.stored)
          /\ Len(c.stored) \in Nat
          /\ \A k \in 1..Len(c.stored) : d.stored[k] = c.stored[k]
          /\ d.stored[Len(c.stored) + 1] = data
      BY <1>1, <3>1
    <3>3. \A k \in DOMAIN d.stored : k \in DOMAIN c.stored \/ k = Len(c.stored) + 1
      BY <3>2
    <3>4. \A k \in DOMAIN c.stored : k \in DOMAIN d.stored
      BY <3>2
    <3>5. Len(c.stored) + 1 \in DOMAIN d.stored
      BY <3>2
    <3>6. QED
      BY <2>2, <3>2, <3>3, <3>4, <3>5 DEF Confused
  <2>3. QED
    BY <2>1, <2>2
<1>3. ASSUME ~Confused(d)
      PROVE  /\ d.block <= Blocks[d.file] + 1
             /\ d.stored = [k \in 1..(IF d.block <= Blocks[d.file] THEN d.block ELSE Blocks[d.file])
                             |-> Data(d.file, k - 1)]
             /\ d.state = "downloading" => d.block <= Blocks[d.file]
  <2> DEFINE f == c.file
  <2>1. ~Confused(c) /\ data = Data(f, c.block)
    BY <1>2, <1>3
  <2>2. c.block <= Blocks[f] /\ c.stored = [k \in 1..c.block |-> Data(f, k - 1)]
    BY <1>1, <2>1 DEF StoredRight
  <2>3. Empty(data) <=> c.block = Blocks[f]
    <3>1. data.file = f /\ data.index = c.block /\ f # 0
      BY <1>1, <2>1 DEF Data
    <3>2. QED
      BY <3>1 DEF Empty
  <2>4. CASE Empty(data)
    <3>1. d.stored = c.stored /\ c.block = Blocks[f] /\ d.block = Blocks[f] + 1 /\ d.file = f
      BY <2>3, <2>4
    <3>2. d.stored = [k \in 1..Blocks[f] |-> Data(f, k - 1)]
      BY <2>2, <3>1
    <3>3. ~(d.block <= Blocks[d.file]) /\ d.block <= Blocks[d.file] + 1
      BY <1>1, <3>1
    <3>4. QED
      BY <2>4, <3>1, <3>2, <3>3
  <2>5. CASE ~Empty(data)
    <3>1. c.block # Blocks[f] /\ c.block < Blocks[f] /\ d.block <= Blocks[d.file] /\ d.file = f
      BY <1>1, <2>2, <2>3, <2>5
    <3>2. d.stored = Append(c.stored, data)
      BY <2>5
    <3>3. d.stored = [k \in 1..d.block |-> Data(f, k - 1)]
      <4> DEFINE whole == [k \in 1..d.block |-> Data(f, k - 1)]
      <4>1. whole \in Seq(Contents)
        <5>1. \A k \in 1..d.block : Data(f, k - 1) \in Contents
          BY <1>1 DEF Data, Contents
        <5>2. d.block \in Nat
          BY <1>1
        <5>3. QED
          BY <5>1, <5>2
      <4>2. Len(c.stored) = c.block /\ Len(whole) = d.block
        BY <1>1, <2>2
      <4>3. d.stored \in Seq(Contents) /\ Len(d.stored) = c.block + 1
        BY <1>1, <3>2, <4>2
      <4>4. ASSUME NEW k \in 1..(c.block + 1) PROVE d.stored[k] = Data(f, k - 1)
        <5>1. CASE k = c.block + 1
          BY <1>1, <2>1, <3>2, <4>2, <5>1
        <5>2. CASE k # c.block + 1
          <6>1. k \in 1..c.block
            BY <1>1, <5>2
          <6>2. d.stored[k] = c.stored[k]
            BY <1>1, <3>2, <4>2, <6>1
          <6>3. QED
            BY <2>2, <6>1, <6>2
        <5>3. QED
          BY <5>1, <5>2
      <4>5. d.stored = [k \in 1..(c.block + 1) |-> d.stored[k]]
        BY <1>1, <4>3
      <4>6. d.stored = [k \in 1..(c.block + 1) |-> Data(f, k - 1)]
        BY <4>4, <4>5
      <4>7. QED
        BY <4>6
    <3>4. d.block <= Blocks[d.file] + 1
      BY <1>1, <3>1
    <3>5. QED
      BY <3>1, <3>3, <3>4
  <2>6. QED
    BY <2>4, <2>5
<1>4. d.state = "complete" => ~Confused(d)
  BY <1>2
<1>5. QED
  BY <1>2, <1>3, <1>4 DEF StoredRight

\* What CL_ParseDownload makes of the client that takes a block.
Took(c, data, d) ==
    /\ d \in Clients
    /\ d.file = c.file /\ d.block = c.block + 1
    /\ d.stored = IF Empty(data) THEN c.stored ELSE Append(c.stored, data)
    /\ d.commands = Append(c.commands, Command("nextdl", c.block))

LEMMA BlockTaken ==
    ASSUME NEW c, ClientRight(c), c.state = "downloading", NEW s, ServerRight(s, c),
           NEW messages, MessagesRight(s, c, messages), NEW i \in 1..Len(messages),
           NEW m, m = messages[i], ~m.refused, m.block = c.block % BlockModulus,
           m.block = 0 => (m.sized <=> c.block = 0),
           NEW d, Took(c, m.data, d),
           d.state = "downloading" => ~Empty(m.data),
           d.state = "complete" => Empty(m.data) /\ ~Confused(c) /\ c.file = FileCount,
           NEW rest, rest = SubSeq(messages, i + 1, Len(messages))
    PROVE  /\ ClientRight(d) /\ ServerRight(s, d) /\ MessagesRight(s, d, rest)
           /\ Len(d.commands) = Len(c.commands) + 1
<1>1. PICK N \in [1..Len(messages) -> Nat] : NumbersRight(s, c, messages, N)
  BY DEF MessagesRight
<1> DEFINE x == N[i]
<1>2. messages \in Seq(BlockMessages) /\ c \in Clients
  BY DEF MessagesRight, ClientRight
<1>3. m \in BlockMessages /\ x \in Nat /\ MessageRight(s, c, m, x)
  <2>1. m \in BlockMessages
    BY <1>2
  <2>2. x \in Nat
    BY <1>1
  <2>3. QED
    BY <1>1, <2>1, <2>2 DEF NumbersRight
<1> HIDE DEF x
<1>4. /\ d \in Clients /\ d.file = c.file /\ d.block = c.block + 1
      /\ d.stored = IF Empty(m.data) THEN c.stored ELSE Append(c.stored, m.data)
      /\ d.commands = Append(c.commands, Command("nextdl", c.block))
  BY DEF Took
<1>5. m.data \in Contents /\ c.block \in Nat /\ c.file \in 1..FileCount /\ c.file # 0
      /\ Blocks[c.file] \in Nat
  BY <1>2, <1>3, Sizes DEF BlockMessages, Clients
<1>6. CASE m.data.file = c.file
  <2>1. /\ c.block <= x
        /\ ~Confused(c) => x = c.block /\ m.data = Data(c.file, x)
    BY <1>2, <1>3, <1>6, GenuineNumber
  <2>2. StoredRight(d) /\ (Confused(d) <=> Confused(c))
    <3>1. ~Confused(c) => m.data = Data(c.file, c.block)
      BY <2>1
    <3>2. /\ StoredRight(d)
          /\ Confused(d) <=> Confused(c) \/ (~Empty(m.data) /\ m.data.file # c.file)
      BY <1>4, <1>5, <3>1, StoredNext
    <3>3. QED
      BY <1>6, <3>2
  <2>3. d.state = "complete" => c.file = FileCount /\ c.block = Blocks[c.file]
    <3>1. SUFFICES ASSUME d.state = "complete" PROVE c.block = Blocks[c.file]
      OBVIOUS
    <3>2. m.data = Data(c.file, c.block) /\ Empty(m.data)
      BY <2>1, <3>1
    <3>3. QED
      BY <1>5, <3>2 DEF Empty, Data
  <2>4. CommandsRight(d) /\ Len(d.commands) = Len(c.commands) + 1
    BY <1>4, <2>3, ClientSays
  <2>5. OneMore(c, d)
    BY <1>4, <2>4 DEF OneMore
  <2>6. /\ ServerRight(s, d)
        /\ \A n \in BlockMessages : \A y \in Nat :
              MessageRight(s, c, n, y) /\ PairRight(m, x, n, y) => MessageRight(s, d, n, y)
        /\ Start[c.file] <= s.lastClientCommand
    BY <1>3, <1>6, <2>1, <2>2, <2>5, TookBlock
  <2>7. ~(s.lastClientCommand < Start[d.file])
    <3>1. Start[c.file] \in Nat /\ s.lastClientCommand \in Nat
      BY <1>2, RecentFiles DEF ServerRight, Servers
    <3>2. QED
      BY <1>4, <2>6, <3>1
  <2>8. d.state = "downloading" =>
          \E P \in [1..Len(messages) -> Nat] :
             /\ NumbersRight(s, c, messages, P)
             /\ \A n \in BlockMessages : \A y \in Nat :
                   /\ MessageRight(s, c, n, y)
                   /\ ~messages[i].refused => PairRight(messages[i], P[i], n, y)
                   => MessageRight(s, d, n, y)
             /\ s.lastClientCommand < Start[d.file] /\ d.file > 1 => OfFileBefore(d, d.file - 1)
    <3>1. SUFFICES ASSUME d.state = "downloading"
                   PROVE  /\ \A n \in BlockMessages : \A y \in Nat :
                                /\ MessageRight(s, c, n, y)
                                /\ ~messages[i].refused => PairRight(messages[i], N[i], n, y)
                                => MessageRight(s, d, n, y)
                          /\ s.lastClientCommand < Start[d.file] /\ d.file > 1 =>
                                OfFileBefore(d, d.file - 1)
      BY <1>1, Zenon
    <3>2. QED
      BY <2>6, <2>7 DEF x
  <2>9. MessagesRight(s, d, rest)
    BY <2>8, MessagesLeft
  <2>10. QED
    BY <1>4, <2>2, <2>4, <2>6, <2>9 DEF ClientRight
<1>7. CASE m.data.file # c.file
  <2>1. /\ c.file > 1 /\ m.data.file = c.file - 1 /\ x = c.block
        /\ Blocks[c.file - 1] < DownloadWindow
        /\ Empty(m.data) => Confused(c) /\ x <= Blocks[c.file - 1]
        /\ ~Empty(m.data) => x < Blocks[c.file - 1]
    BY <1>2, <1>3, <1>7, MistakenNumber
  <2>2. StoredRight(d) /\ Confused(d)
    <3>1. ~Confused(c) => (m.data.file # c.file /\ ~Empty(m.data)) \/ m.data = Data(c.file, c.block)
      BY <1>7, <2>1
    <3>2. d.state = "complete" => ~Confused(c) /\ Empty(m.data)
      OBVIOUS
    <3>3. /\ StoredRight(d)
          /\ Confused(d) <=> Confused(c) \/ (~Empty(m.data) /\ m.data.file # c.file)
      BY <1>4, <1>5, <3>1, <3>2, StoredNext
    <3>4. QED
      BY <1>7, <2>1, <3>3
  <2>3. d.state # "complete"
    BY <2>1
  <2>4. CommandsRight(d) /\ Len(d.commands) = Len(c.commands) + 1
    BY <1>4, <2>3, ClientSays
  <2>5. OneMore(c, d)
    BY <1>4, <2>4 DEF OneMore
  <2>6. Blocks[c.file - 1] \in Nat /\ DownloadWindow \in Nat
    BY <1>2, <2>1, RecentFiles, Sizes
  <2>7. d.block <= DownloadWindow /\ (d.state = "downloading" => d.block <= Blocks[c.file - 1])
    BY <1>4, <1>5, <2>1, <2>6
  <2>8. /\ ServerRight(s, d)
        /\ c.file > 1 /\ Blocks[c.file - 1] < DownloadWindow /\ d.block <= Blocks[c.file - 1] =>
             /\ \A n \in BlockMessages : \A y \in Nat :
                   MessageRight(s, c, n, y) => MessageRight(s, d, n, y)
             /\ OfFileBefore(d, c.file - 1)
    BY <2>2, <2>5, <2>7, MistookBlock
  <2>9. d.state = "downloading" =>
          \E P \in [1..Len(messages) -> Nat] :
             /\ NumbersRight(s, c, messages, P)
             /\ \A n \in BlockMessages : \A y \in Nat :
                   /\ MessageRight(s, c, n, y)
                   /\ ~messages[i].refused => PairRight(messages[i], P[i], n, y)
                   => MessageRight(s, d, n, y)
             /\ s.lastClientCommand < Start[d.file] /\ d.file > 1 => OfFileBefore(d, d.file - 1)
    <3>1. SUFFICES ASSUME d.state = "downloading"
                   PROVE  /\ \A n \in BlockMessages : \A y \in Nat :
                                /\ MessageRight(s, c, n, y)
                                /\ ~messages[i].refused => PairRight(messages[i], N[i], n, y)
                                => MessageRight(s, d, n, y)
                          /\ s.lastClientCommand < Start[d.file] /\ d.file > 1 =>
                                OfFileBefore(d, d.file - 1)
      BY <1>1, Zenon
    <3>2. QED
      BY <1>4, <2>1, <2>7, <2>8, <3>1
  <2>10. MessagesRight(s, d, rest)
    BY <2>9, MessagesLeft
  <2>11. QED
    BY <1>4, <2>2, <2>4, <2>8, <2>10 DEF ClientRight
<1>8. QED
  BY <1>6, <1>7

\* The client has not moved, though it may have given up or said more.
LEMMA NotMoved ==
    ASSUME NEW c \in Clients, NEW d \in Clients, NEW s, ServerRight(s, c),
           d.file = c.file, d.block = c.block, d.stored = c.stored,
           Len(c.commands) <= Len(d.commands)
    PROVE  /\ ServerRight(s, d)
           /\ \A n \in BlockMessages : \A y \in Nat :
                 MessageRight(s, c, n, y) => MessageRight(s, d, n, y)
<1>1. /\ Recent(d) = Recent(c) /\ (Confused(d) <=> Confused(c))
      /\ \A f : Taken(d, f) = Taken(c, f)
  BY DEF Recent, Confused, Taken
<1>2. Len(c.commands) \in Nat /\ Len(d.commands) \in Nat
  BY DEF Clients
<1>3. PositionRight(s, d)
  <2>1. PositionRight(s, c) /\ s.lastClientCommand \in Nat
    BY DEF ServerRight, Servers
  <2>2. ASSUME NEW f \in Recent(d), NEW b \in 0..Taken(d, f), s.lastClientCommand = Start[f] + b
        PROVE  AtBlock(s, d, f, b)
    <3>1. AtBlock(s, c, f, b)
      BY <1>1, <2>1, <2>2 DEF PositionRight
    <3>2. QED
      BY <1>1, <3>1 DEF AtBlock, InStepAt
  <2>3. s.lastClientCommand <= Len(d.commands)
    BY <1>2, <2>1 DEF PositionRight
  <2>4. QED
    BY <2>1, <2>2, <2>3 DEF PositionRight
<1>4. SentRight(s, d)
  <2>1. SentRight(s, c)
    BY DEF ServerRight
  <2>2. QED
    BY <1>1, <2>1 DEF SentRight, NotSent, FewMistaken
<1>5. ASSUME NEW n, NEW y, MessageRight(s, c, n, y) PROVE MessageRight(s, d, n, y)
  BY <1>1, <1>5 DEF MessageRight, NumberRight, OfFileBefore
<1>6. QED
  BY <1>3, <1>4, <1>5 DEF ServerRight

\* The client has its file, and asks for the next one.
Begins(c, d) ==
    /\ c.file + 1 \in 1..FileCount /\ c.block = Blocks[c.file] /\ ~Confused(c)
    /\ d \in Clients /\ d.state = "downloading"
    /\ d.file = c.file + 1 /\ d.block = 0 /\ d.stored = <<>>
    /\ d.commands = Append(Append(c.commands, Command("nextdl", c.block)),
                           Command("download", c.file + 1))

LEMMA FilesAt ==
    ASSUME NEW c, ClientRight(c), c.state = "downloading", NEW d, Begins(c, d)
    PROVE  /\ c \in Clients /\ d \in Clients /\ c.file \in 1..FileCount /\ c.file # d.file
           /\ \A f \in Recent(d) : f = c.file \/ f = d.file
           /\ c.file \in Recent(d) /\ c.file \in Recent(c) /\ d.file - 1 = c.file
           /\ Start[c.file] \in Nat /\ Start[c.file] >= 1
           /\ Blocks[c.file] \in Nat /\ Blocks[c.file] >= 1
           /\ Start[d.file] = Start[c.file] + Blocks[c.file] + 2
           /\ Len(c.commands) = Start[c.file] + Blocks[c.file]
           /\ Taken(c, c.file) = Blocks[c.file] /\ Taken(d, c.file) = Blocks[c.file] + 1
           /\ Taken(d, d.file) = 0
           /\ d.block = 0 /\ c.file \in Nat /\ d.file > c.file /\ d.file > 1
           /\ ~Confused(c)
<1>1. c \in Clients /\ CommandsRight(c) /\ d \in Clients
  BY DEF ClientRight, Begins
<1>2. c.file \in 1..FileCount /\ c.file \in Nat /\ FileCount \in Nat /\ d.file = c.file + 1
      /\ c.file \in Recent(c)
  BY <1>1, Sizes, RecentFiles DEF Begins
<1>3. d.file > 1 /\ d.file - 1 = c.file
  BY <1>2
<1>4. /\ c.file \in Recent(d)
      /\ Start[d.file] = Start[c.file] + Blocks[c.file] + 2
      /\ Taken(d, c.file) = Blocks[c.file] + 1
      /\ \A f \in Recent(d) : f = d.file \/ f = d.file - 1
  BY <1>1, <1>3, RecentFiles
<1>5. /\ Start[c.file] \in Nat /\ Start[c.file] >= 1
      /\ Blocks[c.file] \in Nat /\ Blocks[c.file] >= 1
  BY <1>1, <1>2, RecentFiles
<1>6. Len(c.commands) = Start[c.file] + Blocks[c.file]
  BY <1>1 DEF CommandsRight, Begins
<1>7. Taken(c, c.file) = Blocks[c.file] /\ Taken(d, d.file) = 0 /\ d.block = 0 /\ ~Confused(c)
  BY DEF Taken, Begins
<1>8. QED
  BY <1>1, <1>2, <1>3, <1>4, <1>5, <1>6, <1>7

LEMMA BeginnerRight ==
    ASSUME NEW c, ClientRight(c), c.state = "downloading", NEW d, Begins(c, d)
    PROVE  ClientRight(d) /\ Len(d.commands) = Len(c.commands) + 2
<1> DEFINE f == c.file
           b == Blocks[f]
<1>1. /\ f # d.file /\ d \in Clients /\ c \in Clients
      /\ \A g \in Recent(d) : g = f \/ g = d.file
      /\ Start[f] \in Nat /\ Start[f] >= 1 /\ b \in Nat /\ f \in Recent(c)
      /\ Start[d.file] = Start[f] + b + 2
      /\ Len(c.commands) = Start[f] + b
      /\ Taken(c, f) = b /\ Taken(d, f) = b + 1 /\ Taken(d, d.file) = 0
      /\ d.block = 0
  BY FilesAt
<1>2. /\ c.commands \in Seq(Commands) /\ CommandsRight(c)
      /\ d.state = "downloading" /\ d.stored = <<>> /\ d.file = f + 1 /\ c.block = b
      /\ d.commands = Append(Append(c.commands, Command("nextdl", b)), Command("download", f + 1))
  BY <1>1 DEF Begins, ClientRight, Clients
<1> HIDE DEF f, b
<1>3. /\ Len(d.commands) = Len(c.commands) + 2
      /\ \A k \in 1..Len(c.commands) : d.commands[k] = c.commands[k]
      /\ d.commands[Len(c.commands) + 1] = Command("nextdl", b)
      /\ d.commands[Len(c.commands) + 2] = Command("download", f + 1)
  BY <1>2
<1>4. ASSUME NEW g \in Recent(d)
      PROVE  /\ d.commands[Start[g]] = Command("download", g)
             /\ \A k \in 0..(Taken(d, g) - 1) :
                   d.commands[Start[g] + 1 + k] = Command("nextdl", k)
  <2>1. CASE g = d.file
    <3>1. Start[g] = Len(c.commands) + 2 /\ Taken(d, g) = 0
      BY <1>1, <2>1
    <3>2. d.commands[Start[g]] = Command("download", g)
      BY <1>2, <1>3, <2>1, <3>1
    <3>3. QED
      BY <3>1, <3>2
  <2>2. CASE g = f
    <3>1. /\ c.commands[Start[f]] = Command("download", f)
          /\ \A k \in 0..(b - 1) : c.commands[Start[f] + 1 + k] = Command("nextdl", k)
      BY <1>1, <1>2 DEF CommandsRight
    <3>2. Start[f] \in 1..Len(c.commands)
      BY <1>1
    <3>3. ASSUME NEW k \in 0..b PROVE d.commands[Start[f] + 1 + k] = Command("nextdl", k)
      <4>1. CASE k = b
        <5>1. Start[f] + 1 + k = Len(c.commands) + 1
          BY <1>1, <4>1
        <5>2. QED
          BY <1>3, <4>1, <5>1
      <4>2. CASE k # b
        <5>1. k \in 0..(b - 1) /\ Start[f] + 1 + k \in 1..Len(c.commands)
          BY <1>1, <4>2
        <5>2. QED
          BY <1>3, <3>1, <5>1
      <4>3. QED
        BY <4>1, <4>2
    <3>4. Taken(d, g) - 1 = b
      BY <1>1, <2>2
    <3>5. QED
      BY <1>3, <2>2, <3>1, <3>2, <3>3, <3>4
  <2>3. QED
    BY <1>1, <2>1, <2>2
<1>5. Len(d.commands) = Start[d.file] + d.block
  BY <1>1, <1>3
<1>6. CommandsRight(d)
  <2>1. d.state # "complete"
    BY <1>2
  <2>2. QED
    BY <1>4, <1>5, <2>1 DEF CommandsRight
<1>7. StoredRight(d)
  <2>1. d.file \in 1..FileCount
    BY <1>1 DEF Clients
  <2>2. Blocks[d.file] \in Nat
    BY <2>1, Sizes
  <2>3. <<>> = [k \in 1..0 |-> Data(d.file, k - 1)]
    OBVIOUS
  <2>4. QED
    BY <1>1, <1>2, <2>2, <2>3 DEF StoredRight
<1>8. QED
  BY <1>1, <1>3, <1>6, <1>7 DEF ClientRight

LEMMA BeginnerServed ==
    ASSUME NEW c, ClientRight(c), c.state = "downloading", NEW s, ServerRight(s, c),
           NEW d, Begins(c, d), ClientRight(d), Len(d.commands) = Len(c.commands) + 2,
           NEW m \in BlockMessages, NEW x \in Nat, MessageRight(s, c, m, x),
           m.data.file = c.file, x = c.block
    PROVE  /\ ServerRight(s, d)
           /\ \A n \in BlockMessages : \A y \in Nat :
                 MessageRight(s, c, n, y) /\ PairRight(m, x, n, y) => MessageRight(s, d, n, y)
<1> DEFINE f == c.file
           b == Blocks[f]
<1>1. /\ f # d.file /\ d \in Clients /\ c \in Clients
      /\ \A g \in Recent(d) : g = f \/ g = d.file
      /\ Start[f] \in Nat /\ Start[f] >= 1 /\ b \in Nat /\ b >= 1 /\ f \in Recent(d) /\ f \in Recent(c)
      /\ Start[d.file] = Start[f] + b + 2 /\ d.file - 1 = f
      /\ Len(c.commands) = Start[f] + b
      /\ Taken(c, f) = b /\ Taken(d, f) = b + 1 /\ Taken(d, d.file) = 0
      /\ d.block = 0 /\ ~Confused(c) /\ x = b /\ f \in Nat /\ d.file > f
  <2>1. x = b
    BY DEF Begins
  <2>2. QED
    BY <2>1, FilesAt
<1>2. /\ s \in Servers /\ PositionRight(s, c) /\ SentRight(s, c) /\ WindowRight(s)
      /\ s.lastClientCommand \in Nat /\ s.current \in Nat /\ s.xmit \in Nat /\ DownloadWindow \in Nat
  BY Sizes DEF ServerRight, Servers
<1>3. /\ Start[f] <= s.lastClientCommand
      /\ s.name = f /\ s.open
      /\ x < s.current /\ x + 1 <= s.xmit + DownloadWindow
  BY <1>1 DEF MessageRight
<1>4. s.lastClientCommand <= Start[f] + b
  BY <1>1, <1>2 DEF PositionRight
<1> HIDE DEF f, b
<1>5. PositionRight(s, d)
  <2>1. ASSUME NEW g \in Recent(d), NEW k \in 0..Taken(d, g), s.lastClientCommand = Start[g] + k
        PROVE  AtBlock(s, d, g, k)
    <3>1. g = f
      <4>1. CASE g = d.file
        BY <1>1, <1>2, <1>4, <2>1, <4>1
      <4>2. QED
        BY <1>1, <4>1
    <3>2. k \in 0..Taken(c, f)
      BY <1>1, <1>2, <1>4, <2>1, <3>1
    <3>3. AtBlock(s, c, f, k)
      BY <1>1, <1>2, <2>1, <3>1, <3>2 DEF PositionRight
    <3>4. InStepAt(s, c, f, k)
      BY <1>1, <3>3 DEF AtBlock
    <3>5. InStepAt(s, d, f, k)
      BY <1>3, <3>4 DEF InStepAt
    <3>6. QED
      BY <3>1, <3>3, <3>5 DEF AtBlock
  <2>2. s.lastClientCommand <= Len(d.commands)
    BY <1>1, <1>2, <1>4
  <2>3. Start[d.file - 1] <= s.lastClientCommand
    BY <1>1, <1>3
  <2>4. s.lastClientCommand # 0
    BY <1>1, <1>2, <1>3
  <2>5. ~(s.lastClientCommand > Start[d.file] + d.block)
    BY <1>1, <1>2, <1>4
  <2>6. QED
    BY <2>1, <2>2, <2>3, <2>4, <2>5 DEF PositionRight
<1>6. SentRight(s, d)
  <2>1. Taken(d, s.name) <= s.xmit + DownloadWindow /\ Taken(d, s.name) <= s.current
    BY <1>1, <1>2, <1>3
  <2>2. FewMistaken(d)
    BY <1>1 DEF FewMistaken
  <2>3. QED
    BY <2>1, <2>2 DEF SentRight
<1>7. ASSUME NEW n \in BlockMessages, NEW y \in Nat, MessageRight(s, c, n, y), PairRight(m, x, n, y)
      PROVE  MessageRight(s, d, n, y)
  <2>1. n.data.file \in Recent(c) /\ f <= n.data.file
    BY <1>7 DEF MessageRight, PairRight, f
  <2>2. n.data.file = f
    BY <1>1, <2>1, RecentFiles DEF f
  <2>3. x + 1 <= y + DownloadWindow
    BY <1>7, <2>2 DEF PairRight, f
  <2>4. NumberRight(d, n, f, y)
    <3>1. Taken(d, f) <= y + DownloadWindow
      BY <1>1, <2>3
    <3>2. QED
      BY <1>7, <2>2, <3>1 DEF MessageRight, NumberRight
  <2>5. OfFileBefore(d, f)
    BY <1>1 DEF OfFileBefore
  <2>6. QED
    BY <1>1, <1>7, <2>2, <2>4, <2>5 DEF MessageRight
<1>8. QED
  BY <1>2, <1>5, <1>6, <1>7 DEF ServerRight

LEMMA FileBegun ==
    ASSUME NEW c, ClientRight(c), c.state = "downloading", NEW s, ServerRight(s, c),
           NEW messages, MessagesRight(s, c, messages), NEW i \in 1..Len(messages),
           NEW m, m = messages[i], ~m.refused, m.block = c.block % BlockModulus,
           m.block = 0 => (m.sized <=> c.block = 0), Empty(m.data),
           NEW d, Begins(c, d),
           NEW rest, rest = SubSeq(messages, i + 1, Len(messages))
    PROVE  /\ ClientRight(d) /\ ServerRight(s, d) /\ MessagesRight(s, d, rest)
           /\ Len(d.commands) = Len(c.commands) + 2
<1>1. PICK N \in [1..Len(messages) -> Nat] : NumbersRight(s, c, messages, N)
  BY DEF MessagesRight
<1> DEFINE x == N[i]
<1>2. messages \in Seq(BlockMessages) /\ c \in Clients
  BY DEF MessagesRight, ClientRight
<1>3. m \in BlockMessages /\ x \in Nat /\ MessageRight(s, c, m, x)
  <2>1. m \in BlockMessages
    BY <1>2
  <2>2. x \in Nat
    BY <1>1
  <2>3. QED
    BY <1>1, <2>1, <2>2 DEF NumbersRight
<1> HIDE DEF x
<1>4. m.data.file = c.file /\ x = c.block
  <2>1. ~Confused(c)
    BY FilesAt
  <2>2. m.data.file = c.file
    BY <1>2, <1>3, <2>1, MistakenNumber
  <2>3. QED
    BY <1>2, <1>3, <2>1, <2>2, GenuineNumber
<1>5. ClientRight(d) /\ Len(d.commands) = Len(c.commands) + 2
  BY BeginnerRight
<1>6. /\ ServerRight(s, d)
      /\ \A n \in BlockMessages : \A y \in Nat :
            MessageRight(s, c, n, y) /\ PairRight(m, x, n, y) => MessageRight(s, d, n, y)
  BY <1>3, <1>4, <1>5, BeginnerServed
<1>7. OfFileBefore(d, d.file - 1)
  BY DEF OfFileBefore, Begins
<1>8. /\ NumbersRight(s, c, messages, N)
      /\ \A n \in BlockMessages : \A y \in Nat :
            /\ MessageRight(s, c, n, y)
            /\ ~messages[i].refused => PairRight(messages[i], N[i], n, y)
            => MessageRight(s, d, n, y)
      /\ s.lastClientCommand < Start[d.file] /\ d.file > 1 => OfFileBefore(d, d.file - 1)
  BY <1>1, <1>6, <1>7 DEF x
<1>9. MessagesRight(s, d, rest)
  BY <1>8, MessagesLeft
<1>10. QED
  BY <1>5, <1>6, <1>9

-----------------------------------------------------------------------------
\* Lemmas: the client's steps.

\* What a step of the client leaves right.
ClientStepRight ==
    /\ ClientRight(cl') /\ ServerRight(sv, cl')
    /\ MessagesRight(sv, cl', toClient') /\ PacketsRight(cl', toServer')

LEMMA NoProgress ==
    ASSUME IInv, NEW i \in 1..Len(toClient), ToClient!Overtake(i), toServer' = toServer,
           ClientRight(cl'), cl'.state = "downloading" => cl.state = "downloading",
           cl'.file = cl.file, cl'.block = cl.block, cl'.stored = cl.stored,
           Len(cl.commands) <= Len(cl'.commands)
    PROVE  ClientStepRight
<1>1. /\ cl \in Clients /\ cl' \in Clients /\ ServerRight(sv, cl) /\ MessagesRight(sv, cl, toClient)
      /\ PacketsRight(cl, toServer)
  BY DEF IInv, ClientRight
<1>2. /\ ServerRight(sv, cl')
      /\ \A n \in BlockMessages : \A y \in Nat :
            MessageRight(sv, cl, n, y) => MessageRight(sv, cl', n, y)
  BY <1>1, NotMoved
<1>3. toClient' = SubSeq(toClient, i + 1, Len(toClient))
  BY DEF ToClient!Overtake
<1>4. cl'.state = "downloading" =>
        \E N \in [1..Len(toClient) -> Nat] :
           /\ NumbersRight(sv, cl, toClient, N)
           /\ \A n \in BlockMessages : \A y \in Nat :
                 /\ MessageRight(sv, cl, n, y)
                 /\ ~toClient[i].refused => PairRight(toClient[i], N[i], n, y)
                 => MessageRight(sv, cl', n, y)
           /\ sv.lastClientCommand < Start[cl'.file] /\ cl'.file > 1 => OfFileBefore(cl', cl'.file - 1)
  <2>1. SUFFICES ASSUME cl'.state = "downloading" PROVE
        \E N \in [1..Len(toClient) -> Nat] :
           /\ NumbersRight(sv, cl, toClient, N)
           /\ \A n \in BlockMessages : \A y \in Nat :
                 /\ MessageRight(sv, cl, n, y)
                 /\ ~toClient[i].refused => PairRight(toClient[i], N[i], n, y)
                 => MessageRight(sv, cl', n, y)
           /\ sv.lastClientCommand < Start[cl'.file] /\ cl'.file > 1 => OfFileBefore(cl', cl'.file - 1)
    OBVIOUS
  <2>2. /\ \E N \in [1..Len(toClient) -> Nat] : NumbersRight(sv, cl, toClient, N)
        /\ sv.lastClientCommand < Start[cl.file] /\ cl.file > 1 => OfFileBefore(cl, cl.file - 1)
    BY <1>1, <2>1 DEF MessagesRight
  <2>3. OfFileBefore(cl, cl.file - 1) => OfFileBefore(cl', cl'.file - 1)
    BY DEF OfFileBefore, Confused
  <2>4. sv.lastClientCommand < Start[cl'.file] /\ cl'.file > 1 => OfFileBefore(cl', cl'.file - 1)
    BY <2>2, <2>3
  <2>5. QED
    BY <1>2, <2>2, <2>4, Zenon
<1>5. MessagesRight(sv, cl', toClient')
  BY <1>1, <1>3, <1>4, MessagesLeft
<1>6. PacketsRight(cl', toServer')
  <2>1. Len(cl.commands) \in Nat /\ Len(cl'.commands) \in Nat
    BY <1>1 DEF Clients
  <2>2. QED
    BY <1>1, <2>1, PacketsKept
<1>7. QED
  BY <1>2, <1>5, <1>6 DEF ClientStepRight

LEMMA GivenUp ==
    ASSUME IInv, NEW i \in 1..Len(toClient), ToClient!Overtake(i), toServer' = toServer,
           cl.state = "downloading", NEW state \in {"downloading", "failed", "illegible"},
           cl' = [cl EXCEPT !.state = state]
    PROVE  ClientStepRight
<1>1. cl \in Clients /\ CommandsRight(cl) /\ StoredRight(cl)
  BY DEF IInv, ClientRight
<1>2. /\ cl' \in Clients /\ cl'.state = state /\ cl'.file = cl.file /\ cl'.block = cl.block
      /\ cl'.stored = cl.stored /\ cl'.commands = cl.commands
  BY <1>1 DEF Clients
<1>3. CommandsRight(cl')
  <2>1. Recent(cl') = Recent(cl) /\ \A f : Taken(cl', f) = Taken(cl, f)
    BY <1>2 DEF Recent, Taken
  <2>2. QED
    BY <1>1, <1>2, <2>1 DEF CommandsRight
<1>4. StoredRight(cl')
  BY <1>1, <1>2 DEF StoredRight, Confused
<1>5. Len(cl.commands) <= Len(cl'.commands)
  BY <1>1, <1>2 DEF Clients
<1>6. QED
  BY <1>2, <1>3, <1>4, <1>5, NoProgress DEF ClientRight

LEMMA StopSaid ==
    ASSUME IInv, NEW i \in 1..Len(toClient), ToClient!Overtake(i), NotRequested(toClient[i])
    PROVE  ClientStepRight
<1>1. cl \in Clients /\ CommandsRight(cl) /\ StoredRight(cl) /\ cl.state = "complete"
      /\ cl.commands \in Seq(Commands)
  BY DEF IInv, ClientRight, NotRequested, Clients
<1>2. /\ cl'.state = cl.state /\ cl'.file = cl.file /\ cl'.block = cl.block
      /\ cl'.stored = cl.stored /\ cl'.commands = Append(cl.commands, Command("stopdl", 0))
      /\ cl' \in Clients /\ toServer' = toServer
  <2>1. Command("stopdl", 0) \in Commands
    BY DEF Command, Commands
  <2>2. Append(cl.commands, Command("stopdl", 0)) \in Seq(Commands)
    BY <1>1, <2>1
  <2>3. cl' = [cl EXCEPT !.commands = Append(cl.commands, Command("stopdl", 0))] /\ toServer' = toServer
    BY DEF NotRequested, Say
  <2>4. QED
    BY <1>1, <2>2, <2>3 DEF Clients
<1>3. /\ Len(cl'.commands) = Len(cl.commands) + 1 /\ Len(cl.commands) \in Nat
      /\ \A k \in 1..Len(cl.commands) : cl'.commands[k] = cl.commands[k]
      /\ cl'.commands[Len(cl.commands) + 1] = Command("stopdl", 0)
  BY <1>1, <1>2
<1>4. /\ cl.file = FileCount /\ cl.block = Blocks[cl.file] + 1
      /\ Len(cl.commands) >= Start[cl.file] + cl.block
      /\ \A k \in (Start[cl.file] + cl.block + 1)..Len(cl.commands) :
            cl.commands[k] = Command("stopdl", 0)
  BY <1>1 DEF CommandsRight
<1>5. Start[cl.file] \in Nat /\ cl.block \in Nat /\ Start[cl.file] >= 1 /\ cl.file \in Nat
  BY <1>1, RecentFiles
<1>6. CommandsRight(cl')
  <2>1. Recent(cl') = Recent(cl) /\ \A f : Taken(cl', f) = Taken(cl, f)
    BY <1>2 DEF Recent, Taken
  <2>2. ASSUME NEW f \in Recent(cl)
        PROVE  /\ cl'.commands[Start[f]] = Command("download", f)
               /\ \A b \in 0..(Taken(cl, f) - 1) :
                     cl'.commands[Start[f] + 1 + b] = Command("nextdl", b)
    <3>1. /\ cl.commands[Start[f]] = Command("download", f)
          /\ \A b \in 0..(Taken(cl, f) - 1) :
                cl.commands[Start[f] + 1 + b] = Command("nextdl", b)
      BY <1>1, <2>2 DEF CommandsRight
    <3>2. Start[f] \in Nat /\ Start[f] >= 1 /\ Taken(cl, f) \in Nat
          /\ Start[f] + Taken(cl, f) <= Start[cl.file] + cl.block
      <4>1. Start[f] \in Nat /\ Start[f] >= 1 /\ Taken(cl, f) \in Nat
        BY <1>1, <2>2, RecentFiles
      <4>2. CASE f = cl.file
        BY <1>5, <4>1, <4>2 DEF Taken
      <4>3. CASE f # cl.file
        <5>1. f = cl.file - 1 /\ cl.file > 1
          BY <1>1, <2>2, <4>3, RecentFiles
        <5>2. /\ Start[cl.file] = Start[f] + Blocks[f] + 2 /\ Taken(cl, f) = Blocks[f] + 1
              /\ Blocks[f] \in Nat
          BY <1>1, <2>2, <5>1, RecentFiles
        <5>3. QED
          BY <1>5, <4>1, <5>2
      <4>4. QED
        BY <4>2, <4>3
    <3>3. Start[f] \in 1..Len(cl.commands)
      BY <1>3, <1>4, <1>5, <3>2
    <3>4. ASSUME NEW b \in 0..(Taken(cl, f) - 1) PROVE Start[f] + 1 + b \in 1..Len(cl.commands)
      <4> DEFINE a == Start[f]
                 n == Taken(cl, f)
      <4>1. a \in Nat /\ n \in Nat /\ a + n <= Len(cl.commands) /\ b \in Nat /\ b <= n - 1
        BY <1>3, <1>4, <1>5, <3>2, SMTT(30)
      <4> HIDE DEF a, n
      <4>2. a + 1 + b \in 1..Len(cl.commands)
        BY <1>3, <4>1
      <4>3. QED
        BY <4>2 DEF a
    <3>5. QED
      BY <1>3, <3>1, <3>3, <3>4
  <2>3. ASSUME NEW k \in (Start[cl'.file] + cl'.block + 1)..Len(cl'.commands)
        PROVE  cl'.commands[k] = Command("stopdl", 0)
    <3>1. CASE k = Len(cl.commands) + 1
      BY <1>3, <3>1
    <3>2. CASE k # Len(cl.commands) + 1
      <4>1. k \in (Start[cl.file] + cl.block + 1)..Len(cl.commands) /\ k \in 1..Len(cl.commands)
        BY <1>2, <1>3, <1>5, <3>2
      <4>2. QED
        BY <1>3, <1>4, <4>1
    <3>3. QED
      BY <3>1, <3>2
  <2>4. Len(cl'.commands) >= Start[cl'.file] + cl'.block
    BY <1>2, <1>3, <1>4, <1>5
  <2>5. cl'.state = "complete" /\ cl'.file = FileCount /\ cl'.block = Blocks[cl'.file] + 1
    BY <1>1, <1>2, <1>4
  <2>6. ASSUME NEW f \in Recent(cl')
        PROVE  /\ cl'.commands[Start[f]] = Command("download", f)
               /\ \A b \in 0..(Taken(cl', f) - 1) :
                     cl'.commands[Start[f] + 1 + b] = Command("nextdl", b)
    BY <2>1, <2>2
  <2>7. QED
    BY <2>3, <2>4, <2>5, <2>6 DEF CommandsRight
<1>7. StoredRight(cl')
  BY <1>1, <1>2 DEF StoredRight, Confused
<1>8. QED
  BY <1>1, <1>2, <1>3, <1>6, <1>7, NoProgress DEF ClientRight

\* The client after a block, before it looks whether the file is complete.
LEMMA AcceptedTook ==
    ASSUME ClientRight(cl), NEW m \in BlockMessages, NEW a, a = Accepted(m)
    PROVE  /\ Took(cl, m.data, a) /\ a.state = cl.state
           /\ Len(a.commands) = Len(cl.commands) + 1 /\ Len(cl.commands) \in Nat
<1>1. /\ cl \in Clients /\ cl.stored \in Seq(Contents) /\ cl.commands \in Seq(Commands)
      /\ cl.block \in Nat /\ m.data \in Contents
  BY DEF ClientRight, Clients, BlockMessages
<1> DEFINE stored == IF Empty(m.data) THEN cl.stored ELSE Append(cl.stored, m.data)
           commands == Append(cl.commands, Command("nextdl", cl.block))
           v == [cl EXCEPT !.block = cl.block + 1, !.stored = stored]
<1>2. stored \in Seq(Contents) /\ cl.block + 1 \in Nat
  BY <1>1
<1>3. commands \in Seq(Commands) /\ Len(commands) = Len(cl.commands) + 1 /\ Len(cl.commands) \in Nat
  <2>1. Command("nextdl", cl.block) \in Commands
    BY <1>1 DEF Command, Commands
  <2>2. QED
    BY <1>1, <2>1
<1> HIDE DEF stored, commands
<1>4. /\ v \in Clients /\ v.file = cl.file /\ v.block = cl.block + 1 /\ v.stored = stored
      /\ v.commands = cl.commands /\ v.state = cl.state
  BY <1>1, <1>2 DEF Clients
<1>5. a = [v EXCEPT !.commands = commands]
  <2>1. a = [v EXCEPT !.commands = Append(v.commands, Command("nextdl", cl.block))]
    BY DEF Accepted, Say, stored
  <2>2. QED
    BY <1>4, <2>1 DEF commands
<1> HIDE DEF v
<1>6. /\ a \in Clients /\ a.file = v.file /\ a.block = v.block /\ a.stored = v.stored
      /\ a.commands = commands /\ a.state = v.state
  BY <1>3, <1>4, <1>5 DEF Clients
<1>7. QED
  BY <1>3, <1>4, <1>6 DEF Took, stored, commands

LEMMA BlockAccepted ==
    ASSUME IInv, NEW i \in 1..Len(toClient), ToClient!Overtake(i), AcceptBlock(toClient[i])
    PROVE  ClientStepRight
<1> DEFINE m == toClient[i]
           a == Accepted(m)
<1>1. /\ ClientRight(cl) /\ ServerRight(sv, cl) /\ MessagesRight(sv, cl, toClient)
      /\ PacketsRight(cl, toServer) /\ toClient \in Seq(BlockMessages) /\ cl \in Clients
      /\ StoredRight(cl)
  BY DEF IInv, MessagesRight, ClientRight
<1>2. m \in BlockMessages
  BY <1>1
<1>3. /\ cl.state = "downloading" /\ ~m.refused /\ m.block = cl.block % BlockModulus
      /\ m.block = 0 => (m.sized <=> cl.block = 0)
  <2>1. m.sized \in BOOLEAN
    BY <1>2 DEF BlockMessages
  <2>2. QED
    BY <2>1 DEF AcceptBlock, Misread, Expected
<1>4. toClient' = SubSeq(toClient, i + 1, Len(toClient))
  BY DEF ToClient!Overtake
<1>5. /\ ~Empty(m.data) => cl' = a /\ toServer' = toServer
      /\ Empty(m.data) => cl' = CL_NextDownload(a) /\ toServer' = Post(toServer, Len(a.commands))
  BY DEF AcceptBlock
<1> HIDE DEF m, a
<1>6. /\ Took(cl, m.data, a) /\ a.state = "downloading"
      /\ Len(a.commands) = Len(cl.commands) + 1 /\ Len(cl.commands) \in Nat
      /\ a \in Clients /\ a.file = cl.file /\ a.block = cl.block + 1
      /\ a.commands = Append(cl.commands, Command("nextdl", cl.block))
  BY <1>1, <1>2, <1>3, AcceptedTook DEF a, Took
<1>7. CASE ~Empty(m.data)
  <2>1. /\ ClientRight(a) /\ ServerRight(sv, a) /\ MessagesRight(sv, a, toClient')
    BY <1>1, <1>3, <1>4, <1>6, <1>7, BlockTaken DEF m
  <2>2. PacketsRight(a, toServer)
    BY <1>1, <1>6, PacketsKept
  <2>3. QED
    BY <1>5, <1>7, <2>1, <2>2 DEF ClientStepRight
<1>8. CASE Empty(m.data)
  <2>1. a.stored = cl.stored
    BY <1>6, <1>8 DEF Took
  <2>2. PacketsRight(a, toServer')
    <3>1. PacketsRight(a, toServer) /\ a.commands \in Seq(Commands)
      <4>1. a.commands \in Seq(Commands)
        BY <1>6 DEF Clients
      <4>2. PacketsRight(a, toServer)
        BY <1>1, <1>6, PacketsKept
      <4>3. QED
        BY <4>1, <4>2
    <3>2. QED
      BY <1>5, <1>8, <3>1, PacketPosted
  <2>3. CASE ~CompareZipChecksum(a)
    <3>1. cl' = [a EXCEPT !.state = "failed"]
      BY <1>5, <1>8, <2>3 DEF CL_NextDownload
    <3>2. /\ cl' \in Clients /\ cl'.state = "failed" /\ cl'.file = a.file /\ cl'.block = a.block
          /\ cl'.stored = a.stored /\ cl'.commands = a.commands
      BY <1>6, <3>1 DEF Clients
    <3>3. Took(cl, m.data, cl')
      BY <1>6, <3>2 DEF Took
    <3>4. /\ ClientRight(cl') /\ ServerRight(sv, cl') /\ MessagesRight(sv, cl', toClient')
      BY <1>1, <1>3, <1>4, <3>2, <3>3, BlockTaken DEF m
    <3>5. PacketsRight(cl', toServer')
      BY <2>2, <3>2 DEF PacketsRight
    <3>6. QED
      BY <3>4, <3>5 DEF ClientStepRight
  <2>4. ASSUME CompareZipChecksum(a)
        PROVE  ~Confused(cl) /\ cl.block = Blocks[cl.file]
    <3>1. cl.stored = File(cl.file)
      BY <1>6, <2>1, <2>4 DEF CompareZipChecksum
    <3>2. \A k \in DOMAIN File(cl.file) : File(cl.file)[k].file = cl.file
      BY DEF File, Data
    <3>3. ~Confused(cl)
      BY <3>1, <3>2 DEF Confused
    <3>4. cl.file \in 1..FileCount /\ cl.block \in Nat
      BY <1>1 DEF Clients
    <3>5. Blocks[cl.file] \in Nat
      BY <3>4, Sizes
    <3>6. cl.block <= Blocks[cl.file] /\ cl.stored = [k \in 1..cl.block |-> Data(cl.file, k - 1)]
      BY <1>1, <1>3, <3>3 DEF StoredRight
    <3>7. DOMAIN cl.stored = 1..cl.block /\ DOMAIN cl.stored = 1..Blocks[cl.file]
      <4>1. DOMAIN cl.stored = 1..cl.block
        BY <3>6
      <4>2. DOMAIN cl.stored = 1..Blocks[cl.file]
        BY <3>1 DEF File
      <4>3. QED
        BY <4>1, <4>2
    <3>8. 1..cl.block = 1..Blocks[cl.file]
      BY <3>7
    <3>9. Blocks[cl.file] \in 1..cl.block \/ Blocks[cl.file] = 0
      <4>1. Blocks[cl.file] # 0 => Blocks[cl.file] \in 1..Blocks[cl.file]
        BY <3>5
      <4>2. QED
        BY <3>8, <4>1
    <3>10. QED
      BY <3>3, <3>4, <3>5, <3>6, <3>9
  <2>5. CASE CompareZipChecksum(a) /\ cl.file < FileCount
    <3> DEFINE commands == Append(a.commands, Command("download", cl.file + 1))
    <3>1. cl.file \in 1..FileCount /\ FileCount \in Nat /\ cl.file + 1 \in 1..FileCount
      BY <1>1, <2>5, Sizes DEF Clients
    <3>2. cl' = CL_BeginDownload(a, cl.file + 1)
      BY <1>5, <1>6, <1>8, <2>5 DEF CL_NextDownload
    <3> DEFINE v == [a EXCEPT !.file = cl.file + 1, !.block = 0, !.stored = <<>>]
    <3>3. v \in Clients /\ v.file = cl.file + 1 /\ v.block = 0 /\ v.stored = <<>>
          /\ v.commands = a.commands /\ v.state = "downloading"
      <4>1. <<>> \in Seq(Contents) /\ 0 \in Nat
        OBVIOUS
      <4>2. QED
        BY <1>6, <3>1, <4>1 DEF Clients
    <3>4. cl' = [v EXCEPT !.commands = commands]
      <4>1. cl' = [v EXCEPT !.commands = Append(v.commands, Command("download", cl.file + 1))]
        BY <3>2 DEF CL_BeginDownload, Say
      <4>2. QED
        BY <3>3, <4>1
    <3>5. commands \in Seq(Commands) /\ Len(commands) = Len(cl.commands) + 2
      <4>1. Command("download", cl.file + 1) \in Commands
        BY <3>1 DEF Command, Commands
      <4>2. a.commands \in Seq(Commands)
        BY <1>6 DEF Clients
      <4>3. QED
        BY <1>6, <4>1, <4>2
    <3> HIDE DEF v
    <3>6. /\ cl' \in Clients /\ cl'.state = "downloading" /\ cl'.file = cl.file + 1 /\ cl'.block = 0
          /\ cl'.stored = <<>> /\ cl'.commands = commands
      <4> HIDE DEF commands
      <4>1. QED
        BY <3>3, <3>4, <3>5 DEF Clients
    <3>7. Begins(cl, cl')
      BY <1>6, <2>4, <2>5, <3>1, <3>6 DEF Begins
    <3>8. /\ ClientRight(cl') /\ ServerRight(sv, cl') /\ MessagesRight(sv, cl', toClient')
      BY <1>1, <1>3, <1>4, <1>8, <3>7, FileBegun DEF m
    <3>9. PacketsRight(cl', toServer')
      <4>1. Len(a.commands) \in Nat /\ Len(cl'.commands) \in Nat /\ Len(a.commands) <= Len(cl'.commands)
        BY <1>6, <3>5, <3>6
      <4>2. QED
        BY <2>2, <4>1, PacketsKept
    <3>10. QED
      BY <3>8, <3>9 DEF ClientStepRight
  <2>6. CASE CompareZipChecksum(a) /\ ~(cl.file < FileCount)
    <3>1. cl.file = FileCount
      BY <1>1, <2>6, Sizes DEF Clients
    <3>2. cl' = [a EXCEPT !.state = "complete"]
      BY <1>5, <1>6, <1>8, <2>6 DEF CL_NextDownload
    <3>3. /\ cl' \in Clients /\ cl'.state = "complete" /\ cl'.file = a.file /\ cl'.block = a.block
          /\ cl'.stored = a.stored /\ cl'.commands = a.commands
      BY <1>6, <3>2 DEF Clients
    <3>4. Took(cl, m.data, cl')
      BY <1>6, <3>3 DEF Took
    <3>5. /\ ClientRight(cl') /\ ServerRight(sv, cl') /\ MessagesRight(sv, cl', toClient')
      BY <1>1, <1>3, <1>4, <1>8, <2>4, <2>6, <3>1, <3>3, <3>4, BlockTaken DEF m
    <3>6. PacketsRight(cl', toServer')
      BY <2>2, <3>3 DEF PacketsRight
    <3>7. QED
      BY <3>5, <3>6 DEF ClientStepRight
  <2>7. QED
    BY <2>3, <2>5, <2>6
<1>9. QED
  BY <1>7, <1>8

LEMMA ReceivedByClient ==
    ASSUME IInv, NEW i \in 1..Len(toClient), CL_PacketEvent(i)
    PROVE  ClientStepRight
<1>1. ToClient!Overtake(i) /\ ClientRight(cl) /\ Len(cl.commands) \in Nat
  BY DEF CL_PacketEvent, IInv, ClientRight, Clients
<1>2. CASE NotRequested(toClient[i])
  BY <1>1, <1>2, StopSaid
<1>3. CASE MisreadBlock(toClient[i])
  <2>1. CASE cl' = cl
    BY <1>1, <1>3, <2>1, NoProgress DEF MisreadBlock
  <2>2. CASE cl' = [cl EXCEPT !.state = "illegible"]
    BY <1>1, <1>3, <2>2, GivenUp DEF MisreadBlock
  <2>3. QED
    BY <1>3, <2>1, <2>2 DEF MisreadBlock
<1>4. CASE Refused(toClient[i])
  BY <1>1, <1>4, GivenUp DEF Refused
<1>5. CASE IgnoreBlock(toClient[i])
  BY <1>1, <1>5, NoProgress DEF IgnoreBlock
<1>6. CASE AcceptBlock(toClient[i])
  BY <1>1, <1>6, BlockAccepted
<1>7. QED
  BY <1>2, <1>3, <1>4, <1>5, <1>6 DEF CL_PacketEvent

-----------------------------------------------------------------------------
\* The invariant is inductive.

LEMMA InvariantInit ==
    ASSUME Init PROVE IInv
<1>1. /\ sv.state = "connected" /\ sv.available \in SUBSET (1..FileCount) /\ sv.name = 0
      /\ sv.open = FALSE /\ sv.current = 0 /\ sv.clientBlock = 0 /\ sv.xmit = 0 /\ sv.eof = FALSE
      /\ sv.ring = [slot \in Slots |-> Data(0, 0)] /\ sv.lastClientCommand = 0
      /\ sv \in [state : {"connected"}, available : SUBSET (1..FileCount),
               name : {0}, open : {FALSE}, current : {0}, clientBlock : {0},
               xmit : {0}, eof : {FALSE},
               ring : {[slot \in Slots |-> Data(0, 0)]},
               lastClientCommand : {0}]
  BY DEF Init
<1>2. cl = CL_BeginDownload([state |-> "downloading", file |-> 0, block |-> 0,
                             stored |-> <<>>, commands |-> <<>>], 1)
      /\ toClient = <<>> /\ toServer = <<>>
  BY DEF Init
<1>3. 1 \in 1..FileCount /\ 0 \in 0..FileCount
  BY Sizes
<1>4. <<>> \in Seq(Commands) /\ <<>> \in Seq(Contents) /\ Command("download", 1) \in Commands
  BY DEF Commands, Command
<1>5. /\ cl \in Clients /\ cl.state = "downloading" /\ cl.file = 1 /\ cl.block = 0 /\ cl.stored = <<>>
      /\ cl.commands = <<Command("download", 1)>> /\ Len(cl.commands) = 1
  <2> DEFINE none == <<>>
             u == [state |-> "downloading", file |-> 0, block |-> 0,
                   stored |-> none, commands |-> none]
             v == [u EXCEPT !.file = 1, !.block = 0, !.stored = none]
             commands == <<Command("download", 1)>>
  <2>1. Append(none, Command("download", 1)) = commands /\ commands \in Seq(Commands) /\ Len(commands) = 1
    BY <1>4
  <2>2. none \in Seq(Commands) /\ none \in Seq(Contents)
    BY <1>4
  <2>3. cl = [v EXCEPT !.commands = Append(v.commands, Command("download", 1))]
    BY <1>2 DEF CL_BeginDownload, Say
  <2> HIDE DEF none, commands
  <2>4. u \in [state : {"downloading"}, file : Nat, block : Nat, stored : Seq(Contents),
               commands : Seq(Commands)]
        /\ u.state = "downloading" /\ u.commands = none
    BY <2>2
  <2> HIDE DEF u
  <2>5. v \in Clients /\ v.state = "downloading" /\ v.file = 1 /\ v.block = 0 /\ v.stored = none
        /\ v.commands = none
    BY <1>3, <2>2, <2>4 DEF Clients
  <2>6. cl = [v EXCEPT !.commands = commands]
    BY <2>1, <2>3, <2>5
  <2> HIDE DEF v
  <2>7. /\ cl \in Clients /\ cl.state = "downloading" /\ cl.file = 1 /\ cl.block = 0
        /\ cl.stored = none /\ cl.commands = commands
    BY <2>1, <2>5, <2>6 DEF Clients
  <2>8. QED
    BY <2>1, <2>7 DEF none, commands
<1>6. Recent(cl) = {1} /\ Taken(cl, 1) = 0 /\ Start[1] = 1 /\ ~Confused(cl)
  BY <1>3, <1>5, StartRight DEF Recent, Taken, Confused
<1>7. CommandsRight(cl)
  BY <1>5, <1>6 DEF CommandsRight
<1>8. StoredRight(cl)
  <2>1. Blocks[1] \in Nat
    BY <1>3, Sizes
  <2>2. <<>> = [k \in 1..0 |-> Data(1, k - 1)]
    OBVIOUS
  <2>3. QED
    BY <1>5, <2>1, <2>2 DEF StoredRight
<1>9. sv \in Servers
  <2>1. [slot \in Slots |-> Data(0, 0)] \in [Slots -> Contents]
    BY <1>3 DEF Data, Contents
  <2> DEFINE ring == [slot \in Slots |-> Data(0, 0)]
  <2>2. /\ "connected" \in {"connected", "dropped"} /\ 0 \in Nat /\ FALSE \in BOOLEAN
        /\ ring \in [Slots -> Contents]
    BY <2>1
  <2> HIDE DEF ring
  <2>3. sv \in [state : {"connected"}, available : SUBSET (1..FileCount),
               name : {0}, open : {FALSE}, current : {0}, clientBlock : {0},
               xmit : {0}, eof : {FALSE}, ring : {ring}, lastClientCommand : {0}]
    BY <1>1 DEF ring
  <2>4. QED
    BY <1>3, <2>2, <2>3 DEF Servers
<1>10. WindowRight(sv)
  BY <1>1 DEF WindowRight
<1>11. PositionRight(sv, cl)
  BY <1>1, <1>5, <1>6 DEF PositionRight
<1>12. SentRight(sv, cl)
  BY <1>1, <1>5 DEF SentRight, FewMistaken
<1>13. MessagesRight(sv, cl, toClient)
  <2>1. [i \in 1..0 |-> 0] \in [1..Len(toClient) -> Nat] /\ NumbersRight(sv, cl, toClient, [i \in 1..0 |-> 0])
    BY <1>2 DEF NumbersRight
  <2>2. toClient \in Seq(BlockMessages) /\ Len(toClient) <= MaxInFlight
    BY <1>2, Sizes
  <2>3. ~(cl.file > 1)
    BY <1>5
  <2>4. QED
    BY <2>1, <2>2, <2>3 DEF MessagesRight
<1>14. PacketsRight(cl, toServer)
  BY <1>2, Sizes DEF PacketsRight
<1>15. Len(cl.commands) <= MaxCommands
  BY <1>5, Sizes
<1>16. QED
  BY <1>5, <1>7, <1>8, <1>9, <1>10, <1>11, <1>12, <1>13, <1>14, <1>15 DEF IInv, ClientRight, ServerRight

LEMMA InvariantNext ==
    ASSUME IInv, [Next]_vars PROVE IInv'
<1>1. /\ Len(cl.commands) <= MaxCommands /\ ClientRight(cl) /\ ServerRight(sv, cl)
      /\ MessagesRight(sv, cl, toClient) /\ PacketsRight(cl, toServer)
  BY DEF IInv
<1>2. ASSUME NEW i \in 1..Len(toServer), SV_PacketEvent(i) PROVE IInv'
  <2>1. ServerRight(sv', cl) /\ MessagesRight(sv', cl, toClient) /\ PacketsRight(cl, toServer')
    BY <1>2, PacketExecuted
  <2>2. cl' = cl /\ toClient' = toClient
    BY <1>2 DEF SV_PacketEvent
  <2>3. QED
    BY <1>1, <2>1, <2>2 DEF IInv
<1>3. CASE SV_RefuseDownload
  <2>1. ServerRight(sv', cl) /\ MessagesRight(sv', cl, toClient')
    BY <1>3, DownloadRefused
  <2>2. cl' = cl /\ toServer' = toServer
    BY <1>3 DEF SV_RefuseDownload
  <2>3. QED
    BY <1>1, <2>1, <2>2 DEF IInv
<1>4. ASSUME NEW timedOut \in BOOLEAN, SV_WriteDownloadToClient(timedOut) PROVE IInv'
  <2>1. ServerRight(sv', cl) /\ MessagesRight(sv', cl, toClient')
    BY <1>4, BlockWritten
  <2>2. cl' = cl /\ toServer' = toServer
    BY <1>4 DEF SV_WriteDownloadToClient
  <2>3. QED
    BY <1>1, <2>1, <2>2 DEF IInv
<1>5. ASSUME NEW i \in 1..Len(toClient), CL_PacketEvent(i) PROVE IInv'
  <2>1. ClientStepRight
    BY <1>5, ReceivedByClient
  <2>2. sv' = sv /\ Len(cl'.commands) <= MaxCommands
    BY <1>5 DEF CL_PacketEvent
  <2>3. QED
    BY <2>1, <2>2 DEF IInv, ClientStepRight
<1>6. CASE CL_WritePacket
  <2>1. toServer' = Post(toServer, Len(cl.commands)) /\ sv' = sv /\ cl' = cl /\ toClient' = toClient
    BY <1>6 DEF CL_WritePacket
  <2>2. cl.commands \in Seq(Commands)
    BY <1>1 DEF ClientRight, Clients
  <2>3. PacketsRight(cl, Post(toServer, Len(cl.commands)))
    BY <1>1, <2>2, PacketPosted
  <2>4. QED
    BY <1>1, <2>1, <2>3 DEF IInv
<1>7. CASE UNCHANGED vars
  <2>1. sv' = sv /\ cl' = cl /\ toClient' = toClient /\ toServer' = toServer
    BY <1>7 DEF vars
  <2>2. QED
    BY <1>1, <2>1 DEF IInv
<1>8. QED
  BY <1>2, <1>3, <1>4, <1>5, <1>6, <1>7 DEF Next

\* The inductive invariant holds: it gives each block on its way the number it
\* was sent under, and says how far apart the two ends can be.
THEOREM DownloadInvariant == Spec => []IInv
<1>1. Init => IInv
  BY InvariantInit
<1>2. IInv /\ [Next]_vars => IInv'
  BY InvariantNext
<1>3. QED
  BY <1>1, <1>2, PTL DEF Spec

LEMMA InvariantSays ==
    ASSUME IInv PROVE TypeOK /\ RingHoldsWindow /\ StoredPrefix /\ InStep
<1>1. /\ Len(cl.commands) <= MaxCommands /\ ClientRight(cl) /\ ServerRight(sv, cl)
      /\ cl \in Clients /\ sv \in Servers /\ WindowRight(sv) /\ PositionRight(sv, cl)
      /\ CommandsRight(cl) /\ StoredRight(cl)
  BY DEF IInv, ClientRight, ServerRight
<1>2. TypeOK
  <2>1. sv.lastClientCommand \in 0..MaxCommands
    <3>1. /\ sv.lastClientCommand \in Nat /\ sv.lastClientCommand <= Len(cl.commands)
          /\ Len(cl.commands) \in Nat /\ MaxCommands \in Nat
      BY <1>1, Sizes DEF PositionRight, Servers, Clients
    <3>2. QED
      BY <1>1, <3>1
  <2>2. sv \in [state : {"connected", "dropped"},
               available : SUBSET (1..FileCount), name : 0..FileCount,
               open : BOOLEAN, current : Nat, clientBlock : Nat, xmit : Nat,
               eof : BOOLEAN, ring : [Slots -> Contents],
               lastClientCommand : 0..MaxCommands]
    BY <1>1, <2>1 DEF Servers
  <2>3. sv.open =>
        /\ sv.name \in sv.available
        /\ sv.clientBlock <= sv.current /\ sv.xmit <= sv.current
        /\ sv.current <= Blocks[sv.name] + (IF sv.eof THEN 1 ELSE 0)
    <3>1. SUFFICES ASSUME sv.open PROVE sv.current <= Blocks[sv.name] + (IF sv.eof THEN 1 ELSE 0)
      BY <1>1 DEF WindowRight
    <3>2. sv.name \in 1..FileCount /\ sv.current \in Nat
      BY <1>1, <3>1 DEF WindowRight, Servers
    <3>3. Blocks[sv.name] \in Nat
      BY <3>2, Sizes
    <3>4. QED
      BY <1>1, <3>1, <3>2, <3>3 DEF WindowRight
  <2>4. QED
    BY <1>1, <2>2, <2>3 DEF TypeOK, Clients
<1>3. RingHoldsWindow
  BY <1>1 DEF RingHoldsWindow, WindowRight
<1>4. Mistaken <=> Confused(cl)
  BY DEF Mistaken, Confused
<1>5. StoredPrefix
  <2> DEFINE f == cl.file
             n == IF cl.block <= Blocks[f] THEN cl.block ELSE Blocks[f]
  <2>1. f \in 1..FileCount /\ cl.block \in Nat
    BY <1>1 DEF Clients
  <2>2. Blocks[f] \in Nat
    BY <2>1, Sizes
  <2>3. n \in Nat /\ n <= Blocks[f]
    BY <2>1, <2>2
  <2>4. ~Confused(cl) => cl.stored = [k \in 1..n |-> Data(f, k - 1)]
    BY <1>1 DEF StoredRight
  <2>5. cl.state = "complete" => ~Confused(cl) /\ n = Blocks[f]
    BY <1>1, <2>1, <2>2 DEF CommandsRight, StoredRight
  <2> HIDE DEF n, f
  <2>6. ASSUME ~Confused(cl) PROVE cl.stored = SubSeq(File(f), 1, Len(cl.stored))
    <3>1. Len(cl.stored) = n
      BY <2>3, <2>4, <2>6
    <3>2. Len(File(f)) = Blocks[f] /\ \A k \in 1..Blocks[f] : File(f)[k] = Data(f, k - 1)
      BY <2>2 DEF File
    <3>3. SubSeq(File(f), 1, n) = [k \in 1..n |-> File(f)[k]]
      BY <2>3
    <3>4. \A k \in 1..n : File(f)[k] = Data(f, k - 1)
      BY <2>2, <2>3, <3>2
    <3>5. QED
      BY <2>4, <2>6, <3>1, <3>3, <3>4
  <2>7. cl.state = "complete" => cl.stored = File(f)
    BY <2>4, <2>5 DEF File
  <2>8. QED
    BY <1>4, <2>6, <2>7 DEF StoredPrefix, f
<1>6. InStep
  <2>1. SUFFICES ASSUME ~Confused(cl)
                 PROVE  sv.state = "connected" /\ (sv.open /\ sv.name = cl.file => sv.clientBlock <= cl.block)
    BY <1>4 DEF InStep
  <2> DEFINE n == sv.lastClientCommand
             f == cl.file
  <2>2. /\ f \in Recent(cl) /\ f \in 1..FileCount /\ Taken(cl, f) = cl.block /\ cl.block \in Nat
        /\ Start[f] \in Nat /\ n \in Nat /\ f \in Nat
    <3>1. f \in Recent(cl) /\ f \in 1..FileCount /\ Taken(cl, f) = cl.block /\ cl.block \in Nat
      BY <1>1, RecentFiles
    <3>2. Start[f] \in Nat
      BY <1>1, <3>1, RecentFiles
    <3>3. n \in Nat
      BY <1>1 DEF Servers
    <3>4. QED
      BY <3>1, <3>2, <3>3
  <2>3. CASE n = 0 \/ n > Start[f] + cl.block
    BY <1>1, <2>2, <2>3 DEF PositionRight, WindowRight
  <2>4. CASE n # 0 /\ n >= Start[f] /\ n <= Start[f] + cl.block
    <3> DEFINE b == n - Start[f]
    <3>1. b \in 0..Taken(cl, f) /\ n = Start[f] + b /\ b \in Nat /\ b <= cl.block
      BY <2>2, <2>4
    <3>2. InStepAt(sv, cl, f, b)
      BY <1>1, <2>1, <2>2, <3>1 DEF PositionRight, AtBlock
    <3> HIDE DEF b
    <3>3. Blocks[f] \in Nat
      BY <2>2, Sizes
    <3>4. b = 0 \/ b \in 1..Blocks[f] \/ b = Blocks[f] + 1
      BY <3>1, <3>2, <3>3 DEF InStepAt
    <3>5. ASSUME sv.open PROVE sv.clientBlock = b
      BY <1>1, <3>2, <3>4, <3>5 DEF InStepAt, WindowRight
    <3>6. QED
      BY <3>1, <3>2, <3>5 DEF InStepAt
  <2>5. CASE n # 0 /\ n < Start[f]
    <3> DEFINE g == f - 1
               b == n - Start[g]
    <3>1. f > 1
      BY <2>2, <2>5, StartRight
    <3>2. /\ g \in Recent(cl) /\ Start[f] = Start[g] + Blocks[g] + 2
          /\ Taken(cl, g) = Blocks[g] + 1
      BY <1>1, <3>1, RecentFiles
    <3>3. Start[g] \in Nat /\ Blocks[g] \in Nat /\ Start[g] <= n
      BY <1>1, <3>1, <3>2, RecentFiles DEF PositionRight
    <3>4. b \in 0..Taken(cl, g) /\ n = Start[g] + b
      BY <2>2, <2>5, <3>2, <3>3
    <3>5. AtBlock(sv, cl, g, b)
      BY <1>1, <3>2, <3>4 DEF PositionRight
    <3>6. sv.state = "connected" /\ sv.name # f
      BY <2>2, <3>1, <3>5 DEF AtBlock, InStepAt
    <3>7. QED
      BY <3>6
  <2>6. QED
    BY <2>2, <2>3, <2>4, <2>5
<1>7. QED
  BY <1>2, <1>3, <1>5, <1>6

\* The server's window and the client's progress keep their types, and the
\* client never gets more commands than MaxCommands (SV_WriteDownloadToClient,
\* CL_ParseDownload).
THEOREM DownloadTypes == Spec => []TypeOK
<1>1. QED
  BY DownloadInvariant, InvariantSays, PTL

\* No slot of the ring is reused before its block has been acknowledged, for
\* any size of the window (SV_WriteDownloadToClient, SV_NextDownload_f).
THEOREM WindowHeld == Spec => []RingHoldsWindow
<1>1. QED
  BY DownloadInvariant, InvariantSays, PTL

\* The client stores the blocks of a file in order, each once, and a client that
\* has all its files has the last one whole (CL_ParseDownload, CL_NextDownload),
\* whatever is lost or sent again, for any modulus beyond the window.
THEOREM FilesWhole == Spec => []StoredPrefix
<1>1. QED
  BY DownloadInvariant, InvariantSays, PTL

\* Unless a block of another file was mistaken for one of this, the server is
\* never ahead of the client's acknowledgements and never drops it for one
\* (SV_NextDownload_f).
THEOREM ServerInStep == Spec => []InStep
<1>1. QED
  BY DownloadInvariant, InvariantSays, PTL
=============================================================================
