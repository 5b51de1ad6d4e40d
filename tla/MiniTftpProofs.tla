--------------------------- MODULE MiniTftpProofs ---------------------------
(****************************************************************************)
(* Proofs about MiniTftp, for every block size, every file with a number of *)
(* its own for each block, and a network that loses, repeats and reorders:  *)
(* what minitftp reports as sent is on the server's disk.                   *)
(****************************************************************************)
EXTENDS MiniTftp, SequenceTheorems, TLAPS

------------------------------------------------------------------------------
(* Resources *)

\* What is held before each call of main().
HeldAt(here) ==
    CASE here \in {"open", "return"} -> {}
      [] here \in {"socket", "close_infd"} -> {"infd"}
      [] here \in {"getaddrinfo", "close_sockfd"} -> {"infd", "sockfd"}
      [] OTHER -> {"infd", "sockfd", "addr"}

Calls == {"open", "socket", "getaddrinfo", "request", "answer", "block", "ack",
          "freeaddrinfo", "close_sockfd", "close_infd", "return"}

HeldOK == pc \in Calls /\ held = HeldAt(pc)

LEMMA AcquireHeld ==
    ASSUME HeldOK, NEW here, NEW call, NEW r, NEW next \in Calls,
           NEW cleanup \in Calls, Acquire(here, call, r, next, cleanup),
           HeldAt(next) = HeldAt(here) \cup {r}, HeldAt(cleanup) = HeldAt(here)
    PROVE  HeldOK'
BY DEF Acquire, HeldOK

LEMMA StepHeld ==
    ASSUME HeldOK, [Next]_vars
    PROVE  HeldOK'
<1>1. CASE Open
  BY <1>1, AcquireHeld DEF Open, HeldAt, Calls
<1>2. CASE Socket
  BY <1>2, AcquireHeld DEF Socket, HeldAt, Calls
<1>3. CASE Resolve
  BY <1>3, AcquireHeld DEF Resolve, HeldAt, Calls
<1>4. CASE SendReqPacket \/ RecvAnswer \/ SendBlock \/ RecvAck
  <2>1. /\ pc \in {"request", "answer", "block", "ack"} /\ UNCHANGED held
        /\ pc' \in {"answer", "block", "ack", "freeaddrinfo"}
    BY <1>4 DEF SendReqPacket, RecvAnswer, SendBlock, RecvAck
  <2> QED
    BY <2>1 DEF HeldOK, HeldAt, Calls
<1>5. CASE FreeAddrInfo \/ CloseSocket \/ CloseFile
  BY <1>5 DEF FreeAddrInfo, CloseSocket, CloseFile, Release, HeldOK, HeldAt, Calls
<1>6. CASE ServerReceives \/ Lose \/ UNCHANGED vars
  BY <1>6 DEF ServerReceives, Lose, vars, HeldOK
<1> QED
  BY <1>1, <1>2, <1>3, <1>4, <1>5, <1>6 DEF Next, Main

\* Wherever a call fails, main() releases what it has acquired, and never
\* before the last packet.
THEOREM EverythingIsReleased == Spec => []AllReleased
<1>1. Init => HeldOK
  BY DEF Init, HeldOK, HeldAt, Calls
<1>2. HeldOK /\ [Next]_vars => HeldOK'
  BY StepHeld
<1>3. HeldOK => AllReleased
  BY DEF HeldOK, HeldAt, AllReleased, Returned
<1> QED
  BY <1>1, <1>2, <1>3, PTL DEF Spec

------------------------------------------------------------------------------
(* The invariant of the transfer *)

B == TFTP_MAX_DATA_SIZE

\* Where block k + 1 starts, and how many bytes the first k blocks have.
Start(k) == k * B
Upto(k)  == IF Start(k) < size THEN Start(k) ELSE size

\* Block k is one of the file, and the one after it is not.
IsBlock(k) == k \in 1 .. BLK_MODULUS - 1 /\ Start(k - 1) <= size
Block(k)   == Data(k, Start(k - 1), Upto(k) - Start(k - 1))

\* The server has stored the first k blocks, and acknowledged no other.
Holding(k) == [file   |-> IF Start(k) <= size THEN 1 ELSE 0,
               next   |-> (k + 1) % BLK_MODULUS,
               disk   |-> [f \in {1} |-> Server!Whole(Upto(k))],
               closed |-> IF Start(k) <= size THEN {} ELSE {1}]
StoredUpTo(k) ==
    /\ srv = Holding(k)
    /\ \A p \in toClient : /\ p.op \in {"ACK", "ERROR"}
                           /\ p.op = "ACK" => p.blk \in 0 .. k

\* The write request is not sent or has not arrived.
Before == /\ srv = Server!Idle /\ toClient = {} /\ toServer \subseteq {Wrq}
          /\ blknum = 0 /\ pc \notin {"block", "ack"}
          /\ Wrq \in toServer =>
                pc \notin {"open", "socket", "getaddrinfo", "request"}
          /\ pc \notin {"open", "socket", "getaddrinfo", "request", "answer"}
                => error = 1

\* It has: blocks of the file are on their way, and the server has stored
\* none that was not sent.
During == /\ \A p \in toServer : \E k \in 1 .. blknum : IsBlock(k) /\ p = Block(k)
          /\ \E k \in 0 .. blknum : StoredUpTo(k)
          /\ pc \notin {"open", "socket", "getaddrinfo", "request"}

\* Where the client is in the file.
ClientOK ==
    /\ size \in Sizes /\ error \in {0, 1} /\ blknum \in 0 .. BLK_MODULUS - 1
    /\ blknum # 0 => IsBlock(blknum)
    /\ pc \in {"open", "socket", "getaddrinfo", "request", "answer"} =>
          blknum = 0 /\ fpos = 0
    /\ pc = "block" => fpos = Start(blknum) /\ fpos <= size
    /\ pc = "ack" => blknum # 0
    /\ (pc = "ack" /\ error = 0) =>
          fpos = Upto(blknum) /\ buflen = Upto(blknum) - Start(blknum - 1)

\* The transfer has ended without an error: the server has it all.
DoneOK ==
    (pc \in {"freeaddrinfo", "close_sockfd", "close_infd", "return"} /\ error = 0)
        => blknum # 0 /\ size < Start(blknum) /\ StoredUpTo(blknum)

TransferInv == ClientOK /\ (Before \/ During) /\ DoneOK

------------------------------------------------------------------------------
(* Arithmetic *)

\* Where blocks start.
LEMMA Starts ==
    ASSUME NEW k \in Nat
    PROVE  /\ B \in Nat \ {0} /\ Start(k) \in Nat
           /\ Start(k + 1) = Start(k) + B
           /\ k # 0 => k - 1 \in Nat /\ Start(k) = Start(k - 1) + B
           /\ k = 0 => Start(k) = 0
<1>1. B \in Nat \ {0}
  BY SizesAssumption DEF B
<1>2. \A b \in Nat \ {0} : /\ k * b \in Nat /\ (k + 1) * b = k * b + b
                           /\ k # 0 => k * b = (k - 1) * b + b
                           /\ k = 0 => k * b = 0
  OBVIOUS
<1> HIDE DEF B
<1> QED
  BY <1>1, <1>2 DEF Start

\* The numbers of the blocks of a file suffice.
LEMMA NoWrap ==
    ASSUME size \in Sizes, NEW k \in Nat, Start(k) <= size
    PROVE  k + 1 < BLK_MODULUS
<1>1. \A b \in Nat \ {0}, n \in Nat : k * b <= n => k <= n \div b /\ n \div b \in Nat
  OBVIOUS
<1>2. size \in Nat /\ k * TFTP_MAX_DATA_SIZE <= size
  BY SizesAssumption DEF Start, B
<1>3. k <= size \div TFTP_MAX_DATA_SIZE /\ size \div TFTP_MAX_DATA_SIZE \in Nat
  BY <1>1, <1>2, SizesAssumption
<1>4. size \div TFTP_MAX_DATA_SIZE + 1 < BLK_MODULUS
  BY NoWrapAssumption
<1> QED
  BY <1>3, <1>4, NoWrapAssumption

\* How far the blocks up to k reach.
LEMMA Reach ==
    ASSUME size \in Sizes, NEW k \in Nat
    PROVE  /\ Upto(k) \in Nat /\ Upto(k) <= size
           /\ Start(k) <= size => Upto(k) = Start(k)
           /\ size < Start(k) => Upto(k) = size
           /\ k = 0 => Upto(k) = 0
<1>1. size \in Nat /\ Start(k) \in Nat /\ (k = 0 => Start(k) = 0)
  BY SizesAssumption, Starts
<1> QED
  BY <1>1 DEF Upto

\* The block after the first k.
LEMMA NextBlock ==
    ASSUME size \in Sizes, NEW k \in Nat, Start(k) <= size
    PROVE  /\ IsBlock(k + 1)
           /\ Block(k + 1) = Data(k + 1, Start(k), Upto(k + 1) - Start(k))
           /\ Upto(k + 1) - Start(k) =
                 IF size - Start(k) > B THEN B ELSE size - Start(k)
           /\ Upto(k + 1) - Start(k) \in Nat /\ Upto(k + 1) - Start(k) <= B
           /\ (Upto(k + 1) - Start(k) < B <=> size < Start(k + 1))
<1>1. k + 1 < BLK_MODULUS
  BY NoWrap
<1>2. size \in Nat /\ BLK_MODULUS \in Nat
  BY SizesAssumption, NoWrapAssumption
<1>3. B \in Nat \ {0} /\ Start(k) \in Nat /\ Start(k + 1) = Start(k) + B
  BY Starts
<1>4. k + 1 - 1 = k
  OBVIOUS
<1>5. IsBlock(k + 1)
  BY <1>1, <1>2, <1>4 DEF IsBlock
<1>6. Upto(k + 1) = IF Start(k) + B < size THEN Start(k) + B ELSE size
  BY <1>3 DEF Upto
<1>7. Block(k + 1) = Data(k + 1, Start(k), Upto(k + 1) - Start(k))
  BY <1>4 DEF Block
<1> HIDE DEF B
<1> QED
  BY <1>2, <1>3, <1>5, <1>6, <1>7

\* Remainders of the numbers that occur.
LEMMA Remainders ==
    ASSUME NEW k \in 0 .. BLK_MODULUS - 1
    PROVE  /\ BLK_MODULUS \in Nat /\ k % BLK_MODULUS = k
           /\ k + 1 < BLK_MODULUS => (k + 1) % BLK_MODULUS = k + 1
           /\ k + 1 = BLK_MODULUS => (k + 1) % BLK_MODULUS = 0
           /\ (((k + 1) % BLK_MODULUS) - 1) % BLK_MODULUS = k
<1>1. \A m \in Nat \ {0} : /\ m % m = 0 /\ (0 - 1) % m = m - 1
                           /\ \A n \in Nat : n < m => n % m = n
  <2>1. \A m \in Nat \ {0} : m % m = 0
    OBVIOUS
  <2>2. \A m \in Nat \ {0} : (0 - 1) % m = m - 1
    OBVIOUS
  <2>3. \A m \in Nat \ {0}, n \in Nat : n < m => n % m = n
    OBVIOUS
  <2> QED
    BY <2>1, <2>2, <2>3
<1>2. BLK_MODULUS \in Nat \ {0} /\ k \in Nat /\ k < BLK_MODULUS
  BY NoWrapAssumption
<1>3. CASE k + 1 < BLK_MODULUS
  <2>1. (k + 1) % BLK_MODULUS = k + 1 /\ k % BLK_MODULUS = k
    <3>1. k + 1 \in Nat
      BY <1>2
    <3> QED
      BY <1>1, <1>2, <1>3, <3>1
  <2>2. k + 1 - 1 = k
    BY <1>2
  <2> QED
    BY <1>2, <1>3, <2>1, <2>2
<1>4. CASE k + 1 = BLK_MODULUS
  <2>1. (k + 1) % BLK_MODULUS = 0 /\ k % BLK_MODULUS = k /\ BLK_MODULUS - 1 = k
    BY <1>1, <1>2, <1>4
  <2>2. (0 - 1) % BLK_MODULUS = BLK_MODULUS - 1
    BY <1>1, <1>2
  <2> QED
    BY <1>2, <1>4, <2>1, <2>2
<1> QED
  BY <1>2, <1>3, <1>4

\* The positions of n bytes followed by those of the next len bytes.
LEMMA PositionsJoined ==
    ASSUME NEW n \in Nat, NEW len \in Nat
    PROVE  Server!Whole(n) \o Server!Positions(n, len) = Server!Whole(n + len)
<1> DEFINE s == Server!Whole(n)
           t == Server!Positions(n, len)
           w == Server!Whole(n + len)
<1>1. /\ s = [i \in 1 .. n |-> i] /\ t = [i \in 1 .. len |-> n + i]
      /\ w = [i \in 1 .. n + len |-> i]
  BY DEF Server!Whole, Server!Positions
<1>2. /\ s \in Seq(Nat) /\ Len(s) = n /\ t \in Seq(Nat) /\ Len(t) = len
      /\ w \in Seq(Nat) /\ Len(w) = n + len
      /\ \A i \in 1 .. n : s[i] = i
      /\ \A i \in 1 .. len : t[i] = n + i
      /\ \A i \in 1 .. n + len : w[i] = i
  BY <1>1
<1> HIDE DEF s, t, w
<1>3. /\ s \o t \in Seq(Nat) /\ Len(s \o t) = n + len
      /\ \A i \in 1 .. n + len : (s \o t)[i] = IF i <= n THEN s[i] ELSE t[i - n]
  BY <1>2, ConcatProperties
<1>4. \A i \in 1 .. n + len : (s \o t)[i] = w[i]
  <2> SUFFICES ASSUME NEW i \in 1 .. n + len PROVE (s \o t)[i] = w[i]
    OBVIOUS
  <2>1. CASE i <= n
    BY <1>2, <1>3, <2>1
  <2>2. CASE i > n
    <3>1. i - n \in 1 .. len
      BY <2>2
    <3>2. t[i - n] = n + (i - n)
      BY <1>2, <3>1
    <3> QED
      BY <1>2, <1>3, <2>2, <3>2
  <2>3. i <= n \/ i > n
    OBVIOUS
  <2> QED
    BY <2>1, <2>2, <2>3, Zenon
<1>5. s \o t = w
  BY <1>2, <1>3, <1>4, SeqEqual
<1> QED
  BY <1>5 DEF s, t, w

------------------------------------------------------------------------------
(* The server *)

\* A server with all its fields changed.
LEMMA ServerChanged ==
    ASSUME NEW r, NEW f0, NEW n0, NEW d0, NEW c0, NEW f, NEW n, NEW d, NEW c,
           r = [file |-> f0, next |-> n0, disk |-> d0, closed |-> c0]
    PROVE  [r EXCEPT !.file = f, !.next = n, !.disk = d, !.closed = c]
              = [file |-> f, next |-> n, disk |-> d, closed |-> c]
<1> DEFINE q == [r EXCEPT !.file = f, !.next = n, !.disk = d, !.closed = c]
           w == [file |-> f, next |-> n, disk |-> d, closed |-> c]
<1>1. DOMAIN r = {"file", "next", "disk", "closed"}
  OBVIOUS
<1>2. q = [x \in DOMAIN r |-> q[x]] /\ w = [x \in DOMAIN r |-> w[x]]
  BY <1>1
<1>3. /\ q["file"] = w["file"] /\ q["next"] = w["next"]
      /\ q["disk"] = w["disk"] /\ q["closed"] = w["closed"]
  BY <1>1
<1> HIDE DEF q, w
<1>4. \A x \in DOMAIN r : q[x] = w[x]
  BY <1>1, <1>3
<1>5. q = w
  BY <1>2, <1>4
<1> QED
  BY <1>5 DEF q, w

\* The write request opens the file.
LEMMA ServerOpens ==
    ASSUME size \in Sizes
    PROVE  /\ Server!Received(Server!Idle, Wrq) = Holding(0)
           /\ Server!Answer(Server!Idle, Wrq) = [op |-> "ACK", blk |-> 0]
<1>1. Upto(0) = 0 /\ Start(0) = 0 /\ size \in Nat
  BY Reach, Starts, SizesAssumption
<1>2. Server!Whole(0) = <<>>
  BY DEF Server!Whole, Server!Positions
<1>3. Holding(0) = [file |-> 1, next |-> 1 % BLK_MODULUS,
                    disk |-> [f \in {1} |-> <<>>], closed |-> {}]
  <2>1. 0 + 1 = 1 /\ Start(0) <= size
    BY <1>1
  <2> QED
    BY <1>1, <1>2, <2>1 DEF Holding
<1>4. /\ Server!Received(Server!Idle, Wrq) = Server!Opened(Server!Idle, 1)
      /\ Server!Answer(Server!Idle, Wrq) = [op |-> "ACK", blk |-> 0]
  <2>1. Wrq.op = "WRQ" /\ Wrq.file = 1
    BY DEF Wrq
  <2> QED
    BY <2>1 DEF Server!Received, Server!Answer, Server!Expected, Server!Repeated
<1>5. Server!Opened(Server!Idle, 1)
         = [file |-> 1, next |-> 1 % BLK_MODULUS,
            disk |-> [f \in {1} |-> <<>>], closed |-> {}]
  <2> DEFINE disk == [f \in {1} |-> <<>>]
             idle == [file |-> 0, next |-> 0, disk |-> disk, closed |-> {}]
  <2>1. [disk EXCEPT ![1] = <<>>] = disk /\ {} \ {1} = {}
    OBVIOUS
  <2>2. Server!Idle = idle
    BY DEF Server!Idle
  <2>3. idle.disk = disk /\ idle.closed = {}
    OBVIOUS
  <2>4. Server!Opened(idle, 1)
           = [idle EXCEPT !.file = 1, !.next = 1 % BLK_MODULUS,
                          !.disk = [idle.disk EXCEPT ![1] = <<>>],
                          !.closed = idle.closed \ {1}]
    BY DEF Server!Opened
  <2>5. Server!Opened(idle, 1)
           = [idle EXCEPT !.file = 1, !.next = 1 % BLK_MODULUS,
                          !.disk = disk, !.closed = {}]
    <3> HIDE DEF disk, idle
    <3> QED
      BY <2>1, <2>3, <2>4
  <2>6. Server!Opened(idle, 1)
           = [file |-> 1, next |-> 1 % BLK_MODULUS, disk |-> disk, closed |-> {}]
    BY <2>5, ServerChanged
  <2> QED
    BY <2>2, <2>6
<1> QED
  BY <1>3, <1>4, <1>5

\* A block is stored if it is the next one, and acknowledged if it is stored.
LEMMA ServerStores ==
    ASSUME size \in Sizes, NEW k \in 0 .. BLK_MODULUS - 1, NEW j, IsBlock(j)
    PROVE  /\ Server!Received(Holding(k), Block(j))
                 = IF j = k + 1 THEN Holding(j) ELSE Holding(k)
           /\ \/ j \in {k, k + 1} /\ Server!Answer(Holding(k), Block(j))
                                        = [op |-> "ACK", blk |-> j]
              \/ Server!Answer(Holding(k), Block(j)) = [op |-> "ERROR", blk |-> 0]
<1>1. /\ j \in 1 .. BLK_MODULUS - 1 /\ Start(j - 1) <= size /\ BLK_MODULUS \in Nat
      /\ k \in Nat /\ j \in Nat /\ j - 1 \in Nat
  BY NoWrapAssumption DEF IsBlock
<1>2. PICK len : len = Upto(j) - Start(j - 1)
  OBVIOUS
<1>3. Block(j) = [op |-> "DATA", file |-> 1, blk |-> j, off |-> Start(j - 1), len |-> len]
  BY <1>2 DEF Block, Data
<1>4. /\ (k + 1) % BLK_MODULUS = IF k + 1 < BLK_MODULUS THEN k + 1 ELSE 0
      /\ (((k + 1) % BLK_MODULUS) - 1) % BLK_MODULUS = k
  <2>1. k + 1 < BLK_MODULUS \/ k + 1 = BLK_MODULUS
    BY <1>1
  <2> QED
    BY <1>1, <2>1, Remainders
<1>5. Server!Repeated(Holding(k), Block(j)) <=> j = k
  BY <1>3, <1>4 DEF Server!Repeated, Holding
<1>6. Server!Expected(Holding(k), Block(j)) <=> j = k + 1
  <2>1. j = k + 1 => Start(k) <= size
    BY <1>1
  <2>2. j = (k + 1) % BLK_MODULUS <=> j = k + 1
    BY <1>1, <1>4
  <2>3. Holding(k).file # 0 <=> Start(k) <= size
    BY DEF Holding
  <2>4. Holding(k).next = (k + 1) % BLK_MODULUS
    BY DEF Holding
  <2> QED
    BY <1>3, <2>1, <2>2, <2>3, <2>4 DEF Server!Expected
<1>7. Block(j).op = "DATA" /\ Block(j).blk = j
  BY <1>3
<1>8. \/ j \in {k, k + 1} /\ Server!Answer(Holding(k), Block(j))
                                = [op |-> "ACK", blk |-> j]
      \/ Server!Answer(Holding(k), Block(j)) = [op |-> "ERROR", blk |-> 0]
  BY <1>5, <1>6, <1>7 DEF Server!Answer
<1>9. CASE j # k + 1
  BY <1>6, <1>7, <1>8, <1>9 DEF Server!Received
<1>10. CASE j = k + 1
  <2>1. Server!Received(Holding(k), Block(j)) = Server!Stored(Holding(k), Block(j))
    BY <1>6, <1>7, <1>10 DEF Server!Received
  <2>2. /\ j - 1 = k /\ Start(k) <= size /\ k + 1 < BLK_MODULUS
        /\ len = Upto(j) - Start(k) /\ len \in Nat
        /\ (len < TFTP_MAX_DATA_SIZE <=> size < Start(j))
        /\ Upto(k) = Start(k) /\ Start(k) \in Nat /\ Upto(j) \in Nat
        /\ Start(j) \in Nat /\ size \in Nat
    <3>1. j - 1 = k /\ Start(k) <= size /\ k + 1 < BLK_MODULUS /\ size \in Nat
      BY <1>1, <1>10, SizesAssumption
    <3>2. /\ Upto(k + 1) - Start(k) \in Nat
          /\ (Upto(k + 1) - Start(k) < B <=> size < Start(k + 1))
      BY <1>1, <3>1, NextBlock
    <3>3. /\ Upto(k) = Start(k) /\ Start(k) \in Nat /\ Upto(j) \in Nat
          /\ Start(j) \in Nat
      BY <1>1, <3>1, Reach, Starts
    <3> QED
      BY <1>2, <1>10, <3>1, <3>2, <3>3 DEF B
  <2>3. Server!Whole(Upto(k)) \o Server!Positions(Start(k), len) = Server!Whole(Upto(j))
    <3>1. Start(k) + len = Upto(j)
      BY <2>2
    <3> QED
      BY <2>2, <3>1, PositionsJoined
  <2>4. Holding(k) = [file |-> 1, next |-> k + 1,
                      disk |-> [f \in {1} |-> Server!Whole(Upto(k))], closed |-> {}]
    BY <1>4, <2>2 DEF Holding
  <2>5. /\ Block(j).len = len /\ Block(j).off = Start(k)
    BY <1>3, <2>2
  <2>6. Holding(j) = [file   |-> IF size < Start(j) THEN 0 ELSE 1,
                      next   |-> (k + 1 + 1) % BLK_MODULUS,
                      disk   |-> [f \in {1} |-> Server!Whole(Upto(j))],
                      closed |-> IF size < Start(j) THEN {1} ELSE {}]
    BY <1>10, <2>2 DEF Holding
  <2>7. PICK a, b : a = Server!Whole(Upto(k)) /\ b = Server!Whole(Upto(j))
    OBVIOUS
  <2>8. [f \in {1} |-> b] = [[f \in {1} |-> a] EXCEPT ![1] = b]
    OBVIOUS
  <2>9. Server!Stored(Holding(k), Block(j)) = Holding(j)
    <3> DEFINE r    == Holding(k)
               last == len < TFTP_MAX_DATA_SIZE
               fl   == IF last THEN 0 ELSE 1
               c    == IF last THEN {1} ELSE {}
               d    == [f \in {1} |-> b]
               n    == (k + 1 + 1) % BLK_MODULUS
    <3>1. /\ r.file = 1 /\ r.next = k + 1 /\ r.closed = {}
          /\ r.disk = [f \in {1} |-> a] /\ r.disk[1] = a
          /\ r = [file |-> 1, next |-> k + 1, disk |-> [f \in {1} |-> a], closed |-> {}]
      BY <2>4, <2>7
    <3>2. a \o Server!Positions(Start(k), len) = b
      BY <2>3, <2>7
    <3> HIDE DEF r
    <3>3. Server!Stored(r, Block(j))
             = [r EXCEPT !.file = IF last THEN 0 ELSE r.file,
                         !.next = (r.next + 1) % BLK_MODULUS,
                         !.disk = [r.disk EXCEPT ![1] =
                                     r.disk[1] \o Server!Positions(Start(k), len)],
                         !.closed = IF last THEN r.closed \cup {1} ELSE r.closed]
      BY <2>5, <3>1 DEF Server!Stored
    <3>4. /\ (IF last THEN 0 ELSE r.file) = fl /\ (r.next + 1) % BLK_MODULUS = n
          /\ [r.disk EXCEPT ![1] = r.disk[1] \o Server!Positions(Start(k), len)] = d
          /\ (IF last THEN r.closed \cup {1} ELSE r.closed) = c
      BY <2>8, <3>1, <3>2
    <3>5. Holding(j) = [file |-> fl, next |-> n, disk |-> d, closed |-> c]
      BY <2>2, <2>6, <2>7
    <3> HIDE DEF last, fl, c, d, n
    <3>6. Server!Stored(r, Block(j))
             = [r EXCEPT !.file = fl, !.next = n, !.disk = d, !.closed = c]
      BY <3>3, <3>4
    <3>7. Server!Stored(r, Block(j)) = [file |-> fl, next |-> n, disk |-> d, closed |-> c]
      BY <3>1, <3>6, ServerChanged
    <3> QED
      BY <3>5, <3>7 DEF r
  <2> QED
    BY <1>8, <1>10, <2>1, <2>9
<1> QED
  BY <1>9, <1>10

------------------------------------------------------------------------------
(* Every step keeps the invariant *)

\* What is on its way may get less.
LEMMA StoredKept ==
    ASSUME NEW k, StoredUpTo(k), toClient' \subseteq toClient, UNCHANGED <<srv, size>>
    PROVE  StoredUpTo(k)'
BY DEF StoredUpTo, Holding, Upto, Start, B

LEMMA ServerKept ==
    ASSUME Before \/ During, toClient' \subseteq toClient, toServer' \subseteq toServer,
           UNCHANGED <<srv, size, blknum>>,
           During => pc' \notin {"open", "socket", "getaddrinfo", "request"},
           Before => /\ pc' \notin {"block", "ack"}
                     /\ Wrq \in toServer' =>
                           pc' \notin {"open", "socket", "getaddrinfo", "request"}
                     /\ pc' \notin {"open", "socket", "getaddrinfo", "request",
                                    "answer"} => error' = 1
    PROVE  (Before \/ During)'
<1>1. CASE Before
  BY <1>1 DEF Before
<1>2. CASE During
  <2>1. PICK k \in 0 .. blknum : StoredUpTo(k)
    BY <1>2 DEF During
  <2>2. StoredUpTo(k)'
    BY <2>1, StoredKept
  <2>3. \A p \in toServer' : \E j \in 1 .. blknum : IsBlock(j) /\ p = Block(j)
    BY <1>2 DEF During
  <2>4. \A p \in toServer' : \E j \in 1 .. blknum' : IsBlock(j)' /\ p = Block(j)'
    BY <2>3 DEF IsBlock, Block, Start, B, Upto
  <2> QED
    BY <1>2, <2>2, <2>4 DEF During
<1> QED
  BY <1>1, <1>2

\* main() before and after the transfer, and the network losing a packet.
LEMMA OutsideTransfer ==
    ASSUME TransferInv, toClient' \subseteq toClient, toServer' \subseteq toServer,
           UNCHANGED <<srv, fileVars>>, error' \in {error, 1},
           \/ UNCHANGED <<pc, error>>
           \/ /\ pc \in {"open", "socket", "getaddrinfo"}
              /\ \/ error' = 1 /\ pc' \in {"close_sockfd", "close_infd", "return"}
                 \/ error' = error /\ pc' \in {"socket", "getaddrinfo", "request"}
           \/ /\ pc \in {"freeaddrinfo", "close_sockfd", "close_infd"}
              /\ pc' \in {"close_sockfd", "close_infd", "return"} /\ error' = error
    PROVE  TransferInv'
<1>1. ClientOK /\ (Before \/ During) /\ DoneOK
  BY DEF TransferInv
<1>2. UNCHANGED <<size, fpos, buflen, blknum>>
  BY DEF fileVars
<1>3. ClientOK'
  BY <1>1, <1>2 DEF ClientOK, IsBlock, Start, B, Upto
<1>4. (Before \/ During)'
  BY <1>1, <1>2, ServerKept DEF Before, During
<1>5. DoneOK'
  <2> SUFFICES ASSUME pc' \in {"freeaddrinfo", "close_sockfd", "close_infd", "return"},
                      error' = 0
               PROVE  blknum # 0 /\ size < Start(blknum) /\ StoredUpTo(blknum)'
    BY <1>2 DEF DoneOK, Start, B
  <2>1. pc \in {"freeaddrinfo", "close_sockfd", "close_infd", "return"} /\ error = 0
    BY <1>1 DEF ClientOK
  <2>2. blknum # 0 /\ size < Start(blknum) /\ StoredUpTo(blknum)
    BY <1>1, <2>1 DEF DoneOK
  <2> QED
    BY <1>2, <2>2, StoredKept
<1> QED
  BY <1>3, <1>4, <1>5 DEF TransferInv

LEMMA RequestStep ==
    ASSUME TransferInv, SendReqPacket
    PROVE  TransferInv'
<1>1. /\ pc = "request" /\ pc' = "answer" /\ toServer' \subseteq toServer \cup {Wrq}
      /\ UNCHANGED <<size, fpos, buflen, blknum, toClient, srv>> /\ error' \in {error, 1}
  BY DEF SendReqPacket, SendTo, fileVars
<1>2. ClientOK /\ Before
  BY <1>1 DEF TransferInv, During
<1>3. ClientOK'
  BY <1>1, <1>2 DEF ClientOK, IsBlock, Start, B
<1>4. Before'
  BY <1>1, <1>2 DEF Before
<1> QED
  BY <1>1, <1>3, <1>4 DEF TransferInv, DoneOK

LEMMA AnswerStep ==
    ASSUME TransferInv, RecvAnswer
    PROVE  TransferInv'
<1>1. /\ pc = "answer" /\ toClient' \subseteq toClient
      /\ UNCHANGED <<size, fpos, buflen, blknum, toServer, srv>>
      /\ \/ pc' = "block" /\ error' = error /\ toClient # {}
         \/ pc' = "freeaddrinfo" /\ error' = 1
  BY DEF RecvAnswer, Take, RecvFails, fileVars
<1>2. ClientOK /\ (Before \/ During)
  BY DEF TransferInv
<1>3. ClientOK'
  <2>1. size \in Nat /\ Start(0) = 0
    BY <1>2, SizesAssumption, Starts DEF ClientOK
  <2> QED
    BY <1>1, <1>2, <2>1 DEF ClientOK, IsBlock, Start, B
<1>4. (Before \/ During)'
  BY <1>1, <1>2, ServerKept DEF Before
<1> QED
  BY <1>1, <1>3, <1>4 DEF TransferInv, DoneOK

\* The block sent is the next one of the file, or read() has failed.
LEMMA BlockStep ==
    ASSUME TransferInv, SendBlock
    PROVE  TransferInv'
<1>1. /\ pc = "block" /\ pc' = "ack" /\ UNCHANGED <<size, toClient, srv>>
      /\ blknum' = (blknum + 1) % BLK_MODULUS
  BY DEF SendBlock
<1>2. ClientOK /\ During
  BY <1>1 DEF TransferInv, Before
<1>3. /\ size \in Sizes /\ blknum \in 0 .. BLK_MODULUS - 1 /\ error \in {0, 1}
      /\ fpos = Start(blknum) /\ Start(blknum) <= size /\ BLK_MODULUS \in Nat
  BY <1>1, <1>2, NoWrapAssumption DEF ClientOK
<1>4. PICK k \in Nat : k = blknum
  BY <1>3
<1>5. /\ IsBlock(k + 1) /\ k + 1 < BLK_MODULUS
      /\ Block(k + 1) = Data(k + 1, Start(k), Upto(k + 1) - Start(k))
      /\ Chunk = Upto(k + 1) - Start(k) /\ Upto(k + 1) \in Nat /\ Start(k) \in Nat
  BY <1>3, <1>4, NextBlock, NoWrap, Reach, Starts DEF Chunk, B
<1>6. blknum' = k + 1
  BY <1>1, <1>3, <1>4, <1>5, Remainders
<1>7. /\ toServer' \subseteq toServer \cup {Block(k + 1)} /\ error' \in {error, 1}
      /\ error' = 0 => fpos' = Upto(k + 1) /\ buflen' = Upto(k + 1) - Start(k)
  <2>1. fpos = Start(k) /\ Start(k) + (Upto(k + 1) - Start(k)) = Upto(k + 1)
    BY <1>3, <1>4, <1>5
  <2> QED
    BY <1>5, <1>6, <2>1 DEF SendBlock, SendTo
<1>8. ClientOK'
  <2>1. blknum' \in 0 .. BLK_MODULUS - 1 /\ blknum' # 0 /\ blknum' - 1 = k
    BY <1>3, <1>5, <1>6
  <2>2. IsBlock(blknum)' /\ error' \in {0, 1} /\ size' \in Sizes
    BY <1>1, <1>3, <1>5, <1>6, <1>7 DEF IsBlock, Start, B
  <2>3. error' = 0 => /\ fpos' = Upto(blknum)'
                      /\ buflen' = Upto(blknum)' - Start(blknum - 1)'
    BY <1>1, <1>6, <1>7, <2>1 DEF Upto, Start, B
  <2> QED
    BY <1>1, <2>1, <2>2, <2>3 DEF ClientOK
<1>9. During'
  <2>1. PICK j \in 0 .. blknum : StoredUpTo(j)
    BY <1>2 DEF During
  <2>2. StoredUpTo(j)' /\ j \in 0 .. blknum'
    BY <1>1, <1>4, <1>6, <2>1, StoredKept
  <2>3. \A p \in toServer' : \E i \in 1 .. k + 1 : IsBlock(i) /\ p = Block(i)
    <3>1. k + 1 \in 1 .. k + 1 /\ 1 .. k \subseteq 1 .. k + 1
      OBVIOUS
    <3> QED
      BY <1>2, <1>4, <1>5, <1>7, <3>1 DEF During
  <2>4. \A p \in toServer' : \E i \in 1 .. blknum' : IsBlock(i)' /\ p = Block(i)'
    BY <1>1, <1>6, <2>3 DEF IsBlock, Block, Start, B, Upto
  <2> QED
    BY <1>1, <2>2, <2>4 DEF During
<1> QED
  BY <1>1, <1>8, <1>9 DEF TransferInv, DoneOK

\* The ACK that is accepted tells that the server has what was sent.
LEMMA AckStep ==
    ASSUME TransferInv, RecvAck
    PROVE  TransferInv'
<1>1. /\ pc = "ack" /\ toClient' \subseteq toClient
      /\ UNCHANGED <<size, fpos, buflen, blknum, toServer, srv>>
      /\ pc' = IF More /\ error' = 0 THEN "block" ELSE "freeaddrinfo"
      /\ error' = 1 \/ (error' = error /\ \E p \in toClient : Accepts(p))
  BY DEF RecvAck, Take, RecvFails, fileVars
<1>2. ClientOK /\ During
  BY <1>1 DEF TransferInv, Before
<1>3. (Before \/ During)'
  BY <1>1, <1>2, ServerKept DEF Before
<1>4. /\ size \in Sizes /\ size \in Nat /\ error \in {0, 1} /\ blknum \in 0 .. BLK_MODULUS - 1
      /\ blknum # 0 /\ blknum \in Nat /\ IsBlock(blknum) /\ blknum - 1 \in Nat
  BY <1>1, <1>2, SizesAssumption, NoWrapAssumption DEF ClientOK
<1>5. CASE error' = 1
  <2>1. pc' = "freeaddrinfo"
    BY <1>1, <1>5
  <2>2. ClientOK'
    BY <1>1, <1>4, <1>5, <2>1 DEF ClientOK, IsBlock, Start, B
  <2> QED
    BY <1>3, <1>5, <2>1, <2>2 DEF TransferInv, DoneOK
<1>6. CASE error' = 0
  <2>1. error = 0 /\ \E p \in toClient : Accepts(p)
    BY <1>1, <1>6
  <2>2. PICK p \in toClient : Accepts(p)
    BY <2>1
  <2>3. PICK j \in 0 .. blknum : StoredUpTo(j)
    BY <1>2 DEF During
  <2>4. p.op = "ACK" /\ p.blk = blknum
    BY <2>2 DEF Accepts, IsAck
  <2>5. blknum \in 0 .. j
    BY <2>3, <2>4 DEF StoredUpTo
  <2>6. j = blknum
    BY <1>4, <2>5
  <2>7. StoredUpTo(blknum)'
    BY <1>1, <2>3, <2>6, StoredKept
  <2>8. PICK k \in Nat : k = blknum - 1 /\ blknum = k + 1
    BY <1>4
  <2>9. /\ fpos = Upto(k + 1) /\ buflen = Upto(k + 1) - Start(k) /\ Start(k) <= size
    BY <1>1, <1>2, <1>4, <2>1, <2>8 DEF ClientOK, IsBlock
  <2>10. /\ (buflen < B <=> size < Start(k + 1))
         /\ buflen \in Nat /\ buflen <= B /\ B \in Nat
         /\ Start(k + 1) \in Nat /\ Start(k) \in Nat
    BY <1>4, <2>8, <2>9, NextBlock, Starts
  <2>11. CASE More
    <3>1. Start(k + 1) <= size /\ pc' = "block"
      BY <1>1, <1>4, <1>6, <2>10, <2>11 DEF More, B
    <3>2. fpos = Start(blknum) /\ fpos <= size
      BY <1>4, <2>8, <2>9, <3>1, Reach
    <3>3. ClientOK'
      BY <1>1, <1>4, <1>6, <3>1, <3>2 DEF ClientOK, IsBlock, Start, B
    <3> QED
      BY <1>3, <3>1, <3>3 DEF TransferInv, DoneOK
  <2>12. CASE ~More
    <3>1. size < Start(blknum) /\ pc' = "freeaddrinfo"
      BY <1>1, <2>8, <2>10, <2>12 DEF More, B
    <3>2. ClientOK'
      BY <1>1, <1>4, <1>6, <3>1 DEF ClientOK, IsBlock, Start, B
    <3>3. DoneOK'
      BY <1>1, <1>4, <2>7, <3>1 DEF DoneOK, Start, B
    <3> QED
      BY <1>3, <3>2, <3>3 DEF TransferInv
  <2> QED
    BY <2>11, <2>12
<1> QED
  BY <1>1, <1>4, <1>5, <1>6

\* The server answers the write request or a block, first or repeated.
LEMMA ServerStep ==
    ASSUME TransferInv, ServerReceives
    PROVE  TransferInv'
<1>1. PICK p \in toServer :
         /\ toServer' \subseteq toServer
         /\ p.op = "WRQ" => toServer' = toServer \ {p}
         /\ srv' = Server!Received(srv, p)
         /\ toClient' = toClient \cup {Server!Answer(srv, p)}
         /\ UNCHANGED <<pc, error, size, fpos, buflen, blknum>>
  BY DEF ServerReceives, Take, fileVars
<1>2. /\ ClientOK /\ (Before \/ During) /\ DoneOK /\ size \in Sizes
      /\ blknum \in 0 .. BLK_MODULUS - 1 /\ BLK_MODULUS \in Nat
  BY NoWrapAssumption DEF TransferInv, ClientOK
<1>3. ClientOK'
  BY <1>1, <1>2 DEF ClientOK, IsBlock, Start, B, Upto
<1>4. CASE Before
  <2>1. /\ p = Wrq /\ srv = Server!Idle /\ toClient = {} /\ p.op = "WRQ" /\ toServer' = {}
        /\ blknum = 0
        /\ pc \notin {"open", "socket", "getaddrinfo", "request", "block", "ack"}
    BY <1>1, <1>4 DEF Before, Wrq
  <2>2. srv' = Holding(0) /\ toClient' = {[op |-> "ACK", blk |-> 0]}
    BY <1>1, <1>2, <2>1, ServerOpens
  <2>3. srv' = Holding(0)'
    BY <1>1, <2>2 DEF Holding, Upto, Start, B
  <2>4. StoredUpTo(0)'
    BY <2>2, <2>3 DEF StoredUpTo
  <2>5. During'
    BY <1>1, <1>2, <2>1, <2>4 DEF During
  <2>6. DoneOK'
    BY <1>1, <1>4 DEF DoneOK, Before
  <2> QED
    BY <1>3, <2>5, <2>6 DEF TransferInv
<1>5. CASE During
  <2>1. PICK j \in 1 .. blknum : IsBlock(j) /\ p = Block(j)
    BY <1>5 DEF During
  <2>2. ASSUME NEW k \in 0 .. blknum, StoredUpTo(k)
        PROVE  StoredUpTo(IF j = k + 1 THEN j ELSE k)'
    <3>1. PICK n \in 0 .. blknum : n = IF j = k + 1 THEN j ELSE k
      BY <1>2, <2>1
    <3>2. srv = Holding(k) /\ k \in 0 .. BLK_MODULUS - 1
      BY <1>2, <2>2 DEF StoredUpTo
    <3>3. srv' = Holding(n)
      BY <1>1, <1>2, <2>1, <3>1, <3>2, ServerStores
    <3>4. srv' = Holding(n)'
      BY <1>1, <3>3 DEF Holding, Upto, Start, B
    <3>5. \/ j \in {k, k + 1} /\ Server!Answer(srv, p) = [op |-> "ACK", blk |-> j]
          \/ Server!Answer(srv, p) = [op |-> "ERROR", blk |-> 0]
      BY <1>2, <2>1, <3>2, ServerStores
    <3>6. \A a \in toClient' : /\ a.op \in {"ACK", "ERROR"}
                               /\ a.op = "ACK" => a.blk \in 0 .. n
      <4>1. 0 .. k \subseteq 0 .. n /\ (j \in {k, k + 1} => j \in 0 .. n)
        BY <1>2, <2>1, <3>1
      <4>2. PICK r : r = Server!Answer(srv, p)
        OBVIOUS
      <4>3. r.op \in {"ACK", "ERROR"} /\ (r.op = "ACK" => r.blk \in 0 .. n)
        BY <3>5, <4>1, <4>2
      <4>4. toClient' = toClient \cup {r}
        BY <1>1, <4>2
      <4> QED
        BY <2>2, <4>1, <4>3, <4>4 DEF StoredUpTo
    <3> QED
      BY <3>1, <3>4, <3>6 DEF StoredUpTo
  <2>3. \E n \in 0 .. blknum : StoredUpTo(n)'
    <3>1. PICK k \in 0 .. blknum : StoredUpTo(k)
      BY <1>5 DEF During
    <3>2. PICK n \in 0 .. blknum : n = IF j = k + 1 THEN j ELSE k
      BY <1>2, <2>1
    <3> QED
      BY <2>2, <3>1, <3>2
  <2>4. \A q \in toServer' : \E k \in 1 .. blknum' : IsBlock(k)' /\ q = Block(k)'
    BY <1>1, <1>5 DEF During, IsBlock, Block, Start, B, Upto
  <2>5. During'
    BY <1>1, <1>5, <2>3, <2>4 DEF During
  <2>6. DoneOK'
    <3>1. PICK n : n = blknum
      OBVIOUS
    <3>2. j # n + 1 /\ n \in 0 .. blknum
      BY <1>2, <2>1, <3>1
    <3>3. StoredUpTo(n) => StoredUpTo(n)'
      BY <2>2, <3>2
    <3>4. DoneOK <=> ((pc \in {"freeaddrinfo", "close_sockfd", "close_infd", "return"}
                       /\ error = 0) => n # 0 /\ size < Start(n) /\ StoredUpTo(n))
      BY <3>1 DEF DoneOK
    <3>5. DoneOK' <=> ((pc \in {"freeaddrinfo", "close_sockfd", "close_infd", "return"}
                        /\ error = 0) => n # 0 /\ size < Start(n) /\ StoredUpTo(n)')
      BY <1>1, <3>1 DEF DoneOK, Start, B
    <3> QED
      BY <1>2, <3>3, <3>4, <3>5
  <2> QED
    BY <1>3, <2>5, <2>6 DEF TransferInv
<1> QED
  BY <1>2, <1>4, <1>5

LEMMA StepTransfer ==
    ASSUME TransferInv, [Next]_vars
    PROVE  TransferInv'
<1>1. CASE Open \/ Socket \/ Resolve
  BY <1>1, OutsideTransfer DEF Open, Socket, Resolve, Acquire, netVars
<1>2. CASE FreeAddrInfo \/ CloseSocket \/ CloseFile
  BY <1>2, OutsideTransfer DEF FreeAddrInfo, CloseSocket, CloseFile, Release, netVars
<1>3. CASE Lose \/ UNCHANGED vars
  BY <1>3, OutsideTransfer DEF Lose, vars, netVars
<1> QED
  BY <1>1, <1>2, <1>3, RequestStep, AnswerStep, BlockStep, AckStep, ServerStep
  DEF Next, Main

LEMMA InitTransfer == Init => TransferInv
<1> SUFFICES ASSUME Init PROVE TransferInv
  OBVIOUS
<1>1. ClientOK
  BY NoWrapAssumption DEF Init, ClientOK
<1>2. Before
  BY DEF Init, Before
<1> QED
  BY <1>1, <1>2 DEF Init, TransferInv, DoneOK

\* For every file whose blocks can be numbered: whatever the network loses,
\* repeats or reorders, and whichever call fails, minitftp returns 0 only if
\* the server's file is the one it was given.
THEOREM SuccessMeansStored == Spec => []SuccessIsReal
<1>1. TransferInv => SuccessIsReal
  <2> SUFFICES ASSUME TransferInv, pc = "return", error = 0
               PROVE  srv.disk[1] = Server!Whole(size) /\ srv.closed = {1}
    BY DEF SuccessIsReal, Returned
  <2>1. /\ size < Start(blknum) /\ srv = Holding(blknum) /\ size \in Sizes
        /\ blknum \in Nat
    BY NoWrapAssumption DEF TransferInv, DoneOK, StoredUpTo, ClientOK
  <2>2. Upto(blknum) = size /\ ~(Start(blknum) <= size)
    BY <2>1, Reach, Starts, SizesAssumption
  <2> QED
    BY <2>1, <2>2 DEF Holding
<1>2. TransferInv /\ [Next]_vars => TransferInv'
  BY StepTransfer
<1> QED
  BY <1>1, <1>2, InitTransfer, PTL DEF Spec
=============================================================================
