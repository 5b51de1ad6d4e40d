---------------------------- MODULE UploadProofs -----------------------------
(****************************************************************************)
(* Proofs about Upload: what the handler, the line and the server make of a *)
(* file together, for any number of files and clients, any block size, any  *)
(* number of block numbers and any losses.                                  *)
(****************************************************************************)
EXTENDS PatientProofs, Upload

\* The environment these proofs are about: patient clients, which may close
\* files while another is on the line, an answer comes before its timeout or
\* not at all, and recv_tftp_packet() finds memory.
PunctualEnv == PatientEnv /\ "recv" \notin Env /\ "late" \notin Line

------------------------------------------------------------------------------
(* The invariant *)

\* What the disk holds of transfer t: nothing before the write request, at
\* most one block more than is acknowledged, and no more once it is finished.
RecordStored(t, disk) ==
    /\ t.acked \in Nat
    /\ \E n \in 0 .. TFTP_MAX_DATA_SIZE : disk = Server!Whole(t.acked + n)
    /\ t.ftx_state \in {"S_QUEUED", "S_READY", "S_WRQ_SENT"} =>
          t.acked = 0 /\ disk = Server!Whole(0)
    /\ t.ftx_state = "S_FINISHED" => disk = Server!Whole(t.acked)
    /\ t.ftx_state = "S_DATA_SENT" => t.ftx_blknum > 0

DisksOK ==
    /\ Len(g_transfers) <= MaxFiles
    /\ \A f \in DOMAIN g_transfers : RecordStored(g_transfers[f], srv.disk[f])
    /\ \A f \in 1 .. MaxFiles : f > Len(g_transfers) => srv.disk[f] = <<>>

\* The frame of file f that is being exchanged.
FrameOf(f) ==
    IF g_transfers[f].ftx_state = "S_WRQ_SENT" THEN WrqFrame(f)
    ELSE DataFrame(f, g_transfers[f].ftx_blknum, Head(g_transfers[f].ftx_buffers))

\* The server has n bytes of file f and expects the block with number blk of
\* it, unless a short block has ended its session.
Expects(f, blk, n) ==
    /\ srv.file \in {0, f} /\ srv.next = blk % BLK_MODULUS
    /\ srv.disk[f] = Server!Whole(n)

\* The server has not seen that frame yet.
Unseen(f) ==
    g_transfers[f].ftx_state = "S_DATA_SENT" =>
        Expects(f, g_transfers[f].ftx_blknum, g_transfers[f].acked)

\* The server has given answer a to it.  An ACK the handler accepts means
\* that the block is stored.
AnswerOK(f, a) ==
    LET t == g_transfers[f] IN
    /\ t.ftx_state = "S_WRQ_SENT" => Expects(f, t.ftx_blknum + 1, t.acked)
    /\ (t.ftx_state = "S_DATA_SENT" /\ a.op = "ACK" /\ a.blk = t.ftx_blknum) =>
          Expects(f, t.ftx_blknum + 1,
                  t.acked + Chunk(Head(t.ftx_buffers).fb_nbytes_to_send))

\* One message is on the line, or it has been lost.
Transit(f) ==
    \/ toServer = <<FrameOf(f)>> /\ toClient = <<>> /\ Unseen(f)
    \/ toServer = <<>> /\ \E a \in Answers : toClient = <<a>> /\ AnswerOK(f, a)
    \/ toServer = <<>> /\ toClient = <<>>

\* The exchange, from the write to the end of the read.
LineQuiet == toServer = <<>> /\ toClient = <<>>
Exchange(f) ==
    \/ /\ sreq.cmd = "write" /\ iopkt1.dp_Type = "WRITE_RETURN"
       /\ sreq.st = "active" => /\ sreq.frame = FrameOf(f)
                                /\ LineQuiet /\ Unseen(f)
       /\ sreq.st = "replied" => Transit(f)
    \/ /\ sreq.cmd = "read" /\ iopkt1.dp_Type = "READ_RETURN"
       /\ sreq.st = "active" => Transit(f)
       /\ sreq.st = "replied" => LineQuiet /\ AnswerOK(f, sreq.ans)

\* Between two exchanges server and handler agree, and nothing is on the
\* line when a timeout ends an exchange.
LineOK ==
    /\ Pending(sreq) => Exchange(iopkt1.dp_Arg1)
    /\ ~Pending(sreq) => LineQuiet
    /\ Out(BufferPackets) =>
          LET f == iopkt1.dp_Arg1 IN
          Expects(f, g_transfers[f].ftx_blknum + 1, g_transfers[f].acked)
    /\ treq = "expired" => LineQuiet /\ (sreq.st = "active" => sreq.cmd = "read")

Servers == [file : 0 .. MaxFiles, next : Nat,
            disk : [1 .. MaxFiles -> Seq(Nat)], closed : SUBSET Nat]
SrvOK == srv \in Servers

LineInv == SrvOK /\ DisksOK /\ LineOK
UploadInv == PatientInv /\ LineInv

------------------------------------------------------------------------------
(* Files on the server's disk *)

LEMMA WholeNothing == Server!Whole(0) = <<>>
BY DEF Server!Whole, Server!Positions

LEMMA WholeSeq == ASSUME NEW n \in Nat
                  PROVE  Server!Whole(n) \in Seq(Nat) /\ Len(Server!Whole(n)) = n
<1>1. \A i \in 1 .. n : 0 + i \in Nat
  OBVIOUS
<1>2. [i \in 1 .. n |-> 0 + i] \in Seq(Nat) /\ Len([i \in 1 .. n |-> 0 + i]) = n
  BY <1>1
<1> QED
  BY <1>2 DEF Server!Whole, Server!Positions

\* A block that starts where the file ends makes it longer.
LEMMA WholeGrows ==
    ASSUME NEW n \in Nat, NEW len \in Nat
    PROVE  Server!Whole(n) \o Server!Positions(n, len) = Server!Whole(n + len)
<1> DEFINE a == Server!Whole(n)
           b == Server!Positions(n, len)
           w == Server!Whole(n + len)
<1>1. a \in Seq(Nat) /\ Len(a) = n /\ \A i \in 1 .. n : a[i] = i
  BY WholeSeq DEF Server!Whole, Server!Positions
<1>2. b \in Seq(Nat) /\ Len(b) = len /\ \A i \in 1 .. len : b[i] = n + i
  <2>1. [i \in 1 .. len |-> n + i] \in Seq(Nat)
        /\ Len([i \in 1 .. len |-> n + i]) = len
    OBVIOUS
  <2> QED
    BY <2>1 DEF Server!Positions
<1>3. w \in Seq(Nat) /\ Len(w) = n + len /\ \A i \in 1 .. n + len : w[i] = i
  BY WholeSeq DEF Server!Whole, Server!Positions
<1> HIDE DEF a, b, w
<1>4. /\ a \o b \in Seq(Nat) /\ Len(a \o b) = n + len
      /\ \A i \in 1 .. n + len :
            (a \o b)[i] = IF i <= n THEN a[i] ELSE b[i - n]
  BY <1>1, <1>2
<1>5. \A i \in 1 .. n + len : (a \o b)[i] = w[i]
  BY <1>1, <1>2, <1>3, <1>4
<1>6. ASSUME NEW s \in Seq(Nat), NEW t \in Seq(Nat), Len(s) = Len(t),
             \A i \in 1 .. Len(t) : s[i] = t[i]
      PROVE  s = t
  BY <1>6
<1> DEFINE c == a \o b
<1>7. c \in Seq(Nat) /\ Len(c) = Len(w) /\ \A i \in 1 .. Len(w) : c[i] = w[i]
  BY <1>3, <1>4, <1>5
<1> HIDE DEF c
<1>8. c = w
  BY <1>3, <1>6, <1>7
<1> QED
  BY <1>8 DEF a, b, c, w

\* A number is a multiple of m and a remainder.
LEMMA Division ==
    ASSUME NEW m \in Int, m > 0, NEW k \in Int,
           NEW q \in Int, q = k \div m, NEW x \in Int, x = k % m
    PROVE  k = m * q + x
OBVIOUS

\* The number after the next, and a number that is its own predecessor.
LEMMA NextNumber ==
    ASSUME NEW k \in Nat
    PROVE  /\ k % BLK_MODULUS \in 0 .. BLK_MODULUS - 1
           /\ ((k % BLK_MODULUS) + 1) % BLK_MODULUS = (k + 1) % BLK_MODULUS
           /\ k % BLK_MODULUS = ((k % BLK_MODULUS) - 1) % BLK_MODULUS
                 => k % BLK_MODULUS = 0
<1>1. PICK m \in Nat \ {0} : m = BLK_MODULUS
  BY SizesAssumption
<1>2. k % m \in 0 .. m - 1
  OBVIOUS
<1>3. ((k % m) + 1) % m = (k + 1) % m
  <2>1. PICK q \in Int : q = k \div m
    OBVIOUS
  <2>2. PICK x \in Int : x = k % m
    OBVIOUS
  <2>3. x \in 0 .. m - 1 /\ k = m * q + x
    BY <1>2, <2>1, <2>2, Division
  <2>4. \A n \in Nat \ {0}, p \in Int, y \in Nat :
           /\ y < n => (n * p + y) % n = y /\ y % n = y
           /\ (n * p) % n = 0 /\ n % n = 0
           /\ n * p + n = n * (p + 1)
    <3>1. \A n \in Nat \ {0}, p \in Int, y \in Nat : y < n => (n * p + y) % n = y
      OBVIOUS
    <3>2. \A n \in Nat \ {0}, p \in Int : (n * p) % n = 0
      OBVIOUS
    <3>3. \A n \in Nat \ {0}, y \in Nat : y < n => y % n = y
      OBVIOUS
    <3>4. \A n \in Nat \ {0} : n % n = 0
      OBVIOUS
    <3>5. \A n \in Nat \ {0}, p \in Int : n * p + n = n * (p + 1)
      OBVIOUS
    <3> QED
      BY <3>1, <3>2, <3>3, <3>4, <3>5
  <2>5. k + 1 = m * q + (x + 1) /\ x + 1 \in Nat /\ q + 1 \in Int
    BY <2>3
  <2>6. CASE x + 1 < m
    <3>1. (m * q + (x + 1)) % m = x + 1 /\ (x + 1) % m = x + 1
      BY <2>4, <2>5, <2>6
    <3> QED
      BY <2>2, <2>5, <3>1
  <2>7. CASE x + 1 = m
    <3>1. k + 1 = m * (q + 1)
      BY <2>4, <2>5, <2>7
    <3> QED
      BY <2>2, <2>4, <2>5, <2>7, <3>1
  <2> QED
    BY <2>3, <2>6, <2>7
<1>4. \A x \in 0 .. m - 1 : x > 0 => (x - 1) % m = x - 1
  OBVIOUS
<1> QED
  BY <1>1, <1>2, <1>3, <1>4

------------------------------------------------------------------------------
(* Steps of the line and the server *)

\* What is on the line belongs to an exchange whose time is not over.
LEMMA LineInUse ==
    ASSUME PatientInv, LineInv, ~LineQuiet
    PROVE  /\ Pending(sreq) /\ treq # "expired" /\ Transit(iopkt1.dp_Arg1)
           /\ \/ /\ sreq.cmd = "write" /\ sreq.st = "replied"
                 /\ iopkt1.dp_Type = "WRITE_RETURN"
              \/ /\ sreq.cmd = "read" /\ sreq.st = "active"
                 /\ iopkt1.dp_Type = "READ_RETURN"
<1>1. Pending(sreq) /\ treq # "expired" /\ Exchange(iopkt1.dp_Arg1)
  BY DEF LineInv, LineOK
<1>2. sreq.st \in {"active", "replied"}
  BY <1>1 DEF PatientInv, FileInv, TypeOK, Requests, Pending
<1> QED
  BY <1>1, <1>2 DEF Exchange

\* Every step is one of Handler, as an answer of the server is one of those
\* a read may return there.
LEMMA StepOfHandler ==
    ASSUME PatientInv, LineInv, [UploadNext]_uploadVars
    PROVE  [Next]_vars
<1>1. undef = {}
  BY DEF PatientInv, PatientOK
<1>2. CASE HandlerStep \/ ClientStep
  BY <1>2 DEF HandlerStep, ClientStep, Next
<1>3. CASE Timeout \/ FrameWritten
  BY <1>1, <1>3 DEF Timeout, FrameWritten, Next, Device
<1>4. CASE AnswerRead
  <2>1. ~LineQuiet
    BY <1>4 DEF AnswerRead, LineQuiet
  <2>2. Transit(iopkt1.dp_Arg1)
    BY <2>1, LineInUse
  <2>3. PICK a \in Answers : toClient = <<a>>
    BY <1>4, <2>2 DEF Transit, AnswerRead
  <2>4. Head(toClient) \in Readable
    BY <2>3 DEF Readable
  <2>5. ReadDone
    BY <1>4, <2>4 DEF AnswerRead, ReadDone
  <2> QED
    BY <1>1, <2>5 DEF Next, Device
<1>5. CASE ServerReceives \/ Lose \/ UNCHANGED uploadVars
  BY <1>5 DEF ServerReceives, Lose, uploadVars, vars
<1> QED
  BY <1>2, <1>3, <1>4, <1>5 DEF UploadNext

\* What holds of the files and the disk before and after a step of the line.
LEMMA LineFacts ==
    ASSUME PatientInv, LineInv, Pending(sreq), NEW f, f = iopkt1.dp_Arg1
    PROVE  LET t == g_transfers[f] IN
           /\ g_transfers \in Seq(Transfers) /\ f \in DOMAIN g_transfers
           /\ f \in 1 .. MaxFiles /\ t \in Transfers
           /\ t.ftx_state \in {"S_WRQ_SENT", "S_DATA_SENT"}
           /\ RecordOK(t, "none") /\ t.ftx_error = "none"
           /\ RecordStored(t, srv.disk[f])
           /\ t.ftx_state = "S_DATA_SENT" => t.ftx_buffers # <<>>
<1> DEFINE t == g_transfers[f]
<1>1. /\ undef = {} /\ FileInv /\ AloneOK /\ SenderOK /\ CleanOK /\ TransferOK
      /\ g_transfers \in Seq(Transfers)
  BY DEF PatientInv, PatientOK, FileInv, TypeOK, TransferInv
<1>2. f \in DOMAIN g_transfers
  BY <1>1 DEF FileInv, PacketsOK, IoPacketOK
<1>3. f \in 1 .. MaxFiles /\ RecordStored(t, srv.disk[f])
  <2>1. Len(g_transfers) <= MaxFiles /\ RecordStored(t, srv.disk[f])
    BY <1>2 DEF LineInv, DisksOK
  <2> QED
    BY <1>1, <1>2, <2>1, BoundsAssumption
<1>4. g_busy /\ Sending(f)
  BY <1>1, <1>2 DEF SenderOK
<1>5. "out" \in ToSet(port) => outpkt.dp_Type = "SEND_NEXT_FILE"
  BY <1>1 DEF AloneOK, AtRest, Joining
<1>6. RecordOK(t, "none")
  <2>1. PICK m : m = Mark(f)
    OBVIOUS
  <2>2. m \in {"none", "SEND_NEXT_FILE"}
    BY <1>5, <2>1 DEF Mark
  <2>3. RecordOK(t, m)
    BY <1>1, <1>2, <2>1 DEF TransferOK, FilesOK
  <2>4. HeadOK(t, m) => HeadOK(t, "none")
    BY <2>2 DEF HeadOK
  <2> QED
    BY <2>2, <2>3, <2>4 DEF RecordOK, Chain, BufferPackets
<1>7. t.ftx_state = "S_DATA_SENT" => t.ftx_buffers # <<>>
  BY <1>1, <1>2, <1>5, BuffersThere DEF Out
<1> QED
  BY <1>1, <1>2, <1>3, <1>4, <1>6, <1>7 DEF Sending, CleanOK

\* The disk and the files are as they were.
LEMMA DisksSame ==
    ASSUME LineInv, UNCHANGED <<g_transfers, srv>>
    PROVE  SrvOK' /\ DisksOK'
BY DEF LineInv, SrvOK, DisksOK

\* An exchange goes on.
LEMMA ExchangeGoesOn ==
    ASSUME PatientInv', SrvOK', DisksOK', Pending(sreq'), treq' # "expired",
           NEW f, f = iopkt1'.dp_Arg1, Exchange(f)'
    PROVE  LineInv'
<1>1. ~Out(BufferPackets)'
  BY DEF PatientInv, PatientOK, AloneOK, AtRest, Joining, Out, BufferPackets
<1> QED
  BY <1>1 DEF LineInv, LineOK

\* serial.device has sent a frame.
LEMMA FrameWrittenKeepsLine ==
    ASSUME PatientInv, PatientInv', LineInv, FrameWritten
    PROVE  LineInv'
<1>1. /\ sreq.cmd = "write" /\ sreq.st = "active" /\ Pending(sreq)
      /\ sreq'.cmd = "write" /\ sreq'.st = "replied"
      /\ UNCHANGED <<iopkt1, g_transfers, treq>>
  BY DEF FrameWritten, WriteDone, SerialReplies, PatientInv, FileInv, TypeOK,
     Requests, Pending
<1>2. PICK f : f = iopkt1.dp_Arg1
  OBVIOUS
<1>3. /\ sreq.frame = FrameOf(f) /\ LineQuiet /\ Unseen(f)
      /\ iopkt1.dp_Type = "WRITE_RETURN" /\ treq # "expired"
  BY <1>1, <1>2 DEF LineInv, LineOK, Exchange
<1>4. toServer' = <<FrameOf(f)>> /\ toClient' = <<>> /\ UNCHANGED srv
  BY <1>3 DEF FrameWritten, LineQuiet
<1>5. Transit(f)'
  BY <1>1, <1>3, <1>4 DEF Transit, Unseen, Expects, FrameOf
<1>6. Pending(sreq') /\ Exchange(f)'
  BY <1>1, <1>3, <1>5 DEF Exchange, Pending
<1>7. SrvOK' /\ DisksOK'
  BY <1>1, <1>4, DisksSame
<1> QED
  BY <1>1, <1>2, <1>3, <1>6, <1>7, ExchangeGoesOn

\* serial.device has read the answer.
LEMMA AnswerReadKeepsLine ==
    ASSUME PatientInv, PatientInv', LineInv, AnswerRead
    PROVE  LineInv'
<1>1. /\ sreq.cmd = "read" /\ sreq.st = "active" /\ Pending(sreq)
      /\ sreq'.cmd = "read" /\ sreq'.st = "replied"
      /\ sreq'.ans = Head(toClient) /\ toClient # <<>>
      /\ UNCHANGED <<iopkt1, g_transfers, treq, srv, toServer>>
      /\ toClient' = Tail(toClient)
  BY DEF AnswerRead, SerialReplies, PatientInv, FileInv, TypeOK, Requests, Pending
<1>2. PICK f : f = iopkt1.dp_Arg1
  OBVIOUS
<1>3. Transit(f) /\ treq # "expired" /\ iopkt1.dp_Type = "READ_RETURN"
  BY <1>1, <1>2, LineInUse DEF LineQuiet
<1>4. PICK a \in Answers : toClient = <<a>> /\ AnswerOK(f, a) /\ toServer = <<>>
  BY <1>1, <1>3 DEF Transit
<1>5. LineQuiet' /\ sreq'.ans = a
  BY <1>1, <1>4 DEF LineQuiet
<1>6. AnswerOK(f, sreq.ans)'
  BY <1>1, <1>4, <1>5 DEF AnswerOK, Expects
<1>7. Pending(sreq') /\ Exchange(f)'
  BY <1>1, <1>3, <1>5, <1>6 DEF Exchange, Pending
<1>8. SrvOK' /\ DisksOK'
  BY <1>1, DisksSame
<1> QED
  BY <1>1, <1>2, <1>3, <1>7, <1>8, ExchangeGoesOn

\* A frame or an answer is lost.
LEMMA LoseKeepsLine ==
    ASSUME PatientInv, PatientInv', LineInv, Lose
    PROVE  LineInv'
<1>1. ~LineQuiet /\ UNCHANGED <<iopkt1, g_transfers, treq, srv, sreq>>
  BY DEF Lose, LineQuiet, vars, ioVars
<1>2. PICK f : f = iopkt1.dp_Arg1
  OBVIOUS
<1>3. /\ Transit(f) /\ treq # "expired" /\ Pending(sreq)
      /\ \/ /\ sreq.cmd = "write" /\ sreq.st = "replied"
            /\ iopkt1.dp_Type = "WRITE_RETURN"
         \/ /\ sreq.cmd = "read" /\ sreq.st = "active"
            /\ iopkt1.dp_Type = "READ_RETURN"
  BY <1>1, <1>2, LineInUse
<1>4. toServer' = <<>> /\ toClient' = <<>>
  <2>1. \A x : Tail(<<x>>) = <<>>
    OBVIOUS
  <2>2. \/ \E x : toServer = <<x>> /\ toClient = <<>>
        \/ \E a : toServer = <<>> /\ toClient = <<a>>
    BY <1>1, <1>3 DEF Transit, LineQuiet
  <2> QED
    BY <2>1, <2>2 DEF Lose
<1>5. Exchange(f)'
  BY <1>1, <1>3, <1>4 DEF Exchange, Transit
<1>6. SrvOK' /\ DisksOK'
  BY <1>1, DisksSame
<1> QED
  BY <1>1, <1>2, <1>3, <1>5, <1>6, ExchangeGoesOn

\* The time of an exchange is over, and nothing is left on the line.
LEMMA TimeoutKeepsLine ==
    ASSUME PunctualEnv, PatientInv, PatientInv', LineInv, Timeout
    PROVE  LineInv'
<1>1. /\ LineQuiet /\ (sreq.st = "active" => sreq.cmd = "read")
      /\ treq = "running"
      /\ UNCHANGED <<iopkt1, g_transfers, srv, sreq, toServer, toClient>>
  BY DEF Timeout, TimerFires, PunctualEnv, LineQuiet, lineVars
<1>2. PICK f : f = iopkt1.dp_Arg1
  OBVIOUS
<1>3. Pending(sreq) /\ Pending(sreq')
  BY <1>1 DEF PatientInv, PatientOK, RequestsOK
<1>4. Exchange(f)
  BY <1>2, <1>3 DEF LineInv, LineOK
<1>5. Exchange(f)'
  BY <1>1, <1>4 DEF Exchange, Transit, Unseen, AnswerOK, Expects, FrameOf, LineQuiet
<1>6. SrvOK' /\ DisksOK'
  BY <1>1, DisksSame
<1>7. ~Out(BufferPackets)'
  BY <1>3 DEF PatientInv, PatientOK, AloneOK, AtRest, Joining, Out, BufferPackets
<1>8. LineQuiet' /\ (sreq'.st = "active" => sreq'.cmd = "read")
  BY <1>1 DEF LineQuiet
<1> QED
  BY <1>1, <1>2, <1>3, <1>5, <1>6, <1>7, <1>8 DEF LineInv, LineOK

\* The server opens the file of a write request.
LEMMA RequestReceived ==
    ASSUME SrvOK, NEW f \in 1 .. MaxFiles, NEW s,
           s = Server!Received(srv, WrqFrame(f))
    PROVE  /\ s \in Servers
           /\ s.file = f /\ s.next = 1 % BLK_MODULUS
           /\ s.disk = [srv.disk EXCEPT ![f] = <<>>]
           /\ Server!Answer(srv, WrqFrame(f)) = [op |-> "ACK", blk |-> 0]
<1>1. WrqFrame(f).op = "WRQ" /\ WrqFrame(f).file = f
  BY DEF WrqFrame
<1>2. /\ s = Server!Opened(srv, f)
      /\ Server!Answer(srv, WrqFrame(f)) = [op |-> "ACK", blk |-> 0]
  BY <1>1 DEF Server!Received, Server!Answer, Server!Expected, Server!Repeated
<1> DEFINE d == [srv.disk EXCEPT ![f] = <<>>]
           c == srv.closed \ {f}
<1>3. PICK b \in Nat : b = 1 % BLK_MODULUS
  BY NextNumber
<1>4. f \in 0 .. MaxFiles
  BY BoundsAssumption
<1>5. d \in [1 .. MaxFiles -> Seq(Nat)] /\ c \in SUBSET Nat
  BY DEF SrvOK, Servers
<1>6. s = [srv EXCEPT !.file = f, !.next = b, !.disk = d, !.closed = c]
  BY <1>2, <1>3 DEF Server!Opened
<1> HIDE DEF d, c
<1>7. s \in Servers /\ s.file = f /\ s.next = b /\ s.disk = d
  BY <1>4, <1>5, <1>6 DEF SrvOK, Servers
<1> QED
  BY <1>2, <1>3, <1>7 DEF d

\* The server stores the block it expects.
LEMMA BlockReceived ==
    ASSUME SrvOK, NEW p, NEW f \in 1 .. MaxFiles, p.op = "DATA", srv.file = f,
           NEW n \in Nat, NEW len \in Nat, p.off = n, p.len = len,
           NEW k \in Nat, p.blk = k % BLK_MODULUS,
           Expects(f, k, n), NEW s, s = Server!Received(srv, p)
    PROVE  /\ s \in Servers
           /\ s.file \in {0, f} /\ s.next = (k + 1) % BLK_MODULUS
           /\ s.disk = [srv.disk EXCEPT ![f] = Server!Whole(n + len)]
           /\ Server!Answer(srv, p) = [op |-> "ACK", blk |-> k % BLK_MODULUS]
<1>1. Server!Expected(srv, p)
  BY DEF Server!Expected, Expects
<1>2. /\ s = Server!Stored(srv, p)
      /\ Server!Answer(srv, p) = [op |-> "ACK", blk |-> k % BLK_MODULUS]
  BY <1>1 DEF Server!Received, Server!Answer
<1>3. srv.next = k % BLK_MODULUS /\ srv.disk[f] = Server!Whole(n)
  BY DEF Expects
<1>4. (srv.next + 1) % BLK_MODULUS = (k + 1) % BLK_MODULUS
  BY <1>3, NextNumber
<1>5. PICK b \in Nat : b = (k + 1) % BLK_MODULUS
  BY NextNumber
<1>6. srv.disk[f] \o Server!Positions(n, len) = Server!Whole(n + len)
  BY <1>3, WholeGrows
<1>7. Server!Whole(n + len) \in Seq(Nat)
  BY WholeSeq
<1> DEFINE last == p.len < TFTP_MAX_DATA_SIZE
           file == IF last THEN 0 ELSE srv.file
           closed == IF last THEN srv.closed \cup {srv.file} ELSE srv.closed
           d == [srv.disk EXCEPT ![f] = Server!Whole(n + len)]
<1>8. s = [srv EXCEPT !.file = file, !.next = b, !.disk = d, !.closed = closed]
  <2>1. s = [srv EXCEPT !.file = file, !.next = (srv.next + 1) % BLK_MODULUS,
               !.disk = [srv.disk EXCEPT
                            ![f] = srv.disk[f] \o Server!Positions(n, len)],
               !.closed = closed]
    BY <1>2 DEF Server!Stored
  <2> QED
    BY <1>4, <1>5, <1>6, <2>1
<1>9. file \in {0, f} /\ file \in 0 .. MaxFiles /\ closed \in SUBSET Nat
  BY BoundsAssumption DEF SrvOK, Servers
<1>10. d \in [1 .. MaxFiles -> Seq(Nat)]
  BY <1>7 DEF SrvOK, Servers
<1> HIDE DEF file, closed, d
<1>11. s \in Servers /\ s.file = file /\ s.next = b /\ s.disk = d
  BY <1>8, <1>9, <1>10 DEF SrvOK, Servers
<1> QED
  BY <1>2, <1>5, <1>9, <1>11 DEF d

\* A server that has ended the session keeps what it has.  The number of the
\* block is acknowledged if it is the only one there is.
LEMMA BlockRefused ==
    ASSUME NEW p, p.op = "DATA", srv.file = 0,
           NEW k \in Nat, p.blk = k % BLK_MODULUS, srv.next = k % BLK_MODULUS
    PROVE  /\ Server!Received(srv, p) = srv
           /\ Server!Answer(srv, p) \in {[op |-> "ACK", blk |-> 0],
                                         [op |-> "ERROR", blk |-> 0]}
<1>1. ~Server!Expected(srv, p)
  BY DEF Server!Expected
<1>2. Server!Received(srv, p) = srv
  BY <1>1 DEF Server!Received
<1>3. CASE Server!Repeated(srv, p)
  <2>1. p.blk = 0
    BY <1>3, NextNumber DEF Server!Repeated
  <2> QED
    BY <1>1, <1>2, <1>3, <2>1 DEF Server!Answer
<1>4. CASE ~Server!Repeated(srv, p)
  BY <1>1, <1>2, <1>4 DEF Server!Answer
<1> QED
  BY <1>3, <1>4

\* The disk after the frame of file f: the other files are as they were.
LEMMA DiskChanged ==
    ASSUME LineInv, UNCHANGED g_transfers, g_transfers \in Seq(Transfers),
           NEW f \in DOMAIN g_transfers, srv' \in Servers, NEW n \in Nat,
           srv'.disk = [srv.disk EXCEPT ![f] = Server!Whole(n)],
           RecordStored(g_transfers[f], Server!Whole(n))
    PROVE  SrvOK' /\ DisksOK' /\ srv'.disk[f] = Server!Whole(n)
<1>1. /\ Len(g_transfers) <= MaxFiles /\ Len(g_transfers) \in Nat
      /\ DOMAIN g_transfers = 1 .. Len(g_transfers)
      /\ DOMAIN srv.disk = 1 .. MaxFiles
  BY DEF LineInv, DisksOK, SrvOK, Servers
<1>2. \A g \in 1 .. MaxFiles :
         srv'.disk[g] = IF g = f THEN Server!Whole(n) ELSE srv.disk[g]
  BY <1>1
<1>3. f \in 1 .. MaxFiles /\ f <= Len(g_transfers)
  BY <1>1, BoundsAssumption
<1>4. \A g \in DOMAIN g_transfers : RecordStored(g_transfers[g], srv'.disk[g])
  <2>1. \A g \in DOMAIN g_transfers : g \in 1 .. MaxFiles
    BY <1>1, BoundsAssumption
  <2> QED
    BY <1>2, <2>1 DEF LineInv, DisksOK
<1>5. \A g \in 1 .. MaxFiles : g > Len(g_transfers) => srv'.disk[g] = <<>>
  BY <1>2, <1>3 DEF LineInv, DisksOK
<1> QED
  BY <1>1, <1>2, <1>3, <1>4, <1>5 DEF SrvOK, DisksOK

\* A frame reaches the server: it has the block then, or will not have it.
LEMMA FrameReceived ==
    ASSUME PatientInv, LineInv, Pending(sreq), NEW f, f = iopkt1.dp_Arg1,
           Unseen(f), srv' = Server!Received(srv, FrameOf(f)),
           NEW a, a = Server!Answer(srv, FrameOf(f)), UNCHANGED g_transfers
    PROVE  SrvOK' /\ DisksOK' /\ a \in Answers /\ AnswerOK(f, a)'
<1> DEFINE t == g_transfers[f]
           ack(k) == [op |-> "ACK", blk |-> k]
<1>1. /\ g_transfers \in Seq(Transfers) /\ f \in DOMAIN g_transfers
      /\ f \in 1 .. MaxFiles /\ t \in Transfers
      /\ t.ftx_state \in {"S_WRQ_SENT", "S_DATA_SENT"}
      /\ RecordOK(t, "none") /\ t.ftx_error = "none"
      /\ RecordStored(t, srv.disk[f])
      /\ t.ftx_state = "S_DATA_SENT" => t.ftx_buffers # <<>>
  BY LineFacts
<1>2. SrvOK /\ t.acked \in Nat /\ t.ftx_blknum \in Nat
  BY <1>1 DEF LineInv, RecordStored, Transfers
<1>3. \A k \in 0 .. BLK_MODULUS - 1 : ack(k) \in Answers
  BY DEF Answers
<1>4. 0 \in 0 .. BLK_MODULUS - 1
  BY SizesAssumption
<1>5. CASE t.ftx_state = "S_WRQ_SENT"
  <2>1. FrameOf(f) = WrqFrame(f)
    BY <1>5 DEF FrameOf
  <2>2. /\ srv' \in Servers /\ srv'.file = f /\ srv'.next = 1 % BLK_MODULUS
        /\ srv'.disk = [srv.disk EXCEPT ![f] = <<>>] /\ a = ack(0)
    BY <1>1, <1>2, <2>1, RequestReceived
  <2>3. t.acked = 0 /\ t.ftx_blknum = 0
    BY <1>1, <1>5 DEF RecordStored, RecordOK
  <2>4. RecordStored(t, Server!Whole(0))
    <3>1. 0 \in 0 .. TFTP_MAX_DATA_SIZE /\ 0 + 0 = 0
      BY SizesAssumption
    <3> QED
      BY <1>5, <2>3, <3>1 DEF RecordStored
  <2>5. SrvOK' /\ DisksOK' /\ srv'.disk[f] = Server!Whole(0)
    BY <1>1, <2>2, <2>4, DiskChanged, WholeNothing
  <2>6. AnswerOK(f, a)'
    <3>1. t.ftx_blknum + 1 = 1
      BY <2>3
    <3> QED
      BY <1>5, <2>2, <2>3, <2>5, <3>1 DEF AnswerOK, Expects
  <2> QED
    BY <1>3, <1>4, <2>2, <2>5, <2>6
<1>6. CASE t.ftx_state = "S_DATA_SENT"
  <2> DEFINE b == Head(t.ftx_buffers)
             p == DataFrame(f, t.ftx_blknum, b)
  <2>1. PICK n : n = Chunk(b.fb_nbytes_to_send)
    OBVIOUS
  <2>2. b.fb_curpos = t.acked /\ n \in 0 .. TFTP_MAX_DATA_SIZE
    BY <1>1, <1>6, <2>1, BlockInOrder DEF RecordOK, Marks, Started
  <2>3. /\ FrameOf(f) = p /\ p.op = "DATA" /\ p.off = t.acked /\ p.len = n
        /\ p.blk = t.ftx_blknum % BLK_MODULUS
    BY <1>6, <2>1, <2>2 DEF FrameOf, DataFrame
  <2> HIDE DEF p
  <2>4. Expects(f, t.ftx_blknum, t.acked)
    BY <1>6 DEF Unseen
  <2>5. n \in Nat /\ t.acked + n \in Nat /\ n \in 0 .. TFTP_MAX_DATA_SIZE
    BY <1>2, <2>2, SizesAssumption
  <2>6. t.ftx_blknum > 0
    BY <1>1, <1>6 DEF RecordStored
  <2>7. CASE srv.file = f
    <3>1. /\ srv' \in Servers /\ srv'.file \in {0, f}
          /\ srv'.next = (t.ftx_blknum + 1) % BLK_MODULUS
          /\ srv'.disk = [srv.disk EXCEPT ![f] = Server!Whole(t.acked + n)]
          /\ a = ack(t.ftx_blknum % BLK_MODULUS)
      BY <1>1, <1>2, <2>3, <2>4, <2>5, <2>7, BlockReceived
    <3>2. RecordStored(t, Server!Whole(t.acked + n))
      BY <1>2, <1>6, <2>5, <2>6 DEF RecordStored
    <3>3. SrvOK' /\ DisksOK' /\ srv'.disk[f] = Server!Whole(t.acked + n)
      BY <1>1, <2>5, <3>1, <3>2, DiskChanged
    <3>4. AnswerOK(f, a)'
      BY <1>6, <2>1, <3>1, <3>3 DEF AnswerOK, Expects
    <3>5. t.ftx_blknum % BLK_MODULUS \in 0 .. BLK_MODULUS - 1
      BY <1>2, NextNumber
    <3> QED
      BY <1>3, <3>1, <3>3, <3>4, <3>5
  <2>8. CASE srv.file # f
    <3>1. srv.file = 0 /\ srv.next = t.ftx_blknum % BLK_MODULUS
      BY <2>4, <2>8 DEF Expects
    <3>2. srv' = srv /\ a \in {ack(0), [op |-> "ERROR", blk |-> 0]}
      BY <1>2, <2>3, <3>1, BlockRefused
    <3>3. SrvOK' /\ DisksOK'
      BY <3>2, DisksSame
    <3>4. a \in Answers
      BY <1>3, <1>4, <3>2 DEF Answers
    <3>5. AnswerOK(f, a)'
      <4>1. ~(a.op = "ACK" /\ a.blk = t.ftx_blknum)
        BY <2>6, <3>2
      <4> QED
        BY <1>6, <4>1 DEF AnswerOK
    <3> QED
      BY <3>3, <3>4, <3>5
  <2> QED
    BY <2>7, <2>8
<1> QED
  BY <1>1, <1>5, <1>6

LEMMA ServerReceivesKeepsLine ==
    ASSUME PatientInv, PatientInv', LineInv, ServerReceives
    PROVE  LineInv'
<1>1. ~LineQuiet /\ UNCHANGED <<iopkt1, g_transfers, treq, sreq>>
  BY DEF ServerReceives, LineQuiet, vars, ioVars
<1>2. PICK f : f = iopkt1.dp_Arg1
  OBVIOUS
<1>3. /\ Transit(f) /\ treq # "expired" /\ Pending(sreq)
      /\ \/ /\ sreq.cmd = "write" /\ sreq.st = "replied"
            /\ iopkt1.dp_Type = "WRITE_RETURN"
         \/ /\ sreq.cmd = "read" /\ sreq.st = "active"
            /\ iopkt1.dp_Type = "READ_RETURN"
  BY <1>1, <1>2, LineInUse
<1>4. toServer = <<FrameOf(f)>> /\ toClient = <<>> /\ Unseen(f)
  BY <1>3 DEF Transit, ServerReceives
<1>5. PICK a : a = Server!Answer(srv, FrameOf(f))
  OBVIOUS
<1>6. /\ srv' = Server!Received(srv, FrameOf(f))
      /\ toServer' = <<>> /\ toClient' = <<a>>
  <2>1. Head(toServer) = FrameOf(f) /\ Tail(toServer) = <<>>
    BY <1>4
  <2>2. Append(toClient, a) = <<a>>
    BY <1>4
  <2> QED
    BY <1>5, <2>1, <2>2 DEF ServerReceives
<1>7. SrvOK' /\ DisksOK' /\ a \in Answers /\ AnswerOK(f, a)'
  BY <1>1, <1>2, <1>3, <1>4, <1>5, <1>6, FrameReceived
<1>8. Transit(f)'
  BY <1>6, <1>7 DEF Transit
<1>9. Exchange(f)'
  BY <1>1, <1>3, <1>8 DEF Exchange
<1> QED
  BY <1>1, <1>2, <1>3, <1>7, <1>9, ExchangeGoesOn

------------------------------------------------------------------------------
(* Steps of the handler and its clients *)

\* Each of them starts from what PatientProofs knows.
LEMMA AllSettled == ASSUME PatientInv PROVE Settled /\ g_transfers \in Seq(Transfers)
BY DEF PatientInv, Settled, Before, TransferInv, PatientOK, FileInv, TypeOK

\* The file being sent is there.
LEMMA SenderThere ==
    ASSUME PatientInv, Pending(sreq) \/ Out(BufferPackets)
    PROVE  iopkt1.dp_Arg1 \in DOMAIN g_transfers /\ Sending(iopkt1.dp_Arg1)
<1>1. iopkt1.dp_Arg1 \in DOMAIN g_transfers /\ g_busy
  BY DEF PatientInv, PatientOK, FileInv, PacketsOK, IoPacketOK, SenderOK
<1> QED
  BY <1>1 DEF PatientInv, PatientOK, SenderOK

\* One record changes, and what is on the disk still is right for it.
LEMMA DisksKept ==
    ASSUME PatientInv, PatientInv', LineInv, UNCHANGED srv, NEW f, OnlyChanged(f),
           f \in DOMAIN g_transfers => RecordStored(g_transfers'[f], srv.disk[f])
    PROVE  SrvOK' /\ DisksOK'
<1>1. g_transfers \in Seq(Transfers) /\ g_transfers' \in Seq(Transfers)
  BY DEF PatientInv, FileInv, TypeOK
<1>2. Len(g_transfers') = Len(g_transfers)
  BY <1>1 DEF OnlyChanged
<1>3. \A g \in DOMAIN g_transfers : RecordStored(g_transfers'[g], srv.disk[g])
  BY DEF OnlyChanged, LineInv, DisksOK
<1> QED
  BY <1>2, <1>3 DEF OnlyChanged, LineInv, SrvOK, DisksOK

\* Nothing is being sent after the step.
LEMMA LineStops ==
    ASSUME PatientInv', SrvOK', DisksOK', LineQuiet, UNCHANGED lineVars, ~g_busy'
    PROVE  LineInv'
<1>1. ~Pending(sreq') /\ ~Out(BufferPackets)'
  BY DEF PatientInv, PatientOK, SenderOK
<1>2. treq' = "idle"
  BY <1>1 DEF PatientInv, PatientOK, RequestsOK
<1> QED
  BY <1>1, <1>2 DEF LineInv, LineOK, LineQuiet, lineVars

\* The answer has been read: the server is ready for the next block.
LEMMA LineAgrees ==
    ASSUME PatientInv', SrvOK', DisksOK', LineQuiet, UNCHANGED lineVars,
           ~Pending(sreq'), NEW f, f = iopkt1'.dp_Arg1,
           Expects(f, g_transfers'[f].ftx_blknum + 1, g_transfers'[f].acked)
    PROVE  LineInv'
<1>1. treq' = "idle"
  BY DEF PatientInv, PatientOK, RequestsOK
<1>2. Expects(f, g_transfers[f].ftx_blknum + 1, g_transfers[f].acked)'
  BY DEF Expects, lineVars
<1> QED
  BY <1>1, <1>2 DEF LineInv, LineOK, LineQuiet, lineVars

\* The step does not concern the file being sent.
LEMMA LineSame ==
    ASSUME LineInv, SrvOK', DisksOK', NEW f, f = iopkt1.dp_Arg1,
           UNCHANGED <<lineVars, iopkt1, sreq, treq>>,
           Pending(sreq) => g_transfers'[f] = g_transfers[f],
           Out(BufferPackets)' =>
              /\ Out(BufferPackets)
              /\ g_transfers'[f].ftx_blknum = g_transfers[f].ftx_blknum
              /\ g_transfers'[f].acked = g_transfers[f].acked
    PROVE  LineInv'
<1>1. UNCHANGED <<toServer, toClient, srv>>
  BY DEF lineVars
<1>2. Pending(sreq) => Exchange(f)'
  <2> SUFFICES ASSUME Pending(sreq) PROVE Exchange(f)'
    OBVIOUS
  <2>1. Exchange(f) /\ g_transfers'[f] = g_transfers[f]
    BY DEF LineInv, LineOK
  <2>2. /\ FrameOf(f)' = FrameOf(f) /\ (Unseen(f)' <=> Unseen(f))
        /\ \A a : AnswerOK(f, a)' <=> AnswerOK(f, a)
    BY <1>1, <2>1 DEF FrameOf, Unseen, AnswerOK, Expects
  <2>3. Transit(f)' <=> Transit(f)
    BY <1>1, <2>2 DEF Transit
  <2>4. AnswerOK(f, sreq.ans)' <=> AnswerOK(f, sreq.ans)
    BY <2>2
  <2> QED
    BY <1>1, <2>1, <2>2, <2>3, <2>4 DEF Exchange, LineQuiet
<1>3. Out(BufferPackets)' =>
         Expects(f, g_transfers[f].ftx_blknum + 1, g_transfers[f].acked)'
  BY <1>1 DEF LineInv, LineOK, Expects
<1>4. LineQuiet' <=> LineQuiet
  BY <1>1 DEF LineQuiet
<1> QED
  BY <1>2, <1>3, <1>4 DEF LineInv, LineOK

\* A client sends a packet; actions without effect; the end of entry().
LEMMA IdleKeepsLine ==
    ASSUME PatientInv, PatientInv', LineInv, UNCHANGED lineVars,
           Client \/ (\E c \in Clients : Other(c)) \/ Exit \/ UNCHANGED vars
    PROVE  LineInv'
<1>1. /\ UNCHANGED <<g_transfers, outpkt, iopkt1, sreq, treq>>
  BY DEF Client, ClientOpen, ClientWrite, ClientClose, ClientUnmount,
     ClientOther, SendPkt, Other, Exit, vars, ioVars
<1>2. "out" \in ToSet(port') => "out" \in ToSet(port)
  <2>1. MsgInv /\ undef = {}
    BY DEF PatientInv, PatientOK
  <2>2. CASE Client
    <3>1. PICK c \in Clients : port' = Append(port, c)
      BY <2>2 DEF Client, ClientOpen, ClientWrite, ClientClose, ClientUnmount,
         ClientOther, SendPkt
    <3> QED
      BY <2>1, <3>1, OthersMessage, ClientsAssumption DEF Msgs
  <2>3. CASE \E c \in Clients : Other(c)
    BY <2>1, <2>3, ClientPacketTaken DEF Other
  <2>4. CASE Exit \/ UNCHANGED vars
    BY <2>4 DEF Exit, vars
  <2> QED
    BY <2>2, <2>3, <2>4
<1>3. SrvOK' /\ DisksOK'
  BY <1>1, DisksSame DEF lineVars
<1>4. Out(BufferPackets)' => Out(BufferPackets)
  BY <1>1, <1>2 DEF Out
<1>5. PICK f : f = iopkt1.dp_Arg1
  OBVIOUS
<1> QED
  BY <1>1, <1>3, <1>4, <1>5, LineSame

\* do_find_output()
LEMMA FindOutputKeepsLine ==
    ASSUME PatientInv, PatientInv', LineInv, UNCHANGED lineVars,
           NEW c \in Clients, FindOutput(c)
    PROVE  LineInv'
<1>1. /\ GetMsg(c) /\ UNCHANGED <<outpkt, iopkt1, sreq, treq>>
      /\ MsgInv /\ undef = {}
  BY DEF FindOutput, ioVars, PatientInv, PatientOK
<1>2. "out" \in ToSet(port') <=> "out" \in ToSet(port)
  BY <1>1, ClientPacketTaken DEF FindOutput
<1>3. Out(BufferPackets)' <=> Out(BufferPackets)
  BY <1>1, <1>2 DEF Out
<1>4. PICK f : f = iopkt1.dp_Arg1
  OBVIOUS
<1>5. CASE UNCHANGED g_transfers
  <2>1. SrvOK' /\ DisksOK'
    BY <1>5, DisksSame DEF lineVars
  <2> QED
    BY <1>1, <1>3, <1>4, <1>5, <2>1, LineSame
<1>6. CASE /\ Len(g_transfers) < MaxFiles
           /\ g_transfers' = Append(g_transfers, NewTransfer)
  <2>0. PICK n : n = Len(g_transfers)
    OBVIOUS
  <2>1. /\ g_transfers \in Seq(Transfers) /\ n \in Nat
        /\ DOMAIN g_transfers = 1 .. n /\ n + 1 \in 1 .. MaxFiles
    BY <1>6, <2>0, AllSettled, BoundsAssumption
  <2>2. /\ DOMAIN g_transfers' = 1 .. n + 1 /\ Len(g_transfers') = n + 1
        /\ \A g \in 1 .. n : g_transfers'[g] = g_transfers[g]
        /\ g_transfers'[n + 1] = NewTransfer
    BY <1>6, <2>0, <2>1
  <2>3. \A g \in 1 .. n + 1 : g \in 1 .. n \/ g = n + 1
    BY <2>1
  <2>4. srv.disk[n + 1] = <<>>
    <3>1. n + 1 > n
      BY <2>1
    <3> QED
      BY <2>0, <2>1, <3>1 DEF LineInv, DisksOK
  <2>5. RecordStored(NewTransfer, <<>>)
    <3>1. /\ NewTransfer.acked = 0 /\ NewTransfer.ftx_state = "S_QUEUED"
          /\ 0 \in 0 .. TFTP_MAX_DATA_SIZE /\ 0 + 0 = 0
      BY SizesAssumption DEF NewTransfer
    <3> QED
      BY <3>1, WholeNothing DEF RecordStored
  <2>6. \A g \in DOMAIN g_transfers' : RecordStored(g_transfers'[g], srv.disk[g])
    BY <2>1, <2>2, <2>3, <2>4, <2>5 DEF LineInv, DisksOK
  <2>7. \A g \in 1 .. MaxFiles : g > Len(g_transfers') => srv.disk[g] = <<>>
    <3>1. \A g \in 1 .. MaxFiles : g > n + 1 => g > n
      BY <2>1, BoundsAssumption
    <3> QED
      BY <2>0, <2>2, <3>1 DEF LineInv, DisksOK
  <2>8. Len(g_transfers') <= MaxFiles
    BY <2>1, <2>2, BoundsAssumption
  <2>9. SrvOK' /\ DisksOK'
    BY <2>6, <2>7, <2>8 DEF SrvOK, DisksOK, LineInv, lineVars
  <2>10. Pending(sreq) \/ Out(BufferPackets) => g_transfers'[f] = g_transfers[f]
    BY <1>4, <2>1, <2>2, SenderThere
  <2> QED
    BY <1>1, <1>3, <1>4, <2>9, <2>10, LineSame
<1> QED
  BY <1>5, <1>6 DEF FindOutput

\* do_write(): a file still being written is not being sent.
LEMMA WriteKeepsLine ==
    ASSUME PatientEnv, PatientInv, PatientInv', LineInv, UNCHANGED lineVars,
           NEW c \in Clients, Write(c)
    PROVE  LineInv'
<1>1. /\ GetMsg(c) /\ UNCHANGED <<outpkt, iopkt1, sreq, treq>>
      /\ MsgInv /\ undef = {} /\ Settled /\ g_transfers \in Seq(Transfers)
      /\ pkt[c].dp_Type = "WRITE"
  BY AllSettled DEF Write, ioVars, PatientInv, PatientOK
<1>2. "out" \in ToSet(port') <=> "out" \in ToSet(port)
  BY <1>1, ClientPacketTaken DEF Write
<1>3. Out(BufferPackets)' <=> Out(BufferPackets)
  BY <1>1, <1>2 DEF Out
<1>4. PICK g : g = fh[c]
  OBVIOUS
<1> DEFINE t == g_transfers[g]
           b == NewBuffer(t.accepted, pkt[c].len)
           r == [t EXCEPT !.ftx_buffers = Append(@, b),
                          !.accepted = @ + pkt[c].len]
<1>5. g # 0 /\ g \in DOMAIN g_transfers /\ t \in Transfers
  BY <1>1, <1>4, ClientsFile DEF Settled
<1>6. t.ftx_state = "S_QUEUED"
  BY <1>1, <1>4, <1>5 DEF Settled, PatientOK, CleanOK
<1>7. g_transfers' = [g_transfers EXCEPT ![g] = r]
  BY <1>4 DEF Write, PatientEnv, QueueBuffer
<1>8. /\ r.ftx_state = t.ftx_state /\ r.acked = t.acked
      /\ r.ftx_blknum = t.ftx_blknum
  BY <1>5 DEF Transfers
<1> HIDE DEF r
<1>9. OnlyChanged(g) /\ g_transfers'[g] = r
  BY <1>1, <1>5, <1>7, RecordChanged
<1>10. RecordStored(r, srv.disk[g])
  BY <1>5, <1>8 DEF LineInv, DisksOK, RecordStored
<1>11. SrvOK' /\ DisksOK'
  BY <1>9, <1>10, DisksKept DEF lineVars
<1>12. PICK f : f = iopkt1.dp_Arg1
  OBVIOUS
<1>13. Pending(sreq) \/ Out(BufferPackets) => g_transfers'[f] = g_transfers[f]
  BY <1>6, <1>9, <1>12, SenderThere DEF Sending, OnlyChanged
<1> QED
  BY <1>1, <1>3, <1>11, <1>12, <1>13, LineSame

\* Between two exchanges nothing is on the line.
LEMMA NothingOnLine ==
    ASSUME PatientInv, LineInv, ~g_busy \/ ~Pending(sreq)
    PROVE  LineQuiet
BY DEF PatientInv, PatientOK, SenderOK, LineInv, LineOK

\* ACTION_END, ACTION_DIE and the packet sent after the reply: they leave the
\* file on the line alone, if there is one.
LEMMA EndKeepsLine ==
    ASSUME PatientInv, PatientInv', LineInv, UNCHANGED lineVars,
           (\E c \in Clients : End(c) \/ Die(c)) \/ SendOwed
    PROVE  LineInv'
<1>1. /\ Settled /\ g_transfers \in Seq(Transfers) /\ MsgInv /\ undef = {}
      /\ AloneOK /\ SenderOK /\ CleanOK /\ RequestsOK /\ RequestsOK'
  BY AllSettled DEF PatientInv, PatientOK
<1>2. PICK f : f = iopkt1.dp_Arg1
  OBVIOUS
<1>3. ASSUME NEW c \in Clients, Die(c)
      PROVE  LineInv'
  <2>1. ~Pending(sreq) /\ "out" \notin ToSet(port)
    BY <1>1, <1>3 DEF AloneOK, AtRest, Joining, Die, Ending
  <2>2. ~g_busy /\ ~g_busy'
    BY <1>1, <1>3, <2>1 DEF SenderOK, Out, Die
  <2>3. LineQuiet
    BY <2>2, NothingOnLine
  <2>4. SrvOK' /\ DisksOK'
    BY <1>3, DisksSame DEF lineVars, Die
  <2> QED
    BY <2>2, <2>3, <2>4, LineStops
<1>4. CASE SendOwed
  <2>1. UNCHANGED <<g_transfers, iopkt1, sreq, treq>>
    BY <1>4 DEF SendOwed, ioVars
  <2>2. SrvOK' /\ DisksOK'
    BY <2>1, DisksSame DEF lineVars
  <2>3. ~Out(BufferPackets)'
    BY <1>1, <1>4 DEF SendOwed, SendInternal, CleanOK, Out, BufferPackets
  <2> QED
    BY <1>2, <2>1, <2>2, <2>3, LineSame
<1>5. ASSUME NEW c \in Clients, End(c)
      PROVE  LineInv'
  <2>1. PICK g : g = fh[c]
    OBVIOUS
  <2> DEFINE t == g_transfers[g]
             r == [t EXCEPT !.ftx_state = "S_READY"]
  <2>2. g # 0 /\ g \in DOMAIN g_transfers /\ t \in Transfers
    BY <1>1, <1>5, <2>1, ClientsFile DEF Settled, End
  <2>3. t.ftx_state = "S_QUEUED"
    BY <1>1, <2>1, <2>2 DEF CleanOK
  <2>4. g_transfers' = [g_transfers EXCEPT ![g] = r]
    BY <1>5, <2>1 DEF End
  <2>5. r.ftx_state = "S_READY" /\ r.acked = t.acked
    BY <2>2 DEF Transfers
  <2> HIDE DEF r
  <2>6. OnlyChanged(g) /\ g_transfers'[g] = r
    BY <1>1, <2>2, <2>4, RecordChanged
  <2>7. RecordStored(r, srv.disk[g])
    BY <2>2, <2>3, <2>5 DEF LineInv, DisksOK, RecordStored
  <2>8. SrvOK' /\ DisksOK'
    BY <2>6, <2>7, DisksKept DEF lineVars
  <2>9. UNCHANGED <<iopkt1, sreq, treq, outpkt>>
    BY <1>5 DEF End, ioVars
  <2>10. ~Out(BufferPackets)'
    <3>1. GetMsg(c) /\ port' = Tail(port) /\ Ending(c)
      BY <1>5 DEF End, Ending
    <3>2. "out" \notin ToSet(port)
      BY <1>1, <3>1 DEF AloneOK
    <3>3. "out" \notin ToSet(port')
      BY <1>1, <3>1, <3>2, ClientPacketTaken
    <3> QED
      BY <3>3 DEF Out
  <2>11. Pending(sreq) => g_transfers'[f] = g_transfers[f]
    BY <1>2, <2>3, <2>6, SenderThere DEF Sending, OnlyChanged
  <2> QED
    BY <1>2, <2>8, <2>9, <2>10, <2>11, LineSame
<1> QED
  BY <1>3, <1>4, <1>5

\* The write request, or the block the server is waiting for, is sent, or
\* sending it fails.
LEMMA TransmitKeepsLine ==
    ASSUME PatientInv, PatientInv', LineInv, UNCHANGED lineVars, GetMsg("out"),
           outpkt.dp_Type # "SEND_NEXT_FILE" \/ MayStart,
           NEW f \in DOMAIN g_transfers, NEW r \in Transfers,
           NEW frame, NEW busy, NEW state,
           Transmit([g_transfers EXCEPT ![f] = r], f, frame, state, busy),
           iopkt1'.dp_Type = "WRITE_RETURN", iopkt1'.dp_Arg1 = f,
           r.acked = g_transfers[f].acked,
           \/ /\ state = "S_WRQ_SENT" /\ g_transfers[f].ftx_state = "S_READY"
              /\ frame = WrqFrame(f)
           \/ /\ state = "S_DATA_SENT" /\ Out(BufferPackets)
              /\ f = iopkt1.dp_Arg1
              /\ r.ftx_blknum = g_transfers[f].ftx_blknum + 1
              /\ frame = DataFrame(f, r.ftx_blknum, Head(r.ftx_buffers))
    PROVE  LineInv'
<1> DEFINE t == [g_transfers EXCEPT ![f] = r]
           old == g_transfers[f]
<1>1. Settled /\ g_transfers \in Seq(Transfers) /\ old \in Transfers
  BY AllSettled
<1>2. ~Pending(sreq) /\ LineQuiet
  BY <1>1, OutAlone, NothingOnLine
<1>3. RecordStored(old, srv.disk[f])
  BY DEF LineInv, DisksOK
<1>4. CASE /\ StartIO(WriteReq(frame))
           /\ g_transfers' = [t EXCEPT ![f].ftx_state = state]
  <2> DEFINE q == [r EXCEPT !.ftx_state = state]
  <2>1. /\ q.ftx_state = state /\ q.acked = r.acked
        /\ q.ftx_blknum = r.ftx_blknum /\ q.ftx_buffers = r.ftx_buffers
    BY DEF Transfers
  <2>2. g_transfers' = [g_transfers EXCEPT ![f] = q]
    BY <1>1, <1>4
  <2> HIDE DEF q
  <2>3. OnlyChanged(f) /\ g_transfers'[f] = q
    BY <1>1, <2>2, RecordChanged
  <2>4. state = "S_DATA_SENT" => q.ftx_blknum > 0
    BY <1>1, <2>1 DEF Transfers
  <2>5. RecordStored(q, srv.disk[f])
    BY <1>3, <2>1, <2>4 DEF RecordStored
  <2>6. SrvOK' /\ DisksOK'
    BY <2>3, <2>5, DisksKept DEF lineVars
  <2>7. /\ sreq'.st = "active" /\ sreq'.cmd = "write" /\ sreq'.frame = frame
        /\ Pending(sreq') /\ treq' = "running"
    BY <1>4 DEF StartIO, WriteReq, IdleReq, Pending
  <2>8. FrameOf(f)' = frame
    BY <2>1, <2>3 DEF FrameOf
  <2>9. Unseen(f)'
    <3>1. CASE state = "S_WRQ_SENT"
      BY <2>1, <2>3, <3>1 DEF Unseen
    <3>2. CASE state = "S_DATA_SENT"
      <4>1. Expects(f, q.ftx_blknum, q.acked)
        BY <2>1, <3>2 DEF LineInv, LineOK
      <4> QED
        BY <2>3, <4>1 DEF Unseen, Expects, lineVars
    <3> QED
      BY <3>1, <3>2
  <2>10. LineQuiet'
    BY <1>2 DEF LineQuiet, lineVars
  <2>11. Exchange(f)'
    BY <2>7, <2>8, <2>9, <2>10 DEF Exchange
  <2> QED
    BY <2>6, <2>7, <2>11, ExchangeGoesOn
<1>5. CASE FailFile(t, f, "NETIO", Tail(port))
  <2> DEFINE q == [r EXCEPT !.ftx_state = "S_ERROR", !.ftx_error = "NETIO"]
  <2>1. q.ftx_state = "S_ERROR" /\ q.acked = r.acked
    BY DEF Transfers
  <2>2. g_transfers' = [g_transfers EXCEPT ![f] = q]
    BY <1>1, <1>5 DEF FailFile, Failed
  <2> HIDE DEF q
  <2>3. OnlyChanged(f) /\ g_transfers'[f] = q
    BY <1>1, <2>2, RecordChanged
  <2>4. RecordStored(q, srv.disk[f])
    BY <1>3, <2>1 DEF RecordStored
  <2>5. SrvOK' /\ DisksOK'
    BY <2>3, <2>4, DisksKept DEF lineVars
  <2> QED
    BY <1>2, <1>5, <2>5, LineStops DEF FailFile
<1> QED
  BY <1>4, <1>5 DEF Transmit

LEMMA SendNextFileKeepsLine ==
    ASSUME PatientInv, PatientInv', LineInv, UNCHANGED lineVars, SendNextFile
    PROVE  LineInv'
<1>1. /\ Settled /\ g_transfers \in Seq(Transfers) /\ SenderOK
      /\ GetMsg("out") /\ outpkt.dp_Type = "SEND_NEXT_FILE"
  BY AllSettled DEF SendNextFile, Internal, PatientInv, PatientOK
<1>2. PICK g : g = iopkt1.dp_Arg1
  OBVIOUS
<1>3. CASE /\ UNCHANGED <<g_transfers, iopkt1, sreq, treq>>
           /\ SendNothing(Tail(port))
  <2>1. SrvOK' /\ DisksOK'
    BY <1>3, DisksSame DEF lineVars
  <2>2. ~Out(BufferPackets)'
    BY <1>1, <1>3 DEF SendNothing, Out, BufferPackets
  <2> QED
    BY <1>2, <1>3, <2>1, <2>2, LineSame
<1>4. ASSUME NEW f \in DOMAIN g_transfers, MayStart, FirstReady(f),
             iopkt1' = [dp_Type |-> "WRITE_RETURN", dp_Arg1 |-> f],
             Transmit(g_transfers, f, WrqFrame(f), "S_WRQ_SENT", TRUE)
      PROVE  LineInv'
  <2> DEFINE r == g_transfers[f]
  <2>1. g_transfers = [g_transfers EXCEPT ![f] = r] /\ r \in Transfers
    BY <1>1
  <2>2. Transmit([g_transfers EXCEPT ![f] = r], f, WrqFrame(f), "S_WRQ_SENT",
                 TRUE)
    BY <1>4, <2>1
  <2>3. iopkt1'.dp_Type = "WRITE_RETURN" /\ iopkt1'.dp_Arg1 = f
    BY <1>4
  <2>4. g_transfers[f].ftx_state = "S_READY"
    BY <1>4 DEF FirstReady
  <2> QED
    BY <1>1, <1>4, <2>1, <2>2, <2>3, <2>4, TransmitKeepsLine
<1> QED
  BY <1>3, <1>4 DEF SendNextFile

\* A block is sent from the list u, in which it is the next one of file f.
LEMMA SendBlockKeepsLine ==
    ASSUME PatientInv, PatientInv', LineInv, UNCHANGED lineVars, GetMsg("out"),
           NEW f \in DOMAIN g_transfers, Out(BufferPackets), f = iopkt1.dp_Arg1,
           NEW r \in Transfers, SendBlock([g_transfers EXCEPT ![f] = r], f),
           r.acked = g_transfers[f].acked,
           r.ftx_blknum = g_transfers[f].ftx_blknum + 1
    PROVE  LineInv'
<1> DEFINE u == [g_transfers EXCEPT ![f] = r]
<1>1. u[f] = r
  OBVIOUS
<1>2. iopkt1'.dp_Type = "WRITE_RETURN" /\ iopkt1'.dp_Arg1 = f
  BY DEF SendBlock, PatientInv, FileInv, TypeOK
<1>3. Transmit(u, f, DataFrame(f, r.ftx_blknum, Head(r.ftx_buffers)),
               "S_DATA_SENT", g_busy)
  BY <1>1 DEF SendBlock
<1>4. outpkt.dp_Type # "SEND_NEXT_FILE"
  BY DEF Out, BufferPackets
<1> QED
  BY <1>2, <1>3, <1>4, TransmitKeepsLine

LEMMA SendNextBufferKeepsLine ==
    ASSUME PatientInv, PatientInv', LineInv, UNCHANGED lineVars, SendNextBuffer
    PROVE  LineInv'
<1>1. Settled /\ g_transfers \in Seq(Transfers)
  BY AllSettled
<1>2. PICK f : f = outpkt.dp_Arg1
  OBVIOUS
<1> DEFINE t == g_transfers[f]
<1>3. GetMsg("out") /\ outpkt.dp_Type = "SEND_NEXT_BUFFER"
  BY DEF SendNextBuffer, Internal
<1>4. /\ f \in DOMAIN g_transfers /\ t \in Transfers /\ f = iopkt1.dp_Arg1
  BY <1>1, <1>2, <1>3, BufferPacketsSender DEF BufferPackets
<1>5. Out(BufferPackets) /\ ~Pending(sreq)
  BY <1>1, <1>3, OutAlone DEF Out, BufferPackets
<1>6. CASE SendBlock([g_transfers EXCEPT ![f].ftx_blknum = @ + 1], f)
  <2> DEFINE r == [t EXCEPT !.ftx_blknum = @ + 1]
  <2>1. r \in Transfers /\ r.acked = t.acked /\ r.ftx_blknum = t.ftx_blknum + 1
    BY <1>4 DEF Transfers
  <2>2. SendBlock([g_transfers EXCEPT ![f] = r], f)
    BY <1>6
  <2> HIDE DEF r
  <2> QED
    BY <1>3, <1>4, <1>5, <2>1, <2>2, SendBlockKeepsLine
<1>7. CASE /\ g_transfers' = [g_transfers EXCEPT ![f].ftx_state = "S_FINISHED"]
           /\ g_busy' = FALSE
  <2> DEFINE r == [t EXCEPT !.ftx_state = "S_FINISHED"]
  <2>1. r.ftx_state = "S_FINISHED" /\ r.acked = t.acked
    BY <1>4 DEF Transfers
  <2>2. g_transfers' = [g_transfers EXCEPT ![f] = r]
    BY <1>7
  <2> HIDE DEF r
  <2>3. OnlyChanged(f) /\ g_transfers'[f] = r
    BY <1>1, <1>4, <2>2, RecordChanged
  <2>4. srv.disk[f] = Server!Whole(t.acked)
    BY <1>4, <1>5 DEF LineInv, LineOK, Expects
  <2>5. RecordStored(t, srv.disk[f])
    BY <1>4 DEF LineInv, DisksOK
  <2>6. RecordStored(r, srv.disk[f])
    BY <2>1, <2>4, <2>5 DEF RecordStored
  <2>7. SrvOK' /\ DisksOK'
    BY <2>3, <2>6, DisksKept DEF lineVars
  <2> QED
    BY <1>5, <1>7, <2>7, NothingOnLine, LineStops
<1> QED
  BY <1>2, <1>6, <1>7 DEF SendNextBuffer

LEMMA ContinueBufferKeepsLine ==
    ASSUME PatientInv, PatientInv', LineInv, UNCHANGED lineVars, ContinueBuffer
    PROVE  LineInv'
<1>1. Settled /\ g_transfers \in Seq(Transfers)
  BY AllSettled
<1>2. PICK f : f = outpkt.dp_Arg1
  OBVIOUS
<1> DEFINE t == g_transfers[f]
           h == [t.ftx_buffers[1] EXCEPT !.fb_curpos = @ + TFTP_MAX_DATA_SIZE]
           b == [t.ftx_buffers EXCEPT ![1] = h]
           r == [t EXCEPT !.ftx_buffers = b, !.ftx_blknum = @ + 1]
<1>3. GetMsg("out") /\ outpkt.dp_Type = "CONTINUE_BUFFER"
  BY DEF ContinueBuffer, Internal
<1>4. /\ f \in DOMAIN g_transfers /\ t \in Transfers /\ f = iopkt1.dp_Arg1
      /\ t.ftx_buffers # <<>>
  BY <1>1, <1>2, <1>3, BufferPacketsSender DEF BufferPackets
<1>5. Out(BufferPackets)
  BY <1>1, <1>3, OutAlone DEF Out, BufferPackets
<1>6. t.ftx_buffers \in Seq(Buffers) /\ t.ftx_buffers[1] \in Buffers
  BY <1>4 DEF Transfers
<1>7. h \in Buffers
  <2>1. \A x \in Buffers : [x EXCEPT !.fb_curpos = @ + TFTP_MAX_DATA_SIZE] \in Buffers
    BY SizesAssumption DEF Buffers
  <2> QED
    BY <1>6, <2>1
<1>8. SendBlock([g_transfers EXCEPT ![f] = r], f)
  BY <1>2 DEF ContinueBuffer, NextBlock
<1> HIDE DEF h
<1>9. b \in Seq(Buffers)
  BY <1>4, <1>6, <1>7, HeadUpdates
<1> HIDE DEF b
<1>10. r \in Transfers /\ r.acked = t.acked /\ r.ftx_blknum = t.ftx_blknum + 1
  <2>1. t.ftx_blknum + 1 \in Nat
    BY <1>4 DEF Transfers
  <2> QED
    BY <1>4, <1>9, <2>1 DEF Transfers
<1> HIDE DEF r
<1> QED
  BY <1>3, <1>4, <1>5, <1>8, <1>10, SendBlockKeepsLine

\* Buffers are freed: the line and the server do not see it.
LEMMA FreedKeepsLine ==
    ASSUME PatientInv, PatientInv', LineInv, UNCHANGED lineVars,
           FileDone \/ BufferFinished
    PROVE  LineInv'
<1>1. Settled /\ g_transfers \in Seq(Transfers) /\ SenderOK
  BY AllSettled DEF PatientInv, PatientOK
<1>2. PICK f : f = outpkt.dp_Arg1
  OBVIOUS
<1>3. /\ GetMsg("out") /\ UNCHANGED <<iopkt1, sreq, treq, g_busy>>
      /\ \E b : g_transfers' = [g_transfers EXCEPT ![f].ftx_buffers = b]
  BY <1>2 DEF FileDone, BufferFinished, Internal, ioVars, loopVars
<1>4. ~Pending(sreq) /\ "out" \in ToSet(port)
  BY <1>1, <1>3, OutAlone DEF FileDone, BufferFinished, Internal
<1>5. /\ OnlyChanged(f)
      /\ f \in DOMAIN g_transfers =>
            /\ g_transfers'[f].ftx_state = g_transfers[f].ftx_state
            /\ g_transfers'[f].ftx_blknum = g_transfers[f].ftx_blknum
            /\ g_transfers'[f].acked = g_transfers[f].acked
  <2>1. PICK b : g_transfers' = [g_transfers EXCEPT ![f].ftx_buffers = b]
    BY <1>3
  <2> DEFINE r == [g_transfers[f] EXCEPT !.ftx_buffers = b]
  <2>2. g_transfers' = [g_transfers EXCEPT ![f] = r]
    BY <2>1
  <2>3. f \in DOMAIN g_transfers =>
           /\ r.ftx_state = g_transfers[f].ftx_state
           /\ r.ftx_blknum = g_transfers[f].ftx_blknum
           /\ r.acked = g_transfers[f].acked
    <3>1. f \in DOMAIN g_transfers => g_transfers[f] \in Transfers
      BY <1>1
    <3> QED
      BY <3>1 DEF Transfers
  <2> HIDE DEF r
  <2> QED
    BY <1>1, <2>2, <2>3 DEF OnlyChanged
<1>6. SrvOK' /\ DisksOK'
  <2>1. f \in DOMAIN g_transfers => RecordStored(g_transfers'[f], srv.disk[f])
    BY <1>5 DEF LineInv, DisksOK, RecordStored
  <2> QED
    BY <1>5, <2>1, DisksKept DEF lineVars
<1>7. CASE FileDone
  <2>1. ~g_busy
    BY <1>1, <1>4, <1>7 DEF FileDone, Internal, SenderOK, Out, BufferPackets
  <2> QED
    BY <1>3, <1>4, <1>6, <2>1, NothingOnLine, LineStops
<1>8. CASE BufferFinished
  <2>1. f \in DOMAIN g_transfers /\ f = iopkt1.dp_Arg1
    BY <1>1, <1>2, <1>3, <1>8, BufferPacketsSender
    DEF BufferFinished, Internal, BufferPackets
  <2>2. Out(BufferPackets)
    BY <1>4, <1>8 DEF BufferFinished, Internal, Out, BufferPackets
  <2> QED
    BY <1>3, <1>4, <1>5, <1>6, <2>1, <2>2, LineSame
<1> QED
  BY <1>7, <1>8

\* The file of the exchange fails when nothing is left on the line.
LEMMA FailKeepsLine ==
    ASSUME PatientInv, PatientInv', LineInv, UNCHANGED lineVars, LineQuiet,
           NEW f \in DOMAIN g_transfers, NEW err, NEW p,
           FailFile(g_transfers, f, err, p)
    PROVE  LineInv'
<1>1. g_transfers \in Seq(Transfers)
  BY AllSettled
<1> DEFINE t == g_transfers[f]
           r == [t EXCEPT !.ftx_state = "S_ERROR", !.ftx_error = err]
<1>2. t \in Transfers
  BY <1>1
<1>3. r.ftx_state = "S_ERROR" /\ r.acked = t.acked
  BY <1>2 DEF Transfers
<1>4. g_transfers' = [g_transfers EXCEPT ![f] = r]
  BY DEF FailFile, Failed
<1> HIDE DEF r
<1>5. OnlyChanged(f) /\ g_transfers'[f] = r
  BY <1>1, <1>4, RecordChanged
<1>6. RecordStored(r, srv.disk[f])
  BY <1>3 DEF LineInv, DisksOK, RecordStored
<1>7. SrvOK' /\ DisksOK'
  BY <1>5, <1>6, DisksKept DEF lineVars
<1> QED
  BY <1>7, LineStops DEF FailFile

\* ACTION_TIMER_EXPIRED
LEMMA TimerExpiredKeepsLine ==
    ASSUME PatientInv, PatientInv', LineInv, UNCHANGED lineVars, TimerExpired
    PROVE  LineInv'
<1>1. GetMsg("treq") /\ Settled /\ MsgInv /\ undef = {}
  BY AllSettled DEF TimerExpired, PatientInv, PatientOK
<1>2. ftx \in DOMAIN g_transfers
  BY <1>1, RequestAlone
<1>3. treq = "expired"
  <2>1. "treq" \in ToSet(port)
    BY <1>1, Taken DEF Msgs
  <2> QED
    BY <1>1, <2>1 DEF MsgInv, MessagesOnce
<1>4. LineQuiet
  BY <1>3 DEF LineInv, LineOK
<1>5. \E p : FailFile(g_transfers, ftx, "IO_TIMEOUT", p)
  BY DEF TimerExpired
<1> QED
  BY <1>2, <1>4, <1>5, FailKeepsLine

\* The completed request of a file, and where its exchange stands.
LEMMA ExchangeReplied ==
    ASSUME PatientInv, LineInv, GetMsg("sreq"), NEW f, f = iopkt1.dp_Arg1
    PROVE  /\ Pending(sreq) /\ f \in DOMAIN g_transfers /\ CheckIO
           /\ ~sreq.failed /\ sreq.ans # BadFrame
           /\ iopkt1.dp_Type = "WRITE_RETURN" => Transit(f)
           /\ iopkt1.dp_Type = "READ_RETURN" =>
                 LineQuiet /\ AnswerOK(f, sreq.ans)
<1>1. Settled /\ sreq.st \in {"idle", "active", "replied"}
  BY AllSettled DEF PatientInv, FileInv, TypeOK, Requests
<1>2. /\ Pending(sreq) /\ f \in DOMAIN g_transfers /\ CheckIO
      /\ ~sreq.failed /\ sreq.ans # BadFrame
  BY <1>1, RequestAlone, ReplyAlone
<1>3. sreq.st = "replied" /\ Exchange(f)
  BY <1>1, <1>2 DEF CheckIO, Pending, LineInv, LineOK
<1> QED
  BY <1>2, <1>3 DEF Exchange

\* do_write_return()
LEMMA WriteReturnKeepsLine ==
    ASSUME PunctualEnv, PatientInv, PatientInv', LineInv, UNCHANGED lineVars,
           WriteReturn
    PROVE  LineInv'
<1>1. PICK f : f = iopkt1.dp_Arg1
  OBVIOUS
<1>2. GetMsg("sreq") /\ iopkt1.dp_Type = "WRITE_RETURN"
  BY DEF WriteReturn
<1>3. Transit(f) /\ ~sreq.failed
  BY <1>1, <1>2, ExchangeReplied
<1>4. StartIO(ReadReq) /\ UNCHANGED g_transfers
  BY <1>3 DEF WriteReturn, PunctualEnv
<1>5. iopkt1'.dp_Type = "READ_RETURN" /\ iopkt1'.dp_Arg1 = f
  BY <1>1 DEF WriteReturn, PatientInv, FileInv, TypeOK
<1>6. sreq'.st = "active" /\ sreq'.cmd = "read" /\ Pending(sreq') /\ treq' = "running"
  BY <1>4 DEF StartIO, ReadReq, IdleReq, Pending
<1>7. Transit(f)'
  <2>1. UNCHANGED <<toServer, toClient, srv>>
    BY DEF lineVars
  <2>2. /\ FrameOf(f)' = FrameOf(f) /\ (Unseen(f)' <=> Unseen(f))
        /\ \A a : AnswerOK(f, a)' <=> AnswerOK(f, a)
    BY <1>4, <2>1 DEF FrameOf, Unseen, AnswerOK, Expects
  <2> QED
    BY <1>3, <2>1, <2>2 DEF Transit
<1>8. Exchange(f)'
  BY <1>5, <1>6, <1>7 DEF Exchange
<1>9. SrvOK' /\ DisksOK'
  BY <1>4, DisksSame DEF lineVars
<1> QED
  BY <1>5, <1>6, <1>8, <1>9, ExchangeGoesOn

\* do_read_return(): a block counts as acknowledged when the server has it.
LEMMA ReadReturnKeepsLine ==
    ASSUME PatientInv, PatientInv', LineInv, UNCHANGED lineVars, ReadReturn
    PROVE  LineInv'
<1>1. PICK f : f = iopkt1.dp_Arg1
  OBVIOUS
<1>2. PICK p : p = StopTimer(Tail(port))
  OBVIOUS
<1>3. GetMsg("sreq") /\ iopkt1.dp_Type = "READ_RETURN"
  BY DEF ReadReturn
<1>4. /\ Pending(sreq) /\ LineQuiet /\ AnswerOK(f, sreq.ans)
      /\ ~sreq.failed /\ sreq.ans # BadFrame /\ f \in DOMAIN g_transfers
  BY <1>1, <1>3, ExchangeReplied
<1> DEFINE t == g_transfers[f]
<1>5. /\ g_transfers \in Seq(Transfers) /\ t \in Transfers
      /\ t.ftx_state \in {"S_WRQ_SENT", "S_DATA_SENT"} /\ RecordOK(t, "none")
      /\ RecordStored(t, srv.disk[f]) /\ t.ftx_error = "none"
      /\ t.ftx_state = "S_DATA_SENT" => t.ftx_buffers # <<>>
  BY <1>1, <1>4, LineFacts
<1>6. Answered(f, sreq.ans, p)
  BY <1>1, <1>2, <1>4 DEF ReadReturn, Extracted
<1>7. ~Pending(sreq') /\ iopkt1'.dp_Arg1 = f
  BY <1>1 DEF ReadReturn, Pending, IdleReq
<1>8. CASE sreq.ans.op = "ACK" /\ AckRequest(f, p)
  <2>1. UNCHANGED g_transfers /\ t.ftx_state = "S_WRQ_SENT"
    BY <1>8 DEF AckRequest
  <2>2. Expects(f, t.ftx_blknum + 1, t.acked)
    BY <1>4, <2>1 DEF AnswerOK
  <2>3. SrvOK' /\ DisksOK'
    BY <2>1, DisksSame DEF lineVars
  <2> QED
    BY <1>4, <1>7, <2>1, <2>2, <2>3, LineAgrees
<1>9. CASE sreq.ans.op = "ACK" /\ AckData(f, sreq.ans.blk, p)
  <2> DEFINE x == t.ftx_buffers[1]
             h == [x EXCEPT !.fb_nbytes_to_send = @ - TFTP_MAX_DATA_SIZE]
             b == [t.ftx_buffers EXCEPT ![1] = h]
             n == Chunk(Head(t.ftx_buffers).fb_nbytes_to_send)
             r == [t EXCEPT !.ftx_buffers = b, !.acked = @ + n]
  <2>1. t.ftx_state = "S_DATA_SENT" /\ sreq.ans.blk = t.ftx_blknum
    BY <1>9 DEF AckData, BlockMatches
  <2>2. Expects(f, t.ftx_blknum + 1, t.acked + n)
    BY <1>4, <1>9, <2>1 DEF AnswerOK
  <2>3. n \in 0 .. TFTP_MAX_DATA_SIZE
    BY <1>5, <2>1, BlockInOrder DEF RecordOK, Marks, Started
  <2>4. Acknowledged(f) = [g_transfers EXCEPT ![f] = r]
    BY DEF Acknowledged
  <2> HIDE DEF h, n, b
  <2>5. /\ r.ftx_state = t.ftx_state /\ r.acked = t.acked + n
        /\ r.ftx_blknum = t.ftx_blknum
    BY <1>5 DEF Transfers
  <2> HIDE DEF r
  <2>6. OnlyChanged(f) /\ g_transfers'[f] = r
    BY <1>4, <1>5, <1>9, <2>4, RecordChanged DEF AckData
  <2>7. RecordStored(r, srv.disk[f])
    <3>1. t.acked + n \in Nat /\ (t.acked + n) + 0 = t.acked + n
          /\ 0 \in 0 .. TFTP_MAX_DATA_SIZE
      BY <1>5, <2>3, SizesAssumption DEF RecordStored
    <3>2. srv.disk[f] = Server!Whole(r.acked) /\ r.acked + 0 = r.acked
      BY <2>2, <2>5, <3>1 DEF Expects
    <3>3. r.ftx_state = "S_DATA_SENT" /\ r.ftx_blknum > 0 /\ r.acked \in Nat
      BY <1>5, <2>1, <2>5, <3>1 DEF RecordStored
    <3> QED
      BY <3>1, <3>2, <3>3 DEF RecordStored
  <2>8. SrvOK' /\ DisksOK'
    BY <2>6, <2>7, DisksKept DEF lineVars
  <2> QED
    BY <1>4, <1>7, <2>2, <2>5, <2>6, <2>8, LineAgrees
<1>10. CASE \E err : FailFile(g_transfers, f, err, p)
  BY <1>4, <1>10, FailKeepsLine
<1>11. CASE AckWrongState(f, p)
  BY <1>5, <1>11 DEF AckWrongState
<1> QED
  BY <1>6, <1>8, <1>9, <1>10, <1>11 DEF Answered, AckWrongBlock

------------------------------------------------------------------------------
(* The theorems *)

LEMMA InitUpload == UploadInit => UploadInv
<1> SUFFICES ASSUME UploadInit PROVE UploadInv
  OBVIOUS
<1>1. Init
  BY DEF UploadInit
<1>2. PatientInv
  BY <1>1, InitMsgInv, InitFileInv, InitTransferInv, InitPatient DEF PatientInv
<1>3. /\ srv = Server!Idle /\ LineQuiet /\ g_transfers = <<>>
      /\ sreq = IdleReq /\ treq = "idle" /\ port = <<>>
  BY DEF UploadInit, Init, LineQuiet
<1>4. SrvOK
  BY <1>3, BoundsAssumption DEF SrvOK, Servers, Server!Idle
<1>5. DisksOK
  BY <1>3, BoundsAssumption DEF DisksOK, Server!Idle
<1>6. ~Pending(sreq) /\ ~Out(BufferPackets) /\ treq # "expired"
  BY <1>3 DEF Pending, IdleReq, Out, ToSet
<1>7. LineOK
  BY <1>3, <1>6 DEF LineOK
<1> QED
  BY <1>2, <1>4, <1>5, <1>7 DEF UploadInv, LineInv

LEMMA StepUpload ==
    ASSUME PunctualEnv, UploadInv, [UploadNext]_uploadVars
    PROVE  UploadInv' /\ [Next]_vars
<1>1. PatientEnv /\ PatientInv /\ LineInv
  BY DEF PunctualEnv, UploadInv
<1>2. [Next]_vars
  BY <1>1, StepOfHandler
<1>3. PatientInv'
  BY <1>1, <1>2, StepPatient
<1>4. LineInv'
  <2>1. CASE Handle /\ UNCHANGED lineVars
    BY <1>1, <1>3, <2>1, FindOutputKeepsLine, WriteKeepsLine, EndKeepsLine,
       IdleKeepsLine, SendNextFileKeepsLine, SendNextBufferKeepsLine,
       ContinueBufferKeepsLine, FreedKeepsLine, WriteReturnKeepsLine,
       ReadReturnKeepsLine, TimerExpiredKeepsLine
    DEF Handle
  <2>2. CASE ClientStep \/ UNCHANGED uploadVars
    BY <1>1, <1>3, <2>2, IdleKeepsLine DEF ClientStep, uploadVars
  <2>3. CASE Timeout
    BY <1>1, <1>3, <2>3, TimeoutKeepsLine
  <2>4. CASE FrameWritten
    BY <1>1, <1>3, <2>4, FrameWrittenKeepsLine
  <2>5. CASE AnswerRead
    BY <1>1, <1>3, <2>5, AnswerReadKeepsLine
  <2>6. CASE ServerReceives
    BY <1>1, <1>3, <2>6, ServerReceivesKeepsLine
  <2>7. CASE Lose
    BY <1>1, <1>3, <2>7, LoseKeepsLine
  <2> QED
    BY <2>1, <2>2, <2>3, <2>4, <2>5, <2>6, <2>7 DEF UploadNext, HandlerStep
<1> QED
  BY <1>2, <1>3, <1>4 DEF UploadInv

LEMMA SpecUpload == ASSUME PunctualEnv
                    PROVE  UploadSpec => []UploadInv /\ [][Next]_vars
<1>1. UploadInit => UploadInv
  BY InitUpload
<1>2. UploadInv /\ [UploadNext]_uploadVars => UploadInv' /\ [Next]_vars
  BY StepUpload
<1> QED
  BY <1>1, <1>2, PTL DEF UploadSpec

\* A file listed as finished is on the server's disk as its client has written
\* it, byte for byte, whatever was lost of other files and whether or not the
\* server has taken a short write for the end of the file: for any number of
\* files, any block size and any number of block numbers.
THEOREM FinishedFilesAreStored ==
    ASSUME PunctualEnv PROVE UploadSpec => []FinishedStored
<1>1. UploadInv => FinishedStored
  <2> SUFFICES ASSUME UploadInv, NEW f \in DOMAIN g_transfers, Finished(f)
               PROVE  srv.disk[f] = Server!Whole(g_transfers[f].accepted)
    BY DEF FinishedStored
  <2> DEFINE t == g_transfers[f]
  <2>1. t.ftx_state = "S_FINISHED" /\ t.ftx_error = "none"
    BY DEF Finished
  <2>2. srv.disk[f] = Server!Whole(t.acked)
    BY <2>1 DEF UploadInv, LineInv, DisksOK, RecordStored
  <2>3. RecordOK(t, Mark(f))
    BY DEF UploadInv, PatientInv, PatientOK, TransferInv, TransferOK, FilesOK
  <2>4. t.acked = t.accepted
    BY <2>1, <2>3 DEF RecordOK, Chain
  <2> QED
    BY <2>2, <2>4
<1> QED
  BY <1>1, SpecUpload, PTL

\* No byte counts as acknowledged in do_read_return() that the server has not
\* stored, and the server is never more than the block on the line ahead.
THEOREM ServerKeepsStep ==
    ASSUME PunctualEnv PROVE UploadSpec => []ServerInStep
<1>1. UploadInv => ServerInStep
  <2> SUFFICES ASSUME UploadInv, NEW f \in DOMAIN g_transfers
               PROVE  Len(srv.disk[f]) - g_transfers[f].acked
                         \in 0 .. TFTP_MAX_DATA_SIZE
    BY DEF ServerInStep
  <2>1. PICK n \in 0 .. TFTP_MAX_DATA_SIZE :
           /\ g_transfers[f].acked \in Nat
           /\ srv.disk[f] = Server!Whole(g_transfers[f].acked + n)
    BY DEF UploadInv, LineInv, DisksOK, RecordStored
  <2>2. PICK k \in Nat : k = g_transfers[f].acked
    BY <2>1
  <2>3. k + n \in Nat
    BY SizesAssumption
  <2>4. Len(srv.disk[f]) = k + n
    BY <2>1, <2>2, <2>3, WholeSeq
  <2> QED
    BY <2>2, <2>4, SizesAssumption
<1> QED
  BY <1>1, SpecUpload, PTL

\* With a real line and server the handler takes no step it does not take in
\* Handler, where a read returns any answer: the answers of the server are
\* among those, also the ones to repeated and to unexpected blocks.  So what is
\* proved of Handler holds for Upload, FileQueue's promises included.
THEOREM UploadIsHandler == ASSUME PunctualEnv PROVE UploadSpec => Spec
<1>1. UploadInit => Init
  BY DEF UploadInit
<1> QED
  BY <1>1, SpecUpload, PTL DEF Spec, UploadSpec
=============================================================================
