--------------------------- MODULE TransferProofs ---------------------------
(****************************************************************************)
(* Proofs about the bytes of a file on their way through Handler: how the   *)
(* buffers a client has written, the blocks cut from them and the bytes the *)
(* server has acknowledged fit together.  For all values of the constants,  *)
(* impatient clients and failing calls included.                            *)
(****************************************************************************)
EXTENDS HandlerProofs

------------------------------------------------------------------------------
(* The buffers of one file *)

\* Where buffer i of transfer t ends: where the next one starts, or where the
\* client has stopped writing.
Ends(t, i) == IF i < Len(t.ftx_buffers) THEN t.ftx_buffers[i + 1].fb_curpos
                                        ELSE t.accepted

\* What buffer b has to send reaches up to position e.
Spans(b, e) ==
    b.fb_nbytes_to_send >= 0 /\ b.fb_curpos + b.fb_nbytes_to_send = e

\* No buffer ends behind the file, and those not begun follow each other.
RestOK(t) ==
    \A i \in DOMAIN t.ftx_buffers :
        /\ Ends(t, i) <= t.accepted
        /\ i > 1 => Spans(t.ftx_buffers[i], Ends(t, i))

\* The first buffer starts where the acknowledged bytes end.  Not so between
\* an acknowledgement and the handling of the packet it causes, mark: then
\* fb_curpos is one block behind, or the buffer is used up.
HeadOK(t, mark) ==
    LET b == t.ftx_buffers[1] IN
    CASE mark = "CONTINUE_BUFFER" ->
            /\ b.fb_curpos + TFTP_MAX_DATA_SIZE = t.acked
            /\ b.fb_nbytes_to_send > 0
            /\ t.acked + b.fb_nbytes_to_send = Ends(t, 1)
      [] mark = "BUFFER_FINISHED" -> t.acked = Ends(t, 1)
      [] OTHER -> b.fb_curpos = t.acked /\ Spans(b, Ends(t, 1))

Chain(t, mark) ==
    /\ RestOK(t)
    /\ t.ftx_buffers = <<>> => t.acked = t.accepted
    /\ t.ftx_buffers # <<>> => HeadOK(t, mark)

\* What the internal packets tell apart.
Marks == InternalTypes \cup {"none"}
Started == {"CONTINUE_BUFFER", "BUFFER_FINISHED"}

\* A buffer ends at a position in the file.
LEMMA EndsNat ==
    ASSUME NEW t \in Transfers, NEW i \in DOMAIN t.ftx_buffers
    PROVE  Ends(t, i) \in Nat
<1>1. t.ftx_buffers \in Seq(Buffers) /\ t.accepted \in Nat
  BY DEF Transfers
<1>2. CASE i < Len(t.ftx_buffers)
  <2>1. t.ftx_buffers[i + 1] \in Buffers
    BY <1>1, <1>2
  <2> QED
    BY <1>2, <2>1 DEF Ends, Buffers
<1> QED
  BY <1>1, <1>2 DEF Ends

\* do_write() puts a buffer behind the others, whatever becomes of the first.
LEMMA QueuedChain ==
    ASSUME NEW t \in Transfers, NEW mark \in Marks \ Started, Chain(t, mark),
           NEW len \in Nat, NEW r \in Transfers,
           r.ftx_buffers = Append(t.ftx_buffers, NewBuffer(t.accepted, len)),
           r.accepted = t.accepted + len, r.acked = t.acked
    PROVE  Chain(r, mark)
<1> DEFINE bs == t.ftx_buffers
           n == Len(bs)
           b == NewBuffer(t.accepted, len)
<1>1. /\ bs \in Seq(Buffers) /\ n \in Nat /\ t.accepted \in Nat /\ t.acked \in Int
      /\ DOMAIN bs = 1 .. n
  BY DEF Transfers
<1>2. /\ b \in Buffers /\ b.fb_curpos = t.accepted /\ b.fb_nbytes_to_send = len
  BY <1>1 DEF NewBuffer, Buffers
<1> HIDE DEF b
<1>3. /\ Len(r.ftx_buffers) = n + 1 /\ DOMAIN r.ftx_buffers = 1 .. n + 1
      /\ r.ftx_buffers[n + 1] = b /\ r.ftx_buffers # <<>>
      /\ \A i \in 1 .. n : r.ftx_buffers[i] = bs[i]
  <2>1. r.ftx_buffers = Append(bs, b)
    BY DEF b
  <2> HIDE DEF bs
  <2> QED
    BY <1>1, <1>2, <2>1
<1>4. \A i \in 1 .. n : Ends(r, i) = Ends(t, i)
  <2> SUFFICES ASSUME NEW i \in 1 .. n PROVE Ends(r, i) = Ends(t, i)
    OBVIOUS
  <2>1. CASE i < n
    BY <1>1, <1>3, <2>1 DEF Ends
  <2>2. CASE i = n
    BY <1>1, <1>2, <1>3, <2>2 DEF Ends
  <2> QED
    BY <1>1, <2>1, <2>2
<1>5. Ends(r, n + 1) = t.accepted + len
  BY <1>1, <1>3 DEF Ends
<1>6. RestOK(r)
  <2> SUFFICES ASSUME NEW i \in 1 .. n + 1
               PROVE  /\ Ends(r, i) <= r.accepted
                      /\ i > 1 => Spans(r.ftx_buffers[i], Ends(r, i))
    BY <1>3 DEF RestOK
  <2>1. CASE i \in 1 .. n
    <3>1. /\ Ends(t, i) <= t.accepted
          /\ i > 1 => Spans(bs[i], Ends(t, i))
      BY <1>1, <2>1 DEF Chain, RestOK
    <3>2. Ends(t, i) \in Int
      BY <1>1, <2>1, EndsNat
    <3>3. Ends(r, i) = Ends(t, i) /\ r.ftx_buffers[i] = bs[i]
      BY <1>3, <1>4, <2>1
    <3>4. Ends(t, i) <= t.accepted + len
      BY <1>1, <3>1, <3>2
    <3> QED
      BY <3>1, <3>3, <3>4
  <2>2. CASE i = n + 1
    BY <1>1, <1>2, <1>3, <1>5, <2>2 DEF Spans
  <2> QED
    BY <1>1, <2>1, <2>2
<1>7. HeadOK(r, mark)
  <2>1. CASE n = 0
    <3>1. bs = <<>> /\ t.acked = t.accepted
      BY <1>1, <2>1 DEF Chain
    <3>2. r.ftx_buffers[1] = b /\ Ends(r, 1) = t.accepted + len
      BY <1>3, <1>5, <2>1
    <3> QED
      BY <1>1, <1>2, <3>1, <3>2 DEF HeadOK, Spans, Started
  <2>2. CASE n > 0
    <3>1. bs # <<>> /\ r.ftx_buffers[1] = bs[1] /\ Ends(r, 1) = Ends(t, 1)
      BY <1>1, <1>3, <1>4, <2>2
    <3> QED
      BY <3>1 DEF Chain, HeadOK
  <2> QED
    BY <1>1, <2>1, <2>2
<1> QED
  BY <1>3, <1>6, <1>7 DEF Chain

\* Only these three fields matter, and of the packets only those that follow
\* an acknowledgement.
LEMMA SameChain ==
    ASSUME NEW t, NEW r, NEW mark, NEW next, Chain(t, mark),
           r.ftx_buffers = t.ftx_buffers, r.accepted = t.accepted,
           r.acked = t.acked,
           mark = next \/ (mark \notin Started /\ next \notin Started)
    PROVE  Chain(r, next)
<1>1. \A i : Ends(r, i) = Ends(t, i)
  BY DEF Ends
<1>2. RestOK(r)
  BY <1>1 DEF Chain, RestOK
<1>3. t.ftx_buffers # <<>> => HeadOK(r, next)
  BY <1>1 DEF Chain, HeadOK, Started
<1> QED
  BY <1>2, <1>3 DEF Chain

\* The first buffer is changed in place: the others do not notice.
LEMMA HeadChanged ==
    ASSUME NEW t \in Transfers, NEW r \in Transfers, NEW h \in Buffers,
           t.ftx_buffers # <<>>, RestOK(t), r.accepted = t.accepted,
           r.ftx_buffers = [t.ftx_buffers EXCEPT ![1] = h]
    PROVE  /\ r.ftx_buffers # <<>> /\ r.ftx_buffers[1] = h
           /\ Ends(r, 1) = Ends(t, 1) /\ RestOK(r)
<1> DEFINE bs == t.ftx_buffers
           n == Len(bs)
<1>1. bs \in Seq(Buffers) /\ n \in Nat /\ n > 0 /\ DOMAIN bs = 1 .. n
  BY DEF Transfers
<1>2. /\ Len(r.ftx_buffers) = n /\ DOMAIN r.ftx_buffers = 1 .. n
      /\ r.ftx_buffers # <<>> /\ r.ftx_buffers[1] = h
      /\ \A i \in 2 .. n : r.ftx_buffers[i] = bs[i]
  <2>1. /\ r.ftx_buffers \in Seq(Buffers) /\ Len(r.ftx_buffers) = n
        /\ \A i \in DOMAIN bs : r.ftx_buffers[i] = IF i = 1 THEN h ELSE bs[i]
    BY <1>1, UpdateMember
  <2> QED
    BY <1>1, <2>1
<1>3. \A i \in 1 .. n : Ends(r, i) = Ends(t, i)
  BY <1>1, <1>2 DEF Ends
<1>4. RestOK(r)
  BY <1>1, <1>2, <1>3 DEF RestOK
<1> QED
  BY <1>1, <1>2, <1>3, <1>4

\* The block cut from the first buffer lies within the file, next to what has
\* been acknowledged.
LEMMA BlockInOrder ==
    ASSUME NEW t \in Transfers, NEW mark \in Marks \ Started, Chain(t, mark),
           t.ftx_buffers # <<>>
    PROVE  LET b == Head(t.ftx_buffers)
               n == Chunk(b.fb_nbytes_to_send)
           IN  /\ b.fb_curpos = t.acked
               /\ n \in 0 .. TFTP_MAX_DATA_SIZE
               /\ t.acked + n <= t.accepted
<1> DEFINE b == t.ftx_buffers[1]
           n == Chunk(b.fb_nbytes_to_send)
<1>1. /\ t.ftx_buffers \in Seq(Buffers) /\ Head(t.ftx_buffers) = b
      /\ 1 \in DOMAIN t.ftx_buffers /\ b \in Buffers
      /\ t.accepted \in Nat /\ t.acked \in Int
  BY DEF Transfers
<1>2. Ends(t, 1) \in Nat /\ Ends(t, 1) <= t.accepted
  BY <1>1, EndsNat DEF Chain, RestOK
<1>3. b.fb_curpos = t.acked /\ Spans(b, Ends(t, 1))
  BY DEF Chain, HeadOK, Started
<1>4. b.fb_curpos \in Nat /\ b.fb_nbytes_to_send \in Int
  BY <1>1 DEF Buffers
<1>5. n \in 0 .. TFTP_MAX_DATA_SIZE /\ n <= b.fb_nbytes_to_send
  BY <1>3, <1>4, SizesAssumption DEF Chunk, Spans
<1> HIDE DEF b, n
<1>6. t.acked + n <= t.accepted
  BY <1>1, <1>2, <1>3, <1>4, <1>5, SizesAssumption DEF Spans
<1> QED
  BY <1>1, <1>3, <1>5, <1>6 DEF n

\* do_read_return() counts a block as acknowledged: what is left of the first
\* buffer decides on the packet that follows.
LEMMA AcknowledgedChain ==
    ASSUME NEW t \in Transfers, NEW mark \in Marks \ Started, Chain(t, mark),
           t.ftx_buffers # <<>>, NEW r \in Transfers, NEW h \in Buffers,
           h.fb_curpos = t.ftx_buffers[1].fb_curpos,
           h.fb_nbytes_to_send
              = t.ftx_buffers[1].fb_nbytes_to_send - TFTP_MAX_DATA_SIZE,
           r.ftx_buffers = [t.ftx_buffers EXCEPT ![1] = h],
           r.accepted = t.accepted,
           r.acked = t.acked + Chunk(t.ftx_buffers[1].fb_nbytes_to_send)
    PROVE  Chain(r, AfterBlock(h))
<1> DEFINE b == t.ftx_buffers[1]
<1>1. b \in Buffers /\ 1 \in DOMAIN t.ftx_buffers
  BY DEF Transfers
<1>2. /\ b.fb_curpos \in Nat /\ b.fb_nbytes_to_send \in Int
      /\ h.fb_curpos = b.fb_curpos
      /\ h.fb_nbytes_to_send = b.fb_nbytes_to_send - TFTP_MAX_DATA_SIZE
      /\ Ends(t, 1) \in Nat
  BY <1>1, EndsNat DEF Buffers
<1>3. b.fb_curpos = t.acked /\ Spans(b, Ends(t, 1))
  BY DEF Chain, HeadOK, Started
<1>4. /\ r.ftx_buffers # <<>> /\ r.ftx_buffers[1] = h
      /\ Ends(r, 1) = Ends(t, 1) /\ RestOK(r)
  BY HeadChanged DEF Chain
<1> HIDE DEF b
<1>5. CASE h.fb_nbytes_to_send > 0
  <2>1. /\ AfterBlock(h) = "CONTINUE_BUFFER"
        /\ r.acked = t.acked + TFTP_MAX_DATA_SIZE
    BY <1>2, <1>5, SizesAssumption DEF AfterBlock, Chunk, b
  <2>2. /\ h.fb_curpos + TFTP_MAX_DATA_SIZE = r.acked
        /\ r.acked + h.fb_nbytes_to_send = Ends(t, 1)
    BY <1>2, <1>3, <2>1, SizesAssumption DEF Spans
  <2> QED
    BY <1>4, <1>5, <2>1, <2>2 DEF Chain, HeadOK
<1>6. CASE ~(h.fb_nbytes_to_send > 0)
  <2>1. /\ AfterBlock(h) = "BUFFER_FINISHED"
        /\ r.acked = t.acked + b.fb_nbytes_to_send
    BY <1>2, <1>6, SizesAssumption DEF AfterBlock, Chunk, b
  <2>2. r.acked = Ends(t, 1)
    BY <1>2, <1>3, <2>1 DEF Spans
  <2> QED
    BY <1>4, <2>1, <2>2 DEF Chain, HeadOK
<1> QED
  BY <1>5, <1>6

\* ACTION_CONTINUE_BUFFER moves fb_curpos to where the next block starts.
LEMMA ContinuedChain ==
    ASSUME NEW t \in Transfers, Chain(t, "CONTINUE_BUFFER"),
           t.ftx_buffers # <<>>, NEW r \in Transfers, NEW h \in Buffers,
           h.fb_curpos = t.ftx_buffers[1].fb_curpos + TFTP_MAX_DATA_SIZE,
           h.fb_nbytes_to_send = t.ftx_buffers[1].fb_nbytes_to_send,
           r.ftx_buffers = [t.ftx_buffers EXCEPT ![1] = h],
           r.accepted = t.accepted, r.acked = t.acked
    PROVE  Chain(r, "none")
<1>1. /\ r.ftx_buffers # <<>> /\ r.ftx_buffers[1] = h
      /\ Ends(r, 1) = Ends(t, 1) /\ RestOK(r)
  BY HeadChanged DEF Chain
<1>2. t.ftx_buffers[1].fb_nbytes_to_send \in Int /\ t.acked \in Int
  BY DEF Transfers, Buffers
<1>3. HeadOK(t, "CONTINUE_BUFFER")
  BY DEF Chain
<1>4. h.fb_curpos = t.acked /\ Spans(h, Ends(t, 1))
  BY <1>2, <1>3 DEF HeadOK, Spans
<1> QED
  BY <1>1, <1>4 DEF Chain, HeadOK

\* ACTION_BUFFER_FINISHED takes the first buffer out of the list: the next
\* one starts where it has ended.
LEMMA FreedChain ==
    ASSUME NEW t \in Transfers, Chain(t, "BUFFER_FINISHED"),
           t.ftx_buffers # <<>>, NEW r \in Transfers,
           r.ftx_buffers = Tail(t.ftx_buffers),
           r.accepted = t.accepted, r.acked = t.acked
    PROVE  Chain(r, "none")
<1> DEFINE bs == t.ftx_buffers
           n == Len(bs)
<1>1. /\ bs \in Seq(Buffers) /\ n \in Nat /\ n > 0 /\ DOMAIN bs = 1 .. n
      /\ Len(r.ftx_buffers) = n - 1 /\ DOMAIN r.ftx_buffers = 1 .. n - 1
      /\ r.ftx_buffers = <<>> <=> n = 1
      /\ \A i \in 1 .. n - 1 : r.ftx_buffers[i] = bs[i + 1]
  <2>1. /\ bs \in Seq(Buffers) /\ bs # <<>> /\ r.ftx_buffers = Tail(bs)
        /\ Tail(bs) \in Seq(Buffers)
    BY DEF Transfers
  <2> HIDE DEF bs
  <2>2. n \in Nat /\ n > 0 /\ DOMAIN bs = 1 .. n
    BY <2>1
  <2>3. Len(Tail(bs)) = n - 1
    BY <2>1
  <2>4. \A i \in 1 .. n - 1 : Tail(bs)[i] = bs[i + 1]
    BY <2>1
  <2>5. DOMAIN Tail(bs) = 1 .. n - 1
    BY <2>1, <2>3
  <2>6. Tail(bs) = <<>> <=> n = 1
    <3>1. \A x \in Seq(Buffers) : x = <<>> <=> Len(x) = 0
      OBVIOUS
    <3>2. Tail(bs) = <<>> <=> Len(Tail(bs)) = 0
      BY <2>1, <3>1
    <3> HIDE DEF n
    <3> QED
      BY <2>2, <2>3, <3>2
  <2> HIDE DEF n
  <2> QED
    BY <2>1, <2>2, <2>3, <2>4, <2>5, <2>6
<1>2. \A i \in 1 .. n - 1 : Ends(r, i) = Ends(t, i + 1)
  <2> SUFFICES ASSUME NEW i \in 1 .. n - 1 PROVE Ends(r, i) = Ends(t, i + 1)
    OBVIOUS
  <2>1. CASE i < n - 1
    <3>1. i + 1 \in 1 .. n - 1 /\ i + 1 < n /\ (i + 1) + 1 = i + 2
      BY <1>1, <2>1
    <3>2. r.ftx_buffers[i + 1] = bs[(i + 1) + 1]
      BY <1>1, <3>1
    <3> QED
      BY <1>1, <2>1, <3>1, <3>2 DEF Ends
  <2>2. CASE i = n - 1
    BY <1>1, <2>2 DEF Ends
  <2> QED
    BY <1>1, <2>1, <2>2
<1>3. ASSUME NEW i \in 1 .. n - 1
      PROVE  /\ Ends(r, i) <= r.accepted
             /\ Spans(r.ftx_buffers[i], Ends(r, i))
  <2>1. i + 1 \in 1 .. n /\ i + 1 > 1
    BY <1>1
  <2>2. Ends(t, i + 1) <= t.accepted /\ Spans(bs[i + 1], Ends(t, i + 1))
    BY <1>1, <2>1 DEF Chain, RestOK
  <2> QED
    BY <1>1, <1>2, <2>2
<1>4. RestOK(r)
  BY <1>1, <1>3 DEF RestOK
<1>5. t.acked = Ends(t, 1)
  BY DEF Chain, HeadOK
<1>6. CASE n = 1
  BY <1>1, <1>4, <1>5, <1>6 DEF Chain, Ends
<1>7. CASE n > 1
  <2>1. 1 \in 1 .. n - 1 /\ r.ftx_buffers[1] = bs[1 + 1] /\ 1 < n
    BY <1>1, <1>7
  <2>2. r.ftx_buffers[1].fb_curpos = r.acked
    BY <1>5, <2>1 DEF Ends
  <2> QED
    BY <1>1, <1>3, <1>4, <1>7, <2>1, <2>2 DEF Chain, HeadOK
<1> QED
  BY <1>1, <1>6, <1>7

------------------------------------------------------------------------------
(* The invariant *)

\* The packet the handler has sent itself about file f.
Mark(f) == IF "out" \in ToSet(port) /\ outpkt.dp_Arg1 = f
           THEN outpkt.dp_Type ELSE "none"

\* What holds of transfer t while packet mark is under way for it.  After an
\* error nothing is said of its bytes: the client may close a file that has
\* failed, and it is sent once more then.
RecordOK(t, mark) ==
    /\ t.ftx_state \in {"S_QUEUED", "S_READY", "S_WRQ_SENT"} => t.ftx_blknum = 0
    /\ t.ftx_state = "S_ERROR" => t.ftx_error # "none"
    /\ t.ftx_state = "S_FINISHED" =>
          /\ t.ftx_blknum < BLK_MODULUS
          /\ t.ftx_error = "none" => t.ftx_buffers = <<>>
    /\ mark \in BufferPackets =>
          /\ t.ftx_state \in {"S_WRQ_SENT", "S_DATA_SENT"}
          /\ t.ftx_blknum < BLK_MODULUS
    /\ mark = "FILE_FINISHED" => t.ftx_state = "S_FINISHED" \/ t.ftx_error # "none"
    /\ mark = "FILE_FAILED" => t.ftx_error # "none"
    /\ t.ftx_error = "none" => Chain(t, mark)

FilesOK == \A f \in DOMAIN g_transfers : RecordOK(g_transfers[f], Mark(f))

\* After its reply do_write() reports a failure of its file, if anything.
OwedOK ==
    /\ owed.dp_Type \in {"none", "SEND_NEXT_FILE", "FILE_FAILED"}
    /\ (owed.dp_Type = "FILE_FAILED" /\ owed.dp_Arg1 \in DOMAIN g_transfers)
          => g_transfers[owed.dp_Arg1].ftx_error # "none"

\* An open file belongs to one client, who alone writes to it and closes it,
\* and no block of it has been sent.
OpenOK ==
    /\ \A c \in Clients : pkt[c].dp_Type \in {"WRITE", "END"} => fh[c] # 0
    /\ \A c \in Clients : fh[c] # 0 =>
          /\ g_transfers[fh[c]].ftx_state \in {"S_QUEUED", "S_ERROR"}
          /\ g_transfers[fh[c]].ftx_blknum = 0
    /\ \A c, d \in Clients : fh[c] = fh[d] /\ fh[c] # 0 => c = d

FrameOK ==
    /\ (Pending(sreq) /\ sreq.frame.op = "DATA")
          => sreq.frame.file \in DOMAIN g_transfers
    /\ DataInOrder

\* ACTION_WRITE carries a number of bytes.
WriteOK == \A c \in Clients : pkt[c].dp_Type = "WRITE" => pkt[c].len \in WriteLens

TransferOK == FilesOK /\ OwedOK /\ OpenOK /\ FrameOK
TransferInv == undef = {} => TransferOK

\* All that is known before a step.
Before == FileInv /\ MsgInv /\ TransferOK /\ undef = {}

\* A failed file satisfies it as long as no block of it is to be sent.
LEMMA FailedRecordOK ==
    ASSUME NEW r, NEW mark, r.ftx_state = "S_ERROR", r.ftx_error # "none",
           mark \notin BufferPackets
    PROVE  RecordOK(r, mark)
BY DEF RecordOK

\* A packet that says nothing of blocks may come and go.
LEMMA UnmarkedRecordOK ==
    ASSUME NEW r, NEW mark, RecordOK(r, mark), mark \notin Started
    PROVE  RecordOK(r, "none") /\ RecordOK(r, "SEND_NEXT_FILE")
<1>1. r.ftx_error = "none" => Chain(r, "none") /\ Chain(r, "SEND_NEXT_FILE")
  BY SameChain DEF RecordOK, Started
<1> QED
  BY <1>1 DEF RecordOK, BufferPackets

\* Which file a packet is about.
LEMMA NewMarks ==
    ASSUME NEW p \in Seq(Msgs), NEW type, NEW f, SendInternal(p, type, f)
    PROVE  \A g : Mark(g)' = IF g = f THEN type ELSE "none"
<1>1. "out" \in ToSet(port')
  BY AppendMsg DEF SendInternal, Msgs
<1> QED
  BY <1>1 DEF Mark, SendInternal

LEMMA SameMarks ==
    ASSUME outpkt' = outpkt, "out" \in ToSet(port') <=> "out" \in ToSet(port)
    PROVE  \A g : Mark(g)' = Mark(g)
BY DEF Mark

LEMMA NoMarks ==
    ASSUME "out" \notin ToSet(port)
    PROVE  \A g : Mark(g) = "none"
BY DEF Mark

LEMMA NoMarksAfter ==
    ASSUME "out" \notin ToSet(port')
    PROVE  \A g : Mark(g)' = "none"
BY DEF Mark

------------------------------------------------------------------------------
(* Steps that keep it *)

\* Only file f is changed, if any.
OnlyChanged(f) ==
    /\ DOMAIN g_transfers' = DOMAIN g_transfers
    /\ \A g \in DOMAIN g_transfers \ {f} : g_transfers'[g] = g_transfers[g]

\* The packet under way for file g is the same, or was not about its blocks.
MarkKept(g) ==
    Mark(g)' = Mark(g) \/ (Mark(g) \notin Started /\ Mark(g)' = "none")

LEMMA FilesKept ==
    ASSUME FilesOK, NEW f, OnlyChanged(f),
           \A g \in DOMAIN g_transfers \ {f} : MarkKept(g),
           f \in DOMAIN g_transfers => RecordOK(g_transfers'[f], Mark(f)')
    PROVE  FilesOK'
<1> SUFFICES ASSUME NEW g \in DOMAIN g_transfers, g # f
             PROVE  RecordOK(g_transfers'[g], Mark(g)')
  BY DEF FilesOK, OnlyChanged
<1>1. g_transfers'[g] = g_transfers[g] /\ RecordOK(g_transfers[g], Mark(g))
  BY DEF FilesOK, OnlyChanged
<1>2. MarkKept(g)
  OBVIOUS
<1>3. CASE Mark(g)' = Mark(g)
  BY <1>1, <1>3
<1>4. CASE Mark(g) \notin Started /\ Mark(g)' = "none"
  BY <1>1, <1>4, UnmarkedRecordOK
<1> QED
  BY <1>2, <1>3, <1>4 DEF MarkKept

\* The client's files are as they were, or f is and has failed.
LEMMA OpenKept ==
    ASSUME FileInv, OpenOK, NEW f, OnlyChanged(f),
           fh' \in [Clients -> FileRef],
           \A c \in Clients : fh'[c] \in {fh[c], 0},
           \A c \in Clients :
              pkt'[c].dp_Type \in {"WRITE", "END"} => fh'[c] # 0,
           f \in DOMAIN g_transfers =>
              \/ /\ g_transfers'[f].ftx_state \in {"S_QUEUED", "S_ERROR"}
                 /\ g_transfers'[f].ftx_blknum = g_transfers[f].ftx_blknum
              \/ \A c \in Clients : fh'[c] # f
    PROVE  OpenOK'
<1>1. ASSUME NEW c \in Clients, fh'[c] # 0
      PROVE  /\ fh[c] \in DOMAIN g_transfers /\ fh'[c] = fh[c]
             /\ g_transfers[fh[c]].ftx_state \in {"S_QUEUED", "S_ERROR"}
             /\ g_transfers[fh[c]].ftx_blknum = 0
  <2>1. fh'[c] = fh[c] /\ fh[c] # 0
    BY <1>1
  <2>2. fh[c] \in FileRef /\ g_transfers \in Seq(Transfers)
    BY DEF FileInv, TypeOK
  <2>3. fh[c] \in DOMAIN g_transfers
    BY <2>1, <2>2 DEF FileRef
  <2> QED
    BY <2>1, <2>3 DEF OpenOK
<1>2. ASSUME NEW c \in Clients, fh'[c] # 0
      PROVE  /\ g_transfers'[fh'[c]].ftx_state \in {"S_QUEUED", "S_ERROR"}
             /\ g_transfers'[fh'[c]].ftx_blknum = 0
  <2>1. CASE fh'[c] = f
    BY <1>1, <1>2, <2>1
  <2>2. CASE fh'[c] # f
    BY <1>1, <1>2, <2>2 DEF OnlyChanged
  <2> QED
    BY <2>1, <2>2
<1>3. ASSUME NEW c \in Clients, NEW d \in Clients, fh'[c] = fh'[d], fh'[c] # 0
      PROVE  c = d
  BY <1>1, <1>3 DEF OpenOK
<1> QED
  BY <1>2, <1>3 DEF OpenOK

\* The block on the line still starts where the acknowledged bytes end.
LEMMA FrameKept ==
    ASSUME FileInv, FrameOK, undef = {}, NEW f, OnlyChanged(f),
           (Pending(sreq') /\ sreq'.frame.op = "DATA")
              => Pending(sreq) /\ sreq'.frame = sreq.frame,
           f \in DOMAIN g_transfers =>
              \/ g_transfers'[f].ftx_error # "none"
              \/ /\ g_transfers'[f].ftx_error = g_transfers[f].ftx_error
                 /\ g_transfers'[f].acked = g_transfers[f].acked
                 /\ g_transfers'[f].accepted \in Nat
                 /\ g_transfers'[f].accepted >= g_transfers[f].accepted
    PROVE  FrameOK'
<1> SUFFICES ASSUME Pending(sreq'), sreq'.frame.op = "DATA"
             PROVE  /\ sreq'.frame.file \in DOMAIN g_transfers'
                    /\ LET t == g_transfers'[sreq'.frame.file] IN
                       t.ftx_error = "none" =>
                          /\ sreq'.frame.off = t.acked
                          /\ sreq'.frame.len >= 0
                          /\ sreq'.frame.off + sreq'.frame.len <= t.accepted
  BY DEF FrameOK, DataInOrder
<1> DEFINE t == g_transfers[sreq.frame.file]
           u == g_transfers'[sreq.frame.file]
<1>1. /\ Pending(sreq) /\ sreq'.frame = sreq.frame
      /\ sreq.frame.file \in DOMAIN g_transfers
      /\ t.ftx_error = "none" =>
            /\ sreq.frame.off = t.acked
            /\ sreq.frame.len >= 0
            /\ sreq.frame.off + sreq.frame.len <= t.accepted
  BY DEF FrameOK, DataInOrder
<1>2. t \in Transfers /\ sreq.frame \in Frames
  BY <1>1 DEF FileInv, TypeOK, Requests
<1>3. t.accepted \in Nat /\ sreq.frame.off \in Nat /\ sreq.frame.len \in Int
  BY <1>2 DEF Transfers, Frames
<1>4. \/ u.ftx_error # "none"
      \/ /\ u.ftx_error = t.ftx_error /\ u.acked = t.acked
         /\ u.accepted \in Nat /\ u.accepted >= t.accepted
  BY <1>1, <1>3 DEF OnlyChanged
<1>5. DOMAIN g_transfers' = DOMAIN g_transfers
  BY DEF OnlyChanged
<1> HIDE DEF t, u
<1>6. u.ftx_error = "none" =>
         /\ sreq.frame.off = u.acked
         /\ sreq.frame.len >= 0
         /\ sreq.frame.off + sreq.frame.len <= u.accepted
  BY <1>1, <1>3, <1>4
<1> QED
  BY <1>1, <1>5, <1>6 DEF u

\* What the handler owes: nothing, or it has just failed a file.
LEMMA NothingOwed ==
    ASSUME owed' = NoInternal
    PROVE  OwedOK'
BY DEF OwedOK, NoInternal

\* Files and outpkt are left alone.
LEMMA QuietKeepsTransfers ==
    ASSUME Before, UNCHANGED <<g_transfers, fh, outpkt, owed>>,
           "out" \in ToSet(port') <=> "out" \in ToSet(port),
           (Pending(sreq') /\ sreq'.frame.op = "DATA")
              => Pending(sreq) /\ sreq'.frame = sreq.frame,
           \A c \in Clients :
              pkt'[c].dp_Type \in {"WRITE", "END"} => fh[c] # 0
    PROVE  TransferOK'
<1>1. FileInv /\ FilesOK /\ OwedOK /\ OpenOK /\ FrameOK /\ undef = {}
  BY DEF Before, TransferOK
<1>2. OnlyChanged(0) /\ 0 \notin DOMAIN g_transfers
  BY <1>1 DEF OnlyChanged, FileInv, TypeOK
<1>3. FilesOK'
  BY <1>1, <1>2, SameMarks, FilesKept DEF MarkKept
<1>4. OpenOK'
  BY <1>1, <1>2, OpenKept DEF FileInv, TypeOK
<1>5. FrameOK'
  BY <1>1, <1>2, FrameKept
<1>6. OwedOK'
  BY <1>1 DEF OwedOK
<1> QED
  BY <1>3, <1>4, <1>5, <1>6 DEF TransferOK

\* A packet a client has sent before is what it was.
LEMMA PacketsOpen ==
    ASSUME Before
    PROVE  \A c \in Clients : pkt[c].dp_Type \in {"WRITE", "END"} => fh[c] # 0
BY DEF Before, TransferOK, OpenOK

\* Returning a packet leaves the others.
LEMMA ReturnedOpen ==
    ASSUME Before, NEW c \in Clients, Return(c)
    PROVE  \A d \in Clients : /\ pkt'[d].dp_Type \in {"WRITE", "END"} => fh[d] # 0
                              /\ pkt'[d].dp_Type \in {"WRITE", "END"} => d # c
<1>1. pkt \in [Clients -> [dp_Type : PacketTypes \cup {"none"},
                           len : WriteLens \cup {0}]]
  BY DEF Before, FileInv, TypeOK
<1>2. \A d \in Clients : pkt'[d] = IF d = c THEN NoPacket ELSE pkt[d]
  BY <1>1 DEF Return
<1> QED
  BY <1>2, PacketsOpen DEF NoPacket

\* Clients, devices and the end of entry().
LEMMA EnvironmentKeepsTransfers ==
    ASSUME Before, Device \/ Client \/ Exit
    PROVE  TransferOK'
<1>1. FileInv /\ MsgInv /\ TypeOK
  BY DEF Before, FileInv
<1>2. ASSUME NEW failed, NEW ans, SerialReplies(failed, ans)
      PROVE  TransferOK'
  <2>1. "out" \in ToSet(port') <=> "out" \in ToSet(port)
    BY <1>1, <1>2, OthersMessage DEF SerialReplies, Msgs
  <2>2. sreq'.frame = sreq.frame /\ Pending(sreq)
    BY <1>1, <1>2 DEF SerialReplies, TypeOK, Requests, Pending
  <2> QED
    BY <1>2, <2>1, <2>2, QuietKeepsTransfers, PacketsOpen
    DEF SerialReplies, clientVars
<1>3. CASE TimerFires
  <2>1. "out" \in ToSet(port') <=> "out" \in ToSet(port)
    BY <1>1, <1>3, OthersMessage DEF TimerFires, Msgs
  <2> QED
    BY <1>3, <2>1, QuietKeepsTransfers, PacketsOpen DEF TimerFires, clientVars
<1>4. ASSUME NEW c \in Clients, NEW type, NEW len, SendPkt(c, type, len),
             type \in {"WRITE", "END"} => fh[c] # 0
      PROVE  TransferOK'
  <2>1. "out" \in ToSet(port') <=> "out" \in ToSet(port)
    BY <1>1, <1>4, OthersMessage, ClientsAssumption DEF SendPkt, Msgs
  <2>2. \A d \in Clients :
           pkt'[d] = IF d = c THEN [dp_Type |-> type, len |-> len] ELSE pkt[d]
    BY <1>1, <1>4 DEF SendPkt, TypeOK
  <2>3. \A d \in Clients : pkt'[d].dp_Type \in {"WRITE", "END"} => fh[d] # 0
    BY <1>4, <2>2, PacketsOpen
  <2> QED
    BY <1>4, <2>1, <2>3, QuietKeepsTransfers DEF SendPkt, ioVars
<1>5. CASE Exit
  BY <1>5, QuietKeepsTransfers, PacketsOpen DEF Exit, clientVars, ioVars
<1>6. CASE Device
  BY <1>2, <1>3, <1>6 DEF Device, WriteDone, ReadDone, SerialError
<1>7. CASE Client
  BY <1>4, <1>7 DEF Client, ClientOpen, ClientWrite, ClientClose,
                    ClientUnmount, ClientOther
<1> QED
  BY <1>5, <1>6, <1>7

\* ACTION_DIE and the actions that leave the files alone.
LEMMA DieKeepsTransfers ==
    ASSUME Before, NEW c \in Clients, Die(c) \/ Other(c)
    PROVE  TransferOK'
<1>1. MsgInv /\ undef = {} /\ GetMsg(c) /\ Return(c)
  BY DEF Before, Die, Other
<1>2. \A d \in Clients : pkt'[d].dp_Type \in {"WRITE", "END"} => fh[d] # 0
  BY <1>1, ReturnedOpen
<1>3. CASE Die(c)
  <2>1. ~Pending(sreq')
    BY <1>3 DEF Die, Pending, IdleReq
  <2> QED
    BY <1>1, <1>2, <1>3, <2>1, ClientPacketTaken, QuietKeepsTransfers
    DEF Die, SendNothing
<1>4. CASE Other(c)
  BY <1>1, <1>2, <1>4, ClientPacketTaken, QuietKeepsTransfers DEF Other, ioVars
<1> QED
  BY <1>3, <1>4

\* do_find_output() adds an empty file nobody else has open.
LEMMA FindOutputKeepsTransfers ==
    ASSUME Before, NEW c \in Clients, FindOutput(c)
    PROVE  TransferOK'
<1>1. FileInv /\ MsgInv /\ TypeOK /\ undef = {} /\ GetMsg(c) /\ Return(c)
  BY DEF Before, FindOutput, FileInv
<1>2. FilesOK /\ OpenOK /\ FrameOK
  BY DEF Before, TransferOK
<1>3. "out" \in ToSet(port') <=> "out" \in ToSet(port)
  BY <1>1, ClientPacketTaken DEF FindOutput
<1>4. \A d \in Clients : pkt'[d].dp_Type \in {"WRITE", "END"} => fh[d] # 0 /\ d # c
  BY <1>1, ReturnedOpen
<1>5. UNCHANGED <<outpkt, owed, undef, sreq>>
  BY DEF FindOutput, ioVars
<1>6. CASE UNCHANGED <<g_transfers, fh>>
  BY <1>3, <1>4, <1>5, <1>6, QuietKeepsTransfers
<1>7. CASE /\ g_transfers' = Append(g_transfers, NewTransfer)
           /\ fh' = [fh EXCEPT ![c] = Len(g_transfers) + 1]
  <2>0. PICK n : n = Len(g_transfers)
    OBVIOUS
  <2>1. /\ g_transfers \in Seq(Transfers) /\ n \in Nat
        /\ DOMAIN g_transfers = 1 .. n /\ fh \in [Clients -> 0 .. n]
    BY <1>1, <2>0 DEF TypeOK, FileRef
  <2>2. /\ DOMAIN g_transfers' = 1 .. n + 1
        /\ \A g \in 1 .. n : g_transfers'[g] = g_transfers[g]
        /\ g_transfers'[n + 1] = NewTransfer
    BY <1>7, <2>0, <2>1
  <2>3. \A d \in Clients : fh'[d] = IF d = c THEN n + 1 ELSE fh[d]
    BY <1>7, <2>0, <2>1
  <2>4. outpkt.dp_Arg1 \in 0 .. n /\ sreq.frame.file \in 0 .. n
        /\ \A g : Mark(g)' = Mark(g)
    BY <1>1, <1>3, <1>5, <2>0, SameMarks DEF TypeOK, FileRef, Requests, Frames
  <2>5. FilesOK'
    <3>1. Mark(n + 1)' = "none"
      BY <1>5, <2>1, <2>4 DEF Mark
    <3>2. RecordOK(NewTransfer, "none")
      <4>1. Chain(NewTransfer, "none")
        BY DEF NewTransfer, Chain, RestOK
      <4> QED
        BY <4>1, SizesAssumption DEF RecordOK, NewTransfer, BufferPackets
    <3>3. \A g \in 1 .. n : RecordOK(g_transfers'[g], Mark(g)')
      BY <1>2, <2>1, <2>2, <2>4 DEF FilesOK
    <3>4. RecordOK(g_transfers'[n + 1], Mark(n + 1)')
      BY <2>2, <3>1, <3>2
    <3>5. \A g \in 1 .. n + 1 : g \in 1 .. n \/ g = n + 1
      BY <2>1
    <3> QED
      BY <2>2, <3>3, <3>4, <3>5 DEF FilesOK
  <2>6. OpenOK'
    <3>1. ASSUME NEW d \in Clients, fh'[d] # 0
          PROVE  /\ g_transfers'[fh'[d]].ftx_state \in {"S_QUEUED", "S_ERROR"}
                 /\ g_transfers'[fh'[d]].ftx_blknum = 0
      <4>1. CASE d = c
        BY <2>2, <2>3, <4>1 DEF NewTransfer
      <4>2. CASE d # c
        <5>1. fh'[d] = fh[d] /\ fh[d] \in 1 .. n
          BY <2>1, <2>3, <3>1, <4>2
        <5> QED
          BY <1>2, <2>2, <3>1, <5>1 DEF OpenOK
      <4> QED
        BY <4>1, <4>2
    <3>2. \A d \in Clients : pkt'[d].dp_Type \in {"WRITE", "END"} => fh'[d] # 0
      BY <1>4, <2>3
    <3>3. ASSUME NEW d \in Clients, NEW e \in Clients, fh'[d] = fh'[e],
                 fh'[d] # 0, d # e
          PROVE  FALSE
      <4>1. fh[d] \in 0 .. n /\ fh[e] \in 0 .. n /\ n + 1 \notin 0 .. n
        BY <2>1
      <4> QED
        BY <1>2, <2>3, <3>3, <4>1 DEF OpenOK
    <3> QED
      BY <3>1, <3>2, <3>3 DEF OpenOK
  <2>7. FrameOK'
    <3>1. /\ DOMAIN g_transfers \subseteq DOMAIN g_transfers'
          /\ \A g \in DOMAIN g_transfers : g_transfers'[g] = g_transfers[g]
      BY <2>1, <2>2
    <3> QED
      BY <1>1, <1>2, <1>5, <3>1 DEF FrameOK, DataInOrder
  <2>8. OwedOK'
    BY <1>1, <1>5, NothingOwed DEF GetMsg
  <2> QED
    BY <2>5, <2>6, <2>7, <2>8 DEF TransferOK
<1> QED
  BY <1>6, <1>7 DEF FindOutput

\* Assigning a record.
LEMMA RecordChanged ==
    ASSUME NEW f \in DOMAIN g_transfers, NEW r, g_transfers \in Seq(Transfers),
           g_transfers' = [g_transfers EXCEPT ![f] = r]
    PROVE  OnlyChanged(f) /\ g_transfers'[f] = r
BY DEF OnlyChanged

\* A client's file is there and open, and no block of it is to be sent.
LEMMA ClientsFile ==
    ASSUME Before, NEW c \in Clients, pkt[c].dp_Type \in {"WRITE", "END"}
    PROVE  LET t == g_transfers[fh[c]] IN
           /\ fh[c] # 0 /\ fh[c] \in DOMAIN g_transfers /\ t \in Transfers
           /\ t.ftx_state \in {"S_QUEUED", "S_ERROR"} /\ t.ftx_blknum = 0
           /\ RecordOK(t, Mark(fh[c])) /\ Mark(fh[c]) \in Marks \ BufferPackets
<1> DEFINE t == g_transfers[fh[c]]
<1>1. /\ g_transfers \in Seq(Transfers) /\ fh[c] \in FileRef
      /\ outpkt.dp_Type \in Marks
  BY DEF Before, FileInv, TypeOK, Marks
<1>2. fh[c] # 0
  BY PacketsOpen
<1>3. fh[c] \in DOMAIN g_transfers
  BY <1>1, <1>2 DEF FileRef
<1>4. t.ftx_state \in {"S_QUEUED", "S_ERROR"} /\ t.ftx_blknum = 0
  BY <1>2 DEF Before, TransferOK, OpenOK
<1>5. RecordOK(t, Mark(fh[c]))
  BY <1>3 DEF Before, TransferOK, FilesOK
<1>6. Mark(fh[c]) \in Marks
  BY <1>1 DEF Mark, Marks
<1>7. Mark(fh[c]) \notin BufferPackets
  BY <1>4, <1>5 DEF RecordOK
<1> QED
  BY <1>1, <1>2, <1>3, <1>4, <1>5, <1>6, <1>7

\* do_write() queues a buffer or fails the file of the client.
LEMMA WriteKeepsTransfers ==
    ASSUME Before, WriteOK, FileInv', NEW c \in Clients, Write(c)
    PROVE  TransferOK'
<1>1. FileInv /\ MsgInv /\ TypeOK /\ undef = {} /\ GetMsg(c) /\ Return(c)
  BY DEF Before, Write, FileInv
<1>2. FilesOK /\ OpenOK /\ FrameOK
  BY DEF Before, TransferOK
<1>3. /\ \A g : Mark(g)' = Mark(g)
      /\ UNCHANGED <<fh, sreq>>
  BY <1>1, ClientPacketTaken, SameMarks DEF Write, ioVars
<1>4. \A d \in Clients : pkt'[d].dp_Type \in {"WRITE", "END"} => fh[d] # 0
  BY <1>1, ReturnedOpen
<1>5. PICK f : f = fh[c]
  OBVIOUS
<1> DEFINE t == g_transfers[f]
<1>6. /\ f \in DOMAIN g_transfers /\ t \in Transfers /\ t.ftx_blknum = 0
      /\ t.ftx_state \in {"S_QUEUED", "S_ERROR"}
      /\ RecordOK(t, Mark(f)) /\ Mark(f) \in Marks \ BufferPackets
  BY <1>5, ClientsFile DEF Write
<1>7. g_transfers \in Seq(Transfers)
  BY <1>1 DEF TypeOK
<1>8. CASE QueueBuffer(f, pkt[c].len) /\ UNCHANGED owed
  <2> DEFINE len == pkt[c].len
             b == NewBuffer(t.accepted, len)
             r == [t EXCEPT !.ftx_buffers = Append(@, b), !.accepted = @ + len]
  <2>1. g_transfers' = [g_transfers EXCEPT ![f] = r]
    BY <1>8 DEF QueueBuffer
  <2>2. len \in WriteLens /\ len \in Nat
    BY SizesAssumption DEF WriteOK, Write
  <2>3. /\ r.ftx_state = t.ftx_state /\ r.ftx_blknum = t.ftx_blknum
        /\ r.ftx_error = t.ftx_error /\ r.acked = t.acked
        /\ r.accepted = t.accepted + len
        /\ r.ftx_buffers = Append(t.ftx_buffers, b)
    BY <1>6 DEF Transfers
  <2> HIDE DEF r, b, len
  <2>4. OnlyChanged(f) /\ g_transfers'[f] = r
    BY <1>6, <1>7, <2>1, RecordChanged
  <2>5. r \in Transfers
    BY <1>6, <2>4 DEF OnlyChanged, FileInv, TypeOK
  <2>6. t.accepted \in Nat /\ r.accepted \in Nat /\ r.accepted >= t.accepted
    BY <1>6, <2>2, <2>3 DEF Transfers
  <2>7. RecordOK(r, Mark(f))
    <3>1. Mark(f) \in Marks \ Started
      BY <1>6 DEF Started, BufferPackets
    <3>2. Chain(t, Mark(f)) => Chain(r, Mark(f))
      BY <1>6, <2>2, <2>3, <2>5, <3>1, QueuedChain DEF b
    <3> HIDE DEF t
    <3> QED
      BY <1>6, <2>3, <3>2 DEF RecordOK
  <2>8. FilesOK'
    BY <1>2, <1>3, <2>4, <2>7, FilesKept DEF MarkKept
  <2>9. OpenOK'
    BY <1>1, <1>2, <1>3, <1>4, <1>6, <2>3, <2>4, OpenKept DEF TypeOK
  <2>10. FrameOK'
    BY <1>1, <1>2, <1>3, <2>3, <2>4, <2>6, FrameKept
  <2>11. OwedOK'
    BY <1>1, <1>8, NothingOwed DEF GetMsg
  <2> QED
    BY <2>8, <2>9, <2>10, <2>11 DEF TransferOK
<1>9. CASE /\ g_transfers' = Failed(g_transfers, f, "NO_FREE_STORE")
           /\ owed' = [dp_Type |-> "FILE_FAILED", dp_Arg1 |-> f]
  <2> DEFINE r == [t EXCEPT !.ftx_state = "S_ERROR",
                            !.ftx_error = "NO_FREE_STORE"]
  <2>1. g_transfers' = [g_transfers EXCEPT ![f] = r]
    BY <1>9 DEF Failed
  <2>2. /\ r.ftx_state = "S_ERROR" /\ r.ftx_error = "NO_FREE_STORE"
        /\ r.ftx_blknum = t.ftx_blknum
    BY <1>6 DEF Transfers
  <2> HIDE DEF r
  <2>3. OnlyChanged(f) /\ g_transfers'[f] = r
    BY <1>6, <1>7, <2>1, RecordChanged
  <2>4. RecordOK(r, Mark(f))
    BY <1>6, <2>2, FailedRecordOK
  <2>5. FilesOK'
    BY <1>2, <1>3, <2>3, <2>4, FilesKept DEF MarkKept
  <2>6. OpenOK'
    BY <1>1, <1>2, <1>3, <1>4, <2>2, <2>3, OpenKept DEF TypeOK
  <2>7. FrameOK'
    BY <1>1, <1>2, <1>3, <2>2, <2>3, FrameKept
  <2>8. OwedOK'
    BY <1>9, <2>2, <2>3 DEF OwedOK
  <2> QED
    BY <2>5, <2>6, <2>7, <2>8 DEF TransferOK
<1> QED
  BY <1>5, <1>8, <1>9 DEF Write

\* ACTION_END closes the client's file.
LEMMA EndKeepsTransfers ==
    ASSUME Before, NEW c \in Clients, End(c)
    PROVE  TransferOK'
<1>1. FileInv /\ MsgInv /\ TypeOK /\ undef = {} /\ GetMsg(c) /\ Return(c)
  BY DEF Before, End, FileInv
<1>2. FilesOK /\ OpenOK /\ FrameOK
  BY DEF Before, TransferOK
<1>3. /\ \A g : Mark(g)' = Mark(g)
      /\ sreq' = sreq
  BY <1>1, ClientPacketTaken, SameMarks DEF End, ioVars
<1>4. \A d \in Clients : pkt'[d].dp_Type \in {"WRITE", "END"} => fh[d] # 0 /\ d # c
  BY <1>1, ReturnedOpen
<1>5. PICK f : f = fh[c]
  OBVIOUS
<1> DEFINE t == g_transfers[f]
           r == [t EXCEPT !.ftx_state = "S_READY"]
<1>6. /\ f # 0 /\ f \in DOMAIN g_transfers /\ t \in Transfers
      /\ t.ftx_state \in {"S_QUEUED", "S_ERROR"} /\ t.ftx_blknum = 0
      /\ RecordOK(t, Mark(f)) /\ Mark(f) \in Marks \ BufferPackets
  BY <1>5, ClientsFile DEF End
<1>7. g_transfers \in Seq(Transfers) /\ fh \in [Clients -> FileRef]
  BY <1>1 DEF TypeOK
<1>8. g_transfers' = [g_transfers EXCEPT ![f] = r]
  BY <1>5 DEF End
<1>9. /\ r.ftx_state = "S_READY" /\ r.ftx_blknum = t.ftx_blknum
      /\ r.ftx_error = t.ftx_error /\ r.acked = t.acked
      /\ r.accepted = t.accepted /\ r.ftx_buffers = t.ftx_buffers
      /\ t.accepted \in Nat /\ t.accepted >= t.accepted
  BY <1>6 DEF Transfers
<1> HIDE DEF r, t
<1>10. OnlyChanged(f) /\ g_transfers'[f] = r
  BY <1>6, <1>7, <1>8, RecordChanged
<1>11. RecordOK(r, Mark(f))
  <2>1. Chain(t, Mark(f)) => Chain(r, Mark(f))
    BY <1>9, SameChain
  <2> QED
    BY <1>6, <1>9, <2>1 DEF RecordOK
<1>12. FilesOK'
  BY <1>2, <1>3, <1>10, <1>11, FilesKept DEF MarkKept
<1>13. \A d \in Clients : fh'[d] = IF d = c THEN 0 ELSE fh[d]
  BY <1>7 DEF End
<1>14. OpenOK'
  <2>1. fh' \in [Clients -> FileRef]
    <3>1. 0 \in FileRef
      BY <1>7 DEF FileRef
    <3> QED
      BY <1>7, <3>1 DEF End
  <2>2. \A d \in Clients : fh'[d] # f
    BY <1>2, <1>5, <1>6, <1>13 DEF OpenOK
  <2> QED
    BY <1>1, <1>2, <1>4, <1>10, <1>13, <2>1, <2>2, OpenKept
<1>15. FrameOK'
  BY <1>1, <1>2, <1>3, <1>9, <1>10, FrameKept DEF t
<1>16. OwedOK'
  BY DEF End, OwedOK
<1> QED
  BY <1>12, <1>14, <1>15, <1>16 DEF TransferOK

\* The packet sent after the reply.
LEMMA SendOwedKeepsTransfers ==
    ASSUME Before, undef' = {}, SendOwed
    PROVE  TransferOK'
<1>1. FileInv /\ MsgInv /\ TypeOK /\ undef = {}
  BY DEF Before, FileInv
<1>2. FilesOK /\ OwedOK /\ OpenOK /\ FrameOK
  BY DEF Before, TransferOK
<1>3. UNCHANGED <<g_transfers, fh, pkt, sreq>>
  BY DEF SendOwed, clientVars, ioVars
<1>4. /\ \A g : Mark(g) = "none"
      /\ \A g : Mark(g)' = IF g = owed.dp_Arg1 THEN owed.dp_Type ELSE "none"
  <2>1. port \in Seq(Msgs)
    BY <1>1 DEF MsgInv, MsgTypes
  <2>2. "out" \notin ToSet(port)
    BY DEF SendOwed, Requeued
  <2>3. SendInternal(port, owed.dp_Type, owed.dp_Arg1)
    BY DEF SendOwed
  <2>4. \A g : Mark(g)' = IF g = owed.dp_Arg1 THEN owed.dp_Type ELSE "none"
    BY <2>1, <2>3, NewMarks
  <2> QED
    BY <2>2, <2>4, NoMarks
<1>5. ASSUME NEW g \in DOMAIN g_transfers
      PROVE  RecordOK(g_transfers[g], Mark(g)')
  <2>1. RecordOK(g_transfers[g], "none")
    BY <1>2, <1>4 DEF FilesOK
  <2>2. CASE g # owed.dp_Arg1 \/ owed.dp_Type = "none"
    BY <1>4, <2>1, <2>2
  <2>3. CASE g = owed.dp_Arg1 /\ owed.dp_Type = "SEND_NEXT_FILE"
    BY <1>4, <2>1, <2>3, UnmarkedRecordOK DEF Started
  <2>4. CASE g = owed.dp_Arg1 /\ owed.dp_Type = "FILE_FAILED"
    <3>1. g_transfers[g].ftx_error # "none" /\ Mark(g)' = "FILE_FAILED"
      BY <1>2, <1>4, <2>4 DEF OwedOK
    <3> QED
      BY <2>1, <3>1 DEF RecordOK, BufferPackets
  <2> QED
    BY <1>2, <2>2, <2>3, <2>4 DEF OwedOK
<1>6. FilesOK'
  BY <1>3, <1>5 DEF FilesOK
<1>7. OpenOK' /\ FrameOK'
  BY <1>1, <1>2, <1>3 DEF OpenOK, FrameOK, DataInOrder
<1>8. OwedOK'
  BY NothingOwed DEF SendOwed
<1> QED
  BY <1>6, <1>7, <1>8 DEF TransferOK

------------------------------------------------------------------------------
(* Internal actions *)

\* The loop takes outpkt: it is about one file only.
LEMMA OutTaken ==
    ASSUME Before, GetMsg("out")
    PROVE  /\ Tail(port) \in Seq(Msgs) /\ "out" \notin ToSet(Tail(port))
           /\ owed = NoInternal
           /\ \A g : Mark(g) = IF g = outpkt.dp_Arg1 THEN outpkt.dp_Type
                                                     ELSE "none"
<1>1. "out" \in Msgs /\ MsgInv /\ undef = {}
  BY DEF Before, Msgs
<1>2. /\ Tail(port) \in Seq(Msgs) /\ "out" \in ToSet(port)
      /\ ToSet(Tail(port)) = ToSet(port) \ {"out"}
  BY <1>1, Taken
<1> QED
  BY <1>2 DEF GetMsg, Mark

\* A packet for file f is sent, or sending it fails.  Its record is r by then.
LEMMA TransmitKeepsTransfers ==
    ASSUME Before, undef' = {}, GetMsg("out"), NEW f \in DOMAIN g_transfers,
           NEW r \in Transfers, NEW frame, NEW busy,
           NEW state \in {"S_WRQ_SENT", "S_DATA_SENT"},
           Transmit([g_transfers EXCEPT ![f] = r], f, frame, state, busy),
           UNCHANGED <<pkt, fh, owed>>,
           outpkt.dp_Arg1 = f \/ outpkt.dp_Type \notin Started,
           \A c \in Clients : fh[c] # f,
           state = "S_WRQ_SENT" => r.ftx_blknum = 0,
           r.ftx_error = "none" => Chain(r, "none"),
           frame.op = "DATA" =>
              /\ frame.file = f
              /\ r.ftx_error = "none" =>
                    /\ frame.off = r.acked /\ frame.len >= 0
                    /\ frame.off + frame.len <= r.accepted
    PROVE  TransferOK'
<1> DEFINE t == [g_transfers EXCEPT ![f] = r]
<1>1. FileInv /\ MsgInv /\ TypeOK /\ undef = {} /\ g_transfers \in Seq(Transfers)
  BY DEF Before, FileInv, TypeOK
<1>2. FilesOK /\ OpenOK /\ FrameOK
  BY DEF Before, TransferOK
<1>3. /\ Tail(port) \in Seq(Msgs) /\ "out" \notin ToSet(Tail(port))
      /\ \A g \in DOMAIN g_transfers \ {f} : Mark(g) \notin Started
      /\ OwedOK'
  BY OutTaken, NothingOwed DEF Started
<1>4. fh \in [Clients -> FileRef]
  BY <1>1 DEF TypeOK
<1>5. ASSUME NEW q, g_transfers' = [g_transfers EXCEPT ![f] = q]
      PROVE  OnlyChanged(f) /\ g_transfers'[f] = q /\ OpenOK'
  <2>1. OnlyChanged(f) /\ g_transfers'[f] = q
    BY <1>1, <1>5, RecordChanged
  <2> QED
    BY <1>1, <1>2, <1>4, <2>1, OpenKept, PacketsOpen
<1>6. CASE /\ sreq' = WriteReq(frame)
           /\ g_transfers' = [t EXCEPT ![f].ftx_state = state]
           /\ SendNothing(Tail(port))
  <2> DEFINE q == [r EXCEPT !.ftx_state = state]
  <2>1. /\ q.ftx_state = state /\ q.ftx_blknum = r.ftx_blknum
        /\ q.ftx_error = r.ftx_error /\ q.acked = r.acked
        /\ q.accepted = r.accepted /\ q.ftx_buffers = r.ftx_buffers
    BY DEF Transfers
  <2>2. g_transfers' = [g_transfers EXCEPT ![f] = q]
    BY <1>1, <1>6
  <2> HIDE DEF q
  <2>3. OnlyChanged(f) /\ g_transfers'[f] = q /\ OpenOK'
    BY <1>5, <2>2
  <2>4. \A g : Mark(g)' = "none"
    BY <1>3, <1>6, NoMarksAfter DEF SendNothing
  <2>5. RecordOK(q, "none")
    <3>1. Chain(r, "none") => Chain(q, "none")
      BY <2>1, SameChain
    <3> QED
      BY <2>1, <3>1 DEF RecordOK, BufferPackets
  <2>6. FilesOK'
    BY <1>2, <1>3, <2>3, <2>4, <2>5, FilesKept DEF MarkKept
  <2>7. sreq'.frame = frame
    BY <1>6 DEF WriteReq, IdleReq
  <2>8. DOMAIN g_transfers' = DOMAIN g_transfers
    BY <2>3 DEF OnlyChanged
  <2>9. FrameOK'
    BY <2>1, <2>3, <2>7, <2>8 DEF FrameOK, DataInOrder
  <2> QED
    BY <1>3, <2>3, <2>6, <2>9 DEF TransferOK
<1>7. CASE /\ FailFile(t, f, "NETIO", Tail(port))
           /\ UNCHANGED <<sreq, treq>>
  <2> DEFINE q == [r EXCEPT !.ftx_state = "S_ERROR", !.ftx_error = "NETIO"]
  <2>1. q.ftx_state = "S_ERROR" /\ q.ftx_error = "NETIO"
    BY DEF Transfers
  <2>2. g_transfers' = [g_transfers EXCEPT ![f] = q]
    BY <1>1, <1>7 DEF FailFile, Failed
  <2> HIDE DEF q
  <2>3. OnlyChanged(f) /\ g_transfers'[f] = q /\ OpenOK'
    BY <1>5, <2>2
  <2>4. \A g : Mark(g)' = IF g = f THEN "FILE_FAILED" ELSE "none"
    BY <1>3, <1>7, NewMarks DEF FailFile
  <2>5. RecordOK(q, "FILE_FAILED")
    BY <2>1, FailedRecordOK DEF BufferPackets
  <2>6. FilesOK'
    BY <1>2, <1>3, <2>3, <2>4, <2>5, FilesKept DEF MarkKept
  <2>7. FrameOK'
    BY <1>1, <1>2, <1>7, <2>1, <2>3, FrameKept
  <2> QED
    BY <1>3, <2>3, <2>6, <2>7 DEF TransferOK
<1> QED
  BY <1>6, <1>7 DEF Transmit, StartIO

LEMMA SendNextFileKeepsTransfers ==
    ASSUME Before, undef' = {}, SendNextFile
    PROVE  TransferOK'
<1>1. FileInv /\ undef = {} /\ g_transfers \in Seq(Transfers)
  BY DEF Before, FileInv, TypeOK
<1>2. FilesOK /\ OwedOK /\ OpenOK /\ FrameOK
  BY DEF Before, TransferOK
<1>3. /\ GetMsg("out") /\ outpkt.dp_Type = "SEND_NEXT_FILE"
      /\ UNCHANGED <<pkt, fh, owed>>
  BY DEF SendNextFile, Internal, clientVars
<1>4. \A g \in DOMAIN g_transfers : Mark(g) \notin Started
  BY <1>3, OutTaken DEF Started
<1>5. CASE SendNothing(Tail(port)) /\ UNCHANGED <<g_transfers, sreq>>
  <2>1. \A g : Mark(g)' = "none"
    BY <1>3, <1>5, OutTaken, NoMarksAfter DEF SendNothing
  <2>2. OnlyChanged(0) /\ 0 \notin DOMAIN g_transfers
    BY <1>1, <1>5 DEF OnlyChanged
  <2>3. FilesOK'
    BY <1>2, <1>4, <2>1, <2>2, FilesKept DEF MarkKept
  <2>4. OwedOK' /\ OpenOK' /\ FrameOK'
    BY <1>1, <1>2, <1>3, <1>5 DEF OwedOK, OpenOK, FrameOK, DataInOrder
  <2> QED
    BY <2>3, <2>4 DEF TransferOK
<1>6. ASSUME NEW f \in DOMAIN g_transfers, FirstReady(f),
             Transmit(g_transfers, f, WrqFrame(f), "S_WRQ_SENT", TRUE)
      PROVE  TransferOK'
  <2> DEFINE r == g_transfers[f]
  <2>1. g_transfers = [g_transfers EXCEPT ![f] = r] /\ r \in Transfers
    BY <1>1
  <2>2. r.ftx_state = "S_READY"
    BY <1>6 DEF FirstReady
  <2>3. RecordOK(r, "none")
    BY <1>2, <1>4, UnmarkedRecordOK DEF FilesOK
  <2>4. \A c \in Clients : fh[c] # f
    <3>1. f # 0
      BY <1>1
    <3> QED
      BY <1>2, <2>2, <3>1 DEF OpenOK
  <2>5. r.ftx_blknum = 0 /\ (r.ftx_error = "none" => Chain(r, "none"))
    BY <2>2, <2>3 DEF RecordOK
  <2>6. WrqFrame(f).op # "DATA" /\ outpkt.dp_Type \notin Started
    BY <1>3 DEF WrqFrame, Started
  <2>7. Transmit([g_transfers EXCEPT ![f] = r], f, WrqFrame(f), "S_WRQ_SENT",
                 TRUE)
    BY <1>6, <2>1
  <2> HIDE DEF r
  <2> QED
    BY <1>3, <2>1, <2>4, <2>5, <2>6, <2>7, TransmitKeepsTransfers
<1> QED
  BY <1>5, <1>6 DEF SendNextFile

\* The file of a packet about buffers is being sent.
LEMMA BufferPacketsFile ==
    ASSUME Before, GetMsg("out"), outpkt.dp_Type \in BufferPackets
    PROVE  LET f == outpkt.dp_Arg1
               t == g_transfers[f] IN
           /\ f \in DOMAIN g_transfers /\ t \in Transfers
           /\ RecordOK(t, outpkt.dp_Type)
           /\ t.ftx_state \in {"S_WRQ_SENT", "S_DATA_SENT"}
           /\ t.ftx_blknum < BLK_MODULUS
           /\ outpkt.dp_Type # "SEND_NEXT_BUFFER" => t.ftx_buffers # <<>>
           /\ \A c \in Clients : fh[c] # f
           /\ ~Pending(sreq)
<1>1. FileInv /\ undef = {} /\ PacketsOK /\ MsgInv /\ g_transfers \in Seq(Transfers)
  BY DEF Before, FileInv, TypeOK
<1>2. FilesOK /\ OpenOK
  BY DEF Before, TransferOK
<1>3. PICK f : f = outpkt.dp_Arg1
  OBVIOUS
<1> DEFINE t == g_transfers[f]
<1>4. "out" \in ToSet(port)
  BY <1>1, Taken DEF Msgs
<1>5. /\ f \in DOMAIN g_transfers /\ ~Pending(sreq)
      /\ outpkt.dp_Type # "SEND_NEXT_BUFFER" => t.ftx_buffers # <<>>
  BY <1>1, <1>3, <1>4 DEF PacketsOK, BufferPacketOK, Out
<1>6. RecordOK(t, outpkt.dp_Type)
  <2>1. Mark(f) = outpkt.dp_Type
    BY <1>3, <1>4 DEF Mark
  <2> QED
    BY <1>2, <1>5, <2>1 DEF FilesOK
<1>7. t.ftx_state \in {"S_WRQ_SENT", "S_DATA_SENT"} /\ t.ftx_blknum < BLK_MODULUS
  BY <1>6 DEF RecordOK
<1>8. \A c \in Clients : fh[c] # f
  <2>1. f # 0
    BY <1>1, <1>5
  <2> QED
    BY <1>2, <1>7, <2>1 DEF OpenOK
<1>9. t \in Transfers
  BY <1>1, <1>5
<1> QED
  BY <1>3, <1>5, <1>6, <1>7, <1>8, <1>9

\* The block cut from record r is what its DATA packet says.
LEMMA DataFrameOK ==
    ASSUME NEW f, NEW r \in Transfers, r.ftx_buffers # <<>>,
           r.ftx_error = "none" => Chain(r, "none")
    PROVE  LET frame == DataFrame(f, r.ftx_blknum, Head(r.ftx_buffers)) IN
           /\ frame.file = f
           /\ r.ftx_error = "none" =>
                 /\ frame.off = r.acked /\ frame.len >= 0
                 /\ frame.off + frame.len <= r.accepted
<1> DEFINE frame == DataFrame(f, r.ftx_blknum, Head(r.ftx_buffers))
           b == Head(r.ftx_buffers)
<1>1. /\ frame.file = f /\ frame.off = b.fb_curpos
      /\ frame.len = Chunk(b.fb_nbytes_to_send)
  BY DEF DataFrame
<1>2. ASSUME r.ftx_error = "none"
      PROVE  /\ b.fb_curpos = r.acked
             /\ Chunk(b.fb_nbytes_to_send) \in 0 .. TFTP_MAX_DATA_SIZE
             /\ r.acked + Chunk(b.fb_nbytes_to_send) <= r.accepted
  BY <1>2, BlockInOrder DEF Marks, Started
<1>3. r.ftx_error = "none" => Chunk(b.fb_nbytes_to_send) >= 0
  BY <1>2, SizesAssumption
<1> HIDE DEF b, frame
<1> QED
  BY <1>1, <1>2, <1>3 DEF frame, b

\* What follows when the block of record r is sent to file f.
LEMMA SendBlockKeepsTransfers ==
    ASSUME Before, undef' = {}, GetMsg("out"),
           NEW f \in DOMAIN g_transfers, f = outpkt.dp_Arg1,
           NEW r \in Transfers, r.ftx_buffers # <<>>,
           SendBlock([g_transfers EXCEPT ![f] = r], f),
           UNCHANGED <<pkt, fh, owed>>, \A c \in Clients : fh[c] # f,
           r.ftx_error = "none" => Chain(r, "none")
    PROVE  TransferOK'
<1> DEFINE t == [g_transfers EXCEPT ![f] = r]
           frame == DataFrame(f, r.ftx_blknum, Head(r.ftx_buffers))
<1>1. t[f] = r
  OBVIOUS
<1>2. Transmit(t, f, frame, "S_DATA_SENT", g_busy)
  BY <1>1 DEF SendBlock
<1>3. /\ frame.file = f
      /\ r.ftx_error = "none" =>
            /\ frame.off = r.acked /\ frame.len >= 0
            /\ frame.off + frame.len <= r.accepted
  BY DataFrameOK
<1> HIDE DEF frame
<1> QED
  BY <1>2, <1>3, TransmitKeepsTransfers

LEMMA SendNextBufferKeepsTransfers ==
    ASSUME Before, undef' = {}, SendNextBuffer
    PROVE  TransferOK'
<1>1. FileInv /\ undef = {} /\ g_transfers \in Seq(Transfers)
  BY DEF Before, FileInv, TypeOK
<1>2. FilesOK /\ OpenOK /\ FrameOK
  BY DEF Before, TransferOK
<1>3. /\ GetMsg("out") /\ outpkt.dp_Type = "SEND_NEXT_BUFFER"
      /\ UNCHANGED <<pkt, fh, owed>>
  BY DEF SendNextBuffer, Internal, clientVars
<1>4. PICK f : f = outpkt.dp_Arg1
  OBVIOUS
<1> DEFINE t == g_transfers[f]
<1>5. /\ f \in DOMAIN g_transfers /\ t \in Transfers
      /\ RecordOK(t, "SEND_NEXT_BUFFER") /\ t.ftx_blknum < BLK_MODULUS
      /\ \A c \in Clients : fh[c] # f
  BY <1>3, <1>4, BufferPacketsFile DEF BufferPackets
<1>6. CASE /\ t.ftx_buffers # <<>>
           /\ SendBlock([g_transfers EXCEPT ![f].ftx_blknum = @ + 1], f)
  <2> DEFINE r == [t EXCEPT !.ftx_blknum = @ + 1]
  <2>1. /\ r \in Transfers /\ r.ftx_error = t.ftx_error
        /\ r.ftx_buffers = t.ftx_buffers /\ r.acked = t.acked
        /\ r.accepted = t.accepted
    BY <1>5 DEF Transfers
  <2>2. SendBlock([g_transfers EXCEPT ![f] = r], f)
    BY <1>6
  <2> HIDE DEF r
  <2>3. r.ftx_error = "none" => Chain(r, "none")
    BY <1>5, <2>1, SameChain DEF RecordOK, Started
  <2> QED
    BY <1>3, <1>4, <1>5, <1>6, <2>1, <2>2, <2>3, SendBlockKeepsTransfers
<1>7. CASE /\ t.ftx_buffers = <<>>
           /\ g_transfers' = [g_transfers EXCEPT ![f].ftx_state = "S_FINISHED"]
           /\ SendInternal(Tail(port), "FILE_FINISHED", f)
           /\ UNCHANGED <<iopkt1, sreq, treq>>
  <2> DEFINE r == [t EXCEPT !.ftx_state = "S_FINISHED"]
  <2>1. /\ r.ftx_state = "S_FINISHED" /\ r.ftx_error = t.ftx_error
        /\ r.ftx_blknum = t.ftx_blknum
        /\ r.ftx_buffers = t.ftx_buffers /\ r.acked = t.acked
        /\ r.accepted = t.accepted
        /\ t.accepted \in Nat /\ t.accepted >= t.accepted
    BY <1>5 DEF Transfers
  <2>2. g_transfers' = [g_transfers EXCEPT ![f] = r]
    BY <1>7
  <2> HIDE DEF r
  <2>3. OnlyChanged(f) /\ g_transfers'[f] = r
    BY <1>1, <1>5, <2>2, RecordChanged
  <2>4. /\ \A g : Mark(g)' = IF g = f THEN "FILE_FINISHED" ELSE "none"
        /\ \A g \in DOMAIN g_transfers \ {f} : MarkKept(g)
    BY <1>3, <1>4, <1>7, OutTaken, NewMarks DEF MarkKept
  <2>5. RecordOK(r, "FILE_FINISHED")
    <3>1. r.ftx_error = "none" => Chain(r, "FILE_FINISHED")
      BY <1>5, <2>1, SameChain DEF RecordOK, Started
    <3> HIDE DEF t
    <3> QED
      BY <1>5, <1>7, <2>1, <3>1 DEF RecordOK, BufferPackets
  <2>6. FilesOK'
    BY <1>2, <2>3, <2>4, <2>5, FilesKept
  <2>7. OpenOK'
    BY <1>1, <1>2, <1>3, <1>5, <2>3, OpenKept, PacketsOpen DEF FileInv, TypeOK
  <2>8. FrameOK'
    BY <1>1, <1>2, <1>7, <2>1, <2>3, FrameKept
  <2>9. OwedOK'
    BY <1>3, OutTaken, NothingOwed
  <2> QED
    BY <2>6, <2>7, <2>8, <2>9 DEF TransferOK
<1> QED
  BY <1>4, <1>6, <1>7 DEF SendNextBuffer

LEMMA ContinueBufferKeepsTransfers ==
    ASSUME Before, undef' = {}, ContinueBuffer
    PROVE  TransferOK'
<1>1. g_transfers \in Seq(Transfers)
  BY DEF Before, FileInv, TypeOK
<1>2. /\ GetMsg("out") /\ outpkt.dp_Type = "CONTINUE_BUFFER"
      /\ UNCHANGED <<pkt, fh, owed>>
  BY DEF ContinueBuffer, Internal, clientVars
<1>3. PICK f : f = outpkt.dp_Arg1
  OBVIOUS
<1> DEFINE t == g_transfers[f]
           x == t.ftx_buffers[1]
           h == [x EXCEPT !.fb_curpos = @ + TFTP_MAX_DATA_SIZE]
           b == [t.ftx_buffers EXCEPT ![1] = h]
           r == [t EXCEPT !.ftx_buffers = b, !.ftx_blknum = @ + 1]
<1>4. /\ f \in DOMAIN g_transfers /\ t \in Transfers
      /\ RecordOK(t, "CONTINUE_BUFFER") /\ t.ftx_buffers # <<>>
      /\ \A c \in Clients : fh[c] # f
  BY <1>2, <1>3, BufferPacketsFile DEF BufferPackets
<1>5. t.ftx_buffers \in Seq(Buffers) /\ x \in Buffers
  BY <1>4 DEF Transfers
<1>6. /\ h \in Buffers /\ h.fb_curpos = x.fb_curpos + TFTP_MAX_DATA_SIZE
      /\ h.fb_nbytes_to_send = x.fb_nbytes_to_send
  <2>1. \A y \in Buffers :
           LET z == [y EXCEPT !.fb_curpos = @ + TFTP_MAX_DATA_SIZE] IN
           /\ z \in Buffers /\ z.fb_curpos = y.fb_curpos + TFTP_MAX_DATA_SIZE
           /\ z.fb_nbytes_to_send = y.fb_nbytes_to_send
    BY SizesAssumption DEF Buffers
  <2> HIDE DEF x
  <2> QED
    BY <1>5, <2>1
<1> HIDE DEF h
<1>7. b \in Seq(Buffers) /\ b # <<>>
  BY <1>4, <1>5, <1>6, HeadUpdates
<1> HIDE DEF b
<1>8. /\ r \in Transfers /\ r.ftx_error = t.ftx_error /\ r.ftx_buffers = b
      /\ r.acked = t.acked /\ r.accepted = t.accepted
  <2>1. t.ftx_blknum + 1 \in Nat
    BY <1>4 DEF Transfers
  <2> QED
    BY <1>4, <1>7, <2>1 DEF Transfers
<1>9. SendBlock([g_transfers EXCEPT ![f] = r], f)
  BY <1>3 DEF ContinueBuffer, NextBlock, b, h
<1> HIDE DEF r
<1>10. r.ftx_error = "none" => Chain(r, "none")
  BY <1>4, <1>6, <1>8, ContinuedChain DEF RecordOK, b
<1> QED
  BY <1>2, <1>3, <1>4, <1>7, <1>8, <1>9, <1>10, SendBlockKeepsTransfers

\* A buffer, or all that is left of a file, is freed.
LEMMA FreedKeepsTransfers ==
    ASSUME Before, FileInv', undef' = {}, FileDone \/ BufferFinished
    PROVE  TransferOK'
<1>1. FileInv /\ undef = {} /\ g_transfers \in Seq(Transfers)
  BY DEF Before, FileInv, TypeOK
<1>2. FilesOK /\ OpenOK /\ FrameOK
  BY DEF Before, TransferOK
<1>3. GetMsg("out") /\ UNCHANGED <<pkt, fh, owed, sreq>>
  BY DEF FileDone, BufferFinished, Internal, clientVars, ioVars
<1>4. PICK f : f = outpkt.dp_Arg1
  OBVIOUS
<1> DEFINE t == g_transfers[f]
<1>5. ASSUME NEW b, g_transfers' = [g_transfers EXCEPT ![f].ftx_buffers = b],
             NEW type, NEW e, SendInternal(Tail(port), type, e),
             e = f \/ e \notin DOMAIN g_transfers,
             NEW r, r = [t EXCEPT !.ftx_buffers = b],
             f \in DOMAIN g_transfers
                => RecordOK(r, IF e = f THEN type ELSE "none")
      PROVE  TransferOK'
  <2>1. g_transfers' = [g_transfers EXCEPT ![f] = r]
    BY <1>5
  <2>2. /\ OnlyChanged(f)
        /\ f \in DOMAIN g_transfers => g_transfers'[f] = r
    BY <1>1, <2>1 DEF OnlyChanged
  <2>3. \A g : Mark(g)' = IF g = e THEN type ELSE "none"
    BY <1>3, <1>5, OutTaken, NewMarks
  <2>4. \A g \in DOMAIN g_transfers \ {f} : MarkKept(g)
    BY <1>3, <1>4, <1>5, <2>3, OutTaken DEF MarkKept
  <2>5. f \in DOMAIN g_transfers => RecordOK(g_transfers'[f], Mark(f)')
    BY <1>5, <2>2, <2>3
  <2>6. FilesOK'
    BY <1>2, <2>2, <2>4, <2>5, FilesKept
  <2>7. f \in DOMAIN g_transfers =>
           /\ r.ftx_state = t.ftx_state /\ r.ftx_error = t.ftx_error
           /\ r.ftx_blknum = t.ftx_blknum /\ r.acked = t.acked
           /\ r.accepted = t.accepted
           /\ t.accepted \in Nat /\ t.accepted >= t.accepted
    <3>1. f \in DOMAIN g_transfers => t \in Transfers
      BY <1>1
    <3> QED
      BY <1>5, <3>1 DEF Transfers
  <2>8. OpenOK'
    <3>1. f \in DOMAIN g_transfers =>
             \/ r.ftx_state \in {"S_QUEUED", "S_ERROR"}
             \/ \A c \in Clients : fh[c] # f
      <4>1. f \in DOMAIN g_transfers => f # 0
        BY <1>1
      <4> QED
        BY <1>2, <2>7, <4>1 DEF OpenOK
    <3> QED
      BY <1>1, <1>2, <1>3, <2>2, <2>7, <3>1, OpenKept, PacketsOpen
      DEF FileInv, TypeOK
  <2>9. FrameOK'
    BY <1>1, <1>2, <1>3, <2>2, <2>7, FrameKept
  <2>10. OwedOK'
    BY <1>3, OutTaken, NothingOwed
  <2> QED
    BY <2>6, <2>8, <2>9, <2>10 DEF TransferOK
<1>6. CASE FileDone
  <2> DEFINE r == [t EXCEPT !.ftx_buffers = <<>>]
  <2>1. 0 \notin DOMAIN g_transfers
    BY <1>1
  <2>2. ASSUME f \in DOMAIN g_transfers PROVE RecordOK(r, "none")
    <3>1. t \in Transfers
      BY <1>1, <2>2
    <3>2. /\ r.ftx_state = t.ftx_state /\ r.ftx_error = t.ftx_error
          /\ r.ftx_blknum = t.ftx_blknum /\ r.acked = t.acked
          /\ r.accepted = t.accepted /\ r.ftx_buffers = <<>>
      BY <3>1 DEF Transfers
    <3> HIDE DEF r
    <3>3. RecordOK(t, outpkt.dp_Type)
      <4>1. Mark(f) = outpkt.dp_Type
        BY <1>3, <1>4, OutTaken
      <4> QED
        BY <1>2, <2>2, <4>1 DEF FilesOK
    <3>4. outpkt.dp_Type \in DonePackets
      BY <1>6 DEF FileDone, Internal, DonePackets
    <3> HIDE DEF t
    <3>5. t.ftx_error = "none" => t.ftx_buffers = <<>> /\ t.acked = t.accepted
      BY <3>3, <3>4 DEF RecordOK, DonePackets, Chain
    <3>6. r.ftx_error = "none" => Chain(r, "none")
      BY <3>2, <3>5 DEF Chain, RestOK
    <3> QED
      BY <3>2, <3>3, <3>6 DEF RecordOK, BufferPackets
  <2>3. /\ g_transfers' = [g_transfers EXCEPT ![f].ftx_buffers = <<>>]
        /\ SendInternal(Tail(port), "SEND_NEXT_FILE", 0)
    BY <1>4, <1>6 DEF FileDone
  <2>4. f \in DOMAIN g_transfers
           => RecordOK(r, IF 0 = f THEN "SEND_NEXT_FILE" ELSE "none")
    BY <2>1, <2>2
  <2> HIDE DEF t
  <2> QED
    BY <1>5, <2>1, <2>3, <2>4
<1>7. CASE BufferFinished
  <2> DEFINE r == [t EXCEPT !.ftx_buffers = Tail(t.ftx_buffers)]
  <2>1. /\ f \in DOMAIN g_transfers /\ t \in Transfers
        /\ RecordOK(t, "BUFFER_FINISHED") /\ t.ftx_buffers # <<>>
    BY <1>4, <1>7, BufferPacketsFile DEF BufferFinished, Internal, BufferPackets
  <2>2. /\ g_transfers'
             = [g_transfers EXCEPT ![f].ftx_buffers = Tail(t.ftx_buffers)]
        /\ SendInternal(Tail(port), "SEND_NEXT_BUFFER", f)
    BY <1>4, <1>7 DEF BufferFinished
  <2>3. /\ r.ftx_state = t.ftx_state /\ r.ftx_error = t.ftx_error
        /\ r.ftx_blknum = t.ftx_blknum /\ r.acked = t.acked
        /\ r.accepted = t.accepted /\ r.ftx_buffers = Tail(t.ftx_buffers)
    BY <2>1 DEF Transfers
  <2>4. r \in Transfers
    BY <1>1, <2>1, <2>2 DEF FileInv, TypeOK
  <2> HIDE DEF r
  <2>5. r.ftx_error = "none" => Chain(r, "SEND_NEXT_BUFFER")
    <3>1. r.ftx_error = "none" => Chain(r, "none")
      BY <2>1, <2>3, <2>4, FreedChain DEF RecordOK
    <3> QED
      BY <3>1, SameChain DEF Started
  <2> HIDE DEF t
  <2>6. RecordOK(r, "SEND_NEXT_BUFFER")
    BY <2>1, <2>3, <2>5 DEF RecordOK, BufferPackets
  <2> QED
    BY <1>5, <2>2, <2>6 DEF r
<1> QED
  BY <1>6, <1>7

------------------------------------------------------------------------------
(* IO completion *)

\* A completion or a timeout fails file f.
LEMMA FailKeepsTransfers ==
    ASSUME Before, NEW p \in Seq(Msgs),
           "out" \in ToSet(p) <=> "out" \in ToSet(port), Requeued(p) = {},
           NEW f, NEW err, err # "none", FailFile(g_transfers, f, err, p),
           UNCHANGED <<pkt, fh>>, owed' = NoInternal,
           ~(Pending(sreq') /\ sreq'.frame.op = "DATA")
    PROVE  TransferOK'
<1>1. FileInv /\ undef = {} /\ g_transfers \in Seq(Transfers)
  BY DEF Before, FileInv, TypeOK
<1>2. FilesOK /\ OpenOK /\ FrameOK
  BY DEF Before, TransferOK
<1> DEFINE t == g_transfers[f]
           r == [t EXCEPT !.ftx_state = "S_ERROR", !.ftx_error = err]
<1>3. g_transfers' = [g_transfers EXCEPT ![f] = r]
  BY DEF FailFile, Failed
<1>4. f \in DOMAIN g_transfers =>
         /\ r.ftx_state = "S_ERROR" /\ r.ftx_error = err
         /\ r.ftx_blknum = t.ftx_blknum
  <2>1. f \in DOMAIN g_transfers => t \in Transfers
    BY <1>1
  <2> QED
    BY <2>1 DEF Transfers
<1> HIDE DEF r
<1>5. OnlyChanged(f) /\ (f \in DOMAIN g_transfers => g_transfers'[f] = r)
  BY <1>1, <1>3 DEF OnlyChanged
<1>6. /\ \A g : Mark(g) = "none"
      /\ \A g : Mark(g)' = IF g = f THEN "FILE_FAILED" ELSE "none"
  BY NewMarks, NoMarks DEF FailFile, Requeued
<1>7. f \in DOMAIN g_transfers => RecordOK(r, "FILE_FAILED")
  BY <1>4, FailedRecordOK DEF BufferPackets
<1>8. FilesOK'
  BY <1>2, <1>5, <1>6, <1>7, FilesKept DEF MarkKept
<1>9. OpenOK'
  BY <1>1, <1>2, <1>4, <1>5, OpenKept, PacketsOpen DEF FileInv, TypeOK
<1>10. FrameOK'
  BY <1>1, <1>2, <1>4, <1>5, FrameKept
<1> QED
  BY <1>8, <1>9, <1>10, NothingOwed DEF TransferOK

LEMMA WriteReturnKeepsTransfers ==
    ASSUME Before, undef' = {}, WriteReturn
    PROVE  TransferOK'
<1> DEFINE p == StopTimer(Tail(port))
<1>1. FileInv /\ MsgInv /\ undef = {} /\ GetMsg("sreq")
  BY DEF Before, WriteReturn
<1>2. /\ p \in Seq(Msgs) /\ ("out" \in ToSet(p) <=> "out" \in ToSet(port))
      /\ owed = NoInternal
  BY <1>1, Completed
<1>3. UNCHANGED <<pkt, fh, owed>>
  BY DEF WriteReturn, clientVars
<1>4. sreq' \in {ReadReq, IdleReq}
  BY DEF WriteReturn, StartIO
<1>5. sreq'.frame.op # "DATA"
  <2>1. ReadReq.frame = NoFrame /\ IdleReq.frame = NoFrame
    BY DEF ReadReq, IdleReq
  <2> QED
    BY <1>4, <2>1 DEF NoFrame
<1> HIDE DEF p
<1>6. \/ \E f, err : /\ FailFile(g_transfers, f, err, p) /\ err # "none"
                     /\ Requeued(p) = {}
      \/ SendNothing(p) /\ UNCHANGED g_transfers
  BY DEF WriteReturn, p
<1>7. CASE \E f, err : /\ FailFile(g_transfers, f, err, p) /\ err # "none"
                       /\ Requeued(p) = {}
  <2>1. PICK f, err : /\ FailFile(g_transfers, f, err, p) /\ err # "none"
                      /\ Requeued(p) = {}
    BY <1>7
  <2> QED
    BY <1>2, <1>3, <1>5, <2>1, FailKeepsTransfers
<1>8. CASE SendNothing(p) /\ UNCHANGED g_transfers
  BY <1>2, <1>3, <1>5, <1>8, QuietKeepsTransfers, PacketsOpen DEF SendNothing
<1> QED
  BY <1>6, <1>7, <1>8

\* ACTION_TIMER_EXPIRED
LEMMA TimerExpiredKeepsTransfers ==
    ASSUME Before, undef' = {}, TimerExpired
    PROVE  TransferOK'
<1> DEFINE p == AbortSerial(Tail(port))
<1>1. MsgInv /\ undef = {} /\ GetMsg("treq") /\ "treq" \in Msgs
  BY DEF Before, TimerExpired, Msgs
<1>2. p \in Seq(Msgs) /\ ("out" \in ToSet(p) <=> "out" \in ToSet(port))
  <2>1. /\ Unlink(Tail(port), "sreq") \in Seq(Msgs)
        /\ ToSet(Unlink(Tail(port), "sreq")) = ToSet(port) \ {"treq", "sreq"}
    BY <1>1, TakenUnlinked
  <2> QED
    BY <2>1 DEF AbortSerial
<1>3. UNCHANGED <<pkt, fh>> /\ owed' = NoInternal
  BY <1>1 DEF TimerExpired, clientVars, GetMsg
<1>4. ~Pending(sreq')
  BY DEF TimerExpired, Pending, IdleReq
<1>5. FailFile(g_transfers, ftx, "IO_TIMEOUT", p) /\ Requeued(p) = {}
  BY DEF TimerExpired
<1> HIDE DEF p
<1> QED
  BY <1>2, <1>3, <1>4, <1>5, FailKeepsTransfers

\* An ACK is handled: the packet that follows is about file f, whose record
\* is r by then.
LEMMA AckKeepsTransfers ==
    ASSUME Before, NEW p \in Seq(Msgs),
           "out" \in ToSet(p) <=> "out" \in ToSet(port), Requeued(p) = {},
           NEW f \in DOMAIN g_transfers, NEW r, NEW type,
           g_transfers' = [g_transfers EXCEPT ![f] = r],
           SendInternal(p, type, f), RecordOK(r, type),
           \A c \in Clients : fh[c] # f,
           UNCHANGED <<pkt, fh>>, owed' = NoInternal, ~Pending(sreq')
    PROVE  TransferOK'
<1>1. FileInv /\ undef = {} /\ g_transfers \in Seq(Transfers)
  BY DEF Before, FileInv, TypeOK
<1>2. FilesOK /\ OpenOK
  BY DEF Before, TransferOK
<1>3. OnlyChanged(f) /\ g_transfers'[f] = r
  BY <1>1, RecordChanged
<1>4. /\ \A g : Mark(g) = "none"
      /\ \A g : Mark(g)' = IF g = f THEN type ELSE "none"
  BY NewMarks, NoMarks DEF Requeued
<1>5. FilesOK'
  BY <1>2, <1>3, <1>4, FilesKept DEF MarkKept
<1>6. OpenOK'
  BY <1>1, <1>2, <1>3, OpenKept, PacketsOpen DEF FileInv, TypeOK
<1>7. FrameOK'
  BY DEF FrameOK, DataInOrder
<1> QED
  BY <1>5, <1>6, <1>7, NothingOwed DEF TransferOK

\* do_read_return() with a good packet
LEMMA AnsweredKeepsTransfers ==
    ASSUME Before, FileInv', NEW p \in Seq(Msgs),
           "out" \in ToSet(p) <=> "out" \in ToSet(port),
           NEW f \in DOMAIN g_transfers, ~Out(BufferPackets),
           NEW a \in Answers \cup {NoAnswer}, Answered(f, a, p),
           undef' = {}, sreq' = IdleReq, owed' = owed, owed = NoInternal,
           UNCHANGED <<pkt, fh>>
    PROVE  TransferOK'
<1>1. FileInv /\ undef = {} /\ g_transfers \in Seq(Transfers)
  BY DEF Before, FileInv, TypeOK
<1>2. Requeued(p) = {} /\ ~Pending(sreq')
  BY DEF Answered, Pending, IdleReq
<1>3. \A g : Mark(g) = "none"
  BY <1>2, NoMarks DEF Requeued
<1> DEFINE t == g_transfers[f]
<1>4. t \in Transfers /\ f # 0
  BY <1>1
<1>5. RecordOK(t, "none")
  BY <1>3 DEF Before, TransferOK, FilesOK
<1>6. ASSUME t.ftx_state \in {"S_WRQ_SENT", "S_DATA_SENT"}
      PROVE  \A c \in Clients : fh[c] # f
  BY <1>4, <1>6 DEF Before, TransferOK, OpenOK
<1>7. CASE AckRequest(f, p)
  <2>1. /\ t.ftx_state = "S_WRQ_SENT" /\ SendInternal(p, "SEND_NEXT_BUFFER", f)
        /\ g_transfers' = [g_transfers EXCEPT ![f] = t]
    BY <1>1, <1>7 DEF AckRequest
  <2> HIDE DEF t
  <2>2. t.ftx_error = "none" => Chain(t, "SEND_NEXT_BUFFER")
    BY <1>5, SameChain DEF RecordOK, Started
  <2>3. RecordOK(t, "SEND_NEXT_BUFFER")
    BY <1>5, <2>1, <2>2, SizesAssumption DEF RecordOK
  <2> QED
    BY <1>2, <1>6, <2>1, <2>3, AckKeepsTransfers
<1>8. CASE a.op = "ACK" /\ AckData(f, a.blk, p)
  <2> DEFINE x == t.ftx_buffers[1]
             h == [x EXCEPT !.fb_nbytes_to_send = @ - TFTP_MAX_DATA_SIZE]
             b == [t.ftx_buffers EXCEPT ![1] = h]
             n == Chunk(x.fb_nbytes_to_send)
             r == [t EXCEPT !.ftx_buffers = b, !.acked = @ + n]
  <2>1. t.ftx_state = "S_DATA_SENT" /\ t.ftx_blknum < BLK_MODULUS
    <3>1. t.ftx_state = "S_DATA_SENT" /\ a.blk = t.ftx_blknum
      BY <1>8 DEF AckData, BlockMatches
    <3>2. a.blk \in 0 .. BLK_MODULUS - 1
      BY <1>8 DEF Answers, NoAnswer
    <3> QED
      BY <3>1, <3>2, SizesAssumption
  <2>2. t.ftx_buffers # <<>>
    BY <1>1, <2>1, BuffersThere DEF Out, BufferPackets
  <2>3. /\ t.ftx_buffers \in Seq(Buffers) /\ x \in Buffers
        /\ Head(t.ftx_buffers) = x
    BY <1>4, <2>2 DEF Transfers
  <2>4. /\ h \in Buffers /\ h.fb_curpos = x.fb_curpos
        /\ h.fb_nbytes_to_send = x.fb_nbytes_to_send - TFTP_MAX_DATA_SIZE
    <3>1. \A y \in Buffers :
             LET z == [y EXCEPT !.fb_nbytes_to_send = @ - TFTP_MAX_DATA_SIZE] IN
             /\ z \in Buffers /\ z.fb_curpos = y.fb_curpos
             /\ z.fb_nbytes_to_send = y.fb_nbytes_to_send - TFTP_MAX_DATA_SIZE
      BY SizesAssumption DEF Buffers
    <3> HIDE DEF x
    <3> QED
      BY <2>3, <3>1
  <2>5. Acknowledged(f) = [g_transfers EXCEPT ![f] = r]
    BY <2>3 DEF Acknowledged
  <2> HIDE DEF h, n
  <2>6. b \in Seq(Buffers) /\ b # <<>> /\ Head(b) = h
    BY <2>2, <2>3, <2>4, HeadUpdates
  <2> HIDE DEF b
  <2>7. /\ r.ftx_error = t.ftx_error /\ r.ftx_buffers = b
        /\ r.ftx_state = t.ftx_state /\ r.ftx_blknum = t.ftx_blknum
        /\ r.acked = t.acked + n /\ r.accepted = t.accepted
    BY <1>4 DEF Transfers
  <2> HIDE DEF r
  <2>8. g_transfers' = [g_transfers EXCEPT ![f] = r]
    BY <1>8, <2>5 DEF AckData
  <2>9. r \in Transfers
    BY <1>1, <2>8 DEF FileInv, TypeOK
  <2>10. SendInternal(p, AfterBlock(h), f)
    <3>1. Acknowledged(f)[f].ftx_buffers = b
      BY <1>1, <2>5, <2>7
    <3> QED
      BY <1>8, <2>6, <3>1 DEF AckData
  <2>11. r.ftx_error = "none" => Chain(r, AfterBlock(h))
    <3>1. ASSUME r.ftx_error = "none" PROVE Chain(r, AfterBlock(h))
      <4>1. Chain(t, "none")
        BY <1>5, <2>7, <3>1 DEF RecordOK
      <4> QED
        BY <1>4, <2>2, <2>4, <2>7, <2>9, <4>1, AcknowledgedChain
        DEF Marks, Started, b, n
    <3> QED
      BY <3>1
  <2>12. RecordOK(r, AfterBlock(h))
    <3>1. AfterBlock(h) \in Started
      BY DEF AfterBlock, Started
    <3> QED
      BY <1>5, <2>1, <2>7, <2>11, <3>1 DEF RecordOK, Started
  <2> QED
    BY <1>2, <1>6, <2>1, <2>8, <2>10, <2>12, AckKeepsTransfers
<1>9. CASE \E err : err # "none" /\ FailFile(g_transfers, f, err, p)
  BY <1>2, <1>9, FailKeepsTransfers
<1>10. CASE AckWrongState(f, p)
  BY <1>2, <1>10, QuietKeepsTransfers, PacketsOpen DEF AckWrongState, SendNothing
<1> QED
  BY <1>7, <1>8, <1>9, <1>10 DEF Answered, AckWrongBlock, ErrorOf

\* do_read_return()
LEMMA ReadReturnKeepsTransfers ==
    ASSUME Before, FileInv', undef' = {}, ReadReturn
    PROVE  TransferOK'
<1> DEFINE p == StopTimer(Tail(port))
<1>1. FileInv /\ MsgInv /\ undef = {} /\ GetMsg("sreq")
  BY DEF Before, ReadReturn
<1>2. PICK f : f = iopkt1.dp_Arg1
  OBVIOUS
<1>3. /\ p \in Seq(Msgs) /\ ("out" \in ToSet(p) <=> "out" \in ToSet(port))
      /\ owed = NoInternal /\ f \in DOMAIN g_transfers /\ ~Out(BufferPackets)
  BY <1>1, <1>2, Completed
<1>4. UNCHANGED <<pkt, fh, owed>> /\ sreq' = IdleReq /\ ~Pending(sreq')
  BY DEF ReadReturn, clientVars, Pending, IdleReq
<1>5. PICK a : tftppkt' = a /\ (Answered(f, a, p) \/ AnswerFailed(f, a, p))
  BY <1>2 DEF ReadReturn
<1>6. a \in Answers \cup {NoAnswer}
  BY <1>5 DEF FileInv, TypeOK
<1> HIDE DEF p
<1>7. CASE Answered(f, a, p)
  BY <1>3, <1>4, <1>6, <1>7, AnsweredKeepsTransfers
<1>8. CASE AnswerFailed(f, a, p)
  <2>1. \E err : err # "none" /\ FailFile(g_transfers, f, err, p)
    BY <1>8 DEF AnswerFailed, ErrorOf
  <2>2. Requeued(p) = {}
    BY <1>8 DEF AnswerFailed
  <2> QED
    BY <1>3, <1>4, <2>1, <2>2, FailKeepsTransfers
<1> QED
  BY <1>5, <1>7, <1>8

------------------------------------------------------------------------------
(* The theorems *)

\* A client's packet is returned, a new one is sent, or nothing happens to
\* any of them.
LEMMA StepWriteOK ==
    ASSUME TypeOK, WriteOK, [Next]_vars
    PROVE  WriteOK'
<1>1. pkt \in [Clients -> [dp_Type : PacketTypes \cup {"none"},
                           len : WriteLens \cup {0}]]
  BY DEF TypeOK
<1>2. CASE UNCHANGED pkt
  BY <1>2 DEF WriteOK
<1>3. ASSUME NEW c \in Clients, Return(c)
      PROVE  WriteOK'
  BY <1>1, <1>3 DEF WriteOK, Return, NoPacket
<1>4. ASSUME NEW c \in Clients, NEW type, NEW len, SendPkt(c, type, len),
             type = "WRITE" => len \in WriteLens
      PROVE  WriteOK'
  BY <1>1, <1>4 DEF WriteOK, SendPkt
<1>5. CASE Handle
  <2>1. ASSUME NEW c \in Clients,
               FindOutput(c) \/ Write(c) \/ End(c) \/ Die(c) \/ Other(c)
        PROVE  WriteOK'
    BY <1>3, <2>1 DEF FindOutput, Write, End, Die, Other
  <2>2. CASE \/ SendOwed \/ SendNextFile \/ SendNextBuffer \/ ContinueBuffer
             \/ FileDone \/ BufferFinished \/ WriteReturn \/ ReadReturn
             \/ TimerExpired \/ Exit
    BY <1>2, <2>2 DEF SendOwed, SendNextFile, SendNextBuffer, ContinueBuffer,
       FileDone, BufferFinished, WriteReturn, ReadReturn, TimerExpired, Exit,
       clientVars
  <2> QED
    BY <1>5, <2>1, <2>2 DEF Handle
<1>6. CASE Device
  BY <1>2, <1>6 DEF Device, WriteDone, ReadDone, SerialError, SerialReplies,
     TimerFires, clientVars
<1>7. CASE Client
  BY <1>4, <1>7 DEF Client, ClientOpen, ClientWrite, ClientClose,
                    ClientUnmount, ClientOther
<1>8. CASE UNCHANGED vars
  BY <1>2, <1>8 DEF vars, clientVars
<1> QED
  BY <1>5, <1>6, <1>7, <1>8 DEF Next

LEMMA InitTransferInv == Init => TransferInv /\ WriteOK
<1> SUFFICES ASSUME Init PROVE TransferOK /\ WriteOK
  BY DEF TransferInv
<1>1. DOMAIN g_transfers = {}
  BY DEF Init
<1>2. FilesOK
  BY <1>1 DEF FilesOK
<1>3. OwedOK
  BY DEF Init, OwedOK, NoInternal
<1>4. OpenOK /\ WriteOK
  BY DEF Init, OpenOK, WriteOK, NoPacket
<1>5. FrameOK
  BY DEF Init, FrameOK, DataInOrder, Pending, IdleReq
<1> QED
  BY <1>2, <1>3, <1>4, <1>5 DEF TransferOK

LEMMA StepTransferInv ==
    ASSUME MsgInv, FileInv, WriteOK, TransferInv, MsgInv', FileInv', [Next]_vars
    PROVE  TransferInv'
<1>1. CASE UNCHANGED vars
  <2> SUFFICES ASSUME undef' = {} PROVE TransferOK'
    BY DEF TransferInv
  <2>1. /\ UNCHANGED <<g_transfers, fh, pkt, outpkt, owed, port, sreq, undef>>
        /\ Before
    BY <1>1 DEF vars, clientVars, ioVars, TransferInv, Before
  <2> QED
    BY <2>1, QuietKeepsTransfers, PacketsOpen
<1>2. CASE Next
  <2> SUFFICES ASSUME undef' = {} PROVE TransferOK'
    BY DEF TransferInv
  <2>1. Before
    BY <1>2 DEF Next, TransferInv, Before
  <2>2. ASSUME NEW c \in Clients,
               FindOutput(c) \/ Write(c) \/ End(c) \/ Die(c) \/ Other(c)
        PROVE  TransferOK'
    BY <2>1, <2>2, FindOutputKeepsTransfers, WriteKeepsTransfers,
       EndKeepsTransfers, DieKeepsTransfers
  <2>3. CASE SendOwed
    BY <2>1, <2>3, SendOwedKeepsTransfers
  <2>4. CASE SendNextFile
    BY <2>1, <2>4, SendNextFileKeepsTransfers
  <2>5. CASE SendNextBuffer
    BY <2>1, <2>5, SendNextBufferKeepsTransfers
  <2>6. CASE ContinueBuffer
    BY <2>1, <2>6, ContinueBufferKeepsTransfers
  <2>7. CASE FileDone \/ BufferFinished
    BY <2>1, <2>7, FreedKeepsTransfers
  <2>8. CASE WriteReturn
    BY <2>1, <2>8, WriteReturnKeepsTransfers
  <2>9. CASE ReadReturn
    BY <2>1, <2>9, ReadReturnKeepsTransfers
  <2>10. CASE TimerExpired
    BY <2>1, <2>10, TimerExpiredKeepsTransfers
  <2>11. CASE Exit \/ Device \/ Client
    BY <2>1, <2>11, EnvironmentKeepsTransfers
  <2> QED
    BY <1>2, <2>2, <2>3, <2>4, <2>5, <2>6, <2>7, <2>8, <2>9, <2>10, <2>11
    DEF Next, Handle
<1> QED
  BY <1>1, <1>2

LEMMA SpecTransferInv == Spec => [](TransferInv /\ WriteOK)
<1> DEFINE Inv == MsgInv /\ FileInv /\ WriteOK /\ TransferInv
<1>1. Init => Inv
  BY InitMsgInv, InitFileInv, InitTransferInv
<1>2. Inv /\ [Next]_vars => Inv'
  BY StepMsgInv, StepFileInv, StepWriteOK, StepTransferInv DEF FileInv
<1>3. Inv => TransferInv /\ WriteOK
  OBVIOUS
<1> HIDE DEF Inv
<1> QED
  BY <1>1, <1>2, <1>3, PTL DEF Spec

\* A file that the queue shows as finished without an error has reached the
\* server to the last byte, whatever clients, server and line did before:
\* ACTION_SEND_NEXT_BUFFER (handler.c:259) finds the list of buffers empty
\* only when the last block of the last one has been acknowledged.
THEOREM FinishedFilesAreAcked == Spec => []FinishedAllAcked
<1>1. TransferInv => FinishedAllAcked
  <2> SUFFICES ASSUME TransferOK, NEW f \in DOMAIN g_transfers,
                      g_transfers[f].ftx_state = "S_FINISHED",
                      g_transfers[f].ftx_error = "none"
               PROVE  g_transfers[f].acked = g_transfers[f].accepted
    BY DEF TransferInv, FinishedAllAcked
  <2>1. RecordOK(g_transfers[f], Mark(f))
    BY DEF TransferOK, FilesOK
  <2> QED
    BY <2>1 DEF RecordOK, Chain
<1> QED
  BY <1>1, SpecTransferInv, PTL

\* Every block send_tftp_data_packet() puts on the line starts where the
\* acknowledged bytes of its file end, is not empty and not longer than what
\* the client has written.
THEOREM BlocksAreInOrder == Spec => []DataInOrder
<1>1. TransferInv => DataInOrder
  BY DEF TransferInv, TransferOK, FrameOK, DataInOrder
<1> QED
  BY <1>1, SpecTransferInv, PTL

\* The USHORT in the packet and the ULONG ftx_blknum agree for every file
\* that is finished: none is, once its block number has passed 2^16 - 1.
THEOREM BlockNumbersAreUnique == Spec => []NoBlockNumberReused
<1>1. TransferInv => NoBlockNumberReused
  BY DEF TransferInv, TransferOK, FilesOK, RecordOK, NoBlockNumberReused
<1> QED
  BY <1>1, SpecTransferInv, PTL
=============================================================================
