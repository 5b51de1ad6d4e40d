---------------------------- MODULE PatientProofs ----------------------------
(****************************************************************************)
(* Proofs about a handler whose clients unmount only when nothing is being  *)
(* transferred, close a file then or, with "queue", while another file is   *)
(* on the line, and whose line delivers frames that can be decoded: nothing *)
(* undefined happens, one file is sent at a time while others wait behind   *)
(* it, and Handler implements FileQueue.  The server may answer anything or *)
(* nothing, and memory for a file may run out.                              *)
(****************************************************************************)
EXTENDS TransferProofs, HandlerQueue

\* The environment these proofs are about.
PatientEnv == Env \cap {"impatient", "write", "extract", "serial"} = {}

------------------------------------------------------------------------------
(* The invariant *)

\* Client c wants to close its file or to unmount.
Ending(c) == pkt[c].dp_Type \in {"END", "DIE"}

\* A file is being closed while another is on the line.  Neither device has
\* replied yet, and all that comes of it is one ACTION_SEND_NEXT_FILE.
Joining ==
    /\ "queue" \in Env /\ sreq.st = "active" /\ treq = "running"
    /\ \A c \in Clients : pkt[c].dp_Type # "DIE"
    /\ "out" \in ToSet(port) => outpkt.dp_Type = "SEND_NEXT_FILE"

\* Whoever is to move a transfer along is one of four: a request under way,
\* the internal packet in the port, the one still to be sent, or a client that
\* ends something.  It is alone, save that a file may join the queue.
AloneOK ==
    /\ Pending(sreq) => AtRest \/ Joining
    /\ "out" \in ToSet(port) => owed = NoInternal /\ \A c \in Clients : ~Ending(c)
    /\ owed # NoInternal => \A c \in Clients : ~Ending(c)
    /\ \A c, d \in Clients : Ending(c) /\ Ending(d) => c = d

\* The two requests are used together, and neither once the loop is left;
\* none fails, and what is read can be decoded.
RequestsOK ==
    /\ treq # "idle" <=> Pending(sreq)
    /\ ~g_running => ~Pending(sreq) /\ ~dn_Task
    /\ ~sreq.failed /\ sreq.ans # BadFrame

\* The file being sent is the one of iopkt1, of the packet about its buffers
\* and of the variable ftx, unless another has been closed since: then the
\* timer does not expire before the next frame.
SenderOK ==
    /\ g_busy <=> Pending(sreq) \/ Out(BufferPackets)
    /\ \A f \in DOMAIN g_transfers : Sending(f) <=> g_busy /\ f = iopkt1.dp_Arg1
    /\ Out(BufferPackets) => outpkt.dp_Arg1 = iopkt1.dp_Arg1
    /\ Pending(sreq) /\ ~joined => ftx = iopkt1.dp_Arg1
    /\ Pending(sreq) /\ joined => "queue" \in Env /\ treq # "expired"

\* An open file has not failed, and one with an error stays failed.
CleanOK ==
    /\ \A c \in Clients : fh[c] # 0 => g_transfers[fh[c]].ftx_state = "S_QUEUED"
    /\ \A f \in DOMAIN g_transfers :
          g_transfers[f].ftx_state # "S_ERROR" => g_transfers[f].ftx_error = "none"
    /\ owed = NoInternal \/ owed.dp_Type = "SEND_NEXT_FILE"

PatientOK == AloneOK /\ RequestsOK /\ SenderOK /\ CleanOK /\ undef = {}

------------------------------------------------------------------------------
(* Steps of FileQueue *)

\* What FileQueue sees of a transfer, and of all of them.
Seen(t) == [st |-> Visible(t.ftx_state), accepted |-> t.accepted,
            acked |-> t.acked]
view == [f \in DOMAIN g_transfers |-> Seen(g_transfers[f])]

\* A timeout hits a file being sent, see TimeoutHitsSender.
TimeoutStep ==
    \A f \in DOMAIN g_transfers :
        (/\ g_transfers'[f].ftx_error = "IO_TIMEOUT"
         /\ g_transfers[f].ftx_error # "IO_TIMEOUT") => Sending(f)

\* The step is one of FileQueue, or none.
FileStep == (Queue!Next \/ view' = view) /\ TimeoutStep

\* The transfers before and after a step that changes file f only.
LEMMA ViewChanged ==
    ASSUME NEW f \in DOMAIN g_transfers, OnlyChanged(f)
    PROVE  /\ DOMAIN view = DOMAIN g_transfers
           /\ view[f] = Seen(g_transfers[f])
           /\ view' = [view EXCEPT ![f] = Seen(g_transfers'[f])]
<1>1. /\ DOMAIN view = DOMAIN g_transfers /\ DOMAIN view' = DOMAIN g_transfers
      /\ \A g \in DOMAIN g_transfers : /\ view[g] = Seen(g_transfers[g])
                                       /\ view'[g] = Seen(g_transfers'[g])
  BY DEF view, OnlyChanged
<1>2. \A g \in DOMAIN g_transfers \ {f} : view'[g] = view[g]
  BY <1>1 DEF OnlyChanged
<1>3. view' = [g \in DOMAIN g_transfers |-> view'[g]]
  BY DEF view, OnlyChanged
<1> HIDE DEF view
<1> QED
  BY <1>1, <1>2, <1>3

\* Nothing FileQueue could see.
LEMMA AsStutter ==
    ASSUME NEW f, OnlyChanged(f),
           f \in DOMAIN g_transfers =>
              /\ Visible(g_transfers'[f].ftx_state) = Visible(g_transfers[f].ftx_state)
              /\ g_transfers'[f].ftx_error = g_transfers[f].ftx_error
              /\ g_transfers'[f].accepted = g_transfers[f].accepted
              /\ g_transfers'[f].acked = g_transfers[f].acked
    PROVE  FileStep
<1>1. \A g \in DOMAIN g_transfers : Seen(g_transfers'[g]) = Seen(g_transfers[g])
  BY DEF OnlyChanged, Seen
<1>2. view' = view
  BY <1>1 DEF view, OnlyChanged
<1>3. TimeoutStep
  BY DEF TimeoutStep, OnlyChanged
<1> QED
  BY <1>2, <1>3 DEF FileStep

\* A file is next in line when nothing is being sent.
LineUp(f) ==
    /\ \A g \in DOMAIN g_transfers : ~Sending(g)
    /\ FirstReady(f)

LEMMA LineUpInView ==
    ASSUME NEW f \in DOMAIN g_transfers, g_transfers \in Seq(Transfers), LineUp(f)
    PROVE  Queue!NextInLine(f)
<1>1. \A g \in DOMAIN g_transfers :
         /\ g_transfers[g].ftx_state \in TransferStates
         /\ Visible(g_transfers[g].ftx_state) # "sending"
         /\ g_transfers[g].ftx_state # "S_READY"
               => Visible(g_transfers[g].ftx_state) # "closed"
  <2> SUFFICES ASSUME NEW g \in DOMAIN g_transfers
               PROVE  /\ g_transfers[g].ftx_state \in TransferStates
                      /\ Visible(g_transfers[g].ftx_state) # "sending"
                      /\ g_transfers[g].ftx_state # "S_READY"
                            => Visible(g_transfers[g].ftx_state) # "closed"
    OBVIOUS
  <2>1. g_transfers[g] \in Transfers
    OBVIOUS
  <2>2. g_transfers[g].ftx_state \in TransferStates
    BY <2>1 DEF Transfers
  <2> QED
    BY <2>2 DEF TransferStates, Visible, LineUp, Sending
<1>2. Visible(g_transfers[f].ftx_state) = "closed"
  BY DEF LineUp, FirstReady, Visible
<1>3. \A g \in 1 .. f - 1 : g \in DOMAIN g_transfers
                            /\ g_transfers[g].ftx_state # "S_READY"
  BY DEF LineUp, FirstReady
<1> QED
  BY <1>1, <1>2, <1>3 DEF Queue!NextInLine, Queue!Sent

\* A file fails.
LEMMA AsFail ==
    ASSUME NEW f \in DOMAIN g_transfers, g_transfers \in Seq(Transfers),
           OnlyChanged(f), g_transfers'[f].ftx_state = "S_ERROR",
           g_transfers'[f].accepted = g_transfers[f].accepted,
           g_transfers'[f].acked = g_transfers[f].acked,
           Sending(f) \/ (LineUp(f) /\ g_transfers'[f].ftx_error # "IO_TIMEOUT")
    PROVE  FileStep
<1>1. /\ DOMAIN view = DOMAIN g_transfers
      /\ view[f] = Seen(g_transfers[f])
      /\ view' = [view EXCEPT ![f] = Seen(g_transfers'[f])]
  BY ViewChanged
<1>2. Seen(g_transfers'[f]) = [view[f] EXCEPT !.st = "failed"]
  BY <1>1 DEF Seen, Visible
<1>3. view' = [view EXCEPT ![f].st = "failed"]
  BY <1>1, <1>2
<1>4. Sending(f) => view[f].st = "sending"
  BY <1>1 DEF Sending, Seen, Visible
<1>5. Queue!Fail(f)
  BY <1>3, <1>4, LineUpInView DEF Queue!Fail, view, Seen
<1>6. TimeoutStep
  BY DEF TimeoutStep, OnlyChanged
<1> QED
  BY <1>1, <1>5, <1>6 DEF FileStep, Queue!Next, view, Seen

\* The first file in line is started.
LEMMA AsStart ==
    ASSUME NEW f \in DOMAIN g_transfers, g_transfers \in Seq(Transfers),
           OnlyChanged(f), LineUp(f), g_transfers'[f].ftx_state = "S_WRQ_SENT",
           g_transfers'[f].ftx_error = g_transfers[f].ftx_error,
           g_transfers'[f].accepted = g_transfers[f].accepted,
           g_transfers'[f].acked = g_transfers[f].acked
    PROVE  FileStep
<1>1. /\ DOMAIN view = DOMAIN g_transfers
      /\ view[f] = Seen(g_transfers[f])
      /\ view' = [view EXCEPT ![f] = Seen(g_transfers'[f])]
  BY ViewChanged
<1>2. Seen(g_transfers'[f]) = [view[f] EXCEPT !.st = "sending"]
  BY <1>1 DEF Seen, Visible
<1>3. view' = [view EXCEPT ![f].st = "sending"]
  BY <1>1, <1>2
<1>4. Queue!Start(f)
  BY <1>3, LineUpInView DEF Queue!Start, view, Seen
<1>5. TimeoutStep
  BY DEF TimeoutStep, OnlyChanged
<1> QED
  BY <1>1, <1>4, <1>5 DEF FileStep, Queue!Next, view, Seen

\* A file is done, all of it acknowledged.
LEMMA AsFinish ==
    ASSUME NEW f \in DOMAIN g_transfers, OnlyChanged(f), Sending(f),
           g_transfers[f].acked = g_transfers[f].accepted,
           g_transfers'[f].ftx_state = "S_FINISHED",
           g_transfers'[f].ftx_error = g_transfers[f].ftx_error,
           g_transfers'[f].accepted = g_transfers[f].accepted,
           g_transfers'[f].acked = g_transfers[f].acked
    PROVE  FileStep
<1>1. /\ DOMAIN view = DOMAIN g_transfers
      /\ view[f] = Seen(g_transfers[f])
      /\ view' = [view EXCEPT ![f] = Seen(g_transfers'[f])]
  BY ViewChanged
<1>2. Seen(g_transfers'[f]) = [view[f] EXCEPT !.st = "done"]
  BY <1>1 DEF Seen, Visible
<1>3. view' = [view EXCEPT ![f].st = "done"]
  BY <1>1, <1>2
<1>4. view[f].st = "sending" /\ view[f].acked = view[f].accepted
  BY <1>1 DEF Sending, Seen, Visible
<1>5. Queue!Finish(f)
  BY <1>3, <1>4 DEF Queue!Finish, view, Seen
<1>6. TimeoutStep
  BY DEF TimeoutStep, OnlyChanged
<1> QED
  BY <1>1, <1>5, <1>6 DEF FileStep, Queue!Next, view, Seen

\* A block is acknowledged.
LEMMA AsProgress ==
    ASSUME NEW f \in DOMAIN g_transfers, OnlyChanged(f), Sending(f),
           g_transfers'[f].ftx_state = g_transfers[f].ftx_state,
           g_transfers'[f].ftx_error = g_transfers[f].ftx_error,
           g_transfers'[f].accepted = g_transfers[f].accepted,
           NEW n \in 1 .. TFTP_MAX_DATA_SIZE,
           g_transfers'[f].acked = g_transfers[f].acked + n,
           g_transfers[f].acked + n <= g_transfers[f].accepted
    PROVE  FileStep
<1>1. /\ DOMAIN view = DOMAIN g_transfers
      /\ view[f] = Seen(g_transfers[f])
      /\ view' = [view EXCEPT ![f] = Seen(g_transfers'[f])]
  BY ViewChanged
<1>2. Seen(g_transfers'[f]) = [view[f] EXCEPT !.acked = @ + n]
  BY <1>1 DEF Seen
<1>3. view' = [view EXCEPT ![f].acked = @ + n]
  BY <1>1, <1>2
<1>4. view[f].st = "sending" /\ view[f].acked + n <= view[f].accepted
  BY <1>1 DEF Sending, Seen, Visible
<1>5. Queue!Progress(f)
  BY <1>3, <1>4 DEF Queue!Progress, view, Seen
<1>6. TimeoutStep
  BY DEF TimeoutStep, OnlyChanged
<1> QED
  BY <1>1, <1>5, <1>6 DEF FileStep, Queue!Next, view, Seen

\* A client writes to its file, or closes it.
LEMMA AsWrite ==
    ASSUME NEW f \in DOMAIN g_transfers, OnlyChanged(f),
           g_transfers[f].ftx_state = "S_QUEUED",
           g_transfers'[f].ftx_state = "S_QUEUED",
           g_transfers'[f].ftx_error = g_transfers[f].ftx_error,
           g_transfers'[f].accepted > g_transfers[f].accepted,
           g_transfers'[f].acked = g_transfers[f].acked
    PROVE  FileStep
<1>1. /\ DOMAIN view = DOMAIN g_transfers
      /\ view[f] = Seen(g_transfers[f])
      /\ view' = [view EXCEPT ![f] = Seen(g_transfers'[f])]
  BY ViewChanged
<1>2. /\ view'[f] = Seen(g_transfers'[f])
      /\ view'[f] = [view[f] EXCEPT !.accepted = view'[f].accepted]
  BY <1>1 DEF Seen
<1>3. view' = [view EXCEPT ![f].accepted = view'[f].accepted]
  BY <1>1, <1>2
<1>4. view[f].st = "open" /\ view'[f].accepted > view[f].accepted
  BY <1>1, <1>2 DEF Seen, Visible
<1>5. Queue!Write(f)
  BY <1>3, <1>4 DEF Queue!Write, view, Seen
<1>6. TimeoutStep
  BY DEF TimeoutStep, OnlyChanged
<1> QED
  BY <1>1, <1>5, <1>6 DEF FileStep, Queue!Next, view, Seen

LEMMA AsClose ==
    ASSUME NEW f \in DOMAIN g_transfers, OnlyChanged(f),
           g_transfers[f].ftx_state = "S_QUEUED",
           g_transfers'[f].ftx_state = "S_READY",
           g_transfers'[f].ftx_error = g_transfers[f].ftx_error,
           g_transfers'[f].accepted = g_transfers[f].accepted,
           g_transfers'[f].acked = g_transfers[f].acked
    PROVE  FileStep
<1>1. /\ DOMAIN view = DOMAIN g_transfers
      /\ view[f] = Seen(g_transfers[f])
      /\ view' = [view EXCEPT ![f] = Seen(g_transfers'[f])]
  BY ViewChanged
<1>2. Seen(g_transfers'[f]) = [view[f] EXCEPT !.st = "closed"]
  BY <1>1 DEF Seen, Visible
<1>3. view' = [view EXCEPT ![f].st = "closed"]
  BY <1>1, <1>2
<1>4. view[f].st = "open"
  BY <1>1 DEF Seen, Visible
<1>5. Queue!Close(f)
  BY <1>3, <1>4 DEF Queue!Close, view, Seen
<1>6. TimeoutStep
  BY DEF TimeoutStep, OnlyChanged
<1> QED
  BY <1>1, <1>5, <1>6 DEF FileStep, Queue!Next, view, Seen

\* A file is opened.
LEMMA AsOpen ==
    ASSUME g_transfers \in Seq(Transfers),
           g_transfers' = Append(g_transfers, NewTransfer)
    PROVE  FileStep
<1> DEFINE n == Len(g_transfers)
           new == [st |-> "open", accepted |-> 0, acked |-> 0]
<1>1. n \in Nat /\ DOMAIN g_transfers = 1 .. n
  OBVIOUS
<1>2. /\ DOMAIN g_transfers' = 1 .. n + 1
      /\ \A g \in 1 .. n : g_transfers'[g] = g_transfers[g]
      /\ g_transfers'[n + 1] = NewTransfer
  OBVIOUS
<1>3. Seen(NewTransfer) = new
  BY DEF Seen, NewTransfer, Visible
<1> HIDE DEF new
<1>4. view \in Seq({Seen(g_transfers[f]) : f \in DOMAIN g_transfers}) /\ Len(view) = n
  BY <1>1 DEF view
<1>5. view' = [g \in 1 .. n + 1 |-> IF g \in 1 .. n THEN view[g] ELSE new]
  <2>1. \A g \in 1 .. n + 1 : g \in 1 .. n \/ g = n + 1
    BY <1>1
  <2> QED
    BY <1>1, <1>2, <1>3, <2>1 DEF view
<1>6. view' = Append(view, new)
  <2>1. PICK S : view \in Seq(S) /\ new \in S
    <3>1. view \in Seq({Seen(g_transfers[f]) : f \in DOMAIN g_transfers} \cup {new})
      BY <1>4
    <3> QED
      BY <3>1
  <2>2. \A s \in Seq(S) : \A x \in S :
           /\ Append(s, x) \in Seq(S) /\ Len(Append(s, x)) = Len(s) + 1
           /\ \A g \in 1 .. Len(s) : Append(s, x)[g] = s[g]
           /\ Append(s, x)[Len(s) + 1] = x
    OBVIOUS
  <2> DEFINE a == Append(view, new)
  <2> HIDE DEF n
  <2>3. /\ a \in Seq(S) /\ Len(a) = n + 1 /\ a[n + 1] = new
        /\ \A g \in 1 .. n : a[g] = view[g]
    BY <1>4, <2>1, <2>2
  <2> HIDE DEF a
  <2>4. a = [g \in 1 .. n + 1 |-> a[g]]
    BY <2>3
  <2>5. \A g \in 1 .. n + 1 : a[g] = IF g \in 1 .. n THEN view[g] ELSE new
    <3>1. \A g \in 1 .. n + 1 : g \in 1 .. n \/ g = n + 1
      BY <1>1
    <3>2. n + 1 \notin 1 .. n
      BY <1>1
    <3> QED
      BY <2>3, <3>1, <3>2
  <2> QED
    BY <1>5, <2>4, <2>5 DEF a
<1>7. Queue!Open
  BY <1>6 DEF Queue!Open, view, Seen, new
<1>8. TimeoutStep
  BY <1>1, <1>2 DEF TimeoutStep
<1> QED
  BY <1>7, <1>8 DEF FileStep, Queue!Next

------------------------------------------------------------------------------
(* Nothing undefined happens *)

\* All that is known before a step of a patient handler.
Settled == Before /\ WriteOK /\ PatientOK

\* While outpkt is taken no request is in use, but when a file has joined.
LEMMA OutAlone ==
    ASSUME Settled, GetMsg("out"),
           outpkt.dp_Type # "SEND_NEXT_FILE" \/ MayStart
    PROVE  /\ ~Pending(sreq) /\ treq = "idle" /\ owed = NoInternal
           /\ \A c \in Clients : ~Ending(c)
           /\ Requeued(Tail(port)) = {} /\ Resent = {}
           /\ "out" \in ToSet(port) /\ g_running
<1>1. "out" \in ToSet(port)
  BY Taken DEF Settled, Before, Msgs
<1>2. /\ ~Pending(sreq) /\ treq = "idle" /\ \A c \in Clients : ~Ending(c)
  <2>1. AloneOK /\ RequestsOK /\ SenderOK
    BY DEF Settled, PatientOK
  <2>2. ~Pending(sreq)
    BY <1>1, <2>1 DEF AloneOK, SenderOK, AtRest, Joining, MayStart
  <2> QED
    BY <1>1, <2>1, <2>2 DEF AloneOK, RequestsOK
<1>3. "out" \notin ToSet(Tail(port))
  BY OutTaken DEF Settled
<1> QED
  BY <1>1, <1>2, <1>3 DEF GetMsg, Requeued, Resent, Pending

\* While a request completes, or its timer has expired, outpkt is idle.
LEMMA RequestAlone ==
    ASSUME Settled, NEW m \in {"sreq", "treq"}, GetMsg(m)
    PROVE  /\ Pending(sreq) /\ "out" \notin ToSet(port) /\ AtRest
           /\ g_busy /\ g_running /\ (m = "treq" => ftx = iopkt1.dp_Arg1)
           /\ iopkt1.dp_Arg1 \in DOMAIN g_transfers /\ Sending(iopkt1.dp_Arg1)
<1>1. m \in Msgs /\ MsgInv /\ undef = {} /\ PacketsOK
  BY DEF Msgs, Settled, Before, FileInv
<1>2. m \in ToSet(port)
  BY <1>1, Taken
<1>3. /\ Pending(sreq) /\ (sreq.st = "replied" \/ treq = "expired")
      /\ m = "treq" => treq = "expired"
  BY <1>1, <1>2 DEF MsgInv, MessagesOnce, Settled, PatientOK, RequestsOK, Pending
<1>4. iopkt1.dp_Arg1 \in DOMAIN g_transfers
  BY <1>1, <1>3 DEF PacketsOK, IoPacketOK
<1>5. /\ g_busy /\ Sending(iopkt1.dp_Arg1)
      /\ m = "treq" => ftx = iopkt1.dp_Arg1
  BY <1>3, <1>4 DEF Settled, PatientOK, SenderOK
<1>6. "out" \notin ToSet(port) /\ AtRest
  BY <1>3 DEF Settled, PatientOK, AloneOK, AtRest, Joining
<1> QED
  BY <1>3, <1>4, <1>5, <1>6 DEF GetMsg

\* A completed request is in order.
LEMMA ReplyAlone ==
    ASSUME Settled, GetMsg("sreq")
    PROVE  LET p == StopTimer(Tail(port)) IN
           /\ p \in Seq(Msgs) /\ "out" \notin ToSet(p) /\ Requeued(p) = {}
           /\ CheckIO /\ ~sreq.failed /\ sreq.ans # BadFrame
<1>1. /\ StopTimer(Tail(port)) \in Seq(Msgs) /\ CheckIO
      /\ "out" \in ToSet(StopTimer(Tail(port))) <=> "out" \in ToSet(port)
  BY Completed DEF Settled, Before
<1>2. "out" \notin ToSet(port)
  BY RequestAlone
<1>3. ~sreq.failed /\ sreq.ans # BadFrame
  BY DEF Settled, PatientOK, RequestsOK
<1> QED
  BY <1>1, <1>2, <1>3 DEF Requeued

LEMMA TimeoutAlone ==
    ASSUME Settled, GetMsg("treq")
    PROVE  LET p == AbortSerial(Tail(port)) IN
           /\ p \in Seq(Msgs) /\ "out" \notin ToSet(p) /\ Requeued(p) = {}
           /\ ftx # 0
<1>1. MsgInv /\ undef = {} /\ "treq" \in Msgs /\ g_transfers \in Seq(Transfers)
  BY DEF Settled, Before, Msgs, FileInv, TypeOK
<1>2. /\ "out" \notin ToSet(port) /\ ftx = iopkt1.dp_Arg1
      /\ iopkt1.dp_Arg1 \in DOMAIN g_transfers
  BY RequestAlone
<1>3. /\ Unlink(Tail(port), "sreq") \in Seq(Msgs)
      /\ ToSet(Unlink(Tail(port), "sreq")) = ToSet(port) \ {"treq", "sreq"}
  BY <1>1, TakenUnlinked
<1>4. ftx # 0
  BY <1>1, <1>2
<1> QED
  BY <1>2, <1>3, <1>4 DEF Requeued, AbortSerial

\* No operation of the next step is undefined.
LEMMA StepDefined ==
    ASSUME Settled, Next
    PROVE  undef' = {}
<1>1. undef = {}
  BY DEF Next
<1>2. CASE SendOwed
  <2>1. "out" \notin ToSet(port)
    BY <1>2 DEF SendOwed, Settled, PatientOK, AloneOK
  <2> QED
    BY <1>2, <2>1 DEF SendOwed, Requeued
<1>3. CASE SendNextFile
  BY <1>1, <1>3, OutAlone DEF SendNextFile, Internal, Transmit
<1>4. CASE SendNextBuffer \/ ContinueBuffer
  BY <1>4, OutAlone DEF SendNextBuffer, ContinueBuffer, Internal, SendBlock,
     Transmit
<1>5. CASE FileDone \/ BufferFinished
  BY <1>5, OutAlone DEF FileDone, BufferFinished, Internal
<1>6. CASE WriteReturn
  <2>1. GetMsg("sreq")
    BY <1>6 DEF WriteReturn
  <2> QED
    BY <1>6, <2>1, ReplyAlone DEF WriteReturn
<1>7. CASE ReadReturn
  <2>1. GetMsg("sreq")
    BY <1>7 DEF ReadReturn
  <2> QED
    BY <1>7, <2>1, ReplyAlone DEF ReadReturn, Answered
<1>8. CASE TimerExpired
  <2>1. GetMsg("treq")
    BY <1>8 DEF TimerExpired
  <2> QED
    BY <1>8, <2>1, TimeoutAlone DEF TimerExpired
<1>9. CASE Exit
  <2>1. sreq.st = "idle" /\ treq = "idle"
    BY <1>9 DEF Exit, Settled, PatientOK, RequestsOK, Pending
  <2> QED
    BY <1>9, <2>1 DEF Exit, InUse
<1>10. CASE \E c \in Clients :
              FindOutput(c) \/ Write(c) \/ End(c) \/ Die(c) \/ Other(c)
  BY <1>1, <1>10 DEF FindOutput, Write, End, Die, Other
<1>11. CASE Device
  BY <1>1, <1>11 DEF Device, WriteDone, ReadDone, SerialError, SerialReplies,
     TimerFires
<1>12. CASE Client
  BY <1>1, <1>12 DEF Client, ClientOpen, ClientWrite, ClientClose,
     ClientUnmount, ClientOther, SendPkt
<1> QED
  BY <1>2, <1>3, <1>4, <1>5, <1>6, <1>7, <1>8, <1>9, <1>10, <1>11, <1>12
  DEF Next, Handle

------------------------------------------------------------------------------
(* Steps that keep the invariant *)

\* A step that leaves the files, their sender and outpkt alone.
LEMMA SenderSame ==
    ASSUME SenderOK, UNCHANGED <<g_transfers, outpkt, g_busy, ftx, joined>>,
           iopkt1'.dp_Arg1 = iopkt1.dp_Arg1,
           treq' = "expired" => treq = "expired" \/ ~joined,
           "out" \in ToSet(port') <=> "out" \in ToSet(port),
           Pending(sreq') <=> Pending(sreq)
    PROVE  SenderOK'
BY DEF SenderOK, Out, Sending

\* File f is not sent any more, and no other is.
LEMMA SenderStops ==
    ASSUME NEW f, OnlyChanged(f),
           \A g \in DOMAIN g_transfers \ {f} : ~Sending(g),
           f \in DOMAIN g_transfers =>
              g_transfers'[f].ftx_state \notin {"S_WRQ_SENT", "S_DATA_SENT"},
           ~g_busy', ~Pending(sreq'),
           "out" \in ToSet(port') => outpkt'.dp_Type \notin BufferPackets
    PROVE  SenderOK'
BY DEF SenderOK, OnlyChanged, Sending, Out

\* File f is sent, and no other is.
LEMMA SenderGoesOn ==
    ASSUME NEW f \in DOMAIN g_transfers, OnlyChanged(f),
           \A g \in DOMAIN g_transfers \ {f} : ~Sending(g),
           g_transfers'[f].ftx_state \in {"S_WRQ_SENT", "S_DATA_SENT"},
           g_busy', iopkt1'.dp_Arg1 = f,
           \/ /\ Pending(sreq') /\ treq' = "running" /\ "out" \notin ToSet(port')
              /\ IF joined' THEN "queue" \in Env ELSE ftx' = f
           \/ /\ ~Pending(sreq') /\ "out" \in ToSet(port')
              /\ outpkt'.dp_Type \in BufferPackets /\ outpkt'.dp_Arg1 = f
    PROVE  SenderOK'
BY DEF SenderOK, OnlyChanged, Sending, Out

\* No open file is touched, and one that gets an error has failed.
LEMMA CleanKept ==
    ASSUME TypeOK, CleanOK, NEW f, OnlyChanged(f),
           \A c \in Clients : fh'[c] \in {fh[c], 0},
           f \in DOMAIN g_transfers =>
              /\ \/ \A c \in Clients : fh'[c] # f
                 \/ g_transfers'[f].ftx_state = "S_QUEUED"
              /\ g_transfers'[f].ftx_state # "S_ERROR"
                    => g_transfers'[f].ftx_error = "none",
           (owed' = NoInternal \/ owed'.dp_Type = "SEND_NEXT_FILE")
    PROVE  CleanOK'
<1>1. ASSUME NEW c \in Clients, fh'[c] # 0
      PROVE  g_transfers'[fh'[c]].ftx_state = "S_QUEUED"
  <2>1. fh'[c] = fh[c] /\ fh[c] \in FileRef /\ g_transfers \in Seq(Transfers)
    BY <1>1 DEF TypeOK
  <2>2. fh[c] \in DOMAIN g_transfers
    BY <1>1, <2>1 DEF FileRef
  <2>3. g_transfers[fh[c]].ftx_state = "S_QUEUED"
    BY <1>1, <2>1 DEF CleanOK
  <2>4. CASE fh[c] = f
    BY <2>1, <2>2, <2>4
  <2>5. CASE fh[c] # f
    BY <2>1, <2>2, <2>3, <2>5 DEF OnlyChanged
  <2> QED
    BY <2>4, <2>5
<1>2. \A g \in DOMAIN g_transfers' :
         g_transfers'[g].ftx_state # "S_ERROR" => g_transfers'[g].ftx_error = "none"
  BY DEF CleanOK, OnlyChanged
<1> QED
  BY <1>1, <1>2 DEF CleanOK

\* Nobody is left alone by an internal action: it hands over to one other.
LEMMA AloneKept ==
    ASSUME Settled, AtRest \/ "out" \in ToSet(port),
           UNCHANGED <<pkt, owed>>, ~(Pending(sreq') /\ "out" \in ToSet(port'))
    PROVE  AloneOK'
<1>1. owed' = NoInternal /\ \A c \in Clients : ~Ending(c)'
  BY DEF Settled, PatientOK, AloneOK, AtRest, Ending
<1>2. Pending(sreq') => AtRest'
  BY <1>1 DEF AtRest, Ending
<1> QED
  BY <1>1, <1>2 DEF AloneOK

\* The requests are used together.
LEMMA RequestsKept ==
    ASSUME Settled, g_running',
           \/ sreq' = IdleReq /\ treq' = "idle"
           \/ sreq' = sreq /\ treq' = treq
           \/ sreq' = ReadReq /\ treq' = "running"
           \/ (\E frame : sreq' = WriteReq(frame)) /\ treq' = "running"
    PROVE  RequestsOK'
<1>1. /\ IdleReq.st = "idle" /\ ~IdleReq.failed /\ IdleReq.ans # BadFrame
      /\ ReadReq.st = "active" /\ ~ReadReq.failed /\ ReadReq.ans # BadFrame
      /\ \A frame : /\ WriteReq(frame).st = "active"
                    /\ ~WriteReq(frame).failed /\ WriteReq(frame).ans # BadFrame
  BY DEF IdleReq, ReadReq, WriteReq, NoAnswer, BadFrame
<1>2. CASE sreq' = sreq /\ treq' = treq
  BY <1>2 DEF RequestsOK, Settled, PatientOK, Pending
<1>3. CASE sreq' = IdleReq /\ treq' = "idle"
  BY <1>1, <1>3 DEF RequestsOK, Pending
<1>4. CASE sreq' = ReadReq /\ treq' = "running"
  BY <1>1, <1>4 DEF RequestsOK, Pending
<1>5. CASE (\E frame : sreq' = WriteReq(frame)) /\ treq' = "running"
  BY <1>1, <1>5 DEF RequestsOK, Pending
<1> QED
  BY <1>2, <1>3, <1>4, <1>5

\* No file is being sent: the loop has nothing to wait for.
LEMMA NoSender ==
    ASSUME Settled, ~g_busy
    PROVE  \A g \in DOMAIN g_transfers : ~Sending(g)
BY DEF Settled, PatientOK, SenderOK

LEMMA OtherSenders ==
    ASSUME Settled, NEW f, f = iopkt1.dp_Arg1
    PROVE  \A g \in DOMAIN g_transfers \ {f} : ~Sending(g)
BY DEF Settled, PatientOK, SenderOK

\* A file being sent, or about to be, is not open.
LEMMA NotOpen ==
    ASSUME Settled, NEW f \in DOMAIN g_transfers,
           g_transfers[f].ftx_state # "S_QUEUED"
    PROVE  \A c \in Clients : fh[c] # f
<1>1. f # 0
  BY DEF Settled, Before, FileInv, TypeOK
<1> QED
  BY <1>1 DEF Settled, PatientOK, CleanOK

\* The devices reply their requests, without errors.
LEMMA DevicePatient ==
    ASSUME PatientEnv, Settled, undef' = {}, Device
    PROVE  PatientOK' /\ FileStep
<1>1. TypeOK /\ MsgInv /\ AloneOK /\ RequestsOK /\ SenderOK /\ CleanOK
  BY DEF Settled, Before, FileInv, PatientOK
<1>2. ASSUME "out" \in ToSet(port') <=> "out" \in ToSet(port),
             UNCHANGED <<g_transfers, outpkt, owed, ftx, pkt, fh, iopkt1, g_busy,
                         joined>>,
             Pending(sreq), Pending(sreq'), RequestsOK', Unhurried,
             treq' = "expired" => treq = "expired" \/ ~joined
      PROVE  PatientOK' /\ FileStep
  <2>1. AloneOK'
    <3>1. AtRest
      BY <1>1, <1>2 DEF AloneOK, Joining, Unhurried
    <3>2. AtRest' /\ "out" \notin ToSet(port')
      BY <1>2, <3>1 DEF AtRest
    <3> QED
      BY <3>2 DEF AloneOK, AtRest, Ending
  <2>2. SenderOK'
    BY <1>1, <1>2, SenderSame
  <2>3. CleanOK'
    BY <1>1, <1>2 DEF CleanOK
  <2>4. OnlyChanged(0)
    BY <1>2 DEF OnlyChanged
  <2>5. FileStep
    BY <1>2, <2>4, AsStutter
  <2> QED
    BY <1>2, <2>1, <2>2, <2>3, <2>5 DEF PatientOK
<1>3. ASSUME NEW ans, ans # BadFrame, SerialReplies(FALSE, ans)
      PROVE  PatientOK' /\ FileStep
  <2>1. "out" \in ToSet(port') <=> "out" \in ToSet(port)
    BY <1>1, <1>3, OthersMessage DEF SerialReplies, Msgs
  <2>2. /\ sreq'.st = "replied" /\ ~sreq'.failed /\ sreq'.ans = ans
        /\ Pending(sreq) /\ Pending(sreq')
    BY <1>1, <1>3 DEF SerialReplies, TypeOK, Requests, Pending
  <2>3. RequestsOK'
    BY <1>1, <1>3, <2>2 DEF SerialReplies, RequestsOK, loopVars
  <2> QED
    BY <1>2, <1>3, <2>1, <2>2, <2>3 DEF SerialReplies, clientVars, loopVars
<1>4. CASE TimerFires
  <2>1. "out" \in ToSet(port') <=> "out" \in ToSet(port)
    BY <1>1, <1>4, OthersMessage DEF TimerFires, Msgs
  <2>2. RequestsOK'
    BY <1>1, <1>4 DEF TimerFires, RequestsOK, loopVars, Pending
  <2>3. Pending(sreq) /\ Pending(sreq') /\ ~joined
    BY <1>1, <1>4 DEF TimerFires, RequestsOK, SenderOK
  <2> QED
    BY <1>2, <1>4, <2>1, <2>2, <2>3 DEF TimerFires, clientVars, loopVars
<1>5. \A a \in Readable \cup {NoAnswer} : a # BadFrame
  BY DEF PatientEnv, Readable, Answers, BadFrame, NoAnswer
<1> QED
  BY <1>3, <1>4, <1>5 DEF Device, WriteDone, ReadDone, SerialError, PatientEnv

\* A client unmounts only when all is quiet, and closes a file then or while
\* serial.device is at work.
LEMMA ClientPatient ==
    ASSUME PatientEnv, Settled, undef' = {}, Client
    PROVE  PatientOK' /\ FileStep
<1>1. TypeOK /\ MsgInv /\ AloneOK /\ RequestsOK /\ SenderOK /\ CleanOK
  BY DEF Settled, Before, FileInv, PatientOK
<1>2. Patient => Quiet
  BY DEF Patient, PatientEnv
<1>3. ASSUME NEW c \in Clients, NEW type, NEW len, SendPkt(c, type, len),
             type = "DIE" => Quiet, type = "END" => MayClose
      PROVE  PatientOK' /\ FileStep
  <2>1. "out" \in ToSet(port') <=> "out" \in ToSet(port)
    BY <1>1, <1>3, OthersMessage, ClientsAssumption DEF SendPkt, Msgs
  <2>2. UNCHANGED <<g_transfers, outpkt, owed, ftx, fh, iopkt1, sreq, treq,
                    g_busy, g_running, dn_Task, joined>>
    BY <1>3 DEF SendPkt, ioVars, loopVars
  <2>3. \A d \in Clients :
           pkt'[d].dp_Type = IF d = c THEN type ELSE pkt[d].dp_Type
    BY <1>1, <1>3 DEF SendPkt, TypeOK
  <2>4. AloneOK'
    <3>1. CASE type \in {"END", "DIE"}
      <4>1. AtRest /\ (Pending(sreq) => /\ type = "END" /\ "queue" \in Env
                                        /\ sreq.st = "active" /\ treq = "running")
        BY <1>3, <1>2, <3>1 DEF Quiet, MayClose, Pending
      <4>2. /\ owed' = NoInternal /\ "out" \notin ToSet(port')
            /\ \A d \in Clients : Ending(d)' <=> d = c
        BY <2>1, <2>2, <2>3, <3>1, <4>1 DEF AtRest, Ending
      <4>3. Pending(sreq') => Joining'
        BY <2>2, <2>3, <4>1, <4>2 DEF Joining, AtRest
      <4> QED
        BY <4>2, <4>3 DEF AloneOK
    <3>2. CASE type \notin {"END", "DIE"}
      <4>1. \A d \in Clients : Ending(d)' => Ending(d)
        BY <2>3, <3>2 DEF Ending
      <4>2. (AtRest => AtRest') /\ (Joining => Joining')
        BY <2>1, <2>2, <2>3, <3>2 DEF AtRest, Joining
      <4> QED
        BY <1>1, <2>1, <2>2, <4>1, <4>2 DEF AloneOK
    <3> QED
      BY <3>1, <3>2
  <2>5. RequestsOK'
    BY <1>1, <2>2 DEF RequestsOK
  <2>6. SenderOK'
    BY <1>1, <2>1, <2>2, SenderSame
  <2>7. CleanOK'
    BY <1>1, <2>2 DEF CleanOK
  <2>8. OnlyChanged(0)
    BY <2>2 DEF OnlyChanged
  <2>9. FileStep
    BY <2>2, <2>8, AsStutter
  <2> QED
    BY <2>4, <2>5, <2>6, <2>7, <2>9 DEF PatientOK
<1> QED
  BY <1>3, <1>2 DEF Client, ClientOpen, ClientWrite, ClientClose,
     ClientUnmount, ClientOther

\* The end of entry()
LEMMA ExitPatient ==
    ASSUME Settled, undef' = {}, Exit \/ UNCHANGED vars
    PROVE  PatientOK' /\ FileStep
<1>1. AloneOK /\ RequestsOK /\ SenderOK /\ CleanOK
  BY DEF Settled, PatientOK
<1>2. UNCHANGED <<port, g_transfers, outpkt, owed, ftx, pkt, fh, iopkt1, sreq,
                  treq, g_busy, g_running, dn_Task, joined>>
  BY DEF Exit, vars, clientVars, ioVars, loopVars
<1>3. SenderOK'
  BY <1>1, <1>2, SenderSame
<1>4. AloneOK' /\ RequestsOK' /\ CleanOK'
  BY <1>1, <1>2 DEF AloneOK, AtRest, Joining, RequestsOK, CleanOK, Ending
<1>5. OnlyChanged(0)
  BY <1>2 DEF OnlyChanged
<1>6. FileStep
  BY <1>2, <1>5, AsStutter
<1> QED
  BY <1>3, <1>4, <1>6 DEF PatientOK

\* A client's packet is answered: it does not end anything any more.
LEMMA ReturnedAlone ==
    ASSUME Settled, NEW c \in Clients, Return(c)
    PROVE  /\ \A d \in Clients : Ending(d)' => Ending(d) /\ d # c
           /\ Ending(c) => \A d \in Clients : ~Ending(d)'
<1>1. pkt \in [Clients -> [dp_Type : PacketTypes \cup {"none"},
                           len : WriteLens \cup {0}]]
  BY DEF Settled, Before, FileInv, TypeOK
<1>2. \A d \in Clients : pkt'[d] = IF d = c THEN NoPacket ELSE pkt[d]
  BY <1>1 DEF Return
<1>3. \A d \in Clients : Ending(d)' => Ending(d) /\ d # c
  BY <1>2 DEF Ending, NoPacket
<1> QED
  BY <1>3 DEF Settled, PatientOK, AloneOK

LEMMA AloneReturned ==
    ASSUME Settled, NEW c \in Clients, Return(c),
           "out" \in ToSet(port') <=> "out" \in ToSet(port),
           UNCHANGED <<outpkt, owed, sreq, treq>>
    PROVE  AloneOK'
<1>1. AloneOK /\ pkt \in [Clients -> [dp_Type : PacketTypes \cup {"none"},
                                      len : WriteLens \cup {0}]]
  BY DEF Settled, Before, FileInv, TypeOK, PatientOK
<1>2. \A d \in Clients : pkt'[d].dp_Type \in {pkt[d].dp_Type, "none"}
  BY <1>1 DEF Return, NoPacket
<1>3. (AtRest => AtRest') /\ (Joining => Joining')
  BY <1>2 DEF AtRest, Joining
<1>4. \A d \in Clients : Ending(d)' => Ending(d)
  BY <1>2 DEF Ending
<1> QED
  BY <1>1, <1>3, <1>4 DEF AloneOK

\* do_find_output()
LEMMA FindOutputPatient ==
    ASSUME Settled, undef' = {}, NEW c \in Clients, FindOutput(c)
    PROVE  PatientOK' /\ FileStep
<1>1. /\ TypeOK /\ MsgInv /\ AloneOK /\ RequestsOK /\ SenderOK /\ CleanOK
      /\ undef = {}
  BY DEF Settled, Before, FileInv, PatientOK
<1>2. GetMsg(c) /\ Return(c)
  BY DEF FindOutput
<1>3. "out" \in ToSet(port') <=> "out" \in ToSet(port)
  BY <1>1, <1>2, ClientPacketTaken DEF FindOutput
<1>4. UNCHANGED <<outpkt, owed, ftx, iopkt1, sreq, treq, g_busy, g_running,
                  dn_Task, joined>>
  BY DEF FindOutput, ioVars, loopVars
<1>5. AloneOK'
  BY <1>2, <1>3, <1>4, AloneReturned
<1>6. RequestsOK'
  BY <1>1, <1>4 DEF RequestsOK
<1>7. CASE UNCHANGED <<g_transfers, fh>>
  <2>1. SenderOK'
    BY <1>1, <1>3, <1>4, <1>7, SenderSame
  <2>2. CleanOK'
    BY <1>1, <1>4, <1>7 DEF CleanOK
  <2>3. OnlyChanged(0)
    BY <1>7 DEF OnlyChanged
  <2>4. FileStep
    BY <1>7, <2>3, AsStutter
  <2> QED
    BY <1>5, <1>6, <2>1, <2>2, <2>4 DEF PatientOK
<1>8. CASE /\ g_transfers' = Append(g_transfers, NewTransfer)
           /\ fh' = [fh EXCEPT ![c] = Len(g_transfers) + 1]
  <2>0. PICK n : n = Len(g_transfers)
    OBVIOUS
  <2>1. /\ g_transfers \in Seq(Transfers) /\ n \in Nat
        /\ DOMAIN g_transfers = 1 .. n /\ fh \in [Clients -> 0 .. n]
        /\ iopkt1.dp_Arg1 \in 0 .. n
    BY <1>1, <2>0 DEF TypeOK, FileRef
  <2>2. /\ DOMAIN g_transfers' = 1 .. n + 1
        /\ \A g \in 1 .. n : g_transfers'[g] = g_transfers[g]
        /\ g_transfers'[n + 1] = NewTransfer
    BY <1>8, <2>0, <2>1
  <2>3. \A d \in Clients : fh'[d] = IF d = c THEN n + 1 ELSE fh[d]
    BY <1>8, <2>0, <2>1
  <2>4. \A g \in 1 .. n + 1 : g \in 1 .. n \/ g = n + 1
    BY <2>1
  <2>5. iopkt1.dp_Arg1 # n + 1 /\ ~Sending(n + 1)'
    BY <2>1, <2>2 DEF Sending, NewTransfer
  <2>6. SenderOK'
    <3>1. \A g \in 1 .. n : Sending(g)' <=> Sending(g)
      BY <2>2 DEF Sending
    <3> QED
      BY <1>1, <1>3, <1>4, <2>1, <2>2, <2>4, <2>5, <3>1 DEF SenderOK, Out
  <2>7. CleanOK'
    <3>1. \A d \in Clients : fh'[d] # 0
             => g_transfers'[fh'[d]].ftx_state = "S_QUEUED"
      <4> SUFFICES ASSUME NEW d \in Clients, fh'[d] # 0
                   PROVE  g_transfers'[fh'[d]].ftx_state = "S_QUEUED"
        OBVIOUS
      <4>1. CASE d = c
        BY <2>2, <2>3, <4>1 DEF NewTransfer
      <4>2. CASE d # c
        <5>1. fh'[d] = fh[d] /\ fh[d] \in 1 .. n
          BY <2>1, <2>3, <4>2
        <5> QED
          BY <1>1, <2>2, <5>1 DEF CleanOK
      <4> QED
        BY <4>1, <4>2
    <3>2. \A g \in 1 .. n + 1 :
             g_transfers'[g].ftx_state # "S_ERROR" => g_transfers'[g].ftx_error = "none"
      BY <1>1, <2>1, <2>2, <2>4 DEF CleanOK, NewTransfer
    <3> QED
      BY <1>1, <1>4, <2>2, <3>1, <3>2 DEF CleanOK
  <2>8. FileStep
    BY <1>8, <2>1, AsOpen
  <2> QED
    BY <1>5, <1>6, <2>6, <2>7, <2>8 DEF PatientOK
<1> QED
  BY <1>7, <1>8 DEF FindOutput

\* do_write(), with enough memory
LEMMA WritePatient ==
    ASSUME PatientEnv, Settled, undef' = {}, NEW c \in Clients, Write(c)
    PROVE  PatientOK' /\ FileStep
<1>1. /\ TypeOK /\ MsgInv /\ AloneOK /\ RequestsOK /\ SenderOK /\ CleanOK
      /\ undef = {} /\ g_transfers \in Seq(Transfers)
  BY DEF Settled, Before, FileInv, PatientOK, TypeOK
<1>2. GetMsg(c) /\ Return(c)
  BY DEF Write
<1>3. "out" \in ToSet(port') <=> "out" \in ToSet(port)
  BY <1>1, <1>2, ClientPacketTaken DEF Write
<1>4. PICK f : f = fh[c]
  OBVIOUS
<1>5. /\ QueueBuffer(f, pkt[c].len)
      /\ UNCHANGED <<fh, outpkt, owed, ftx, iopkt1, sreq, treq, g_busy,
                     g_running, dn_Task, joined>>
  BY <1>4 DEF Write, PatientEnv, ioVars, loopVars
<1> DEFINE t == g_transfers[f]
           len == pkt[c].len
           b == NewBuffer(t.accepted, len)
           r == [t EXCEPT !.ftx_buffers = Append(@, b), !.accepted = @ + len]
<1>6. f # 0 /\ f \in DOMAIN g_transfers /\ t \in Transfers
  BY <1>4, ClientsFile DEF Settled, Write
<1>7. t.ftx_state = "S_QUEUED"
  BY <1>1, <1>4, <1>6 DEF CleanOK
<1>8. len \in WriteLens /\ len \in Nat
  BY SizesAssumption DEF Settled, WriteOK, Write
<1>9. g_transfers' = [g_transfers EXCEPT ![f] = r]
  BY <1>5 DEF QueueBuffer
<1>10. /\ r.ftx_state = t.ftx_state /\ r.ftx_error = t.ftx_error
       /\ r.acked = t.acked /\ r.accepted = t.accepted + len
  BY <1>6 DEF Transfers
<1> HIDE DEF r, len
<1>11. OnlyChanged(f) /\ g_transfers'[f] = r
  BY <1>1, <1>6, <1>9, RecordChanged
<1>12. r.accepted = t.accepted \/ r.accepted > t.accepted
  BY <1>6, <1>8, <1>10 DEF Transfers
<1>13. AloneOK'
  BY <1>2, <1>3, <1>5, AloneReturned
<1>14. RequestsOK'
  BY <1>1, <1>5 DEF RequestsOK
<1>15. \A g \in DOMAIN g_transfers : g_transfers'[g].ftx_state = g_transfers[g].ftx_state
  BY <1>10, <1>11 DEF OnlyChanged
<1>16. SenderOK'
  BY <1>1, <1>3, <1>5, <1>11, <1>15 DEF SenderOK, Sending, Out, OnlyChanged
<1>17. CleanOK'
  <2>1. r.ftx_error = "none"
    BY <1>1, <1>6, <1>7, <1>10 DEF CleanOK
  <2>2. (owed' = NoInternal \/ owed'.dp_Type = "SEND_NEXT_FILE")
    BY <1>1, <1>5 DEF CleanOK
  <2> QED
    BY <1>1, <1>5, <1>7, <1>10, <1>11, <2>1, <2>2, CleanKept
<1>18. FileStep
  <2>1. CASE r.accepted = t.accepted
    BY <1>10, <1>11, <2>1, AsStutter
  <2>2. CASE r.accepted > t.accepted
    BY <1>6, <1>7, <1>10, <1>11, <2>2, AsWrite
  <2> QED
    BY <1>12, <2>1, <2>2
<1> QED
  BY <1>13, <1>14, <1>16, <1>17, <1>18 DEF PatientOK

\* ACTION_END
LEMMA EndPatient ==
    ASSUME Settled, undef' = {}, NEW c \in Clients, End(c)
    PROVE  PatientOK' /\ FileStep
<1>1. /\ TypeOK /\ MsgInv /\ AloneOK /\ RequestsOK /\ SenderOK /\ CleanOK
      /\ undef = {} /\ g_transfers \in Seq(Transfers)
  BY DEF Settled, Before, FileInv, PatientOK, TypeOK
<1>2. GetMsg(c) /\ Return(c) /\ Ending(c)
  BY DEF End, Ending
<1>3. /\ "out" \in ToSet(port') <=> "out" \in ToSet(port)
      /\ UNCHANGED <<outpkt, iopkt1, sreq, treq, g_busy, g_running, dn_Task>>
  BY <1>1, <1>2, ClientPacketTaken DEF End, ioVars, loopVars
<1>4. "out" \notin ToSet(port) /\ (Pending(sreq) => Joining)
  BY <1>1, <1>2 DEF AloneOK, AtRest, Ending
<1>5. PICK f : f = fh[c]
  OBVIOUS
<1> DEFINE t == g_transfers[f]
           r == [t EXCEPT !.ftx_state = "S_READY"]
<1>6. f # 0 /\ f \in DOMAIN g_transfers /\ t \in Transfers
  BY <1>5, ClientsFile DEF Settled, End
<1>7. t.ftx_state = "S_QUEUED" /\ t.ftx_error = "none"
  BY <1>1, <1>5, <1>6 DEF CleanOK
<1>8. g_transfers' = [g_transfers EXCEPT ![f] = r]
  BY <1>5 DEF End
<1>9. /\ r.ftx_state = "S_READY" /\ r.ftx_error = t.ftx_error
      /\ r.acked = t.acked /\ r.accepted = t.accepted
  BY <1>6 DEF Transfers
<1> HIDE DEF r
<1>10. OnlyChanged(f) /\ g_transfers'[f] = r
  BY <1>1, <1>6, <1>8, RecordChanged
<1>11. AloneOK'
  <2>1. \A d \in Clients : ~Ending(d)'
    BY <1>2, ReturnedAlone
  <2>2. Joining => Joining'
    BY <1>3, <1>4, <2>1 DEF Joining, Ending
  <2> QED
    BY <1>3, <1>4, <2>1, <2>2 DEF AloneOK
<1>12. RequestsOK'
  BY <1>1, <1>3 DEF RequestsOK
<1>13. SenderOK'
  <2>1. \A g \in DOMAIN g_transfers : Sending(g)' <=> Sending(g)
    BY <1>7, <1>9, <1>10 DEF Sending, OnlyChanged
  <2>2. joined' /\ (Pending(sreq) => "queue" \in Env /\ treq # "expired")
    BY <1>4 DEF End, Joining
  <2> QED
    BY <1>1, <1>3, <1>4, <1>10, <2>1, <2>2 DEF SenderOK, Out, OnlyChanged
<1>14. CleanOK'
  <2>1. \A d \in Clients : fh'[d] = IF d = c THEN 0 ELSE fh[d]
    BY <1>1 DEF End, TypeOK
  <2>2. \A d \in Clients : fh'[d] # f
    BY <1>5, <1>6, <2>1 DEF Settled, Before, TransferOK, OpenOK
  <2>3. owed'.dp_Type = "SEND_NEXT_FILE"
    BY DEF End
  <2> QED
    BY <1>1, <1>7, <1>9, <1>10, <2>1, <2>2, <2>3, CleanKept
<1>15. FileStep
  BY <1>6, <1>7, <1>9, <1>10, AsClose
<1> QED
  BY <1>11, <1>12, <1>13, <1>14, <1>15 DEF PatientOK

\* ACTION_DIE, when nothing is going on, and the actions without effect
LEMMA DiePatient ==
    ASSUME Settled, undef' = {}, NEW c \in Clients, Die(c) \/ Other(c)
    PROVE  PatientOK' /\ FileStep
<1>1. /\ TypeOK /\ MsgInv /\ AloneOK /\ RequestsOK /\ SenderOK /\ CleanOK
      /\ undef = {}
  BY DEF Settled, Before, FileInv, PatientOK
<1>2. GetMsg(c) /\ Return(c)
  BY DEF Die, Other
<1>3. /\ "out" \in ToSet(port') <=> "out" \in ToSet(port)
      /\ UNCHANGED <<g_transfers, fh, outpkt, owed, ftx, iopkt1, treq, g_busy,
                     joined>>
  BY <1>1, <1>2, ClientPacketTaken DEF Die, Other, SendNothing, ioVars, loopVars
<1>6. /\ RequestsOK' /\ AloneOK'
      /\ Pending(sreq') <=> Pending(sreq)
  <2>1. CASE Die(c)
    <3>1. Ending(c)
      BY <2>1 DEF Die, Ending
    <3>2. ~Pending(sreq) /\ treq = "idle"
      BY <1>1, <2>1 DEF AloneOK, RequestsOK, AtRest, Joining, Die
    <3>3. sreq' = IdleReq /\ ~dn_Task'
      BY <2>1 DEF Die
    <3>4. ~Pending(sreq') /\ ~sreq'.failed /\ sreq'.ans # BadFrame
      BY <3>3 DEF Pending, IdleReq, NoAnswer, BadFrame
    <3>5. AloneOK'
      BY <1>1, <1>2, <1>3, <3>4, ReturnedAlone DEF AloneOK
    <3> QED
      BY <1>3, <3>2, <3>3, <3>4, <3>5 DEF RequestsOK
  <2>2. CASE Other(c)
    <3>1. UNCHANGED <<sreq, g_running, dn_Task>>
      BY <2>2 DEF Other, ioVars, loopVars
    <3>2. AloneOK'
      BY <1>2, <1>3, <3>1, AloneReturned
    <3> QED
      BY <1>1, <1>3, <3>1, <3>2 DEF RequestsOK
  <2> QED
    BY <2>1, <2>2
<1>8. SenderOK'
  BY <1>1, <1>3, <1>6, SenderSame
<1>9. CleanOK'
  BY <1>1, <1>3 DEF CleanOK
<1>10. OnlyChanged(0)
  BY <1>3 DEF OnlyChanged
<1>11. FileStep
  BY <1>3, <1>10, AsStutter
<1> QED
  BY <1>6, <1>8, <1>9, <1>11 DEF PatientOK

\* The packet sent after the reply.
LEMMA SendOwedPatient ==
    ASSUME Settled, undef' = {}, SendOwed
    PROVE  PatientOK' /\ FileStep
<1>1. /\ MsgInv /\ AloneOK /\ RequestsOK /\ SenderOK /\ CleanOK
  BY DEF Settled, Before, PatientOK
<1>2. /\ UNCHANGED <<g_transfers, fh, pkt, ftx, iopkt1, sreq, treq, g_busy,
                     g_running, dn_Task, joined>>
      /\ SendInternal(port, owed.dp_Type, owed.dp_Arg1) /\ owed' = NoInternal
      /\ owed # NoInternal
  BY DEF SendOwed, clientVars, ioVars, loopVars
<1>3. /\ "out" \notin ToSet(port) /\ (Pending(sreq) => Joining)
      /\ \A c \in Clients : ~Ending(c)
      /\ owed.dp_Type = "SEND_NEXT_FILE"
  BY <1>1, <1>2 DEF AloneOK, AtRest, CleanOK
<1>4. AloneOK'
  <2>1. outpkt'.dp_Type = "SEND_NEXT_FILE"
    BY <1>2, <1>3 DEF SendInternal
  <2>2. Joining => Joining'
    BY <1>2, <2>1 DEF Joining
  <2> QED
    BY <1>2, <1>3, <2>2 DEF AloneOK, Ending
<1>5. RequestsOK'
  BY <1>1, <1>2 DEF RequestsOK
<1>6. OnlyChanged(0)
  BY <1>2 DEF OnlyChanged
<1>7. SenderOK'
  <2>1. outpkt'.dp_Type \notin BufferPackets
    BY <1>2, <1>3 DEF SendInternal, BufferPackets
  <2> QED
    BY <1>1, <1>2, <1>3, <2>1 DEF SenderOK, Out, Sending
<1>8. CleanOK'
  BY <1>1, <1>2 DEF CleanOK, NoInternal
<1>9. FileStep
  BY <1>2, <1>6, AsStutter
<1> QED
  BY <1>4, <1>5, <1>7, <1>8, <1>9 DEF PatientOK

\* A packet for file f is sent, or sending it fails.  Its record is r by then.
LEMMA TransmitPatient ==
    ASSUME Settled, undef' = {}, GetMsg("out"), NEW f \in DOMAIN g_transfers,
           outpkt.dp_Type # "SEND_NEXT_FILE" \/ MayStart,
           NEW r \in Transfers, NEW frame, NEW busy, busy = TRUE,
           NEW state \in {"S_WRQ_SENT", "S_DATA_SENT"},
           Transmit([g_transfers EXCEPT ![f] = r], f, frame, state, busy),
           UNCHANGED <<pkt, fh, owed, g_running>>, ftx' = f, ~joined',
           iopkt1'.dp_Arg1 = f,
           \A g \in DOMAIN g_transfers \ {f} : ~Sending(g),
           r.ftx_error = g_transfers[f].ftx_error,
           g_transfers[f].ftx_error = "none",
           r.accepted = g_transfers[f].accepted, r.acked = g_transfers[f].acked,
           \/ LineUp(f) /\ state = "S_WRQ_SENT"
           \/ Sending(f) /\ state = "S_DATA_SENT"
    PROVE  PatientOK' /\ FileStep
<1> DEFINE t == [g_transfers EXCEPT ![f] = r]
<1>1. /\ TypeOK /\ CleanOK /\ g_transfers \in Seq(Transfers)
  BY DEF Settled, Before, FileInv, PatientOK, TypeOK
<1>2. /\ Tail(port) \in Seq(Msgs) /\ "out" \notin ToSet(Tail(port))
      /\ ~Pending(sreq) /\ g_running /\ "out" \in ToSet(port)
      /\ owed = NoInternal
  BY OutTaken, OutAlone DEF Settled
<1>3. \A c \in Clients : fh[c] # f
  <2>1. g_transfers[f].ftx_state # "S_QUEUED"
    BY DEF LineUp, FirstReady, Sending
  <2> QED
    BY <2>1, NotOpen
<1>4. (owed' = NoInternal \/ owed'.dp_Type = "SEND_NEXT_FILE")
  BY <1>1 DEF CleanOK
<1>5. CASE /\ StartIO(WriteReq(frame))
           /\ g_transfers' = [t EXCEPT ![f].ftx_state = state]
           /\ g_busy' = busy
           /\ SendNothing(Tail(port))
  <2> DEFINE q == [r EXCEPT !.ftx_state = state]
  <2>1. /\ q.ftx_state = state /\ q.ftx_error = r.ftx_error
        /\ q.acked = r.acked /\ q.accepted = r.accepted
    BY DEF Transfers
  <2>2. g_transfers' = [g_transfers EXCEPT ![f] = q]
    BY <1>1, <1>5
  <2> HIDE DEF q
  <2>3. OnlyChanged(f) /\ g_transfers'[f] = q
    BY <1>1, <2>2, RecordChanged
  <2>4. sreq' = WriteReq(frame) /\ treq' = "running" /\ "out" \notin ToSet(port')
    BY <1>2, <1>5 DEF StartIO, SendNothing
  <2>5. Pending(sreq')
    BY <2>4 DEF Pending, WriteReq, IdleReq
  <2>6. AloneOK'
    BY <1>2, <2>4, AloneKept
  <2>7. RequestsOK'
    BY <1>2, <2>4, RequestsKept
  <2>8. SenderOK'
    BY <1>5, <2>1, <2>3, <2>4, <2>5, SenderGoesOn
  <2>9. CleanOK'
    BY <1>1, <1>3, <1>4, <2>1, <2>3, CleanKept
  <2>10. FileStep
    <3>1. CASE LineUp(f) /\ state = "S_WRQ_SENT"
      BY <1>1, <2>1, <2>3, <3>1, AsStart
    <3>2. CASE Sending(f) /\ state = "S_DATA_SENT"
      <4>1. Visible(q.ftx_state) = "sending"
            /\ Visible(g_transfers[f].ftx_state) = "sending"
        BY <2>1, <3>2 DEF Visible, Sending
      <4> QED
        BY <2>1, <2>3, <4>1, AsStutter
    <3> QED
      BY <3>1, <3>2
  <2> QED
    BY <2>6, <2>7, <2>8, <2>9, <2>10 DEF PatientOK
<1>6. CASE /\ FailFile(t, f, "NETIO", Tail(port))
           /\ UNCHANGED <<sreq, treq>>
  <2> DEFINE q == [r EXCEPT !.ftx_state = "S_ERROR", !.ftx_error = "NETIO"]
  <2>1. /\ q.ftx_state = "S_ERROR" /\ q.ftx_error = "NETIO"
        /\ q.acked = r.acked /\ q.accepted = r.accepted
    BY DEF Transfers
  <2>2. g_transfers' = [g_transfers EXCEPT ![f] = q]
    BY <1>1, <1>6 DEF FailFile, Failed
  <2> HIDE DEF q
  <2>3. OnlyChanged(f) /\ g_transfers'[f] = q
    BY <1>1, <2>2, RecordChanged
  <2>4. ~g_busy' /\ outpkt'.dp_Type \notin BufferPackets
    BY <1>6 DEF FailFile, SendInternal, BufferPackets
  <2>5. AloneOK'
    BY <1>2, <1>6, AloneKept
  <2>6. RequestsOK'
    BY <1>2, <1>6, RequestsKept
  <2>7. SenderOK'
    BY <1>2, <1>6, <2>1, <2>3, <2>4, SenderStops
  <2>8. CleanOK'
    BY <1>1, <1>3, <1>4, <2>1, <2>3, CleanKept
  <2>9. FileStep
    BY <1>1, <2>1, <2>3, AsFail
  <2> QED
    BY <2>5, <2>6, <2>7, <2>8, <2>9 DEF PatientOK
<1> QED
  BY <1>5, <1>6 DEF Transmit

LEMMA SendNextFilePatient ==
    ASSUME Settled, undef' = {}, SendNextFile
    PROVE  PatientOK' /\ FileStep
<1>1. /\ SenderOK /\ CleanOK /\ TypeOK /\ g_transfers \in Seq(Transfers)
  BY DEF Settled, Before, FileInv, PatientOK, TypeOK
<1>2. /\ GetMsg("out") /\ outpkt.dp_Type = "SEND_NEXT_FILE"
      /\ UNCHANGED <<pkt, fh, owed, g_running>>
  BY DEF SendNextFile, Internal, clientVars
<1>3. /\ "out" \in ToSet(port) /\ "out" \notin ToSet(Tail(port))
      /\ g_running /\ Tail(port) \in Seq(Msgs)
  BY <1>2, OutTaken, Taken DEF Settled, Before, Msgs, GetMsg
<1>4. MayStart => ~g_busy /\ ~Pending(sreq)
  BY <1>2, OutAlone DEF MayStart
<1>5. MayStart => \A g \in DOMAIN g_transfers : ~Sending(g)
  BY <1>4, NoSender
<1>6. CASE /\ SendNothing(Tail(port)) /\ UNCHANGED <<g_transfers, g_busy, sreq, treq>>
           /\ MayStart \/ UNCHANGED <<ftx, iopkt1, joined>>
  <2>1. OnlyChanged(0)
    BY <1>6 DEF OnlyChanged
  <2>2. "out" \notin ToSet(port')
    BY <1>3, <1>6 DEF SendNothing
  <2>3. AloneOK'
    BY <1>2, <1>3, <2>2, AloneKept
  <2>4. RequestsOK'
    BY <1>2, <1>3, <1>6, RequestsKept
  <2>5. SenderOK'
    <3>1. CASE MayStart
      <4>1. 0 \in DOMAIN g_transfers =>
               g_transfers'[0].ftx_state \notin {"S_WRQ_SENT", "S_DATA_SENT"}
        BY <1>5, <1>6, <3>1 DEF Sending
      <4>2. ~g_busy' /\ ~Pending(sreq')
        BY <1>4, <1>6, <3>1
      <4> QED
        BY <1>5, <2>1, <2>2, <3>1, <4>1, <4>2, SenderStops
    <3>2. CASE UNCHANGED <<ftx, iopkt1, joined>>
      <4>1. ~Out(BufferPackets) /\ ~Out(BufferPackets)'
        BY <1>2, <2>2 DEF Out, BufferPackets
      <4> QED
        BY <1>1, <1>6, <3>2, <4>1 DEF SenderOK, Sending
    <3> QED
      BY <1>6, <3>1, <3>2
  <2>6. CleanOK'
    BY <1>1, <1>2, <1>6 DEF CleanOK
  <2>7. FileStep
    BY <1>6, <2>1, AsStutter
  <2> QED
    BY <2>3, <2>4, <2>5, <2>6, <2>7 DEF PatientOK
<1>7. ASSUME NEW f \in DOMAIN g_transfers, MayStart, FirstReady(f), ftx' = f,
             ~joined', iopkt1' = [dp_Type |-> "WRITE_RETURN", dp_Arg1 |-> f],
             Transmit(g_transfers, f, WrqFrame(f), "S_WRQ_SENT", TRUE)
      PROVE  PatientOK' /\ FileStep
  <2> DEFINE r == g_transfers[f]
  <2>1. g_transfers = [g_transfers EXCEPT ![f] = r] /\ r \in Transfers
    BY <1>1
  <2>2. r.ftx_state = "S_READY" /\ LineUp(f)
    BY <1>5, <1>7 DEF FirstReady, LineUp
  <2>3. r.ftx_error = "none"
    BY <1>1, <2>2 DEF CleanOK
  <2>4. Transmit([g_transfers EXCEPT ![f] = r], f, WrqFrame(f), "S_WRQ_SENT",
                 TRUE)
    BY <1>7, <2>1
  <2>5. iopkt1'.dp_Arg1 = f
    BY <1>7
  <2> QED
    BY <1>2, <1>5, <1>7, <2>1, <2>2, <2>3, <2>4, <2>5, TransmitPatient
<1> QED
  BY <1>6, <1>7 DEF SendNextFile

\* The file of a packet about buffers is the one being sent.
LEMMA BufferPacketsSender ==
    ASSUME Settled, GetMsg("out"), outpkt.dp_Type \in BufferPackets,
           NEW f, f = outpkt.dp_Arg1
    PROVE  /\ f \in DOMAIN g_transfers /\ g_transfers[f] \in Transfers
           /\ Sending(f) /\ f = iopkt1.dp_Arg1 /\ g_busy
           /\ g_transfers[f].ftx_error = "none"
           /\ RecordOK(g_transfers[f], outpkt.dp_Type)
           /\ outpkt.dp_Type # "SEND_NEXT_BUFFER"
                 => g_transfers[f].ftx_buffers # <<>>
           /\ \A g \in DOMAIN g_transfers \ {f} : ~Sending(g)
           /\ \A c \in Clients : fh[c] # f
<1>1. Out(BufferPackets)
  BY Taken DEF Out, Settled, Before, Msgs
<1>2. /\ f \in DOMAIN g_transfers /\ g_transfers[f] \in Transfers
      /\ g_transfers[f].ftx_state \in {"S_WRQ_SENT", "S_DATA_SENT"}
      /\ RecordOK(g_transfers[f], outpkt.dp_Type)
      /\ outpkt.dp_Type # "SEND_NEXT_BUFFER"
            => g_transfers[f].ftx_buffers # <<>>
      /\ \A c \in Clients : fh[c] # f
  BY BufferPacketsFile DEF Settled
<1>3. f = iopkt1.dp_Arg1 /\ g_busy
  BY <1>1 DEF Settled, PatientOK, SenderOK
<1>4. g_transfers[f].ftx_error = "none"
  BY <1>2 DEF Settled, PatientOK, CleanOK
<1>5. \A g \in DOMAIN g_transfers \ {f} : ~Sending(g)
  BY <1>3, OtherSenders
<1> QED
  BY <1>2, <1>3, <1>4, <1>5 DEF Sending

LEMMA SendNextBufferPatient ==
    ASSUME Settled, undef' = {}, SendNextBuffer
    PROVE  PatientOK' /\ FileStep
<1>1. /\ CleanOK /\ TypeOK /\ g_transfers \in Seq(Transfers)
  BY DEF Settled, Before, FileInv, PatientOK, TypeOK
<1>2. PICK f : f = outpkt.dp_Arg1
  OBVIOUS
<1>3. /\ GetMsg("out") /\ outpkt.dp_Type = "SEND_NEXT_BUFFER" /\ ftx' = f
      /\ ~joined' /\ UNCHANGED <<pkt, fh, owed, g_running>>
  BY <1>2 DEF SendNextBuffer, Internal, clientVars
<1> DEFINE t == g_transfers[f]
<1>4. /\ f \in DOMAIN g_transfers /\ t \in Transfers
      /\ Sending(f) /\ f = iopkt1.dp_Arg1 /\ g_busy
      /\ t.ftx_error = "none" /\ RecordOK(t, "SEND_NEXT_BUFFER")
      /\ \A g \in DOMAIN g_transfers \ {f} : ~Sending(g)
      /\ \A c \in Clients : fh[c] # f
  BY <1>2, <1>3, BufferPacketsSender DEF BufferPackets
<1>5. CASE /\ t.ftx_buffers # <<>>
           /\ SendBlock([g_transfers EXCEPT ![f].ftx_blknum = @ + 1], f)
  <2> DEFINE r == [t EXCEPT !.ftx_blknum = @ + 1]
             u == [g_transfers EXCEPT ![f] = r]
  <2>1. /\ r \in Transfers /\ r.ftx_error = t.ftx_error
        /\ r.acked = t.acked /\ r.accepted = t.accepted
    BY <1>4 DEF Transfers
  <2>2. SendBlock(u, f)
    BY <1>5
  <2> HIDE DEF r
  <2>3. iopkt1'.dp_Arg1 = f
    BY <1>1, <1>4, <2>2 DEF SendBlock, TypeOK
  <2>4. \E frame : Transmit(u, f, frame, "S_DATA_SENT", g_busy)
    BY <2>2 DEF SendBlock
  <2> QED
    BY <1>3, <1>4, <2>1, <2>3, <2>4, TransmitPatient
<1>6. CASE /\ t.ftx_buffers = <<>>
           /\ g_transfers' = [g_transfers EXCEPT ![f].ftx_state = "S_FINISHED"]
           /\ g_busy' = FALSE
           /\ SendInternal(Tail(port), "FILE_FINISHED", f)
           /\ UNCHANGED <<iopkt1, sreq, treq>>
  <2> DEFINE r == [t EXCEPT !.ftx_state = "S_FINISHED"]
  <2>1. /\ r.ftx_state = "S_FINISHED" /\ r.ftx_error = t.ftx_error
        /\ r.acked = t.acked /\ r.accepted = t.accepted
    BY <1>4 DEF Transfers
  <2>2. g_transfers' = [g_transfers EXCEPT ![f] = r]
    BY <1>6
  <2> HIDE DEF r
  <2>3. OnlyChanged(f) /\ g_transfers'[f] = r
    BY <1>1, <1>4, <2>2, RecordChanged
  <2>4. ~Pending(sreq) /\ g_running /\ "out" \in ToSet(port)
    BY <1>3, OutAlone
  <2>5. outpkt'.dp_Type \notin BufferPackets
    BY <1>6 DEF SendInternal, BufferPackets
  <2>6. AloneOK'
    BY <1>3, <1>6, <2>4, AloneKept
  <2>7. RequestsOK'
    BY <1>3, <1>6, <2>4, RequestsKept
  <2>8. SenderOK'
    BY <1>4, <1>6, <2>1, <2>3, <2>4, <2>5, SenderStops
  <2>9. CleanOK'
    <3>1. (owed' = NoInternal \/ owed'.dp_Type = "SEND_NEXT_FILE")
      BY <1>1, <1>3 DEF CleanOK
    <3> QED
      BY <1>1, <1>3, <1>4, <2>1, <2>3, <3>1, CleanKept
  <2>10. t.acked = t.accepted
    BY <1>4, <1>6 DEF RecordOK, Chain
  <2>11. FileStep
    BY <1>4, <2>1, <2>3, <2>10, AsFinish
  <2> QED
    BY <2>6, <2>7, <2>8, <2>9, <2>11 DEF PatientOK
<1> QED
  BY <1>2, <1>5, <1>6 DEF SendNextBuffer

LEMMA ContinueBufferPatient ==
    ASSUME Settled, FileInv', undef' = {}, ContinueBuffer
    PROVE  PatientOK' /\ FileStep
<1>1. /\ CleanOK /\ TypeOK /\ g_transfers \in Seq(Transfers)
  BY DEF Settled, Before, FileInv, PatientOK, TypeOK
<1>2. PICK f : f = outpkt.dp_Arg1
  OBVIOUS
<1>3. /\ GetMsg("out") /\ outpkt.dp_Type = "CONTINUE_BUFFER" /\ ftx' = f
      /\ ~joined' /\ UNCHANGED <<pkt, fh, owed, g_running>>
  BY <1>2 DEF ContinueBuffer, Internal, clientVars
<1> DEFINE t == g_transfers[f]
           h == [t.ftx_buffers[1] EXCEPT !.fb_curpos = @ + TFTP_MAX_DATA_SIZE]
           b == [t.ftx_buffers EXCEPT ![1] = h]
           r == [t EXCEPT !.ftx_buffers = b, !.ftx_blknum = @ + 1]
           u == [g_transfers EXCEPT ![f] = r]
<1>4. /\ f \in DOMAIN g_transfers /\ t \in Transfers
      /\ Sending(f) /\ f = iopkt1.dp_Arg1 /\ g_busy
      /\ t.ftx_error = "none" /\ t.ftx_buffers # <<>>
      /\ \A g \in DOMAIN g_transfers \ {f} : ~Sending(g)
  BY <1>2, <1>3, BufferPacketsSender DEF BufferPackets
<1>5. t.ftx_buffers \in Seq(Buffers) /\ t.ftx_buffers[1] \in Buffers
  BY <1>4 DEF Transfers
<1>6. h \in Buffers
  <2>1. \A x \in Buffers : [x EXCEPT !.fb_curpos = @ + TFTP_MAX_DATA_SIZE] \in Buffers
    BY SizesAssumption DEF Buffers
  <2> QED
    BY <1>5, <2>1
<1>7. SendBlock(u, f)
  BY <1>2 DEF ContinueBuffer, NextBlock
<1> HIDE DEF h
<1>8. b \in Seq(Buffers)
  BY <1>4, <1>5, <1>6, HeadUpdates
<1> HIDE DEF b
<1>9. /\ r \in Transfers /\ r.ftx_error = t.ftx_error
      /\ r.acked = t.acked /\ r.accepted = t.accepted
  <2>1. t.ftx_blknum + 1 \in Nat
    BY <1>4 DEF Transfers
  <2> QED
    BY <1>4, <1>8, <2>1 DEF Transfers
<1> HIDE DEF r
<1>10. iopkt1'.dp_Arg1 = f
  BY <1>1, <1>4, <1>7 DEF SendBlock, TypeOK
<1>11. \E frame : Transmit(u, f, frame, "S_DATA_SENT", g_busy)
  BY <1>7 DEF SendBlock
<1> QED
  BY <1>3, <1>4, <1>9, <1>10, <1>11, TransmitPatient

\* A buffer, or all that is left of a file, is freed.
LEMMA FreedPatient ==
    ASSUME Settled, undef' = {}, FileDone \/ BufferFinished
    PROVE  PatientOK' /\ FileStep
<1>1. /\ SenderOK /\ CleanOK /\ TypeOK /\ g_transfers \in Seq(Transfers)
  BY DEF Settled, Before, FileInv, PatientOK, TypeOK
<1>2. PICK f : f = outpkt.dp_Arg1
  OBVIOUS
<1>3. /\ GetMsg("out") /\ UNCHANGED <<pkt, fh, owed, iopkt1, sreq, treq, g_busy, g_running>>
      /\ \E b : g_transfers' = [g_transfers EXCEPT ![f].ftx_buffers = b]
  BY <1>2 DEF FileDone, BufferFinished, Internal, clientVars, ioVars, loopVars
<1>4. /\ ~Pending(sreq) /\ "out" \in ToSet(port) /\ g_running
      /\ Tail(port) \in Seq(Msgs)
  BY <1>3, OutAlone, OutTaken DEF Settled, FileDone, BufferFinished, Internal
<1>5. /\ OnlyChanged(f)
      /\ f \in DOMAIN g_transfers =>
            /\ g_transfers'[f].ftx_state = g_transfers[f].ftx_state
            /\ g_transfers'[f].ftx_error = g_transfers[f].ftx_error
            /\ g_transfers'[f].accepted = g_transfers[f].accepted
            /\ g_transfers'[f].acked = g_transfers[f].acked
  <2>1. PICK b : g_transfers' = [g_transfers EXCEPT ![f].ftx_buffers = b]
    BY <1>3
  <2> DEFINE r == [g_transfers[f] EXCEPT !.ftx_buffers = b]
  <2>2. g_transfers' = [g_transfers EXCEPT ![f] = r]
    BY <2>1
  <2>3. f \in DOMAIN g_transfers =>
           /\ r.ftx_state = g_transfers[f].ftx_state
           /\ r.ftx_error = g_transfers[f].ftx_error
           /\ r.accepted = g_transfers[f].accepted
           /\ r.acked = g_transfers[f].acked
    <3>1. f \in DOMAIN g_transfers => g_transfers[f] \in Transfers
      BY <1>1
    <3> QED
      BY <3>1 DEF Transfers
  <2> HIDE DEF r
  <2> QED
    BY <1>1, <2>2, <2>3 DEF OnlyChanged
<1>6. AloneOK'
  BY <1>3, <1>4, AloneKept
<1>7. RequestsOK'
  BY <1>3, <1>4, RequestsKept
<1>8. CleanOK'
  <2>1. (owed' = NoInternal \/ owed'.dp_Type = "SEND_NEXT_FILE")
    BY <1>1, <1>3 DEF CleanOK
  <2>2. f \in DOMAIN g_transfers =>
           /\ \/ \A c \in Clients : fh'[c] # f
              \/ g_transfers'[f].ftx_state = "S_QUEUED"
           /\ g_transfers'[f].ftx_state # "S_ERROR"
                 => g_transfers'[f].ftx_error = "none"
    BY <1>1, <1>3, <1>5, NotOpen DEF CleanOK
  <2> QED
    BY <1>1, <1>3, <1>5, <2>1, <2>2, CleanKept
<1>9. FileStep
  BY <1>5, AsStutter
<1>10. CASE FileDone
  <2>1. ~g_busy
    BY <1>1, <1>4, <1>10 DEF FileDone, Internal, SenderOK, Out, BufferPackets
  <2>2. outpkt'.dp_Type \notin BufferPackets
    BY <1>10 DEF FileDone, SendInternal, BufferPackets
  <2>3. \A g \in DOMAIN g_transfers : ~Sending(g)
    BY <2>1, NoSender
  <2>4. SenderOK'
    BY <1>3, <1>4, <1>5, <2>1, <2>2, <2>3, SenderStops DEF Sending
  <2> QED
    BY <1>6, <1>7, <1>8, <1>9, <2>4 DEF PatientOK
<1>11. CASE BufferFinished
  <2>1. /\ f \in DOMAIN g_transfers /\ Sending(f) /\ f = iopkt1.dp_Arg1 /\ g_busy
        /\ \A g \in DOMAIN g_transfers \ {f} : ~Sending(g)
    BY <1>2, <1>3, <1>11, BufferPacketsSender
    DEF BufferFinished, Internal, BufferPackets
  <2>2. SendInternal(Tail(port), "SEND_NEXT_BUFFER", f)
    BY <1>2, <1>11 DEF BufferFinished
  <2>3. /\ "out" \in ToSet(port') /\ outpkt'.dp_Type \in BufferPackets
        /\ outpkt'.dp_Arg1 = f
    <3>1. "out" \in Msgs
      BY DEF Msgs
    <3>2. \A p \in Seq(Msgs) : "out" \in ToSet(Append(p, "out"))
      BY <3>1, AppendMsg
    <3>3. port' = Append(Tail(port), "out")
      BY <2>2 DEF SendInternal
    <3>4. "out" \in ToSet(port')
      BY <1>4, <3>2, <3>3
    <3> QED
      BY <2>2, <3>4 DEF SendInternal, BufferPackets
  <2>4. SenderOK'
    BY <1>3, <1>4, <1>5, <2>1, <2>3, SenderGoesOn DEF Sending
  <2> QED
    BY <1>6, <1>7, <1>8, <1>9, <2>4 DEF PatientOK
<1> QED
  BY <1>10, <1>11

\* A completion or a timeout fails the file being sent.
LEMMA FailPatient ==
    ASSUME Settled, undef' = {}, NEW m \in {"sreq", "treq"}, GetMsg(m),
           NEW f, f = iopkt1.dp_Arg1,
           NEW err, err # "none", NEW p, FailFile(g_transfers, f, err, p),
           sreq' = IdleReq, treq' = "idle", g_running', UNCHANGED <<pkt, fh, owed>>
    PROVE  PatientOK' /\ FileStep
<1>1. /\ CleanOK /\ TypeOK /\ g_transfers \in Seq(Transfers)
  BY DEF Settled, Before, FileInv, PatientOK, TypeOK
<1>2. /\ AtRest /\ f \in DOMAIN g_transfers /\ Sending(f)
  BY RequestAlone
<1> DEFINE t == g_transfers[f]
           r == [t EXCEPT !.ftx_state = "S_ERROR", !.ftx_error = err]
<1>3. t \in Transfers
  BY <1>1, <1>2
<1>4. /\ r.ftx_state = "S_ERROR" /\ r.ftx_error = err
      /\ r.acked = t.acked /\ r.accepted = t.accepted
  BY <1>3 DEF Transfers
<1>5. g_transfers' = [g_transfers EXCEPT ![f] = r]
  BY DEF FailFile, Failed
<1> HIDE DEF r
<1>6. OnlyChanged(f) /\ g_transfers'[f] = r
  BY <1>1, <1>2, <1>5, RecordChanged
<1>7. ~Pending(sreq') /\ ~g_busy' /\ outpkt'.dp_Type \notin BufferPackets
  BY DEF FailFile, SendInternal, BufferPackets, Pending, IdleReq
<1>8. AloneOK'
  BY <1>2, <1>7, AloneKept
<1>9. RequestsOK'
  BY RequestsKept
<1>10. SenderOK'
  BY <1>4, <1>6, <1>7, OtherSenders, SenderStops
<1>11. CleanOK'
  <2>1. \A c \in Clients : fh[c] # f
    BY <1>2, NotOpen DEF Sending
  <2>2. (owed' = NoInternal \/ owed'.dp_Type = "SEND_NEXT_FILE")
    BY <1>1 DEF CleanOK
  <2> QED
    BY <1>1, <1>4, <1>6, <2>1, <2>2, CleanKept
<1>12. FileStep
  BY <1>1, <1>2, <1>4, <1>6, AsFail
<1> QED
  BY <1>8, <1>9, <1>10, <1>11, <1>12 DEF PatientOK

\* do_write_return()
LEMMA WriteReturnPatient ==
    ASSUME Settled, undef' = {}, WriteReturn
    PROVE  PatientOK' /\ FileStep
<1>1. /\ CleanOK /\ TypeOK /\ GetMsg("sreq")
  BY DEF Settled, Before, FileInv, PatientOK, WriteReturn
<1>2. PICK f : f = iopkt1.dp_Arg1
  OBVIOUS
<1>3. PICK p : p = StopTimer(Tail(port))
  OBVIOUS
<1>4. /\ Pending(sreq) /\ "out" \notin ToSet(p) /\ CheckIO /\ ~sreq.failed
      /\ AtRest /\ g_busy /\ f \in DOMAIN g_transfers /\ Sending(f)
  BY <1>1, <1>2, <1>3, ReplyAlone, RequestAlone
<1>5. /\ UNCHANGED <<pkt, fh, owed, ftx, joined>> /\ g_running'
      /\ iopkt1'.dp_Arg1 = f
  BY <1>1, <1>2, <1>4 DEF WriteReturn, clientVars, TypeOK
<1>6. CASE /\ FailFile(g_transfers, f, "NETIO", p)
           /\ sreq' = IdleReq /\ treq' = "idle"
  BY <1>1, <1>2, <1>5, <1>6, FailPatient
<1>7. CASE StartIO(ReadReq) /\ g_busy' /\ SendNothing(p) /\ UNCHANGED g_transfers
  <2>1. OnlyChanged(f) /\ "out" \notin ToSet(port')
    BY <1>4, <1>7 DEF OnlyChanged, SendNothing
  <2>2. Pending(sreq')
    BY <1>7 DEF StartIO, ReadReq, IdleReq, Pending
  <2>3. AloneOK'
    BY <1>4, <1>5, <2>1, AloneKept
  <2>4. RequestsOK'
    BY <1>5, <1>7, RequestsKept DEF StartIO
  <2>5. SenderOK'
    <3>1. IF joined' THEN "queue" \in Env ELSE ftx' = f
      BY <1>2, <1>4, <1>5 DEF Settled, PatientOK, SenderOK
    <3>2. treq' = "running"
      BY <1>7 DEF StartIO
    <3> QED
      BY <1>2, <1>4, <1>5, <1>7, <2>1, <2>2, <3>1, <3>2, OtherSenders, SenderGoesOn
      DEF Sending
  <2>6. CleanOK'
    BY <1>1, <1>5, <1>7 DEF CleanOK
  <2>7. FileStep
    BY <1>7, <2>1, AsStutter
  <2> QED
    BY <2>3, <2>4, <2>5, <2>6, <2>7 DEF PatientOK
<1> QED
  BY <1>2, <1>3, <1>4, <1>6, <1>7 DEF WriteReturn

\* ACTION_TIMER_EXPIRED
LEMMA TimerExpiredPatient ==
    ASSUME Settled, undef' = {}, TimerExpired
    PROVE  PatientOK' /\ FileStep
<1>1. GetMsg("treq")
  BY DEF TimerExpired
<1>2. PICK f : f = iopkt1.dp_Arg1
  OBVIOUS
<1>3. ftx = f /\ g_running
  BY <1>1, <1>2, RequestAlone
<1>4. \E p : FailFile(g_transfers, f, "IO_TIMEOUT", p)
  BY <1>3 DEF TimerExpired
<1>5. /\ sreq' = IdleReq /\ treq' = "idle" /\ g_running'
      /\ UNCHANGED <<pkt, fh, owed>>
  BY <1>3 DEF TimerExpired, clientVars
<1> QED
  BY <1>1, <1>2, <1>4, <1>5, FailPatient

\* do_read_return()
LEMMA ReadReturnPatient ==
    ASSUME Settled, FileInv', undef' = {}, ReadReturn
    PROVE  PatientOK' /\ FileStep
<1>1. /\ CleanOK /\ TypeOK /\ FileInv /\ undef = {} /\ GetMsg("sreq")
      /\ g_transfers \in Seq(Transfers)
  BY DEF Settled, Before, FileInv, PatientOK, TypeOK, ReadReturn
<1>2. PICK f : f = iopkt1.dp_Arg1
  OBVIOUS
<1>3. PICK p : p = StopTimer(Tail(port))
  OBVIOUS
<1>4. /\ Pending(sreq) /\ p \in Seq(Msgs) /\ CheckIO
      /\ ~sreq.failed /\ sreq.ans # BadFrame /\ "out" \notin ToSet(port)
      /\ AtRest /\ g_busy /\ f \in DOMAIN g_transfers /\ Sending(f)
  BY <1>1, <1>2, <1>3, ReplyAlone, RequestAlone
<1>5. /\ UNCHANGED <<pkt, fh, owed, ftx, iopkt1>>
      /\ sreq' = IdleReq /\ treq' = "idle" /\ ~Pending(sreq')
  BY DEF ReadReturn, clientVars, Pending, IdleReq
<1>6. PICK a : Answered(f, a, p)
  BY <1>2, <1>3, <1>4 DEF ReadReturn
<1> DEFINE t == g_transfers[f]
<1>7. t \in Transfers /\ t.ftx_error = "none" /\ RecordOK(t, "none")
  <2>1. Mark(f) = "none"
    BY <1>4, NoMarks
  <2>2. RecordOK(t, "none")
    BY <1>4, <2>1 DEF Settled, Before, TransferOK, FilesOK
  <2> QED
    BY <1>1, <1>4, <2>2 DEF CleanOK, Sending
<1>8. ASSUME NEW r, OnlyChanged(f), g_transfers'[f] = r,
             r.ftx_state = t.ftx_state, r.ftx_error = t.ftx_error,
             NEW type \in BufferPackets, SendInternal(p, type, f),
             g_running', g_busy'
      PROVE  PatientOK'
  <2>1. /\ "out" \in ToSet(port') /\ outpkt'.dp_Type \in BufferPackets
        /\ outpkt'.dp_Arg1 = f
    BY <1>4, <1>8, AppendMsg DEF SendInternal, Msgs
  <2>2. AloneOK'
    BY <1>4, <1>5, AloneKept
  <2>3. RequestsOK'
    BY <1>5, <1>8, RequestsKept
  <2>4. SenderOK'
    BY <1>2, <1>4, <1>5, <1>8, <2>1, OtherSenders, SenderGoesOn DEF Sending
  <2>5. CleanOK'
    <3>1. \A c \in Clients : fh[c] # f
      BY <1>4, NotOpen DEF Sending
    <3>2. (owed' = NoInternal \/ owed'.dp_Type = "SEND_NEXT_FILE")
      BY <1>1, <1>5 DEF CleanOK
    <3> QED
      BY <1>1, <1>5, <1>7, <1>8, <3>1, <3>2, CleanKept
  <2> QED
    BY <2>2, <2>3, <2>4, <2>5 DEF PatientOK
<1>9. CASE AckRequest(f, p)
  <2>1. /\ g_transfers' = g_transfers /\ SendInternal(p, "SEND_NEXT_BUFFER", f)
        /\ g_running' /\ g_busy'
    BY <1>4, <1>9 DEF AckRequest
  <2>2. OnlyChanged(f) /\ "SEND_NEXT_BUFFER" \in BufferPackets
    BY <2>1 DEF OnlyChanged, BufferPackets
  <2>3. PatientOK'
    BY <1>8, <2>1, <2>2
  <2> QED
    BY <2>1, <2>2, <2>3, AsStutter
<1>10. CASE AckData(f, a.blk, p)
  <2> DEFINE x == t.ftx_buffers[1]
             h == [x EXCEPT !.fb_nbytes_to_send = @ - TFTP_MAX_DATA_SIZE]
             b == [t.ftx_buffers EXCEPT ![1] = h]
             n == Chunk(Head(t.ftx_buffers).fb_nbytes_to_send)
             r == [t EXCEPT !.ftx_buffers = b, !.acked = @ + n]
  <2>1. t.ftx_state = "S_DATA_SENT"
    BY <1>10 DEF AckData
  <2>2. t.ftx_buffers # <<>>
    BY <1>1, <1>4, <2>1, BuffersThere DEF Out
  <2>3. Acknowledged(f) = [g_transfers EXCEPT ![f] = r]
    BY DEF Acknowledged
  <2>4. n \in 0 .. TFTP_MAX_DATA_SIZE /\ t.acked + n <= t.accepted
    BY <1>7, <2>2, BlockInOrder DEF RecordOK, Marks, Started
  <2> HIDE DEF h, n, b
  <2>5. /\ r.ftx_error = t.ftx_error /\ r.ftx_state = t.ftx_state
        /\ r.acked = t.acked + n /\ r.accepted = t.accepted
    BY <1>7 DEF Transfers
  <2> HIDE DEF r
  <2>6. OnlyChanged(f) /\ g_transfers'[f] = r
    BY <1>1, <1>4, <1>10, <2>3, RecordChanged DEF AckData
  <2>7. /\ \E type \in BufferPackets : SendInternal(p, type, f)
        /\ g_running' /\ g_busy'
    BY <1>4, <1>10 DEF AckData, AfterBlock, BufferPackets
  <2>8. PatientOK'
    BY <1>8, <2>5, <2>6, <2>7
  <2>9. CASE n \in 1 .. TFTP_MAX_DATA_SIZE
    BY <1>4, <2>4, <2>5, <2>6, <2>8, <2>9, AsProgress
  <2>10. CASE n = 0
    <3>1. r.acked = t.acked
      BY <1>7, <2>5, <2>10 DEF Transfers
    <3> QED
      BY <2>5, <2>6, <2>8, <3>1, AsStutter
  <2>11. n \in 1 .. TFTP_MAX_DATA_SIZE \/ n = 0
    BY <2>4, SizesAssumption
  <2> QED
    BY <2>9, <2>10, <2>11
<1>11. CASE \E err : /\ err # "none" /\ FailFile(g_transfers, f, err, p)
                     /\ g_running'
  BY <1>1, <1>2, <1>5, <1>11, FailPatient
<1>12. CASE AckWrongState(f, p)
  BY <1>4, <1>12 DEF AckWrongState, Sending
<1> QED
  BY <1>4, <1>6, <1>9, <1>10, <1>11, <1>12 DEF Answered, AckWrongBlock, ErrorOf

------------------------------------------------------------------------------
(* The theorems *)

LEMMA InitPatient == Init => PatientOK
<1> SUFFICES ASSUME Init PROVE PatientOK
  OBVIOUS
<1>1. DOMAIN g_transfers = {} /\ ToSet(port) = {} /\ undef = {}
  BY DEF Init, ToSet
<1>2. ~Pending(sreq) /\ treq = "idle" /\ owed = NoInternal /\ g_running
  BY DEF Init, Pending, IdleReq
<1>3. \A c \in Clients : ~Ending(c) /\ fh[c] = 0
  BY DEF Init, Ending, NoPacket
<1>4. AloneOK
  BY <1>1, <1>2, <1>3 DEF AloneOK
<1>5. RequestsOK
  BY <1>2 DEF Init, RequestsOK, IdleReq, NoAnswer, BadFrame
<1>6. SenderOK
  BY <1>1, <1>2 DEF Init, SenderOK, Out
<1>7. CleanOK
  BY <1>1, <1>2, <1>3 DEF CleanOK, NoInternal
<1> QED
  BY <1>1, <1>4, <1>5, <1>6, <1>7 DEF PatientOK

\* All the invariants of a handler with patient clients.
PatientInv == MsgInv /\ FileInv /\ WriteOK /\ TransferInv /\ PatientOK

\* Every step keeps them, and is one of FileQueue or invisible to it.
LEMMA StepPatient ==
    ASSUME PatientEnv, PatientInv, [Next]_vars
    PROVE  PatientInv' /\ FileStep
<1>1. Settled
  BY DEF PatientInv, Settled, Before, TransferInv, PatientOK
<1>2. undef' = {}
  <2>1. CASE UNCHANGED vars
    BY <2>1 DEF vars, PatientInv, PatientOK
  <2> QED
    BY <1>1, <2>1, StepDefined
<1>3. MsgInv' /\ WriteOK'
  BY StepMsgInv, StepWriteOK DEF PatientInv, FileInv
<1>4. FileInv'
  BY <1>3, StepFileInv DEF PatientInv
<1>5. TransferInv'
  BY <1>3, <1>4, StepTransferInv DEF PatientInv
<1>6. PatientOK' /\ FileStep
  <2>1. CASE \E c \in Clients : FindOutput(c) \/ Write(c) \/ End(c) \/ Die(c) \/ Other(c)
    BY <1>1, <1>2, <2>1, FindOutputPatient, WritePatient, EndPatient, DiePatient
  <2>2. CASE SendOwed
    BY <1>1, <1>2, <2>2, SendOwedPatient
  <2>3. CASE SendNextFile
    BY <1>1, <1>2, <2>3, SendNextFilePatient
  <2>4. CASE SendNextBuffer
    BY <1>1, <1>2, <2>4, SendNextBufferPatient
  <2>5. CASE ContinueBuffer
    BY <1>1, <1>2, <1>4, <2>5, ContinueBufferPatient
  <2>6. CASE FileDone \/ BufferFinished
    BY <1>1, <1>2, <2>6, FreedPatient
  <2>7. CASE WriteReturn
    BY <1>1, <1>2, <2>7, WriteReturnPatient
  <2>8. CASE ReadReturn
    BY <1>1, <1>2, <1>4, <2>8, ReadReturnPatient
  <2>9. CASE TimerExpired
    BY <1>1, <1>2, <2>9, TimerExpiredPatient
  <2>10. CASE Exit \/ UNCHANGED vars
    BY <1>1, <1>2, <2>10, ExitPatient
  <2>11. CASE Device
    BY <1>1, <1>2, <2>11, DevicePatient
  <2>12. CASE Client
    BY <1>1, <1>2, <2>12, ClientPatient
  <2> QED
    BY <2>1, <2>2, <2>3, <2>4, <2>5, <2>6, <2>7, <2>8, <2>9, <2>10, <2>11, <2>12
    DEF Next, Handle
<1> QED
  BY <1>3, <1>4, <1>5, <1>6 DEF PatientInv

LEMMA SpecPatient == ASSUME PatientEnv PROVE Spec => []PatientInv
<1>1. Init => PatientInv
  BY InitMsgInv, InitFileInv, InitTransferInv, InitPatient DEF PatientInv
<1>2. PatientInv /\ [Next]_vars => PatientInv'
  BY StepPatient
<1> QED
  BY <1>1, <1>2, PTL DEF Spec

\* With patient clients the one internal packet suffices: it is never sent
\* while it is in the port, no request is sent or freed while in use, and no
\* NULL pointer is followed.
THEOREM NothingUndefined == ASSUME PatientEnv PROVE Spec => []NoUndefined
<1>1. PatientInv => NoUndefined
  BY DEF PatientInv, PatientOK, NoUndefined
<1> QED
  BY <1>1, SpecPatient, PTL

\* One file is sent at a time, and g_busy tells whether one is.
THEOREM OneFileIsSent == ASSUME PatientEnv PROVE Spec => []OneSender
<1>1. PatientInv => OneSender
  <2> SUFFICES ASSUME PatientInv PROVE OneSender
    OBVIOUS
  <2>1. SenderOK /\ undef = {} /\ PacketsOK
    BY DEF PatientInv, PatientOK, FileInv
  <2>2. g_busy => iopkt1.dp_Arg1 \in DOMAIN g_transfers
    BY <2>1 DEF SenderOK, PacketsOK, IoPacketOK, BufferPacketOK
  <2> QED
    BY <2>1, <2>2 DEF SenderOK, OneSender
<1> QED
  BY <1>1, SpecPatient, PTL

\* A timeout, which fails the file of the local variable ftx of entry(), finds
\* there the file whose answer did not come in time.
THEOREM TimeoutFindsItsFile == ASSUME PatientEnv PROVE Spec => []TimeoutOwner
<1>1. PatientInv => TimeoutOwner
  <2> SUFFICES ASSUME PatientInv, treq # "idle", ~joined
               PROVE  ftx = iopkt1.dp_Arg1 /\ Sending(ftx)
    BY DEF TimeoutOwner
  <2>1. SenderOK /\ RequestsOK /\ undef = {} /\ PacketsOK
    BY DEF PatientInv, PatientOK, FileInv
  <2>2. Pending(sreq) /\ g_busy /\ ftx = iopkt1.dp_Arg1
    BY <2>1 DEF RequestsOK, SenderOK
  <2>3. iopkt1.dp_Arg1 \in DOMAIN g_transfers
    BY <2>1, <2>2 DEF PacketsOK, IoPacketOK
  <2> QED
    BY <2>1, <2>2, <2>3 DEF SenderOK
<1> QED
  BY <1>1, SpecPatient, PTL

\* The handler leaves its loop only when it was told to unmount, and DOS sends
\* it no packets then.
THEOREM StopIsClean == ASSUME PatientEnv PROVE Spec => []StopsCleanly
<1>1. PatientInv => StopsCleanly
  BY DEF PatientInv, PatientOK, RequestsOK, StopsCleanly
<1> QED
  BY <1>1, SpecPatient, PTL

\* A timeout never fails a file that is still open, or closed and waiting, or
\* that has been sent.
THEOREM TimeoutsHitSenders == ASSUME PatientEnv PROVE Spec => TimeoutHitsSender
<1>1. PatientInv /\ [Next]_vars => [TimeoutStep]_vars
  BY StepPatient DEF FileStep
<1>2. TimeoutStep <=> \A f \in DOMAIN g_transfers :
          (/\ g_transfers'[f].ftx_error = "IO_TIMEOUT"
           /\ g_transfers[f].ftx_error # "IO_TIMEOUT") => Sending(f)
  BY DEF TimeoutStep
<1> QED
  BY <1>1, <1>2, SpecPatient, PTL DEF Spec, TimeoutHitsSender

\* Whatever server and line do, and however many files are closed while one
\* is on the line, the handler does what FileQueue promises: files are sent one
\* at a time, of those that wait the one opened first, from the start and
\* without a gap, and a file that is done or has failed stays so.
THEOREM HandlerIsQueue == ASSUME PatientEnv PROVE Spec => ImplementsQueue
<1>1. Init => Queue!Init
  BY DEF Init, Queue!Init
<1>2. PatientInv /\ [Next]_vars => [Queue!Next]_view
  BY StepPatient DEF FileStep
<1>3. [Queue!Next]_view => [Queue!Next]_[f \in DOMAIN g_transfers |->
                [st       |-> Visible(g_transfers[f].ftx_state),
                 accepted |-> g_transfers[f].accepted,
                 acked    |-> g_transfers[f].acked]]
  BY DEF view, Seen
<1> QED
  BY <1>1, <1>2, <1>3, SpecPatient, PTL DEF Spec, ImplementsQueue, Queue!Spec
=============================================================================
