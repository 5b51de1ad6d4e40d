------------------------------- MODULE Handler -------------------------------
(****************************************************************************)
(* The upload engine of the CWNet handler: the message loop of handler.c,   *)
(* the packet handlers of dos.c that move a file transfer along, and the    *)
(* use netio.c makes of the one serial request and the one timer request.   *)
(*                                                                          *)
(* Everything that reaches the handler is a message in g_port, an intrusive *)
(* list of messages that exist once each: the DOS packet of every client,   *)
(* the internal packet outpkt the handler sends to itself, and the two IO   *)
(* requests sreq and treq when their devices reply them.  The loop takes    *)
(* one message at a time and runs its handler to the end; clients and the   *)
(* two devices run meanwhile.  A handler is one action: what they put into  *)
(* the port while it runs might as well be there before it starts.  Only a  *)
(* handler that replies first and sends itself a packet afterwards is two   *)
(* actions, as the client may put its next packet before that one.          *)
(*                                                                          *)
(* An operation the source gives no meaning to (a packet put into the port  *)
(* while it still is there, an IO request sent while it is in use, a NULL   *)
(* or empty list followed) is recorded in undef, and the model stops there: *)
(* nothing is claimed of what comes after it.                               *)
(****************************************************************************)
EXTENDS Integers, Sequences, FiniteSets, SequencesExt

CONSTANTS
    Clients,              \* processes that send DOS packets to the handler
    MaxFiles,             \* bound: FileTransfer structures that fit in memory
    WriteLens,            \* byte counts an ACTION_WRITE may carry
    MaxFileSize,          \* bound: bytes a client writes to one file
    MaxBuffers,           \* bound: FileBuffer structures of one file
    TFTP_MAX_DATA_SIZE,   \* 512 in the code
    BLK_MODULUS,          \* 2^16: the block number travels in a USHORT
    Env                   \* what clients and system may do, see EnvEvents

\* What the environment of a run includes:
\*   impatient    a file is closed, or the handler unmounted, at any time
\*   queue        a file is closed while another is on the line, see AtRest
\*                and joined for what is assumed then
\*   unmount      ACTION_DIE is sent
\*   other        actions that do not change a file transfer are sent
\*   find_output, write      AllocVec() fails in do_find_output(), do_write()
\*   send, recv   send_tftp_*_packet(), recv_tftp_packet() return DOSFALSE
\*   extract      extract_tftp_packet() returns DOSFALSE
\*   serial       serial.device completes a request with an error
EnvEvents == {"impatient", "queue", "unmount", "other", "find_output", "write",
              "send", "recv", "extract", "serial"}

ASSUME ClientsAssumption == Clients \cap {"out", "sreq", "treq"} = {}
ASSUME BoundsAssumption  == /\ MaxFiles \in Nat /\ MaxFileSize \in Nat
                            /\ MaxBuffers \in Nat
ASSUME SizesAssumption   == /\ WriteLens \subseteq Nat
                            /\ TFTP_MAX_DATA_SIZE \in Nat \ {0}
                            /\ BLK_MODULUS \in Nat \ {0}
ASSUME EnvAssumption     == /\ Env \subseteq EnvEvents
                            /\ ~({"impatient", "queue"} \subseteq Env)

VARIABLES
    port,         \* g_port: the queued messages, oldest first
    pkt,          \* the DOS packet of each client, NoPacket when returned
    fh,           \* fh_Arg1 of each client's file handle (0: no file open)
    outpkt,       \* the one StandardPacket for internal packets
    owed,         \* what the running handler sends itself after its reply
    iopkt1,       \* the DosPacket attached to sreq
    g_transfers,  \* the list of FileTransfer structures; a pointer into it
                  \*   is an index, as nodes are only ever added at the tail
    ftx,          \* local variable of entry(), kept from packet to packet
    g_busy,
    g_running,
    dn_Task,      \* TRUE: the device node names g_port, DOS sends packets
    sreq,         \* the request for serial.device
    treq,         \* the request for timer.device: idle, running or expired
    tftppkt,      \* the TFTP packet extracted last
    exited,       \* entry() has closed the devices and returned
    joined,       \* history: ACTION_END was handled since the last frame went
                  \*   out, so ftx may name another file than the one sent
    undef         \* history: undefined operations executed so far

clientVars == <<pkt, fh, joined>>
ioVars     == <<iopkt1, sreq, treq, tftppkt>>
loopVars   == <<g_busy, g_running, dn_Task, exited>>
vars == <<port, outpkt, owed, g_transfers, ftx, undef, clientVars, ioVars,
          loopVars>>

------------------------------------------------------------------------------
(* Data *)

PacketTypes == {"FINDOUTPUT", "WRITE", "END", "DIE", "OTHER"}
NoPacket    == [dp_Type |-> "none", len |-> 0]

InternalTypes == {"SEND_NEXT_FILE", "SEND_NEXT_BUFFER", "CONTINUE_BUFFER",
                  "FILE_FINISHED", "FILE_FAILED", "BUFFER_FINISHED"}

NoInternal    == [dp_Type |-> "none", dp_Arg1 |-> 0]

TransferStates == {"S_QUEUED", "S_READY", "S_WRQ_SENT", "S_DATA_SENT",
                   "S_ERROR", "S_FINISHED"}
ErrorCodes == {"none", "NO_FREE_STORE", "IO_TIMEOUT", "SERIAL", "NETIO",
               "TFTP_WRONG_BLOCK_NUM", "TFTP_GENERIC", "TFTP_UNKNOWN_OPCODE"}

\* A FileTransfer as do_find_output() initializes it.  accepted and acked
\* are history: bytes taken over from the client and bytes acknowledged.
NewTransfer == [ftx_state |-> "S_QUEUED", ftx_blknum |-> 0,
                ftx_error |-> "none", ftx_buffers |-> <<>>,
                accepted |-> 0, acked |-> 0]

\* A FileBuffer; fb_curpos is the position in the file of the next byte.
NewBuffer(pos, len) == [fb_curpos |-> pos, fb_nbytes_to_send |-> len]

\* send_tftp_data_packet() sends at most TFTP_MAX_DATA_SIZE bytes.
Chunk(nbytes) ==
    IF nbytes > TFTP_MAX_DATA_SIZE THEN TFTP_MAX_DATA_SIZE ELSE nbytes

\* What goes over the line, as far as a property tells frames apart.
WrqFrame(f) == [op |-> "WRQ", file |-> f, blk |-> 0, off |-> 0, len |-> 0]
DataFrame(f, blknum, fbuf) ==
    [op |-> "DATA", file |-> f, blk |-> blknum % BLK_MODULUS,
     off |-> fbuf.fb_curpos, len |-> Chunk(fbuf.fb_nbytes_to_send)]
NoFrame     == [op |-> "none", file |-> 0, blk |-> 0, off |-> 0, len |-> 0]

\* What comes back: an ACK, an ERROR or an opcode the handler does not know.
Answers == [op : {"ACK"}, blk : 0 .. BLK_MODULUS - 1]
             \cup [op : {"ERROR", "UNKNOWN"}, blk : {0}]
BadFrame == [op |-> "BAD", blk |-> 0]  \* extract_tftp_packet() rejects it
NoAnswer == [op |-> "none", blk |-> 0]
Readable == Answers \cup (IF "extract" \in Env THEN {BadFrame} ELSE {})

IdleReq    == [st |-> "idle", cmd |-> "none", frame |-> NoFrame,
               failed |-> FALSE, ans |-> NoAnswer]
WriteReq(frame) ==
    [IdleReq EXCEPT !.st = "active", !.cmd = "write", !.frame = frame]
ReadReq    == [IdleReq EXCEPT !.st = "active", !.cmd = "read"]

------------------------------------------------------------------------------
(* exec.library, as the handler uses it *)

\* GetMsg(): the handler is in its loop and m is the oldest message.
GetMsg(m) == /\ g_running /\ owed = NoInternal
             /\ port # <<>> /\ Head(port) = m

\* Remove(), as done by WaitIO(): the reply of a request leaves the port.
Unlink(p, m) ==
    IF m \in ToSet(p) THEN RemoveAt(p, CHOOSE i \in DOMAIN p : p[i] = m)
                      ELSE p

\* Mutants of the next two: the reply is left in the port.
StopTimerNoWait(p) == p
AbortSerialNoWait(p) == p

\* netio_stop_timer(): AbortIO() and WaitIO() of treq, which is idle then and
\* has no reply in the port p any more.
StopTimer(p) == Unlink(p, "treq")

\* netio_abort(): the same for sreq.
AbortSerial(p) == Unlink(p, "sreq")

\* Mutant of the next: the packet is not put into the client's port.
ReturnLost(c) == UNCHANGED pkt

\* return_dos_packet()
Return(c) == pkt' = [pkt EXCEPT ![c] = NoPacket]

\* send_internal_packet().  There is one outpkt: to send it while it still is
\* in the port overwrites the unread packet and links its node a second time.
SendInternal(p, type, f) ==
    /\ outpkt' = [dp_Type |-> type, dp_Arg1 |-> f]
    /\ port' = Append(p, "out")
Requeued(p) == IF "out" \in ToSet(p) THEN {"requeue"} ELSE {}
SendNothing(p) == port' = p /\ UNCHANGED outpkt

\* Mutant of the next: an IO operation without its timer.
StartUntimed(req) == sreq' = req /\ UNCHANGED treq

\* SendIO() of both requests, in send_slip_frame() and recv_slip_frame().
StartIO(req) == sreq' = req /\ treq' = "running"
Resent == IF sreq.st # "idle" \/ treq # "idle" THEN {"resend"} ELSE {}

\* One step of the file transfer f fails: its new state, in the list t.
Failed(t, f, err) ==
    [t EXCEPT ![f].ftx_state = "S_ERROR", ![f].ftx_error = err]

------------------------------------------------------------------------------
(* Clients: each sends one DOS packet at a time and waits for its reply *)

\* outpkt is not in use, and no packet is queued that uses it.
AtRest ==
    /\ owed = NoInternal /\ "out" \notin ToSet(port)
    /\ \A c \in Clients : pkt[c].dp_Type \notin {"END", "DIE"}

\* Nothing is being transferred and nothing is about to be.
Quiet == sreq.st = "idle" /\ treq = "idle" /\ AtRest

\* When a client unmounts, and when it closes its file: with "queue" also
\* while serial.device is at work for another file.
Patient  == Quiet \/ "impatient" \in Env
MayClose == \/ Patient
            \/ /\ "queue" \in Env
               /\ sreq.st = "active" /\ treq = "running" /\ AtRest

\* dos.library: the packet of client c is put into the handler's port.
SendPkt(c, type, len) ==
    /\ pkt[c] = NoPacket /\ ~exited
    /\ pkt' = [pkt EXCEPT ![c] = [dp_Type |-> type, len |-> len]]
    /\ port' = Append(port, c)
    /\ UNCHANGED <<fh, joined, outpkt, owed, g_transfers, ftx, undef, ioVars,
                   loopVars>>

ClientOpen(c)   == dn_Task /\ fh[c] = 0 /\ SendPkt(c, "FINDOUTPUT", 0)
ClientWrite(c)  == /\ fh[c] # 0
                   /\ \E len \in WriteLens :
                        /\ g_transfers[fh[c]].accepted + len <= MaxFileSize
                        /\ Len(g_transfers[fh[c]].ftx_buffers) < MaxBuffers
                        /\ SendPkt(c, "WRITE", len)
ClientClose(c)  == fh[c] # 0 /\ MayClose /\ SendPkt(c, "END", 0)
ClientUnmount(c) == /\ "unmount" \in Env /\ dn_Task /\ Patient
                    /\ SendPkt(c, "DIE", 0)
ClientOther(c)  == "other" \in Env /\ dn_Task /\ SendPkt(c, "OTHER", 0)

------------------------------------------------------------------------------
(* serial.device and timer.device *)

\* With "queue", the handler deals with ACTION_END, which takes it no more
\* than two messages, faster than a frame passes over the line.
Unhurried == "queue" \in Env => AtRest

\* The device replies the request: its message goes into the port.
SerialReplies(failed, ans) ==
    /\ sreq.st = "active" /\ ~exited /\ Unhurried
    /\ sreq' = [sreq EXCEPT !.st = "replied", !.failed = failed, !.ans = ans]
    /\ port' = Append(port, "sreq")
    /\ UNCHANGED <<clientVars, outpkt, owed, iopkt1, g_transfers, ftx, undef,
                   treq, tftppkt, loopVars>>

WriteDone == sreq.cmd = "write" /\ SerialReplies(FALSE, NoAnswer)
ReadDone  == sreq.cmd = "read" /\ \E a \in Readable : SerialReplies(FALSE, a)

\* After an error the receive buffer of a read may hold anything.
SerialError ==
    /\ "serial" \in Env
    /\ \/ sreq.cmd = "write" /\ SerialReplies(TRUE, NoAnswer)
       \/ /\ sreq.cmd = "read"
          /\ \E a \in Answers \cup {BadFrame} : SerialReplies(TRUE, a)

\* NETIO_TIMEOUT seconds after StartIO().  With "queue", an exchange during
\* which a file is closed is answered in time.
TimerFires ==
    /\ treq = "running" /\ ~exited /\ Unhurried
    /\ "queue" \in Env => ~joined
    /\ treq' = "expired"
    /\ port' = Append(port, "treq")
    /\ UNCHANGED <<clientVars, outpkt, owed, iopkt1, g_transfers, ftx, undef,
                   sreq, tftppkt, loopVars>>

------------------------------------------------------------------------------
(* Regular actions of the message loop *)

\* do_find_output()
FindOutput(c) ==
    /\ GetMsg(c) /\ pkt[c].dp_Type = "FINDOUTPUT"
    /\ \/ /\ Len(g_transfers) < MaxFiles
          /\ g_transfers' = Append(g_transfers, NewTransfer)
          /\ fh' = [fh EXCEPT ![c] = Len(g_transfers) + 1]
       \/ /\ Len(g_transfers) = MaxFiles \/ "find_output" \in Env
          /\ UNCHANGED <<g_transfers, fh>>
    /\ Return(c)
    /\ port' = Tail(port)
    /\ UNCHANGED <<joined, outpkt, owed, ftx, undef, ioVars, loopVars>>

\* do_write(): the buffer is queued, or the file has failed.
QueueBuffer(f, len) ==
    g_transfers' = [g_transfers EXCEPT
        ![f].ftx_buffers = Append(@, NewBuffer(g_transfers[f].accepted, len)),
        ![f].accepted = @ + len]

Write(c) ==
    /\ GetMsg(c) /\ pkt[c].dp_Type = "WRITE"
    /\ \/ QueueBuffer(fh[c], pkt[c].len) /\ UNCHANGED owed
       \/ /\ "write" \in Env
          /\ g_transfers' = Failed(g_transfers, fh[c], "NO_FREE_STORE")
          /\ owed' = [dp_Type |-> "FILE_FAILED", dp_Arg1 |-> fh[c]]
    /\ Return(c)
    /\ port' = Tail(port)
    /\ UNCHANGED <<fh, joined, outpkt, ftx, undef, ioVars, loopVars>>

\* ACTION_END; dos.library frees the file handle.
End(c) ==
    /\ GetMsg(c) /\ pkt[c].dp_Type = "END"
    /\ ftx' = fh[c]
    /\ g_transfers' = [g_transfers EXCEPT ![fh[c]].ftx_state = "S_READY"]
    /\ owed' = [dp_Type |-> "SEND_NEXT_FILE", dp_Arg1 |-> 0]
    /\ Return(c)
    /\ port' = Tail(port)
    /\ fh' = [fh EXCEPT ![c] = 0]
    /\ joined' = TRUE
    /\ UNCHANGED <<outpkt, undef, ioVars, loopVars>>

\* The end of do_write() and of ACTION_END, after the reply.
SendOwed ==
    /\ owed # NoInternal
    /\ SendInternal(port, owed.dp_Type, owed.dp_Arg1)
    /\ owed' = NoInternal
    /\ undef' = Requeued(port)
    /\ UNCHANGED <<g_transfers, ftx, clientVars, ioVars, loopVars>>

\* Mutant of the next: DOS is not told.
DieQuietly(c) ==
    /\ GetMsg(c) /\ pkt[c].dp_Type = "DIE"
    /\ SendNothing(AbortSerial(Tail(port)))
    /\ sreq' = IdleReq
    /\ g_running' = FALSE
    /\ Return(c)
    /\ UNCHANGED <<fh, joined, owed, g_transfers, ftx, undef, iopkt1, treq,
                   tftppkt, g_busy, dn_Task, exited>>

\* ACTION_DIE: the serial request is aborted, the timer is left alone.
Die(c) ==
    /\ GetMsg(c) /\ pkt[c].dp_Type = "DIE"
    /\ SendNothing(AbortSerial(Tail(port)))
    /\ sreq' = IdleReq
    /\ dn_Task' = FALSE /\ g_running' = FALSE
    /\ Return(c)
    /\ UNCHANGED <<fh, joined, owed, g_transfers, ftx, undef, iopkt1, treq,
                   tftppkt, g_busy, exited>>

\* Actions that read the transfers at most: ACTION_IS_FILESYSTEM, the ones on
\* locks, and any packet of unknown type.
Other(c) ==
    /\ GetMsg(c) /\ pkt[c].dp_Type = "OTHER"
    /\ Return(c)
    /\ port' = Tail(port)
    /\ UNCHANGED <<fh, joined, outpkt, owed, g_transfers, ftx, undef, ioVars,
                   loopVars>>

------------------------------------------------------------------------------
(* Internal actions of the message loop *)

Internal(type) == GetMsg("out") /\ outpkt.dp_Type = type

\* Mutant of the next: the list is searched from its end.
LastReady(f) ==
    /\ g_transfers[f].ftx_state = "S_READY"
    /\ \A g \in f + 1 .. Len(g_transfers) : g_transfers[g].ftx_state # "S_READY"

\* get_next_file_from_queue() returns f.
FirstReady(f) ==
    /\ g_transfers[f].ftx_state = "S_READY"
    /\ \A g \in 1 .. f - 1 : g_transfers[g].ftx_state # "S_READY"
NoneReady == \A g \in DOMAIN g_transfers : g_transfers[g].ftx_state # "S_READY"

\* Mutant of the next: g_busy is not reset.
FailFileBusy(t, f, err, p) ==
    /\ g_transfers' = Failed(t, f, err)
    /\ UNCHANGED g_busy
    /\ SendInternal(p, "FILE_FAILED", f)

\* The file of the packet being handled fails.
FailFile(t, f, err, p) ==
    /\ g_transfers' = Failed(t, f, err)
    /\ g_busy' = FALSE
    /\ SendInternal(p, "FILE_FAILED", f)

\* Mutant of the next: ftx_state is not set after the packet has been sent.
TransmitStateless(t, f, frame, state, busy) ==
    /\ StartIO(WriteReq(frame))
    /\ g_transfers' = t
    /\ g_busy' = busy
    /\ SendNothing(Tail(port))
    /\ undef' = Resent

\* send_tftp_req_packet() or send_tftp_data_packet(), and what follows in
\* entry().  IO is started only once the frame is complete.
Transmit(t, f, frame, state, busy) ==
    \/ /\ StartIO(WriteReq(frame))
       /\ g_transfers' = [t EXCEPT ![f].ftx_state = state]
       /\ g_busy' = busy
       /\ SendNothing(Tail(port))
       /\ undef' = Resent
    \/ /\ "send" \in Env
       /\ FailFile(t, f, "NETIO", Tail(port))
       /\ undef' = Requeued(Tail(port))
       /\ UNCHANGED <<sreq, treq>>

\* Mutant of the next: g_busy is not looked at.
MayStartAlways == TRUE

\* The test at the beginning of ACTION_SEND_NEXT_FILE.
MayStart == ~g_busy

SendNextFile ==
    /\ Internal("SEND_NEXT_FILE")
    /\ \/ /\ ~MayStart
          /\ SendNothing(Tail(port))
          /\ UNCHANGED <<ftx, g_transfers, g_busy, undef, iopkt1, sreq, treq,
                         joined>>
       \/ /\ MayStart /\ NoneReady
          /\ ftx' = 0
          /\ SendNothing(Tail(port))
          /\ UNCHANGED <<g_transfers, g_busy, undef, iopkt1, sreq, treq, joined>>
       \/ \E f \in DOMAIN g_transfers :
             /\ MayStart /\ FirstReady(f)
             /\ ftx' = f /\ joined' = FALSE
             /\ iopkt1' = [dp_Type |-> "WRITE_RETURN", dp_Arg1 |-> f]
             /\ Transmit(g_transfers, f, WrqFrame(f), "S_WRQ_SENT", TRUE)
    /\ UNCHANGED <<pkt, fh, owed, tftppkt, g_running, dn_Task, exited>>

\* The next block of the first buffer of f, as both actions below send it.
SendBlock(t, f) ==
    /\ iopkt1' = [iopkt1 EXCEPT !.dp_Type = "WRITE_RETURN"]
    /\ Transmit(t, f, DataFrame(f, t[f].ftx_blknum, Head(t[f].ftx_buffers)),
                "S_DATA_SENT", g_busy)

SendNextBuffer ==
    LET f == outpkt.dp_Arg1 IN
    /\ Internal("SEND_NEXT_BUFFER")
    /\ ftx' = f /\ joined' = FALSE
    /\ \/ /\ g_transfers[f].ftx_buffers # <<>>
          /\ SendBlock([g_transfers EXCEPT ![f].ftx_blknum = @ + 1], f)
       \/ /\ g_transfers[f].ftx_buffers = <<>>
          /\ g_transfers' = [g_transfers EXCEPT ![f].ftx_state = "S_FINISHED"]
          /\ g_busy' = FALSE
          /\ SendInternal(Tail(port), "FILE_FINISHED", f)
          /\ undef' = Requeued(Tail(port))
          /\ UNCHANGED <<iopkt1, sreq, treq>>
    /\ UNCHANGED <<pkt, fh, owed, tftppkt, g_running, dn_Task, exited>>

\* Mutant of the next: the same bytes again.
SameBlock(t, f) == [t EXCEPT ![f].ftx_blknum = @ + 1]

\* The list t after the head buffer of f has been moved on by one block.
NextBlock(t, f) ==
    [t EXCEPT ![f].ftx_buffers[1].fb_curpos = @ + TFTP_MAX_DATA_SIZE,
              ![f].ftx_blknum = @ + 1]

ContinueBuffer ==
    LET f == outpkt.dp_Arg1 IN
    /\ Internal("CONTINUE_BUFFER")
    /\ ftx' = f /\ joined' = FALSE
    /\ SendBlock(NextBlock(g_transfers, f), f)
    /\ UNCHANGED <<pkt, fh, owed, tftppkt, g_running, dn_Task, exited>>

\* ACTION_FILE_FINISHED and ACTION_FILE_FAILED: what is left is freed.
FileDone ==
    LET f == outpkt.dp_Arg1 IN
    /\ Internal("FILE_FINISHED") \/ Internal("FILE_FAILED")
    /\ ftx' = f
    /\ g_transfers' = [g_transfers EXCEPT ![f].ftx_buffers = <<>>]
    /\ SendInternal(Tail(port), "SEND_NEXT_FILE", 0)
    /\ undef' = Requeued(Tail(port))
    /\ UNCHANGED <<clientVars, owed, ioVars, loopVars>>

BufferFinished ==
    LET f == outpkt.dp_Arg1 IN
    /\ Internal("BUFFER_FINISHED")
    /\ ftx' = f
    /\ g_transfers' = [g_transfers EXCEPT ![f].ftx_buffers = Tail(@)]
    /\ SendInternal(Tail(port), "SEND_NEXT_BUFFER", f)
    /\ undef' = Requeued(Tail(port))
    /\ UNCHANGED <<clientVars, owed, ioVars, loopVars>>

------------------------------------------------------------------------------
(* IO completion: sreq is read from the port, iopkt1 says what it was *)

\* CheckIO() in netio_get_status(): FALSE makes the status -1.
CheckIO == sreq.st # "active"

\* do_write_return(): the answer is read whether or not the write succeeded.
WriteReturn ==
    LET f == iopkt1.dp_Arg1
        p == StopTimer(Tail(port))
    IN
    /\ GetMsg("sreq") /\ iopkt1.dp_Type = "WRITE_RETURN"
    /\ iopkt1' = [iopkt1 EXCEPT !.dp_Type = "READ_RETURN"]
    /\ \/ /\ StartIO(ReadReq)
          /\ IF sreq.failed
             THEN /\ FailFile(g_transfers, f, "SERIAL", p)
                  /\ undef' = Requeued(p)
             ELSE /\ g_busy' = (g_busy /\ CheckIO)
                  /\ SendNothing(p)
                  /\ undef' = IF CheckIO THEN {} ELSE {"resend"}
                  /\ UNCHANGED g_transfers
       \/ /\ "recv" \in Env
          /\ FailFile(g_transfers, f, "NETIO", p)
          /\ undef' = Requeued(p) \cup (IF sreq.failed THEN {"requeue"} ELSE {})
          /\ sreq' = IdleReq /\ treq' = "idle"
    /\ g_running' = CheckIO
    /\ UNCHANGED <<clientVars, owed, ftx, tftppkt, dn_Task, exited>>

\* extract_tftp_packet(): what tftppkt holds afterwards.  When it fails the
\* packet extracted before stays there, at first whatever AllocVec() returned.
Extracted ==
    IF sreq.ans # BadFrame THEN {sreq.ans}
    ELSE IF tftppkt # NoAnswer THEN {tftppkt} ELSE Answers

\* Mutant of the next: the first buffer is taken for acknowledged.
AckRequestAsData(f, p) ==
    /\ g_transfers[f].ftx_state = "S_WRQ_SENT"
    /\ SendInternal(p, "BUFFER_FINISHED", f)
    /\ g_running' = CheckIO /\ g_busy' = (g_busy /\ CheckIO)
    /\ UNCHANGED g_transfers

\* An ACK for the write request, whatever its block number.
AckRequest(f, p) ==
    /\ g_transfers[f].ftx_state = "S_WRQ_SENT"
    /\ SendInternal(p, "SEND_NEXT_BUFFER", f)
    /\ g_running' = CheckIO /\ g_busy' = (g_busy /\ CheckIO)
    /\ UNCHANGED g_transfers

\* Mutant of the next: compared as USHORTs.
BlockMatchesModulo(blk, f) == blk = g_transfers[f].ftx_blknum % BLK_MODULUS

\* The USHORT from the packet is compared with the ULONG ftx_blknum.
BlockMatches(blk, f) == blk = g_transfers[f].ftx_blknum

\* Mutant of the next: the whole buffer is taken for acknowledged.
AcknowledgedBuffer(f) ==
    LET n == Head(g_transfers[f].ftx_buffers).fb_nbytes_to_send IN
    [g_transfers EXCEPT ![f].ftx_buffers[1].fb_nbytes_to_send = 0,
                        ![f].acked = @ + n]

\* The list after the block on the line has been acknowledged.
Acknowledged(f) ==
    [g_transfers EXCEPT
        ![f].ftx_buffers[1].fb_nbytes_to_send = @ - TFTP_MAX_DATA_SIZE,
        ![f].acked = @ + Chunk(Head(g_transfers[f].ftx_buffers).fb_nbytes_to_send)]

\* Mutant of the next: the last, short block is forgotten.
AfterFullBlock(fbuf) ==
    IF fbuf.fb_nbytes_to_send >= TFTP_MAX_DATA_SIZE THEN "CONTINUE_BUFFER"
                                                    ELSE "BUFFER_FINISHED"

\* What is sent next depends on what is left in the buffer.
AfterBlock(fbuf) ==
    IF fbuf.fb_nbytes_to_send > 0 THEN "CONTINUE_BUFFER" ELSE "BUFFER_FINISHED"

AckData(f, blk, p) ==
    /\ g_transfers[f].ftx_state = "S_DATA_SENT" /\ BlockMatches(blk, f)
    /\ g_transfers' = Acknowledged(f)
    /\ SendInternal(p, AfterBlock(Head(Acknowledged(f)[f].ftx_buffers)), f)
    /\ g_running' = CheckIO /\ g_busy' = (g_busy /\ CheckIO)

AckWrongBlock(f, blk, p) ==
    /\ g_transfers[f].ftx_state = "S_DATA_SENT" /\ ~BlockMatches(blk, f)
    /\ FailFile(g_transfers, f, "TFTP_WRONG_BLOCK_NUM", p)
    /\ g_running' = CheckIO

AckWrongState(f, p) ==
    /\ g_transfers[f].ftx_state \notin {"S_WRQ_SENT", "S_DATA_SENT"}
    /\ g_busy' = FALSE /\ g_running' = FALSE
    /\ SendNothing(p)
    /\ UNCHANGED g_transfers

\* Mutant of the next: the server's code is stored as it is.
ErrorAsIs(op) == op

\* ftx_error of a file the server does not answer with an ACK.
ErrorOf(op) == IF op = "ERROR" THEN "TFTP_GENERIC" ELSE "TFTP_UNKNOWN_OPCODE"

\* The read was good and its packet a has been extracted.
Answered(f, a, p) ==
    /\ \/ a.op = "ACK" /\ AckRequest(f, p)
       \/ a.op = "ACK" /\ AckData(f, a.blk, p)
       \/ a.op = "ACK" /\ AckWrongBlock(f, a.blk, p)
       \/ a.op = "ACK" /\ AckWrongState(f, p)
       \/ /\ a.op # "ACK"
          /\ FailFile(g_transfers, f, ErrorOf(a.op), p)
          /\ g_running' = CheckIO
    /\ undef' = Requeued(p)

\* The read or the extraction has failed and ACTION_FILE_FAILED has been sent
\* (twice if both have); the opcode switch is run all the same, on packet a:
\* for an ACK the file is in the wrong state, any other opcode fails it again.
AnswerFailed(f, a, p) ==
    /\ FailFile(g_transfers, f,
                IF a.op # "ACK" THEN ErrorOf(a.op)
                ELSE IF sreq.ans = BadFrame THEN "NETIO" ELSE "SERIAL", p)
    /\ g_running' = (CheckIO /\ a.op # "ACK")
    /\ undef' = Requeued(p) \cup
                IF a.op # "ACK" \/ (sreq.failed /\ sreq.ans = BadFrame)
                THEN {"requeue"} ELSE {}

\* do_read_return()
ReadReturn ==
    LET f == iopkt1.dp_Arg1
        p == StopTimer(Tail(port))
        good == ~sreq.failed /\ sreq.ans # BadFrame
    IN
    /\ GetMsg("sreq") /\ iopkt1.dp_Type = "READ_RETURN"
    /\ \E a \in Extracted :
          /\ tftppkt' = a
          /\ \/ good /\ Answered(f, a, p)
             \/ ~good /\ AnswerFailed(f, a, p)
    /\ sreq' = IdleReq /\ treq' = "idle"
    /\ UNCHANGED <<clientVars, owed, ftx, iopkt1, dn_Task, exited>>

\* ACTION_TIMER_EXPIRED: fails the file the local variable ftx points to.
TimerExpired ==
    LET p == AbortSerial(Tail(port)) IN
    /\ GetMsg("treq")
    /\ FailFile(g_transfers, ftx, "IO_TIMEOUT", p)
    /\ undef' = Requeued(p) \cup IF ftx = 0 THEN {"nullftx"} ELSE {}
    /\ sreq' = IdleReq /\ treq' = "idle"
    /\ UNCHANGED <<clientVars, owed, ftx, iopkt1, tftppkt, g_running, dn_Task,
                   exited>>

\* The end of entry(): netio_exit() closes the devices and frees the requests.
InUse == sreq.st = "active" \/ treq = "running"
Exit ==
    /\ ~g_running /\ ~exited
    /\ exited' = TRUE
    /\ undef' = IF InUse THEN {"freed"} ELSE {}
    /\ UNCHANGED <<port, outpkt, owed, g_transfers, ftx, clientVars, ioVars,
                   g_busy, g_running, dn_Task>>

------------------------------------------------------------------------------
(* The specification *)

\* entry() after netio_init(), when it enters the message loop.
Init ==
    /\ port = <<>>
    /\ pkt = [c \in Clients |-> NoPacket] /\ fh = [c \in Clients |-> 0]
    /\ outpkt = NoInternal /\ owed = NoInternal /\ iopkt1 = NoInternal
    /\ g_transfers = <<>> /\ ftx = 0
    /\ g_busy = FALSE /\ g_running = TRUE /\ dn_Task = TRUE /\ exited = FALSE
    /\ joined = FALSE
    /\ sreq = IdleReq /\ treq = "idle" /\ tftppkt = NoAnswer
    /\ undef = {}

\* One round of the message loop, and leaving it.
Handle ==
    \/ \E c \in Clients :
          FindOutput(c) \/ Write(c) \/ End(c) \/ Die(c) \/ Other(c)
    \/ SendOwed
    \/ SendNextFile \/ SendNextBuffer \/ ContinueBuffer
    \/ FileDone \/ BufferFinished
    \/ WriteReturn \/ ReadReturn \/ TimerExpired
    \/ Exit

Device == WriteDone \/ ReadDone \/ SerialError \/ TimerFires

Client ==
    \E c \in Clients : \/ ClientOpen(c) \/ ClientWrite(c) \/ ClientClose(c)
                       \/ ClientUnmount(c) \/ ClientOther(c)

Next == undef = {} /\ (Handle \/ Device \/ Client)

Spec == Init /\ [][Next]_vars

\* exec schedules the handler's process when a message is in its port, and
\* timer.device replies every request; nothing else is sure to happen, save
\* what "queue" assumes of the exchange during which a file is closed.
FairSpec ==
    /\ Spec
    /\ WF_vars(undef = {} /\ "queue" \in Env /\ joined /\ (WriteDone \/ ReadDone))
    /\ WF_vars(undef = {} /\ Handle)
    /\ WF_vars(undef = {} /\ TimerFires)

------------------------------------------------------------------------------
(* Properties *)

FileRef == 0 .. Len(g_transfers)
Buffers == [fb_curpos : Nat, fb_nbytes_to_send : Int]
Transfers == [ftx_state : TransferStates, ftx_blknum : Nat,
              ftx_error : ErrorCodes, ftx_buffers : Seq(Buffers),
              accepted : Nat, acked : Int]
Frames == [op : {"none", "WRQ", "DATA"}, file : FileRef, blk : Nat,
           off : Nat, len : Int]
Requests == [st : {"idle", "active", "replied"}, cmd : {"none", "write", "read"},
             frame : Frames, failed : BOOLEAN,
             ans : Answers \cup {BadFrame, NoAnswer}]

\* The type invariant of the handler's variables.
TypeOK ==
    /\ port \in Seq(Clients \cup {"out", "sreq", "treq"})
    /\ pkt \in [Clients -> [dp_Type : PacketTypes \cup {"none"},
                            len : WriteLens \cup {0}]]
    /\ fh \in [Clients -> FileRef]
    /\ outpkt \in [dp_Type : InternalTypes \cup {"none"}, dp_Arg1 : FileRef]
    /\ owed \in [dp_Type : InternalTypes \cup {"none"}, dp_Arg1 : FileRef]
    /\ iopkt1 \in [dp_Type : {"none", "WRITE_RETURN", "READ_RETURN"},
                   dp_Arg1 : FileRef]
    /\ g_transfers \in Seq(Transfers) /\ ftx \in FileRef
    /\ g_busy \in BOOLEAN /\ g_running \in BOOLEAN
    /\ dn_Task \in BOOLEAN /\ exited \in BOOLEAN /\ joined \in BOOLEAN
    /\ sreq \in Requests /\ treq \in {"idle", "running", "expired"}
    /\ tftppkt \in Answers \cup {NoAnswer}
    /\ undef \subseteq {"requeue", "resend", "nullftx", "freed"}

Pending(r) == r.st # "idle"
Sending(f) == g_transfers[f].ftx_state \in {"S_WRQ_SENT", "S_DATA_SENT"}

\* A message is in the port once, and exactly when its sender has put it
\* there and nobody has taken it out: a reply is in the port if and only if
\* the device has replied, so CheckIO() (netio.c:103) never finds a request
\* unfinished whose reply has been read.
MessagesOnce ==
    undef = {} =>
        /\ \A i, j \in DOMAIN port : port[i] = port[j] => i = j
        /\ "sreq" \in ToSet(port) <=> sreq.st = "replied"
        /\ "treq" \in ToSet(port) <=> treq = "expired"
        /\ \A c \in Clients : c \in ToSet(port) <=> pkt[c] # NoPacket

\* The race do_write_return() and do_read_return() warn of (dos.c:355, 399),
\* a timer that expires after its IO has completed, is harmless: the timer is
\* running or expired only while the IO it guards is not dealt with, so an
\* expiry is never left over to fail the next operation.
TimerGuardsIO == (undef = {} /\ g_running) => (treq # "idle" <=> Pending(sreq))

\* The head of ftx_buffers is followed without a test for an empty list in
\* ACTION_CONTINUE_BUFFER, ACTION_BUFFER_FINISHED and do_read_return()
\* (handler.c:287, 322, dos.c:396): there always is a buffer then.
BufferPresent ==
    undef = {} =>
        /\ ("out" \in ToSet(port) /\
            outpkt.dp_Type \in {"CONTINUE_BUFFER", "BUFFER_FINISHED"})
              => g_transfers[outpkt.dp_Arg1].ftx_buffers # <<>>
        /\ (Pending(sreq) /\
            g_transfers[iopkt1.dp_Arg1].ftx_state = "S_DATA_SENT")
              => g_transfers[iopkt1.dp_Arg1].ftx_buffers # <<>>

\* A file reported as finished without an error was acknowledged to the last
\* byte the client has written.
FinishedAllAcked ==
    undef = {} =>
        \A f \in DOMAIN g_transfers :
            (/\ g_transfers[f].ftx_state = "S_FINISHED"
             /\ g_transfers[f].ftx_error = "none")
                => g_transfers[f].acked = g_transfers[f].accepted

\* A DATA packet on its way starts where the acknowledged part of its file
\* ends and has no byte beyond the end of the file.
DataInOrder ==
    (undef = {} /\ Pending(sreq) /\ sreq.frame.op = "DATA") =>
        LET t == g_transfers[sreq.frame.file] IN
        t.ftx_error = "none" =>
            /\ sreq.frame.off = t.acked /\ sreq.frame.len >= 0
            /\ sreq.frame.off + sreq.frame.len <= t.accepted

\* A file with more blocks than a USHORT can number is not finished with a
\* block number used twice: it fails (ftx_blknum is a ULONG, dos.c:436).
NoBlockNumberReused ==
    undef = {} =>
        \A f \in DOMAIN g_transfers :
            g_transfers[f].ftx_state = "S_FINISHED"
                => g_transfers[f].ftx_blknum < BLK_MODULUS

\* Nothing undefined happens: outpkt is not sent while it is in the port, no
\* IO request is sent or freed while in use, no NULL pointer is followed.
NoUndefined == undef = {}

\* outpkt is one packet for every event ("send a DOS packet to ourselves",
\* dos.c:13): it is in the port at most once.
InternalPacketOnce == "requeue" \notin undef

\* When netio_exit() closes the devices and frees the requests neither is in
\* use any more (handler.c:217 "abort ongoing IO operation").
RequestsFreedIdle == "freed" \notin undef

\* g_busy says whether a file is being transferred, and at most one is.
OneSender ==
    /\ g_busy <=> \E f \in DOMAIN g_transfers : Sending(f)
    /\ \A f, g \in DOMAIN g_transfers : Sending(f) /\ Sending(g) => f = g

\* ACTION_TIMER_EXPIRED fails the file in the variable ftx (handler.c:348);
\* while a timer may expire that is the file whose IO is in progress, and it
\* is again from the next frame on when another file has been closed.
TimeoutOwner ==
    (g_running /\ treq # "idle" /\ ~joined) =>
        (ftx = iopkt1.dp_Arg1 /\ Sending(ftx))

\* The handler leaves its loop only after it has told DOS not to send it any
\* more packets (handler.c:220).
StopsCleanly == ~g_running => ~dn_Task

\* A timeout fails a file that waits for the server, S_WRQ_SENT or
\* S_DATA_SENT in the state machine of handler.c:126-129.
TimeoutHitsSender ==
    [][\A f \in DOMAIN g_transfers :
          (/\ g_transfers'[f].ftx_error = "IO_TIMEOUT"
           /\ g_transfers[f].ftx_error # "IO_TIMEOUT") => Sending(f)]_vars

\* Every file that is closed ends as finished or failed, however the server
\* answers and whether or not it does; the loop is never blocked in
\* WaitPort() with a file half sent (handler.c:123).
StateOf(f) == IF f \in DOMAIN g_transfers THEN g_transfers[f].ftx_state
                                          ELSE "none"
TransfersEnd ==
    \A f \in 1 .. MaxFiles :
        StateOf(f) = "S_READY" ~> StateOf(f) \in {"S_FINISHED", "S_ERROR"}

\* Every DOS packet is returned to its sender while the loop runs; the ones
\* queued behind ACTION_DIE are not (handler.c:223).
PacketsReturned ==
    \A c \in Clients :
        pkt[c] # NoPacket ~> (pkt[c] = NoPacket \/ ~g_running)
=============================================================================
