------------------------------- MODULE Upload -------------------------------
(****************************************************************************)
(* The handler, the serial line and the TFTP server at its other end.       *)
(*                                                                          *)
(* Handler lets a read return any answer.  Here a frame the handler writes  *)
(* goes to the server, and what the handler reads is what the server has    *)
(* sent, in this order: the line is a pair of queues, and serial.device     *)
(* keeps what arrives while no read is in progress.  The line may lose      *)
(* frames of both directions.                                               *)
(****************************************************************************)
EXTENDS HandlerQueue

CONSTANT Line   \* what the line may do: "lose" a frame, be "late"

ASSUME LineAssumption == Line \subseteq {"lose", "late"}

VARIABLES
    toServer,   \* frames on their way to the server, oldest first
    toClient,   \* answers on their way back or buffered by serial.device
    srv,        \* the server
    lost        \* history: files of which a frame or an answer was lost

lineVars   == <<toServer, toClient, srv, lost>>
uploadVars == <<vars, lineVars>>

Server == INSTANCE TftpServer WITH Files <- 1 .. MaxFiles

------------------------------------------------------------------------------
(* The line *)

\* serial.device has sent the frame of a write.
FrameWritten ==
    /\ WriteDone
    /\ toServer' = Append(toServer, sreq.frame)
    /\ UNCHANGED <<toClient, srv, lost>>

\* serial.device completes a read with the oldest answer.
AnswerRead ==
    /\ toClient # <<>>
    /\ sreq.cmd = "read" /\ SerialReplies(FALSE, Head(toClient))
    /\ toClient' = Tail(toClient)
    /\ UNCHANGED <<toServer, srv, lost>>

ServerReceives ==
    /\ toServer # <<>>
    /\ srv' = Server!Received(srv, Head(toServer))
    /\ toClient' = Append(toClient, Server!Answer(srv, Head(toServer)))
    /\ toServer' = Tail(toServer)
    /\ UNCHANGED <<vars, lost>>

\* The oldest frame or answer is lost, in the exchange iopkt1 is about.
Lose ==
    /\ "lose" \in Line
    /\ \/ toServer # <<>> /\ toServer' = Tail(toServer) /\ UNCHANGED toClient
       \/ toClient # <<>> /\ toClient' = Tail(toClient) /\ UNCHANGED toServer
    /\ lost' = lost \cup {iopkt1.dp_Arg1}
    /\ UNCHANGED <<vars, srv>>

\* The timer leaves line and server NETIO_TIMEOUT seconds, which is enough
\* unless the line is late.
Timeout ==
    /\ \/ "late" \in Line
       \/ /\ toServer = <<>> /\ toClient = <<>>
          /\ sreq.st = "active" => sreq.cmd = "read"
    /\ TimerFires
    /\ UNCHANGED lineVars

------------------------------------------------------------------------------
(* The specification *)

UploadInit ==
    /\ Init
    /\ toServer = <<>> /\ toClient = <<>> /\ srv = Server!Idle /\ lost = {}

\* Nothing is claimed of the handler after an undefined operation.
HandlerStep == undef = {} /\ Handle /\ UNCHANGED lineVars
ClientStep  == undef = {} /\ Client /\ UNCHANGED lineVars

UploadNext ==
    \/ HandlerStep \/ ClientStep \/ Timeout
    \/ FrameWritten \/ AnswerRead \/ ServerReceives \/ Lose

\* exec runs the handler when it has a message; devices and server answer.
UploadSpec ==
    /\ UploadInit /\ [][UploadNext]_uploadVars
    /\ WF_uploadVars(HandlerStep) /\ WF_uploadVars(Timeout)
    /\ WF_uploadVars(FrameWritten) /\ WF_uploadVars(AnswerRead)
    /\ WF_uploadVars(ServerReceives)

------------------------------------------------------------------------------
(* Properties *)

Finished(f) == /\ g_transfers[f].ftx_state = "S_FINISHED"
               /\ g_transfers[f].ftx_error = "none"

\* Every byte of a file that is listed as finished is on the server's disk,
\* in its place, and nothing else is (handler.c:276): also after a loss that
\* has failed another file in the middle, and for a client that writes in
\* pieces the server takes for the end of the file.
FinishedStored ==
    \A f \in DOMAIN g_transfers :
        Finished(f) => srv.disk[f] = Server!Whole(g_transfers[f].accepted)

\* Handler and server are never apart by more than the block on the line:
\* no byte counts as acknowledged that the server has not stored, and it has
\* stored at most one block more (dos.c:436-438).
ServerInStep ==
    \A f \in DOMAIN g_transfers :
        Len(srv.disk[f]) - g_transfers[f].acked \in 0 .. TFTP_MAX_DATA_SIZE

\* All writes of a file but its last one filled whole blocks, as those of
\* copy do, which writes through a buffer of 64 KB (cwtest.bat:17).
Aligned(f) ==
    \A i \in DOMAIN g_transfers[f].ftx_buffers :
        i < Len(g_transfers[f].ftx_buffers) =>
            LET n == g_transfers[f].ftx_buffers[i].fb_nbytes_to_send IN
            n > 0 /\ n % TFTP_MAX_DATA_SIZE = 0

\* Every file that is closed is finished in the end unless one of its own
\* packets is lost; a timeout of the file before does not take it along
\* (handler.c:305-316).
Delivered ==
    \A f \in 1 .. MaxFiles :
        (StateOf(f) = "S_READY" /\ Aligned(f))
            ~> (StateOf(f) = "S_FINISHED" \/ f \in lost)

\* When "file has been completely transfered" is reported (handler.c:276) the
\* server knows that the file is complete, which TFTP tells it by a block of
\* less than 512 bytes (minitftp.c:207 sends an empty one if need be).
FinishedComplete ==
    \A f \in DOMAIN g_transfers : Finished(f) => f \in srv.closed
=============================================================================
