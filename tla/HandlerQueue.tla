---------------------------- MODULE HandlerQueue ----------------------------
(* The handler as an implementation of FileQueue. *)
EXTENDS Handler

\* What a user of NET: sees of the state of a file transfer.
Visible(state) ==
    CASE state = "S_QUEUED"   -> "open"
      [] state = "S_READY"    -> "closed"
      [] state = "S_WRQ_SENT" -> "sending"
      [] state = "S_DATA_SENT" -> "sending"
      [] state = "S_FINISHED" -> "done"
      [] state = "S_ERROR"    -> "failed"

\* The refinement mapping: block numbers, buffers and error codes are hidden.
Queue == INSTANCE FileQueue WITH
    BlockSize <- TFTP_MAX_DATA_SIZE,
    files <- [f \in DOMAIN g_transfers |->
                [st       |-> Visible(g_transfers[f].ftx_state),
                 accepted |-> g_transfers[f].accepted,
                 acked    |-> g_transfers[f].acked]]

\* With clients that wait before they unmount, and close their files then or
\* while another is being sent (cwtest.bat:17-23), and whatever the server
\* answers, the handler sends the files in the order of the queue, one at a
\* time and without a gap, and a file leaves S_FINISHED or S_ERROR never again
\* (the state machine drawn in handler.c:126-129): it implements FileQueue.
ImplementsQueue == Queue!Spec
=============================================================================
