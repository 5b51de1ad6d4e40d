----------------------------- MODULE TftpServer -----------------------------
(****************************************************************************)
(* The TFTP server the uploads go to, as far as its clients depend on it.   *)
(* It is not part of the repository; what is known of it is what handler    *)
(* and minitftp expect: a write request is acknowledged with block 0, a     *)
(* block with its own number, a block shorter than the maximum is the last  *)
(* one, a repeated number is taken for "a duplicate packet" (dos.c:92-96)   *)
(* which is acknowledged and not saved, anything else is an ERROR.          *)
(*                                                                          *)
(* A file on the disk is the sequence of the positions its bytes had in the *)
(* file that was sent, so that a block lost, repeated or swapped shows.     *)
(****************************************************************************)
EXTENDS Integers, Sequences

CONSTANTS Files, TFTP_MAX_DATA_SIZE, BLK_MODULUS

\* A server without a session: file is the file being received, next the
\* number of the block expected, closed the files it has seen the end of.
Idle == [file |-> 0, next |-> 0, disk |-> [f \in Files |-> <<>>],
         closed |-> {}]

Positions(off, len) == [i \in 1 .. len |-> off + i]

\* The file on the disk that a file of n bytes has to become.
Whole(n) == Positions(0, n)

Expected(srv, p) == p.op = "DATA" /\ srv.file # 0 /\ p.blk = srv.next
Repeated(srv, p) == p.op = "DATA" /\ p.blk = (srv.next - 1) % BLK_MODULUS

Opened(srv, f) ==
    [srv EXCEPT !.file = f, !.next = 1 % BLK_MODULUS, !.disk[f] = <<>>,
                !.closed = @ \ {f}]

Stored(srv, p) ==
    LET last == p.len < TFTP_MAX_DATA_SIZE IN
    [srv EXCEPT !.file = IF last THEN 0 ELSE @,
                !.next = (@ + 1) % BLK_MODULUS,
                !.disk[srv.file] = @ \o Positions(p.off, p.len),
                !.closed = IF last THEN @ \cup {srv.file} ELSE @]

\* The server after it has received packet p, and its answer.
Received(srv, p) ==
    CASE p.op = "WRQ"     -> Opened(srv, p.file)
      [] Expected(srv, p) -> Stored(srv, p)
      [] OTHER            -> srv
Answer(srv, p) ==
    CASE p.op = "WRQ" -> [op |-> "ACK", blk |-> 0]
      [] Expected(srv, p) \/ Repeated(srv, p) -> [op |-> "ACK", blk |-> p.blk]
      [] OTHER -> [op |-> "ERROR", blk |-> 0]
=============================================================================
