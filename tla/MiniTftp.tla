------------------------------ MODULE MiniTftp ------------------------------
(****************************************************************************)
(* minitftp.c, the stand-alone TFTP client for Unix, and the server it      *)
(* sends one file to.  Unlike the handler it has no timer, reads its socket *)
(* synchronously and announces the end of the file with a short block.  The *)
(* packets travel in UDP: they may be lost, delivered again and overtake    *)
(* each other.                                                              *)
(****************************************************************************)
EXTENDS Integers

CONSTANTS
    Sizes,                \* bound: sizes of the file to send
    TFTP_MAX_DATA_SIZE,   \* 512 in the code
    BLK_MODULUS,          \* 2^16: blknum is a uint16_t
    Faults                \* what may go wrong, see FaultEvents

\* Calls that fail, and what the network does with a packet.
FaultEvents == {"open", "socket", "getaddrinfo", "sendto", "read", "recvfrom",
                "lose", "duplicate"}

ASSUME SizesAssumption  == Sizes \subseteq Nat /\ TFTP_MAX_DATA_SIZE \in Nat \ {0}
ASSUME FaultsAssumption == Faults \subseteq FaultEvents

\* The largest file whose blocks all have a number of their own.
ASSUME NoWrapAssumption ==
    /\ BLK_MODULUS \in Nat \ {0, 1}
    /\ \A n \in Sizes : n \div TFTP_MAX_DATA_SIZE + 1 < BLK_MODULUS

VARIABLES
    pc,        \* the call main() makes next
    error,     \* what main() returns
    held,      \* file, socket and address list that have not been released
    size,      \* of the file
    fpos,      \* position in the file
    buflen,    \* bytes read for the block sent last, -1 after an error
    blknum,
    toServer, toClient,   \* packets on their way
    srv,       \* the server
    faulty     \* history: something has gone wrong

fileVars == <<size, fpos, buflen, blknum>>
netVars  == <<toServer, toClient, srv>>
vars == <<pc, error, held, faulty, fileVars, netVars>>

Server == INSTANCE TftpServer WITH Files <- {1}

Wrq == [op |-> "WRQ", file |-> 1, blk |-> 0, off |-> 0, len |-> 0]
Data(n, off, len) ==
    [op |-> "DATA", file |-> 1, blk |-> n, off |-> off, len |-> len]

------------------------------------------------------------------------------
(* Resources: open(), socket() and getaddrinfo(), released in reverse order *)

\* A call that acquires r; when it fails main() goes on where cleanup says.
Acquire(here, call, r, next, cleanup) ==
    /\ pc = here
    /\ \/ /\ held' = held \cup {r} /\ pc' = next
          /\ UNCHANGED <<error, faulty>>
       \/ /\ call \in Faults
          /\ pc' = cleanup /\ error' = 1 /\ faulty' = TRUE
          /\ UNCHANGED held
    /\ UNCHANGED <<fileVars, netVars>>

\* A name too long for the request ends main() like a failing open().
Open   == Acquire("open", "open", "infd", "socket", "return")
Socket == Acquire("socket", "socket", "sockfd", "getaddrinfo", "close_infd")

\* Mutant of the next: the socket is forgotten.
ResolveLeaking ==
    Acquire("getaddrinfo", "getaddrinfo", "addr", "request", "close_infd")
Resolve ==
    Acquire("getaddrinfo", "getaddrinfo", "addr", "request", "close_sockfd")

Release(here, r, next) ==
    /\ pc = here
    /\ held' = held \ {r} /\ pc' = next
    /\ UNCHANGED <<error, faulty, fileVars, netVars>>

FreeAddrInfo == Release("freeaddrinfo", "addr", "close_sockfd")
CloseSocket  == Release("close_sockfd", "sockfd", "close_infd")
CloseFile    == Release("close_infd", "infd", "return")

------------------------------------------------------------------------------
(* The transfer *)

\* sendto() of packet p; when it fails main() goes on all the same.
SendTo(p) ==
    \/ toServer' = toServer \cup {p} /\ UNCHANGED <<error, faulty>>
    \/ /\ "sendto" \in Faults
       /\ error' = 1 /\ faulty' = TRUE
       /\ UNCHANGED toServer

\* send_req_packet(): its answer is waited for whether or not it was sent.
SendReqPacket ==
    /\ pc = "request"
    /\ SendTo(Wrq)
    /\ pc' = "answer"
    /\ UNCHANGED <<held, fileVars, toClient, srv>>

\* Packet p is taken off the network, which may deliver it again.  A second
\* copy of the write request would start the file anew; it is left out.
Take(net, p) ==
    \/ net' = net \ {p} /\ UNCHANGED faulty
    \/ /\ "duplicate" \in Faults /\ p.op # "WRQ"
       /\ faulty' = TRUE /\ UNCHANGED net

\* recv_packet() fails.
RecvFails == "recvfrom" \in Faults /\ faulty' = TRUE /\ UNCHANGED toClient

\* The answer to the write request: any ACK starts the transfer.
IsAck(p) == p.op = "ACK"
RecvAnswer ==
    /\ pc = "answer"
    /\ \/ /\ \E p \in toClient : IsAck(p) /\ Take(toClient, p)
          /\ pc' = "block"
          /\ UNCHANGED error
       \/ /\ \/ \E p \in toClient : ~IsAck(p) /\ Take(toClient, p)
             \/ RecvFails
          /\ pc' = "freeaddrinfo"
          /\ error' = 1
    /\ UNCHANGED <<held, fileVars, toServer, srv>>

\* Bytes that read() returns.
Chunk ==
    IF size - fpos > TFTP_MAX_DATA_SIZE THEN TFTP_MAX_DATA_SIZE ELSE size - fpos

\* The first half of the loop's body.  After an error of read() the length
\* -1 is 65535 as a uint16_t, and send_data_packet() sends nothing.
SendBlock ==
    /\ pc = "block"
    /\ blknum' = (blknum + 1) % BLK_MODULUS
    /\ \/ /\ buflen' = Chunk /\ fpos' = fpos + Chunk
          /\ SendTo(Data(blknum', fpos, Chunk))
       \/ /\ "read" \in Faults
          /\ buflen' = -1
          /\ error' = 1 /\ faulty' = TRUE
          /\ UNCHANGED <<fpos, toServer>>
    /\ pc' = "ack"
    /\ UNCHANGED <<held, size, toClient, srv>>

\* Mutants of the next: the block number is not compared.
AcceptsAny(p) == IsAck(p)

\* Another: it is compared with the block to come.
AcceptsNext(p) == IsAck(p) /\ p.blk = blknum + 1

\* An ACK of the block sent last.
Accepts(p) == IsAck(p) /\ p.blk = blknum

\* The loop's condition, apart from error.
More == buflen = TFTP_MAX_DATA_SIZE

\* The second half of the loop's body and the loop's condition.  After a
\* failed recv_packet() the packet before is looked at, to no effect.
RecvAck ==
    /\ pc = "ack"
    /\ \/ \E p \in toClient :
             /\ Take(toClient, p)
             /\ error' = IF Accepts(p) THEN error ELSE 1
       \/ RecvFails /\ error' = 1
    /\ pc' = IF More /\ error' = 0 THEN "block" ELSE "freeaddrinfo"
    /\ UNCHANGED <<held, fileVars, toServer, srv>>

------------------------------------------------------------------------------
(* Server and network *)

ServerReceives ==
    \E p \in toServer :
        /\ Take(toServer, p)
        /\ srv' = Server!Received(srv, p)
        /\ toClient' = toClient \cup {Server!Answer(srv, p)}
        /\ UNCHANGED <<pc, error, held, fileVars>>

Lose ==
    /\ "lose" \in Faults
    /\ \/ /\ \E p \in toServer : toServer' = toServer \ {p}
          /\ UNCHANGED toClient
       \/ /\ \E p \in toClient : toClient' = toClient \ {p}
          /\ UNCHANGED toServer
    /\ faulty' = TRUE
    /\ UNCHANGED <<pc, error, held, fileVars, srv>>

------------------------------------------------------------------------------
(* The specification *)

Init ==
    /\ pc = "open" /\ error = 0 /\ held = {}
    /\ size \in Sizes /\ fpos = 0 /\ buflen = 0 /\ blknum = 0
    /\ toServer = {} /\ toClient = {} /\ srv = Server!Idle
    /\ faulty = FALSE

Main ==
    \/ Open \/ Socket \/ Resolve
    \/ SendReqPacket \/ RecvAnswer \/ SendBlock \/ RecvAck
    \/ FreeAddrInfo \/ CloseSocket \/ CloseFile

Next == Main \/ ServerReceives \/ Lose

\* The process runs when it can and a packet that is not lost arrives.
Spec == Init /\ [][Next]_vars /\ WF_vars(Main) /\ WF_vars(ServerReceives)

------------------------------------------------------------------------------
(* Properties *)

Returned == pc = "return"

\* minitftp returns 0 only if the server has the whole file, byte for byte,
\* and knows that it is complete: a delayed or repeated ACK is never taken
\* for the one of a block that was lost (minitftp.c:190), and a size that is
\* a multiple of 512 is ended by an empty block (minitftp.c:207).
SuccessIsReal ==
    (Returned /\ error = 0) =>
        srv.disk[1] = Server!Whole(size) /\ srv.closed = {1}

\* However main() ends, file, socket and address list have been released
\* (minitftp.c:226-238), and none was before the transfer was over.
AllReleased ==
    /\ Returned => held = {}
    /\ pc \in {"answer", "block", "ack"} => held = {"infd", "sockfd", "addr"}

\* If no call fails and no packet is lost or repeated the file arrives and
\* minitftp returns 0.  After a loss recvfrom() (minitftp.c:112) waits for
\* ever, so nothing is promised then.
Completes == <>(faulty \/ (Returned /\ error = 0))
=============================================================================
