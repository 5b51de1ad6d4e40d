------------------------------ MODULE SlipCodec ------------------------------
(****************************************************************************)
(* The way of one TFTP packet through netio.c: send_tftp_packet() wraps it  *)
(* into UDP, IP and a SLIP frame, and extract_tftp_packet() unwraps what    *)
(* recv_tftp_packet() has read.  So that the one can be compared with the   *)
(* other the line is closed to a loop: what is read is the frame that was   *)
(* sent.  No peer in the repository does that; a frame of the server is     *)
(* encoded in the same way.                                                 *)
(*                                                                          *)
(* A buffer is the sequence of its bytes, the loops of slip_encode_buffer() *)
(* and slip_decode_buffer() take one step per pass.  SLIP tells five kinds  *)
(* of bytes apart.  A read behind the last byte received yields any byte.   *)
(****************************************************************************)
EXTENDS Integers, Sequences

CONSTANTS
    MAX_BUFFER_SIZE,   \* 1024 in the code
    UDP_HDR_LEN,       \* 8
    IP_HDR_LEN,        \* 20
    MaxPayload         \* bound: length of a TFTP packet (516 in the code)

ASSUME BufferAssumption == MAX_BUFFER_SIZE \in Nat /\ MAX_BUFFER_SIZE >= 2
ASSUME HeaderAssumption == UDP_HDR_LEN \in Nat /\ IP_HDR_LEN \in Nat
ASSUME PayloadAssumption == MaxPayload \in Nat

SLIP_END         == "END"
SLIP_ESC         == "ESC"
SLIP_ESCAPED_END == "ESCAPED_END"
SLIP_ESCAPED_ESC == "ESCAPED_ESC"
Bytes == {SLIP_END, SLIP_ESC, SLIP_ESCAPED_END, SLIP_ESCAPED_ESC, "plain"}

VARIABLES
    phase,          \* the function at work, or how the packet has ended
    payload,        \* the TFTP packet to send (never changed)
    prevbuf,        \* the buffer of the layer above
    curbuf,         \* the buffer being filled
    nsrc,           \* bytes of prevbuf consumed by the loop
    live,           \* buffers allocated and not yet freed
    g_netio_errno

vars == <<phase, payload, prevbuf, curbuf, nsrc, live, g_netio_errno>>

Phases == {"udp", "ip", "slip", "encode", "marker", "send", "line", "decode",
           "ip_data", "udp_data", "extracted", "failed"}
Errors == {"none", "BUFFER_OVERFLOW", "NO_FREE_STORE", "BAD_NUMBER"}
Strings(n) == UNION {[1 .. k -> Bytes] : k \in 0 .. n}

Fail(err) ==
    /\ phase' = "failed" /\ g_netio_errno' = err
    /\ UNCHANGED <<payload, prevbuf, curbuf, nsrc, live>>

\* create_buffer() returns NULL.
OutOfMemory == Fail("NO_FREE_STORE")

------------------------------------------------------------------------------
(* send_tftp_packet() *)

\* create_udp_packet() and create_ip_packet(): a new buffer with a header of
\* any bytes in front; the caller deletes the old one.
AddHeader(len, next) ==
    LET fits == len + Len(prevbuf) <= MAX_BUFFER_SIZE IN
    \/ Fail(IF fits THEN "NO_FREE_STORE" ELSE "BUFFER_OVERFLOW")
    \/ /\ fits
       /\ \E hdr \in [1 .. len -> Bytes] : prevbuf' = hdr \o prevbuf
       /\ phase' = next
       /\ UNCHANGED <<payload, curbuf, nsrc, live, g_netio_errno>>

CreateUdpPacket == phase = "udp" /\ AddHeader(UDP_HDR_LEN, "ip")
CreateIpPacket  == phase = "ip"  /\ AddHeader(IP_HDR_LEN, "slip")

\* create_slip_frame(): the buffer, the loop, the end-of-frame marker.
CreateSlipFrame ==
    /\ phase = "slip"
    /\ \/ OutOfMemory
       \/ /\ phase' = "encode" /\ curbuf' = <<>> /\ nsrc' = 0
          /\ live' = live + 1
          /\ UNCHANGED <<payload, prevbuf, g_netio_errno>>

\* Mutants of the next two: END is not escaped; room for one byte is taken
\* for room for two.
EscapeEscOnly(b) ==
    IF b = SLIP_ESC THEN <<SLIP_ESC, SLIP_ESCAPED_ESC>> ELSE <<b>>
RoomForOne == Len(curbuf) < MAX_BUFFER_SIZE

\* What slip_encode_buffer() writes for one byte, and its loop limit.
Escape(b) == IF b = SLIP_END THEN <<SLIP_ESC, SLIP_ESCAPED_END>>
             ELSE IF b = SLIP_ESC THEN <<SLIP_ESC, SLIP_ESCAPED_ESC>>
             ELSE <<b>>
RoomForTwo == Len(curbuf) < MAX_BUFFER_SIZE - 1

\* slip_encode_buffer(): a pass of the loop, and what follows the loop.
EncodeByte ==
    /\ phase = "encode" /\ nsrc < Len(prevbuf) /\ RoomForTwo
    /\ curbuf' = curbuf \o Escape(prevbuf[nsrc + 1])
    /\ nsrc' = nsrc + 1
    /\ UNCHANGED <<phase, payload, prevbuf, live, g_netio_errno>>

EncodeEnd ==
    /\ phase = "encode" /\ ~(nsrc < Len(prevbuf) /\ RoomForTwo)
    /\ \/ nsrc < Len(prevbuf) /\ Fail("BUFFER_OVERFLOW")
       \/ /\ nsrc = Len(prevbuf)
          /\ phase' = "marker"
          /\ UNCHANGED <<payload, prevbuf, curbuf, nsrc, live, g_netio_errno>>

AddEndMarker ==
    /\ phase = "marker"
    /\ \/ Len(curbuf) >= MAX_BUFFER_SIZE /\ Fail("BUFFER_OVERFLOW")
       \/ /\ Len(curbuf) < MAX_BUFFER_SIZE
          /\ curbuf' = Append(curbuf, SLIP_END)
          /\ phase' = "send"
          /\ live' = live - 1                       \* delete_buffer(prevbuf)
          /\ UNCHANGED <<payload, prevbuf, nsrc, g_netio_errno>>

\* Mutant of the next: the frame is not deleted.
SendFrameKeeping ==
    /\ phase = "send"
    /\ phase' = "line" /\ prevbuf' = curbuf
    /\ UNCHANGED <<payload, curbuf, nsrc, live, g_netio_errno>>

\* send_slip_frame() starts the write, then delete_buffer(curbuf).
SendSlipFrame ==
    /\ phase = "send"
    /\ phase' = "line" /\ prevbuf' = curbuf /\ live' = live - 1
    /\ UNCHANGED <<payload, curbuf, nsrc, g_netio_errno>>

------------------------------------------------------------------------------
(* recv_tftp_packet() and extract_tftp_packet() *)

\* create_buffer() for the read, which ends with the marker, and again for the
\* decoded data.  The frame read is the one sent, left in prevbuf.
ReadFrame ==
    /\ phase = "line"
    /\ \/ OutOfMemory
       \/ /\ phase' = "decode" /\ curbuf' = <<>> /\ nsrc' = 0
          /\ live' = live + 2
          /\ UNCHANGED <<payload, prevbuf, g_netio_errno>>

\* The byte at *src; behind the bytes received the buffer is uninitialized.
Src(i) == IF i <= Len(prevbuf) THEN {prevbuf[i]} ELSE Bytes

\* Mutant of the next: the escape byte is copied, too.
UnescapeKeeping(e) ==
    <<SLIP_ESC>> \o IF e = SLIP_ESCAPED_END THEN <<SLIP_END>> ELSE <<SLIP_ESC>>

Unescape(e) == IF e = SLIP_ESCAPED_END THEN <<SLIP_END>> ELSE <<SLIP_ESC>>

\* The loop of slip_decode_buffer() counts the bytes written, not those read.
Decoding == Len(curbuf) < Len(prevbuf) /\ Len(curbuf) < MAX_BUFFER_SIZE

DecodePlain ==
    /\ phase = "decode" /\ Decoding
    /\ \E b \in Src(nsrc + 1) \ {SLIP_ESC} : curbuf' = Append(curbuf, b)
    /\ nsrc' = nsrc + 1
    /\ UNCHANGED <<phase, payload, prevbuf, live, g_netio_errno>>

DecodeEscape ==
    /\ phase = "decode" /\ Decoding /\ SLIP_ESC \in Src(nsrc + 1)
    /\ \E e \in Src(nsrc + 2) :
          \/ /\ e \in {SLIP_ESCAPED_END, SLIP_ESCAPED_ESC}
             /\ curbuf' = curbuf \o Unescape(e)
             /\ nsrc' = nsrc + 2
             /\ UNCHANGED <<phase, payload, prevbuf, live, g_netio_errno>>
          \/ /\ e \notin {SLIP_ESCAPED_END, SLIP_ESCAPED_ESC}
             /\ Fail("BAD_NUMBER")

\* As many bytes written as had been read (io_Length is MAX_BUFFER_SIZE, so
\* the other limit is not met before): the read buffer is freed.
DecodeEnd ==
    /\ phase = "decode" /\ ~Decoding /\ Len(curbuf) = Len(prevbuf)
    /\ phase' = "ip_data" /\ prevbuf' = curbuf /\ live' = live - 1
    /\ UNCHANGED <<payload, curbuf, nsrc, g_netio_errno>>

\* get_data_from_ip_packet() and get_data_from_udp_packet(): a new buffer
\* without the header; the caller deletes the old one.
GetDataFromIpPacket ==
    /\ phase = "ip_data"
    /\ \/ OutOfMemory
       \/ /\ prevbuf' = SubSeq(prevbuf, IP_HDR_LEN + 1, Len(prevbuf))
          /\ phase' = "udp_data"
          /\ UNCHANGED <<payload, curbuf, nsrc, live, g_netio_errno>>

\* The packet is copied to the caller's buffer and the last one is deleted.
GetDataFromUdpPacket ==
    /\ phase = "udp_data"
    /\ \/ OutOfMemory
       \/ /\ prevbuf' = SubSeq(prevbuf, UDP_HDR_LEN + 1, Len(prevbuf))
          /\ phase' = "extracted" /\ live' = live - 1
          /\ UNCHANGED <<payload, curbuf, nsrc, g_netio_errno>>

------------------------------------------------------------------------------

Init ==
    /\ phase = "udp" /\ payload \in Strings(MaxPayload) /\ prevbuf = payload
    /\ curbuf = <<>> /\ nsrc = 0 /\ live = 1 /\ g_netio_errno = "none"

Next ==
    \/ CreateUdpPacket \/ CreateIpPacket \/ CreateSlipFrame
    \/ EncodeByte \/ EncodeEnd \/ AddEndMarker \/ SendSlipFrame
    \/ ReadFrame \/ DecodePlain \/ DecodeEscape \/ DecodeEnd
    \/ GetDataFromIpPacket \/ GetDataFromUdpPacket

Spec == Init /\ [][Next]_vars

------------------------------------------------------------------------------
(* Properties *)

\* The type invariant of the codec's variables.
TypeOK ==
    /\ phase \in Phases /\ g_netio_errno \in Errors
    /\ payload \in Seq(Bytes)
    /\ prevbuf \in Seq(Bytes) /\ curbuf \in Seq(Bytes)
    /\ nsrc \in Nat /\ live \in Int

\* No byte is written behind the end of a buffer of MAX_BUFFER_SIZE bytes,
\* although a pass of the encoder may write two (netio.c:142-146).
WritesInBounds == Len(curbuf) <= MAX_BUFFER_SIZE

\* The end-of-frame marker is the last byte of a frame and occurs nowhere
\* else in it: the terminator serial.device is told to stop reading at.
FrameDelimited ==
    phase = "line" =>
        \A i \in DOMAIN prevbuf : prevbuf[i] = SLIP_END <=> i = Len(prevbuf)

\* The TFTP packet extracted from a frame starts with the packet sent; the
\* opcode and the block number the handler looks at are among these bytes.
PrefixIntact ==
    phase = "extracted" => /\ Len(prevbuf) >= Len(payload)
                           /\ SubSeq(prevbuf, 1, Len(payload)) = payload

\* Every buffer has been freed once a packet has been sent or extracted.
BuffersReleased == phase \in {"line", "extracted"} => live = 0
=============================================================================
