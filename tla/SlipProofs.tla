----------------------------- MODULE SlipProofs ------------------------------
(****************************************************************************)
(* Proofs about the SLIP codec of netio.c, for buffers, headers and packets *)
(* of any size.                                                             *)
(****************************************************************************)
EXTENDS SlipCodec, TLAPS

\* What one byte of the packet becomes has no end-of-frame marker in it.
LEMMA EscapeProperties ==
    ASSUME NEW b \in Bytes
    PROVE  /\ Escape(b) \in Seq(Bytes \ {SLIP_END})
           /\ Len(Escape(b)) \in 1 .. 2
<1> DEFINE T == Bytes \ {SLIP_END}
<1>1. SLIP_ESC \in T /\ SLIP_ESCAPED_END \in T /\ SLIP_ESCAPED_ESC \in T
  BY DEF Bytes, SLIP_END, SLIP_ESC, SLIP_ESCAPED_END, SLIP_ESCAPED_ESC
<1>2. b # SLIP_END => b \in T
  OBVIOUS
<1> HIDE DEF T
<1>3. CASE b = SLIP_END
  BY <1>1, <1>3 DEF Escape, T
<1>4. CASE b # SLIP_END /\ b = SLIP_ESC
  BY <1>1, <1>4 DEF Escape, T
<1>5. CASE b # SLIP_END /\ b # SLIP_ESC
  BY <1>2, <1>5 DEF Escape, T
<1> QED
  BY <1>3, <1>4, <1>5

\* Up to the marker a frame has no marker in it; the marker is added last.
Frame(s) ==
    /\ s \in Seq(Bytes) /\ s # <<>>
    /\ \A i \in DOMAIN s : s[i] = SLIP_END <=> i = Len(s)

Encoded ==
    /\ phase \in {"encode", "marker"} => curbuf \in Seq(Bytes \ {SLIP_END})
    /\ phase = "send" => Frame(curbuf)
    /\ phase = "line" => Frame(prevbuf)

SlipInv == TypeOK /\ WritesInBounds /\ Encoded

\* The packet is in the first buffer, the second is empty.
LEMMA InitSlipInv == Init => SlipInv
<1> SUFFICES ASSUME Init PROVE SlipInv
  OBVIOUS
<1>1. payload \in Seq(Bytes)
  BY DEF Init, Strings
<1> QED
  BY <1>1, BufferAssumption
  DEF Init, SlipInv, TypeOK, WritesInBounds, Encoded, Phases, Errors

\* A step that fails leaves the buffers alone.
LEMMA FailKeepsSlipInv ==
    ASSUME SlipInv, NEW err \in Errors, Fail(err)
    PROVE  SlipInv'
BY DEF SlipInv, TypeOK, WritesInBounds, Encoded, Frame, Fail, Phases, Errors

\* A header is put in front of the packet.
LEMMA HeaderKeepsSlipInv ==
    ASSUME SlipInv, NEW len \in Nat, NEW next \in {"ip", "slip"},
           AddHeader(len, next)
    PROVE  SlipInv'
<1>1. CASE \E err \in Errors : Fail(err)
  BY <1>1, FailKeepsSlipInv
<1>2. CASE /\ \E hdr \in [1 .. len -> Bytes] : prevbuf' = hdr \o prevbuf
           /\ phase' = next
           /\ UNCHANGED <<payload, curbuf, nsrc, live, g_netio_errno>>
  <2>1. PICK hdr \in [1 .. len -> Bytes] : prevbuf' = hdr \o prevbuf
    BY <1>2
  <2>2. hdr \in Seq(Bytes) /\ prevbuf \in Seq(Bytes)
    BY DEF SlipInv, TypeOK
  <2>3. prevbuf' \in Seq(Bytes)
    BY <2>1, <2>2
  <2> QED
    BY <1>2, <2>3 DEF SlipInv, TypeOK, WritesInBounds, Encoded, Frame, Phases
<1> QED
  BY <1>1, <1>2 DEF AddHeader, Errors

\* A pass of the encoder adds one or two bytes, and has room for them.
LEMMA EncodeKeepsSlipInv ==
    ASSUME SlipInv, EncodeByte
    PROVE  SlipInv'
<1> DEFINE e == Escape(prevbuf[nsrc + 1])
           T == Bytes \ {SLIP_END}
<1>1. /\ prevbuf \in Seq(Bytes) /\ nsrc \in Nat /\ nsrc + 1 \in DOMAIN prevbuf
      /\ curbuf \in Seq(T) /\ phase = "encode"
  BY DEF SlipInv, TypeOK, Encoded, EncodeByte
<1>2. e \in Seq(T) /\ Len(e) \in 1 .. 2
  BY <1>1, EscapeProperties
<1>3. /\ curbuf' = curbuf \o e /\ Len(curbuf) < MAX_BUFFER_SIZE - 1
      /\ nsrc' = nsrc + 1
      /\ UNCHANGED <<phase, payload, prevbuf, live, g_netio_errno>>
  BY DEF EncodeByte, RoomForTwo
<1> HIDE DEF e, T
<1>4. curbuf' \in Seq(T) /\ Len(curbuf') = Len(curbuf) + Len(e)
  BY <1>1, <1>2, <1>3
<1>5. Len(curbuf') <= MAX_BUFFER_SIZE
  <2>1. Len(curbuf) \in Nat /\ Len(e) \in {1, 2}
    BY <1>1, <1>2
  <2>2. Len(curbuf) + Len(e) <= MAX_BUFFER_SIZE
    BY <1>3, <2>1, BufferAssumption
  <2> QED
    BY <1>4, <2>2
<1>6. curbuf' \in Seq(Bytes)
  BY <1>4 DEF T
<1> QED
  BY <1>1, <1>3, <1>4, <1>5, <1>6
  DEF SlipInv, TypeOK, WritesInBounds, Encoded, Frame, T

\* create_slip_frame() adds the marker where there is room for it.
LEMMA MarkerKeepsSlipInv ==
    ASSUME SlipInv, AddEndMarker
    PROVE  SlipInv'
<1>1. CASE Fail("BUFFER_OVERFLOW")
  BY <1>1, FailKeepsSlipInv DEF Errors
<1>2. CASE /\ Len(curbuf) < MAX_BUFFER_SIZE
           /\ curbuf' = Append(curbuf, SLIP_END)
           /\ phase' = "send" /\ live' = live - 1
           /\ UNCHANGED <<payload, prevbuf, nsrc, g_netio_errno>>
  <2>1. curbuf \in Seq(Bytes) /\ curbuf \in Seq(Bytes \ {SLIP_END})
    BY DEF SlipInv, TypeOK, Encoded, AddEndMarker
  <2>2. SLIP_END \in Bytes
    BY DEF Bytes
  <2>3. /\ curbuf' \in Seq(Bytes) /\ Len(curbuf') = Len(curbuf) + 1
        /\ curbuf'[Len(curbuf) + 1] = SLIP_END
        /\ \A i \in 1 .. Len(curbuf) : curbuf'[i] = curbuf[i]
    BY <1>2, <2>1, <2>2
  <2>4. \A i \in 1 .. Len(curbuf) : curbuf[i] # SLIP_END
    BY <2>1
  <2>5. Frame(curbuf')
    BY <2>1, <2>3, <2>4 DEF Frame
  <2>6. Len(curbuf') <= MAX_BUFFER_SIZE
    BY <1>2, <2>1, <2>3, BufferAssumption
  <2> QED
    BY <1>2, <2>3, <2>5, <2>6
    DEF SlipInv, TypeOK, WritesInBounds, Encoded, Phases
<1> QED
  BY <1>1, <1>2 DEF AddEndMarker

\* The decoder writes at most one byte per pass.
LEMMA DecodeKeepsSlipInv ==
    ASSUME SlipInv, DecodePlain \/ DecodeEscape
    PROVE  SlipInv'
<1>1. /\ curbuf \in Seq(Bytes) /\ prevbuf \in Seq(Bytes) /\ nsrc \in Nat
      /\ phase = "decode" /\ Len(curbuf) < MAX_BUFFER_SIZE
  BY DEF SlipInv, TypeOK, DecodePlain, DecodeEscape, Decoding
<1>2. \A i \in Nat \ {0} : Src(i) \subseteq Bytes
  BY <1>1 DEF Src
<1>3. ASSUME NEW b \in Bytes, curbuf' = Append(curbuf, b), nsrc' \in Nat,
             UNCHANGED <<phase, payload, prevbuf, live, g_netio_errno>>
      PROVE  SlipInv'
  <2>1. curbuf' \in Seq(Bytes) /\ Len(curbuf') = Len(curbuf) + 1
    BY <1>1, <1>3
  <2>2. Len(curbuf') <= MAX_BUFFER_SIZE
    BY <1>1, <2>1, BufferAssumption
  <2> QED
    BY <1>1, <1>3, <2>1, <2>2
    DEF SlipInv, TypeOK, WritesInBounds, Encoded, Frame
<1>4. CASE DecodePlain
  BY <1>1, <1>2, <1>3, <1>4 DEF DecodePlain
<1>5. CASE DecodeEscape
  <2>1. CASE Fail("BAD_NUMBER")
    BY <2>1, FailKeepsSlipInv DEF Errors
  <2>2. ASSUME NEW e, curbuf' = curbuf \o Unescape(e), nsrc' = nsrc + 2,
               UNCHANGED <<phase, payload, prevbuf, live, g_netio_errno>>
        PROVE  SlipInv'
    <3>1. PICK b \in Bytes : Unescape(e) = <<b>>
      BY DEF Unescape, Bytes
    <3>2. curbuf' = Append(curbuf, b)
      BY <1>1, <2>2, <3>1
    <3> QED
      BY <1>1, <1>3, <2>2, <3>2
  <2> QED
    BY <1>5, <2>1, <2>2 DEF DecodeEscape
<1> QED
  BY <1>4, <1>5

\* A header is cut off.
LEMMA CutKeepsSlipInv ==
    ASSUME SlipInv, GetDataFromIpPacket \/ GetDataFromUdpPacket
    PROVE  SlipInv'
<1>1. CASE OutOfMemory
  BY <1>1, FailKeepsSlipInv DEF OutOfMemory, Errors
<1>2. ASSUME NEW len \in Nat, prevbuf' = SubSeq(prevbuf, len + 1, Len(prevbuf)),
             phase' \in {"udp_data", "extracted"}, live' \in Int,
             UNCHANGED <<payload, curbuf, nsrc, g_netio_errno>>
      PROVE  SlipInv'
  <2>1. prevbuf \in Seq(Bytes)
    BY DEF SlipInv, TypeOK
  <2>2. prevbuf' \in Seq(Bytes)
    BY <1>2, <2>1
  <2> QED
    BY <1>2, <2>2 DEF SlipInv, TypeOK, WritesInBounds, Encoded, Frame, Phases
<1>3. CASE GetDataFromIpPacket
  BY <1>1, <1>2, <1>3, HeaderAssumption
  DEF GetDataFromIpPacket, SlipInv, TypeOK
<1>4. CASE GetDataFromUdpPacket
  BY <1>1, <1>2, <1>4, HeaderAssumption
  DEF GetDataFromUdpPacket, SlipInv, TypeOK
<1> QED
  BY <1>3, <1>4

\* Every step of the codec keeps the invariant.
LEMMA StepSlipInv == SlipInv /\ [Next]_vars => SlipInv'
<1> SUFFICES ASSUME SlipInv, [Next]_vars PROVE SlipInv'
  OBVIOUS
<1> USE DEF SlipInv, TypeOK, WritesInBounds, Encoded, Frame
<1>1. CASE UNCHANGED vars
  BY <1>1 DEF vars
<1>2. CASE CreateUdpPacket \/ CreateIpPacket
  BY <1>2, HeaderKeepsSlipInv, HeaderAssumption
  DEF CreateUdpPacket, CreateIpPacket
<1>3. CASE CreateSlipFrame \/ ReadFrame
  <2>1. CASE OutOfMemory
    BY <2>1, FailKeepsSlipInv DEF OutOfMemory, Errors
  <2>2. CASE /\ phase' \in {"encode", "decode"} /\ curbuf' = <<>> /\ nsrc' = 0
             /\ live' \in Int /\ UNCHANGED <<payload, prevbuf, g_netio_errno>>
    BY <2>2, BufferAssumption DEF Phases
  <2> QED
    BY <1>3, <2>1, <2>2 DEF CreateSlipFrame, ReadFrame
<1>4. CASE EncodeByte
  BY <1>4, EncodeKeepsSlipInv
<1>5. CASE EncodeEnd
  <2>1. CASE Fail("BUFFER_OVERFLOW")
    BY <2>1, FailKeepsSlipInv DEF Errors
  <2> QED
    BY <1>5, <2>1 DEF EncodeEnd, Phases
<1>6. CASE AddEndMarker
  BY <1>6, MarkerKeepsSlipInv
<1>7. CASE SendSlipFrame
  BY <1>7 DEF SendSlipFrame, Phases
<1>8. CASE DecodePlain \/ DecodeEscape
  BY <1>8, DecodeKeepsSlipInv
<1>9. CASE DecodeEnd
  BY <1>9 DEF DecodeEnd, Phases
<1>10. CASE GetDataFromIpPacket \/ GetDataFromUdpPacket
  BY <1>10, CutKeepsSlipInv
<1> QED
  BY <1>1, <1>2, <1>3, <1>4, <1>5, <1>6, <1>7, <1>8, <1>9, <1>10 DEF Next

\* Hence it holds in every state.
LEMMA SpecSlipInv == Spec => []SlipInv
BY InitSlipInv, StepSlipInv, PTL DEF Spec

\* Neither the encoder nor the decoder writes behind its buffer, whatever is
\* sent and whatever is read behind the bytes received.
THEOREM WritesStayInBounds == Spec => []WritesInBounds
BY SpecSlipInv, PTL DEF SlipInv

\* A frame on the line has its only end-of-frame marker at its end.
THEOREM FramesAreDelimited == Spec => []FrameDelimited
<1>1. SlipInv => FrameDelimited
  BY DEF SlipInv, Encoded, Frame, FrameDelimited
<1> QED
  BY <1>1, SpecSlipInv, PTL

------------------------------------------------------------------------------
(* The buffers *)

\* How many buffers are allocated while a function is at work.
Owned ==
    /\ phase \in {"udp", "ip", "slip", "send", "ip_data", "udp_data"} => live = 1
    /\ phase \in {"encode", "marker", "decode"} => live = 2
    /\ phase \in {"line", "extracted"} => live = 0

\* Both ways through netio.c free every buffer they have allocated.
THEOREM BuffersAreReleased == Spec => []BuffersReleased
<1>1. Init => Owned
  BY DEF Init, Owned
<1>2. Owned /\ [Next]_vars => Owned'
  BY DEF Owned, Next, vars, CreateUdpPacket, CreateIpPacket, AddHeader,
     CreateSlipFrame, EncodeByte, EncodeEnd, AddEndMarker, SendSlipFrame,
     ReadFrame, DecodePlain, DecodeEscape, DecodeEnd, GetDataFromIpPacket,
     GetDataFromUdpPacket, OutOfMemory, Fail
<1>3. Owned => BuffersReleased
  BY DEF Owned, BuffersReleased
<1> QED
  BY <1>1, <1>2, <1>3, PTL DEF Spec

------------------------------------------------------------------------------
(* The packet that comes out starts with the packet that went in.           *)
(*                                                                          *)
(* The encoder and the decoder are never unrolled.  A frame is described by *)
(* the positions its bytes were written at: off[i] bytes of the frame stand *)
(* for the first i bytes of the packet.  A pass of the encoder adds one     *)
(* position, a pass of the decoder goes from one position to the next.      *)

\* Bytes from + 1 .. to of the frame stand for the byte b.
Coded(b, frame, from, to) ==
    /\ to = from + Len(Escape(b))
    /\ \A j \in 1 .. Len(Escape(b)) : frame[from + j] = Escape(b)[j]

EncodedAs(src, n, frame, off) ==
    /\ off \in [0 .. n -> Nat] /\ off[0] = 0
    /\ \A i \in 0 .. n : i <= off[i] /\ off[i] <= Len(frame)
    /\ \A i \in 1 .. n : Coded(src[i], frame, off[i - 1], off[i])

\* The packet begins behind len bytes of the buffer.
Carries(buf, len) ==
    /\ buf \in Seq(Bytes) /\ Len(buf) >= len + Len(payload)
    /\ \A i \in 1 .. Len(payload) : buf[len + i] = payload[i]

Headers == IP_HDR_LEN + UDP_HDR_LEN

\* The first bytes decoded are those of src, and the decoder stands between
\* two bytes of src until it has passed the last.
DecodedAs(src, off) ==
    /\ \A i \in DOMAIN src : i <= Len(curbuf) => curbuf[i] = src[i]
    /\ Len(curbuf) <= Len(src) => nsrc = off[Len(curbuf)]

Way ==
    /\ phase = "udp" => Carries(prevbuf, 0)
    /\ phase = "ip" => Carries(prevbuf, UDP_HDR_LEN)
    /\ phase \in {"slip", "encode", "marker"} => Carries(prevbuf, Headers)
    /\ phase \in {"encode", "marker"} =>
          /\ nsrc \in 0 .. Len(prevbuf)
          /\ \E off : /\ EncodedAs(prevbuf, nsrc, curbuf, off)
                      /\ off[nsrc] = Len(curbuf)
    /\ phase = "marker" => nsrc = Len(prevbuf)
    /\ phase = "send" => \E src, off : /\ Carries(src, Headers)
                                       /\ EncodedAs(src, Len(src), curbuf, off)
    /\ phase = "line" => \E src, off : /\ Carries(src, Headers)
                                       /\ EncodedAs(src, Len(src), prevbuf, off)
    /\ phase = "decode" => \E src, off :
          /\ Carries(src, Headers)
          /\ EncodedAs(src, Len(src), prevbuf, off) /\ DecodedAs(src, off)
    /\ phase = "ip_data" => Carries(prevbuf, Headers)
    /\ phase = "udp_data" => Carries(prevbuf, UDP_HDR_LEN)
    /\ phase = "extracted" => Carries(prevbuf, 0)

\* What the code of a byte looks like.
LEMMA CodeOfByte ==
    ASSUME NEW b \in Bytes, NEW frame, NEW from \in Nat, NEW to,
           Coded(b, frame, from, to)
    PROVE  \/ /\ b \notin {SLIP_END, SLIP_ESC}
              /\ to = from + 1 /\ frame[from + 1] = b
           \/ /\ b \in {SLIP_END, SLIP_ESC}
              /\ to = from + 2 /\ frame[from + 1] = SLIP_ESC
              /\ frame[from + 2] = IF b = SLIP_END THEN SLIP_ESCAPED_END
                                                   ELSE SLIP_ESCAPED_ESC
<1>1. CASE b = SLIP_END
  <2>1. Escape(b) = <<SLIP_ESC, SLIP_ESCAPED_END>>
    BY <1>1 DEF Escape
  <2>2. Len(Escape(b)) = 2 /\ Escape(b)[1] = SLIP_ESC /\ Escape(b)[2] = SLIP_ESCAPED_END
    BY <2>1
  <2> QED
    BY <1>1, <2>2 DEF Coded
<1>2. CASE b = SLIP_ESC
  <2>0. b # SLIP_END
    BY <1>2 DEF SLIP_ESC, SLIP_END
  <2>1. Escape(b) = <<SLIP_ESC, SLIP_ESCAPED_ESC>>
    BY <1>2, <2>0 DEF Escape
  <2>2. Len(Escape(b)) = 2 /\ Escape(b)[1] = SLIP_ESC /\ Escape(b)[2] = SLIP_ESCAPED_ESC
    BY <2>1
  <2> QED
    BY <1>2, <2>0, <2>2 DEF Coded
<1>3. CASE b \notin {SLIP_END, SLIP_ESC}
  <2>1. Escape(b) = <<b>>
    BY <1>3 DEF Escape
  <2>2. Len(Escape(b)) = 1 /\ Escape(b)[1] = b
    BY <2>1
  <2> QED
    BY <1>3, <2>2 DEF Coded
<1> QED
  BY <1>1, <1>2, <1>3

\* Bytes added to a frame leave the code of those before alone.
LEMMA LongerFrame ==
    ASSUME NEW src \in Seq(Bytes), NEW n \in 0 .. Len(src),
           NEW f \in Seq(Bytes), NEW g \in Seq(Bytes), NEW off,
           EncodedAs(src, n, f, off), Len(g) >= Len(f),
           \A j \in 1 .. Len(f) : g[j] = f[j]
    PROVE  EncodedAs(src, n, g, off)
<1>1. ASSUME NEW i \in 1 .. n
      PROVE  Coded(src[i], g, off[i - 1], off[i])
  <2>1. Coded(src[i], f, off[i - 1], off[i])
    BY DEF EncodedAs
  <2>2. off[i - 1] \in Nat /\ off[i] \in Nat /\ off[i] <= Len(f)
    BY DEF EncodedAs
  <2>3. Len(Escape(src[i])) \in Nat
    BY EscapeProperties
  <2>4. PICK e : e = Escape(src[i])
    OBVIOUS
  <2>5. off[i] = off[i - 1] + Len(e) /\ Len(e) \in Nat
    BY <2>1, <2>3, <2>4 DEF Coded
  <2>6. \A j \in 1 .. Len(e) : f[off[i - 1] + j] = e[j]
    BY <2>1, <2>4 DEF Coded
  <2>7. \A j \in 1 .. Len(e) : off[i - 1] + j \in 1 .. Len(f)
    BY <2>2, <2>5
  <2>8. \A j \in 1 .. Len(e) : g[off[i - 1] + j] = e[j]
    BY <2>6, <2>7
  <2> QED
    BY <2>4, <2>5, <2>8 DEF Coded
<1>2. \A i \in 0 .. n : i <= off[i] /\ off[i] <= Len(g)
  BY DEF EncodedAs
<1> QED
  BY <1>1, <1>2 DEF EncodedAs

\* A pass of the encoder adds a position.
LEMMA EncodeKeepsWay ==
    ASSUME SlipInv, Way, EncodeByte
    PROVE  Way'
<1> DEFINE b == prevbuf[nsrc + 1]
           e == Escape(b)
<1>1. /\ prevbuf \in Seq(Bytes) /\ nsrc \in Nat /\ nsrc < Len(prevbuf)
      /\ curbuf \in Seq(Bytes) /\ phase = "encode" /\ b \in Bytes
      /\ Carries(prevbuf, Headers)
  BY DEF SlipInv, TypeOK, EncodeByte, Way
<1>2. e \in Seq(Bytes) /\ Len(e) \in 1 .. 2
  BY <1>1, EscapeProperties
<1>3. /\ curbuf' = curbuf \o e /\ nsrc' = nsrc + 1
      /\ UNCHANGED <<phase, payload, prevbuf>>
  BY DEF EncodeByte
<1>4. PICK off : EncodedAs(prevbuf, nsrc, curbuf, off) /\ off[nsrc] = Len(curbuf)
  BY <1>1 DEF Way
<1> DEFINE noff == [i \in 0 .. nsrc + 1 |->
                       IF i <= nsrc THEN off[i] ELSE Len(curbuf) + Len(e)]
<1>5. /\ curbuf' \in Seq(Bytes) /\ Len(curbuf') = Len(curbuf) + Len(e)
      /\ \A j \in 1 .. Len(curbuf) : curbuf'[j] = curbuf[j]
      /\ \A j \in 1 .. Len(e) : curbuf'[Len(curbuf) + j] = e[j]
  <2> HIDE DEF e
  <2> QED
    BY <1>1, <1>2, <1>3
<1>6. EncodedAs(prevbuf, nsrc, curbuf', off)
  <2>1. nsrc \in 0 .. Len(prevbuf)
    BY <1>1
  <2>2. Len(curbuf') >= Len(curbuf)
    <3> HIDE DEF e
    <3>1. Len(curbuf) \in Nat /\ Len(e) \in Nat
      BY <1>1, <1>2
    <3> QED
      BY <3>1, <1>5
  <2> HIDE DEF b, e, noff
  <2> QED
    BY <1>1, <1>4, <1>5, <2>1, <2>2, LongerFrame
<1>7. Coded(b, curbuf', noff[nsrc], noff[nsrc + 1])
  <2>1. noff[nsrc] = Len(curbuf) /\ noff[nsrc + 1] = Len(curbuf) + Len(e)
    BY <1>1, <1>4
  <2> QED
    BY <2>1, <1>5 DEF Coded
<1>8. EncodedAs(prevbuf, nsrc + 1, curbuf', noff)
  <2>0. off \in [0 .. nsrc -> Nat] /\ off[0] = 0
    BY <1>6 DEF EncodedAs
  <2>1. noff \in [0 .. nsrc + 1 -> Nat] /\ noff[0] = 0
    BY <2>0, <1>1, <1>2
  <2>2. \A i \in 0 .. nsrc + 1 : i <= noff[i] /\ noff[i] <= Len(curbuf')
    <3>1. nsrc <= Len(curbuf)
      BY <1>1, <1>4 DEF EncodedAs
    <3>2. \A i \in 0 .. nsrc : i <= off[i] /\ off[i] <= Len(curbuf')
      BY <1>6 DEF EncodedAs
    <3>3. nsrc + 1 <= Len(curbuf) + Len(e) /\ Len(curbuf) + Len(e) <= Len(curbuf')
      <4> HIDE DEF e, b, noff
      <4>1. Len(curbuf) \in Nat /\ Len(e) \in {1, 2}
        BY <1>1, <1>2
      <4>2. nsrc \in Nat /\ Len(curbuf') = Len(curbuf) + Len(e)
        BY <1>1, <1>5
      <4> QED
        BY <3>1, <4>1, <4>2
    <3>4. noff[nsrc + 1] = Len(curbuf) + Len(e)
      BY <1>1
    <3>5. \A i \in 0 .. nsrc : noff[i] = off[i]
      BY <1>1
    <3>6. \A i \in 0 .. nsrc + 1 : i \in 0 .. nsrc \/ i = nsrc + 1
      BY <1>1
    <3> HIDE DEF noff
    <3> QED
      BY <3>2, <3>3, <3>4, <3>5, <3>6
  <2>3. \A i \in 1 .. nsrc + 1 :
           Coded(prevbuf[i], curbuf', noff[i - 1], noff[i])
    <3>1. ASSUME NEW i \in 1 .. nsrc
          PROVE  Coded(prevbuf[i], curbuf', noff[i - 1], noff[i])
      <4>1. Coded(prevbuf[i], curbuf', off[i - 1], off[i])
        BY <1>6 DEF EncodedAs
      <4>2. noff[i - 1] = off[i - 1] /\ noff[i] = off[i]
        BY <1>1
      <4> QED
        BY <4>1, <4>2
    <3> HIDE DEF noff
    <3> QED
      BY <1>1, <1>7, <3>1
  <2> QED
    BY <2>1, <2>2, <2>3 DEF EncodedAs
<1>9. noff[nsrc + 1] = Len(curbuf')
  BY <1>1, <1>5
<1>10. nsrc + 1 \in 0 .. Len(prevbuf)
  BY <1>1
<1> HIDE DEF noff, e, b
<1>11. Carries(prevbuf, Headers)'
  BY <1>1, <1>3 DEF Carries, Headers
<1>12. /\ nsrc' \in 0 .. Len(prevbuf')
       /\ \E o : EncodedAs(prevbuf', nsrc', curbuf', o) /\ o[nsrc'] = Len(curbuf')
  BY <1>3, <1>8, <1>9, <1>10
<1>13. phase' = "encode"
  BY <1>1, <1>3
<1> QED
  BY <1>11, <1>12, <1>13 DEF Way

\* A header is put in front of the packet, and cut off again.
LEMMA HeaderInFront ==
    ASSUME NEW buf \in Seq(Bytes), NEW len \in Nat, NEW m \in Nat,
           NEW hdr \in [1 .. m -> Bytes], Carries(buf, len), payload \in Seq(Bytes)
    PROVE  Carries(hdr \o buf, m + len)
<1>1. hdr \in Seq(Bytes) /\ Len(hdr) = m
  OBVIOUS
<1>2. PICK new : new = hdr \o buf
  OBVIOUS
<1>3. /\ new \in Seq(Bytes) /\ Len(new) = m + Len(buf)
      /\ \A i \in 1 .. Len(buf) : new[m + i] = buf[i]
  <2>1. PICK h \in Seq(Bytes) : h = hdr
    BY <1>1
  <2>2. new = h \o buf /\ Len(h) = m
    BY <1>1, <1>2, <2>1
  <2>3. new \in Seq(Bytes) /\ Len(new) = Len(h) + Len(buf)
    <3>1. ASSUME NEW T, NEW s \in Seq(T), NEW t \in Seq(T)
          PROVE  s \o t \in Seq(T) /\ Len(s \o t) = Len(s) + Len(t)
      OBVIOUS
    <3> QED
      BY <2>1, <2>2, <3>1, Zenon
  <2>4. \A i \in 1 .. Len(buf) : new[Len(h) + i] = buf[i]
    BY <2>1, <2>2
  <2> QED
    BY <2>2, <2>3, <2>4
<1>4. \A i \in 1 .. Len(payload) : /\ len + i \in 1 .. Len(buf)
                                   /\ m + (len + i) = (m + len) + i
  BY DEF Carries
<1>5. \A i \in 1 .. Len(payload) : new[(m + len) + i] = payload[i]
  BY <1>3, <1>4 DEF Carries
<1>6. Len(new) >= (m + len) + Len(payload)
  BY <1>3 DEF Carries
<1> QED
  BY <1>2, <1>3, <1>5, <1>6 DEF Carries

LEMMA HeaderCutOff ==
    ASSUME NEW buf \in Seq(Bytes), NEW len \in Nat, NEW m \in Nat,
           Carries(buf, m + len), payload \in Seq(Bytes)
    PROVE  Carries(SubSeq(buf, m + 1, Len(buf)), len)
<1>0. Len(payload) \in Nat /\ Len(buf) \in Nat /\ Len(buf) >= (m + len) + Len(payload)
  BY DEF Carries
<1>1. PICK new : new = SubSeq(buf, m + 1, Len(buf))
  OBVIOUS
<1>2. /\ new \in Seq(Bytes) /\ Len(new) = Len(buf) - m
      /\ \A i \in 1 .. Len(buf) - m : new[i] = buf[m + i]
  <2>1. new \in Seq(Bytes)
    BY <1>1
  <2>2. Len(new) = Len(buf) - m
    BY <1>0, <1>1
  <2>3. ASSUME NEW i \in 1 .. Len(buf) - m PROVE new[i] = buf[m + i]
    <3>1. new[i] = buf[(m + 1) + i - 1]
      BY <1>0, <1>1
    <3>2. (m + 1) + i - 1 = m + i
      OBVIOUS
    <3> QED
      BY <3>1, <3>2
  <2> QED
    BY <2>1, <2>2, <2>3
<1>3. \A i \in 1 .. Len(payload) : /\ len + i \in 1 .. Len(buf) - m
                                   /\ m + (len + i) = (m + len) + i
  BY <1>0
<1>4. \A i \in 1 .. Len(payload) : new[len + i] = payload[i]
  BY <1>2, <1>3 DEF Carries
<1>5. Len(new) >= len + Len(payload)
  BY <1>0, <1>2
<1> QED
  BY <1>1, <1>2, <1>4, <1>5 DEF Carries

\* A pass of the decoder that does not fail takes one position, and writes
\* the byte that stands there.
LEMMA DecodeByte ==
    ASSUME SlipInv, phase = "decode", Decoding,
           NEW src, NEW off, Carries(src, Headers),
           EncodedAs(src, Len(src), prevbuf, off), DecodedAs(src, off),
           NEW b \in Bytes, NEW step \in {1, 2},
           curbuf' = Append(curbuf, b), nsrc' = nsrc + step,
           \/ step = 1 /\ b \in Src(nsrc + 1) \ {SLIP_ESC}
           \/ /\ step = 2 /\ SLIP_ESC \in Src(nsrc + 1)
              /\ \/ SLIP_ESCAPED_END \in Src(nsrc + 2) /\ b = SLIP_END
                 \/ SLIP_ESCAPED_ESC \in Src(nsrc + 2) /\ b = SLIP_ESC
    PROVE  DecodedAs(src, off)'
<1> DEFINE k == Len(curbuf)
<1>1. /\ curbuf \in Seq(Bytes) /\ prevbuf \in Seq(Bytes) /\ nsrc \in Nat
      /\ src \in Seq(Bytes) /\ Len(src) \in Nat /\ k \in Nat
  BY DEF SlipInv, TypeOK, Carries
<1>2. /\ curbuf' \in Seq(Bytes) /\ Len(curbuf') = k + 1 /\ curbuf'[k + 1] = b
      /\ \A i \in 1 .. k : curbuf'[i] = curbuf[i]
  BY <1>1
<1>3. CASE k >= Len(src)
  <2>1. \A i \in DOMAIN src : i \in 1 .. k
    BY <1>1, <1>3
  <2>2. ~(Len(curbuf') <= Len(src))
    BY <1>1, <1>2, <1>3
  <2> QED
    BY <1>1, <1>2, <2>1, <2>2 DEF DecodedAs
<1>4. CASE k < Len(src)
  <2>1. nsrc = off[k] /\ k + 1 \in 1 .. Len(src)
    BY <1>1, <1>4 DEF DecodedAs
  <2>2. Coded(src[k + 1], prevbuf, nsrc, off[k + 1])
    <3>1. Coded(src[k + 1], prevbuf, off[(k + 1) - 1], off[k + 1])
      BY <2>1 DEF EncodedAs
    <3>2. (k + 1) - 1 = k
      BY <1>1
    <3> QED
      BY <2>1, <3>1, <3>2
  <2>3. off[k + 1] \in Nat /\ off[k + 1] <= Len(prevbuf)
    <3>1. k + 1 \in 0 .. Len(src)
      BY <2>1
    <3> QED
      BY <3>1 DEF EncodedAs
  <2>4. b = src[k + 1] /\ nsrc + step = off[k + 1]
    <3>1. src[k + 1] \in Bytes
      BY <1>1, <2>1
    <3>2. CASE /\ src[k + 1] \notin {SLIP_END, SLIP_ESC}
               /\ off[k + 1] = nsrc + 1 /\ prevbuf[nsrc + 1] = src[k + 1]
      <4>1. Src(nsrc + 1) = {src[k + 1]}
        BY <1>1, <2>3, <3>2 DEF Src
      <4> QED
        BY <3>2, <4>1
    <3>3. CASE /\ src[k + 1] \in {SLIP_END, SLIP_ESC}
               /\ off[k + 1] = nsrc + 2 /\ prevbuf[nsrc + 1] = SLIP_ESC
               /\ prevbuf[nsrc + 2] = IF src[k + 1] = SLIP_END
                                      THEN SLIP_ESCAPED_END ELSE SLIP_ESCAPED_ESC
      <4>1. Src(nsrc + 1) = {SLIP_ESC}
        BY <1>1, <2>3, <3>3 DEF Src
      <4>2. Src(nsrc + 2) = {IF src[k + 1] = SLIP_END THEN SLIP_ESCAPED_END
                                                      ELSE SLIP_ESCAPED_ESC}
        BY <1>1, <2>3, <3>3 DEF Src
      <4>3. SLIP_ESCAPED_END # SLIP_ESCAPED_ESC
        BY DEF SLIP_ESCAPED_END, SLIP_ESCAPED_ESC
      <4> QED
        BY <3>3, <4>1, <4>2, <4>3
    <3> QED
      BY <1>1, <2>2, <3>1, <3>2, <3>3, CodeOfByte
  <2>5. \A i \in DOMAIN src : i <= k + 1 => i \in 1 .. k \/ i = k + 1
    BY <1>1
  <2>6. \A i \in DOMAIN src : i <= k + 1 => curbuf'[i] = src[i]
    <3>1. \A i \in DOMAIN src : i \in 1 .. k => curbuf[i] = src[i]
      BY <1>1 DEF DecodedAs
    <3> QED
      BY <1>2, <2>4, <2>5, <3>1
  <2> QED
    BY <1>2, <2>4, <2>6 DEF DecodedAs
<1> QED
  BY <1>1, <1>3, <1>4

\* A pass of the decoder goes from one position to the next, or fails.
LEMMA DecodeKeepsWay ==
    ASSUME SlipInv, Way, DecodePlain \/ DecodeEscape
    PROVE  Way'
<1>1. /\ phase = "decode" /\ Decoding /\ curbuf \in Seq(Bytes)
      /\ prevbuf \in Seq(Bytes) /\ nsrc \in Nat
  BY DEF SlipInv, TypeOK, DecodePlain, DecodeEscape
<1>2. PICK src, off : /\ Carries(src, Headers) /\ DecodedAs(src, off)
                      /\ EncodedAs(src, Len(src), prevbuf, off)
  BY <1>1 DEF Way
<1>3. \A i \in Nat \ {0} : Src(i) \subseteq Bytes
  BY <1>1 DEF Src
<1>4. ASSUME DecodedAs(src, off)', UNCHANGED <<phase, payload, prevbuf>>
      PROVE  Way'
  <2>1. Carries(src, Headers)'
    BY <1>2, <1>4 DEF Carries, Headers
  <2>2. EncodedAs(src, Len(src), prevbuf', off)
    BY <1>2, <1>4
  <2>3. phase' = "decode"
    BY <1>1, <1>4
  <2> QED
    BY <1>4, <2>1, <2>2, <2>3 DEF Way
<1>5. CASE DecodePlain
  <2>1. PICK b \in Src(nsrc + 1) \ {SLIP_ESC} : curbuf' = Append(curbuf, b)
    BY <1>5 DEF DecodePlain
  <2>2. b \in Bytes
    BY <1>1, <1>3, <2>1
  <2>3. nsrc' = nsrc + 1 /\ UNCHANGED <<phase, payload, prevbuf>>
    BY <1>5 DEF DecodePlain
  <2>4. DecodedAs(src, off)'
    BY <1>1, <1>2, <2>1, <2>2, <2>3, DecodeByte
  <2> QED
    BY <1>4, <2>3, <2>4
<1>6. CASE DecodeEscape
  <2>1. CASE Fail("BAD_NUMBER")
    BY <2>1 DEF Fail, Way
  <2>2. ASSUME NEW e \in Src(nsrc + 2),
               e \in {SLIP_ESCAPED_END, SLIP_ESCAPED_ESC},
               curbuf' = curbuf \o Unescape(e), nsrc' = nsrc + 2,
               UNCHANGED <<phase, payload, prevbuf>>
        PROVE  Way'
    <3>1. SLIP_ESC \in Src(nsrc + 1)
      BY <1>6 DEF DecodeEscape
    <3>2. PICK b \in Bytes : /\ Unescape(e) = <<b>>
                             /\ \/ e = SLIP_ESCAPED_END /\ b = SLIP_END
                                \/ e = SLIP_ESCAPED_ESC /\ b = SLIP_ESC
      BY <2>2 DEF Unescape, Bytes, SLIP_ESCAPED_END, SLIP_ESCAPED_ESC
    <3>3. curbuf' = Append(curbuf, b)
      BY <1>1, <2>2, <3>2
    <3>4. \/ SLIP_ESCAPED_END \in Src(nsrc + 2) /\ b = SLIP_END
          \/ SLIP_ESCAPED_ESC \in Src(nsrc + 2) /\ b = SLIP_ESC
      BY <2>2, <3>2
    <3>5. DecodedAs(src, off)'
      BY <1>1, <1>2, <2>2, <3>1, <3>3, <3>4, DecodeByte
    <3> QED
      BY <1>4, <2>2, <3>5
  <2> QED
    BY <1>6, <2>1, <2>2 DEF DecodeEscape
<1> QED
  BY <1>5, <1>6

\* The marker lies behind the last position; the frame is read back, and
\* nothing has been decoded yet.
LEMMA FrameKeepsWay ==
    ASSUME SlipInv, Way,
           \/ CreateSlipFrame \/ EncodeEnd \/ AddEndMarker \/ SendSlipFrame
           \/ ReadFrame \/ DecodeEnd
    PROVE  Way'
<1>0. /\ prevbuf \in Seq(Bytes) /\ curbuf \in Seq(Bytes) /\ nsrc \in Nat
      /\ SLIP_END \in Bytes /\ payload \in Seq(Bytes) /\ Headers \in Nat
  BY HeaderAssumption DEF SlipInv, TypeOK, Bytes, Headers
<1>1. CASE phase' = "failed"
  BY <1>1 DEF Way
<1>2. CASE /\ phase = "slip" /\ phase' = "encode" /\ curbuf' = <<>> /\ nsrc' = 0
           /\ UNCHANGED <<payload, prevbuf>>
  <2> DEFINE off == [i \in 0 .. 0 |-> 0]
  <2>1. EncodedAs(prevbuf, 0, <<>>, off) /\ off[0] = 0
    BY DEF EncodedAs
  <2> HIDE DEF off
  <2>2. Carries(prevbuf, Headers)'
    BY <1>2 DEF Way, Carries, Headers
  <2>3. /\ nsrc' \in 0 .. Len(prevbuf') /\ off[nsrc'] = Len(curbuf')
        /\ EncodedAs(prevbuf', nsrc', curbuf', off)
    BY <1>0, <1>2, <2>1
  <2> QED
    BY <1>2, <2>2, <2>3 DEF Way
<1>3. CASE /\ phase = "encode" /\ phase' = "marker" /\ nsrc = Len(prevbuf)
           /\ UNCHANGED <<payload, prevbuf, curbuf, nsrc>>
  <2>1. Carries(prevbuf, Headers)'
    BY <1>3 DEF Way, Carries, Headers
  <2> QED
    BY <1>3, <2>1 DEF Way
<1>4. CASE /\ phase = "marker" /\ phase' = "send"
           /\ curbuf' = Append(curbuf, SLIP_END)
           /\ UNCHANGED <<payload, prevbuf>>
  <2>1. PICK off : EncodedAs(prevbuf, Len(prevbuf), curbuf, off)
    BY <1>4 DEF Way
  <2>2. /\ curbuf' \in Seq(Bytes) /\ Len(curbuf') = Len(curbuf) + 1
        /\ \A j \in 1 .. Len(curbuf) : curbuf'[j] = curbuf[j]
    BY <1>0, <1>4
  <2>3. Len(prevbuf) \in 0 .. Len(prevbuf) /\ Len(curbuf') >= Len(curbuf)
    BY <1>0, <2>2
  <2>4. EncodedAs(prevbuf, Len(prevbuf), curbuf', off)
    BY <1>0, <2>1, <2>2, <2>3, LongerFrame
  <2>5. Carries(prevbuf, Headers)'
    BY <1>4 DEF Way, Carries, Headers
  <2>6. PICK src : src = prevbuf
    OBVIOUS
  <2>7. Carries(src, Headers)'
    BY <1>4, <2>5, <2>6 DEF Carries, Headers
  <2>8. EncodedAs(src, Len(src), curbuf', off)
    BY <2>4, <2>6
  <2> QED
    BY <1>4, <2>7, <2>8 DEF Way
<1>5. CASE /\ phase = "send" /\ phase' = "line" /\ prevbuf' = curbuf
           /\ UNCHANGED payload
  <2>1. PICK src, off : /\ Carries(src, Headers)
                        /\ EncodedAs(src, Len(src), curbuf, off)
    BY <1>5 DEF Way
  <2>2. Carries(src, Headers)'
    BY <1>5, <2>1 DEF Carries, Headers
  <2>3. EncodedAs(src, Len(src), prevbuf', off)
    BY <1>5, <2>1
  <2> QED
    BY <1>5, <2>2, <2>3 DEF Way
<1>6. CASE /\ phase = "line" /\ phase' = "decode" /\ curbuf' = <<>> /\ nsrc' = 0
           /\ UNCHANGED <<payload, prevbuf>>
  <2>1. PICK src, off : /\ Carries(src, Headers)
                        /\ EncodedAs(src, Len(src), prevbuf, off)
    BY <1>6 DEF Way
  <2>2. Carries(src, Headers)' /\ src \in Seq(Bytes)
    BY <1>6, <2>1 DEF Carries, Headers
  <2>3. EncodedAs(src, Len(src), prevbuf', off) /\ off[0] = 0
    BY <1>6, <2>1 DEF EncodedAs
  <2>4. DecodedAs(src, off)'
    BY <1>6, <2>2, <2>3 DEF DecodedAs
  <2> QED
    BY <1>6, <2>2, <2>3, <2>4 DEF Way
<1>7. CASE /\ phase = "decode" /\ Len(curbuf) = Len(prevbuf)
           /\ phase' = "ip_data" /\ prevbuf' = curbuf /\ UNCHANGED payload
  <2>1. PICK src, off : /\ Carries(src, Headers) /\ DecodedAs(src, off)
                        /\ EncodedAs(src, Len(src), prevbuf, off)
    BY <1>7 DEF Way
  <2>2. /\ src \in Seq(Bytes) /\ Len(src) \in Nat
        /\ Len(src) >= Headers + Len(payload)
    BY <2>1 DEF Carries
  <2>3. Len(src) <= Len(curbuf)
    <3>1. Len(src) \in 0 .. Len(src)
      BY <2>2
    <3>2. /\ off[Len(src)] \in Nat
          /\ Len(src) <= off[Len(src)] /\ off[Len(src)] <= Len(prevbuf)
      BY <2>1, <3>1 DEF EncodedAs
    <3> QED
      BY <1>0, <1>7, <2>2, <3>2
  <2>4. \A i \in DOMAIN src : curbuf[i] = src[i]
    BY <1>0, <2>1, <2>2, <2>3 DEF DecodedAs
  <2>5. \A i \in 1 .. Len(payload) : Headers + i \in DOMAIN src
    BY <1>0, <2>2
  <2>6. Carries(curbuf, Headers)
    BY <1>0, <2>1, <2>2, <2>3, <2>4, <2>5 DEF Carries
  <2>7. Carries(prevbuf, Headers)'
    BY <1>7, <2>6 DEF Carries, Headers
  <2> QED
    BY <1>7, <2>7 DEF Way
<1> QED
  BY <1>1, <1>2, <1>3, <1>4, <1>5, <1>6, <1>7
  DEF CreateSlipFrame, EncodeEnd, AddEndMarker, SendSlipFrame, ReadFrame,
      DecodeEnd, OutOfMemory, Fail

\* Headers are added and cut off.
LEMMA HeaderKeepsWay ==
    ASSUME SlipInv, Way,
           \/ CreateUdpPacket \/ CreateIpPacket
           \/ GetDataFromIpPacket \/ GetDataFromUdpPacket
    PROVE  Way'
<1>0. /\ prevbuf \in Seq(Bytes) /\ payload \in Seq(Bytes)
      /\ UDP_HDR_LEN \in Nat /\ IP_HDR_LEN \in Nat
      /\ UDP_HDR_LEN + 0 = UDP_HDR_LEN
      /\ IP_HDR_LEN + UDP_HDR_LEN = Headers
  BY HeaderAssumption DEF SlipInv, TypeOK, Headers
<1>1. CASE phase' = "failed"
  BY <1>1 DEF Way
<1>2. CASE /\ phase = "udp" /\ phase' = "ip" /\ UNCHANGED payload
           /\ \E hdr \in [1 .. UDP_HDR_LEN -> Bytes] : prevbuf' = hdr \o prevbuf
  <2>1. PICK hdr \in [1 .. UDP_HDR_LEN -> Bytes] : prevbuf' = hdr \o prevbuf
    BY <1>2
  <2>2. Carries(hdr \o prevbuf, UDP_HDR_LEN + 0)
    BY <1>0, <1>2, HeaderInFront DEF Way
  <2>3. Carries(prevbuf, UDP_HDR_LEN)'
    BY <1>0, <1>2, <2>1, <2>2 DEF Carries
  <2> QED
    BY <1>2, <2>3 DEF Way
<1>3. CASE /\ phase = "ip" /\ phase' = "slip" /\ UNCHANGED payload
           /\ \E hdr \in [1 .. IP_HDR_LEN -> Bytes] : prevbuf' = hdr \o prevbuf
  <2>1. PICK hdr \in [1 .. IP_HDR_LEN -> Bytes] : prevbuf' = hdr \o prevbuf
    BY <1>3
  <2>2. Carries(hdr \o prevbuf, IP_HDR_LEN + UDP_HDR_LEN)
    BY <1>0, <1>3, HeaderInFront DEF Way
  <2>3. Carries(prevbuf, Headers)'
    BY <1>0, <1>3, <2>1, <2>2 DEF Carries, Headers
  <2> QED
    BY <1>3, <2>3 DEF Way
<1>4. CASE /\ phase = "ip_data" /\ phase' = "udp_data" /\ UNCHANGED payload
           /\ prevbuf' = SubSeq(prevbuf, IP_HDR_LEN + 1, Len(prevbuf))
  <2>1. Carries(SubSeq(prevbuf, IP_HDR_LEN + 1, Len(prevbuf)), UDP_HDR_LEN)
    BY <1>0, <1>4, HeaderCutOff DEF Way
  <2>2. Carries(prevbuf, UDP_HDR_LEN)'
    BY <1>4, <2>1 DEF Carries
  <2> QED
    BY <1>4, <2>2 DEF Way
<1>5. CASE /\ phase = "udp_data" /\ phase' = "extracted" /\ UNCHANGED payload
           /\ prevbuf' = SubSeq(prevbuf, UDP_HDR_LEN + 1, Len(prevbuf))
  <2>1. Carries(prevbuf, UDP_HDR_LEN + 0)
    BY <1>0, <1>5 DEF Way
  <2>2. Carries(SubSeq(prevbuf, UDP_HDR_LEN + 1, Len(prevbuf)), 0)
    BY <1>0, <2>1, HeaderCutOff
  <2>3. Carries(prevbuf, 0)'
    BY <1>5, <2>2 DEF Carries
  <2> QED
    BY <1>5, <2>3 DEF Way
<1> QED
  BY <1>1, <1>2, <1>3, <1>4, <1>5
  DEF CreateUdpPacket, CreateIpPacket, AddHeader, GetDataFromIpPacket,
      GetDataFromUdpPacket, OutOfMemory, Fail

\* The TFTP packet extracted from a frame starts with the packet that was
\* sent, whatever its bytes and its length, and whatever the decoder finds
\* behind the bytes it has received.
THEOREM PacketsComeBack == Spec => []PrefixIntact
<1>1. Init => Way
  <2> SUFFICES ASSUME Init PROVE Way
    OBVIOUS
  <2>1. payload \in Seq(Bytes)
    BY DEF Init, Strings
  <2>2. Carries(prevbuf, 0)
    BY <2>1 DEF Init, Carries
  <2> QED
    BY <2>2 DEF Init, Way
<1>2. SlipInv /\ Way /\ [Next]_vars => Way'
  <2> SUFFICES ASSUME SlipInv, Way, [Next]_vars PROVE Way'
    OBVIOUS
  <2>1. CASE UNCHANGED vars
    BY <2>1 DEF vars, Way, Carries, Headers, EncodedAs, Coded, DecodedAs
  <2>2. CASE Next
    BY <2>2, EncodeKeepsWay, DecodeKeepsWay, FrameKeepsWay, HeaderKeepsWay
    DEF Next
  <2> QED
    BY <2>1, <2>2
<1>3. SlipInv /\ Way => PrefixIntact
  <2> SUFFICES ASSUME SlipInv, Way, phase = "extracted"
               PROVE  /\ Len(prevbuf) >= Len(payload)
                      /\ SubSeq(prevbuf, 1, Len(payload)) = payload
    BY DEF PrefixIntact
  <2>1. /\ payload \in Seq(Bytes) /\ prevbuf \in Seq(Bytes)
        /\ Len(payload) \in Nat /\ Len(prevbuf) \in Nat
    BY DEF SlipInv, TypeOK
  <2>2. /\ Len(prevbuf) >= Len(payload)
        /\ \A i \in 1 .. Len(payload) : prevbuf[i] = payload[i]
    BY <2>1 DEF Way, Carries
  <2>3. PICK s : s = SubSeq(prevbuf, 1, Len(payload))
    OBVIOUS
  <2>4. s \in Seq(Bytes) /\ Len(s) = Len(payload)
    BY <2>1, <2>2, <2>3
  <2>5. \A i \in 1 .. Len(payload) : s[i] = payload[i]
    BY <2>1, <2>2, <2>3
  <2>6. s = payload
    BY <2>1, <2>4, <2>5
  <2> QED
    BY <2>2, <2>3, <2>6
<1> QED
  BY <1>1, <1>2, <1>3, SpecSlipInv, PTL DEF Spec
=============================================================================
