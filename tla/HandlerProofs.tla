---------------------------- MODULE HandlerProofs ----------------------------
(****************************************************************************)
(* Proofs about the message loop of Handler, for all values of its          *)
(* constants: any number of clients and files, any environment.             *)
(****************************************************************************)
EXTENDS Handler, TLAPS

------------------------------------------------------------------------------
(* The port as a sequence without duplicates *)

Distinct(p) == \A i, j \in DOMAIN p : p[i] = p[j] => i = j

\* PutMsg() adds the message and nothing else.
LEMMA AppendMsg ==
    ASSUME NEW S, NEW p \in Seq(S), NEW m \in S
    PROVE  /\ Append(p, m) \in Seq(S)
           /\ ToSet(Append(p, m)) = ToSet(p) \cup {m}
           /\ Distinct(p) /\ m \notin ToSet(p) => Distinct(Append(p, m))
<1>1. Append(p, m) \in Seq(S) /\ Len(Append(p, m)) = Len(p) + 1
  OBVIOUS
<1>2. \A i \in 1 .. Len(p) : Append(p, m)[i] = p[i]
  OBVIOUS
<1>3. Append(p, m)[Len(p) + 1] = m
  OBVIOUS
<1> QED
  BY <1>1, <1>2, <1>3 DEF ToSet, Distinct

\* GetMsg() takes the message it returns out of the port, and no other.
LEMMA TailMsg ==
    ASSUME NEW S, NEW p \in Seq(S), p # <<>>, Distinct(p)
    PROVE  /\ Tail(p) \in Seq(S)
           /\ Distinct(Tail(p))
           /\ Head(p) \in ToSet(p)
           /\ ToSet(Tail(p)) = ToSet(p) \ {Head(p)}
<1> DEFINE n == Len(p)
<1>1. /\ Tail(p) \in Seq(S) /\ Len(Tail(p)) = n - 1 /\ n \in Nat /\ n > 0
      /\ Head(p) = p[1] /\ DOMAIN p = 1 .. n /\ DOMAIN Tail(p) = 1 .. n - 1
  OBVIOUS
<1>2. \A i \in 1 .. n - 1 : Tail(p)[i] = p[i + 1]
  OBVIOUS
<1> HIDE DEF n
<1>3. Distinct(Tail(p))
  BY <1>1, <1>2 DEF Distinct
<1>4. Head(p) \in ToSet(p)
  BY <1>1 DEF ToSet
<1>5. ASSUME NEW x \in ToSet(Tail(p)) PROVE x \in ToSet(p) /\ x # Head(p)
  <2>1. PICK i \in 1 .. n - 1 : x = p[i + 1]
    BY <1>1, <1>2, <1>5 DEF ToSet
  <2> QED
    BY <1>1, <2>1 DEF ToSet, Distinct
<1>6. ASSUME NEW x \in ToSet(p), x # Head(p) PROVE x \in ToSet(Tail(p))
  <2>1. PICK i \in 1 .. n : x = p[i]
    BY <1>1, <1>6 DEF ToSet
  <2>2. i - 1 \in 1 .. n - 1 /\ Tail(p)[i - 1] = x
    BY <1>1, <1>2, <1>6, <2>1
  <2> QED
    BY <1>1, <2>2 DEF ToSet
<1> QED
  BY <1>1, <1>3, <1>4, <1>5, <1>6

\* WaitIO() takes the reply out of the port, and no other message.
LEMMA UnlinkMsg ==
    ASSUME NEW S, NEW p \in Seq(S), NEW m, Distinct(p)
    PROVE  /\ Unlink(p, m) \in Seq(S)
           /\ Distinct(Unlink(p, m))
           /\ ToSet(Unlink(p, m)) = ToSet(p) \ {m}
<1>1. CASE m \notin ToSet(p)
  BY <1>1 DEF Unlink
<1>2. CASE m \in ToSet(p)
  <2>1. PICK k \in DOMAIN p : /\ k = (CHOOSE i \in DOMAIN p : p[i] = m)
                              /\ p[k] = m
    BY <1>2 DEF ToSet
  <2> DEFINE q == RemoveAt(p, k)
             n == Len(p)
  <2>2. Unlink(p, m) = q
    BY <1>2, <2>1 DEF Unlink
  <2>3. k \in 1 .. n /\ n \in Nat /\ DOMAIN p = 1 .. n
    BY <2>1
  <2> DEFINE u == SubSeq(p, 1, k - 1)
             v == SubSeq(p, k + 1, n)
  <2>4. /\ u \in Seq(S) /\ Len(u) = k - 1
        /\ v \in Seq(S) /\ Len(v) = n - k
    BY <2>3
  <2>5. /\ \A i \in 1 .. k - 1 : u[i] = p[i]
        /\ \A i \in 1 .. n - k : v[i] = p[k + i]
    BY <2>3
  <2>6. q = u \o v
    BY DEF RemoveAt
  <2> HIDE DEF u, v, q, n
  <2>7. /\ u \o v \in Seq(S) /\ Len(u \o v) = Len(u) + Len(v)
         /\ \A i \in 1 .. Len(u) + Len(v) :
               (u \o v)[i] = IF i <= Len(u) THEN u[i] ELSE v[i - Len(u)]
    <3>1. u \in Seq(S) /\ v \in Seq(S)
      BY <2>4
    <3>2. u \o v \in Seq(S)
      BY <3>1
    <3>3. Len(u \o v) = Len(u) + Len(v)
      BY <3>1
    <3>4. ASSUME NEW i \in 1 .. Len(u) + Len(v)
          PROVE  (u \o v)[i] = IF i <= Len(u) THEN u[i] ELSE v[i - Len(u)]
      BY <3>1
    <3> QED
      BY <3>2, <3>3, <3>4
  <2>8. q \in Seq(S) /\ Len(q) = n - 1 /\ DOMAIN q = 1 .. n - 1
    <3>1. (k - 1) + (n - k) = n - 1
      BY <2>3
    <3>2. q \in Seq(S) /\ Len(q) = n - 1
      BY <2>4, <2>6, <2>7, <3>1
    <3> QED
      BY <3>2
  <2>9. \A i \in 1 .. n - 1 : q[i] = p[IF i < k THEN i ELSE i + 1]
    <3> SUFFICES ASSUME NEW i \in 1 .. n - 1
                 PROVE  q[i] = p[IF i < k THEN i ELSE i + 1]
      OBVIOUS
    <3>1. CASE i < k
      BY <2>3, <2>4, <2>5, <2>6, <3>1
    <3>2. CASE i >= k
      <4>1. i - (k - 1) \in 1 .. n - k /\ k + (i - (k - 1)) = i + 1
        BY <2>3, <3>2
      <4>2. q[i] = v[i - (k - 1)]
        <5>1. i \in 1 .. (k - 1) + (n - k) /\ ~(i <= k - 1)
          BY <2>3, <3>2
        <5> QED
          BY <2>4, <2>6, <2>7, <5>1
      <4> QED
        BY <2>3, <2>5, <3>2, <4>1, <4>2
    <3> QED
      BY <2>3, <3>1, <3>2
  <2>10. Distinct(q)
    <3> SUFFICES ASSUME NEW i \in 1 .. n - 1, NEW j \in 1 .. n - 1,
                        q[i] = q[j]
                 PROVE  i = j
      BY <2>8 DEF Distinct
    <3> DEFINE at(x) == IF x < k THEN x ELSE x + 1
    <3>1. at(i) \in 1 .. n /\ at(j) \in 1 .. n
      BY <2>3
    <3>2. p[at(i)] = p[at(j)]
      BY <2>9
    <3>3. at(i) = at(j)
      BY <2>3, <3>1, <3>2 DEF Distinct
    <3> QED
      BY <2>3, <3>3
  <2>11. ASSUME NEW x \in ToSet(q) PROVE x \in ToSet(p) /\ x # m
    <3>1. PICK i \in 1 .. n - 1 : x = q[i]
      BY <2>8, <2>11 DEF ToSet
    <3> DEFINE j == IF i < k THEN i ELSE i + 1
    <3>2. j \in 1 .. n /\ j # k /\ x = p[j]
      BY <2>3, <2>9, <3>1
    <3> QED
      BY <2>1, <2>3, <3>2 DEF ToSet, Distinct
  <2>12. ASSUME NEW x \in ToSet(p), x # m PROVE x \in ToSet(q)
    <3>1. PICK i \in 1 .. n : x = p[i]
      BY <2>3, <2>12 DEF ToSet
    <3>2. i # k
      BY <2>1, <2>12, <3>1
    <3> DEFINE j == IF i < k THEN i ELSE i - 1
    <3>3. j \in 1 .. n - 1 /\ (IF j < k THEN j ELSE j + 1) = i
      BY <2>3, <3>2
    <3>4. q[j] = x
      BY <2>9, <3>1, <3>3
    <3> QED
      BY <2>8, <3>3, <3>4 DEF ToSet
  <2> QED
    BY <2>2, <2>8, <2>10, <2>11, <2>12
<1> QED
  BY <1>1, <1>2

------------------------------------------------------------------------------
(* Messages: each is in the port once, and only while it is under way *)

Msgs == Clients \cup {"out", "sreq", "treq"}
RequestFields == {"st", "cmd", "frame", "failed", "ans"}

\* What the argument needs of the types of the variables.
MsgTypes ==
    /\ port \in Seq(Msgs)
    /\ pkt \in [Clients -> [dp_Type : PacketTypes \cup {"none"},
                            len : WriteLens \cup {0}]]
    /\ sreq = [k \in RequestFields |-> sreq[k]]
    /\ sreq.st \in {"idle", "active", "replied"}
    /\ treq \in {"idle", "running", "expired"}

\* MessagesOnce and TimerGuardsIO are inductive only together: that the reply
\* of the timer leaves the port with netio_stop_timer() needs that the timer
\* is not in use when the serial request is idle, and the other way round.
MsgInv == MsgTypes /\ MessagesOnce /\ TimerGuardsIO

\* The loop takes message m: what is left.
LEMMA Taken ==
    ASSUME MsgInv, undef = {}, NEW m \in Msgs, GetMsg(m)
    PROVE  /\ g_running
           /\ Tail(port) \in Seq(Msgs) /\ Distinct(Tail(port))
           /\ m \in ToSet(port)
           /\ ToSet(Tail(port)) = ToSet(port) \ {m}
<1>1. port \in Seq(Msgs) /\ port # <<>> /\ Distinct(port) /\ Head(port) = m
  BY DEF MsgInv, MsgTypes, MessagesOnce, Distinct, GetMsg
<1> QED
  BY <1>1, TailMsg DEF GetMsg

\* The same, and the reply of request r leaves the port as well.
LEMMA TakenUnlinked ==
    ASSUME MsgInv, undef = {}, NEW m \in Msgs, GetMsg(m), NEW r
    PROVE  LET p == Unlink(Tail(port), r) IN
           /\ p \in Seq(Msgs) /\ Distinct(p)
           /\ ToSet(p) = ToSet(port) \ {m, r}
<1>1. /\ Tail(port) \in Seq(Msgs) /\ Distinct(Tail(port))
      /\ ToSet(Tail(port)) = ToSet(port) \ {m}
  BY Taken
<1> DEFINE q == Tail(port)
<1> HIDE DEF q
<1>2. /\ Unlink(q, r) \in Seq(Msgs) /\ Distinct(Unlink(q, r))
      /\ ToSet(Unlink(q, r)) = ToSet(q) \ {r}
  BY <1>1, UnlinkMsg DEF q
<1> QED
  BY <1>1, <1>2 DEF q

\* send_internal_packet() is defined when outpkt is not in the port.
LEMMA Sent ==
    ASSUME NEW p \in Seq(Msgs), Distinct(p), NEW type, NEW f,
           SendInternal(p, type, f)
    PROVE  /\ port' \in Seq(Msgs)
           /\ ToSet(port') = ToSet(p) \cup {"out"}
           /\ Requeued(p) = {} => Distinct(port')
<1>1. "out" \in Msgs
  BY DEF Msgs
<1>2. Requeued(p) = {} => "out" \notin ToSet(p)
  BY DEF Requeued
<1>3. port' = Append(p, "out")
  BY DEF SendInternal
<1>4. /\ Append(p, "out") \in Seq(Msgs)
      /\ ToSet(Append(p, "out")) = ToSet(p) \cup {"out"}
      /\ "out" \notin ToSet(p) => Distinct(Append(p, "out"))
  BY <1>1, AppendMsg
<1> QED
  BY <1>2, <1>3, <1>4

\* A request with the given status has the fields of a request.
LEMMA RequestFieldsOK ==
    /\ IdleReq = [k \in RequestFields |-> IdleReq[k]] /\ IdleReq.st = "idle"
    /\ ReadReq = [k \in RequestFields |-> ReadReq[k]] /\ ReadReq.st = "active"
    /\ \A frame : /\ WriteReq(frame) = [k \in RequestFields |-> WriteReq(frame)[k]]
                  /\ WriteReq(frame).st = "active"
BY DEF IdleReq, ReadReq, WriteReq, RequestFields

\* A replied request still has the fields of a request.
LEMMA RepliedOK ==
    ASSUME MsgTypes, NEW failed, NEW ans,
           sreq' = [sreq EXCEPT !.st = "replied", !.failed = failed, !.ans = ans]
    PROVE  sreq' = [k \in RequestFields |-> sreq'[k]] /\ sreq'.st = "replied"
BY DEF MsgTypes, RequestFields

\* A client's packet has been dealt with and returned, nothing else is sent.
LEMMA ServedKeepsMsgInv ==
    ASSUME MsgInv, undef = {}, NEW c \in Clients, GetMsg(c), Return(c),
           port' = Tail(port), UNCHANGED <<sreq, treq, undef, g_running>>
    PROVE  MsgInv'
<1>1. c \in Msgs /\ c \notin {"out", "sreq", "treq"}
  BY ClientsAssumption DEF Msgs
<1>2. /\ port' \in Seq(Msgs) /\ Distinct(port')
      /\ ToSet(port') = ToSet(port) \ {c}
  BY <1>1, Taken
<1>3. /\ pkt' \in [Clients -> [dp_Type : PacketTypes \cup {"none"},
                               len : WriteLens \cup {0}]]
      /\ \A d \in Clients : pkt'[d] = IF d = c THEN NoPacket ELSE pkt[d]
  BY DEF Return, MsgInv, MsgTypes, NoPacket
<1>4. MsgTypes'
  BY <1>2, <1>3 DEF MsgInv, MsgTypes
<1>5. MessagesOnce'
  <2>1. "sreq" \in ToSet(port') <=> sreq'.st = "replied"
    BY <1>1, <1>2 DEF MsgInv, MessagesOnce
  <2>2. "treq" \in ToSet(port') <=> treq' = "expired"
    BY <1>1, <1>2 DEF MsgInv, MessagesOnce
  <2>3. \A d \in Clients : d \in ToSet(port') <=> pkt'[d] # NoPacket
    BY <1>2, <1>3 DEF MsgInv, MessagesOnce
  <2> QED
    BY <1>2, <2>1, <2>2, <2>3 DEF MessagesOnce, Distinct
<1>6. TimerGuardsIO'
  BY DEF MsgInv, TimerGuardsIO, Pending
<1> QED
  BY <1>4, <1>5, <1>6 DEF MsgInv

\* The handler of a message that is not a client's: request r (or none) is
\* taken out of the port, outpkt may be sent.  What is left to show is how
\* the replies in the port agree with the requests.
LEMMA HandledKeepsMessages ==
    ASSUME MsgInv, undef = {}, NEW m \in {"out", "sreq", "treq"}, GetMsg(m),
           NEW p \in Seq(Msgs), Distinct(p), NEW R,
           ToSet(p) = ToSet(port) \ R, R \cap Clients = {}, UNCHANGED pkt,
           \/ port' = p
           \/ \E type, f : SendInternal(p, type, f) /\ Requeued(p) \subseteq undef',
           undef' = {} => /\ "sreq" \in ToSet(p) <=> sreq'.st = "replied"
                          /\ "treq" \in ToSet(p) <=> treq' = "expired"
    PROVE  port' \in Seq(Msgs) /\ MessagesOnce'
<1>1. CASE port' = p
  <2>1. \A c \in Clients : c \in ToSet(p) <=> pkt[c] # NoPacket
    BY DEF MsgInv, MessagesOnce
  <2> QED
    BY <1>1, <2>1 DEF MessagesOnce, Distinct
<1>2. CASE \E type, f : SendInternal(p, type, f) /\ Requeued(p) \subseteq undef'
  <2>1. /\ port' \in Seq(Msgs)
        /\ ToSet(port') = ToSet(p) \cup {"out"}
        /\ undef' = {} => Distinct(port')
    BY <1>2, Sent
  <2>2. \A c \in Clients : c \in ToSet(port') <=> pkt[c] # NoPacket
    BY <2>1, ClientsAssumption DEF MsgInv, MessagesOnce
  <2>3. undef' = {} => /\ "sreq" \in ToSet(port') <=> sreq'.st = "replied"
                       /\ "treq" \in ToSet(port') <=> treq' = "expired"
    BY <2>1
  <2> QED
    BY <2>1, <2>2, <2>3 DEF MessagesOnce, Distinct
<1> QED
  BY <1>1, <1>2

\* Sending a packet, or failing to.
LEMMA TransmitKeepsMsgInv ==
    ASSUME MsgInv, undef = {}, GetMsg("out"), UNCHANGED <<pkt, g_running>>,
           NEW t, NEW f, NEW frame, NEW state, NEW busy,
           Transmit(t, f, frame, state, busy)
    PROVE  MsgInv'
<1> DEFINE p == Tail(port)
<1>1. /\ "out" \in Msgs /\ p \in Seq(Msgs) /\ Distinct(p)
      /\ ToSet(p) = ToSet(port) \ {"out"} /\ g_running
  BY Taken DEF Msgs
<1>2. /\ "sreq" \in ToSet(p) <=> sreq.st = "replied"
      /\ "treq" \in ToSet(p) <=> treq = "expired"
  BY <1>1 DEF MsgInv, MessagesOnce
<1>3. {"out"} \cap Clients = {}
  BY ClientsAssumption
<1> HIDE DEF p
<1>4. CASE /\ StartIO(WriteReq(frame)) /\ SendNothing(p) /\ undef' = Resent
  <2>1. /\ sreq' = [k \in RequestFields |-> sreq'[k]] /\ sreq'.st = "active"
        /\ treq' = "running" /\ port' = p
    BY <1>4, RequestFieldsOK DEF StartIO, SendNothing
  <2>2. undef' = {} => sreq.st = "idle" /\ treq = "idle"
    BY <1>4 DEF Resent
  <2>3. port' \in Seq(Msgs) /\ MessagesOnce'
    BY <1>1, <1>2, <1>3, <2>1, <2>2, HandledKeepsMessages
  <2>4. MsgTypes' /\ TimerGuardsIO'
    BY <2>1, <2>3 DEF MsgInv, MsgTypes, TimerGuardsIO, Pending
  <2> QED
    BY <2>3, <2>4 DEF MsgInv
<1>5. CASE /\ FailFile(t, f, "NETIO", p) /\ undef' = Requeued(p)
           /\ UNCHANGED <<sreq, treq>>
  <2>1. SendInternal(p, "FILE_FAILED", f)
    BY <1>5 DEF FailFile
  <2>2. port' \in Seq(Msgs) /\ MessagesOnce'
    BY <1>1, <1>2, <1>3, <1>5, <2>1, HandledKeepsMessages
  <2>3. MsgTypes' /\ TimerGuardsIO'
    BY <1>5, <2>2 DEF MsgInv, MsgTypes, TimerGuardsIO, Pending
  <2> QED
    BY <2>2, <2>3 DEF MsgInv
<1> QED
  BY <1>4, <1>5 DEF Transmit, p

\* A handler of an internal packet that does not touch the requests.
LEMMA InternalKeepsMsgInv ==
    ASSUME MsgInv, undef = {}, GetMsg("out"),
           UNCHANGED <<pkt, g_running, sreq, treq>>,
           \/ port' = Tail(port)
           \/ \E type, f : /\ SendInternal(Tail(port), type, f)
                           /\ undef' = Requeued(Tail(port))
    PROVE  MsgInv'
<1> DEFINE p == Tail(port)
<1>1. /\ "out" \in Msgs /\ p \in Seq(Msgs) /\ Distinct(p)
      /\ ToSet(p) = ToSet(port) \ {"out"} /\ g_running
  BY Taken DEF Msgs
<1>2. /\ "sreq" \in ToSet(p) <=> sreq'.st = "replied"
      /\ "treq" \in ToSet(p) <=> treq' = "expired"
  BY <1>1 DEF MsgInv, MessagesOnce
<1>3. {"out"} \cap Clients = {}
  BY ClientsAssumption
<1>4. \/ port' = p
      \/ \E type, f : SendInternal(p, type, f) /\ Requeued(p) \subseteq undef'
  OBVIOUS
<1> HIDE DEF p
<1>5. port' \in Seq(Msgs) /\ MessagesOnce'
  BY <1>1, <1>2, <1>3, <1>4, HandledKeepsMessages
<1>6. MsgTypes' /\ TimerGuardsIO'
  BY <1>5 DEF MsgInv, MsgTypes, TimerGuardsIO, Pending
<1> QED
  BY <1>5, <1>6 DEF MsgInv

\* dos.library puts a packet into the port.
LEMMA SendPktKeepsMsgInv ==
    ASSUME MsgInv, undef = {}, NEW c \in Clients, NEW type \in PacketTypes,
           NEW len \in WriteLens \cup {0}, SendPkt(c, type, len)
    PROVE  MsgInv'
<1>1. /\ c \in Msgs /\ c \notin {"out", "sreq", "treq"} /\ port \in Seq(Msgs)
      /\ pkt[c] = NoPacket /\ port' = Append(port, c)
      /\ UNCHANGED <<sreq, treq, g_running, undef>>
  BY ClientsAssumption DEF Msgs, MsgInv, MsgTypes, SendPkt, ioVars, loopVars
<1>2. Distinct(port) /\ c \notin ToSet(port)
  BY <1>1 DEF MsgInv, MessagesOnce, Distinct
<1>3. /\ port' \in Seq(Msgs) /\ Distinct(port')
      /\ ToSet(port') = ToSet(port) \cup {c}
  BY <1>1, <1>2, AppendMsg
<1>4. /\ pkt' \in [Clients -> [dp_Type : PacketTypes \cup {"none"},
                               len : WriteLens \cup {0}]]
      /\ pkt'[c].dp_Type = type
      /\ \A d \in Clients \ {c} : pkt'[d] = pkt[d]
  BY DEF SendPkt, MsgInv, MsgTypes
<1>5. pkt'[c] # NoPacket
  BY <1>4 DEF NoPacket, PacketTypes
<1>6. MessagesOnce'
  <2>1. "sreq" \in ToSet(port') <=> sreq'.st = "replied"
    BY <1>1, <1>3 DEF MsgInv, MessagesOnce
  <2>2. "treq" \in ToSet(port') <=> treq' = "expired"
    BY <1>1, <1>3 DEF MsgInv, MessagesOnce
  <2>3. \A d \in Clients : d \in ToSet(port') <=> pkt'[d] # NoPacket
    BY <1>3, <1>4, <1>5 DEF MsgInv, MessagesOnce
  <2> QED
    BY <1>3, <2>1, <2>2, <2>3 DEF MessagesOnce, Distinct
<1>7. MsgTypes' /\ TimerGuardsIO'
  BY <1>1, <1>3, <1>4 DEF MsgInv, MsgTypes, TimerGuardsIO, Pending
<1> QED
  BY <1>6, <1>7 DEF MsgInv

\* serial.device replies its request.
LEMMA SerialKeepsMsgInv ==
    ASSUME MsgInv, undef = {}, NEW failed, NEW ans, SerialReplies(failed, ans)
    PROVE  MsgInv'
<1>1. /\ sreq.st = "active" /\ port' = Append(port, "sreq")
      /\ UNCHANGED <<pkt, treq, g_running, undef>>
      /\ "sreq" \in Msgs /\ port \in Seq(Msgs) /\ "sreq" \notin Clients
  BY ClientsAssumption
  DEF SerialReplies, clientVars, loopVars, Msgs, MsgInv, MsgTypes
<1>2. Distinct(port) /\ "sreq" \notin ToSet(port)
  BY <1>1 DEF MsgInv, MessagesOnce, Distinct
<1>3. /\ port' \in Seq(Msgs) /\ Distinct(port')
      /\ ToSet(port') = ToSet(port) \cup {"sreq"}
  BY <1>1, <1>2, AppendMsg
<1>4. sreq' = [k \in RequestFields |-> sreq'[k]] /\ sreq'.st = "replied"
  BY RepliedOK DEF SerialReplies, MsgInv
<1>5. MessagesOnce'
  BY <1>1, <1>3, <1>4 DEF MsgInv, MessagesOnce, Distinct
<1>6. MsgTypes' /\ TimerGuardsIO'
  BY <1>1, <1>3, <1>4 DEF MsgInv, MsgTypes, TimerGuardsIO, Pending
<1> QED
  BY <1>5, <1>6 DEF MsgInv

\* timer.device replies its request.
LEMMA TimerKeepsMsgInv ==
    ASSUME MsgInv, undef = {}, TimerFires
    PROVE  MsgInv'
<1>1. /\ treq = "running" /\ treq' = "expired" /\ port' = Append(port, "treq")
      /\ UNCHANGED <<pkt, sreq, g_running, undef>>
      /\ "treq" \in Msgs /\ port \in Seq(Msgs) /\ "treq" \notin Clients
  BY ClientsAssumption
  DEF TimerFires, clientVars, loopVars, Msgs, MsgInv, MsgTypes
<1>2. Distinct(port) /\ "treq" \notin ToSet(port)
  BY <1>1 DEF MsgInv, MessagesOnce, Distinct
<1>3. /\ port' \in Seq(Msgs) /\ Distinct(port')
      /\ ToSet(port') = ToSet(port) \cup {"treq"}
  BY <1>1, <1>2, AppendMsg
<1>4. MessagesOnce'
  BY <1>1, <1>3 DEF MsgInv, MessagesOnce, Distinct
<1>5. MsgTypes' /\ TimerGuardsIO'
  BY <1>1, <1>3 DEF MsgInv, MsgTypes, TimerGuardsIO, Pending
<1> QED
  BY <1>4, <1>5 DEF MsgInv

\* The reply to the client precedes the internal packet.
LEMMA SendOwedKeepsMsgInv ==
    ASSUME MsgInv, undef = {}, SendOwed
    PROVE  MsgInv'
<1>1. /\ port \in Seq(Msgs) /\ Distinct(port)
      /\ UNCHANGED <<pkt, sreq, treq, g_running>>
      /\ SendInternal(port, owed.dp_Type, owed.dp_Arg1)
      /\ undef' = Requeued(port)
      /\ "out" \notin Clients
  BY ClientsAssumption DEF MsgInv, MsgTypes, MessagesOnce, Distinct, SendOwed,
     clientVars, ioVars, loopVars
<1>2. /\ port' \in Seq(Msgs) /\ ToSet(port') = ToSet(port) \cup {"out"}
      /\ undef' = {} => Distinct(port')
  BY <1>1, Sent
<1>3. MessagesOnce'
  BY <1>1, <1>2 DEF MsgInv, MessagesOnce, Distinct
<1>4. MsgTypes' /\ TimerGuardsIO'
  BY <1>1, <1>2 DEF MsgInv, MsgTypes, TimerGuardsIO, Pending
<1> QED
  BY <1>3, <1>4 DEF MsgInv

\* ACTION_DIE takes the reply of the serial request out of the port.
LEMMA DieKeepsMsgInv ==
    ASSUME MsgInv, undef = {}, NEW c \in Clients, Die(c)
    PROVE  MsgInv'
<1> DEFINE p == Unlink(Tail(port), "sreq")
<1>1. /\ c \in Msgs /\ c \notin {"out", "sreq", "treq"} /\ GetMsg(c)
      /\ port' = p /\ sreq' = IdleReq /\ g_running' = FALSE
      /\ UNCHANGED <<treq, undef>>
  BY ClientsAssumption DEF Msgs, Die, SendNothing, AbortSerial
<1>2. /\ p \in Seq(Msgs) /\ Distinct(p)
      /\ ToSet(p) = ToSet(port) \ {c, "sreq"}
  BY <1>1, TakenUnlinked
<1>3. /\ pkt' \in [Clients -> [dp_Type : PacketTypes \cup {"none"},
                               len : WriteLens \cup {0}]]
      /\ \A d \in Clients : pkt'[d] = IF d = c THEN NoPacket ELSE pkt[d]
  BY DEF Die, Return, MsgInv, MsgTypes, NoPacket
<1> HIDE DEF p
<1>4. MsgTypes' /\ TimerGuardsIO'
  BY <1>1, <1>2, <1>3, RequestFieldsOK DEF MsgInv, MsgTypes, TimerGuardsIO
<1>5. MessagesOnce'
  <2>1. "sreq" \in ToSet(port') <=> sreq'.st = "replied"
    BY <1>1, <1>2, RequestFieldsOK
  <2>2. "treq" \in ToSet(port') <=> treq' = "expired"
    BY <1>1, <1>2 DEF MsgInv, MessagesOnce
  <2>3. \A d \in Clients : d \in ToSet(port') <=> pkt'[d] # NoPacket
    BY <1>1, <1>2, <1>3, ClientsAssumption DEF MsgInv, MessagesOnce
  <2> QED
    BY <1>1, <1>2, <2>1, <2>2, <2>3 DEF MessagesOnce, Distinct
<1> QED
  BY <1>4, <1>5 DEF MsgInv

\* An IO completion or a timeout: both replies leave the port, and either
\* both requests are sent again or both are idle.
LEMMA CompletedKeepsMsgInv ==
    ASSUME MsgInv, undef = {}, UNCHANGED pkt,
           NEW m \in {"sreq", "treq"}, NEW r \in {"sreq", "treq"}, m # r,
           GetMsg(m),
           \/ StartIO(ReadReq)
           \/ sreq' = IdleReq /\ treq' = "idle",
           \/ port' = Unlink(Tail(port), r)
           \/ \E type, f : /\ SendInternal(Unlink(Tail(port), r), type, f)
                           /\ Requeued(Unlink(Tail(port), r)) \subseteq undef'
    PROVE  MsgInv'
<1> DEFINE p == Unlink(Tail(port), r)
<1>1. /\ m \in Msgs /\ p \in Seq(Msgs) /\ Distinct(p)
      /\ ToSet(p) = ToSet(port) \ {"sreq", "treq"}
  BY TakenUnlinked DEF Msgs
<1>2. {"sreq", "treq"} \cap Clients = {}
  BY ClientsAssumption
<1>3. /\ sreq' = [k \in RequestFields |-> sreq'[k]]
      /\ \/ sreq'.st = "active" /\ treq' = "running"
         \/ sreq'.st = "idle" /\ treq' = "idle"
  BY RequestFieldsOK DEF StartIO
<1>4. \/ port' = p
      \/ \E type, f : SendInternal(p, type, f) /\ Requeued(p) \subseteq undef'
  OBVIOUS
<1> HIDE DEF p
<1>5. port' \in Seq(Msgs) /\ MessagesOnce'
  BY <1>1, <1>2, <1>3, <1>4, HandledKeepsMessages
<1>6. MsgTypes' /\ TimerGuardsIO'
  BY <1>3, <1>5 DEF MsgInv, MsgTypes, TimerGuardsIO, Pending
<1> QED
  BY <1>5, <1>6 DEF MsgInv

\* do_write_return() takes both replies out and starts the read, or fails.
LEMMA WriteReturnKeepsMsgInv ==
    ASSUME MsgInv, undef = {}, WriteReturn
    PROVE  MsgInv'
<1> DEFINE p == Unlink(Tail(port), "treq")
<1>1. GetMsg("sreq") /\ UNCHANGED pkt
  BY DEF WriteReturn, clientVars
<1>2. \/ StartIO(ReadReq)
      \/ sreq' = IdleReq /\ treq' = "idle"
  BY DEF WriteReturn
<1>3. \/ port' = p
      \/ \E type, f : SendInternal(p, type, f) /\ Requeued(p) \subseteq undef'
  BY DEF WriteReturn, FailFile, SendNothing, StopTimer
<1> HIDE DEF p
<1> QED
  BY <1>1, <1>2, <1>3, CompletedKeepsMsgInv DEF p

\* do_read_return() takes both replies out and leaves both requests idle.
LEMMA ReadReturnKeepsMsgInv ==
    ASSUME MsgInv, undef = {}, ReadReturn
    PROVE  MsgInv'
<1> DEFINE p == Unlink(Tail(port), "treq")
<1>1. GetMsg("sreq") /\ UNCHANGED pkt /\ sreq' = IdleReq /\ treq' = "idle"
  BY DEF ReadReturn, clientVars
<1>2. \/ port' = p
      \/ \E type, f : SendInternal(p, type, f) /\ Requeued(p) \subseteq undef'
  <2> DEFINE f == iopkt1.dp_Arg1
  <2>1. PICK a \in Extracted : Answered(f, a, p) \/ AnswerFailed(f, a, p)
    BY DEF ReadReturn, StopTimer
  <2> HIDE DEF f, p
  <2>2. CASE Answered(f, a, p)
    BY <2>2 DEF Answered, AckRequest, AckData, AckWrongBlock, AckWrongState,
                FailFile, SendNothing
  <2>3. CASE AnswerFailed(f, a, p)
    BY <2>3 DEF AnswerFailed, FailFile
  <2> QED
    BY <2>1, <2>2, <2>3
<1> HIDE DEF p
<1> QED
  BY <1>1, <1>2, CompletedKeepsMsgInv DEF p

\* ACTION_TIMER_EXPIRED takes both replies out, the serial one if there is.
LEMMA TimerExpiredKeepsMsgInv ==
    ASSUME MsgInv, undef = {}, TimerExpired
    PROVE  MsgInv'
<1> DEFINE p == Unlink(Tail(port), "sreq")
<1>1. GetMsg("treq") /\ UNCHANGED pkt /\ sreq' = IdleReq /\ treq' = "idle"
  BY DEF TimerExpired, clientVars
<1>2. \E type, f : SendInternal(p, type, f) /\ Requeued(p) \subseteq undef'
  BY DEF TimerExpired, FailFile, AbortSerial
<1> HIDE DEF p
<1> QED
  BY <1>1, <1>2, CompletedKeepsMsgInv DEF p

\* The port is empty and the requests are idle when the loop is entered.
LEMMA InitMsgInv == Init => MsgInv
<1> SUFFICES ASSUME Init PROVE MsgInv
  OBVIOUS
<1>1. MsgTypes
  BY RequestFieldsOK DEF Init, MsgTypes, Msgs, NoPacket
<1>2. ToSet(port) = {} /\ DOMAIN port = {}
  BY DEF Init, ToSet
<1>3. MessagesOnce /\ TimerGuardsIO
  BY <1>2, RequestFieldsOK DEF Init, MessagesOnce, TimerGuardsIO, Pending
<1> QED
  BY <1>1, <1>3 DEF MsgInv

\* Every step of the loop, of a device or of a client keeps the invariant.
LEMMA StepMsgInv == MsgInv /\ [Next]_vars => MsgInv'
<1> SUFFICES ASSUME MsgInv, [Next]_vars PROVE MsgInv'
  OBVIOUS
<1>1. CASE UNCHANGED vars
  BY <1>1 DEF vars, clientVars, ioVars, loopVars, MsgInv, MsgTypes,
              MessagesOnce, TimerGuardsIO, Pending
<1>2. CASE Next
  <2>1. undef = {} /\ (Handle \/ Device \/ Client)
    BY <1>2 DEF Next
  <2>2. ASSUME NEW c \in Clients, FindOutput(c) \/ Write(c) \/ End(c) \/ Other(c)
        PROVE  MsgInv'
    <3>1. /\ GetMsg(c) /\ Return(c) /\ port' = Tail(port)
          /\ UNCHANGED <<sreq, treq, undef, g_running>>
      BY <2>2 DEF FindOutput, Write, End, Other, SendNothing, ioVars, loopVars
    <3> QED
      BY <2>1, <2>2, <3>1, ServedKeepsMsgInv
  <2>3. ASSUME NEW c \in Clients, Die(c) PROVE MsgInv'
    BY <2>1, <2>3, DieKeepsMsgInv
  <2>4. CASE SendOwed
    BY <2>1, <2>4, SendOwedKeepsMsgInv
  <2>5. CASE SendNextFile
    <3>1. GetMsg("out") /\ UNCHANGED <<pkt, g_running>>
      BY <2>5 DEF SendNextFile, Internal, clientVars
    <3>2. CASE port' = Tail(port) /\ UNCHANGED <<sreq, treq>>
      BY <2>1, <3>1, <3>2, InternalKeepsMsgInv
    <3>3. CASE \E t, f, frame, state, busy : Transmit(t, f, frame, state, busy)
      BY <2>1, <3>1, <3>3, TransmitKeepsMsgInv
    <3> QED
      BY <2>5, <3>2, <3>3 DEF SendNextFile, SendNothing
  <2>6. CASE SendNextBuffer \/ ContinueBuffer
    <3>1. GetMsg("out") /\ UNCHANGED <<pkt, g_running>>
      BY <2>6 DEF SendNextBuffer, ContinueBuffer, Internal, clientVars
    <3>2. CASE \E type, f : /\ SendInternal(Tail(port), type, f)
                            /\ undef' = Requeued(Tail(port))
                            /\ UNCHANGED <<sreq, treq>>
      BY <2>1, <3>1, <3>2, InternalKeepsMsgInv
    <3>3. CASE \E t, f, frame, state, busy : Transmit(t, f, frame, state, busy)
      BY <2>1, <3>1, <3>3, TransmitKeepsMsgInv
    <3> QED
      BY <2>6, <3>2, <3>3 DEF SendNextBuffer, ContinueBuffer, SendBlock
  <2>7. CASE FileDone \/ BufferFinished
    <3>1. /\ GetMsg("out") /\ UNCHANGED <<pkt, g_running, sreq, treq>>
          /\ \E type, f : /\ SendInternal(Tail(port), type, f)
                          /\ undef' = Requeued(Tail(port))
      BY <2>7 DEF FileDone, BufferFinished, Internal, clientVars, ioVars,
                  loopVars
    <3> QED
      BY <2>1, <3>1, InternalKeepsMsgInv
  <2>8. CASE WriteReturn
    BY <2>1, <2>8, WriteReturnKeepsMsgInv
  <2>9. CASE ReadReturn
    BY <2>1, <2>9, ReadReturnKeepsMsgInv
  <2>10. CASE TimerExpired
    BY <2>1, <2>10, TimerExpiredKeepsMsgInv
  <2>11. CASE Exit
    BY <2>1, <2>11 DEF Exit, clientVars, ioVars, MsgInv, MsgTypes,
                       MessagesOnce, TimerGuardsIO, Pending
  <2>12. CASE Device
    <3>1. CASE \E failed, ans : SerialReplies(failed, ans)
      BY <2>1, <3>1, SerialKeepsMsgInv
    <3>2. CASE TimerFires
      BY <2>1, <3>2, TimerKeepsMsgInv
    <3> QED
      BY <2>12, <3>1, <3>2 DEF Device, WriteDone, ReadDone, SerialError
  <2>13. CASE Client
    <3>1. PICK c \in Clients, type \in PacketTypes, len \in WriteLens \cup {0} :
             SendPkt(c, type, len)
      BY <2>13 DEF Client, ClientOpen, ClientWrite, ClientClose, ClientUnmount,
                   ClientOther, PacketTypes
    <3> QED
      BY <2>1, <3>1, SendPktKeepsMsgInv
  <2> QED
    BY <2>1, <2>2, <2>3, <2>4, <2>5, <2>6, <2>7, <2>8, <2>9, <2>10, <2>11,
       <2>12, <2>13 DEF Handle
<1> QED
  BY <1>1, <1>2

\* Hence the invariant holds in every state.
LEMMA SpecMsgInv == Spec => []MsgInv
BY InitMsgInv, StepMsgInv, PTL DEF Spec

\* A message is in the port once and only while it is under way, whatever
\* the environment does, as long as nothing undefined has happened.
THEOREM MessagesAreUnique == Spec => []MessagesOnce
BY SpecMsgInv, PTL DEF MsgInv

\* The timer is in use exactly while the serial request is.
THEOREM TimerIsPaired == Spec => []TimerGuardsIO
BY SpecMsgInv, PTL DEF MsgInv

------------------------------------------------------------------------------
(* Buffers: the head of ftx_buffers is followed only when there is one *)

BufferPackets == {"SEND_NEXT_BUFFER", "CONTINUE_BUFFER", "BUFFER_FINISHED"}
DonePackets   == {"FILE_FINISHED", "FILE_FAILED"}

\* outpkt is in the port, with one of the given types.
Out(types) == "out" \in ToSet(port) /\ outpkt.dp_Type \in types

\* While a packet about the next buffer or block is under way no IO is, its
\* file exists, and so does the buffer to continue or to free.
BufferPacketOK ==
    Out(BufferPackets) =>
        /\ ~Pending(sreq)
        /\ outpkt.dp_Arg1 \in DOMAIN g_transfers
        /\ outpkt.dp_Type # "SEND_NEXT_BUFFER"
              => g_transfers[outpkt.dp_Arg1].ftx_buffers # <<>>

\* iopkt1 names a file whenever it is going to be looked at.
IoPacketOK ==
    (Pending(sreq) \/ Out(BufferPackets))
        => iopkt1.dp_Arg1 \in DOMAIN g_transfers

\* A file that waits for the acknowledgement of a block has the buffer that
\* block is in, but for the moment between the buffers.
DataSentOK ==
    \A f \in DOMAIN g_transfers :
        g_transfers[f].ftx_state = "S_DATA_SENT" =>
            \/ g_transfers[f].ftx_buffers # <<>>
            \/ Out({"SEND_NEXT_BUFFER"}) /\ outpkt.dp_Arg1 = f

\* The buffers of a file are freed only when it is not being sent.
DonePacketOK ==
    /\ (Out(DonePackets) /\ outpkt.dp_Arg1 \in DOMAIN g_transfers)
          => ~Sending(outpkt.dp_Arg1)
    /\ (owed.dp_Type \in DonePackets /\ owed.dp_Arg1 \in DOMAIN g_transfers)
          => ~Sending(owed.dp_Arg1)
    /\ owed.dp_Type \notin BufferPackets

PacketsOK == BufferPacketOK /\ IoPacketOK /\ DataSentOK /\ DonePacketOK

\* The types depend on it: an empty list has no head to take a buffer from.
FileInv == TypeOK /\ (undef = {} => PacketsOK)

\* Assigning to a member of a list, or to one that is not there.
LEMMA UpdateMember ==
    ASSUME NEW S, NEW t \in Seq(S), NEW f, NEW r, f \in DOMAIN t => r \in S
    PROVE  /\ [t EXCEPT ![f] = r] \in Seq(S)
           /\ Len([t EXCEPT ![f] = r]) = Len(t)
           /\ DOMAIN [t EXCEPT ![f] = r] = DOMAIN t
           /\ \A g \in DOMAIN t : [t EXCEPT ![f] = r][g] = IF g = f THEN r ELSE t[g]
<1> DEFINE u == [t EXCEPT ![f] = r]
<1>1. DOMAIN u = 1 .. Len(t) /\ DOMAIN t = 1 .. Len(t) /\ Len(t) \in Nat
  OBVIOUS
<1>2. \A g \in DOMAIN t : u[g] = IF g = f THEN r ELSE t[g]
  OBVIOUS
<1>3. \A g \in 1 .. Len(t) : u[g] \in S
  BY <1>1, <1>2
<1>4. u = [g \in 1 .. Len(t) |-> u[g]]
  BY <1>1
<1> HIDE DEF u
<1>5. u \in Seq(S) /\ Len(u) = Len(t)
  BY <1>1, <1>3, <1>4
<1> QED
  BY <1>1, <1>2, <1>5 DEF u

\* u differs from the list t of transfers in member f only, which has the
\* given state and buffers then.
Updated(u, t, f, state, buffers) ==
    /\ u \in Seq(Transfers) /\ Len(u) = Len(t) /\ DOMAIN u = DOMAIN t
    /\ \A g \in DOMAIN t \ {f} : u[g] = t[g]
    /\ f \in DOMAIN t => u[f].ftx_state = state /\ u[f].ftx_buffers = buffers

\* Assigning a whole record.
LEMMA UpdatedBy ==
    ASSUME NEW t \in Seq(Transfers), NEW f, NEW r,
           f \in DOMAIN t => r \in Transfers
    PROVE  Updated([t EXCEPT ![f] = r], t, f, r.ftx_state, r.ftx_buffers)
BY UpdateMember DEF Updated

\* A failed file keeps its buffers until ACTION_FILE_FAILED is handled.
LEMMA FailedUpdates ==
    ASSUME NEW t \in Seq(Transfers), NEW f, NEW err \in ErrorCodes
    PROVE  Updated(Failed(t, f, err), t, f, "S_ERROR", t[f].ftx_buffers)
<1> DEFINE r == [t[f] EXCEPT !.ftx_state = "S_ERROR", !.ftx_error = err]
<1>1. Failed(t, f, err) = [t EXCEPT ![f] = r]
  BY DEF Failed
<1>2. ASSUME f \in DOMAIN t
      PROVE  /\ r \in Transfers /\ r.ftx_state = "S_ERROR"
             /\ r.ftx_buffers = t[f].ftx_buffers
  <2>1. t[f] \in Transfers
    BY <1>2
  <2> QED
    BY <2>1 DEF Transfers, TransferStates
<1> HIDE DEF r
<1> QED
  BY <1>1, <1>2, UpdatedBy DEF Updated

\* Assigning ftx_state.
LEMMA StateUpdates ==
    ASSUME NEW t \in Seq(Transfers), NEW f, NEW s \in TransferStates
    PROVE  Updated([t EXCEPT ![f].ftx_state = s], t, f, s, t[f].ftx_buffers)
<1> DEFINE r == [t[f] EXCEPT !.ftx_state = s]
<1>1. ASSUME f \in DOMAIN t
      PROVE  /\ r \in Transfers /\ r.ftx_state = s
             /\ r.ftx_buffers = t[f].ftx_buffers
  <2>1. t[f] \in Transfers
    BY <1>1
  <2> QED
    BY <2>1 DEF Transfers
<1>2. Updated([t EXCEPT ![f] = r], t, f, r.ftx_state, r.ftx_buffers)
  <2> HIDE DEF r
  <2> QED
    BY <1>1, UpdatedBy
<1> QED
  BY <1>1, <1>2 DEF Updated

\* Assigning ftx_buffers.
LEMMA BuffersUpdate ==
    ASSUME NEW t \in Seq(Transfers), NEW f, NEW b,
           f \in DOMAIN t => b \in Seq(Buffers)
    PROVE  Updated([t EXCEPT ![f].ftx_buffers = b], t, f, t[f].ftx_state, b)
<1> DEFINE r == [t[f] EXCEPT !.ftx_buffers = b]
<1>1. ASSUME f \in DOMAIN t
      PROVE  /\ r \in Transfers /\ r.ftx_state = t[f].ftx_state
             /\ r.ftx_buffers = b
  <2>1. t[f] \in Transfers
    BY <1>1
  <2> QED
    BY <1>1, <2>1 DEF Transfers
<1>2. Updated([t EXCEPT ![f] = r], t, f, r.ftx_state, r.ftx_buffers)
  <2> HIDE DEF r
  <2> QED
    BY <1>1, UpdatedBy
<1> QED
  BY <1>1, <1>2 DEF Updated

\* do_write() adds a buffer at the end.
LEMMA QueueUpdates ==
    ASSUME NEW t \in Seq(Transfers), NEW f, NEW len \in Nat
    PROVE  LET b == NewBuffer(t[f].accepted, len) IN
           Updated([t EXCEPT ![f].ftx_buffers = Append(@, b),
                             ![f].accepted = @ + len],
                   t, f, t[f].ftx_state, Append(t[f].ftx_buffers, b))
<1> DEFINE b == NewBuffer(t[f].accepted, len)
           r == [t[f] EXCEPT !.ftx_buffers = Append(@, b), !.accepted = @ + len]
<1>1. [t EXCEPT ![f].ftx_buffers = Append(@, b), ![f].accepted = @ + len]
        = [t EXCEPT ![f] = r]
  OBVIOUS
<1>2. ASSUME f \in DOMAIN t
      PROVE  /\ r \in Transfers /\ r.ftx_state = t[f].ftx_state
             /\ r.ftx_buffers = Append(t[f].ftx_buffers, b)
  <2>1. t[f] \in Transfers
    BY <1>2
  <2>2. t[f].accepted + len \in Nat /\ t[f].ftx_buffers \in Seq(Buffers)
    BY <2>1 DEF Transfers
  <2>3. b \in Buffers
    BY <2>1 DEF Transfers, Buffers, NewBuffer
  <2> HIDE DEF b
  <2>4. Append(t[f].ftx_buffers, b) \in Seq(Buffers)
    BY <2>2, <2>3
  <2> QED
    BY <2>1, <2>2, <2>4 DEF Transfers
<1>3. Updated([t EXCEPT ![f] = r], t, f, r.ftx_state, r.ftx_buffers)
  <2> HIDE DEF r
  <2> QED
    BY <1>2, UpdatedBy
<1> HIDE DEF b
<1> QED
  BY <1>1, <1>2, <1>3 DEF Updated, b

\* The head buffer is changed in place: there still is one.
LEMMA HeadUpdates ==
    ASSUME NEW b \in Seq(Buffers), b # <<>>, NEW h \in Buffers
    PROVE  /\ [b EXCEPT ![1] = h] \in Seq(Buffers)
           /\ [b EXCEPT ![1] = h] # <<>>
           /\ Head([b EXCEPT ![1] = h]) = h
<1>1. 1 \in DOMAIN b
  OBVIOUS
<1>2. /\ [b EXCEPT ![1] = h] \in Seq(Buffers)
      /\ Len([b EXCEPT ![1] = h]) = Len(b)
      /\ [b EXCEPT ![1] = h][1] = h
  BY <1>1, UpdateMember
<1> QED
  BY <1>1, <1>2

\* Moving on in the head buffer keeps it in the list.
LEMMA NextBlockUpdates ==
    ASSUME NEW t \in Seq(Transfers), NEW f \in DOMAIN t,
           t[f].ftx_buffers # <<>>
    PROVE  \E b \in Seq(Buffers) :
              /\ b # <<>>
              /\ Updated(NextBlock(t, f), t, f, t[f].ftx_state, b)
<1> DEFINE h == [t[f].ftx_buffers[1] EXCEPT !.fb_curpos = @ + TFTP_MAX_DATA_SIZE]
           b == [t[f].ftx_buffers EXCEPT ![1] = h]
           r == [t[f] EXCEPT !.ftx_buffers = b, !.ftx_blknum = @ + 1]
<1>1. NextBlock(t, f) = [t EXCEPT ![f] = r]
  BY DEF NextBlock
<1>2. t[f] \in Transfers
  OBVIOUS
<1>3. t[f].ftx_buffers \in Seq(Buffers) /\ t[f].ftx_buffers[1] \in Buffers
  BY <1>2 DEF Transfers
<1>4. h \in Buffers
  <2>1. \A x \in Buffers : [x EXCEPT !.fb_curpos = @ + TFTP_MAX_DATA_SIZE] \in Buffers
    BY SizesAssumption DEF Buffers
  <2> QED
    BY <1>3, <2>1
<1>5. b \in Seq(Buffers) /\ b # <<>>
  <2> HIDE DEF h
  <2> QED
    BY <1>3, <1>4, HeadUpdates
<1> HIDE DEF b
<1>6. r \in Transfers /\ r.ftx_state = t[f].ftx_state /\ r.ftx_buffers = b
  <2>1. t[f].ftx_blknum + 1 \in Nat
    BY <1>2 DEF Transfers
  <2> QED
    BY <1>2, <1>5, <2>1 DEF Transfers
<1> HIDE DEF r
<1>7. Updated([t EXCEPT ![f] = r], t, f, r.ftx_state, r.ftx_buffers)
  BY <1>6, UpdatedBy
<1> QED
  BY <1>1, <1>5, <1>6, <1>7

\* Incrementing ftx_blknum.
LEMMA BlknumUpdates ==
    ASSUME NEW t \in Seq(Transfers), NEW f \in DOMAIN t
    PROVE  Updated([t EXCEPT ![f].ftx_blknum = @ + 1], t, f,
                   t[f].ftx_state, t[f].ftx_buffers)
<1> DEFINE r == [t[f] EXCEPT !.ftx_blknum = @ + 1]
<1>1. [t EXCEPT ![f].ftx_blknum = @ + 1] = [t EXCEPT ![f] = r]
  OBVIOUS
<1>2. t[f] \in Transfers
  OBVIOUS
<1>3. /\ r \in Transfers /\ r.ftx_state = t[f].ftx_state
      /\ r.ftx_buffers = t[f].ftx_buffers
  <2>1. t[f].ftx_blknum + 1 \in Nat
    BY <1>2 DEF Transfers
  <2> QED
    BY <1>2, <2>1 DEF Transfers
<1> HIDE DEF r
<1>4. Updated([t EXCEPT ![f] = r], t, f, r.ftx_state, r.ftx_buffers)
  BY <1>3, UpdatedBy
<1> QED
  BY <1>1, <1>3, <1>4

\* The length of a block is a number.
LEMMA ChunkInt == ASSUME NEW n \in Int PROVE Chunk(n) \in Int
BY SizesAssumption DEF Chunk

\* Counting the acknowledged bytes keeps the head buffer in the list.
LEMMA AcknowledgedUpdates ==
    ASSUME g_transfers \in Seq(Transfers), NEW f \in DOMAIN g_transfers,
           g_transfers[f].ftx_buffers # <<>>
    PROVE  \E b \in Seq(Buffers) :
              /\ b # <<>>
              /\ Updated(Acknowledged(f), g_transfers, f,
                         g_transfers[f].ftx_state, b)
<1> DEFINE t == g_transfers
           x == t[f].ftx_buffers[1]
           h == [x EXCEPT !.fb_nbytes_to_send = @ - TFTP_MAX_DATA_SIZE]
           b == [t[f].ftx_buffers EXCEPT ![1] = h]
           n == Chunk(Head(t[f].ftx_buffers).fb_nbytes_to_send)
           r == [t[f] EXCEPT !.ftx_buffers = b, !.acked = @ + n]
<1>1. Acknowledged(f) = [t EXCEPT ![f] = r]
  BY DEF Acknowledged
<1>2. t[f] \in Transfers
  OBVIOUS
<1>3. /\ t[f].ftx_buffers \in Seq(Buffers) /\ x \in Buffers
      /\ Head(t[f].ftx_buffers) = x
  BY <1>2 DEF Transfers
<1>4. h \in Buffers
  <2>1. \A y \in Buffers :
           [y EXCEPT !.fb_nbytes_to_send = @ - TFTP_MAX_DATA_SIZE] \in Buffers
    BY SizesAssumption DEF Buffers
  <2> QED
    BY <1>3, <2>1
<1>5. b \in Seq(Buffers) /\ b # <<>>
  <2> HIDE DEF h
  <2> QED
    BY <1>3, <1>4, HeadUpdates
<1>6. t[f].acked + n \in Int
  <2>1. x.fb_nbytes_to_send \in Int
    BY <1>3 DEF Buffers
  <2>2. n \in Int
    BY <1>3, <2>1, ChunkInt
  <2> HIDE DEF n
  <2> QED
    BY <1>2, <2>2 DEF Transfers
<1> HIDE DEF b, n
<1>7. r \in Transfers /\ r.ftx_state = t[f].ftx_state /\ r.ftx_buffers = b
  BY <1>2, <1>5, <1>6 DEF Transfers
<1> HIDE DEF r
<1>8. Updated([t EXCEPT ![f] = r], t, f, r.ftx_state, r.ftx_buffers)
  BY <1>7, UpdatedBy
<1> QED
  BY <1>1, <1>5, <1>7, <1>8

\* do_find_output() adds a file without buffers at the tail.
LEMMA NewTransferAdded ==
    ASSUME NEW t \in Seq(Transfers)
    PROVE  LET u == Append(t, NewTransfer) IN
           /\ u \in Seq(Transfers) /\ Len(u) = Len(t) + 1
           /\ \A g \in DOMAIN t : u[g] = t[g]
           /\ \A g \in DOMAIN u \ DOMAIN t : u[g] = NewTransfer
<1>1. NewTransfer \in Transfers
  <2>1. <<>> \in Seq(Buffers)
    OBVIOUS
  <2> QED
    BY <2>1 DEF NewTransfer, Transfers, TransferStates, ErrorCodes
<1> QED
  BY <1>1

InternalPackets == [dp_Type : InternalTypes \cup {"none"}, dp_Arg1 : FileRef]
IoPackets == [dp_Type : {"none", "WRITE_RETURN", "READ_RETURN"},
              dp_Arg1 : FileRef]
UndefKinds == {"requeue", "resend", "nullftx", "freed"}

\* No action takes a FileTransfer out of the list, so what refers to one goes
\* on doing so: it is enough to look at what an action assigns.
LEMMA TypesKept ==
    ASSUME TypeOK, MsgTypes',
           g_transfers' \in Seq(Transfers), Len(g_transfers') >= Len(g_transfers),
           fh' \in [Clients -> 0 .. Len(g_transfers')],
           outpkt' \in InternalPackets, owed' \in InternalPackets,
           iopkt1' \in IoPackets, ftx' \in FileRef,
           g_busy' \in BOOLEAN, g_running' \in BOOLEAN, dn_Task' \in BOOLEAN,
           exited' \in BOOLEAN, joined' \in BOOLEAN, sreq' \in Requests,
           tftppkt' \in Answers \cup {NoAnswer}, undef' \subseteq UndefKinds
    PROVE  TypeOK'
<1>1. /\ Len(g_transfers) \in Nat /\ Len(g_transfers') \in Nat
      /\ FileRef = 0 .. Len(g_transfers) /\ FileRef' = 0 .. Len(g_transfers')
  BY DEF TypeOK, FileRef
<1>2. \A f \in FileRef : f \in FileRef'
  BY <1>1
<1>3. outpkt' \in InternalPackets' /\ owed' \in InternalPackets'
      /\ iopkt1' \in IoPackets'
  BY <1>2 DEF InternalPackets, IoPackets
<1>4. sreq' \in Requests'
  <2>1. \A x \in Frames : x \in Frames'
    BY <1>2 DEF Frames
  <2> QED
    BY <2>1 DEF Requests
<1>5. fh' \in [Clients -> FileRef'] /\ ftx' \in FileRef'
  BY <1>1, <1>2
<1> QED
  BY <1>3, <1>4, <1>5 DEF TypeOK, MsgTypes, Msgs, InternalPackets, IoPackets,
     UndefKinds

\* An action that sends no internal packet and starts no IO.
LEMMA QuietKeepsPackets ==
    ASSUME TypeOK, PacketsOK, undef' = {},
           outpkt' = outpkt, iopkt1'.dp_Arg1 = iopkt1.dp_Arg1,
           "out" \in ToSet(port') => "out" \in ToSet(port),
           Out({"SEND_NEXT_BUFFER"}) => "out" \in ToSet(port'),
           Pending(sreq') => Pending(sreq),
           DOMAIN g_transfers \subseteq DOMAIN g_transfers',
           \A f \in DOMAIN g_transfers :
              /\ Sending(f)' => g_transfers'[f].ftx_state = g_transfers[f].ftx_state
              /\ g_transfers[f].ftx_buffers # <<>>
                    => g_transfers'[f].ftx_buffers # <<>>,
           \A f \in DOMAIN g_transfers' \ DOMAIN g_transfers : ~Sending(f)',
           owed'.dp_Type \notin BufferPackets,
           (owed'.dp_Type \in DonePackets /\ owed'.dp_Arg1 \in DOMAIN g_transfers')
              => ~Sending(owed.dp_Arg1)'
    PROVE  PacketsOK'
<1>1. BufferPacketOK'
  BY DEF PacketsOK, BufferPacketOK, Out
<1>2. IoPacketOK'
  BY DEF PacketsOK, IoPacketOK, Out
<1>3. DataSentOK'
  BY DEF PacketsOK, DataSentOK, Out, Sending
<1>4. DonePacketOK'
  BY DEF PacketsOK, DonePacketOK, Out, Sending
<1> QED
  BY <1>1, <1>2, <1>3, <1>4 DEF PacketsOK

\* An action that sends an internal packet.
LEMMA SendKeepsPackets ==
    ASSUME NEW p, NEW type, NEW f, SendInternal(p, type, f),
           owed' = NoInternal,
           Pending(sreq') => iopkt1'.dp_Arg1 \in DOMAIN g_transfers',
           type \in BufferPackets =>
              /\ ~Pending(sreq') /\ f \in DOMAIN g_transfers'
              /\ iopkt1'.dp_Arg1 \in DOMAIN g_transfers'
              /\ type # "SEND_NEXT_BUFFER" => g_transfers'[f].ftx_buffers # <<>>,
           \A g \in DOMAIN g_transfers' :
              g_transfers'[g].ftx_state = "S_DATA_SENT" =>
                 \/ g_transfers'[g].ftx_buffers # <<>>
                 \/ type = "SEND_NEXT_BUFFER" /\ g = f,
           type \in DonePackets /\ f \in DOMAIN g_transfers' => ~Sending(f)',
           "out" \in ToSet(port')
    PROVE  PacketsOK'
<1>1. outpkt'.dp_Type = type /\ outpkt'.dp_Arg1 = f
  BY DEF SendInternal
<1>2. BufferPacketOK' /\ IoPacketOK' /\ DataSentOK'
  BY <1>1 DEF BufferPacketOK, IoPacketOK, DataSentOK, Out
<1>3. DonePacketOK'
  BY <1>1 DEF DonePacketOK, Out, Sending, NoInternal, BufferPackets, DonePackets
<1> QED
  BY <1>2, <1>3 DEF PacketsOK

\* A step of the environment, or one that only replies a packet.
LEMMA OtherKeepsFileInv ==
    ASSUME FileInv, MsgInv', undef = {},
           joined' \in BOOLEAN,
           UNCHANGED <<outpkt, owed, iopkt1, g_transfers, ftx, fh, tftppkt,
                       g_busy>>,
           "out" \in ToSet(port') <=> "out" \in ToSet(port),
           sreq' \in Requests, Pending(sreq') => Pending(sreq),
           g_running' \in BOOLEAN, dn_Task' \in BOOLEAN, exited' \in BOOLEAN,
           undef' \subseteq UndefKinds
    PROVE  FileInv'
<1>1. TypeOK /\ PacketsOK /\ MsgTypes'
  BY DEF FileInv, MsgInv
<1>2. /\ g_transfers' \in Seq(Transfers)
      /\ Len(g_transfers') >= Len(g_transfers)
      /\ fh' \in [Clients -> 0 .. Len(g_transfers')]
      /\ outpkt' \in InternalPackets /\ owed' \in InternalPackets
      /\ iopkt1' \in IoPackets /\ ftx' \in FileRef
      /\ g_busy' \in BOOLEAN /\ tftppkt' \in Answers \cup {NoAnswer}
  BY <1>1 DEF TypeOK, InternalPackets, IoPackets, FileRef
<1>3. TypeOK'
  BY <1>1, <1>2, TypesKept
<1>4. ASSUME undef' = {} PROVE PacketsOK'
  <2>1. /\ \A f \in DOMAIN g_transfers :
              Sending(f)' => g_transfers'[f].ftx_state = g_transfers[f].ftx_state
        /\ owed'.dp_Type \notin BufferPackets
        /\ (owed'.dp_Type \in DonePackets /\ owed'.dp_Arg1 \in DOMAIN g_transfers')
              => ~Sending(owed.dp_Arg1)'
    BY <1>1 DEF PacketsOK, DonePacketOK, Sending
  <2> QED
    BY <1>1, <1>4, <2>1, QuietKeepsPackets DEF Out
<1> QED
  BY <1>3, <1>4 DEF FileInv

\* PutMsg() by a client or a device does not touch outpkt.
LEMMA OthersMessage ==
    ASSUME MsgInv, NEW m \in Msgs \ {"out"}, port' = Append(port, m)
    PROVE  "out" \in ToSet(port') <=> "out" \in ToSet(port)
<1>1. port \in Seq(Msgs)
  BY DEF MsgInv, MsgTypes
<1>2. ToSet(Append(port, m)) = ToSet(port) \cup {m}
  BY <1>1, AppendMsg
<1> QED
  BY <1>2

\* Clients, devices and the end of entry() leave files and outpkt alone.
LEMMA EnvironmentKeepsFileInv ==
    ASSUME FileInv, MsgInv, MsgInv', undef = {},
           joined' \in BOOLEAN, Device \/ Client \/ Exit
    PROVE  FileInv'
<1>1. TypeOK
  BY DEF FileInv
<1>2. ASSUME NEW failed \in BOOLEAN, NEW ans \in Answers \cup {BadFrame, NoAnswer},
             SerialReplies(failed, ans)
      PROVE  FileInv'
  <2>1. "out" \in ToSet(port') <=> "out" \in ToSet(port)
    BY <1>2, OthersMessage DEF SerialReplies, Msgs
  <2>2. sreq' \in Requests /\ Pending(sreq)
    BY <1>1, <1>2 DEF SerialReplies, TypeOK, Requests, Pending
  <2> QED
    BY <1>1, <1>2, <2>1, <2>2, OtherKeepsFileInv
    DEF SerialReplies, clientVars, loopVars, TypeOK, UndefKinds
<1>3. CASE TimerFires
  <2>1. "out" \in ToSet(port') <=> "out" \in ToSet(port)
    BY <1>3, OthersMessage DEF TimerFires, Msgs
  <2>2. sreq' \in Requests /\ (Pending(sreq') => Pending(sreq))
    BY <1>1, <1>3 DEF TimerFires, TypeOK
  <2> QED
    BY <1>1, <1>3, <2>1, <2>2, OtherKeepsFileInv
    DEF TimerFires, clientVars, loopVars, TypeOK, UndefKinds
<1>4. ASSUME NEW c \in Clients, NEW type, NEW len, SendPkt(c, type, len)
      PROVE  FileInv'
  <2>1. "out" \in ToSet(port') <=> "out" \in ToSet(port)
    BY <1>4, OthersMessage, ClientsAssumption DEF SendPkt, Msgs
  <2>2. sreq' \in Requests /\ (Pending(sreq') => Pending(sreq))
    BY <1>1, <1>4 DEF SendPkt, ioVars, TypeOK
  <2> QED
    BY <1>1, <1>4, <2>1, <2>2, OtherKeepsFileInv
    DEF SendPkt, ioVars, loopVars, TypeOK, UndefKinds
<1>5. CASE Exit
  <2>1. sreq' \in Requests /\ (Pending(sreq') => Pending(sreq))
    BY <1>1, <1>5 DEF Exit, ioVars, TypeOK
  <2> QED
    BY <1>1, <1>5, <2>1, OtherKeepsFileInv
    DEF Exit, clientVars, ioVars, TypeOK, UndefKinds
<1>6. CASE Device
  BY <1>2, <1>3, <1>6 DEF Device, WriteDone, ReadDone, SerialError, Readable
<1>7. CASE Client
  BY <1>4, <1>7 DEF Client, ClientOpen, ClientWrite, ClientClose,
                    ClientUnmount, ClientOther
<1> QED
  BY <1>5, <1>6, <1>7

\* The loop takes a client's packet: outpkt stays where it is.
LEMMA ClientPacketTaken ==
    ASSUME MsgInv, undef = {}, NEW c \in Clients, GetMsg(c)
    PROVE  /\ "out" \in ToSet(Tail(port)) <=> "out" \in ToSet(port)
           /\ "out" \in ToSet(AbortSerial(Tail(port))) <=> "out" \in ToSet(port)
           /\ owed = NoInternal
<1>1. c \in Msgs /\ c # "out"
  BY ClientsAssumption DEF Msgs
<1>2. ToSet(Tail(port)) = ToSet(port) \ {c}
  BY <1>1, Taken
<1>3. ToSet(Unlink(Tail(port), "sreq")) = ToSet(port) \ {c, "sreq"}
  BY <1>1, TakenUnlinked
<1> QED
  BY <1>1, <1>2, <1>3 DEF AbortSerial, GetMsg

\* do_find_output() adds a file that is not being sent.
LEMMA FindOutputKeepsFileInv ==
    ASSUME FileInv, MsgInv, MsgInv', undef = {},
           joined' \in BOOLEAN, NEW c \in Clients, FindOutput(c)
    PROVE  FileInv'
<1>1. TypeOK /\ PacketsOK /\ MsgTypes' /\ g_transfers \in Seq(Transfers)
  BY DEF FileInv, MsgInv, TypeOK
<1>2. /\ "out" \in ToSet(port') <=> "out" \in ToSet(port)
      /\ UNCHANGED <<outpkt, owed, ftx, undef, iopkt1, sreq, tftppkt, g_busy,
                     g_running, dn_Task, exited>>
  BY ClientPacketTaken DEF FindOutput, ioVars, loopVars
<1>3. /\ g_transfers' \in Seq(Transfers)
      /\ Len(g_transfers') >= Len(g_transfers)
      /\ DOMAIN g_transfers \subseteq DOMAIN g_transfers'
      /\ \A g \in DOMAIN g_transfers : g_transfers'[g] = g_transfers[g]
      /\ \A g \in DOMAIN g_transfers' \ DOMAIN g_transfers :
            g_transfers'[g] = NewTransfer
      /\ fh' \in [Clients -> 0 .. Len(g_transfers')]
  <2>1. CASE UNCHANGED <<g_transfers, fh>>
    BY <1>1, <2>1 DEF TypeOK, FileRef
  <2>2. CASE /\ g_transfers' = Append(g_transfers, NewTransfer)
             /\ fh' = [fh EXCEPT ![c] = Len(g_transfers) + 1]
    <3>1. /\ g_transfers' \in Seq(Transfers)
          /\ Len(g_transfers') = Len(g_transfers) + 1
          /\ \A g \in DOMAIN g_transfers : g_transfers'[g] = g_transfers[g]
          /\ \A g \in DOMAIN g_transfers' \ DOMAIN g_transfers :
                g_transfers'[g] = NewTransfer
      BY <1>1, <2>2, NewTransferAdded
    <3>2. /\ DOMAIN g_transfers \subseteq DOMAIN g_transfers'
          /\ Len(g_transfers) \in Nat
          /\ 0 .. Len(g_transfers) \subseteq 0 .. Len(g_transfers) + 1
          /\ Len(g_transfers) + 1 \in 0 .. Len(g_transfers) + 1
      BY <1>1, <3>1
    <3>3. fh' \in [Clients -> 0 .. Len(g_transfers')]
      BY <1>1, <2>2, <3>1, <3>2 DEF TypeOK, FileRef
    <3> QED
      BY <3>1, <3>2, <3>3
  <2> QED
    BY <2>1, <2>2 DEF FindOutput
<1>4. TypeOK'
  BY <1>1, <1>2, <1>3, TypesKept DEF TypeOK, InternalPackets, IoPackets,
     UndefKinds
<1>5. PacketsOK'
  <2>1. \A g \in DOMAIN g_transfers' \ DOMAIN g_transfers : ~Sending(g)'
    BY <1>3 DEF Sending, NewTransfer
  <2>2. /\ owed'.dp_Type \notin BufferPackets
        /\ owed'.dp_Type \notin DonePackets
    BY <1>2, ClientPacketTaken
    DEF FindOutput, NoInternal, BufferPackets, DonePackets
  <2>3. \A g \in DOMAIN g_transfers :
          /\ Sending(g)' => g_transfers'[g].ftx_state = g_transfers[g].ftx_state
          /\ g_transfers[g].ftx_buffers # <<>> => g_transfers'[g].ftx_buffers # <<>>
    BY <1>3
  <2>4. Pending(sreq') => Pending(sreq)
    BY <1>2
  <2>5. Out({"SEND_NEXT_BUFFER"}) => "out" \in ToSet(port')
    BY <1>2 DEF Out
  <2> QED
    BY <1>1, <1>2, <1>3, <2>1, <2>2, <2>3, <2>4, <2>5, QuietKeepsPackets
<1> QED
  BY <1>4, <1>5 DEF FileInv

\* A client's packet has changed its file f, and outpkt may be sent later.
LEMMA ChangedKeepsFileInv ==
    ASSUME FileInv, MsgInv, MsgInv', undef = {},
           joined' \in BOOLEAN, NEW c \in Clients, GetMsg(c),
           port' = Tail(port), NEW f, NEW state, NEW buffers,
           Updated(g_transfers', g_transfers, f, state, buffers),
           \/ state = g_transfers[f].ftx_state
           \/ state \in {"S_READY", "S_ERROR"},
           f \in DOMAIN g_transfers /\ g_transfers[f].ftx_buffers # <<>>
              => buffers # <<>>,
           UNCHANGED <<outpkt, undef, iopkt1, sreq, tftppkt, g_busy, g_running,
                       dn_Task, exited>>,
           fh' \in [Clients -> FileRef], ftx' \in FileRef,
           owed' \in InternalPackets,
           \/ owed'.dp_Type \in {"none", "SEND_NEXT_FILE"}
           \/ owed'.dp_Type = "FILE_FAILED" /\ owed'.dp_Arg1 = f
              /\ state = "S_ERROR"
    PROVE  FileInv'
<1>1. TypeOK /\ PacketsOK /\ MsgTypes'
  BY DEF FileInv, MsgInv
<1>2. "out" \in ToSet(port') <=> "out" \in ToSet(port)
  BY ClientPacketTaken
<1>3. /\ g_transfers' \in Seq(Transfers)
      /\ Len(g_transfers') = Len(g_transfers) /\ Len(g_transfers) \in Nat
      /\ DOMAIN g_transfers' = DOMAIN g_transfers
      /\ \A g \in DOMAIN g_transfers \ {f} : g_transfers'[g] = g_transfers[g]
      /\ f \in DOMAIN g_transfers => /\ g_transfers'[f].ftx_state = state
                                     /\ g_transfers'[f].ftx_buffers = buffers
  BY <1>1 DEF Updated, TypeOK
<1>4. TypeOK'
  <2>1. fh' \in [Clients -> 0 .. Len(g_transfers')]
    BY <1>3 DEF FileRef
  <2> QED
    BY <1>1, <1>3, <2>1, TypesKept DEF TypeOK, InternalPackets, IoPackets,
       UndefKinds
<1>5. PacketsOK'
  <2>1. \A g \in DOMAIN g_transfers :
          /\ Sending(g)' => g_transfers'[g].ftx_state = g_transfers[g].ftx_state
          /\ g_transfers[g].ftx_buffers # <<>> => g_transfers'[g].ftx_buffers # <<>>
    BY <1>3 DEF Sending
  <2>2. owed'.dp_Type \notin BufferPackets
    BY DEF BufferPackets
  <2>3. (owed'.dp_Type \in DonePackets /\ owed'.dp_Arg1 \in DOMAIN g_transfers')
          => ~Sending(owed.dp_Arg1)'
    BY <1>3 DEF DonePackets, Sending
  <2>4. Pending(sreq') => Pending(sreq)
    OBVIOUS
  <2>5. Out({"SEND_NEXT_BUFFER"}) => "out" \in ToSet(port')
    BY <1>2 DEF Out
  <2> QED
    BY <1>1, <1>2, <1>3, <2>1, <2>2, <2>3, <2>4, <2>5, QuietKeepsPackets
<1> QED
  BY <1>4, <1>5 DEF FileInv

\* do_write() adds a buffer or fails the file of the client.
LEMMA WriteKeepsFileInv ==
    ASSUME FileInv, MsgInv, MsgInv', undef = {},
           joined' \in BOOLEAN, NEW c \in Clients, Write(c)
    PROVE  FileInv'
<1> DEFINE f == fh[c]
           t == g_transfers
<1>1. /\ TypeOK /\ t \in Seq(Transfers) /\ f \in FileRef /\ pkt[c].len \in Nat
      /\ f \in DOMAIN t => t[f] \in Transfers
  <2>1. TypeOK /\ t \in Seq(Transfers) /\ f \in FileRef
    BY DEF FileInv, TypeOK
  <2>2. pkt[c].len \in WriteLens \cup {0}
    BY DEF FileInv, TypeOK
  <2>3. f \in DOMAIN t => t[f] \in Transfers
    BY <2>1
  <2>4. WriteLens \cup {0} \subseteq Nat
    BY SizesAssumption
  <2> QED
    BY <2>1, <2>2, <2>3, <2>4
<1>2. /\ GetMsg(c) /\ port' = Tail(port) /\ owed = NoInternal
      /\ UNCHANGED <<fh, ftx, outpkt, undef, iopkt1, sreq, tftppkt, g_busy,
                     g_running, dn_Task, exited>>
  BY DEF Write, GetMsg, ioVars, loopVars
<1>3. /\ fh' \in [Clients -> FileRef] /\ ftx' \in FileRef
      /\ owed \in InternalPackets
  BY <1>1, <1>2 DEF TypeOK, InternalPackets
<1>4. CASE QueueBuffer(f, pkt[c].len) /\ UNCHANGED owed
  <2> DEFINE b == Append(t[f].ftx_buffers, NewBuffer(t[f].accepted, pkt[c].len))
  <2>1. Updated(g_transfers', t, f, t[f].ftx_state, b)
    BY <1>1, <1>4, QueueUpdates DEF QueueBuffer
  <2>2. f \in DOMAIN t => b # <<>>
    <3>1. f \in DOMAIN t => t[f].ftx_buffers \in Seq(Buffers)
      BY <1>1 DEF Transfers
    <3> QED
      BY <3>1
  <2>3. owed' \in InternalPackets /\ owed'.dp_Type = "none"
    BY <1>2, <1>3, <1>4 DEF NoInternal
  <2> HIDE DEF b, f, t
  <2> QED
    BY <1>2, <1>3, <2>1, <2>2, <2>3, ChangedKeepsFileInv DEF t
<1>5. CASE /\ g_transfers' = Failed(g_transfers, f, "NO_FREE_STORE")
           /\ owed' = [dp_Type |-> "FILE_FAILED", dp_Arg1 |-> f]
  <2>1. Updated(g_transfers', t, f, "S_ERROR", t[f].ftx_buffers)
    BY <1>1, <1>5, FailedUpdates DEF ErrorCodes
  <2>2. /\ owed' \in InternalPackets
        /\ owed'.dp_Type = "FILE_FAILED" /\ owed'.dp_Arg1 = f
    BY <1>1, <1>5 DEF InternalPackets, InternalTypes
  <2> HIDE DEF f, t
  <2> QED
    BY <1>2, <1>3, <2>1, <2>2, ChangedKeepsFileInv DEF t
<1> QED
  BY <1>4, <1>5 DEF Write

\* ACTION_END makes the file ready.
LEMMA EndKeepsFileInv ==
    ASSUME FileInv, MsgInv, MsgInv', undef = {},
           joined' \in BOOLEAN, NEW c \in Clients, End(c)
    PROVE  FileInv'
<1> DEFINE f == fh[c]
           t == g_transfers
<1>1. /\ TypeOK /\ t \in Seq(Transfers) /\ f \in FileRef
      /\ 0 \in FileRef
  BY DEF FileInv, TypeOK, FileRef
<1>2. /\ GetMsg(c) /\ port' = Tail(port)
      /\ UNCHANGED <<outpkt, undef, iopkt1, sreq, tftppkt, g_busy, g_running,
                     dn_Task, exited>>
  BY DEF End, ioVars, loopVars
<1>3. /\ fh' \in [Clients -> FileRef] /\ ftx' \in FileRef
      /\ owed' \in InternalPackets /\ owed'.dp_Type = "SEND_NEXT_FILE"
  BY <1>1 DEF End, TypeOK, InternalPackets, InternalTypes
<1>4. Updated(g_transfers', t, f, "S_READY", t[f].ftx_buffers)
  BY <1>1, StateUpdates DEF End, TransferStates
<1> HIDE DEF f, t
<1> QED
  BY <1>2, <1>3, <1>4, ChangedKeepsFileInv DEF t

\* ACTION_DIE and the actions without an effect on the files.
LEMMA DieKeepsFileInv ==
    ASSUME FileInv, MsgInv, MsgInv', undef = {},
           joined' \in BOOLEAN, NEW c \in Clients,
           Die(c) \/ Other(c)
    PROVE  FileInv'
<1>1. TypeOK /\ GetMsg(c)
  BY DEF FileInv, Die, Other
<1>2. "out" \in ToSet(port') <=> "out" \in ToSet(port)
  BY <1>1, ClientPacketTaken DEF Die, Other, SendNothing
<1>3. IdleReq \in Requests /\ ~Pending(IdleReq)
  BY <1>1 DEF IdleReq, Requests, NoFrame, Frames, FileRef, Pending, TypeOK
<1>4. sreq' \in Requests /\ (Pending(sreq') => Pending(sreq))
  BY <1>1, <1>3 DEF Die, Other, ioVars, TypeOK
<1>5. /\ UNCHANGED <<outpkt, owed, iopkt1, g_transfers, ftx, fh, tftppkt, g_busy>>
      /\ g_running' \in BOOLEAN /\ dn_Task' \in BOOLEAN /\ exited' \in BOOLEAN
      /\ undef' \subseteq UndefKinds
  BY <1>1 DEF Die, Other, SendNothing, ioVars, loopVars, TypeOK, UndefKinds
<1> QED
  BY <1>2, <1>4, <1>5, OtherKeepsFileInv

\* Between two packets about buffers, files being sent have their buffers.
LEMMA BuffersThere ==
    ASSUME FileInv, undef = {}, ~Out({"SEND_NEXT_BUFFER"})
    PROVE  \A g \in DOMAIN g_transfers :
              g_transfers[g].ftx_state = "S_DATA_SENT"
                 => g_transfers[g].ftx_buffers # <<>>
BY DEF FileInv, PacketsOK, DataSentOK

\* An action that changes file f and sends an internal packet.
LEMMA SentKeepsFileInv ==
    ASSUME FileInv, MsgInv', undef = {},
           joined' \in BOOLEAN,
           NEW p \in Seq(Msgs), NEW type \in InternalTypes \cup {"none"},
           NEW arg \in FileRef, SendInternal(p, type, arg), NEW f, NEW state, NEW buffers,
           Updated(g_transfers', g_transfers, f, state, buffers),
           UNCHANGED fh, owed' = NoInternal, iopkt1' \in IoPackets,
           ftx' \in FileRef, g_busy' \in BOOLEAN, g_running' \in BOOLEAN,
           dn_Task' \in BOOLEAN, exited' \in BOOLEAN, sreq' \in Requests,
           tftppkt' \in Answers \cup {NoAnswer}, undef' \subseteq UndefKinds,
           undef' = {} =>
              /\ Pending(sreq') => iopkt1'.dp_Arg1 \in DOMAIN g_transfers
              /\ type \in BufferPackets =>
                    /\ ~Pending(sreq') /\ arg \in DOMAIN g_transfers
                    /\ iopkt1'.dp_Arg1 \in DOMAIN g_transfers
                    /\ type # "SEND_NEXT_BUFFER" => f = arg /\ buffers # <<>>
              /\ \A g \in DOMAIN g_transfers \ {f} :
                    g_transfers[g].ftx_state = "S_DATA_SENT"
                       => g_transfers[g].ftx_buffers # <<>>
              /\ f \in DOMAIN g_transfers /\ state = "S_DATA_SENT" =>
                    \/ buffers # <<>>
                    \/ type = "SEND_NEXT_BUFFER" /\ f = arg
              /\ type \in DonePackets /\ arg \in DOMAIN g_transfers =>
                    f = arg /\ state \notin {"S_WRQ_SENT", "S_DATA_SENT"}
    PROVE  FileInv'
<1>1. TypeOK /\ PacketsOK /\ MsgTypes'
  BY DEF FileInv, MsgInv
<1>2. /\ g_transfers' \in Seq(Transfers)
      /\ Len(g_transfers') = Len(g_transfers) /\ Len(g_transfers) \in Nat
      /\ DOMAIN g_transfers' = DOMAIN g_transfers
      /\ \A g \in DOMAIN g_transfers \ {f} : g_transfers'[g] = g_transfers[g]
      /\ f \in DOMAIN g_transfers => /\ g_transfers'[f].ftx_state = state
                                     /\ g_transfers'[f].ftx_buffers = buffers
  BY <1>1 DEF Updated, TypeOK
<1>3. TypeOK'
  <2>1. fh' \in [Clients -> 0 .. Len(g_transfers')]
    BY <1>1, <1>2 DEF FileRef, TypeOK
  <2>2. outpkt' \in InternalPackets
    BY DEF SendInternal, InternalPackets
  <2>3. owed' \in InternalPackets
    BY <1>2 DEF NoInternal, InternalPackets, FileRef
  <2> QED
    BY <1>1, <1>2, <2>1, <2>2, <2>3, TypesKept
<1>4. ASSUME undef' = {} PROVE PacketsOK'
  <2>1. "out" \in ToSet(port')
    <3>1. "out" \in Msgs /\ port' = Append(p, "out")
      BY DEF Msgs, SendInternal
    <3>2. ToSet(Append(p, "out")) = ToSet(p) \cup {"out"}
      BY <3>1, AppendMsg
    <3> QED
      BY <3>1, <3>2
  <2>2. \A g \in DOMAIN g_transfers' :
           g_transfers'[g].ftx_state = "S_DATA_SENT" =>
              \/ g_transfers'[g].ftx_buffers # <<>>
              \/ type = "SEND_NEXT_BUFFER" /\ g = arg
    BY <1>2, <1>4
  <2>3. type \in DonePackets /\ arg \in DOMAIN g_transfers' => ~Sending(arg)'
    BY <1>2, <1>4 DEF Sending
  <2>4. type \in BufferPackets =>
           /\ ~Pending(sreq') /\ arg \in DOMAIN g_transfers'
           /\ iopkt1'.dp_Arg1 \in DOMAIN g_transfers'
           /\ type # "SEND_NEXT_BUFFER" => g_transfers'[arg].ftx_buffers # <<>>
    BY <1>2, <1>4
  <2>5. Pending(sreq') => iopkt1'.dp_Arg1 \in DOMAIN g_transfers'
    BY <1>2, <1>4
  <2> QED
    BY <2>1, <2>2, <2>3, <2>4, <2>5, SendKeepsPackets
<1> QED
  BY <1>3, <1>4 DEF FileInv

\* The internal packet of ACTION_END or of a failed do_write() is sent.
LEMMA SendOwedKeepsFileInv ==
    ASSUME FileInv, MsgInv, MsgInv', undef = {},
           joined' \in BOOLEAN, SendOwed
    PROVE  FileInv'
<1> DEFINE f == owed.dp_Arg1
           t == g_transfers
<1>1. /\ TypeOK /\ PacketsOK /\ port \in Seq(Msgs) /\ t \in Seq(Transfers)
  BY DEF FileInv, MsgInv, MsgTypes, TypeOK
<1>2. owed.dp_Type \in InternalTypes \cup {"none"} /\ f \in FileRef
  BY <1>1 DEF TypeOK
<1>3. /\ SendInternal(port, owed.dp_Type, f) /\ owed' = NoInternal
      /\ undef' = Requeued(port)
      /\ UNCHANGED <<g_transfers, ftx, fh, iopkt1, sreq, tftppkt, g_busy,
                     g_running, dn_Task, exited>>
  BY DEF SendOwed, clientVars, ioVars, loopVars
<1>4. Updated(g_transfers', t, f, t[f].ftx_state, t[f].ftx_buffers)
  BY <1>1, <1>3 DEF Updated
<1>5. /\ iopkt1' \in IoPackets /\ ftx' \in FileRef /\ g_busy' \in BOOLEAN
      /\ g_running' \in BOOLEAN /\ dn_Task' \in BOOLEAN /\ exited' \in BOOLEAN
      /\ sreq' \in Requests /\ tftppkt' \in Answers \cup {NoAnswer}
      /\ undef' \subseteq UndefKinds
  BY <1>1, <1>3 DEF TypeOK, IoPackets, UndefKinds, Requeued
<1>6. ASSUME undef' = {}
      PROVE  /\ Pending(sreq') => iopkt1'.dp_Arg1 \in DOMAIN t
             /\ owed.dp_Type \notin BufferPackets
             /\ \A g \in DOMAIN t :
                   t[g].ftx_state = "S_DATA_SENT" => t[g].ftx_buffers # <<>>
             /\ owed.dp_Type \in DonePackets /\ f \in DOMAIN t =>
                   t[f].ftx_state \notin {"S_WRQ_SENT", "S_DATA_SENT"}
  <2>1. ~Out({"SEND_NEXT_BUFFER"})
    BY <1>3, <1>6 DEF Requeued, Out
  <2> QED
    BY <1>1, <1>3, <2>1, BuffersThere
    DEF PacketsOK, IoPacketOK, DonePacketOK, Sending
<1> HIDE DEF f, t
<1> QED
  BY <1>1, <1>2, <1>3, <1>4, <1>5, <1>6, SentKeepsFileInv DEF t

\* Two changes of the same member are one.
LEMMA UpdatedTwice ==
    ASSUME NEW t, NEW u, NEW v, NEW f, NEW s1, NEW b1, NEW s2, NEW b2,
           Updated(u, t, f, s1, b1), Updated(v, u, f, s2, b2)
    PROVE  Updated(v, t, f, s2, b2)
BY DEF Updated

\* The new value of the serial request is one.
LEMMA RequestTypes ==
    ASSUME TypeOK
    PROVE  /\ IdleReq \in Requests /\ ReadReq \in Requests
           /\ \A frame \in Frames : WriteReq(frame) \in Requests
           /\ ~Pending(IdleReq) /\ Pending(ReadReq)
<1>1. NoFrame \in Frames
  BY DEF NoFrame, Frames, FileRef, TypeOK
<1> QED
  BY <1>1 DEF IdleReq, ReadReq, WriteReq, Requests, Pending

\* A packet for a file with a buffer is sent, or sending it fails.
LEMMA TransmitKeepsFileInv ==
    ASSUME FileInv, MsgInv, MsgInv', undef = {},
           joined' \in BOOLEAN, GetMsg("out"),
           NEW f \in DOMAIN g_transfers, NEW t, NEW s0, NEW b0,
           Updated(t, g_transfers, f, s0, b0),
           NEW frame \in Frames, NEW state \in {"S_WRQ_SENT", "S_DATA_SENT"},
           NEW busy \in BOOLEAN, Transmit(t, f, frame, state, busy),
           state = "S_DATA_SENT" => b0 # <<>>,
           \A g \in DOMAIN g_transfers \ {f} :
              g_transfers[g].ftx_state = "S_DATA_SENT"
                 => g_transfers[g].ftx_buffers # <<>>,
           iopkt1' \in IoPackets, iopkt1'.dp_Arg1 \in DOMAIN g_transfers,
           ftx' \in FileRef,
           UNCHANGED <<fh, owed, tftppkt, g_running, dn_Task, exited>>
    PROVE  FileInv'
<1>1. /\ TypeOK /\ PacketsOK /\ MsgTypes' /\ g_transfers \in Seq(Transfers)
      /\ owed = NoInternal
  BY DEF FileInv, MsgInv, TypeOK, GetMsg
<1>2. /\ Tail(port) \in Seq(Msgs) /\ "out" \notin ToSet(Tail(port))
  BY Taken DEF Msgs
<1>3. /\ t \in Seq(Transfers) /\ DOMAIN t = DOMAIN g_transfers
      /\ t[f].ftx_buffers = b0 /\ f \in FileRef
  BY <1>1 DEF Updated, FileRef
<1>4. /\ g_running' \in BOOLEAN /\ dn_Task' \in BOOLEAN /\ exited' \in BOOLEAN
      /\ tftppkt' \in Answers \cup {NoAnswer}
  BY <1>1 DEF TypeOK
<1>5. CASE /\ StartIO(WriteReq(frame))
           /\ g_transfers' = [t EXCEPT ![f].ftx_state = state]
           /\ g_busy' = busy /\ SendNothing(Tail(port)) /\ undef' = Resent
  <2>1. Updated(g_transfers', g_transfers, f, state, b0)
    <3>1. Updated(g_transfers', t, f, state, b0)
      BY <1>3, <1>5, StateUpdates DEF TransferStates
    <3> QED
      BY <3>1, UpdatedTwice
  <2>2. /\ g_transfers' \in Seq(Transfers)
        /\ Len(g_transfers') = Len(g_transfers) /\ Len(g_transfers) \in Nat
        /\ DOMAIN g_transfers' = DOMAIN g_transfers
        /\ \A g \in DOMAIN g_transfers \ {f} : g_transfers'[g] = g_transfers[g]
        /\ g_transfers'[f].ftx_state = state /\ g_transfers'[f].ftx_buffers = b0
    BY <1>1, <2>1 DEF Updated
  <2>3. /\ sreq' \in Requests /\ port' = Tail(port) /\ outpkt' = outpkt
        /\ undef' \subseteq UndefKinds
    BY <1>1, <1>5, RequestTypes
    DEF StartIO, SendNothing, Resent, UndefKinds
  <2>4. TypeOK'
    <3>1. fh' \in [Clients -> 0 .. Len(g_transfers')]
      BY <1>1, <2>2 DEF FileRef, TypeOK
    <3>2. outpkt' \in InternalPackets /\ owed' \in InternalPackets
      BY <1>1, <2>3 DEF TypeOK, InternalPackets
    <3> QED
      BY <1>1, <1>4, <1>5, <2>2, <2>3, <3>1, <3>2, TypesKept
  <2>5. BufferPacketOK' /\ IoPacketOK'
    BY <1>2, <2>2, <2>3 DEF BufferPacketOK, IoPacketOK, Out
  <2>6. DataSentOK'
    BY <2>2 DEF DataSentOK
  <2>7. DonePacketOK'
    BY <1>1, <1>2, <2>3 DEF DonePacketOK, Out, NoInternal, BufferPackets,
       DonePackets
  <2> QED
    BY <2>4, <2>5, <2>6, <2>7 DEF FileInv, PacketsOK
<1>6. CASE /\ FailFile(t, f, "NETIO", Tail(port))
           /\ undef' = Requeued(Tail(port)) /\ UNCHANGED <<sreq, treq>>
  <2>1. Updated(g_transfers', g_transfers, f, "S_ERROR", b0)
    <3>1. Updated(g_transfers', t, f, "S_ERROR", b0)
      BY <1>3, <1>6, FailedUpdates DEF FailFile, ErrorCodes
    <3> QED
      BY <3>1, UpdatedTwice
  <2>2. /\ SendInternal(Tail(port), "FILE_FAILED", f) /\ g_busy' \in BOOLEAN
        /\ sreq' \in Requests /\ undef' \subseteq UndefKinds
    BY <1>1, <1>6 DEF FailFile, TypeOK, UndefKinds, Requeued
  <2>3. /\ "FILE_FAILED" \in InternalTypes \cup {"none"}
        /\ "FILE_FAILED" \notin BufferPackets
    BY DEF InternalTypes, BufferPackets
  <2>4. owed' = NoInternal
    BY <1>1
  <2> QED
    BY <1>2, <1>3, <1>4, <2>1, <2>2, <2>3, <2>4, SentKeepsFileInv
<1> QED
  BY <1>5, <1>6 DEF Transmit

\* ACTION_SEND_NEXT_FILE attaches the file it sends to iopkt1.
LEMMA SendNextFileKeepsFileInv ==
    ASSUME FileInv, MsgInv, MsgInv', undef = {},
           joined' \in BOOLEAN, SendNextFile
    PROVE  FileInv'
<1>1. /\ TypeOK /\ PacketsOK /\ GetMsg("out") /\ owed = NoInternal
      /\ outpkt.dp_Type = "SEND_NEXT_FILE"
      /\ UNCHANGED <<fh, owed, tftppkt, g_running, dn_Task, exited>>
  BY DEF FileInv, SendNextFile, Internal, GetMsg, clientVars
<1>2. "out" \notin ToSet(Tail(port)) /\ "out" \in ToSet(port)
  BY <1>1, Taken DEF Msgs
<1>3. /\ ~Out({"SEND_NEXT_BUFFER"})
      /\ \A g \in DOMAIN g_transfers : g_transfers[g].ftx_state = "S_DATA_SENT"
            => g_transfers[g].ftx_buffers # <<>>
  BY <1>1, BuffersThere DEF Out
<1>4. CASE /\ SendNothing(Tail(port)) /\ ftx' \in {ftx, 0}
           /\ UNCHANGED <<g_transfers, g_busy, undef, iopkt1, sreq, treq>>
  <2>1. port' = Tail(port) /\ outpkt' = outpkt
    BY <1>4 DEF SendNothing
  <2>2. TypeOK'
    <3>1. /\ fh' \in [Clients -> 0 .. Len(g_transfers')] /\ ftx' \in FileRef
          /\ outpkt' \in InternalPackets /\ owed' \in InternalPackets
          /\ iopkt1' \in IoPackets /\ undef' \subseteq UndefKinds
          /\ g_transfers' \in Seq(Transfers)
          /\ Len(g_transfers') >= Len(g_transfers)
      BY <1>1, <1>4, <2>1
      DEF TypeOK, FileRef, InternalPackets, IoPackets, UndefKinds
    <3>2. MsgTypes'
      BY DEF MsgInv
    <3> QED
      BY <1>1, <1>4, <3>1, <3>2, TypesKept DEF TypeOK
  <2>3. PacketsOK'
    <3>1. BufferPacketOK' /\ DataSentOK'
      BY <1>2, <1>3, <1>4, <2>1 DEF BufferPacketOK, DataSentOK, Out
    <3>2. IoPacketOK'
      BY <1>1, <1>2, <1>4, <2>1 DEF PacketsOK, IoPacketOK, Out
    <3>3. DonePacketOK'
      BY <1>1, <1>2, <2>1 DEF DonePacketOK, Out, NoInternal, BufferPackets,
         DonePackets
    <3> QED
      BY <3>1, <3>2, <3>3 DEF PacketsOK
  <2> QED
    BY <2>2, <2>3 DEF FileInv
<1>5. ASSUME NEW f \in DOMAIN g_transfers, ftx' = f,
             iopkt1' = [dp_Type |-> "WRITE_RETURN", dp_Arg1 |-> f],
             Transmit(g_transfers, f, WrqFrame(f), "S_WRQ_SENT", TRUE)
      PROVE  FileInv'
  <2>1. f \in FileRef /\ g_transfers \in Seq(Transfers)
    BY <1>1 DEF TypeOK, FileRef
  <2>2. /\ iopkt1' \in IoPackets /\ iopkt1'.dp_Arg1 = f
        /\ WrqFrame(f) \in Frames
    BY <1>5, <2>1 DEF IoPackets, WrqFrame, Frames
  <2>3. Updated(g_transfers, g_transfers, f, g_transfers[f].ftx_state,
                g_transfers[f].ftx_buffers)
    BY <2>1 DEF Updated
  <2> QED
    BY <1>1, <1>3, <1>5, <2>1, <2>2, <2>3, TransmitKeepsFileInv
<1>6. \/ /\ SendNothing(Tail(port)) /\ ftx' \in {ftx, 0}
         /\ UNCHANGED <<g_transfers, g_busy, undef, iopkt1, sreq, treq>>
      \/ \E f \in DOMAIN g_transfers :
           /\ ftx' = f
           /\ iopkt1' = [dp_Type |-> "WRITE_RETURN", dp_Arg1 |-> f]
           /\ Transmit(g_transfers, f, WrqFrame(f), "S_WRQ_SENT", TRUE)
  BY DEF SendNextFile
<1> QED
  BY <1>4, <1>5, <1>6

\* The next block of a file with a buffer, given the list t to send it from.
LEMMA SendBlockKeepsFileInv ==
    ASSUME FileInv, MsgInv, MsgInv', undef = {},
           joined' \in BOOLEAN, GetMsg("out"),
           Out(BufferPackets), NEW f, f = outpkt.dp_Arg1, ftx' = f, NEW t,
           NEW b \in Seq(Buffers), b # <<>>,
           Updated(t, g_transfers, f, g_transfers[f].ftx_state, b),
           SendBlock(t, f),
           UNCHANGED <<fh, owed, tftppkt, g_running, dn_Task, exited>>
    PROVE  FileInv'
<1>1. /\ TypeOK /\ PacketsOK /\ f \in DOMAIN g_transfers
      /\ iopkt1.dp_Arg1 \in DOMAIN g_transfers
      /\ f \in FileRef /\ g_busy \in BOOLEAN /\ g_transfers \in Seq(Transfers)
  BY DEF FileInv, PacketsOK, BufferPacketOK, IoPacketOK, TypeOK, FileRef
<1> DEFINE frame == DataFrame(f, t[f].ftx_blknum, Head(t[f].ftx_buffers))
<1>2. frame \in Frames
  <2>1. t[f] \in Transfers /\ t[f].ftx_buffers = b
    BY <1>1 DEF Updated
  <2>2. Head(b) \in Buffers
    OBVIOUS
  <2>3. t[f].ftx_blknum \in Nat
    BY <2>1 DEF Transfers
  <2>4. t[f].ftx_blknum % BLK_MODULUS \in Nat
    BY <2>3, SizesAssumption
  <2>5. Chunk(Head(b).fb_nbytes_to_send) \in Int
    BY <2>2, ChunkInt DEF Buffers
  <2> QED
    BY <1>1, <2>1, <2>2, <2>4, <2>5 DEF DataFrame, Frames, Buffers
<1>3. /\ iopkt1' \in IoPackets /\ iopkt1'.dp_Arg1 = iopkt1.dp_Arg1
      /\ Transmit(t, f, frame, "S_DATA_SENT", g_busy)
  BY <1>1 DEF SendBlock, TypeOK, IoPackets
<1>4. \A g \in DOMAIN g_transfers \ {f} :
         g_transfers[g].ftx_state = "S_DATA_SENT"
            => g_transfers[g].ftx_buffers # <<>>
  BY <1>1 DEF PacketsOK, DataSentOK
<1> HIDE DEF frame
<1> QED
  BY <1>1, <1>2, <1>3, <1>4, TransmitKeepsFileInv

\* ACTION_SEND_NEXT_BUFFER sends from the head buffer or finishes the file.
LEMMA SendNextBufferKeepsFileInv ==
    ASSUME FileInv, MsgInv, MsgInv', undef = {},
           joined' \in BOOLEAN, SendNextBuffer
    PROVE  FileInv'
<1> DEFINE f == outpkt.dp_Arg1
           t == g_transfers
<1>1. /\ TypeOK /\ PacketsOK /\ GetMsg("out") /\ owed = NoInternal
      /\ outpkt.dp_Type = "SEND_NEXT_BUFFER" /\ ftx' = f
      /\ UNCHANGED <<fh, owed, tftppkt, g_running, dn_Task, exited>>
  BY DEF FileInv, SendNextBuffer, Internal, GetMsg, clientVars
<1>2. /\ "out" \in ToSet(port)
      /\ Tail(port) \in Seq(Msgs)
  BY <1>1, Taken DEF Msgs
<1>3. Out(BufferPackets) /\ Out({"SEND_NEXT_BUFFER"})
  BY <1>1, <1>2 DEF Out, BufferPackets
<1>4. /\ f \in DOMAIN t /\ ~Pending(sreq) /\ t \in Seq(Transfers)
      /\ f \in FileRef
  BY <1>1, <1>3 DEF PacketsOK, BufferPacketOK, TypeOK, FileRef
<1>5. CASE /\ t[f].ftx_buffers # <<>>
           /\ SendBlock([g_transfers EXCEPT ![f].ftx_blknum = @ + 1], f)
  <2>1. t[f].ftx_buffers \in Seq(Buffers)
    <3>1. t[f] \in Transfers
      BY <1>4
    <3> QED
      BY <3>1 DEF Transfers
  <2>2. Updated([t EXCEPT ![f].ftx_blknum = @ + 1], t, f, t[f].ftx_state,
                t[f].ftx_buffers)
    BY <1>4, BlknumUpdates
  <2> DEFINE u == [t EXCEPT ![f].ftx_blknum = @ + 1]
  <2>3. Updated(u, g_transfers, f, g_transfers[f].ftx_state, t[f].ftx_buffers)
        /\ SendBlock(u, f)
    BY <1>5, <2>2
  <2> HIDE DEF u
  <2> QED
    BY <1>1, <1>3, <1>5, <2>1, <2>3, SendBlockKeepsFileInv
<1>6. CASE /\ t[f].ftx_buffers = <<>>
           /\ g_transfers' = [t EXCEPT ![f].ftx_state = "S_FINISHED"]
           /\ g_busy' = FALSE
           /\ SendInternal(Tail(port), "FILE_FINISHED", f)
           /\ undef' = Requeued(Tail(port))
           /\ UNCHANGED <<iopkt1, sreq, treq>>
  <2>1. Updated(g_transfers', t, f, "S_FINISHED", t[f].ftx_buffers)
    BY <1>4, <1>6, StateUpdates DEF TransferStates
  <2>2. \A g \in DOMAIN t \ {f} :
           t[g].ftx_state = "S_DATA_SENT" => t[g].ftx_buffers # <<>>
    BY <1>1 DEF PacketsOK, DataSentOK
  <2>3. /\ iopkt1' \in IoPackets /\ ftx' \in FileRef /\ g_busy' \in BOOLEAN
        /\ g_running' \in BOOLEAN /\ dn_Task' \in BOOLEAN
        /\ exited' \in BOOLEAN /\ sreq' \in Requests
        /\ tftppkt' \in Answers \cup {NoAnswer} /\ undef' \subseteq UndefKinds
    BY <1>1, <1>4, <1>6 DEF TypeOK, IoPackets, UndefKinds, Requeued
  <2>4. /\ "FILE_FINISHED" \in InternalTypes \cup {"none"}
        /\ "FILE_FINISHED" \notin BufferPackets
    BY DEF InternalTypes, BufferPackets
  <2>5. SendInternal(Tail(port), "FILE_FINISHED", f) /\ UNCHANGED fh
        /\ owed' = NoInternal /\ ~Pending(sreq')
    BY <1>1, <1>4, <1>6
  <2> HIDE DEF f
  <2> QED
    BY <1>2, <1>4, <2>1, <2>2, <2>3, <2>4, <2>5, SentKeepsFileInv
<1> QED
  BY <1>5, <1>6 DEF SendNextBuffer

\* ACTION_CONTINUE_BUFFER finds the buffer it continues.
LEMMA ContinueBufferKeepsFileInv ==
    ASSUME FileInv, MsgInv, MsgInv', undef = {},
           joined' \in BOOLEAN, ContinueBuffer
    PROVE  FileInv'
<1> DEFINE f == outpkt.dp_Arg1
           t == g_transfers
<1>1. /\ TypeOK /\ PacketsOK /\ GetMsg("out")
      /\ outpkt.dp_Type = "CONTINUE_BUFFER" /\ ftx' = f
      /\ SendBlock(NextBlock(t, f), f)
      /\ UNCHANGED <<fh, owed, tftppkt, g_running, dn_Task, exited>>
  BY DEF FileInv, ContinueBuffer, Internal, clientVars
<1>2. Out(BufferPackets)
  BY <1>1, Taken DEF Out, BufferPackets, Msgs
<1>3. f \in DOMAIN t /\ t[f].ftx_buffers # <<>> /\ t \in Seq(Transfers)
  BY <1>1, <1>2 DEF PacketsOK, BufferPacketOK, TypeOK
<1>4. PICK b \in Seq(Buffers) :
         b # <<>> /\ Updated(NextBlock(t, f), t, f, t[f].ftx_state, b)
  BY <1>3, NextBlockUpdates
<1> DEFINE u == NextBlock(t, f)
<1> HIDE DEF u
<1> QED
  BY <1>1, <1>2, <1>4, SendBlockKeepsFileInv DEF u

\* Buffers are freed when their file is done, or one by one.
LEMMA FreedKeepsFileInv ==
    ASSUME FileInv, MsgInv, MsgInv', undef = {},
           joined' \in BOOLEAN, FileDone \/ BufferFinished
    PROVE  FileInv'
<1> DEFINE f == outpkt.dp_Arg1
           t == g_transfers
<1>1. /\ TypeOK /\ PacketsOK /\ GetMsg("out") /\ owed = NoInternal
      /\ t \in Seq(Transfers) /\ f \in FileRef /\ 0 \in FileRef
  BY DEF FileInv, FileDone, BufferFinished, Internal, GetMsg, TypeOK, FileRef
<1>2. "out" \in ToSet(port) /\ Tail(port) \in Seq(Msgs)
  BY <1>1, Taken DEF Msgs
<1>3. /\ iopkt1' \in IoPackets /\ ftx' \in FileRef /\ g_busy' \in BOOLEAN
      /\ g_running' \in BOOLEAN /\ dn_Task' \in BOOLEAN
      /\ exited' \in BOOLEAN /\ sreq' \in Requests
      /\ tftppkt' \in Answers \cup {NoAnswer} /\ undef' \subseteq UndefKinds
      /\ UNCHANGED <<fh, iopkt1, sreq>> /\ owed' = NoInternal
  BY <1>1 DEF FileDone, BufferFinished, clientVars, ioVars, loopVars, TypeOK,
     IoPackets, UndefKinds, Requeued
<1>4. CASE FileDone
  <2>1. /\ g_transfers' = [t EXCEPT ![f].ftx_buffers = <<>>]
        /\ SendInternal(Tail(port), "SEND_NEXT_FILE", 0)
        /\ outpkt.dp_Type \in DonePackets
    BY <1>4 DEF FileDone, Internal, DonePackets
  <2>2. Updated(g_transfers', t, f, t[f].ftx_state, <<>>)
    <3>1. <<>> \in Seq(Buffers)
      OBVIOUS
    <3>2. Updated([t EXCEPT ![f].ftx_buffers = <<>>], t, f, t[f].ftx_state, <<>>)
      <4> HIDE DEF f
      <4> QED
        BY <1>1, <3>1, BuffersUpdate
    <3> QED
      BY <2>1, <3>2
  <2>3. f \in DOMAIN t => t[f].ftx_state # "S_DATA_SENT"
    BY <1>1, <1>2, <2>1 DEF PacketsOK, DonePacketOK, Out, Sending
  <2>4. \A g \in DOMAIN t : t[g].ftx_state = "S_DATA_SENT"
                               => t[g].ftx_buffers # <<>>
    BY <2>1, BuffersThere DEF Out, DonePackets
  <2>5. Pending(sreq') => iopkt1'.dp_Arg1 \in DOMAIN t
    BY <1>1, <1>3 DEF PacketsOK, IoPacketOK
  <2>6. /\ "SEND_NEXT_FILE" \in InternalTypes \cup {"none"}
        /\ "SEND_NEXT_FILE" \notin BufferPackets \cup DonePackets
    BY DEF InternalTypes, BufferPackets, DonePackets
  <2> HIDE DEF f
  <2> QED
    BY <1>1, <1>2, <1>3, <2>1, <2>2, <2>3, <2>4, <2>5, <2>6, SentKeepsFileInv
<1>5. CASE BufferFinished
  <2>1. /\ g_transfers' = [t EXCEPT ![f].ftx_buffers = Tail(@)]
        /\ SendInternal(Tail(port), "SEND_NEXT_BUFFER", f)
        /\ outpkt.dp_Type = "BUFFER_FINISHED"
    BY <1>5 DEF BufferFinished, Internal
  <2>2. /\ f \in DOMAIN t /\ t[f].ftx_buffers # <<>>
        /\ ~Pending(sreq) /\ iopkt1.dp_Arg1 \in DOMAIN t
    BY <1>1, <1>2, <2>1
    DEF PacketsOK, BufferPacketOK, IoPacketOK, Out, BufferPackets
  <2>3. Tail(t[f].ftx_buffers) \in Seq(Buffers)
    <3>1. t[f] \in Transfers
      BY <1>1, <2>2
    <3>2. t[f].ftx_buffers \in Seq(Buffers)
      BY <3>1 DEF Transfers
    <3> QED
      BY <2>2, <3>2
  <2> DEFINE b == Tail(t[f].ftx_buffers)
  <2>4. g_transfers' = [t EXCEPT ![f].ftx_buffers = b]
    BY <2>1
  <2>5. Updated(g_transfers', t, f, t[f].ftx_state, b)
    <3> HIDE DEF b
    <3> QED
      BY <1>1, <2>3, <2>4, BuffersUpdate DEF b
  <2>6. \A g \in DOMAIN t : t[g].ftx_state = "S_DATA_SENT"
                               => t[g].ftx_buffers # <<>>
    BY <2>1, BuffersThere DEF Out
  <2>7. /\ "SEND_NEXT_BUFFER" \in InternalTypes \cup {"none"}
        /\ "SEND_NEXT_BUFFER" \notin DonePackets
    BY DEF InternalTypes, DonePackets
  <2>8. ~Pending(sreq') /\ iopkt1'.dp_Arg1 \in DOMAIN t
    BY <1>3, <2>2
  <2> HIDE DEF f, b
  <2> QED
    BY <1>1, <1>2, <1>3, <2>1, <2>2, <2>5, <2>6, <2>7, <2>8, SentKeepsFileInv
<1> QED
  BY <1>4, <1>5

\* A completed request: what is taken out of the port, and what is not.
LEMMA Completed ==
    ASSUME FileInv, MsgInv, undef = {}, GetMsg("sreq")
    PROVE  LET p == StopTimer(Tail(port)) IN
           /\ p \in Seq(Msgs)
           /\ "out" \in ToSet(p) <=> "out" \in ToSet(port)
           /\ Pending(sreq) /\ CheckIO /\ owed = NoInternal
           /\ iopkt1.dp_Arg1 \in DOMAIN g_transfers
           /\ ~Out(BufferPackets)
<1>1. "sreq" \in Msgs
  BY DEF Msgs
<1>2. /\ Unlink(Tail(port), "treq") \in Seq(Msgs)
      /\ ToSet(Unlink(Tail(port), "treq")) = ToSet(port) \ {"sreq", "treq"}
  BY <1>1, TakenUnlinked
<1>3. sreq.st = "replied"
  BY <1>1, Taken DEF MsgInv, MessagesOnce
<1>4. Pending(sreq) /\ CheckIO /\ owed = NoInternal
  BY <1>3 DEF Pending, CheckIO, GetMsg
<1>5. iopkt1.dp_Arg1 \in DOMAIN g_transfers /\ ~Out(BufferPackets)
  BY <1>4 DEF FileInv, PacketsOK, IoPacketOK, BufferPacketOK
<1> QED
  BY <1>2, <1>4, <1>5 DEF StopTimer

\* A completion or a timeout that fails file f.
LEMMA FailKeepsFileInv ==
    ASSUME FileInv, MsgInv', undef = {},
           joined' \in BOOLEAN, NEW p \in Seq(Msgs),
           "out" \in ToSet(port) => "out" \in ToSet(p),
           NEW f \in FileRef, NEW err \in ErrorCodes,
           FailFile(g_transfers, f, err, p), Requeued(p) \subseteq undef',
           undef' \subseteq UndefKinds,
           UNCHANGED <<fh, ftx, dn_Task, exited>>, owed' = NoInternal,
           iopkt1' \in IoPackets, sreq' \in Requests, g_running' \in BOOLEAN,
           tftppkt' \in Answers \cup {NoAnswer},
           undef' = {} /\ Pending(sreq') => iopkt1'.dp_Arg1 \in DOMAIN g_transfers
    PROVE  FileInv'
<1>1. TypeOK /\ g_transfers \in Seq(Transfers)
  BY DEF FileInv, TypeOK
<1>2. /\ SendInternal(p, "FILE_FAILED", f) /\ g_busy' \in BOOLEAN
      /\ ftx' \in FileRef /\ dn_Task' \in BOOLEAN /\ exited' \in BOOLEAN
  BY <1>1 DEF FailFile, TypeOK
<1>3. Updated(g_transfers', g_transfers, f, "S_ERROR", g_transfers[f].ftx_buffers)
  BY <1>1, FailedUpdates DEF FailFile
<1>4. undef' = {} => \A g \in DOMAIN g_transfers :
                        g_transfers[g].ftx_state = "S_DATA_SENT"
                           => g_transfers[g].ftx_buffers # <<>>
  BY BuffersThere DEF Requeued, Out
<1>5. /\ "FILE_FAILED" \in InternalTypes \cup {"none"}
      /\ "FILE_FAILED" \notin BufferPackets
  BY DEF InternalTypes, BufferPackets
<1> QED
  BY <1>2, <1>3, <1>4, <1>5, SentKeepsFileInv

\* A completion after which nothing is sent.
LEMMA SilentKeepsFileInv ==
    ASSUME FileInv, MsgInv', undef = {},
           joined' \in BOOLEAN, UNCHANGED <<outpkt, g_transfers>>,
           "out" \in ToSet(port') <=> "out" \in ToSet(port),
           UNCHANGED <<fh, ftx, owed, dn_Task, exited>>, owed = NoInternal,
           iopkt1' \in IoPackets, iopkt1'.dp_Arg1 = iopkt1.dp_Arg1,
           sreq' \in Requests, Pending(sreq') => Pending(sreq),
           g_busy' \in BOOLEAN, g_running' \in BOOLEAN,
           tftppkt' \in Answers \cup {NoAnswer}, undef' \subseteq UndefKinds
    PROVE  FileInv'
<1>1. TypeOK /\ PacketsOK /\ MsgTypes'
  BY DEF FileInv, MsgInv
<1>2. TypeOK'
  <2>1. /\ fh' \in [Clients -> 0 .. Len(g_transfers')] /\ ftx' \in FileRef
        /\ outpkt' \in InternalPackets /\ owed' \in InternalPackets
        /\ dn_Task' \in BOOLEAN /\ exited' \in BOOLEAN
        /\ g_transfers' \in Seq(Transfers)
        /\ Len(g_transfers') >= Len(g_transfers)
    BY <1>1 DEF TypeOK, FileRef, InternalPackets
  <2> QED
    BY <1>1, <2>1, TypesKept
<1>3. ASSUME undef' = {} PROVE PacketsOK'
  <2>1. /\ owed'.dp_Type \notin BufferPackets
        /\ owed'.dp_Type \notin DonePackets
    BY DEF NoInternal, BufferPackets, DonePackets
  <2>2. \A g \in DOMAIN g_transfers :
           Sending(g)' => g_transfers'[g].ftx_state = g_transfers[g].ftx_state
    OBVIOUS
  <2>3. Out({"SEND_NEXT_BUFFER"}) => "out" \in ToSet(port')
    BY DEF Out
  <2> QED
    BY <1>1, <1>3, <2>1, <2>2, <2>3, QuietKeepsPackets
<1> QED
  BY <1>2, <1>3 DEF FileInv

\* do_write_return() leaves the buffers alone.
LEMMA WriteReturnKeepsFileInv ==
    ASSUME FileInv, MsgInv, MsgInv', undef = {},
           joined' \in BOOLEAN, WriteReturn
    PROVE  FileInv'
<1> DEFINE f == iopkt1.dp_Arg1
           p == StopTimer(Tail(port))
<1>1. TypeOK /\ GetMsg("sreq")
  BY DEF FileInv, WriteReturn
<1>2. /\ p \in Seq(Msgs) /\ Pending(sreq) /\ CheckIO /\ owed = NoInternal
      /\ "out" \in ToSet(p) <=> "out" \in ToSet(port)
      /\ f \in DOMAIN g_transfers
  BY <1>1, Completed
<1>3. /\ iopkt1' \in IoPackets /\ iopkt1'.dp_Arg1 = f
      /\ UNCHANGED <<fh, ftx, owed, tftppkt, dn_Task, exited>>
      /\ g_running' \in BOOLEAN /\ f \in FileRef
      /\ tftppkt' \in Answers \cup {NoAnswer}
  BY <1>1 DEF WriteReturn, TypeOK, IoPackets, clientVars, CheckIO
<1>4. /\ IdleReq \in Requests /\ ReadReq \in Requests
      /\ {"SERIAL", "NETIO"} \subseteq ErrorCodes
  BY <1>1, RequestTypes DEF ErrorCodes
<1>5. CASE StartIO(ReadReq) /\ FailFile(g_transfers, f, "SERIAL", p)
           /\ undef' = Requeued(p)
  <2>1. sreq' \in Requests /\ undef' \subseteq UndefKinds
    BY <1>4, <1>5 DEF StartIO, UndefKinds, Requeued
  <2> HIDE DEF f, p
  <2> QED
    BY <1>2, <1>3, <1>4, <1>5, <2>1, FailKeepsFileInv
<1>6. CASE /\ StartIO(ReadReq) /\ g_busy' = (g_busy /\ CheckIO)
           /\ SendNothing(p) /\ undef' = (IF CheckIO THEN {} ELSE {"resend"})
           /\ UNCHANGED g_transfers
  <2>1. sreq' \in Requests /\ g_busy' \in BOOLEAN /\ undef' = {}
    BY <1>2, <1>4, <1>6 DEF StartIO
  <2>2. UNCHANGED outpkt /\ port' = p
    BY <1>6 DEF SendNothing
  <2> HIDE DEF f, p
  <2> QED
    BY <1>2, <1>3, <1>6, <2>1, <2>2, SilentKeepsFileInv DEF f
<1>7. CASE /\ FailFile(g_transfers, f, "NETIO", p) /\ sreq' = IdleReq
           /\ undef' = Requeued(p) \cup (IF sreq.failed THEN {"requeue"} ELSE {})
  <2>1. /\ sreq' \in Requests /\ undef' \subseteq UndefKinds
        /\ Requeued(p) \subseteq undef'
    BY <1>4, <1>7 DEF UndefKinds, Requeued
  <2> HIDE DEF f, p
  <2> QED
    BY <1>2, <1>3, <1>4, <1>7, <2>1, FailKeepsFileInv
<1> QED
  BY <1>5, <1>6, <1>7 DEF WriteReturn

\* An answer moves on only a file whose buffer is there.
LEMMA AnsweredKeepsFileInv ==
    ASSUME FileInv, MsgInv, MsgInv', undef = {},
           joined' \in BOOLEAN, GetMsg("sreq"),
           NEW f, f = iopkt1.dp_Arg1, NEW p, p = StopTimer(Tail(port)),
           NEW a, Answered(f, a, p), sreq' = IdleReq,
           tftppkt' \in Answers \cup {NoAnswer},
           UNCHANGED <<fh, owed, ftx, iopkt1, dn_Task, exited>>
    PROVE  FileInv'
<1>1. TypeOK /\ PacketsOK /\ g_transfers \in Seq(Transfers)
  BY DEF FileInv, TypeOK
<1>2. /\ p \in Seq(Msgs) /\ Pending(sreq) /\ CheckIO /\ owed = NoInternal
      /\ "out" \in ToSet(p) <=> "out" \in ToSet(port)
      /\ f \in DOMAIN g_transfers /\ ~Out(BufferPackets)
  BY Completed
<1>3. /\ f \in FileRef /\ iopkt1' \in IoPackets
      /\ sreq' \in Requests /\ ~Pending(sreq')
      /\ ftx' \in FileRef /\ dn_Task' \in BOOLEAN /\ exited' \in BOOLEAN
      /\ undef' = Requeued(p) /\ undef' \subseteq UndefKinds
  BY <1>1, RequestTypes
  DEF TypeOK, IoPackets, Answered, UndefKinds, Requeued
<1>4. \A g \in DOMAIN g_transfers : g_transfers[g].ftx_state = "S_DATA_SENT"
         => g_transfers[g].ftx_buffers # <<>>
  BY <1>2, BuffersThere DEF Out, BufferPackets
<1>5. CASE AckRequest(f, p)
  <2>1. /\ SendInternal(p, "SEND_NEXT_BUFFER", f)
        /\ g_running' \in BOOLEAN /\ g_busy' \in BOOLEAN
        /\ UNCHANGED g_transfers
    BY <1>1, <1>5 DEF AckRequest, TypeOK, CheckIO
  <2>2. Updated(g_transfers', g_transfers, f, g_transfers[f].ftx_state,
                g_transfers[f].ftx_buffers)
    BY <1>1, <2>1 DEF Updated
  <2>3. /\ "SEND_NEXT_BUFFER" \in InternalTypes \cup {"none"}
        /\ "SEND_NEXT_BUFFER" \notin DonePackets
    BY DEF InternalTypes, DonePackets
  <2> QED
    BY <1>2, <1>3, <1>4, <2>1, <2>2, <2>3, SentKeepsFileInv
<1>6. CASE AckData(f, a.blk, p)
  <2> DEFINE type == AfterBlock(Head(Acknowledged(f)[f].ftx_buffers))
  <2>1. /\ SendInternal(p, type, f) /\ g_transfers' = Acknowledged(f)
        /\ g_running' \in BOOLEAN /\ g_busy' \in BOOLEAN
        /\ g_transfers[f].ftx_state = "S_DATA_SENT"
    BY <1>1, <1>6 DEF AckData, TypeOK, CheckIO
  <2>2. PICK b \in Seq(Buffers) :
           /\ b # <<>>
           /\ Updated(Acknowledged(f), g_transfers, f,
                      g_transfers[f].ftx_state, b)
    BY <1>1, <1>2, <1>4, <2>1, AcknowledgedUpdates
  <2>3. Updated(g_transfers', g_transfers, f, g_transfers[f].ftx_state, b)
    BY <2>1, <2>2
  <2>4. type \in InternalTypes \cup {"none"} /\ type \notin DonePackets
    BY DEF AfterBlock, InternalTypes, DonePackets
  <2> HIDE DEF type
  <2> QED
    BY <1>2, <1>3, <1>4, <2>1, <2>2, <2>3, <2>4, SentKeepsFileInv
<1>7. CASE AckWrongBlock(f, a.blk, p)
  <2>1. /\ FailFile(g_transfers, f, "TFTP_WRONG_BLOCK_NUM", p)
        /\ g_running' \in BOOLEAN
        /\ "TFTP_WRONG_BLOCK_NUM" \in ErrorCodes
    BY <1>7 DEF AckWrongBlock, CheckIO, ErrorCodes
  <2> QED
    BY <1>2, <1>3, <2>1, FailKeepsFileInv
<1>8. CASE AckWrongState(f, p)
  <2>1. /\ g_running' \in BOOLEAN /\ g_busy' \in BOOLEAN /\ port' = p
        /\ UNCHANGED <<g_transfers, outpkt>>
    BY <1>8 DEF AckWrongState, SendNothing
  <2> QED
    BY <1>2, <1>3, <2>1, SilentKeepsFileInv
<1>9. CASE FailFile(g_transfers, f, ErrorOf(a.op), p) /\ g_running' = CheckIO
  <2>1. ErrorOf(a.op) \in ErrorCodes /\ g_running' \in BOOLEAN
    BY <1>9 DEF ErrorOf, ErrorCodes, CheckIO
  <2> QED
    BY <1>2, <1>3, <1>9, <2>1, FailKeepsFileInv
<1> QED
  BY <1>5, <1>6, <1>7, <1>8, <1>9 DEF Answered

\* do_read_return(), whether or not there is an answer.
LEMMA ReadReturnKeepsFileInv ==
    ASSUME FileInv, MsgInv, MsgInv', undef = {},
           joined' \in BOOLEAN, ReadReturn
    PROVE  FileInv'
<1> DEFINE f == iopkt1.dp_Arg1
           p == StopTimer(Tail(port))
<1>1. /\ TypeOK /\ GetMsg("sreq") /\ sreq' = IdleReq
      /\ UNCHANGED <<fh, owed, ftx, iopkt1, dn_Task, exited>>
  BY DEF FileInv, ReadReturn, clientVars
<1>2. PICK a \in Extracted :
         tftppkt' = a /\ (Answered(f, a, p) \/ AnswerFailed(f, a, p))
  BY DEF ReadReturn
<1>3. a \in Answers \cup {NoAnswer}
  BY <1>1, <1>2 DEF Extracted, TypeOK, Requests
<1>4. CASE Answered(f, a, p)
  <2> HIDE DEF f, p
  <2> QED
    BY <1>1, <1>2, <1>3, <1>4, AnsweredKeepsFileInv DEF f, p
<1>5. CASE AnswerFailed(f, a, p)
  <2>1. /\ p \in Seq(Msgs) /\ owed = NoInternal
        /\ "out" \in ToSet(p) <=> "out" \in ToSet(port)
    BY <1>1, Completed
  <2>2. /\ f \in FileRef /\ iopkt1' \in IoPackets
        /\ sreq' \in Requests /\ ~Pending(sreq')
    BY <1>1, RequestTypes DEF TypeOK, IoPackets
  <2>3. /\ Requeued(p) \subseteq undef' /\ undef' \subseteq UndefKinds
        /\ g_running' \in BOOLEAN
    BY <1>5 DEF AnswerFailed, UndefKinds, Requeued
  <2>4. \E err \in ErrorCodes : FailFile(g_transfers, f, err, p)
    BY <1>5 DEF AnswerFailed, ErrorOf, ErrorCodes
  <2> HIDE DEF f, p
  <2> QED
    BY <1>1, <1>2, <1>3, <2>1, <2>2, <2>3, <2>4, FailKeepsFileInv
<1> QED
  BY <1>2, <1>4, <1>5

\* A timeout fails the file in ftx, whichever that is.
LEMMA TimerExpiredKeepsFileInv ==
    ASSUME FileInv, MsgInv, MsgInv', undef = {},
           joined' \in BOOLEAN, TimerExpired
    PROVE  FileInv'
<1> DEFINE p == AbortSerial(Tail(port))
<1>1. /\ TypeOK /\ GetMsg("treq") /\ sreq' = IdleReq /\ owed = NoInternal
      /\ UNCHANGED <<fh, owed, ftx, iopkt1, tftppkt, g_running, dn_Task, exited>>
      /\ FailFile(g_transfers, ftx, "IO_TIMEOUT", p)
  BY DEF FileInv, TimerExpired, clientVars, GetMsg
<1>2. /\ p \in Seq(Msgs)
      /\ "out" \in ToSet(p) <=> "out" \in ToSet(port)
  <2>1. /\ Unlink(Tail(port), "sreq") \in Seq(Msgs)
        /\ ToSet(Unlink(Tail(port), "sreq")) = ToSet(port) \ {"treq", "sreq"}
    BY <1>1, TakenUnlinked DEF Msgs
  <2> QED
    BY <2>1 DEF AbortSerial
<1>3. /\ ftx \in FileRef /\ iopkt1' \in IoPackets
      /\ sreq' \in Requests /\ ~Pending(sreq') /\ g_running' \in BOOLEAN
      /\ tftppkt' \in Answers \cup {NoAnswer}
      /\ "IO_TIMEOUT" \in ErrorCodes
  BY <1>1, RequestTypes DEF TypeOK, IoPackets, ErrorCodes
<1>4. Requeued(p) \subseteq undef' /\ undef' \subseteq UndefKinds
  BY DEF TimerExpired, UndefKinds, Requeued
<1> HIDE DEF p
<1> QED
  BY <1>1, <1>2, <1>3, <1>4, FailKeepsFileInv

\* No file and no packet when the loop is entered.
LEMMA InitFileInv == Init => FileInv
<1> SUFFICES ASSUME Init PROVE FileInv
  OBVIOUS
<1>1. FileRef = {0} /\ g_transfers = <<>> /\ DOMAIN g_transfers = {}
  BY DEF Init, FileRef
<1>2. NoFrame \in Frames
  BY <1>1 DEF NoFrame, Frames
<1>3. sreq \in Requests
  BY <1>2 DEF Init, IdleReq, Requests
<1>4. TypeOK
  <2>1. /\ port \in Seq(Clients \cup {"out", "sreq", "treq"})
        /\ g_transfers \in Seq(Transfers) /\ ftx \in FileRef
    BY <1>1 DEF Init
  <2>2. /\ pkt \in [Clients -> [dp_Type : PacketTypes \cup {"none"},
                                len : WriteLens \cup {0}]]
        /\ fh \in [Clients -> FileRef]
    BY <1>1 DEF Init, NoPacket
  <2>3. /\ outpkt \in [dp_Type : InternalTypes \cup {"none"}, dp_Arg1 : FileRef]
        /\ owed \in [dp_Type : InternalTypes \cup {"none"}, dp_Arg1 : FileRef]
        /\ iopkt1 \in [dp_Type : {"none", "WRITE_RETURN", "READ_RETURN"},
                       dp_Arg1 : FileRef]
    BY <1>1 DEF Init, NoInternal
  <2> QED
    BY <1>3, <2>1, <2>2, <2>3 DEF Init, TypeOK
<1>5. ToSet(port) = {}
  BY DEF Init, ToSet
<1>6. PacketsOK
  BY <1>1, <1>5 DEF Init, PacketsOK, BufferPacketOK, IoPacketOK, DataSentOK,
     DonePacketOK, Out, Pending, IdleReq, NoInternal, BufferPackets, DonePackets
<1> QED
  BY <1>4, <1>6 DEF FileInv

\* Every step keeps the invariant, given that messages are unique.
\* The history variable.
LEMMA StepJoined ==
    ASSUME joined \in BOOLEAN, Next
    PROVE  joined' \in BOOLEAN
<1>1. CASE \/ \E c \in Clients :
                 FindOutput(c) \/ Write(c) \/ End(c) \/ Die(c) \/ Other(c)
           \/ SendOwed \/ SendNextFile \/ SendNextBuffer \/ ContinueBuffer
  BY <1>1 DEF FindOutput, Write, End, Die, Other, SendOwed, SendNextFile,
     SendNextBuffer, ContinueBuffer, clientVars
<1>2. CASE \/ FileDone \/ BufferFinished \/ WriteReturn \/ ReadReturn
           \/ TimerExpired \/ Exit
  BY <1>2 DEF FileDone, BufferFinished, WriteReturn, ReadReturn, TimerExpired,
     Exit, clientVars
<1>3. CASE Device \/ Client
  BY <1>3 DEF Device, Client, WriteDone, ReadDone, SerialError, SerialReplies,
     TimerFires, ClientOpen, ClientWrite, ClientClose, ClientUnmount,
     ClientOther, SendPkt, clientVars
<1> QED
  BY <1>1, <1>2, <1>3 DEF Next, Handle

LEMMA StepFileInv == FileInv /\ MsgInv /\ MsgInv' /\ [Next]_vars => FileInv'
<1> SUFFICES ASSUME FileInv, MsgInv, MsgInv', [Next]_vars PROVE FileInv'
  OBVIOUS
<1>1. CASE UNCHANGED vars
  <2>1. TypeOK'
    BY <1>1 DEF vars, clientVars, ioVars, loopVars, FileInv, TypeOK, FileRef,
       Requests, Frames
  <2>2. undef' = {} => PacketsOK'
    BY <1>1 DEF vars, clientVars, ioVars, loopVars, FileInv, PacketsOK,
       BufferPacketOK, IoPacketOK, DataSentOK, DonePacketOK, Out, Sending
  <2> QED
    BY <2>1, <2>2 DEF FileInv
<1>2. CASE Next
  <2>1. undef = {} /\ (Handle \/ Device \/ Client) /\ joined' \in BOOLEAN
    BY <1>2, StepJoined DEF Next, FileInv, TypeOK
  <2>2. ASSUME NEW c \in Clients,
               FindOutput(c) \/ Write(c) \/ End(c) \/ Die(c) \/ Other(c)
        PROVE  FileInv'
    BY <2>1, <2>2, FindOutputKeepsFileInv, WriteKeepsFileInv, EndKeepsFileInv,
       DieKeepsFileInv
  <2>3. CASE SendOwed
    BY <2>1, <2>3, SendOwedKeepsFileInv
  <2>4. CASE SendNextFile
    BY <2>1, <2>4, SendNextFileKeepsFileInv
  <2>5. CASE SendNextBuffer
    BY <2>1, <2>5, SendNextBufferKeepsFileInv
  <2>6. CASE ContinueBuffer
    BY <2>1, <2>6, ContinueBufferKeepsFileInv
  <2>7. CASE FileDone \/ BufferFinished
    BY <2>1, <2>7, FreedKeepsFileInv
  <2>8. CASE WriteReturn
    BY <2>1, <2>8, WriteReturnKeepsFileInv
  <2>9. CASE ReadReturn
    BY <2>1, <2>9, ReadReturnKeepsFileInv
  <2>10. CASE TimerExpired
    BY <2>1, <2>10, TimerExpiredKeepsFileInv
  <2>11. CASE Exit \/ Device \/ Client
    BY <2>1, <2>11, EnvironmentKeepsFileInv
  <2> QED
    BY <2>1, <2>2, <2>3, <2>4, <2>5, <2>6, <2>7, <2>8, <2>9, <2>10, <2>11
    DEF Handle
<1> QED
  BY <1>1, <1>2

\* Both invariants hold in every state.
LEMMA SpecFileInv == Spec => []FileInv
<1>1. Init => MsgInv /\ FileInv
  BY InitMsgInv, InitFileInv
<1>2. (MsgInv /\ FileInv) /\ [Next]_vars => (MsgInv /\ FileInv)'
  BY StepMsgInv, StepFileInv
<1> QED
  BY <1>1, <1>2, PTL DEF Spec

\* Every variable keeps its type.  That ftx_buffers is never followed into
\* an empty list is part of it: what such a step stores has no type.
THEOREM TypesAreKept == Spec => []TypeOK
BY SpecFileInv, PTL DEF FileInv

\* Whenever a block is to be continued, freed or acknowledged there is a
\* buffer it belongs to.
THEOREM BuffersArePresent == Spec => []BufferPresent
<1>1. FileInv => BufferPresent
  <2> SUFFICES ASSUME FileInv, undef = {}
               PROVE  /\ Out({"CONTINUE_BUFFER", "BUFFER_FINISHED"})
                            => g_transfers[outpkt.dp_Arg1].ftx_buffers # <<>>
                      /\ (Pending(sreq) /\ g_transfers[iopkt1.dp_Arg1].ftx_state
                                              = "S_DATA_SENT")
                            => g_transfers[iopkt1.dp_Arg1].ftx_buffers # <<>>
    BY DEF BufferPresent, Out
  <2>1. PacketsOK
    BY DEF FileInv
  <2>2. Out({"CONTINUE_BUFFER", "BUFFER_FINISHED"})
           => g_transfers[outpkt.dp_Arg1].ftx_buffers # <<>>
    BY <2>1 DEF PacketsOK, BufferPacketOK, Out, BufferPackets
  <2>3. ASSUME Pending(sreq),
               g_transfers[iopkt1.dp_Arg1].ftx_state = "S_DATA_SENT"
        PROVE  g_transfers[iopkt1.dp_Arg1].ftx_buffers # <<>>
    BY <2>1, <2>3 DEF PacketsOK, BufferPacketOK, IoPacketOK, DataSentOK, Out,
       BufferPackets
  <2> QED
    BY <2>2, <2>3
<1> QED
  BY <1>1, SpecFileInv, PTL
=============================================================================
