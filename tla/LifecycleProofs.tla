--------------------------- MODULE LifecycleProofs ---------------------------
(****************************************************************************)
(* Proofs about Lifecycle: whatever fails while it starts, the handler      *)
(* returns without a resource; and for any delays with                      *)
(* HANDLER_DELAY + MaxLag < UNMOUNT_DELAY its code is unloaded only then.   *)
(****************************************************************************)
EXTENDS Lifecycle, SequenceTheorems, TLAPS

------------------------------------------------------------------------------
(* The invariants *)

Resources == {"logport", "logfh", "sreq", "treq", "serial", "timer", "tftppkt"}

\* What is still to be released, wherever the clean-up was entered: each label
\* of the code starts a suffix of the longest list.
Suffixes == {<<>>, <<"logport">>, <<"logfh", "logport">>,
             <<"sreq", "logfh", "logport">>,
             <<"treq", "sreq", "logfh", "logport">>,
             <<"serial", "treq", "sreq", "logfh", "logport">>,
             <<"timer", "serial", "treq", "sreq", "logfh", "logport">>,
             <<"tftppkt", "timer", "serial", "treq", "sreq", "logfh", "logport">>}

\* What is held at each place of entry() before the clean-up.
HeldAt(here) ==
    CASE here = "logfh"   -> {"logport"}
      [] here = "sreq"    -> {"logport", "logfh"}
      [] here = "treq"    -> {"logport", "logfh", "sreq"}
      [] here = "serial"  -> {"logport", "logfh", "sreq", "treq"}
      [] here = "params"  -> {"logport", "logfh", "sreq", "treq", "serial"}
      [] here = "timer"   -> {"logport", "logfh", "sreq", "treq", "serial"}
      [] here = "tftppkt" -> Resources \ {"tftppkt"}
      [] here \in {"loop", "delay"} -> Resources
      [] OTHER -> {}

\* During the clean-up exactly what is to be released is held.
HeldOK ==
    /\ h \in Starting \cup {"loop", "delay", "cleanup", "returned"}
    /\ h = "cleanup" => /\ todo \in Suffixes
                        /\ held = {todo[i] : i \in DOMAIN todo}
    /\ h # "cleanup" => held = HeldAt(h)

\* The unmount command c has taken the device node out of the list.
Found(c) == u[c] \in {"port", "sent", "answered", "delay", "ok", "fail"}

\* ACTION_DIE has been answered.
Stopped == h \in {"delay", "cleanup", "returned"} /\ ~dn_Task

\* One command finds the node and sends one packet; whoever else has a packet
\* in the port has one there and waits for it.  Once the node is out of the
\* list no program comes to know the port any more.
QueueOK ==
    /\ h \in Starting \cup {"loop", "delay", "cleanup", "returned"}
    /\ port \in Seq(Programs \cup Unmounts)
    /\ waiting \subseteq knows /\ knows \subseteq Programs
    /\ u \in [Unmounts -> {"start", "port", "sent", "answered", "delay", "ok",
                           "fail", "error"}]
    /\ \A c \in Unmounts : Found(c) => ~mounted
    /\ \A c, d \in Unmounts : Found(c) /\ Found(d) => c = d
    /\ ~mounted => knows \subseteq kept
    /\ \A i \in 1 .. Len(port) :
          port[i] \in waiting \/ (port[i] \in Unmounts /\ u[port[i]] = "sent")
    /\ \A i, j \in 1 .. Len(port) : port[i] = port[j] => i = j
    /\ h \in (Starting \ {"startup"}) \cup {"loop"} => dn_Task
    /\ Stopped => \E c \in Unmounts : u[c] \in {"answered", "delay", "ok"}

\* NET: is used only when the handler has started, or given up.
NoHurry == "hurry" \notin Faults

\* What keeps the handler's code in memory until it has returned: while the
\* delay of unmount goes on, more is left of it than the handler can use up.
DelayOK ==
    /\ hTicks \in 0 .. HANDLER_DELAY /\ lag \in 0 .. MaxLag
    /\ h # "delay" => hTicks = 0
    /\ uTicks \in [Unmounts -> Nat]
    /\ \A c \in Unmounts :
          (u[c] = "delay" /\ Stopped /\ h # "returned")
             => hTicks + (MaxLag - lag) < uTicks[c]

\* Until start-up is over nobody knows the port; the node is freed last.
NodeOK ==
    /\ h \in Starting => ~up
    /\ h \in {"loop", "delay", "returned"} => up
    /\ \A c \in Unmounts : /\ Found(c) => up
                           /\ u[c] = "answered" => Stopped
    /\ ~up => port = <<>> /\ knows = {}
    /\ ~loaded \/ dn = "freed" =>
          h = "returned" /\ \E c \in Unmounts : u[c] = "ok"

\* The invariant of a handler that is not used in a hurry.
LifeInv == HeldOK /\ QueueOK /\ DelayOK /\ NodeOK /\ NoMisuse

------------------------------------------------------------------------------
(* Resources *)

\* One list in front of another.
LEMMA Joined ==
    ASSUME NEW s \in Seq(Resources), NEW t \in Seq(Resources),
           NEW w \in Seq(Resources), Len(w) = Len(s) + Len(t),
           \A i \in 1 .. Len(w) :
              w[i] = IF i <= Len(s) THEN s[i] ELSE t[i - Len(s)]
    PROVE  s \o t = w
<1>1. /\ s \o t \in Seq(Resources) /\ Len(s \o t) = Len(s) + Len(t)
      /\ \A i \in 1 .. Len(s) + Len(t) :
            (s \o t)[i] = IF i <= Len(s) THEN s[i] ELSE t[i - Len(s)]
  BY ConcatProperties
<1> QED
  BY <1>1, SeqEqual

\* The lists of the labels in entry(), written out.
LEMMA Labels ==
    /\ NoLogging = <<"logport">> /\ NoNetio = <<"logfh", "logport">>
    /\ <<"sreq">> \o NoNetio = <<"sreq", "logfh", "logport">>
    /\ <<"treq", "sreq">> \o NoNetio = <<"treq", "sreq", "logfh", "logport">>
    /\ <<"serial", "treq", "sreq">> \o NoNetio
          = <<"serial", "treq", "sreq", "logfh", "logport">>
    /\ NoMemory = <<"timer", "serial", "treq", "sreq", "logfh", "logport">>
    /\ LoopEnd = <<"tftppkt", "timer", "serial", "treq", "sreq", "logfh",
                   "logport">>
<1>1. NoNetio = <<"logfh", "logport">>
  <2> DEFINE s == <<"logfh">>
             t == <<"logport">>
             w == <<"logfh", "logport">>
  <2>1. /\ s \in Seq(Resources) /\ t \in Seq(Resources) /\ w \in Seq(Resources)
    BY DEF Resources
  <2>2. Len(w) = Len(s) + Len(t)
    OBVIOUS
  <2>3. \A i \in 1 .. Len(w) : w[i] = IF i <= Len(s) THEN s[i] ELSE t[i - Len(s)]
    OBVIOUS
  <2>4. s \o t = w
    <3> HIDE DEF s, t, w
    <3> QED
      BY <2>1, <2>2, <2>3, Joined, Zenon
  <2> QED
    BY <2>4 DEF NoNetio, NoLogging
<1>2. <<"sreq">> \o NoNetio = <<"sreq", "logfh", "logport">>
  <2> DEFINE s == <<"sreq">>
             t == <<"logfh", "logport">>
             w == <<"sreq", "logfh", "logport">>
  <2>1. /\ s \in Seq(Resources) /\ t \in Seq(Resources) /\ w \in Seq(Resources)
    BY DEF Resources
  <2>2. Len(w) = Len(s) + Len(t)
    OBVIOUS
  <2>3. \A i \in 1 .. Len(w) : w[i] = IF i <= Len(s) THEN s[i] ELSE t[i - Len(s)]
    OBVIOUS
  <2>4. s \o t = w
    <3> HIDE DEF s, t, w
    <3> QED
      BY <2>1, <2>2, <2>3, Joined, Zenon
  <2> QED
    BY <1>1, <2>4
<1>3. <<"treq", "sreq">> \o NoNetio = <<"treq", "sreq", "logfh", "logport">>
  <2> DEFINE s == <<"treq", "sreq">>
             t == <<"logfh", "logport">>
             w == <<"treq", "sreq", "logfh", "logport">>
  <2>1. /\ s \in Seq(Resources) /\ t \in Seq(Resources) /\ w \in Seq(Resources)
    BY DEF Resources
  <2>2. Len(w) = Len(s) + Len(t)
    OBVIOUS
  <2>3. \A i \in 1 .. Len(w) : w[i] = IF i <= Len(s) THEN s[i] ELSE t[i - Len(s)]
    OBVIOUS
  <2>4. s \o t = w
    <3> HIDE DEF s, t, w
    <3> QED
      BY <2>1, <2>2, <2>3, Joined, Zenon
  <2> QED
    BY <1>1, <2>4
<1>4. <<"serial", "treq", "sreq">> \o NoNetio
         = <<"serial", "treq", "sreq", "logfh", "logport">>
  <2> DEFINE s == <<"serial", "treq", "sreq">>
             t == <<"logfh", "logport">>
             w == <<"serial", "treq", "sreq", "logfh", "logport">>
  <2>1. /\ s \in Seq(Resources) /\ t \in Seq(Resources) /\ w \in Seq(Resources)
    BY DEF Resources
  <2>2. Len(w) = Len(s) + Len(t)
    OBVIOUS
  <2>3. \A i \in 1 .. Len(w) : w[i] = IF i <= Len(s) THEN s[i] ELSE t[i - Len(s)]
    OBVIOUS
  <2>4. s \o t = w
    <3> HIDE DEF s, t, w
    <3> QED
      BY <2>1, <2>2, <2>3, Joined, Zenon
  <2> QED
    BY <1>1, <2>4
<1>5. NoMemory = <<"timer", "serial", "treq", "sreq", "logfh", "logport">>
  <2> DEFINE s == <<"timer", "serial", "treq", "sreq">>
             t == <<"logfh", "logport">>
             w == <<"timer", "serial", "treq", "sreq", "logfh", "logport">>
  <2>1. /\ s \in Seq(Resources) /\ t \in Seq(Resources) /\ w \in Seq(Resources)
    BY DEF Resources
  <2>2. Len(w) = Len(s) + Len(t)
    OBVIOUS
  <2>3. \A i \in 1 .. Len(w) : w[i] = IF i <= Len(s) THEN s[i] ELSE t[i - Len(s)]
    OBVIOUS
  <2>4. s \o t = w
    <3> HIDE DEF s, t, w
    <3> QED
      BY <2>1, <2>2, <2>3, Joined, Zenon
  <2> QED
    BY <1>1, <2>4 DEF NoMemory, NetioExit
<1>6. LoopEnd = <<"tftppkt", "timer", "serial", "treq", "sreq", "logfh", "logport">>
  <2> DEFINE s == <<"tftppkt">>
             t == <<"timer", "serial", "treq", "sreq", "logfh", "logport">>
             w == <<"tftppkt", "timer", "serial", "treq", "sreq", "logfh", "logport">>
  <2>1. /\ s \in Seq(Resources) /\ t \in Seq(Resources) /\ w \in Seq(Resources)
    BY DEF Resources
  <2>2. Len(w) = Len(s) + Len(t)
    OBVIOUS
  <2>3. \A i \in 1 .. Len(w) : w[i] = IF i <= Len(s) THEN s[i] ELSE t[i - Len(s)]
    OBVIOUS
  <2>4. s \o t = w
    <3> HIDE DEF s, t, w
    <3> QED
      BY <2>1, <2>2, <2>3, Joined, Zenon
  <2> QED
    BY <1>5, <2>4 DEF LoopEnd
<1> QED
  BY <1>1, <1>2, <1>3, <1>4, <1>5, <1>6 DEF NoLogging

\* What a list holds.
LEMMA Contents ==
    LET C(s) == {s[i] : i \in DOMAIN s} IN
    /\ C(<<>>) = {} /\ C(<<"logport">>) = {"logport"}
    /\ C(<<"logfh", "logport">>) = {"logport", "logfh"}
    /\ C(<<"sreq", "logfh", "logport">>) = {"logport", "logfh", "sreq"}
    /\ C(<<"treq", "sreq", "logfh", "logport">>)
          = {"logport", "logfh", "sreq", "treq"}
    /\ C(<<"serial", "treq", "sreq", "logfh", "logport">>)
          = {"logport", "logfh", "sreq", "treq", "serial"}
    /\ C(<<"timer", "serial", "treq", "sreq", "logfh", "logport">>)
          = Resources \ {"tftppkt"}
    /\ C(<<"tftppkt", "timer", "serial", "treq", "sreq", "logfh", "logport">>)
          = Resources
BY DEF Resources

\* A step of start-up that acquires rs, or cleans up all that is held here.
LEMMA TryHeld ==
    ASSUME HeldOK, NEW here \in Starting, NEW rs,
           NEW next \in Starting \cup {"loop"}, NEW cleanup \in Suffixes,
           Try(here, rs, next, cleanup), HeldAt(next) = HeldAt(here) \cup rs,
           {cleanup[i] : i \in DOMAIN cleanup} = HeldAt(here)
    PROVE  HeldOK'
<1>1. h = here /\ held = HeldAt(here)
  BY DEF Try, HeldOK, Starting
<1>2. CASE h' = next /\ held' = held \cup rs
  BY <1>1, <1>2 DEF HeldOK, Starting
<1>3. CASE h' = "cleanup" /\ todo' = cleanup /\ UNCHANGED held
  BY <1>1, <1>3 DEF HeldOK
<1> QED
  BY <1>2, <1>3 DEF Try

LEMMA StartHeld ==
    ASSUME HeldOK,
           \/ CreateLogPort \/ OpenConsole \/ CreateSerReq \/ CreateTimeReq
           \/ OpenSerial \/ SetParams \/ OpenTimer \/ CreateBuffer
    PROVE  HeldOK'
<1>1. CASE CreateLogPort
  <2>1. /\ HeldAt("logfh") = HeldAt("logport") \cup {"logport"}
        /\ NoPort \in Suffixes /\ {NoPort[i] : i \in DOMAIN NoPort} = HeldAt("logport")
    BY Contents DEF NoPort, Suffixes, HeldAt
  <2> QED
    BY <1>1, <2>1, TryHeld DEF Starting, CreateLogPort
<1>2. CASE OpenConsole
  <2>1. /\ HeldAt("sreq") = HeldAt("logfh") \cup {"logfh"}
        /\ NoLogging \in Suffixes
        /\ {NoLogging[i] : i \in DOMAIN NoLogging} = HeldAt("logfh")
    BY Labels, Contents DEF Suffixes, HeldAt, Resources
  <2> QED
    BY <1>2, <2>1, TryHeld DEF Starting, OpenConsole
<1>3. CASE CreateSerReq
  <2>1. /\ HeldAt("treq") = HeldAt("sreq") \cup {"sreq"}
        /\ NoNetio \in Suffixes /\ {NoNetio[i] : i \in DOMAIN NoNetio} = HeldAt("sreq")
    BY Labels, Contents DEF Suffixes, HeldAt, Resources
  <2> QED
    BY <1>3, <2>1, TryHeld DEF Starting, CreateSerReq
<1>4. CASE CreateTimeReq
  <2>1. PICK s : s = <<"sreq">> \o NoNetio
    OBVIOUS
  <2>2. /\ HeldAt("serial") = HeldAt("treq") \cup {"treq"}
        /\ s \in Suffixes /\ {s[i] : i \in DOMAIN s} = HeldAt("treq")
    BY <2>1, Labels, Contents DEF Suffixes, HeldAt, Resources
  <2> QED
    BY <1>4, <2>1, <2>2, TryHeld DEF Starting, CreateTimeReq
<1>5. CASE OpenSerial
  <2>1. PICK s : s = <<"treq", "sreq">> \o NoNetio
    OBVIOUS
  <2>2. /\ HeldAt("params") = HeldAt("serial") \cup {"serial"}
        /\ s \in Suffixes /\ {s[i] : i \in DOMAIN s} = HeldAt("serial")
    BY <2>1, Labels, Contents DEF Suffixes, HeldAt, Resources
  <2> QED
    BY <1>5, <2>1, <2>2, TryHeld DEF Starting, OpenSerial
<1>6. CASE SetParams
  <2>1. PICK s : s = <<"serial", "treq", "sreq">> \o NoNetio
    OBVIOUS
  <2>2. /\ HeldAt("timer") = HeldAt("params") \cup {}
        /\ s \in Suffixes /\ {s[i] : i \in DOMAIN s} = HeldAt("params")
    BY <2>1, Labels, Contents DEF Suffixes, HeldAt, Resources
  <2> QED
    BY <1>6, <2>1, <2>2, TryHeld DEF Starting, SetParams
<1>7. CASE OpenTimer
  <2>1. PICK s : s = <<"serial", "treq", "sreq">> \o NoNetio
    OBVIOUS
  <2>2. /\ HeldAt("tftppkt") = HeldAt("timer") \cup {"timer"}
        /\ s \in Suffixes /\ {s[i] : i \in DOMAIN s} = HeldAt("timer")
    BY <2>1, Labels, Contents DEF Suffixes, HeldAt, Resources
  <2> QED
    BY <1>7, <2>1, <2>2, TryHeld DEF Starting, OpenTimer
<1>8. CASE CreateBuffer
  <2>1. /\ HeldAt("loop") = HeldAt("tftppkt") \cup {"tftppkt"}
        /\ NoMemory \in Suffixes
        /\ {NoMemory[i] : i \in DOMAIN NoMemory} = HeldAt("tftppkt")
    BY Labels, Contents DEF Suffixes, HeldAt, Resources
  <2> QED
    BY <1>8, <2>1, TryHeld DEF Starting, CreateBuffer
<1> QED
  BY <1>1, <1>2, <1>3, <1>4, <1>5, <1>6, <1>7, <1>8

\* The first of what is to be released is held, its device or console is not
\* any more, and the rest is what stays held.
LEMMA ReleaseHeld ==
    ASSUME NEW s \in Suffixes, s # <<>>,
           NEW S, S = {s[i] : i \in DOMAIN s}
    PROVE  /\ Head(s) \in S /\ Before(Head(s)) \cap S = {}
           /\ Tail(s) \in Suffixes
           /\ S \ {Head(s)} = {Tail(s)[i] : i \in DOMAIN Tail(s)}
<1> USE DEF Suffixes, Before, Resources
<1>1. CASE s = <<"logport">>
  BY <1>1, Contents
<1>2. CASE s = <<"logfh", "logport">>
  BY <1>2, Contents
<1>3. CASE s = <<"sreq", "logfh", "logport">>
  BY <1>3, Contents
<1>4. CASE s = <<"treq", "sreq", "logfh", "logport">>
  BY <1>4, Contents
<1>5. CASE s = <<"serial", "treq", "sreq", "logfh", "logport">>
  BY <1>5, Contents
<1>6. CASE s = <<"timer", "serial", "treq", "sreq", "logfh", "logport">>
  BY <1>6, Contents
<1>7. CASE s = <<"tftppkt", "timer", "serial", "treq", "sreq", "logfh", "logport">>
  BY <1>7, Contents
<1> QED
  BY <1>1, <1>2, <1>3, <1>4, <1>5, <1>6, <1>7

LEMMA StepHeld ==
    ASSUME HeldOK, [Next]_vars
    PROVE  HeldOK'
<1>1. CASE UNCHANGED <<h, todo, held>>
  BY <1>1 DEF HeldOK
<1>2. CASE Startup
  BY <1>2 DEF Startup, HeldOK, HeldAt, Starting
<1>3. CASE HandleDie \/ Critical
  BY <1>3 DEF HandleDie, Critical, HeldOK, HeldAt, Starting
<1>4. CASE DelayOver
  <2>1. held = Resources /\ h' = "cleanup" /\ todo' = LoopEnd /\ held' = held
    BY <1>4 DEF DelayOver, HeldOK, HeldAt
  <2>2. LoopEnd \in Suffixes /\ {LoopEnd[i] : i \in DOMAIN LoopEnd} = Resources
    BY Labels, Contents DEF Suffixes
  <2> QED
    BY <2>1, <2>2 DEF HeldOK
<1>5. CASE Release
  <2>1. /\ h = "cleanup" /\ h' = "cleanup" /\ todo \in Suffixes /\ todo # <<>>
        /\ held' = held \ {Head(todo)} /\ todo' = Tail(todo)
        /\ held = {todo[i] : i \in DOMAIN todo}
    BY <1>5 DEF Release, HeldOK
  <2>2. /\ Tail(todo) \in Suffixes
        /\ held' = {Tail(todo)[i] : i \in DOMAIN Tail(todo)}
    BY <2>1, ReleaseHeld
  <2> QED
    BY <2>1, <2>2 DEF HeldOK
<1>6. CASE Return
  <2>1. held = {}
    BY <1>6 DEF Return, HeldOK
  <2> QED
    BY <1>6, <2>1 DEF Return, HeldOK, HeldAt, Starting
<1>7. CASE \/ CreateLogPort \/ OpenConsole \/ CreateSerReq \/ CreateTimeReq
           \/ OpenSerial \/ SetParams \/ OpenTimer \/ CreateBuffer
  BY <1>7, StartHeld
<1>8. CASE HandlePacket \/ Tick
  BY <1>1, <1>8 DEF HandlePacket, Tick, handlerVars
<1>9. ASSUME NEW p \in Programs, Lookup(p) \/ Request(p) PROVE HeldOK'
  BY <1>1, <1>9 DEF Lookup, Request, handlerVars
<1>10. ASSUME NEW c \in Unmounts, Unmount(c) PROVE HeldOK'
  BY <1>1, <1>10 DEF Unmount, Find, SendDie, DieAnswered, Unload, handlerVars
<1>11. CASE UNCHANGED vars
  BY <1>1, <1>11 DEF vars, handlerVars
<1> QED
  BY <1>2, <1>3, <1>4, <1>5, <1>6, <1>7, <1>8, <1>9, <1>10, <1>11 DEF Next, Entry

\* Whichever step of start-up fails, and at the end of the handler, all that
\* was acquired is released before it returns.
THEOREM EverythingIsReleased == Spec => []AllReleased
<1>1. Init => HeldOK
  BY DEF Init, HeldOK, HeldAt, Starting
<1>2. HeldOK /\ [Next]_vars => HeldOK'
  BY StepHeld
<1>3. HeldOK => AllReleased
  BY DEF HeldOK, HeldAt, AllReleased
<1> QED
  BY <1>1, <1>2, <1>3, PTL DEF Spec

------------------------------------------------------------------------------
(* Packets *)

\* The handler moves on inside start-up, or from the loop to its end, with
\* port, programs and commands as they are.
LEMMA MovesOn ==
    ASSUME QueueOK, UNCHANGED <<port, knows, waiting, u, mounted, kept>>,
           \/ /\ h \in Starting
              /\ h' \in (Starting \ {"startup"}) \cup {"loop", "cleanup"}
              /\ dn_Task'
           \/ UNCHANGED dn_Task /\ h = "loop" /\ h' = "delay"
           \/ UNCHANGED dn_Task /\ h = "delay" /\ h' = "cleanup"
           \/ UNCHANGED dn_Task /\ h = "cleanup" /\ h' = "returned"
           \/ UNCHANGED <<h, dn_Task>>
    PROVE  QueueOK'
<1>1. Stopped' => Stopped
  BY DEF Stopped, Starting, QueueOK
<1>2. /\ h' \in Starting \cup {"loop", "delay", "cleanup", "returned"}
      /\ h' \in (Starting \ {"startup"}) \cup {"loop"} => dn_Task'
  BY DEF QueueOK, Starting
<1> QED
  BY <1>1, <1>2 DEF QueueOK, Found

LEMMA TryQueue ==
    ASSUME QueueOK, NEW here \in Starting \ {"startup"}, NEW rs,
           NEW next \in (Starting \ {"startup"}) \cup {"loop"}, NEW cleanup,
           Try(here, rs, next, cleanup)
    PROVE  QueueOK'
<1>1. h \in Starting /\ dn_Task
  BY DEF Try, QueueOK
<1>2. /\ h' \in {next, "cleanup"}
      /\ UNCHANGED <<port, knows, waiting, u, mounted, kept, dn_Task>>
  BY DEF Try, nodeVars, unmountVars, programVars
<1> QED
  BY <1>1, <1>2, MovesOn

LEMMA StartQueue ==
    ASSUME QueueOK,
           \/ CreateLogPort \/ OpenConsole \/ CreateSerReq \/ CreateTimeReq
           \/ OpenSerial \/ SetParams \/ OpenTimer \/ CreateBuffer
    PROVE  QueueOK'
<1> USE TryQueue DEF Starting
<1>1. CASE CreateLogPort
  BY <1>1 DEF CreateLogPort
<1>2. CASE OpenConsole
  BY <1>2 DEF OpenConsole
<1>3. CASE CreateSerReq
  BY <1>3 DEF CreateSerReq
<1>4. CASE CreateTimeReq
  BY <1>4 DEF CreateTimeReq
<1>5. CASE OpenSerial
  BY <1>5 DEF OpenSerial
<1>6. CASE SetParams
  BY <1>6 DEF SetParams
<1>7. CASE OpenTimer
  BY <1>7 DEF OpenTimer
<1>8. CASE CreateBuffer
  BY <1>8 DEF CreateBuffer
<1> QED
  BY <1>1, <1>2, <1>3, <1>4, <1>5, <1>6, <1>7, <1>8

\* The rest of a list of packets.
LEMMA TailFacts ==
    ASSUME NEW S, NEW q \in Seq(S), q # <<>>
    PROVE  /\ Len(q) \in Nat \ {0} /\ Head(q) = q[1] /\ q[1] \in S
           /\ Tail(q) \in Seq(S) /\ Len(Tail(q)) = Len(q) - 1
           /\ \A i \in 1 .. Len(q) - 1 : Tail(q)[i] = q[i + 1]
OBVIOUS

\* A packet is added.
LEMMA AppendFacts ==
    ASSUME NEW S, NEW q \in Seq(S), NEW m \in S
    PROVE  /\ Append(q, m) \in Seq(S) /\ Len(Append(q, m)) = Len(q) + 1
           /\ \A i \in 1 .. Len(q) : Append(q, m)[i] = q[i]
           /\ Append(q, m)[Len(q) + 1] = m
           /\ Len(q) \in Nat
OBVIOUS

LEMMA HandlePacketQueue ==
    ASSUME QueueOK, HandlePacket
    PROVE  QueueOK'
<1>1. PICK p \in Programs :
         /\ UNCHANGED <<h, u, mounted, kept, dn_Task>> /\ h = "loop"
         /\ port # <<>> /\ Head(port) = p /\ knows' \in {knows, knows \ {p}}
         /\ waiting' = waiting \ {p} /\ port' = Tail(port)
  BY DEF HandlePacket, handlerVars, nodeVars, unmountVars
<1>2. port \in Seq(Programs \cup Unmounts) /\ waiting \subseteq knows
  BY DEF QueueOK
<1>3. PICK q : q = Tail(port)
  OBVIOUS
<1>4. /\ Len(port) \in Nat \ {0} /\ p = port[1]
      /\ q \in Seq(Programs \cup Unmounts) /\ Len(q) = Len(port) - 1
      /\ \A i \in 1 .. Len(port) - 1 : q[i] = port[i + 1]
  BY <1>1, <1>2, <1>3, TailFacts
<1>5. ASSUME NEW i \in 1 .. Len(q)
      PROVE  /\ q[i] # p
             /\ q[i] \in waiting \/ (q[i] \in Unmounts /\ u[q[i]] = "sent")
  <2>1. i + 1 \in 1 .. Len(port) /\ 1 \in 1 .. Len(port) /\ i + 1 # 1 /\ q[i] = port[i + 1]
    BY <1>4
  <2> QED
    BY <1>4, <2>1 DEF QueueOK
<1>6. \A i, j \in 1 .. Len(q) : q[i] = q[j] => i = j
  <2> SUFFICES ASSUME NEW i \in 1 .. Len(q), NEW j \in 1 .. Len(q), q[i] = q[j]
               PROVE  i = j
    OBVIOUS
  <2>1. /\ i + 1 \in 1 .. Len(port) /\ j + 1 \in 1 .. Len(port)
        /\ port[i + 1] = port[j + 1]
    BY <1>4
  <2>2. i + 1 = j + 1
    BY <2>1 DEF QueueOK
  <2> QED
    BY <2>2
<1>7. /\ waiting' \subseteq knows' /\ knows' \subseteq Programs
      /\ ~mounted => knows' \subseteq kept
  BY <1>1, <1>2 DEF QueueOK
<1>8. \A i \in 1 .. Len(q) : q[i] \in waiting' \/ (q[i] \in Unmounts /\ u[q[i]] = "sent")
  BY <1>1, <1>5
<1> QED
  BY <1>1, <1>3, <1>4, <1>6, <1>7, <1>8 DEF QueueOK, Found, Stopped

LEMMA HandleDieQueue ==
    ASSUME QueueOK, HandleDie
    PROVE  QueueOK' /\ Stopped' /\ \A c \in Unmounts : Found(c)' <=> Found(c)
<1>1. PICK c \in Unmounts :
         /\ port # <<>> /\ c = Head(port) /\ port' = Tail(port)
         /\ u' = [u EXCEPT ![c] = "answered"] /\ dn_Task' = FALSE
         /\ h' = "delay" /\ UNCHANGED <<knows, waiting, mounted, kept>>
  BY DEF HandleDie, programVars
<1>2. /\ port \in Seq(Programs \cup Unmounts)
      /\ waiting \subseteq knows /\ knows \subseteq Programs
      /\ u \in [Unmounts -> {"start", "port", "sent", "answered", "delay", "ok",
                             "fail", "error"}]
  BY DEF QueueOK
<1>3. PICK q : q = Tail(port)
  OBVIOUS
<1>4. /\ Len(port) \in Nat \ {0} /\ c = port[1]
      /\ q \in Seq(Programs \cup Unmounts) /\ Len(q) = Len(port) - 1
      /\ \A i \in 1 .. Len(port) - 1 : q[i] = port[i + 1]
  BY <1>1, <1>2, <1>3, TailFacts
<1>5. u[c] = "sent"
  <2>1. 1 \in 1 .. Len(port) /\ c \notin waiting
    BY <1>2, <1>4, NamesAssumption
  <2> QED
    BY <1>4, <2>1 DEF QueueOK
<1>6. ASSUME NEW i \in 1 .. Len(q)
      PROVE  /\ q[i] # c
             /\ q[i] \in waiting \/ (q[i] \in Unmounts /\ u[q[i]] = "sent")
  <2>1. i + 1 \in 1 .. Len(port) /\ 1 \in 1 .. Len(port) /\ i + 1 # 1 /\ q[i] = port[i + 1]
    BY <1>4
  <2> QED
    BY <1>4, <2>1 DEF QueueOK
<1>7. \A i, j \in 1 .. Len(q) : q[i] = q[j] => i = j
  <2> SUFFICES ASSUME NEW i \in 1 .. Len(q), NEW j \in 1 .. Len(q), q[i] = q[j]
               PROVE  i = j
    OBVIOUS
  <2>1. /\ i + 1 \in 1 .. Len(port) /\ j + 1 \in 1 .. Len(port)
        /\ port[i + 1] = port[j + 1]
    BY <1>4
  <2>2. i + 1 = j + 1
    BY <2>1 DEF QueueOK
  <2> QED
    BY <2>2
<1>8. \A d \in Unmounts : u'[d] = IF d = c THEN "answered" ELSE u[d]
  BY <1>1, <1>2
<1>9. \A d \in Unmounts : Found(d)' <=> Found(d)
  BY <1>5, <1>8 DEF Found
<1>10. Stopped'
  BY <1>1 DEF Stopped
<1>11. u' \in [Unmounts -> {"start", "port", "sent", "answered", "delay", "ok",
                           "fail", "error"}]
  BY <1>1, <1>2
<1>12. \A d, e \in Unmounts : Found(d)' /\ Found(e)' => d = e
  BY <1>9 DEF QueueOK
<1>13. \A d \in Unmounts : Found(d)' => ~mounted'
  BY <1>1, <1>9 DEF QueueOK
<1>14. \A i \in 1 .. Len(q) : q[i] \in waiting \/ (q[i] \in Unmounts /\ u'[q[i]] = "sent")
  BY <1>6, <1>8
<1>15. \E d \in Unmounts : u'[d] \in {"answered", "delay", "ok"}
  BY <1>8
<1>16. /\ h' \in Starting \cup {"loop", "delay", "cleanup", "returned"}
       /\ h' \notin (Starting \ {"startup"}) \cup {"loop"}
  BY <1>1 DEF Starting
<1>17. (~mounted => knows \subseteq kept) /\ port' = q
  BY <1>1, <1>3 DEF QueueOK
<1>18. QueueOK'
  BY <1>1, <1>2, <1>4, <1>7, <1>11, <1>12, <1>13, <1>14, <1>15, <1>16, <1>17
  DEF QueueOK
<1> QED
  BY <1>9, <1>10, <1>18

\* A program finds the device while it is in the list.
LEMMA LookupQueue ==
    ASSUME QueueOK, NEW p \in Programs, Lookup(p)
    PROVE  QueueOK'
<1>1. /\ UNCHANGED <<h, port, waiting, u, mounted, kept, dn_Task>> /\ mounted
      /\ knows' = knows \cup {p}
  BY DEF Lookup, handlerVars, nodeVars, unmountVars
<1> QED
  BY <1>1 DEF QueueOK, Found, Stopped

LEMMA RequestQueue ==
    ASSUME QueueOK, NEW p \in Programs, Request(p)
    PROVE  QueueOK'
<1>1. /\ UNCHANGED <<h, knows, u, mounted, kept, dn_Task>> /\ p \in knows \ waiting
      /\ waiting' = waiting \cup {p} /\ port' = Append(port, p)
  BY DEF Request, handlerVars, nodeVars, unmountVars
<1>2. port \in Seq(Programs \cup Unmounts)
  BY DEF QueueOK
<1>3. PICK q : q = Append(port, p)
  OBVIOUS
<1>4. /\ q \in Seq(Programs \cup Unmounts) /\ Len(q) = Len(port) + 1
      /\ \A i \in 1 .. Len(port) : q[i] = port[i]
      /\ q[Len(port) + 1] = p /\ Len(port) \in Nat
  BY <1>2, <1>3, AppendFacts
<1>5. ASSUME NEW i \in 1 .. Len(port) PROVE port[i] # p
  BY <1>1, NamesAssumption DEF QueueOK
<1>6. \A i \in 1 .. Len(q) : q[i] \in waiting' \/ (q[i] \in Unmounts /\ u[q[i]] = "sent")
  <2> SUFFICES ASSUME NEW i \in 1 .. Len(q)
               PROVE  q[i] \in waiting' \/ (q[i] \in Unmounts /\ u[q[i]] = "sent")
    OBVIOUS
  <2>1. i \in 1 .. Len(port) \/ i = Len(port) + 1
    BY <1>4
  <2>2. CASE i \in 1 .. Len(port)
    BY <1>1, <1>4, <2>2 DEF QueueOK
  <2> QED
    BY <1>1, <1>4, <2>1, <2>2
<1>7. \A i, j \in 1 .. Len(q) : q[i] = q[j] => i = j
  <2>1. \A i \in 1 .. Len(q) : i \in 1 .. Len(port) \/ i = Len(port) + 1
    BY <1>4
  <2>2. \A i, j \in 1 .. Len(port) : q[i] = q[j] => i = j
    BY <1>4 DEF QueueOK
  <2>3. \A i \in 1 .. Len(port) : q[i] # q[Len(port) + 1]
    BY <1>4, <1>5
  <2> QED
    BY <2>1, <2>2, <2>3
<1>8. waiting' \subseteq knows
  BY <1>1 DEF QueueOK
<1> QED
  BY <1>1, <1>3, <1>4, <1>6, <1>7, <1>8 DEF QueueOK, Found, Stopped

\* A command looks for the device node.
LEMMA FindQueue ==
    ASSUME QueueOK, NEW c \in Unmounts, Find(c)
    PROVE  QueueOK'
<1>1. /\ UNCHANGED <<h, port, knows, waiting, dn_Task>> /\ u[c] = "start"
      /\ \/ mounted /\ ~mounted' /\ kept' = knows /\ u' = [u EXCEPT ![c] = "port"]
         \/ ~mounted /\ u' = [u EXCEPT ![c] = "error"] /\ UNCHANGED <<mounted, kept>>
  BY DEF Find, handlerVars, programVars
<1>2. u \in [Unmounts -> {"start", "port", "sent", "answered", "delay", "ok",
                          "fail", "error"}]
  BY DEF QueueOK
<1>3. /\ u' \in [Unmounts -> {"start", "port", "sent", "answered", "delay", "ok",
                              "fail", "error"}]
      /\ \A d \in Unmounts \ {c} : u'[d] = u[d]
      /\ u'[c] \in {"port", "error"}
  BY <1>1, <1>2
<1>4. \A d \in Unmounts \ {c} : Found(d)' <=> Found(d)
  BY <1>3 DEF Found
<1>5. \A d, e \in Unmounts : Found(d)' /\ Found(e)' => d = e /\ ~mounted'
  <2>1. CASE mounted
    <3>1. \A d \in Unmounts : ~Found(d)
      BY <2>1 DEF QueueOK
    <3> QED
      BY <1>1, <1>4, <2>1, <3>1
  <2>2. CASE ~mounted
    <3>1. u'[c] = "error" /\ ~mounted'
      BY <1>1, <1>2, <2>2
    <3>2. ~Found(c)'
      BY <3>1 DEF Found
    <3> QED
      BY <1>4, <3>1, <3>2 DEF QueueOK
  <2> QED
    BY <2>1, <2>2
<1>6. \A i \in 1 .. Len(port) :
         port[i] \in waiting \/ (port[i] \in Unmounts /\ u'[port[i]] = "sent")
  BY <1>1, <1>3 DEF QueueOK
<1>7. Stopped' => \E d \in Unmounts : u'[d] \in {"answered", "delay", "ok"}
  <2> SUFFICES ASSUME Stopped PROVE \E d \in Unmounts : u'[d] \in {"answered", "delay", "ok"}
    BY <1>1 DEF Stopped
  <2>1. PICK d \in Unmounts : u[d] \in {"answered", "delay", "ok"}
    BY DEF QueueOK
  <2> QED
    BY <1>1, <1>3, <2>1
<1>8. ~mounted' => knows \subseteq kept'
  BY <1>1 DEF QueueOK
<1> QED
  BY <1>1, <1>3, <1>5, <1>6, <1>7, <1>8 DEF QueueOK, Stopped

\* The command that has found the node goes on, but not by sending a packet.
LEMMA CommandMoves ==
    ASSUME QueueOK, NEW c \in Unmounts, Found(c), u[c] # "sent",
           NEW s \in {"delay", "ok", "fail"}, u' = [u EXCEPT ![c] = s],
           UNCHANGED <<h, port, knows, waiting, mounted, kept, dn_Task>>,
           s = "fail" => dn_Task
    PROVE  QueueOK'
<1>1. u \in [Unmounts -> {"start", "port", "sent", "answered", "delay", "ok",
                          "fail", "error"}]
  BY DEF QueueOK
<1>2. /\ u' \in [Unmounts -> {"start", "port", "sent", "answered", "delay", "ok",
                              "fail", "error"}]
      /\ \A d \in Unmounts \ {c} : u'[d] = u[d]
      /\ u'[c] = s
  BY <1>1
<1>3. \A d \in Unmounts : Found(d)' <=> Found(d)
  BY <1>2 DEF Found
<1>4. \A i \in 1 .. Len(port) :
         port[i] \in waiting \/ (port[i] \in Unmounts /\ u'[port[i]] = "sent")
  BY <1>2 DEF QueueOK
<1>5. Stopped' => \E d \in Unmounts : u'[d] \in {"answered", "delay", "ok"}
  <2> SUFFICES ASSUME Stopped PROVE u'[c] \in {"delay", "ok"}
    BY DEF Stopped
  <2> QED
    BY <1>2 DEF Stopped
<1> QED
  BY <1>2, <1>3, <1>4, <1>5 DEF QueueOK, Stopped

\* ACTION_DIE is sent, or there is no memory for it.
LEMMA SendDieQueue ==
    ASSUME QueueOK, NEW c \in Unmounts, SendDie(c)
    PROVE  QueueOK' /\ ~Stopped
<1>1. /\ UNCHANGED <<h, knows, waiting, mounted, kept, dn_Task>>
      /\ u[c] = "port" /\ Found(c)
  BY DEF SendDie, handlerVars, nodeVars, programVars, Found
<1>2. \A d \in Unmounts : Found(d) => d = c
  BY <1>1 DEF QueueOK
<1>3. ~Stopped
  <2> SUFFICES ASSUME Stopped PROVE FALSE
    OBVIOUS
  <2>1. PICK d \in Unmounts : u[d] \in {"answered", "delay", "ok"}
    BY DEF QueueOK
  <2> QED
    BY <1>1, <1>2, <2>1 DEF Found
<1>4. CASE port' = Append(port, c) /\ u' = [u EXCEPT ![c] = "sent"]
  <2>1. /\ port \in Seq(Programs \cup Unmounts)
        /\ u \in [Unmounts -> {"start", "port", "sent", "answered", "delay", "ok",
                               "fail", "error"}]
    BY DEF QueueOK
  <2>2. /\ u' \in [Unmounts -> {"start", "port", "sent", "answered", "delay", "ok",
                                "fail", "error"}]
        /\ \A d \in Unmounts \ {c} : u'[d] = u[d]
        /\ u'[c] = "sent"
    BY <1>4, <2>1
  <2>3. PICK q : q = Append(port, c)
    OBVIOUS
  <2>4. /\ q \in Seq(Programs \cup Unmounts) /\ Len(q) = Len(port) + 1
        /\ \A i \in 1 .. Len(port) : q[i] = port[i]
        /\ q[Len(port) + 1] = c /\ Len(port) \in Nat
    BY <2>1, <2>3, AppendFacts
  <2>5. \A i \in 1 .. Len(port) : port[i] \in waiting /\ port[i] # c
    <3>1. \A d \in Unmounts : u[d] # "sent"
      BY <1>1, <1>2 DEF Found
    <3> QED
      BY <3>1, NamesAssumption DEF QueueOK
  <2>6. /\ \A i \in 1 .. Len(q) :
              q[i] \in waiting \/ (q[i] \in Unmounts /\ u'[q[i]] = "sent")
        /\ \A i, j \in 1 .. Len(q) : q[i] = q[j] => i = j
    <3>1. \A i \in 1 .. Len(q) : i \in 1 .. Len(port) \/ i = Len(port) + 1
      BY <2>4
    <3>2. \A i, j \in 1 .. Len(port) : q[i] = q[j] => i = j
      BY <2>4 DEF QueueOK
    <3>3. \A i \in 1 .. Len(port) : q[i] \in waiting /\ q[i] # q[Len(port) + 1]
      BY <2>4, <2>5
    <3> QED
      BY <2>2, <2>4, <3>1, <3>2, <3>3
  <2>8. \A d \in Unmounts : Found(d)' <=> Found(d)
    BY <1>1, <2>2 DEF Found
  <2>9. ~Stopped'
    BY <1>1, <1>3 DEF Stopped
  <2>10. port' = q
    BY <1>4, <2>3
  <2> QED
    BY <1>1, <1>3, <2>2, <2>4, <2>6, <2>8, <2>9, <2>10 DEF QueueOK
<1>5. CASE StartDelay(c) /\ UNCHANGED port
  BY <1>1, <1>3, <1>5, CommandMoves DEF StartDelay
<1> QED
  BY <1>4, <1>5 DEF SendDie

LEMMA StepQueue ==
    ASSUME QueueOK, [Next]_vars
    PROVE  QueueOK'
<1> USE DEF programVars, unmountVars
<1>1. CASE Startup
  BY <1>1, MovesOn DEF Startup, Starting
<1>2. CASE DelayOver \/ Critical
  BY <1>2, MovesOn DEF DelayOver, Critical, nodeVars
<1>3. CASE Release \/ Tick \/ UNCHANGED vars
  BY <1>3, MovesOn DEF Release, Tick, vars, handlerVars, nodeVars
<1>4. CASE Return
  BY <1>4, MovesOn DEF Return, nodeVars
<1>5. ASSUME NEW c \in Unmounts, DieAnswered(c) PROVE QueueOK'
  BY <1>5, CommandMoves DEF DieAnswered, StartDelay, handlerVars, nodeVars, Found
<1>6. ASSUME NEW c \in Unmounts, Unload(c) PROVE QueueOK'
  BY <1>6, CommandMoves DEF Unload, handlerVars, Found
<1> QED
  BY <1>1, <1>2, <1>3, <1>4, <1>5, <1>6, StartQueue, HandlePacketQueue,
     HandleDieQueue, LookupQueue, RequestQueue, FindQueue, SendDieQueue
  DEF Next, Entry, Unmount

LEMMA InitQueue == Init => QueueOK
<1> SUFFICES ASSUME Init PROVE QueueOK
  OBVIOUS
<1>1. /\ h = "startup" /\ port = <<>> /\ knows = {} /\ waiting = {} /\ mounted = TRUE
      /\ u = [c \in Unmounts |-> "start"]
  BY DEF Init
<1>2. \A c \in Unmounts : ~Found(c)
  BY <1>1 DEF Found
<1>3. port \in Seq(Programs \cup Unmounts) /\ Len(port) = 0 /\ ~Stopped
  BY <1>1 DEF Stopped
<1>4. \A i \in 1 .. Len(port) : FALSE
  BY <1>3
<1> QED
  BY <1>1, <1>2, <1>3, <1>4 DEF QueueOK, Starting

\* When ACTION_DIE has been answered only programs have packets in the port,
\* all of which had it before the device was taken out of the list.
LEMMA LeftOver ==
    ASSUME QueueOK, Stopped
    PROVE  /\ ~mounted /\ knows \subseteq kept
           /\ \A i \in 1 .. Len(port) : port[i] \in kept
<1>1. PICK c \in Unmounts : u[c] \in {"answered", "delay", "ok"}
  BY DEF QueueOK
<1>2. \A d \in Unmounts : u[d] # "sent"
  BY <1>1 DEF QueueOK, Found
<1>3. ~mounted /\ knows \subseteq kept /\ waiting \subseteq knows
  BY <1>1 DEF QueueOK, Found
<1> QED
  BY <1>2, <1>3 DEF QueueOK

------------------------------------------------------------------------------
(* Delays and the device node *)

\* Neither a delay nor a command changes, or only what they do not depend on.
LEMMA DelaysSame ==
    ASSUME DelayOK, UNCHANGED <<u, uTicks, hTicks, lag>>,
           h' # "delay" => hTicks = 0,
           Stopped' /\ h' # "returned" => Stopped /\ h # "returned"
    PROVE  DelayOK'
BY DEF DelayOK

LEMMA NodeSame ==
    ASSUME NodeOK, UNCHANGED <<u, port, knows, dn, loaded>>,
           up => up', Stopped => Stopped',
           h' \in Starting => ~up', h' \in {"loop", "delay", "returned"} => up',
           h = "returned" => h' = "returned"
    PROVE  NodeOK'
BY DEF NodeOK, Found

\* A step that does nothing undefined.
LEMMA Clean ==
    ASSUME misuse' = {}
    PROVE  NoMisuse'
BY DEF NoMisuse

LEMMA TickDelay ==
    ASSUME DelayOK, Tick
    PROVE  DelayOK'
<1>1. /\ hTicks' = Pred(hTicks) /\ UNCHANGED <<h, u, dn_Task>>
      /\ uTicks' = [c \in Unmounts |-> Pred(uTicks[c])]
      /\ Late => lag < MaxLag /\ lag' = lag + 1
      /\ ~Late => lag' = lag
  BY DEF Tick, nodeVars
<1>2. /\ hTicks \in 0 .. HANDLER_DELAY /\ lag \in 0 .. MaxLag
      /\ uTicks \in [Unmounts -> Nat]
      /\ h # "delay" => hTicks = 0
  BY DEF DelayOK
<1>3. \A n \in Nat : Pred(n) \in Nat /\ Pred(n) = IF n = 0 THEN 0 ELSE n - 1
  BY DEF Pred
<1>4. uTicks' \in [Unmounts -> Nat] /\ \A c \in Unmounts : uTicks'[c] = Pred(uTicks[c])
  BY <1>1, <1>2 DEF Pred
<1>5. /\ hTicks' \in 0 .. HANDLER_DELAY /\ lag' \in 0 .. MaxLag
      /\ h' # "delay" => hTicks' = 0
  <2>1. hTicks \in Nat /\ lag \in Nat
    BY <1>2, DelaysAssumption
  <2>2. hTicks' \in 0 .. HANDLER_DELAY /\ (h # "delay" => hTicks' = 0)
    BY <1>1, <1>2, <2>1, DelaysAssumption DEF Pred
  <2>3. lag' \in 0 .. MaxLag
    BY <1>1, <1>2, <2>1, DelaysAssumption
  <2> QED
    BY <1>1, <2>2, <2>3
<1>6. ASSUME NEW c \in Unmounts, u[c] = "delay", Stopped, h # "returned"
      PROVE  hTicks' + (MaxLag - lag') < uTicks'[c]
  <2>1. hTicks + (MaxLag - lag) < uTicks[c] /\ uTicks[c] \in Nat
    BY <1>2, <1>6 DEF DelayOK
  <2>2. uTicks'[c] = uTicks[c] - 1
    BY <1>2, <1>3, <1>4, <2>1, DelaysAssumption
  <2>3. CASE Late
    <3>1. hTicks = 0 /\ hTicks' = 0 /\ lag' = lag + 1
      BY <1>1, <1>2, <2>3 DEF Late, Pred
    <3> QED
      BY <1>2, <2>1, <2>2, <3>1, DelaysAssumption
  <2>4. CASE ~Late
    <3>1. hTicks # 0 /\ lag' = lag
      BY <1>1, <1>6, <2>4 DEF Late, Stopped
    <3>2. hTicks' = hTicks - 1
      BY <1>1, <1>2, <1>3, <3>1
    <3> QED
      BY <1>2, <2>1, <2>2, <3>1, <3>2, DelaysAssumption
  <2> QED
    BY <2>3, <2>4
<1> QED
  BY <1>1, <1>4, <1>5, <1>6 DEF DelayOK, Stopped

\* unmount starts its delay, after ACTION_DIE or instead of it.
LEMMA StartDelayOK ==
    ASSUME DelayOK, NEW c \in Unmounts, StartDelay(c), DOMAIN u = Unmounts,
           UNCHANGED <<h, dn_Task, hTicks, lag>>
    PROVE  DelayOK'
<1>1. /\ uTicks' = [uTicks EXCEPT ![c] = UNMOUNT_DELAY]
      /\ u' = [u EXCEPT ![c] = "delay"]
  BY DEF StartDelay
<1>2. /\ hTicks \in 0 .. HANDLER_DELAY /\ lag \in 0 .. MaxLag
      /\ uTicks \in [Unmounts -> Nat]
  BY DEF DelayOK
<1>3. /\ uTicks' \in [Unmounts -> Nat] /\ uTicks'[c] = UNMOUNT_DELAY
      /\ \A d \in Unmounts \ {c} : uTicks'[d] = uTicks[d] /\ u'[d] = u[d]
  BY <1>1, <1>2, DelaysAssumption
<1>4. hTicks + (MaxLag - lag) < UNMOUNT_DELAY
  BY <1>2, DelaysAssumption
<1> QED
  BY <1>2, <1>3, <1>4 DEF DelayOK, Stopped

\* Only one command comes to the end of its delay, and if the handler is not
\* alive it has returned by then.
LEMMA UnloadLife ==
    ASSUME LifeInv, misuse = {}, NEW c \in Unmounts, Unload(c)
    PROVE  DelayOK' /\ NodeOK' /\ misuse' = {}
<1>1. /\ UNCHANGED <<h, hTicks, lag, up, port, knows, dn_Task, uTicks>>
      /\ u[c] = "delay" /\ uTicks[c] = 0 /\ Found(c)
  BY DEF Unload, handlerVars, programVars, Found
<1>2. /\ QueueOK /\ DelayOK /\ NodeOK
      /\ u \in [Unmounts -> {"start", "port", "sent", "answered", "delay", "ok",
                             "fail", "error"}]
  BY DEF LifeInv, QueueOK
<1>3. PICK s \in {"ok", "fail"} :
         /\ u' = [u EXCEPT ![c] = s]
         /\ s = "ok" => ~dn_Task
         /\ s = "fail" => dn_Task /\ UNCHANGED <<dn, loaded>>
  BY DEF Unload
<1>4. u'[c] = s /\ \A d \in Unmounts \ {c} : u'[d] = u[d]
  BY <1>2, <1>3
<1>5. DelayOK'
  BY <1>1, <1>2, <1>4 DEF DelayOK, Stopped
<1>6. dn # "freed" /\ loaded
  <2>1. \A d \in Unmounts : u[d] # "ok"
    BY <1>1, <1>2 DEF QueueOK, Found
  <2> QED
    BY <1>2, <2>1 DEF NodeOK
<1>7. misuse' = {}
  BY <1>6 DEF Unload
<1>8. s = "ok" => h = "returned"
  <2> SUFFICES ASSUME ~dn_Task, h # "returned" PROVE FALSE
    BY <1>3
  <2>1. h \notin Starting
    BY <1>1, <1>2 DEF NodeOK
  <2>2. Stopped
    BY <1>2, <2>1 DEF QueueOK, Stopped
  <2>3. hTicks + (MaxLag - lag) < 0 /\ hTicks \in 0 .. HANDLER_DELAY /\ lag \in 0 .. MaxLag
    BY <1>1, <1>2, <2>2 DEF DelayOK
  <2> QED
    BY <2>3, DelaysAssumption
<1>9. NodeOK'
  <2>1. \A d \in Unmounts : /\ Found(d)' => Found(d)
                            /\ u'[d] = "answered" => u[d] = "answered"
    BY <1>1, <1>4 DEF Found
  <2>2. ~loaded' \/ dn' = "freed" => h' = "returned" /\ u'[c] = "ok"
    BY <1>1, <1>3, <1>4, <1>6, <1>8
  <2> QED
    BY <1>1, <1>2, <2>1, <2>2 DEF NodeOK, Stopped
<1> QED
  BY <1>5, <1>7, <1>9

\* A step of start-up finds its own answer in the port.
LEMMA StartLife ==
    ASSUME LifeInv, misuse = {},
           \/ CreateLogPort \/ OpenConsole \/ CreateSerReq \/ CreateTimeReq
           \/ OpenSerial \/ SetParams \/ OpenTimer \/ CreateBuffer
    PROVE  DelayOK' /\ NodeOK' /\ misuse' = {}
<1>1. PICK here \in Starting \ {"startup"}, next \in (Starting \ {"startup"}) \cup {"loop"} :
         /\ h = here /\ h' \in {next, "cleanup"} /\ up' = (h' = "loop")
         /\ misuse' = IF here = "logfh" THEN Stolen ELSE {}
         /\ UNCHANGED <<hTicks, lag, port, programVars, nodeVars, unmountVars>>
  BY DEF CreateLogPort, OpenConsole, CreateSerReq, CreateTimeReq, OpenSerial,
     SetParams, OpenTimer, CreateBuffer, Try, Starting
<1>2. /\ QueueOK /\ DelayOK /\ NodeOK
      /\ UNCHANGED <<u, uTicks, dn_Task, dn, loaded, knows, port>>
  BY <1>1 DEF LifeInv, nodeVars, unmountVars, programVars
<1>3. dn_Task /\ ~up /\ ~Stopped /\ ~Stopped'
  BY <1>1, <1>2 DEF QueueOK, NodeOK, Stopped
<1>4. DelayOK'
  BY <1>1, <1>2, <1>3, DelaysSame DEF DelayOK, Starting
<1>5. /\ h' \in Starting => ~up'
      /\ h' \in {"loop", "delay", "returned"} => up'
      /\ h # "returned"
  BY <1>1 DEF Starting
<1>6. NodeOK'
  BY <1>2, <1>3, <1>5, NodeSame
<1>7. Stolen = {}
  BY <1>2, <1>3 DEF NodeOK, Stolen
<1> QED
  BY <1>1, <1>4, <1>6, <1>7

\* Close() may take a packet for its answer, of a program that the end of the
\* handler has surprised.
LEMMA EndLife ==
    ASSUME LifeInv, misuse = {}, DelayOver \/ Release \/ Return
    PROVE  DelayOK' /\ NodeOK' /\ NoMisuse'
<1>1. /\ HeldOK /\ QueueOK /\ DelayOK /\ NodeOK
      /\ UNCHANGED <<u, uTicks, kept, port, knows, dn_Task, dn, loaded, hTicks, lag>>
  BY DEF LifeInv, DelayOver, Release, Return, nodeVars, unmountVars, programVars
<1>2. /\ \/ h = "delay" /\ h' = "cleanup" /\ hTicks = 0 /\ UNCHANGED up
         \/ h = "cleanup" /\ h' = "cleanup" /\ UNCHANGED up
         \/ h = "cleanup" /\ h' = "returned" /\ up'
  BY DEF DelayOver, Release, Return
<1>3. DelayOK'
  BY <1>1, <1>2, DelaysSame DEF DelayOK, Stopped
<1>4. NodeOK'
  BY <1>1, <1>2, NodeSame DEF Stopped, Starting
<1>5. CASE Release
  <2>1. /\ todo \in Suffixes /\ todo # <<>> /\ held = {todo[i] : i \in DOMAIN todo}
        /\ h = "cleanup" /\ h' = "cleanup"
    BY <1>1, <1>5 DEF Release, HeldOK
  <2>2. Head(todo) \in held /\ Before(Head(todo)) \cap held = {}
    BY <2>1, ReleaseHeld
  <2>3. misuse' \subseteq {"stolen"}
    BY <1>5, <2>2 DEF Release, Stolen
  <2>4. Orphaned' \/ Stopped
    BY <1>1, <2>1 DEF Orphaned, Stopped
  <2>5. Stopped => \A i \in DOMAIN port : port[i] \in kept
    BY <1>1, LeftOver DEF QueueOK
  <2>6. NoMisuse'
    BY <1>1, <2>3, <2>4, <2>5 DEF NoMisuse
  <2> QED
    BY <1>3, <1>4, <2>6
<1> QED
  BY <1>3, <1>4, <1>5, Clean DEF DelayOver, Return

LEMMA HandleDieLife ==
    ASSUME LifeInv, misuse = {}, HandleDie
    PROVE  DelayOK' /\ NodeOK' /\ misuse' = {}
<1>1. QueueOK /\ DelayOK /\ NodeOK
  BY DEF LifeInv
<1>2. QueueOK' /\ Stopped' /\ \A c \in Unmounts : Found(c)' <=> Found(c)
  BY <1>1, HandleDieQueue
<1>3. PICK c \in Unmounts :
         /\ h = "loop" /\ h' = "delay" /\ dn_Task' = FALSE /\ hTicks' = HANDLER_DELAY
         /\ u' = [u EXCEPT ![c] = "answered"]
         /\ UNCHANGED <<lag, up, dn, loaded, uTicks>>
  BY DEF HandleDie
<1>5. u'[c] = "answered"
  BY <1>1, <1>3 DEF QueueOK
<1>6. \A d \in Unmounts : u'[d] # "delay"
  BY <1>2, <1>5 DEF QueueOK, Found
<1>7. dn # "freed" /\ loaded /\ up
  BY <1>1, <1>3 DEF NodeOK
<1>8. misuse' = {}
  BY <1>7 DEF HandleDie
<1>9. DelayOK'
  BY <1>1, <1>3, <1>6, DelaysAssumption DEF DelayOK
<1>10. up' /\ h' \notin Starting
  BY <1>3, <1>7 DEF Starting
<1>11. NodeOK'
  BY <1>2, <1>3, <1>7, <1>10 DEF NodeOK
<1> QED
  BY <1>8, <1>9, <1>11

\* The loop ends without ACTION_DIE: dn_Task keeps the handler's port.
LEMMA CriticalLife ==
    ASSUME LifeInv, misuse = {}, Critical
    PROVE  DelayOK' /\ NodeOK' /\ misuse' = {}
<1>1. QueueOK /\ DelayOK /\ NodeOK
  BY DEF LifeInv
<1>2. /\ h = "loop" /\ h' = "delay" /\ hTicks' = HANDLER_DELAY
      /\ UNCHANGED <<lag, up, u, uTicks, port, knows, dn_Task, dn, loaded, misuse>>
  BY DEF Critical, nodeVars, unmountVars, programVars
<1>3. dn_Task /\ ~Stopped /\ ~Stopped' /\ up /\ up'
  BY <1>1, <1>2 DEF QueueOK, NodeOK, Stopped
<1>4. DelayOK'
  BY <1>1, <1>2, <1>3, DelaysAssumption DEF DelayOK
<1>5. NodeOK'
  BY <1>1, <1>2, <1>3, NodeSame DEF Starting
<1> QED
  BY <1>2, <1>4, <1>5

LEMMA UnmountLife ==
    ASSUME NoHurry, LifeInv, misuse = {}, NEW c \in Unmounts,
           Find(c) \/ SendDie(c) \/ DieAnswered(c)
    PROVE  DelayOK' /\ NodeOK' /\ NoMisuse'
<1>1. /\ QueueOK /\ DelayOK /\ NodeOK
      /\ u \in [Unmounts -> {"start", "port", "sent", "answered", "delay", "ok",
                             "fail", "error"}]
  BY DEF LifeInv, QueueOK
<1>2. /\ UNCHANGED <<h, up, knows, dn_Task, dn, loaded, hTicks, lag>>
      /\ UNCHANGED Stopped
  BY DEF Find, SendDie, DieAnswered, handlerVars, nodeVars, programVars, Stopped
<1>3. PICK s \in {"port", "error", "sent", "delay"} : u' = [u EXCEPT ![c] = s]
  BY DEF Find, SendDie, DieAnswered, StartDelay
<1>4. u'[c] = s /\ \A d \in Unmounts \ {c} : u'[d] = u[d]
  BY <1>1, <1>3
<1>5. up /\ u[c] \in {"start", "port", "answered"}
  <2>1. CASE Find(c)
    BY <2>1 DEF Find, Ready, NoHurry
  <2>2. CASE SendDie(c) \/ DieAnswered(c)
    BY <1>1, <2>2 DEF SendDie, DieAnswered, NodeOK, Found
  <2> QED
    BY <2>1, <2>2
<1>6. NodeOK'
  <2>1. \A d \in Unmounts : u'[d] = "answered" => u[d] = "answered"
    BY <1>4
  <2>2. \A d \in Unmounts : u[d] = "ok" => u'[d] = "ok"
    BY <1>4, <1>5
  <2> QED
    BY <1>1, <1>2, <1>5, <2>1, <2>2 DEF NodeOK
<1>7. DelayOK'
  <2>1. CASE StartDelay(c)
    <3>1. DOMAIN u = Unmounts
      BY <1>1
    <3> QED
      BY <1>1, <1>2, <2>1, <3>1, StartDelayOK
  <2>2. CASE s # "delay" /\ UNCHANGED uTicks
    BY <1>1, <1>2, <1>4, <2>2 DEF DelayOK
  <2> QED
    BY <1>3, <1>4, <2>1, <2>2 DEF Find, SendDie, DieAnswered
<1>8. NoMisuse'
  <2>1. CASE SendDie(c)
    <3>1. ~Stopped
      BY <1>1, <2>1, SendDieQueue
    <3>2. dn_Task
      BY <1>1, <1>5, <3>1 DEF QueueOK, NodeOK, Stopped
    <3>3. misuse' \in {DeadPort, {}}
      BY <2>1, <3>2 DEF SendDie
    <3> QED
      BY <1>2, <3>2, <3>3 DEF DeadPort, NoMisuse, Orphaned
  <2>2. CASE Find(c) \/ DieAnswered(c)
    BY <2>2, Clean DEF Find, DieAnswered
  <2> QED
    BY <2>1, <2>2
<1> QED
  BY <1>6, <1>7, <1>8

\* Programs find the device and use the port that they know.
LEMMA ProgramLife ==
    ASSUME NoHurry, LifeInv, misuse = {}, NEW p \in Programs,
           Lookup(p) \/ Request(p)
    PROVE  DelayOK' /\ NodeOK' /\ NoMisuse'
<1>1. QueueOK /\ DelayOK /\ NodeOK
  BY DEF LifeInv
<1>2. UNCHANGED <<h, up, u, uTicks, kept, dn_Task, dn, loaded, hTicks, lag>>
  BY DEF Lookup, Request, handlerVars, nodeVars, unmountVars
<1>3. up
  BY <1>1 DEF Lookup, Request, Ready, NoHurry, NodeOK
<1>4. DelayOK' /\ NodeOK'
  BY <1>1, <1>2, <1>3 DEF DelayOK, NodeOK, Stopped, Found
<1>5. CASE Lookup(p)
  BY <1>4, <1>5, Clean DEF Lookup
<1>6. CASE Request(p)
  <2>1. CASE h # "returned"
    BY <1>4, <1>6, <2>1, Clean DEF Request, DeadPort
  <2>2. CASE h = "returned"
    <3>1. misuse' = {"deadport"} /\ QueueOK' /\ (Orphaned' \/ Stopped')
      BY <1>1, <1>2, <1>6, <2>2, RequestQueue DEF Request, DeadPort, Orphaned, Stopped
    <3>2. Stopped' => \A i \in DOMAIN port' : port'[i] \in kept'
      <4>1. Stopped' => \A i \in 1 .. Len(port') : port'[i] \in kept'
        <5>1. Stopped' => \E d \in Unmounts : u[d] \in {"answered", "delay", "ok"}
          BY <1>2, <3>1 DEF QueueOK
        <5> SUFFICES ASSUME Stopped' PROVE \A i \in 1 .. Len(port') : port'[i] \in kept'
          OBVIOUS
        <5>2. \A d \in Unmounts : u[d] # "sent"
          BY <1>1, <5>1 DEF QueueOK, Found
        <5>3. waiting' \subseteq kept'
          <6>1. ~mounted'
            BY <1>2, <3>1, <5>1 DEF QueueOK, Found
          <6> QED
            BY <3>1, <6>1 DEF QueueOK
        <5> QED
          BY <1>2, <3>1, <5>2, <5>3 DEF QueueOK
      <4>2. port' \in Seq(Programs \cup Unmounts)
        BY <3>1 DEF QueueOK
      <4>3. DOMAIN port' = 1 .. Len(port')
        BY <4>2
      <4> QED
        BY <4>1, <4>3
    <3>3. NoMisuse'
      BY <3>1, <3>2 DEF NoMisuse
    <3> QED
      BY <1>4, <3>3
  <2> QED
    BY <2>1, <2>2
<1> QED
  BY <1>5, <1>6

\* Every other step.
LEMMA OtherLife ==
    ASSUME LifeInv, misuse = {}, Startup \/ HandlePacket \/ Tick
    PROVE  DelayOK' /\ NodeOK' /\ misuse' = {}
<1>1. QueueOK /\ DelayOK /\ NodeOK
  BY DEF LifeInv
<1>2. CASE Startup
  <2>1. /\ ~Stopped /\ ~Stopped' /\ h' = "logport" /\ h = "startup"
        /\ UNCHANGED <<u, uTicks, up, port, knows, dn, loaded, hTicks, lag, misuse>>
    BY <1>2 DEF Startup, Stopped, Starting, unmountVars, programVars
  <2>2. h \in Starting /\ ~up /\ ~up'
    BY <1>1, <2>1 DEF NodeOK, Starting
  <2> QED
    BY <1>1, <2>1, <2>2, DelaysSame, NodeSame DEF DelayOK
<1>3. CASE HandlePacket
  <2>1. /\ h = "loop"
        /\ UNCHANGED <<h, up, u, uTicks, dn_Task, dn, loaded, hTicks, lag, misuse>>
    BY <1>3 DEF HandlePacket, handlerVars, nodeVars, unmountVars
  <2>2. up /\ up' /\ h \notin Starting
    BY <1>1, <2>1 DEF NodeOK, Starting
  <2> QED
    BY <1>1, <2>1, <2>2 DEF DelayOK, NodeOK, Stopped, Found
<1>4. CASE Tick
  <2>1. UNCHANGED <<h, up, u, port, knows, dn_Task, dn, loaded, misuse>>
    BY <1>4 DEF Tick, nodeVars, programVars
  <2> QED
    BY <1>1, <1>4, <2>1, TickDelay, NodeSame DEF NodeOK, Stopped
<1> QED
  BY <1>2, <1>3, <1>4

LEMMA StutterLife ==
    ASSUME LifeInv, UNCHANGED vars
    PROVE  DelayOK' /\ NodeOK' /\ NoMisuse'
<1>1. DelayOK /\ NodeOK /\ NoMisuse
  BY DEF LifeInv
<1>2. UNCHANGED <<h, up, u, uTicks, port, knows, kept, dn_Task, dn, loaded, hTicks,
                  lag, misuse>>
  BY DEF vars, handlerVars, nodeVars, unmountVars, programVars
<1>3. DelayOK' /\ NodeOK'
  BY <1>1, <1>2, DelaysSame, NodeSame DEF DelayOK, NodeOK, Stopped
<1>4. NoMisuse'
  BY <1>1, <1>2 DEF NoMisuse, Orphaned
<1> QED
  BY <1>3, <1>4

LEMMA SpecLife == ASSUME NoHurry PROVE Spec => []LifeInv
<1>1. Init => LifeInv
  <2> SUFFICES ASSUME Init PROVE LifeInv
    OBVIOUS
  <2>1. HeldOK
    BY DEF Init, HeldOK, HeldAt, Starting
  <2>2. DelayOK
    BY DelaysAssumption DEF Init, DelayOK
  <2>3. NodeOK
    BY DEF Init, NodeOK, Found
  <2> QED
    BY <2>1, <2>2, <2>3, InitQueue DEF LifeInv, Init, NoMisuse
<1>2. LifeInv /\ [Next]_vars => LifeInv'
  <2> SUFFICES ASSUME LifeInv, [Next]_vars PROVE LifeInv'
    OBVIOUS
  <2>1. HeldOK' /\ QueueOK'
    BY StepHeld, StepQueue DEF LifeInv
  <2>2. DelayOK' /\ NodeOK' /\ NoMisuse'
    <3>1. CASE UNCHANGED vars
      BY <3>1, StutterLife
    <3>2. CASE Next
      BY <3>2, StartLife, EndLife, HandleDieLife, CriticalLife, UnmountLife,
         UnloadLife, ProgramLife, OtherLife, Clean
      DEF Next, Entry, Unmount
    <3> QED
      BY <3>1, <3>2
  <2> QED
    BY <2>1, <2>2 DEF LifeInv
<1> QED
  BY <1>1, <1>2, PTL DEF Spec

\* A handler that is not used in a hurry releases what it holds and nothing
\* else, a device before its request, and its device node is used only until
\* the one unmount command that has found it frees it.  It takes a packet for
\* its own answer, or is sent one when it has ended, only if it has stopped
\* with dn_Task set, or by programs that had its port before unmount began.
THEOREM NothingIsMisused == ASSUME NoHurry PROVE Spec => []NoMisuse
<1>1. LifeInv => NoMisuse
  BY DEF LifeInv
<1> QED
  BY <1>1, SpecLife, PTL

\* For every HANDLER_DELAY and UNMOUNT_DELAY with more than MaxLag between
\* them: unmount unloads the code of a handler that has returned.
THEOREM CodeIsUnloadedLast == ASSUME NoHurry PROVE Spec => []UnloadedAfterReturn
<1>1. LifeInv => UnloadedAfterReturn
  BY DEF LifeInv, NodeOK, UnloadedAfterReturn
<1> QED
  BY <1>1, SpecLife, PTL
=============================================================================
