------------------------------ MODULE Lifecycle ------------------------------
(****************************************************************************)
(* The life of the handler's process from mount to unmount: the part of     *)
(* entry() before and after the message loop, netio_init() and netio_exit(),*)
(* the program unmount, and programs that use NET: meanwhile.  What happens *)
(* inside the loop is Handler's business; here a packet is answered, is     *)
(* ACTION_DIE, or meets one of the errors that end the loop.                *)
(*                                                                          *)
(* A program has the handler's port as soon as it has found the device, and *)
(* keeps it as long as it has a file open or a lock: it needs the list of   *)
(* devices only once.  When an operation without a defined result has been  *)
(* executed the model stops.                                                *)
(*                                                                          *)
(* Time is counted in ticks, as unmount relies on nothing else: it frees    *)
(* the handler's code a fixed delay after ACTION_DIE was answered.          *)
(****************************************************************************)
EXTENDS Integers, Sequences

CONSTANTS
    Programs,        \* programs that use NET:
    Unmounts,        \* unmount commands
    HANDLER_DELAY,   \* Delay(150) at the end of entry(), in ticks
    UNMOUNT_DELAY,   \* Delay(250) in unmount
    MaxLag,          \* bound: ticks the handler may wait for the processor
    Faults           \* what may go wrong, see FaultEvents

\* startup   an allocation or OpenDevice() of the handler fails
\* memory    CreateMsgPort() or AllocVec() of unmount fails
\* critical  the loop ends by a CRITICAL error of dos.c
\* hurry     NET: is used before the handler is ready (cwtest.bat:15 waits)
FaultEvents == {"startup", "memory", "critical", "hurry"}

ASSUME NamesAssumption  == Programs \cap Unmounts = {}
ASSUME FaultsAssumption == Faults \subseteq FaultEvents
ASSUME DelaysAssumption ==
    /\ HANDLER_DELAY \in Nat /\ MaxLag \in Nat
    /\ UNMOUNT_DELAY \in Nat /\ HANDLER_DELAY + MaxLag < UNMOUNT_DELAY

VARIABLES
    h,         \* the handler: what it acquires next, or where it is
    todo,      \* what it still has to release, in this order
    held,      \* what it holds
    hTicks,    \* ticks left of its Delay()
    lag,       \* ticks it has waited for the processor since ACTION_DIE
    up,        \* the handler has come to the end of its start-up
    port,      \* its message port: the senders of the packets queued
    knows,     \* the programs that have the handler's port
    waiting,   \* the programs that wait for an answer
    mounted,   \* the device node is in the list of devices
    dn_Task,   \* TRUE: the device node names the handler's port
    dn,        \* the device node: allocated or freed
    loaded,    \* the handler's code is in memory
    u,         \* where each unmount command is
    uTicks,    \* ticks left of its Delay()
    kept,      \* history: the programs that had the port when unmount took
               \*   the device out of the list
    misuse     \* history: operations with undefined result

handlerVars == <<h, todo, held, hTicks, up>>
programVars == <<knows, waiting>>
nodeVars    == <<mounted, dn_Task, dn, loaded>>
unmountVars == <<u, uTicks, kept>>
vars == <<handlerVars, lag, port, programVars, nodeVars, unmountVars, misuse>>

------------------------------------------------------------------------------
(* Start-up: each resource has an action, each failure a label to go to *)

Starting == {"startup", "logport", "logfh", "sreq", "treq", "serial",
             "params", "timer", "tftppkt"}

\* What the code behind each label releases; a label falls through to the
\* next one.
NetioExit == <<"timer", "serial", "treq", "sreq">>
NoPort    == <<>>
NoLogging == <<"logport">>
NoNetio   == <<"logfh">> \o NoLogging
NoMemory  == NetioExit \o NoNetio
LoopEnd   == <<"tftppkt">> \o NoMemory

\* The startup packet arrives, dn_Task is set and the packet returned.
Startup ==
    /\ h = "startup"
    /\ h' = "logport" /\ dn_Task' = TRUE
    /\ UNCHANGED <<todo, held, hTicks, up, lag, port, programVars, mounted, dn,
                   loaded, unmountVars, misuse>>

\* Open() and Close() send a packet and take the next message in the port of
\* the process for its answer.
Stolen == IF port # <<>> THEN {"stolen"} ELSE {}

\* The step here succeeds and acquires the resources rs, or fails.
Try(here, rs, next, cleanup) ==
    /\ h = here
    /\ \/ h' = next /\ held' = held \cup rs /\ UNCHANGED todo
       \/ /\ "startup" \in Faults
          /\ h' = "cleanup" /\ todo' = cleanup /\ UNCHANGED held
    /\ up' = (h' = "loop")
    /\ misuse' = IF here = "logfh" THEN Stolen ELSE {}
    /\ UNCHANGED <<hTicks, lag, port, programVars, nodeVars, unmountVars>>

CreateLogPort == Try("logport", {"logport"}, "logfh", NoPort)
OpenConsole   == Try("logfh", {"logfh"}, "sreq", NoLogging)
CreateSerReq  == Try("sreq", {"sreq"}, "treq", NoNetio)
CreateTimeReq == Try("treq", {"treq"}, "serial", <<"sreq">> \o NoNetio)

\* Mutant of the next: the timer request is forgotten.
OpenSerialLeaking ==
    Try("serial", {"serial"}, "params", <<"sreq">> \o NoNetio)
OpenSerial    == Try("serial", {"serial"}, "params",
                     <<"treq", "sreq">> \o NoNetio)
SetParams     == Try("params", {}, "timer",
                     <<"serial", "treq", "sreq">> \o NoNetio)

OpenTimer     == Try("timer", {"timer"}, "tftppkt",
                     <<"serial", "treq", "sreq">> \o NoNetio)
CreateBuffer  == Try("tftppkt", {"tftppkt"}, "loop", NoMemory)

\* A device is closed before its request is deleted, and the console before
\* the port that log() uses.
Before(r) == CASE r = "sreq" -> {"serial"}
               [] r = "treq" -> {"timer"}
               [] r = "logport" -> {"logfh"}
               [] OTHER -> {}

Release ==
    LET r == Head(todo) IN
    /\ h = "cleanup" /\ todo # <<>>
    /\ held' = held \ {r} /\ todo' = Tail(todo)
    /\ misuse' = (IF r = "logfh" THEN Stolen ELSE {})
                 \cup IF r \notin held \/ Before(r) \cap held # {}
                      THEN {"release"} ELSE {}
    /\ UNCHANGED <<h, hTicks, up, lag, port, programVars, nodeVars, unmountVars>>

Return ==
    /\ h = "cleanup" /\ todo = <<>>
    /\ h' = "returned" /\ up' = TRUE
    /\ UNCHANGED <<todo, held, hTicks, lag, port, programVars, nodeVars,
                   unmountVars, misuse>>

------------------------------------------------------------------------------
(* The message loop and its end *)

\* The packet is returned; its program may have a file or a lock now and
\* goes on to use the port, or has none any more.
HandlePacket ==
    /\ h = "loop" /\ port # <<>> /\ Head(port) \in Programs
    /\ waiting' = waiting \ {Head(port)} /\ port' = Tail(port)
    /\ knows' \in {knows, knows \ {Head(port)}}
    /\ UNCHANGED <<handlerVars, lag, nodeVars, unmountVars, misuse>>

\* do_write_return() or do_read_return() sets g_running to 0; dn_Task keeps
\* naming the port.
Critical ==
    /\ "critical" \in Faults /\ h = "loop"
    /\ h' = "delay" /\ hTicks' = HANDLER_DELAY
    /\ UNCHANGED <<todo, held, up, lag, port, programVars, nodeVars, unmountVars,
                   misuse>>

\* Mutant of the next: the packet is not returned.
HandleDieMute ==
    /\ h = "loop" /\ port # <<>> /\ Head(port) \in Unmounts
    /\ dn_Task' = FALSE
    /\ port' = Tail(port)
    /\ h' = "delay" /\ hTicks' = HANDLER_DELAY
    /\ UNCHANGED <<todo, held, up, lag, programVars, mounted, dn, loaded,
                   unmountVars, misuse>>

\* ACTION_DIE, and the Delay() after the loop.
HandleDie ==
    /\ h = "loop" /\ port # <<>> /\ Head(port) \in Unmounts
    /\ dn_Task' = FALSE
    /\ misuse' = IF dn = "freed" THEN {"freed"} ELSE {}
    /\ u' = [u EXCEPT ![Head(port)] = "answered"] /\ port' = Tail(port)
    /\ h' = "delay" /\ hTicks' = HANDLER_DELAY
    /\ UNCHANGED <<todo, held, up, lag, programVars, mounted, dn, loaded, uTicks,
                   kept>>

DelayOver ==
    /\ h = "delay" /\ hTicks = 0
    /\ h' = "cleanup" /\ todo' = LoopEnd
    /\ UNCHANGED <<held, hTicks, up, lag, port, programVars, nodeVars,
                   unmountVars, misuse>>

------------------------------------------------------------------------------
(* Programs and unmount *)

\* The handler has had the time to start up, or to give up (cwtest.bat:14-15).
Ready == up \/ "hurry" \in Faults

\* dos.library finds the device in the list.
Lookup(p) ==
    /\ p \notin knows /\ Ready /\ mounted /\ dn_Task
    /\ knows' = knows \cup {p}
    /\ UNCHANGED <<handlerVars, lag, port, waiting, nodeVars, unmountVars, misuse>>

\* The port of a process that has ended is used.
DeadPort == IF h = "returned" THEN {"deadport"} ELSE {}

\* A program sends a packet to the port it has.
Request(p) ==
    /\ p \in knows \ waiting
    /\ waiting' = waiting \cup {p} /\ port' = Append(port, p)
    /\ misuse' = DeadPort
    /\ UNCHANGED <<handlerVars, lag, knows, nodeVars, unmountVars>>

\* Mutant of the next: the node is left in the list.
FindOnly(c) ==
    /\ u[c] = "start" /\ Ready
    /\ u' = [u EXCEPT ![c] = IF mounted THEN "port" ELSE "error"]
    /\ kept' = IF mounted THEN knows ELSE kept
    /\ UNCHANGED <<handlerVars, lag, port, programVars, nodeVars, uTicks, misuse>>

\* The device node is taken out of the list, under Forbid().
Find(c) ==
    /\ u[c] = "start" /\ Ready
    /\ \/ /\ mounted
          /\ mounted' = FALSE /\ kept' = knows
          /\ u' = [u EXCEPT ![c] = "port"]
       \/ /\ ~mounted
          /\ u' = [u EXCEPT ![c] = "error"]
          /\ UNCHANGED <<mounted, kept>>
    /\ UNCHANGED <<handlerVars, lag, port, programVars, dn_Task, dn, loaded,
                   uTicks, misuse>>

\* Mutant of the next: no time is left to the handler.
StartNoDelay(c) == /\ u' = [u EXCEPT ![c] = "delay"]
                   /\ uTicks' = [uTicks EXCEPT ![c] = 0]

StartDelay(c) == /\ u' = [u EXCEPT ![c] = "delay"]
                 /\ uTicks' = [uTicks EXCEPT ![c] = UNMOUNT_DELAY]

\* CreateMsgPort(), AllocVec() and PutMsg(); without memory ACTION_DIE is not
\* sent and unmount goes on.
SendDie(c) ==
    /\ u[c] = "port"
    /\ \/ /\ port' = Append(port, c)
          /\ misuse' = IF dn_Task THEN DeadPort ELSE {"nullport"}
          /\ u' = [u EXCEPT ![c] = "sent"] /\ UNCHANGED uTicks
       \/ /\ "memory" \in Faults
          /\ StartDelay(c)
          /\ UNCHANGED <<port, misuse>>
    /\ UNCHANGED <<handlerVars, lag, programVars, nodeVars, kept>>

DieAnswered(c) ==
    /\ u[c] = "answered"
    /\ StartDelay(c)
    /\ UNCHANGED <<handlerVars, lag, port, programVars, nodeVars, kept, misuse>>

\* The handler is still alive, or its code and the device node are freed.
Unload(c) ==
    /\ u[c] = "delay" /\ uTicks[c] = 0
    /\ \/ /\ dn_Task
          /\ u' = [u EXCEPT ![c] = "fail"]
          /\ UNCHANGED <<dn, loaded>>
       \/ /\ ~dn_Task
          /\ u' = [u EXCEPT ![c] = "ok"]
          /\ loaded' = FALSE /\ dn' = "freed"
    /\ misuse' = IF dn = "freed" THEN {"freed"} ELSE {}
    /\ UNCHANGED <<handlerVars, lag, port, programVars, mounted, dn_Task, uTicks,
                   kept>>

------------------------------------------------------------------------------
(* Time *)

Pred(n) == IF n > 0 THEN n - 1 ELSE 0

\* The handler could run: it may be kept waiting for MaxLag ticks.
Late == h = "cleanup" \/ (h = "delay" /\ hTicks = 0)
Tick ==
    /\ hTicks > 0 \/ \E c \in Unmounts : uTicks[c] > 0
    /\ hTicks' = Pred(hTicks)
    /\ uTicks' = [c \in Unmounts |-> Pred(uTicks[c])]
    /\ IF Late THEN lag < MaxLag /\ lag' = lag + 1 ELSE UNCHANGED lag
    /\ UNCHANGED <<h, todo, held, up, port, programVars, nodeVars, u, kept,
                   misuse>>

------------------------------------------------------------------------------
(* The specification *)

\* After mount: the handler's process waits for the startup packet.
Init ==
    /\ h = "startup" /\ todo = <<>> /\ held = {} /\ hTicks = 0 /\ lag = 0
    /\ up = FALSE /\ port = <<>> /\ knows = {} /\ waiting = {} /\ kept = {}
    /\ mounted = TRUE /\ dn_Task = FALSE /\ dn = "allocated" /\ loaded = TRUE
    /\ u = [c \in Unmounts |-> "start"] /\ uTicks = [c \in Unmounts |-> 0]
    /\ misuse = {}

Entry ==
    \/ Startup
    \/ CreateLogPort \/ OpenConsole \/ CreateSerReq \/ CreateTimeReq
    \/ OpenSerial \/ SetParams \/ OpenTimer \/ CreateBuffer
    \/ HandlePacket \/ HandleDie \/ DelayOver \/ Release \/ Return

Unmount(c) == Find(c) \/ SendDie(c) \/ DieAnswered(c) \/ Unload(c)

Next ==
    /\ misuse = {}
    /\ \/ Entry \/ Critical \/ Tick
       \/ \E p \in Programs : Lookup(p) \/ Request(p)
       \/ \E c \in Unmounts : Unmount(c)

\* Time goes on and exec runs the handler and the commands that are ready;
\* no program has to send anything, and no error has to happen.
Spec ==
    /\ Init /\ [][Next]_vars
    /\ WF_vars(misuse = {} /\ Entry) /\ WF_vars(misuse = {} /\ Tick)
    /\ \A c \in Unmounts :
          WF_vars(misuse = {} /\ u[c] # "start" /\ Unmount(c))

------------------------------------------------------------------------------
(* Properties *)

\* The handler has stopped although dn_Task still names its port: its start-up
\* or its loop was ended by an error.
Orphaned == h \in {"delay", "cleanup", "returned"} /\ dn_Task

\* On every path through start-up and end only what is held is released, a
\* device before its request (netio.c:46-69, 85-88), and the device node is
\* not used after unmount has freed it (unmount.c:119, handler.c:221).  Open()
\* and Close() find their own answer in the port (handler.c:78-83, 367) and
\* nobody sends to the port of a process that has ended, unless the handler
\* has stopped with dn_Task set; after ACTION_DIE only programs do that had
\* the port before unmount took the device out of the list (unmount.c:90).
NoMisuse ==
    /\ misuse \subseteq {"stolen", "deadport"}
    /\ misuse # {} => Orphaned \/ \A i \in DOMAIN port : port[i] \in kept

\* The handler returns only when everything it had acquired is released,
\* whichever of its steps has failed (handler.c:85-100, 361-370).
AllReleased == h = "returned" => held = {}

\* The handler's code is unloaded only when it has returned: unmount's delay
\* (unmount.c:118) outlasts the handler's own (handler.c:362) and its end.
UnloadedAfterReturn == ~loaded => h = "returned"

\* Two unmount commands that have started both end, one of them with an
\* error, also while programs go on to send packets; unless the handler has
\* stopped with dn_Task set, as ACTION_DIE to its port is never answered then
\* (unmount.c:109), or somebody has disturbed its end.
UnmountEnds ==
    \A c \in Unmounts :
        u[c] # "start" ~>
            (u[c] \in {"ok", "fail", "error"} \/ Orphaned \/ misuse # {})
=============================================================================
