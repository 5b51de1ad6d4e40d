------------------------------ MODULE FileQueue ------------------------------
(****************************************************************************)
(* What the handler promises to the programs that copy files to NET: and to *)
(* the user who lists the queue, without packets, timers and block numbers: *)
(* files are sent one at a time in the order they were opened, among those  *)
(* that are closed, each piece by piece and from the start; a file is done  *)
(* when all of it has been acknowledged, and one that has failed stays so.  *)
(****************************************************************************)
EXTENDS Integers, Sequences

CONSTANT BlockSize   \* the largest piece acknowledged at once

VARIABLE files       \* the queue: [st, accepted, acked] for each file

Sent == {f \in DOMAIN files : files[f].st = "sending"}

\* File f is next: nothing is being sent and f is the oldest closed file.
NextInLine(f) ==
    /\ Sent = {} /\ files[f].st = "closed"
    /\ \A g \in 1 .. f - 1 : files[g].st # "closed"

Open == files' = Append(files, [st |-> "open", accepted |-> 0, acked |-> 0])

Write(f) ==
    /\ files[f].st = "open"
    /\ files'[f].accepted > files[f].accepted
    /\ files' = [files EXCEPT ![f].accepted = files'[f].accepted]

Close(f) == /\ files[f].st = "open"
            /\ files' = [files EXCEPT ![f].st = "closed"]

Start(f) == /\ NextInLine(f)
            /\ files' = [files EXCEPT ![f].st = "sending"]

Progress(f) ==
    /\ files[f].st = "sending"
    /\ \E n \in 1 .. BlockSize :
          /\ files[f].acked + n <= files[f].accepted
          /\ files' = [files EXCEPT ![f].acked = @ + n]

Finish(f) == /\ files[f].st = "sending"
             /\ files[f].acked = files[f].accepted
             /\ files' = [files EXCEPT ![f].st = "done"]

Fail(f) == /\ files[f].st = "sending" \/ NextInLine(f)
           /\ files' = [files EXCEPT ![f].st = "failed"]

Init == files = <<>>

Next ==
    \/ Open
    \/ \E f \in DOMAIN files : \/ Write(f) \/ Close(f) \/ Start(f)
                               \/ Progress(f) \/ Finish(f) \/ Fail(f)

Spec == Init /\ [][Next]_files
=============================================================================
