------------------------------- MODULE Listing -------------------------------
(****************************************************************************)
(* The directory of NET:, that is the queue of file transfers, as programs  *)
(* see it: the handlers of dos.c for locks and for Examine() and ExNext(),  *)
(* and the program listq, several instances of which run while files are    *)
(* added to the queue and while copy looks for its target.                  *)
(*                                                                          *)
(* A handler runs to its end before the next packet is read, so the packet  *)
(* a program sends, its handler and the reply are one action.  Files are    *)
(* known by their names; their states are not needed here.                  *)
(****************************************************************************)
EXTENDS Integers, Sequences, SequencesExt

CONSTANTS
    Programs,          \* processes running listq or copy
    Names,             \* file names
    Memory,            \* addresses AllocVec() may return for a LinkedLock
    MaxFiles           \* bound: files in the queue

ASSUME SizeAssumption == MaxFiles \in Nat

NULL == "NULL"
TAIL == 0              \* &g_transfers.lh_Tail, the end of every iteration
ROOT == 0              \* fl_Key of a lock for the whole queue

ASSUME MemoryAssumption == NULL \notin Memory
ASSUME NameAssumption == NULL \notin Names

VARIABLES
    g_transfers,   \* the queue: names, oldest first; nodes are never removed
    g_locks,       \* the list of locks: address and fl_Key of each
    allocated,     \* LinkedLock structures in memory, in the list or leaked
    pc,            \* where a program is
    lock,          \* its lock
    asked,         \* the name it has locked (NULL: the whole queue)
    fib_DiskKey,   \* the one field of its FileInfoBlock that is read back
    seen,          \* history: the files ExNext() has returned to it
    start          \* history: files in the queue when it called Examine()

progVars == <<pc, lock, asked, fib_DiskKey, seen, start>>
vars == <<g_transfers, g_locks, allocated, progVars>>

Goto(p, l) == pc' = [pc EXCEPT ![p] = l]

\* find_lock_in_list()
Known(a) == \E i \in DOMAIN g_locks : g_locks[i].addr = a
IndexOf(a) == CHOOSE i \in DOMAIN g_locks : g_locks[i].addr = a
KeyOf(a) == g_locks[IndexOf(a)].fl_Key

\* FindName() returns file i.
FindName(n, i) ==
    g_transfers[i] = n /\ \A j \in 1 .. i - 1 : g_transfers[j] # n

------------------------------------------------------------------------------
(* do_locate_object(): the structure is allocated before all else *)

LocateOk(p, key, n) ==
    \E a \in Memory \ allocated :
        /\ allocated' = allocated \cup {a}
        /\ g_locks' = Append(g_locks, [addr |-> a, fl_Key |-> key])
        /\ lock' = [lock EXCEPT ![p] = a]
        /\ asked' = [asked EXCEPT ![p] = n]
        /\ Goto(p, "examine")
        /\ UNCHANGED <<g_transfers, fib_DiskKey, seen, start>>

\* Every reply with an error leaves the structure allocated.
LocateFailed(p) ==
    /\ \/ Memory \subseteq allocated /\ UNCHANGED allocated
       \/ \E a \in Memory \ allocated : allocated' = allocated \cup {a}
    /\ Goto(p, "done")
    /\ UNCHANGED <<g_transfers, g_locks, lock, asked, fib_DiskKey, seen, start>>

\* listq: the whole queue; one file, found or not.  The path of copy is a
\* URL, and there is no lock for what it is about to create.
LockRoot(p) ==
    /\ pc[p] = "start"
    /\ \/ LocateOk(p, ROOT, NULL)
       \/ Memory \subseteq allocated /\ LocateFailed(p)
LockFile(p) ==
    /\ pc[p] = "start"
    /\ \E n \in Names :
          \/ \E i \in DOMAIN g_transfers : FindName(n, i) /\ LocateOk(p, i, n)
          \/ /\ \/ Memory \subseteq allocated
                \/ \A i \in DOMAIN g_transfers : g_transfers[i] # n
             /\ LocateFailed(p)
LockUrl(p) == pc[p] = "start" /\ LocateFailed(p)

------------------------------------------------------------------------------
(* do_examine_object() and do_examine_next() *)

\* Mutants of the next: the last node has a successor; it is taken for the
\* end of the list.
SuccPastLast(i) == i + 1
SuccBeforeLast(i) == IF i + 1 < Len(g_transfers) THEN i + 1 ELSE TAIL

\* ln_Succ of file i.
Succ(i) == IF i < Len(g_transfers) THEN i + 1 ELSE TAIL

\* For the root the block is set to the first file, for a file to the file.
Examine(p) ==
    /\ pc[p] = "examine"
    /\ start' = [start EXCEPT ![p] = Len(g_transfers)]
    /\ \/ /\ ~Known(lock[p]) \/ (KeyOf(lock[p]) = ROOT /\ g_transfers = <<>>)
          /\ Goto(p, "unlock")
          /\ UNCHANGED <<fib_DiskKey, seen>>
       \/ /\ Known(lock[p]) /\ KeyOf(lock[p]) = ROOT /\ g_transfers # <<>>
          /\ fib_DiskKey' = [fib_DiskKey EXCEPT ![p] = 1]
          /\ Goto(p, "exnext")
          /\ UNCHANGED seen
       \/ /\ Known(lock[p]) /\ KeyOf(lock[p]) # ROOT
          /\ LET i == KeyOf(lock[p]) IN
                /\ fib_DiskKey' = [fib_DiskKey EXCEPT ![p] = i]
                /\ seen' = [seen EXCEPT ![p] = <<i>>]
          /\ Goto(p, "unlock")
    /\ UNCHANGED <<g_transfers, g_locks, allocated, lock, asked>>

\* The file in fib_DiskKey is returned and fib_DiskKey moved to the next.
ExNext(p) ==
    LET i == fib_DiskKey[p] IN
    /\ pc[p] = "exnext"
    /\ \/ /\ Known(lock[p]) /\ KeyOf(lock[p]) = ROOT /\ i # TAIL
          /\ fib_DiskKey' = [fib_DiskKey EXCEPT ![p] = Succ(i)]
          /\ seen' = [seen EXCEPT ![p] = Append(@, i)]
          /\ UNCHANGED pc
       \/ /\ ~Known(lock[p]) \/ KeyOf(lock[p]) # ROOT \/ i = TAIL
          /\ Goto(p, "unlock")
          /\ UNCHANGED <<fib_DiskKey, seen>>
    /\ UNCHANGED <<g_transfers, g_locks, allocated, lock, asked, start>>

------------------------------------------------------------------------------
(* ACTION_FREE_LOCK *)

\* Mutant of the next: the first lock of the list is removed.
RemoveFirstLock(a) ==
    /\ g_locks' = Tail(g_locks)
    /\ allocated' = allocated \ {g_locks[1].addr}
\* Remove() and FreeVec() of the LinkedLock found in the list.
RemoveLock(a) ==
    /\ g_locks' = RemoveAt(g_locks, IndexOf(a))
    /\ allocated' = allocated \ {a}

Unlock(p) ==
    /\ pc[p] = "unlock"
    /\ IF Known(lock[p]) THEN RemoveLock(lock[p])
                         ELSE UNCHANGED <<g_locks, allocated>>
    /\ lock' = [lock EXCEPT ![p] = NULL]
    /\ Goto(p, "done")
    /\ UNCHANGED <<g_transfers, asked, fib_DiskKey, seen, start>>

\* The program is run again.
Restart(p) ==
    /\ pc[p] = "done"
    /\ Goto(p, "start")
    /\ asked' = [asked EXCEPT ![p] = NULL]
    /\ fib_DiskKey' = [fib_DiskKey EXCEPT ![p] = TAIL]
    /\ seen' = [seen EXCEPT ![p] = <<>>] /\ start' = [start EXCEPT ![p] = 0]
    /\ UNCHANGED <<g_transfers, g_locks, allocated, lock>>

\* do_find_output() adds a file at the tail.
NewFile ==
    /\ Len(g_transfers) < MaxFiles
    /\ \E n \in Names : g_transfers' = Append(g_transfers, n)
    /\ UNCHANGED <<g_locks, allocated, progVars>>

------------------------------------------------------------------------------

Init ==
    /\ g_transfers = <<>> /\ g_locks = <<>> /\ allocated = {}
    /\ pc = [p \in Programs |-> "start"]
    /\ lock = [p \in Programs |-> NULL] /\ asked = [p \in Programs |-> NULL]
    /\ fib_DiskKey = [p \in Programs |-> TAIL]
    /\ seen = [p \in Programs |-> <<>>] /\ start = [p \in Programs |-> 0]

Next ==
    \/ \E p \in Programs :
          \/ LockRoot(p) \/ LockFile(p) \/ LockUrl(p)
          \/ Examine(p) \/ ExNext(p) \/ Unlock(p) \/ Restart(p)
    \/ NewFile

Spec == Init /\ [][Next]_vars

------------------------------------------------------------------------------
(* Properties *)

\* The type invariant of the lists and of the programs.
TypeOK ==
    /\ g_transfers \in Seq(Names)
    /\ g_locks \in Seq([addr : Memory, fl_Key : 0 .. Len(g_transfers)])
    /\ allocated \subseteq Memory
    /\ pc \in [Programs -> {"start", "examine", "exnext", "unlock", "done"}]
    /\ lock \in [Programs -> Memory \cup {NULL}]
    /\ asked \in [Programs -> Names \cup {NULL}]
    /\ fib_DiskKey \in [Programs -> 0 .. Len(g_transfers)]
    /\ seen \in [Programs -> Seq(1 .. Len(g_transfers))]
    /\ start \in [Programs -> 0 .. Len(g_transfers)]

\* However files are added meanwhile, a listing of the queue has every file
\* that was in it when the listing began, each once and oldest first
\* (fib_DiskKey is kept from packet to packet, dos.c:315-328).
ListingComplete ==
    \A p \in Programs :
        pc[p] = "unlock" /\ asked[p] = NULL =>
            /\ seen[p] = [i \in 1 .. Len(seen[p]) |-> i]
            /\ Len(seen[p]) >= start[p]

\* The lock a program has been given is in g_locks until the program itself
\* frees it, no other program has the same one, and it still names the file
\* asked for: what AllocVec() returns again has been removed from the list
\* (handler.c:189-192).
LockHeld ==
    \A p \in Programs :
        pc[p] \in {"examine", "exnext", "unlock"} =>
            /\ Known(lock[p])
            /\ \A q \in Programs \ {p} : lock[q] # lock[p]
            /\ KeyOf(lock[p]) = ROOT <=> asked[p] = NULL
            /\ asked[p] # NULL => g_transfers[KeyOf(lock[p])] = asked[p]
=============================================================================
