---------------------------- MODULE ListingProofs ----------------------------
(****************************************************************************)
(* Proofs about the locks of dos.c and the listing of the queue, for any    *)
(* number of programs, files and locks.                                     *)
(****************************************************************************)
EXTENDS Listing, SequenceTheorems, TLAPS

------------------------------------------------------------------------------
(* The inductive invariant *)

Holding == {"examine", "exnext", "unlock"}

\* No structure is in the list twice, and none that has been freed.
LocksOK ==
    /\ \A i, j \in DOMAIN g_locks : g_locks[i].addr = g_locks[j].addr => i = j
    /\ \A i \in DOMAIN g_locks : g_locks[i].addr \in allocated

\* Lock i of the list has been given to program p for what p has asked for.
Given(p, i) ==
    /\ i \in DOMAIN g_locks /\ g_locks[i].addr = lock[p]
    /\ asked[p] = NULL => g_locks[i].fl_Key = ROOT
    /\ asked[p] # NULL => /\ g_locks[i].fl_Key \in DOMAIN g_transfers
                          /\ g_transfers[g_locks[i].fl_Key] = asked[p]

\* A program has a lock of its own from do_locate_object() to
\* ACTION_FREE_LOCK, and none before and after.
HeldOK ==
    /\ \A p \in Programs : pc[p] \in Holding => \E i \in Nat : Given(p, i)
    /\ \A p \in Programs : pc[p] \notin Holding => lock[p] = NULL
    /\ \A p, q \in Programs : /\ pc[p] \in Holding /\ pc[q] \in Holding
                              /\ lock[p] = lock[q]
                              => p = q

\* What a listing has returned is an initial part of the queue, fib_DiskKey
\* is the file behind it, and it is the end of the queue only after all the
\* files the listing began with.
InOrder(s) == \A i \in DOMAIN s : s[i] = i
Listed(p) ==
    /\ pc[p] \in {"start", "examine"} => seen[p] = <<>>
    /\ pc[p] = "exnext" =>
          /\ asked[p] = NULL /\ InOrder(seen[p])
          /\ \/ /\ fib_DiskKey[p] = Len(seen[p]) + 1
                /\ fib_DiskKey[p] <= Len(g_transfers)
             \/ fib_DiskKey[p] = TAIL /\ Len(seen[p]) >= start[p]
    /\ pc[p] = "unlock" /\ asked[p] = NULL =>
          InOrder(seen[p]) /\ Len(seen[p]) >= start[p]
ListOK == \A p \in Programs : Listed(p)

ListInv == TypeOK /\ LocksOK /\ HeldOK /\ ListOK

Lock == [addr : Memory, fl_Key : 0 .. Len(g_transfers)]

------------------------------------------------------------------------------
(* Lemmas about the list of locks *)

\* Remove() closes the gap and leaves the other nodes alone.
LEMMA RemoveOne ==
    ASSUME NEW S, NEW s \in Seq(S), NEW k \in DOMAIN s
    PROVE  /\ RemoveAt(s, k) \in Seq(S)
           /\ Len(RemoveAt(s, k)) = Len(s) - 1
           /\ \A i \in 1 .. Len(s) - 1 :
                 RemoveAt(s, k)[i] = s[IF i < k THEN i ELSE i + 1]
<1> DEFINE n == Len(s)
           u == SubSeq(s, 1, k - 1)
           v == SubSeq(s, k + 1, n)
<1>1. k \in 1 .. n /\ n \in Nat
  OBVIOUS
<1>2. /\ u \in Seq(S) /\ Len(u) = k - 1
      /\ v \in Seq(S) /\ Len(v) = n - k
  BY <1>1
<1>3. /\ \A i \in 1 .. k - 1 : u[i] = s[i]
      /\ \A i \in 1 .. n - k : v[i] = s[k + i]
  BY <1>1
<1>4. RemoveAt(s, k) = u \o v
  BY DEF RemoveAt
<1> HIDE DEF u, v, n
<1>5. /\ u \o v \in Seq(S) /\ Len(u \o v) = (k - 1) + (n - k)
      /\ \A i \in 1 .. (k - 1) + (n - k) :
            (u \o v)[i] = IF i <= k - 1 THEN u[i] ELSE v[i - (k - 1)]
  BY <1>2, ConcatProperties
<1>6. (k - 1) + (n - k) = n - 1
  BY <1>1
<1>7. ASSUME NEW i \in 1 .. n - 1
      PROVE  (u \o v)[i] = s[IF i < k THEN i ELSE i + 1]
  <2>1. CASE i < k
    <3>1. i \in 1 .. k - 1 /\ i <= k - 1
      BY <1>1, <2>1
    <3> QED
      BY <1>3, <1>5, <1>6, <2>1, <3>1
  <2>2. CASE ~(i < k)
    <3>1. /\ i - (k - 1) \in 1 .. n - k /\ ~(i <= k - 1)
          /\ k + (i - (k - 1)) = i + 1
      BY <1>1, <2>2
    <3> QED
      BY <1>3, <1>5, <1>6, <2>2, <3>1
  <2> QED
    BY <2>1, <2>2
<1> QED
  BY <1>4, <1>5, <1>6, <1>7 DEF n

\* find_lock_in_list() finds the one node with the address.
LEMMA FindLock ==
    ASSUME LocksOK, NEW i \in DOMAIN g_locks, NEW a, g_locks[i].addr = a
    PROVE  Known(a) /\ IndexOf(a) = i
BY DEF LocksOK, Known, IndexOf

\* The lock a program holds is found, with what the program has asked for.
LEMMA FindGiven ==
    ASSUME ListInv, NEW p \in Programs, pc[p] \in Holding
    PROVE  /\ Known(lock[p]) /\ Given(p, IndexOf(lock[p]))
           /\ lock[p] \in Memory /\ KeyOf(lock[p]) \in 0 .. Len(g_transfers)
           /\ asked[p] = NULL => KeyOf(lock[p]) = ROOT
           /\ asked[p] # NULL => /\ KeyOf(lock[p]) \in DOMAIN g_transfers
                                 /\ KeyOf(lock[p]) # ROOT
                                 /\ g_transfers[KeyOf(lock[p])] = asked[p]
<1>1. PICK i \in Nat : Given(p, i)
  BY DEF ListInv, HeldOK
<1>2. Known(lock[p]) /\ IndexOf(lock[p]) = i
  BY <1>1, FindLock DEF Given, ListInv
<1>3. g_locks[i] \in Lock
  <2>1. g_locks \in Seq(Lock) /\ i \in DOMAIN g_locks
    BY <1>1 DEF ListInv, TypeOK, Given, Lock
  <2> QED
    BY <2>1
<1>4. DOMAIN g_transfers = 1 .. Len(g_transfers) /\ 0 \notin DOMAIN g_transfers
  BY DEF ListInv, TypeOK
<1> QED
  BY <1>1, <1>2, <1>3, <1>4 DEF Given, KeyOf, Lock, ROOT

\* A lock given to a program stays given while the list and the queue keep
\* what is in them.
LEMMA StillGiven ==
    ASSUME NEW p, NEW i, Given(p, i), NEW j, j \in DOMAIN g_locks',
           g_locks'[j] = g_locks[i], lock'[p] = lock[p], asked'[p] = asked[p],
           DOMAIN g_transfers \subseteq DOMAIN g_transfers',
           \A k \in DOMAIN g_transfers : g_transfers'[k] = g_transfers[k]
    PROVE  Given(p, j)'
BY DEF Given

------------------------------------------------------------------------------
(* Every action keeps the invariant *)

\* The queue is empty, no program has a lock.
LEMMA InitListInv == Init => ListInv
BY DEF Init, ListInv, TypeOK, LocksOK, HeldOK, ListOK, Listed, Holding, TAIL, NULL

\* A program is given a lock that no other has: its structure is new.
LEMMA LocateKeepsListInv ==
    ASSUME ListInv, NEW p \in Programs, pc[p] = "start",
           NEW key \in 0 .. Len(g_transfers), NEW n \in Names \cup {NULL},
           n = NULL => key = ROOT,
           n # NULL => key \in DOMAIN g_transfers /\ g_transfers[key] = n,
           LocateOk(p, key, n)
    PROVE  ListInv'
<1> USE DEF ListInv
<1>1. PICK a \in Memory \ allocated :
         /\ allocated' = allocated \cup {a}
         /\ g_locks' = Append(g_locks, [addr |-> a, fl_Key |-> key])
         /\ lock' = [lock EXCEPT ![p] = a]
         /\ asked' = [asked EXCEPT ![p] = n]
         /\ pc' = [pc EXCEPT ![p] = "examine"]
         /\ UNCHANGED <<g_transfers, fib_DiskKey, seen, start>>
  BY DEF LocateOk, Goto
<1> DEFINE new == [addr |-> a, fl_Key |-> key]
<1>m. PICK m : m = Len(g_locks) + 1
  OBVIOUS
<1>2. g_locks \in Seq(Lock) /\ new \in Lock /\ m \in Nat
  BY <1>1, <1>m DEF TypeOK, Lock
<1>3. new.addr = a /\ new.fl_Key = key
  OBVIOUS
<1> HIDE DEF new
<1>4. /\ g_locks' \in Seq(Lock) /\ DOMAIN g_locks' = 1 .. m /\ g_locks'[m] = new
      /\ \A i \in DOMAIN g_locks : i \in DOMAIN g_locks' /\ g_locks'[i] = g_locks[i]
      /\ \A i \in DOMAIN g_locks' : i \in DOMAIN g_locks \/ i = m
      /\ m \in DOMAIN g_locks'
  <2>1. g_locks' = Append(g_locks, new)
    BY <1>1 DEF new
  <2> QED
    BY <1>2, <1>m, <2>1
<1>5. /\ pc \in [Programs -> {"start", "examine", "exnext", "unlock", "done"}]
      /\ lock \in [Programs -> Memory \cup {NULL}]
      /\ asked \in [Programs -> Names \cup {NULL}]
  BY DEF TypeOK
<1>6. /\ pc'[p] = "examine" /\ lock'[p] = a /\ asked'[p] = n
      /\ \A q \in Programs \ {p} : /\ pc'[q] = pc[q] /\ lock'[q] = lock[q]
                                   /\ asked'[q] = asked[q]
  BY <1>1, <1>5
<1>7. TypeOK'
  <2>1. /\ pc' \in [Programs -> {"start", "examine", "exnext", "unlock", "done"}]
        /\ lock' \in [Programs -> Memory \cup {NULL}]
        /\ asked' \in [Programs -> Names \cup {NULL}]
    BY <1>1, <1>5
  <2>2. Lock' = Lock
    BY <1>1 DEF Lock
  <2> QED
    BY <1>1, <1>4, <2>1, <2>2 DEF TypeOK, Lock
<1>8. LocksOK'
  <2>1. \A i \in DOMAIN g_locks : g_locks[i].addr \in allocated /\ g_locks[i].addr # a
    BY <1>1 DEF LocksOK
  <2>2. \A i \in DOMAIN g_locks' : g_locks'[i].addr \in allocated'
    BY <1>1, <1>3, <1>4, <2>1
  <2>3. \A i, j \in DOMAIN g_locks' : g_locks'[i].addr = g_locks'[j].addr => i = j
    BY <1>3, <1>4, <2>1 DEF LocksOK
  <2> QED
    BY <2>2, <2>3 DEF LocksOK
<1>9. HeldOK'
  <2>1. ASSUME NEW q \in Programs, pc'[q] \in Holding
        PROVE  \E i \in Nat : Given(q, i)'
    <3>1. CASE q = p
      <4>1. Given(p, m)'
        BY <1>1, <1>3, <1>4, <1>6 DEF Given
      <4> QED
        BY <1>2, <3>1, <4>1
    <3>2. CASE q # p
      <4>1. PICK i \in Nat : Given(q, i)
        BY <1>6, <2>1, <3>2 DEF HeldOK
      <4>2. Given(q, i)'
        BY <1>1, <1>4, <1>6, <3>2, <4>1 DEF Given
      <4> QED
        BY <4>2
    <3> QED
      BY <3>1, <3>2
  <2>2. \A q \in Programs : pc'[q] \notin Holding => lock'[q] = NULL
    BY <1>6 DEF HeldOK, Holding
  <2>3. \A q \in Programs \ {p} : lock[q] # a
    <3> SUFFICES ASSUME NEW q \in Programs \ {p}, lock[q] = a PROVE FALSE
      OBVIOUS
    <3>1. CASE pc[q] \in Holding
      <4>1. PICK i \in Nat : Given(q, i)
        BY <3>1 DEF HeldOK
      <4> QED
        BY <1>1, <4>1 DEF Given, LocksOK
    <3>2. CASE pc[q] \notin Holding
      BY <1>1, <3>2, MemoryAssumption DEF HeldOK
    <3> QED
      BY <3>1, <3>2
  <2>4. ASSUME NEW q \in Programs, NEW r \in Programs, pc'[q] \in Holding,
               pc'[r] \in Holding, lock'[q] = lock'[r]
        PROVE  q = r
    BY <1>6, <2>3, <2>4 DEF HeldOK
  <2> QED
    BY <2>1, <2>2, <2>4 DEF HeldOK
<1>10. ListOK'
  <2> SUFFICES ASSUME NEW q \in Programs
               PROVE  Listed(q)'
    BY DEF ListOK
  <2>1. CASE q = p
    BY <1>1, <1>6, <2>1 DEF ListOK, Listed
  <2>2. CASE q # p
    BY <1>1, <1>6, <2>2 DEF ListOK, Listed, InOrder
  <2> QED
    BY <2>1, <2>2
<1> QED
  BY <1>7, <1>8, <1>9, <1>10

\* A step that leaves the lists alone, and every program with its lock.
LEMMA QuietKeepsLocks ==
    ASSUME ListInv, UNCHANGED <<g_transfers, g_locks, lock>>,
           allocated \subseteq allocated',
           \A q \in Programs : pc'[q] \in Holding <=> pc[q] \in Holding,
           \A q \in Programs : pc[q] \in Holding => asked'[q] = asked[q]
    PROVE  LocksOK' /\ HeldOK'
<1> USE DEF ListInv
<1>1. LocksOK'
  BY DEF LocksOK
<1>2. ASSUME NEW q \in Programs, pc'[q] \in Holding
      PROVE  \E i \in Nat : Given(q, i)'
  <2>1. PICK i \in Nat : Given(q, i)
    BY <1>2 DEF HeldOK
  <2>2. Given(q, i)'
    BY <1>2, <2>1 DEF Given
  <2> QED
    BY <2>2
<1>3. /\ \A q \in Programs : pc'[q] \notin Holding => lock'[q] = NULL
      /\ \A q, r \in Programs : /\ pc'[q] \in Holding /\ pc'[r] \in Holding
                                /\ lock'[q] = lock'[r]
                                => q = r
  BY DEF HeldOK
<1> QED
  BY <1>1, <1>2, <1>3 DEF HeldOK

\* A program that gets no lock has none; the structure it leaks is not in
\* the list.
LEMMA FailedKeepsListInv ==
    ASSUME ListInv, NEW p \in Programs, pc[p] = "start", LocateFailed(p)
    PROVE  ListInv'
<1> USE DEF ListInv
<1>1. /\ pc' = [pc EXCEPT ![p] = "done"]
      /\ UNCHANGED <<g_transfers, g_locks, lock, asked, fib_DiskKey, seen, start>>
      /\ allocated \subseteq allocated' /\ allocated' \subseteq Memory
  BY DEF LocateFailed, Goto, TypeOK
<1>2. TypeOK'
  BY <1>1 DEF TypeOK
<1>3. /\ pc'[p] = "done" /\ pc[p] = "start"
      /\ \A q \in Programs \ {p} : pc'[q] = pc[q]
  BY <1>1 DEF TypeOK
<1>4. LocksOK' /\ HeldOK'
  BY <1>1, <1>3, QuietKeepsLocks DEF Holding
<1>5. ListOK'
  BY <1>1, <1>3 DEF ListOK, Listed, InOrder
<1> QED
  BY <1>2, <1>4, <1>5

\* do_examine_object(): a listing begins with the first file.
LEMMA ExamineKeepsListInv ==
    ASSUME ListInv, NEW p \in Programs, Examine(p)
    PROVE  ListInv'
<1> USE DEF ListInv
<1>1. /\ pc[p] = "examine" /\ seen[p] = <<>>
      /\ UNCHANGED <<g_transfers, g_locks, allocated, lock, asked>>
      /\ start' = [start EXCEPT ![p] = Len(g_transfers)]
      /\ g_transfers \in Seq(Names) /\ Len(g_transfers) \in Nat
  BY DEF Examine, ListOK, Listed, TypeOK
<1>2. /\ Known(lock[p]) /\ KeyOf(lock[p]) \in 0 .. Len(g_transfers)
      /\ asked[p] = NULL => KeyOf(lock[p]) = ROOT
      /\ asked[p] # NULL => /\ KeyOf(lock[p]) # ROOT
                            /\ KeyOf(lock[p]) \in 1 .. Len(g_transfers)
  BY <1>1, FindGiven DEF Holding
<1>3. PICK l \in {"unlock", "exnext"}, k \in 0 .. Len(g_transfers),
           s \in Seq(1 .. Len(g_transfers)) :
         /\ pc' = [pc EXCEPT ![p] = l]
         /\ fib_DiskKey' = [fib_DiskKey EXCEPT ![p] = k]
         /\ seen' = [seen EXCEPT ![p] = s]
         /\ asked[p] = NULL => s = <<>>
         /\ l = "exnext" => asked[p] = NULL /\ k = 1 /\ Len(g_transfers) >= 1
         /\ l = "unlock" /\ asked[p] = NULL => Len(g_transfers) = 0
  <2>1. /\ fib_DiskKey \in [Programs -> 0 .. Len(g_transfers)]
        /\ seen \in [Programs -> Seq(1 .. Len(g_transfers))]
        /\ seen = [seen EXCEPT ![p] = <<>>]
        /\ fib_DiskKey = [fib_DiskKey EXCEPT ![p] = fib_DiskKey[p]]
        /\ fib_DiskKey[p] \in 0 .. Len(g_transfers)
        /\ <<>> \in Seq(1 .. Len(g_transfers))
    BY <1>1 DEF TypeOK
  <2>2. CASE /\ KeyOf(lock[p]) = ROOT /\ g_transfers = <<>>
             /\ Goto(p, "unlock") /\ UNCHANGED <<fib_DiskKey, seen>>
    <3>1. Len(g_transfers) = 0
      BY <2>2
    <3>2. /\ pc' = [pc EXCEPT ![p] = "unlock"]
          /\ fib_DiskKey' = [fib_DiskKey EXCEPT ![p] = fib_DiskKey[p]]
          /\ seen' = [seen EXCEPT ![p] = <<>>]
      BY <2>1, <2>2, Zenon DEF Goto
    <3> QED
      BY <2>1, <3>1, <3>2, Zenon
  <2>3. CASE /\ KeyOf(lock[p]) = ROOT /\ g_transfers # <<>>
             /\ fib_DiskKey' = [fib_DiskKey EXCEPT ![p] = 1]
             /\ Goto(p, "exnext") /\ UNCHANGED seen
    <3>1. Len(g_transfers) >= 1 /\ 1 \in 0 .. Len(g_transfers)
      BY <1>1, <2>3
    <3>2. asked[p] = NULL
      BY <1>2, <2>3
    <3>3. /\ pc' = [pc EXCEPT ![p] = "exnext"]
          /\ seen' = [seen EXCEPT ![p] = <<>>]
      BY <2>1, <2>3, Zenon DEF Goto
    <3> QED
      BY <2>1, <2>3, <3>1, <3>2, <3>3, Zenon
  <2>4. CASE /\ KeyOf(lock[p]) # ROOT
             /\ fib_DiskKey' = [fib_DiskKey EXCEPT ![p] = KeyOf(lock[p])]
             /\ seen' = [seen EXCEPT ![p] = <<KeyOf(lock[p])>>]
             /\ Goto(p, "unlock")
    <3>1. asked[p] # NULL /\ KeyOf(lock[p]) \in 1 .. Len(g_transfers)
      BY <1>2, <2>4
    <3>2. PICK i \in 1 .. Len(g_transfers) : i = KeyOf(lock[p])
      BY <3>1
    <3>3. <<i>> \in Seq(1 .. Len(g_transfers)) /\ i \in 0 .. Len(g_transfers)
      BY <1>1
    <3>4. pc' = [pc EXCEPT ![p] = "unlock"]
      BY <2>4 DEF Goto
    <3> QED
      BY <2>4, <3>1, <3>2, <3>3, <3>4, Zenon
  <2> QED
    BY <1>2, <2>2, <2>3, <2>4 DEF Examine
<1>4. TypeOK'
  BY <1>1, <1>3 DEF TypeOK
<1>5. /\ pc'[p] = l /\ fib_DiskKey'[p] = k /\ seen'[p] = s
      /\ start'[p] = Len(g_transfers) /\ asked'[p] = asked[p]
      /\ \A q \in Programs \ {p} :
            /\ pc'[q] = pc[q] /\ fib_DiskKey'[q] = fib_DiskKey[q]
            /\ seen'[q] = seen[q] /\ start'[q] = start[q]
  BY <1>1, <1>3 DEF TypeOK
<1>6. LocksOK' /\ HeldOK'
  BY <1>1, <1>3, <1>5, QuietKeepsLocks DEF Holding
<1>7. ASSUME NEW q \in Programs PROVE Listed(q)'
  <2>1. CASE q = p
    <3>1. asked[p] = NULL => s = <<>> /\ Len(s) = 0 /\ InOrder(s)
      BY <1>3 DEF InOrder
    <3> QED
      BY <1>1, <1>3, <1>5, <2>1, <3>1 DEF Listed
  <2>2. CASE q # p
    BY <1>1, <1>5, <2>2 DEF ListOK, Listed, InOrder
  <2> QED
    BY <2>1, <2>2
<1> QED
  BY <1>4, <1>6, <1>7 DEF ListOK

\* do_examine_next(): the file behind those returned is returned.
LEMMA ExNextKeepsListInv ==
    ASSUME ListInv, NEW p \in Programs, ExNext(p)
    PROVE  ListInv'
<1> USE DEF ListInv
<1> DEFINE i == fib_DiskKey[p]
           s == seen[p]
<1>1. /\ pc[p] = "exnext" /\ asked[p] = NULL /\ InOrder(s)
      /\ \/ i = Len(s) + 1 /\ i <= Len(g_transfers)
         \/ i = TAIL /\ Len(s) >= start[p]
      /\ UNCHANGED <<g_transfers, g_locks, allocated, lock, asked, start>>
      /\ Len(g_transfers) \in Nat /\ i \in 0 .. Len(g_transfers)
      /\ s \in Seq(1 .. Len(g_transfers)) /\ Len(s) \in Nat
      /\ start[p] \in 0 .. Len(g_transfers)
  BY DEF ExNext, ListOK, Listed, TypeOK
<1>2. Known(lock[p]) /\ KeyOf(lock[p]) = ROOT
  BY <1>1, FindGiven DEF Holding
<1>3. CASE /\ i # TAIL /\ UNCHANGED pc
           /\ fib_DiskKey' = [fib_DiskKey EXCEPT ![p] = Succ(i)]
           /\ seen' = [seen EXCEPT ![p] = Append(@, i)]
  <2>1. i = Len(s) + 1 /\ i \in 1 .. Len(g_transfers)
    BY <1>1, <1>3 DEF TAIL
  <2>2. /\ Succ(i) \in 0 .. Len(g_transfers)
        /\ \/ Succ(i) = i + 1 /\ Succ(i) <= Len(g_transfers)
           \/ Succ(i) = TAIL /\ i = Len(g_transfers)
    BY <1>1, <2>1 DEF Succ, TAIL
  <2>3. PICK t : t = Append(s, i)
    OBVIOUS
  <2>4. /\ t \in Seq(1 .. Len(g_transfers)) /\ Len(t) = i
        /\ InOrder(t)
    <3> HIDE DEF s, i
    <3>1. /\ t \in Seq(1 .. Len(g_transfers)) /\ Len(t) = Len(s) + 1
          /\ t[Len(s) + 1] = i /\ \A j \in 1 .. Len(s) : t[j] = s[j]
      BY <1>1, <2>1, <2>3
    <3>2. \A j \in 1 .. Len(s) : s[j] = j
      BY <1>1 DEF InOrder
    <3>3. \A j \in DOMAIN t : j \in 1 .. Len(s) \/ j = Len(s) + 1
      BY <1>1, <3>1
    <3> QED
      BY <2>1, <3>1, <3>2, <3>3 DEF InOrder
  <2>5. seen' = [seen EXCEPT ![p] = t]
    BY <1>3, <2>3
  <2>6. TypeOK'
    <3> HIDE DEF i
    <3> QED
      BY <1>1, <1>3, <2>2, <2>4, <2>5 DEF TypeOK
  <2>7. /\ seen'[p] = t /\ fib_DiskKey'[p] = Succ(i)
        /\ \A q \in Programs \ {p} : /\ fib_DiskKey'[q] = fib_DiskKey[q]
                                     /\ seen'[q] = seen[q]
    BY <1>3, <2>5 DEF TypeOK
  <2>8. LocksOK' /\ HeldOK'
    BY <1>1, <1>3, QuietKeepsLocks
  <2>9. ASSUME NEW q \in Programs PROVE Listed(q)'
    <3>1. CASE q = p
      <4>1. /\ pc'[p] = "exnext" /\ asked'[p] = NULL /\ InOrder(seen'[p])
            /\ Len(seen'[p]) = i /\ start'[p] = start[p]
        BY <1>1, <1>3, <2>4, <2>7
      <4>2. \/ fib_DiskKey'[p] = i + 1 /\ fib_DiskKey'[p] <= Len(g_transfers')
            \/ fib_DiskKey'[p] = TAIL /\ i >= start'[p]
        BY <1>1, <2>2, <2>7, <4>1
      <4> QED
        BY <3>1, <4>1, <4>2 DEF Listed
    <3>2. CASE q # p
      BY <1>1, <1>3, <2>7, <3>2 DEF ListOK, Listed, InOrder
    <3> QED
      BY <3>1, <3>2
  <2> QED
    BY <2>6, <2>8, <2>9 DEF ListOK
<1>4. CASE /\ i = TAIL /\ UNCHANGED <<fib_DiskKey, seen>>
           /\ pc' = [pc EXCEPT ![p] = "unlock"]
  <2>1. TypeOK'
    BY <1>1, <1>4 DEF TypeOK
  <2>2. /\ pc'[p] = "unlock" /\ \A q \in Programs \ {p} : pc'[q] = pc[q]
    BY <1>4 DEF TypeOK
  <2>3. LocksOK' /\ HeldOK'
    BY <1>1, <1>4, <2>2, QuietKeepsLocks DEF Holding
  <2>4. Len(s) >= start[p]
    BY <1>1, <1>4 DEF TAIL
  <2>5. ASSUME NEW q \in Programs PROVE Listed(q)'
    <3>1. CASE q = p
      BY <1>1, <1>4, <2>2, <2>4, <3>1 DEF Listed, InOrder
    <3>2. CASE q # p
      BY <1>1, <1>4, <2>2, <3>2 DEF ListOK, Listed, InOrder
    <3> QED
      BY <3>1, <3>2
  <2> QED
    BY <2>1, <2>3, <2>5 DEF ListOK
<1> QED
  BY <1>2, <1>3, <1>4 DEF ExNext, Goto

\* ACTION_FREE_LOCK takes the program's own lock out of the list; every
\* other program finds its lock as before.
LEMMA UnlockKeepsListInv ==
    ASSUME ListInv, NEW p \in Programs, Unlock(p)
    PROVE  ListInv'
<1> USE DEF ListInv
<1>1. /\ pc[p] = "unlock" /\ lock' = [lock EXCEPT ![p] = NULL]
      /\ pc' = [pc EXCEPT ![p] = "done"]
      /\ UNCHANGED <<g_transfers, asked, fib_DiskKey, seen, start>>
  BY DEF Unlock, Goto
<1>2. Known(lock[p]) /\ Given(p, IndexOf(lock[p]))
  BY <1>1, FindGiven DEF Holding
<1>3. PICK k : k = IndexOf(lock[p])
  OBVIOUS
<1>4. k \in DOMAIN g_locks /\ g_locks[k].addr = lock[p]
  BY <1>2, <1>3 DEF Given
<1>5. g_locks' = RemoveAt(g_locks, k) /\ allocated' = allocated \ {lock[p]}
  BY <1>2, <1>3 DEF Unlock, RemoveLock
<1>6. PICK n : n = Len(g_locks)
  OBVIOUS
<1>7. /\ g_locks \in Seq(Lock) /\ n \in Nat /\ DOMAIN g_locks = 1 .. n
      /\ k \in 1 .. n
  BY <1>4, <1>6 DEF TypeOK, Lock
<1>8. /\ g_locks' \in Seq(Lock) /\ DOMAIN g_locks' = 1 .. n - 1
      /\ \A i \in 1 .. n - 1 : g_locks'[i] = g_locks[IF i < k THEN i ELSE i + 1]
  <2>1. /\ g_locks' \in Seq(Lock) /\ Len(g_locks') = n - 1
        /\ \A i \in 1 .. n - 1 : g_locks'[i] = g_locks[IF i < k THEN i ELSE i + 1]
    BY <1>4, <1>5, <1>6, <1>7, RemoveOne
  <2> QED
    BY <2>1
<1>9. \A i \in 1 .. n - 1 : \E j \in 1 .. n :
         /\ j # k /\ g_locks'[i] = g_locks[j]
         /\ j = IF i < k THEN i ELSE i + 1
  BY <1>7, <1>8
<1>10. /\ pc'[p] = "done" /\ lock'[p] = NULL
       /\ \A q \in Programs \ {p} : pc'[q] = pc[q] /\ lock'[q] = lock[q]
  BY <1>1 DEF TypeOK
<1>11. TypeOK'
  <2>1. Lock' = Lock
    BY <1>1 DEF Lock
  <2> QED
    BY <1>1, <1>5, <1>8, <2>1 DEF TypeOK, Lock
<1>12. LocksOK'
  <2>1. ASSUME NEW i \in 1 .. n - 1, NEW j \in 1 .. n - 1,
               g_locks'[i].addr = g_locks'[j].addr
        PROVE  i = j
    <3>1. (IF i < k THEN i ELSE i + 1) = (IF j < k THEN j ELSE j + 1)
      BY <1>7, <1>9, <2>1 DEF LocksOK
    <3> QED
      BY <1>7, <3>1
  <2>2. ASSUME NEW i \in 1 .. n - 1 PROVE g_locks'[i].addr \in allocated'
    BY <1>4, <1>5, <1>7, <1>9 DEF LocksOK
  <2> QED
    BY <1>8, <2>1, <2>2 DEF LocksOK
<1>13. HeldOK'
  <2>1. ASSUME NEW q \in Programs, pc'[q] \in Holding
        PROVE  \E i \in Nat : Given(q, i)'
    <3>1. q # p /\ pc[q] \in Holding
      BY <1>10, <2>1 DEF Holding
    <3>2. PICK j \in Nat : Given(q, j)
      BY <3>1 DEF HeldOK
    <3>3. lock[q] # lock[p]
      BY <1>1, <3>1 DEF HeldOK, Holding
    <3>4. j \in 1 .. n /\ j # k
      BY <1>4, <1>7, <3>2, <3>3 DEF Given
    <3>5. PICK i \in 1 .. n - 1 : j = IF i < k THEN i ELSE i + 1
      <4>1. CASE j < k
        BY <1>7, <3>4, <4>1
      <4>2. CASE j > k
        <5>1. /\ j - 1 \in 1 .. n - 1 /\ ~(j - 1 < k) /\ (j - 1) + 1 = j
          BY <1>7, <3>4, <4>2
        <5> QED
          BY <5>1
      <4> QED
        BY <1>7, <3>4, <4>1, <4>2
    <3>6. i \in DOMAIN g_locks' /\ g_locks'[i] = g_locks[j]
      BY <1>8, <3>5
    <3>7. Given(q, i)'
      BY <1>1, <1>10, <3>1, <3>2, <3>6, StillGiven
    <3>8. i \in Nat
      BY <1>7
    <3> QED
      BY <3>7, <3>8
  <2>2. \A q \in Programs : pc'[q] \notin Holding => lock'[q] = NULL
    BY <1>10 DEF HeldOK
  <2>3. \A q, r \in Programs : /\ pc'[q] \in Holding /\ pc'[r] \in Holding
                               /\ lock'[q] = lock'[r]
                               => q = r
    BY <1>10 DEF HeldOK, Holding
  <2> QED
    BY <2>1, <2>2, <2>3 DEF HeldOK
<1>14. ListOK'
  BY <1>1, <1>10 DEF ListOK, Listed, InOrder
<1> QED
  BY <1>11, <1>12, <1>13, <1>14

\* A program that is run again starts with nothing.
LEMMA RestartKeepsListInv ==
    ASSUME ListInv, NEW p \in Programs, Restart(p)
    PROVE  ListInv'
<1> USE DEF ListInv
<1>1. /\ pc[p] = "done" /\ pc' = [pc EXCEPT ![p] = "start"]
      /\ asked' = [asked EXCEPT ![p] = NULL]
      /\ fib_DiskKey' = [fib_DiskKey EXCEPT ![p] = TAIL]
      /\ seen' = [seen EXCEPT ![p] = <<>>] /\ start' = [start EXCEPT ![p] = 0]
      /\ UNCHANGED <<g_transfers, g_locks, allocated, lock>>
  BY DEF Restart, Goto
<1>2. TypeOK'
  BY <1>1 DEF TypeOK, TAIL
<1>3. /\ pc'[p] = "start" /\ seen'[p] = <<>>
      /\ \A q \in Programs \ {p} :
            /\ pc'[q] = pc[q] /\ asked'[q] = asked[q] /\ seen'[q] = seen[q]
            /\ fib_DiskKey'[q] = fib_DiskKey[q] /\ start'[q] = start[q]
  BY <1>1 DEF TypeOK
<1>4. LocksOK' /\ HeldOK'
  BY <1>1, <1>3, QuietKeepsLocks DEF Holding
<1>5. ASSUME NEW q \in Programs PROVE Listed(q)'
  <2>1. CASE q = p
    BY <1>3, <2>1 DEF Listed
  <2>2. CASE q # p
    BY <1>1, <1>3, <2>2 DEF ListOK, Listed, InOrder
  <2> QED
    BY <2>1, <2>2
<1> QED
  BY <1>2, <1>4, <1>5 DEF ListOK

\* A new file is behind all that a listing or a lock refers to.
LEMMA NewFileKeepsListInv ==
    ASSUME ListInv, NewFile
    PROVE  ListInv'
<1> USE DEF ListInv
<1>1. PICK n \in Names : g_transfers' = Append(g_transfers, n)
  BY DEF NewFile
<1>2. UNCHANGED <<g_locks, allocated, pc, lock, asked, fib_DiskKey, seen, start>>
  BY DEF NewFile, progVars
<1>3. /\ g_transfers \in Seq(Names) /\ Len(g_transfers) \in Nat
      /\ g_transfers' \in Seq(Names) /\ Len(g_transfers') = Len(g_transfers) + 1
      /\ DOMAIN g_transfers \subseteq DOMAIN g_transfers'
      /\ \A k \in DOMAIN g_transfers : g_transfers'[k] = g_transfers[k]
  BY <1>1 DEF TypeOK
<1>4. TypeOK'
  <2>1. /\ 0 .. Len(g_transfers) \subseteq 0 .. Len(g_transfers')
        /\ 1 .. Len(g_transfers) \subseteq 1 .. Len(g_transfers')
    BY <1>3
  <2>2. Lock \subseteq Lock'
    BY <2>1 DEF Lock
  <2>3. g_locks' \in Seq(Lock')
    <3>1. g_locks \in Seq(Lock)
      BY DEF TypeOK, Lock
    <3> QED
      BY <1>2, <2>2, <3>1
  <2>4. seen' \in [Programs -> Seq(1 .. Len(g_transfers'))]
    <3>1. \A S, T, s : S \subseteq T /\ s \in Seq(S) => s \in Seq(T)
      OBVIOUS
    <3>2. \A q \in Programs : seen[q] \in Seq(1 .. Len(g_transfers))
      BY DEF TypeOK
    <3>3. \A q \in Programs : seen[q] \in Seq(1 .. Len(g_transfers'))
      BY <2>1, <3>1, <3>2, Zenon
    <3>4. seen = [q \in Programs |-> seen[q]]
      BY DEF TypeOK
    <3> QED
      BY <1>2, <3>3, <3>4, Zenon
  <2>5. /\ fib_DiskKey' \in [Programs -> 0 .. Len(g_transfers')]
        /\ start' \in [Programs -> 0 .. Len(g_transfers')]
    BY <1>2, <2>1 DEF TypeOK
  <2> QED
    BY <1>2, <1>3, <2>3, <2>4, <2>5 DEF TypeOK, Lock
<1>5. LocksOK'
  BY <1>2 DEF LocksOK
<1>6. HeldOK'
  <2>1. ASSUME NEW q \in Programs, pc'[q] \in Holding
        PROVE  \E i \in Nat : Given(q, i)'
    <3>1. PICK i \in Nat : Given(q, i)
      BY <1>2, <2>1 DEF HeldOK
    <3>2. i \in DOMAIN g_locks'
      BY <1>2, <3>1 DEF Given
    <3>3. Given(q, i)'
      BY <1>2, <1>3, <3>1, <3>2, StillGiven
    <3> QED
      BY <3>3
  <2> QED
    BY <1>2, <2>1 DEF HeldOK
<1>7. ListOK'
  <2>1. ASSUME NEW q \in Programs PROVE Listed(q)'
    <3>1. Listed(q) /\ fib_DiskKey[q] \in Int
      BY DEF ListOK, TypeOK
    <3>2. \A k \in Int : k <= Len(g_transfers) => k <= Len(g_transfers')
      BY <1>3
    <3> QED
      BY <1>2, <3>1, <3>2 DEF Listed, InOrder
  <2> QED
    BY <2>1 DEF ListOK
<1> QED
  BY <1>4, <1>5, <1>6, <1>7

\* Every step of the programs and of the handler keeps the invariant.
LEMMA StepListInv == ListInv /\ [Next]_vars => ListInv'
<1> SUFFICES ASSUME ListInv, [Next]_vars PROVE ListInv'
  OBVIOUS
<1>1. CASE UNCHANGED vars
  BY <1>1 DEF vars, progVars, ListInv, TypeOK, LocksOK, HeldOK, Given, ListOK,
     Listed, InOrder
<1>2. ASSUME NEW p \in Programs, LockRoot(p)
      PROVE  ListInv'
  <2>1. CASE LocateFailed(p)
    BY <1>2, <2>1, FailedKeepsListInv DEF LockRoot
  <2>2. CASE LocateOk(p, ROOT, NULL)
    <3>1. ROOT \in 0 .. Len(g_transfers) /\ NULL \in Names \cup {NULL}
      BY DEF ROOT, ListInv, TypeOK
    <3> QED
      BY <1>2, <2>2, <3>1, LocateKeepsListInv DEF LockRoot
  <2> QED
    BY <1>2, <2>1, <2>2 DEF LockRoot
<1>3. ASSUME NEW p \in Programs, LockFile(p)
      PROVE  ListInv'
  <2>1. CASE LocateFailed(p)
    BY <1>3, <2>1, FailedKeepsListInv DEF LockFile
  <2>2. ASSUME NEW n \in Names, NEW i \in DOMAIN g_transfers,
               FindName(n, i), LocateOk(p, i, n)
        PROVE  ListInv'
    <3>1. i \in 0 .. Len(g_transfers) /\ g_transfers[i] = n
      BY <2>2 DEF FindName, ListInv, TypeOK
    <3>2. n # NULL
      BY NameAssumption
    <3> QED
      BY <1>3, <2>2, <3>1, <3>2, LocateKeepsListInv DEF LockFile
  <2> QED
    BY <1>3, <2>1, <2>2 DEF LockFile
<1>4. ASSUME NEW p \in Programs, LockUrl(p)
      PROVE  ListInv'
  BY <1>4, FailedKeepsListInv DEF LockUrl
<1> QED
  BY <1>1, <1>2, <1>3, <1>4, ExamineKeepsListInv, ExNextKeepsListInv,
     UnlockKeepsListInv, RestartKeepsListInv, NewFileKeepsListInv DEF Next

\* Hence it holds in every state.
LEMMA SpecListInv == Spec => []ListInv
BY InitListInv, StepListInv, PTL DEF Spec

------------------------------------------------------------------------------
(* Theorems *)

\* The variables keep their types, however long the queue grows: fl_Key,
\* fib_DiskKey and what ExNext() returns name files of the queue.
THEOREM TypesAreKept == Spec => []TypeOK
BY SpecListInv, PTL DEF ListInv

\* From do_locate_object() to ACTION_FREE_LOCK the lock of a program is in
\* the list and its own, for the file it has asked for, whatever the other
\* programs lock and free.
THEOREM LocksAreHeld == Spec => []LockHeld
<1>1. ListInv => LockHeld
  <2> SUFFICES ASSUME ListInv, NEW p \in Programs,
                      pc[p] \in {"examine", "exnext", "unlock"}
               PROVE  /\ Known(lock[p])
                      /\ \A q \in Programs \ {p} : lock[q] # lock[p]
                      /\ (KeyOf(lock[p]) = ROOT <=> asked[p] = NULL)
                      /\ asked[p] # NULL => g_transfers[KeyOf(lock[p])] = asked[p]
    BY DEF LockHeld
  <2>1. \A q \in Programs \ {p} : lock[q] # lock[p]
    <3>1. lock[p] \in Memory /\ pc[p] \in Holding
      BY FindGiven DEF Holding
    <3> QED
      BY <3>1, MemoryAssumption DEF ListInv, HeldOK
  <2> QED
    BY <2>1, FindGiven DEF Holding
<1> QED
  BY <1>1, SpecListInv, PTL

\* A listing returns every file that was in the queue when it began, each
\* once and oldest first, however many files are added meanwhile.
THEOREM ListingsAreComplete == Spec => []ListingComplete
<1>1. ListInv => ListingComplete
  <2> SUFFICES ASSUME ListInv, NEW p \in Programs,
                      pc[p] = "unlock", asked[p] = NULL
               PROVE  /\ seen[p] = [i \in 1 .. Len(seen[p]) |-> i]
                      /\ Len(seen[p]) >= start[p]
    BY DEF ListingComplete
  <2>1. InOrder(seen[p]) /\ Len(seen[p]) >= start[p]
    BY DEF ListInv, ListOK, Listed
  <2>2. PICK s \in Seq(1 .. Len(g_transfers)) : s = seen[p]
    BY DEF ListInv, TypeOK
  <2>3. \A i \in 1 .. Len(s) : s[i] = i
    BY <2>1, <2>2 DEF InOrder
  <2>4. s = [i \in 1 .. Len(s) |-> s[i]]
    OBVIOUS
  <2>5. s = [i \in 1 .. Len(s) |-> i]
    BY <2>3, <2>4
  <2> QED
    BY <2>1, <2>2, <2>5
<1> QED
  BY <1>1, SpecListInv, PTL
=============================================================================
