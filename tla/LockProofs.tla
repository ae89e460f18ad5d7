---------------------------- MODULE LockProofs ----------------------------
(***************************************************************************)
(* Proofs about the two cross-process locks: FileLock for any number of    *)
(* processes, calls, crashes and failed system calls and any staleMs of at *)
(* least two ticks, and MemorySyncLock for any number of processes, any    *)
(* crashes and any reuse of pids, on every platform.  The two modules have *)
(* no name in common, and no theorem speaks of both.                       *)
(***************************************************************************)
EXTENDS FileLock, MemorySyncLock, TLAPS

\* The file lock -------------------------------------------------------------

(***************************************************************************)
(* A file names a call that has got as far as creating it.                 *)
(***************************************************************************)
Genuine(f) ==
    /\ f.call <= calls[f.owner]
    /\ f.call = calls[f.owner] => pc[f.owner] \in Holding \cup {"idle"}

\* The call that created f is over.
Over(f) == Genuine(f) /\ (f.call < calls[f.owner] \/ pc[f.owner] = "idle")

\* The lock is free, or left behind.
FreeOrOver == lock = NoLock \/ Over(lock)

(***************************************************************************)
(* The inductive invariant.                                                *)
(***************************************************************************)
LockGenuine == lock # NoLock => Genuine(lock)

\* Until a steal hits the wrong file, the lock file is that of the process
\* that is writing it, holding it or about to remove it, and it is touched.
OwnerHasLock ==
    ~raced => \A p \in Proc :
        /\ pc[p] = "write" => lock = Mine(p, FALSE) /\ age <= Stale
        /\ pc[p] \in {"critical", "readOwner", "rm"} => lock = Mine(p, TRUE) /\ age <= Stale

\* A process about to rename the lock judged a file whose call is over.
JudgedOver ==
    ~raced => \A p \in Proc :
        pc[p] = "steal" => judged[p] # NoLock /\ Over(judged[p])

\* A process in a call has made one, and its deadline is ahead.
Called == \A p \in Proc : pc[p] # "idle" => calls[p] > 0

\* What a waiter that met no other process, live, at the lock knows.  From its
\* first look on the lock is an orphan, whose age its wait adds to; if the
\* file it found was not stale it sleeps, and so at the latest Stale + 1 ticks
\* after its call the orphan is gone and the lock free for it.
Waited(p) == Wait - left[p]

Patient(p) ==
    /\ pc[p] # "failed"
    /\ pc[p] \in Polling \cup {"sleep"} =>
         /\ Waited(p) > 0 => age >= Waited(p) \/ IsStale
         /\ Waited(p) > 0 \/ pc[p] \in {"stat", "steal", "sleep"} => FreeOrOver
         /\ pc[p] = "sleep" => lock = NoLock \/ ~IsStale
         /\ \/ Waited(p) <= Stale + 1
            \/ Waited(p) = Stale + 2 /\ lock = NoLock /\ pc[p] \in {"loop", "open"}

WaiterKnows == ~raced /\ ~slow => \A p \in Proc \ busy : Patient(p)

IInv ==
    /\ TypeOK /\ Called /\ LockGenuine
    /\ OwnerHasLock /\ JudgedOver /\ WaiterKnows

LEMMA InitIInv == Init => IInv
<1> SUFFICES ASSUME Init PROVE IInv
    OBVIOUS
<1>a. 0 \in 0..Wait /\ 0 \in 0..(Stale + 1) /\ 0 \in 0..MaxCalls /\ 0 \in 0..MaxFaults
    BY BoundAssumption DEF Wait
<1>1. TypeOK
    BY <1>a DEF Init, TypeOK
<1>2. Called /\ LockGenuine /\ OwnerHasLock /\ JudgedOver
    BY DEF Init, Called, LockGenuine, OwnerHasLock, JudgedOver
<1>3. WaiterKnows
    BY DEF Init, WaiterKnows, Patient, Polling
<1> QED
    BY <1>1, <1>2, <1>3 DEF IInv

LEMMA MineType ==
    ASSUME TypeOK, NEW p \in Proc, calls[p] > 0, NEW b \in BOOLEAN
    PROVE  /\ Mine(p, b) \in File /\ Mine(p, b) # NoLock
           /\ Mine(p, b).owner = p /\ Mine(p, b).call = calls[p]
           /\ Mine(p, b).written = b
  BY NoLockAssumption, BoundAssumption DEF TypeOK, File, Mine

LEMMA NextType ==
    ASSUME TypeOK, Called, Next
    PROVE  TypeOK'
<1> USE BoundAssumption DEF TypeOK, Goto, Holding, Polling
<1>1. ASSUME NEW p \in Proc, Call(p)
      PROVE  TypeOK'
    BY <1>1 DEF Call, Wait
<1>2. ASSUME NEW p \in Proc, Loop(p) \/ Stat(p) \/ Steal(p) \/ Wake(p)
      PROVE  TypeOK'
    BY <1>2 DEF Loop, Stat, Steal, Wake
<1>3. ASSUME NEW p \in Proc, Open(p)
      PROVE  TypeOK'
  <2>1. Mine(p, FALSE) \in File
    BY <1>3, MineType DEF Open, Called
  <2>a. lock' \in File \cup {NoLock}
    BY <1>3, <2>1 DEF Open
  <2>b. age' \in 0..(Stale + 1)
    <3>1. age' \in {0, age}
        BY <1>3 DEF Open
    <3> QED
        BY <3>1
  <2>2. pc' \in [Proc -> Holding \cup Polling \cup {"idle", "sleep", "failed"}]
    BY <1>3 DEF Open
  <2>3. busy' \subseteq Proc
    BY <1>3 DEF Open, Waiting
  <2>4. UNCHANGED <<calls, left, judged, slow, faults, raced>>
    BY <1>3 DEF Open
  <2> QED
    BY <2>a, <2>b, <2>2, <2>3, <2>4
<1>4. ASSUME NEW p \in Proc, WriteToken(p)
      PROVE  TypeOK'
  <2>1. Mine(p, TRUE) \in File
    BY <1>4, MineType DEF WriteToken, Called
  <2>2. lock' \in File \cup {NoLock}
    BY <1>4, <2>1 DEF WriteToken
  <2>3. age' \in 0..(Stale + 1)
    <3>1. age' \in {0, age}
        BY <1>4 DEF WriteToken
    <3> QED
        BY <3>1
  <2>4. pc' \in [Proc -> Holding \cup Polling \cup {"idle", "sleep", "failed"}]
    BY <1>4 DEF WriteToken
  <2>5. UNCHANGED <<calls, left, judged, busy, slow, faults, raced>>
    BY <1>4 DEF WriteToken
  <2> QED
    BY <2>2, <2>3, <2>4, <2>5
<1>5. ASSUME NEW p \in Proc, Finish(p) \/ ReadOwner(p) \/ Remove(p)
      PROVE  TypeOK'
    BY <1>5 DEF Finish, ReadOwner, Remove
<1>6. ASSUME NEW p \in Proc, Throw(p) \/ WriteFails(p) \/ Crash(p)
      PROVE  TypeOK'
    BY <1>6 DEF Throw, WriteFails, Crash, Fault
<1>7. CASE Tick
  <2>1. age' \in 0..(Stale + 1)
    BY <1>7 DEF Tick, IsStale
  <2>2. left' \in [Proc -> 0..Wait]
    BY <1>7 DEF Tick, Wait
  <2>3. pc' \in [Proc -> Holding \cup Polling \cup {"idle", "sleep", "failed"}]
    BY <1>7 DEF Tick
  <2>4. slow' \in BOOLEAN
    BY <1>7 DEF Tick
  <2> QED
    BY <1>7, <2>1, <2>2, <2>3, <2>4 DEF Tick
<1> QED
    BY <1>1, <1>2, <1>3, <1>4, <1>5, <1>6, <1>7 DEF Next, Acquire, Hold

LEMMA NextCalled ==
    ASSUME TypeOK, Called, Next
    PROVE  Called'
<1> USE DEF TypeOK, Called, Goto
<1>1. ASSUME NEW p \in Proc, Call(p)
      PROVE  Called'
    BY <1>1, BoundAssumption DEF Call
<1>2. ASSUME NEW p \in Proc, Acquire(p) \/ Hold(p)
      PROVE  Called'
    BY <1>2 DEF Acquire, Loop, Open, Stat, Steal, Wake, Hold, WriteToken, Finish,
           ReadOwner, Remove
<1>3. ASSUME NEW p \in Proc, Throw(p) \/ WriteFails(p) \/ Crash(p)
      PROVE  Called'
    BY <1>3 DEF Throw, WriteFails, Crash
<1>4. CASE Tick
    BY <1>4 DEF Tick
<1> QED
    BY <1>1, <1>2, <1>3, <1>4 DEF Next

\* What a step does to one process: it starts a call, moves within one, or
\* leaves the place alone; a process that is idle only starts a call, and one
\* that holds or writes never goes back to the queue.
LEMMA ProcessSteps ==
    ASSUME TypeOK, Next, NEW q \in Proc
    PROVE  \/ calls'[q] = calls[q] + 1 /\ pc[q] \in {"idle", "failed"}
           \/ /\ calls'[q] = calls[q]
              /\ pc[q] = "idle" => pc'[q] = "idle"
              /\ pc[q] \in Holding => pc'[q] \in Holding \cup {"idle"}
<1> USE DEF TypeOK, Goto, Holding
<1>1. ASSUME NEW p \in Proc, Call(p)
      PROVE  \/ calls'[q] = calls[q] + 1 /\ pc[q] \in {"idle", "failed"}
             \/ calls'[q] = calls[q] /\ pc'[q] = pc[q]
    BY <1>1 DEF Call
<1>2. ASSUME NEW p \in Proc, Acquire(p) \/ Hold(p)
      PROVE  /\ calls'[q] = calls[q]
             /\ pc[q] = "idle" => pc'[q] = "idle"
             /\ pc[q] \in Holding => pc'[q] \in Holding \cup {"idle"}
    BY <1>2 DEF Acquire, Loop, Open, Stat, Steal, Wake, Hold, WriteToken, Finish,
           ReadOwner, Remove
<1>3. ASSUME NEW p \in Proc, Throw(p) \/ WriteFails(p) \/ Crash(p)
      PROVE  /\ calls'[q] = calls[q]
             /\ pc'[q] \in {pc[q], "idle"}
    BY <1>3 DEF Throw, WriteFails, Crash
<1>4. CASE Tick
    BY <1>4 DEF Tick
<1> QED
    BY <1>1, <1>2, <1>3, <1>4 DEF Next

LEMMA GenuineStable ==
    ASSUME TypeOK, Next, NEW f \in File, Genuine(f)
    PROVE  Genuine(f)'
  BY ProcessSteps DEF Genuine, File, TypeOK

\* A call that is over stays over: the process can only make another.
LEMMA OverStable ==
    ASSUME TypeOK, Next, NEW f \in File, Over(f)
    PROVE  Over(f)'
  BY ProcessSteps, GenuineStable DEF Over, Genuine, File, TypeOK, Holding

LEMMA MineGenuine ==
    ASSUME TypeOK, NEW p \in Proc, pc[p] \in Holding, NEW b \in BOOLEAN
    PROVE  Genuine(Mine(p, b)) /\ ~Over(Mine(p, b))
  BY DEF Genuine, Over, Mine, TypeOK, Holding

LEMMA NextLockGenuine ==
    ASSUME IInv, Next
    PROVE  LockGenuine'
<1> USE DEF IInv, TypeOK
<1>1. CASE lock' = lock
    BY <1>1, GenuineStable DEF LockGenuine, Genuine
<1>2. CASE lock' = NoLock
    BY <1>2 DEF LockGenuine
<1>3. ASSUME NEW p \in Proc, NEW b \in BOOLEAN, lock' = Mine(p, b),
             calls' = calls, pc'[p] \in Holding
      PROVE  LockGenuine'
    BY <1>3 DEF LockGenuine, Genuine, Mine, Holding
<1>4. \/ lock' = lock \/ lock' = NoLock
      \/ \E p \in Proc, b \in BOOLEAN :
             lock' = Mine(p, b) /\ calls' = calls /\ pc'[p] \in Holding
  <2>1. ASSUME NEW p \in Proc, Open(p) \/ WriteToken(p)
        PROVE  \/ lock' = lock
               \/ \E b \in BOOLEAN :
                      lock' = Mine(p, b) /\ calls' = calls /\ pc'[p] \in Holding
    BY <2>1 DEF Open, WriteToken, Goto, Holding
  <2> QED
    BY <2>1 DEF Next, Call, Acquire, Loop, Stat, Steal, Wake, Hold, Finish,
           ReadOwner, Remove, Throw, WriteFails, Crash, Tick
<1> QED
    BY <1>1, <1>2, <1>3, <1>4

\* A holder has the lock file, which is fresh, to itself.
LEMMA HolderAlone ==
    ASSUME IInv, ~raced, NEW p \in Proc, pc[p] \in Holding
    PROVE  /\ lock # NoLock /\ lock \in File
           /\ lock.owner = p /\ lock.call = calls[p] /\ ~Over(lock)
           /\ age <= Stale
           /\ \A q \in Proc : q # p => pc[q] \notin Holding
<1> USE DEF IInv
<1>1. ASSUME NEW q \in Proc, pc[q] \in Holding
      PROVE  \E b \in BOOLEAN : lock = Mine(q, b) /\ age <= Stale
    BY <1>1 DEF OwnerHasLock, Holding
<1>2. ASSUME NEW q \in Proc, pc[q] \in Holding
      PROVE  lock \in File /\ lock # NoLock /\ lock.owner = q
             /\ lock.call = calls[q] /\ ~Over(lock)
  <2>1. calls[q] > 0
    BY <1>2 DEF Called, Holding
  <2> QED
    BY <1>1, <1>2, <2>1, MineType, MineGenuine
<1> QED
    BY <1>1, <1>2

LEMMA RacedStays == Next /\ raced => raced'
  BY DEF Next, Call, Acquire, Loop, Open, Stat, Steal, Wake, Hold, WriteToken, Finish,
         ReadOwner, Remove, Throw, WriteFails, Crash, Tick

LEMMA NextOwnerHasLock ==
    ASSUME IInv, Next
    PROVE  OwnerHasLock'
<1> SUFFICES ASSUME ~raced' PROVE OwnerHasLock'
    BY DEF OwnerHasLock
<1> USE DEF IInv, TypeOK, Goto
<1>a. ~raced
    BY RacedStays
<1>b. \A p \in Proc :
        /\ pc[p] = "write" => lock = Mine(p, FALSE) /\ age <= Stale
        /\ pc[p] \in {"critical", "readOwner", "rm"} => lock = Mine(p, TRUE) /\ age <= Stale
    BY <1>a DEF OwnerHasLock
<1>c. (\A q \in Proc :
        /\ pc'[q] = "write" => lock' = Mine(q, FALSE)' /\ age' <= Stale
        /\ pc'[q] \in {"critical", "readOwner", "rm"} =>
             lock' = Mine(q, TRUE)' /\ age' <= Stale)
      => OwnerHasLock'
    BY DEF OwnerHasLock
<1>1. ASSUME NEW p \in Proc, Call(p)
      PROVE  OwnerHasLock'
    BY <1>1, <1>b, <1>c DEF Call, Mine
<1>2. ASSUME NEW p \in Proc, Loop(p) \/ Stat(p) \/ Wake(p) \/ Finish(p)
      PROVE  OwnerHasLock'
    BY <1>2, <1>b, <1>c DEF Loop, Stat, Wake, Finish, Mine
<1>3. ASSUME NEW p \in Proc, Open(p)
      PROVE  OwnerHasLock'
  <2>1. CASE lock = NoLock
    <3>1. \A q \in Proc : pc[q] \notin Holding
        BY <1>a, <2>1, HolderAlone
    <3>2. pc' = [pc EXCEPT ![p] = "write"] /\ lock' = Mine(p, FALSE) /\ age' = 0
          /\ calls' = calls
        BY <1>3, <2>1 DEF Open
    <3>3. \A q \in Proc : q # p => pc'[q] \notin Holding
        BY <3>1, <3>2
    <3>4. pc'[p] = "write" /\ lock' = Mine(p, FALSE)' /\ age' <= Stale
        BY <3>2, BoundAssumption DEF Mine
    <3> QED
        BY <1>c, <3>3, <3>4 DEF Holding
  <2>2. CASE lock # NoLock
    BY <1>3, <1>b, <1>c, <2>2 DEF Open, Mine
  <2> QED
    BY <2>1, <2>2
<1>4. ASSUME NEW p \in Proc, Steal(p)
      PROVE  OwnerHasLock'
  <2>1. lock = NoLock \/ (judged[p] # NoLock /\ lock = judged[p] /\ Over(lock))
    BY <1>4, <1>a DEF Steal, JudgedOver
  <2>2. \A q \in Proc : pc[q] \notin Holding
    BY <1>a, <2>1, HolderAlone
  <2> QED
    BY <1>4, <1>c, <2>2 DEF Steal, Holding
<1>5. ASSUME NEW p \in Proc, WriteToken(p) \/ Remove(p)
      PROVE  OwnerHasLock'
  <2>1. pc[p] \in Holding
    BY <1>5 DEF WriteToken, Remove, Holding
  <2>2. \A q \in Proc : q # p => pc[q] \notin Holding
    BY <1>a, <2>1, HolderAlone
  <2> QED
    BY <1>5, <1>b, <1>c, <2>2, BoundAssumption DEF WriteToken, Remove, Holding, Mine
<1>6. ASSUME NEW p \in Proc, ReadOwner(p)
      PROVE  OwnerHasLock'
    BY <1>6, <1>b, <1>c DEF ReadOwner, Mine
<1>7. ASSUME NEW p \in Proc, Throw(p) \/ WriteFails(p) \/ Crash(p)
      PROVE  OwnerHasLock'
    BY <1>7, <1>b, <1>c DEF Throw, WriteFails, Crash, Mine
<1>8. CASE Tick
  <2>1. ASSUME NEW q \in Proc, pc'[q] \in Holding
        PROVE  pc[q] = "critical" /\ pc'[q] = "critical"
    BY <1>8, <2>1 DEF Tick, HolderPrompt, Holding
  <2>2. ASSUME NEW q \in Proc, pc[q] = "critical"
        PROVE  age' <= Stale
    <3>1. CASE q \notin Sync
        BY <1>8, <2>2, <3>1, BoundAssumption DEF Tick, Beats
    <3>2. CASE q \in Sync
        BY <1>8, <2>2, <3>2, BoundAssumption DEF Tick, SyncInTime, IsStale
    <3> QED
        BY <3>1, <3>2
  <2>3. UNCHANGED <<lock, calls>>
    BY <1>8 DEF Tick
  <2> QED
    BY <1>b, <1>c, <2>1, <2>2, <2>3 DEF Holding, Mine
<1> QED
    BY <1>1, <1>2, <1>3, <1>4, <1>5, <1>6, <1>7, <1>8 DEF Next, Acquire, Hold

\* Stat never judges a live lock file stale, and what is over stays over.
LEMMA NextJudgedOver ==
    ASSUME IInv, Next
    PROVE  JudgedOver'
<1> SUFFICES ASSUME ~raced', NEW q \in Proc, pc'[q] = "steal"
             PROVE  (judged[q] # NoLock /\ Over(judged[q]))'
    BY DEF JudgedOver
<1> USE DEF IInv, TypeOK, Goto
<1>a. ~raced
    BY RacedStays
<1>1. CASE pc[q] = "steal" /\ judged'[q] = judged[q]
  <2>1. PICK f \in File : f = judged[q] /\ f # NoLock /\ Over(f)
    BY <1>a, <1>1 DEF JudgedOver
  <2>2. Over(f)'
    BY <2>1, OverStable
  <2> QED
    BY <1>1, <2>1, <2>2 DEF Over, Genuine
<1>2. CASE Stat(q)
  <2>1. PICK f \in File : f = lock /\ f # NoLock /\ IsStale
    BY <1>2 DEF Stat
  <2>2. Genuine(f)
    BY <2>1 DEF LockGenuine
  <2>3. pc[f.owner] \notin Holding
    BY <1>a, <2>1, HolderAlone, BoundAssumption DEF IsStale, File
  <2>4. Over(f)
    BY <2>2, <2>3 DEF Over, Genuine, File
  <2>5. Over(f)'
    BY <2>4, OverStable
  <2> QED
    BY <1>2, <2>1, <2>5 DEF Stat, Over, Genuine
<1>3. ASSUME NEW p \in Proc, p # q, Stat(p)
      PROVE  pc[q] = "steal" /\ judged'[q] = judged[q]
    BY <1>3 DEF Stat
<1>5. CASE \A p \in Proc : ~Stat(p)
  <2>1. pc[q] = "steal" /\ judged' = judged
    BY <1>5 DEF Next, Call, Acquire, Loop, Open, Steal, Wake, Hold, WriteToken, Finish,
           ReadOwner, Remove, Throw, WriteFails, Crash, Tick
  <2> QED
    BY <1>1, <2>1
<1> QED
    BY <1>1, <1>2, <1>3, <1>5

LEMMA OrphanedStays ==
    ASSUME TypeOK, Next, lock' = lock \/ lock' = NoLock, FreeOrOver
    PROVE  FreeOrOver'
<1>1. CASE lock = NoLock \/ lock' = NoLock
    BY <1>1 DEF FreeOrOver
<1>2. CASE lock # NoLock /\ lock' = lock
  <2>1. PICK f \in File : f = lock /\ Over(f)
    BY <1>2 DEF FreeOrOver, TypeOK
  <2>2. Over(f)'
    BY <2>1, OverStable
  <2> QED
    BY <1>2, <2>1, <2>2 DEF FreeOrOver, Over, Genuine
<1> QED
    BY <1>1, <1>2

\* Steps of others that neither create nor touch the file take nothing from
\* what a waiter knows.
LEMMA PatientStays ==
    ASSUME TypeOK, Next, NEW q \in Proc, Patient(q),
           pc'[q] = pc[q], left'[q] = left[q], age' = age,
           lock' = lock \/ lock' = NoLock
    PROVE  Patient(q)'
<1>1. FreeOrOver => FreeOrOver'
    BY OrphanedStays
<1> QED
    BY <1>1 DEF Patient, Waited, IsStale

\* The steps of a waiter itself.
LEMMA OwnSteps ==
    ASSUME IInv, Next, ~raced, ~slow, NEW q \in Proc, q \notin busy',
           Acquire(q)
    PROVE  Patient(q)'
<1> USE BoundAssumption DEF IInv, TypeOK, Goto, Polling
<1>1. q \notin busy /\ left' = left
    BY DEF Acquire, Loop, Open, Stat, Steal, Wake
<1>2. Patient(q) /\ Waited(q)' = Waited(q) /\ Waited(q) \in 0..Wait
    BY <1>1 DEF WaiterKnows, Waited, Wait
<1>3. CASE Loop(q)
  <2>1. left[q] > 0
    BY <1>2, <1>3 DEF Patient, Waited, Loop, Wait
  <2>2. pc'[q] = "open" /\ pc[q] = "loop" /\ UNCHANGED <<lock, age>>
    BY <1>3, <2>1 DEF Loop
  <2>3. FreeOrOver => FreeOrOver'
    BY <2>2, OrphanedStays
  <2> QED
    BY <1>2, <2>2, <2>3 DEF Patient, IsStale
<1>4. CASE Open(q)
  <2>1. CASE lock = NoLock
    BY <1>4, <2>1 DEF Open, Patient
  <2>2. CASE lock # NoLock
    <3>1. pc[q] = "open" /\ pc'[q] = "stat" /\ UNCHANGED <<lock, age>> /\ ~Live(lock)
        BY <1>4, <2>2 DEF Open
    <3>2. Genuine(lock) /\ lock \in File
        BY <2>2 DEF LockGenuine
    <3>3. FreeOrOver
        BY <3>1, <3>2 DEF Live, FreeOrOver, Over, Genuine, File
    <3>4. FreeOrOver'
        BY <3>1, <3>3, OrphanedStays
    <3> QED
        BY <1>2, <2>2, <3>1, <3>4 DEF Patient, IsStale
  <2> QED
    BY <2>1, <2>2
<1>5. CASE Stat(q)
  <2>1. pc[q] = "stat" /\ UNCHANGED <<lock, age>>
        /\ pc'[q] = IF lock # NoLock /\ IsStale THEN "steal" ELSE "sleep"
    BY <1>5 DEF Stat
  <2>2. FreeOrOver'
    BY <1>2, <2>1, OrphanedStays DEF Patient
  <2> QED
    BY <1>2, <2>1, <2>2 DEF Patient, IsStale
<1>6. CASE Steal(q)
    BY <1>2, <1>6 DEF Steal, Patient, FreeOrOver, IsStale
<1>7. CASE Wake(q)
  <2>1. pc[q] = "sleep" /\ pc'[q] = "loop" /\ UNCHANGED <<lock, age>>
    BY <1>7 DEF Wake
  <2>2. FreeOrOver'
    BY <1>2, <2>1, OrphanedStays DEF Patient
  <2> QED
    BY <1>2, <2>1, <2>2 DEF Patient, IsStale
<1> QED
    BY <1>3, <1>4, <1>5, <1>6, <1>7 DEF Acquire

\* A tick finds the waiters asleep and the orphan untouched.
LEMMA TickSteps ==
    ASSUME IInv, Tick, Next, ~raced, ~slow', NEW q \in Proc, q \notin busy'
    PROVE  Patient(q)'
<1> USE BoundAssumption DEF IInv, TypeOK
<1>1. q \notin busy /\ ~slow /\ \A p \in Proc : pc[p] \notin Polling
    BY DEF Tick
<1>2. Patient(q)
    BY <1>1 DEF WaiterKnows
<1>3. CASE pc[q] # "sleep"
    BY <1>1, <1>2, <1>3 DEF Tick, Patient, Polling
<1>4. CASE pc[q] = "sleep"
  <2>1. FreeOrOver /\ Waited(q) <= Stale + 1 /\ (lock = NoLock \/ ~IsStale)
        /\ (Waited(q) > 0 => age >= Waited(q) \/ IsStale)
    BY <1>2, <1>4 DEF Patient
  <2>2. \A p \in Proc : ~Beats(p)
    BY <2>1, HolderAlone DEF FreeOrOver, Beats, Holding
  <2>3. age' = (IF IsStale THEN age ELSE age + 1) /\ lock' = lock
    BY <2>2 DEF Tick
  <2>4. left[q] > 0 /\ left'[q] = left[q] - 1
    BY <2>1 DEF Tick, Waited, Wait
  <2>5. Waited(q)' = Waited(q) + 1 /\ Waited(q) \in Nat
    BY <2>4 DEF Waited, Wait
  <2>6. FreeOrOver'
    BY <2>1, <2>3, OrphanedStays
  <2>7. pc'[q] = "loop"
    BY <1>4 DEF Tick
  <2>8. age' >= Waited(q)' \/ IsStale'
    BY <2>1, <2>3, <2>5 DEF IsStale
  <2>9. Waited(q)' <= Stale + 1 \/ (Waited(q)' = Stale + 2 /\ lock' = NoLock)
    BY <2>1, <2>3, <2>5 DEF IsStale
  <2> QED
    BY <2>6, <2>7, <2>8, <2>9 DEF Patient
<1> QED
    BY <1>3, <1>4

LEMMA NextWaiterKnows ==
    ASSUME IInv, Next
    PROVE  WaiterKnows'
<1> SUFFICES ASSUME ~raced', ~slow', NEW q \in Proc, q \notin busy'
             PROVE  Patient(q)'
    BY DEF WaiterKnows
<1> USE DEF IInv, TypeOK, Goto
<1>a. ~raced /\ ~slow
  <2>1. slow => slow'
    BY DEF Next, Call, Acquire, Loop, Open, Stat, Steal, Wake, Hold, WriteToken, Finish,
           ReadOwner, Remove, Throw, WriteFails, Crash, Tick
  <2> QED
    BY <2>1, RacedStays
<1>b. q \notin busy => Patient(q)
    BY <1>a DEF WaiterKnows
<1>1. ASSUME NEW p \in Proc, Call(p)
      PROVE  Patient(q)'
  <2>1. CASE p = q
    BY <1>1, <2>1, BoundAssumption DEF Call, Patient, Waited, Wait
  <2>2. CASE p # q
    BY <1>1, <1>b, <2>2, PatientStays DEF Call
  <2> QED
    BY <2>1, <2>2
<1>2. CASE Acquire(q)
    BY <1>2, <1>a, OwnSteps
<1>3. ASSUME NEW p \in Proc, p # q, Acquire(p)
      PROVE  Patient(q)'
  <2>1. CASE Open(p) /\ lock = NoLock
    <3>1. q \notin busy /\ q \notin Waiting /\ pc'[q] = pc[q]
        BY <1>3, <2>1 DEF Open
    <3> QED
        BY <1>b, <3>1 DEF Patient, Waiting
  <2>2. CASE Open(p) /\ lock # NoLock
    <3>1. q \notin busy /\ pc'[q] = pc[q] /\ UNCHANGED <<left, age, lock>>
        BY <1>3, <2>2 DEF Open
    <3> QED
        BY <1>b, <3>1, PatientStays
  <2>3. CASE Loop(p) \/ Stat(p) \/ Steal(p) \/ Wake(p)
    <3>1. q \notin busy /\ pc'[q] = pc[q] /\ UNCHANGED <<left, age>>
          /\ lock' \in {lock, NoLock}
        BY <1>3, <2>3 DEF Loop, Stat, Steal, Wake
    <3> QED
        BY <1>b, <3>1, PatientStays
  <2> QED
    BY <1>3, <2>1, <2>2, <2>3 DEF Acquire
<1>4. ASSUME NEW p \in Proc, WriteToken(p)
      PROVE  Patient(q)'
  <2>1. lock # NoLock /\ ~Over(lock) /\ ~FreeOrOver /\ pc[p] = "write"
    BY <1>4, <1>a, HolderAlone DEF WriteToken, Holding, FreeOrOver
  <2>2. q \notin busy /\ left' = left
    BY <1>4 DEF WriteToken
  <2>3. CASE p = q
    BY <1>4, <2>3 DEF WriteToken, Patient, Polling
  <2>4. CASE p # q
    <3>1. pc'[q] = pc[q] /\ Waited(q)' = Waited(q) /\ Waited(q) \in Nat
        BY <1>4, <2>2, <2>4, BoundAssumption DEF WriteToken, Waited, Wait
    <3>2. pc[q] \in Polling \cup {"sleep"} =>
              Waited(q) = 0 /\ pc[q] \notin {"stat", "steal", "sleep"}
        BY <1>b, <2>1, <2>2, <3>1 DEF Patient
    <3> QED
        BY <1>b, <2>2, <3>1, <3>2, BoundAssumption DEF Patient
  <2> QED
    BY <2>3, <2>4
<1>5. ASSUME NEW p \in Proc,
             Finish(p) \/ ReadOwner(p) \/ Remove(p) \/ Throw(p) \/ WriteFails(p) \/ Crash(p)
      PROVE  Patient(q)'
  <2>1. q \notin busy /\ UNCHANGED <<left, age>> /\ lock' \in {lock, NoLock}
    BY <1>5 DEF Finish, ReadOwner, Remove, Throw, WriteFails, Crash
  <2>2. CASE p = q
    <3>1. pc'[q] \in {"idle", "readOwner", "rm"}
        BY <1>5, <2>2 DEF Finish, ReadOwner, Remove, Throw, WriteFails, Crash
    <3> QED
        BY <3>1 DEF Patient, Polling
  <2>3. CASE p # q
    <3>1. pc'[q] = pc[q]
        BY <1>5, <2>3 DEF Finish, ReadOwner, Remove, Throw, WriteFails, Crash
    <3> QED
        BY <1>b, <2>1, <3>1, PatientStays
  <2> QED
    BY <2>2, <2>3
<1>6. CASE Tick
    BY <1>6, <1>a, TickSteps
<1> QED
    BY <1>1, <1>2, <1>3, <1>4, <1>5, <1>6 DEF Next, Hold

LEMMA NextIInv ==
    ASSUME IInv, [Next]_vars
    PROVE  IInv'
<1>1. CASE Next
    BY <1>1, NextType, NextCalled, NextLockGenuine, NextOwnerHasLock, NextJudgedOver,
       NextWaiterKnows
       DEF IInv
<1>2. CASE UNCHANGED vars
  <2> USE <1>2 DEF IInv, vars
  <2>1. TypeOK' /\ Called' /\ LockGenuine'
    BY DEF TypeOK, Called, LockGenuine, Genuine
  <2>2. OwnerHasLock' /\ JudgedOver'
    BY DEF OwnerHasLock, JudgedOver, Over, Genuine, Mine
  <2>3. WaiterKnows'
    BY DEF WaiterKnows, Patient, Waited, FreeOrOver, IsStale, Over, Genuine
  <2> QED
    BY <2>1, <2>2, <2>3
<1> QED
    BY <1>1, <1>2

LEMMA IInvImplies ==
    ASSUME IInv
    PROVE  ExclusionUnlessRaced /\ TimeoutMeansBusy
<1> USE DEF IInv, TypeOK
<1>1. ASSUME ~raced
      PROVE  MutualExclusion
    BY <1>1, HolderAlone DEF MutualExclusion, Holding
<1>2. ASSUME ~raced, NEW p \in Proc, pc[p] \in {"critical", "readOwner", "rm"}
      PROVE  lock = Mine(p, TRUE) /\ ~IsStale
  <2>1. pc[p] \in Holding
    BY <1>2 DEF Holding
  <2>2. age <= Stale
    BY <1>2, <2>1, HolderAlone
  <2>3. lock = Mine(p, TRUE)
    BY <1>2, Zenon DEF OwnerHasLock
  <2> QED
    BY <2>2, <2>3, BoundAssumption DEF IsStale
<1>3. TimeoutMeansBusy
    BY DEF WaiterKnows, Patient, TimeoutMeansBusy
<1> QED
    BY <1>1, <1>2, <1>3 DEF ExclusionUnlessRaced

(***************************************************************************)
(* The theorems.                                                           *)
(***************************************************************************)
\* The lock file, its age and the processes keep their types through every
\* crash and failed system call.
THEOREM TypeTheorem == Spec => []TypeOK
<1>1. IInv => TypeOK
    BY DEF IInv
<1> QED
    BY InitIInv, NextIInv, <1>1, PTL DEF Spec

\* Until a steal hits another file than the one it judged, heartbeats, tokens
\* and rename keep the holders of withFileLock and withFileLockSync apart.
THEOREM ExclusionTheorem == Spec => []ExclusionUnlessRaced
<1> QED
    BY InitIInv, NextIInv, IInvImplies, PTL DEF Spec

\* The default waitMs, 2 * staleMs + 5 s, outlasts an orphaned lock: until a
\* steal hits a wrong file, a caller times out only if another held or took
\* the lock meanwhile, however many processes die.
THEOREM TimeoutTheorem == Spec => []TimeoutMeansBusy
<1> QED
    BY InitIInv, NextIInv, IInvImplies, PTL DEF Spec

\* The memory sync lock ------------------------------------------------------

(***************************************************************************)
(* A payload names an incarnation of a pid that exists or existed, and     *)
(* carries the token that incarnation had.                                 *)
(***************************************************************************)
SyncGenuine(h) ==
    /\ h.inc <= inc[h.pid]
    /\ h.token = IF StartTicks THEN h.inc ELSE NoToken

\* The incarnation that wrote h no longer runs.
SyncGone(h) == h.pid \notin alive \/ h.inc < inc[h.pid]

(***************************************************************************)
(* The inductive invariant.                                                *)
(***************************************************************************)
SyncLockGenuine == lockFile # NoHolder => SyncGenuine(lockFile)
SyncSeenGenuine == \A p \in Pid : seen[p] # NoHolder => SyncGenuine(seen[p])

\* A process about to rename the lock judged a file whose writer is gone.
SyncJudgedGone ==
    \A p \in Pid :
        p \in alive /\ stage[p] = "reclaim" => seen[p] # NoHolder /\ SyncGone(seen[p])

\* Until a reclaim hits the wrong file, the lock file is that of the process
\* that is writing it, holding it or about to unlink it.
SyncOwnerHasLock ==
    ~misfired => \A p \in Pid :
        /\ Inside(p) => lockFile = PayloadOf(p, TRUE)
        /\ p \in alive /\ stage[p] = "write" => lockFile = PayloadOf(p, FALSE)

\* A pid that is not in use is in no call.
SyncDeadIdle == \A p \in Pid : p \notin alive => stage[p] = "idle"

SyncIInv ==
    /\ SyncTypeOK /\ SyncDeadIdle
    /\ SyncLockGenuine /\ SyncSeenGenuine
    /\ SyncJudgedGone /\ SyncOwnerHasLock

LEMMA SyncPayloadType ==
    ASSUME SyncTypeOK, NEW p \in Pid, NEW b \in BOOLEAN
    PROVE  PayloadOf(p, b) \in Payload
  BY PlatformAssumption DEF SyncTypeOK, PayloadOf, Payload, OwnerToken, NoToken

LEMMA SyncInitIInv == SyncInit => SyncIInv
<1> SUFFICES ASSUME SyncInit PROVE SyncIInv
    OBVIOUS
<1>1. SyncTypeOK
    BY LabelAssumption DEF SyncInit, SyncTypeOK, Places
<1>2. SyncDeadIdle /\ SyncLockGenuine /\ SyncSeenGenuine /\ SyncJudgedGone /\ SyncOwnerHasLock
    BY DEF SyncInit, SyncDeadIdle, SyncLockGenuine, SyncSeenGenuine, SyncJudgedGone,
       SyncOwnerHasLock, Inside
<1> QED
    BY <1>1, <1>2 DEF SyncIInv

LEMMA SyncNextType ==
    ASSUME SyncTypeOK, SyncNext
    PROVE  SyncTypeOK'
<1> USE DEF SyncTypeOK, Proceed, Running, Places
<1>1. PICK p \in Pid :
          Start(p) \/ TryAcquire(p) \/ Release(p) \/ Dies(p) \/ Restart(p)
    BY DEF SyncNext
<1>2. CASE Start(p)
    BY <1>2, SyncBoundAssumption DEF Start, CallLockless, CallLocked
<1>3. CASE AttemptFails(p) \/ Link(p) \/ OpenExclusive(p) \/ WritePayload(p)
             \/ PayloadFails(p)
    BY <1>3, SyncPayloadType DEF AttemptFails, Link, OpenExclusive, WritePayload,
       PayloadFails
<1>4. CASE ReadLock(p) \/ Judge(p) \/ Reclaim(p)
  <2>1. CASE ReadLock(p)
    BY <2>1 DEF ReadLock, ReadHolder
  <2>2. CASE Judge(p)
    BY <2>2 DEF Judge
  <2>3. CASE Reclaim(p)
    BY <2>3 DEF Reclaim
  <2> QED
    BY <1>4, <2>1, <2>2, <2>3
<1>5. CASE Retry(p) \/ GiveUp(p)
    BY <1>5 DEF Retry, GiveUp
<1>6. CASE Release(p)
    BY <1>6 DEF Release, LeaveLockless, CheckOwner, Unlink
<1>7. CASE Dies(p) \/ Restart(p)
    BY <1>7 DEF Dies, Restart
<1> QED
    BY <1>1, <1>2, <1>3, <1>4, <1>5, <1>6, <1>7 DEF TryAcquire

\* No step changes what a payload says of its writer: incarnations only grow.
LEMMA SyncGenuineStable ==
    ASSUME SyncTypeOK, SyncNext, NEW h \in Payload, SyncGenuine(h)
    PROVE  SyncGenuine(h)'
<1>1. inc' = inc \/ \E p \in Pid : inc' = [inc EXCEPT ![p] = inc[p] + 1]
    BY DEF SyncNext, Start, CallLockless, CallLocked, TryAcquire, AttemptFails, Link,
       OpenExclusive,
           WritePayload, PayloadFails, ReadLock, Judge, Reclaim, Retry, GiveUp,
           Release, LeaveLockless, CheckOwner, Unlink, Dies, Restart
<1> QED
    BY <1>1 DEF SyncGenuine, SyncTypeOK, Payload

\* Whoever wrote h stays gone: a pid comes back only as a new incarnation.
LEMMA SyncGoneStable ==
    ASSUME SyncTypeOK, SyncNext, NEW h \in Payload, SyncGenuine(h), SyncGone(h)
    PROVE  SyncGone(h)'
<1>1. PICK p \in Pid :
          Start(p) \/ TryAcquire(p) \/ Release(p) \/ Dies(p) \/ Restart(p)
    BY DEF SyncNext
<1>2. CASE Dies(p)
    BY <1>2 DEF Dies, SyncGone
<1>3. CASE Restart(p)
    BY <1>3 DEF Restart, SyncGone, SyncGenuine, SyncTypeOK, Payload
<1>4. CASE Start(p) \/ TryAcquire(p) \/ Release(p)
  <2>1. alive' = alive /\ inc' = inc
    BY <1>4 DEF Start, CallLockless, CallLocked, TryAcquire, AttemptFails, Link,
       OpenExclusive,
           WritePayload, PayloadFails, ReadLock, Judge, Reclaim, Retry, GiveUp,
           Release, LeaveLockless, CheckOwner, Unlink
  <2> QED
    BY <2>1 DEF SyncGone
<1> QED
    BY <1>1, <1>2, <1>3, <1>4

\* A holder the code may reclaim is gone, on every platform.
LEMMA SyncReclaimableGone ==
    ASSUME SyncTypeOK, NEW h \in Payload, SyncGenuine(h), Reclaimable(h)
    PROVE  SyncGone(h)
  BY DEF SyncTypeOK, Payload, SyncGenuine, Reclaimable, SyncGone, OwnerToken

LEMMA SyncMineGenuine ==
    ASSUME SyncTypeOK, NEW p \in Pid, NEW b \in BOOLEAN
    PROVE  SyncGenuine(PayloadOf(p, b))
  BY DEF SyncTypeOK, SyncGenuine, PayloadOf, OwnerToken

LEMMA SyncNextLockGenuine ==
    ASSUME SyncIInv, SyncNext
    PROVE  SyncLockGenuine'
<1> USE DEF SyncIInv
<1>1. \/ lockFile' = lockFile \/ lockFile' = NoHolder
      \/ \E p \in Pid, b \in BOOLEAN :
             lockFile' = PayloadOf(p, b) /\ UNCHANGED <<inc, label>>
    BY DEF SyncNext, Start, CallLockless, CallLocked, TryAcquire, AttemptFails, Link,
       OpenExclusive,
           WritePayload, PayloadFails, ReadLock, Judge, Reclaim, Retry, GiveUp,
           Release, LeaveLockless, CheckOwner, Unlink, Dies, Restart
<1>2. CASE lockFile' = lockFile
    BY <1>2, SyncGenuineStable DEF SyncLockGenuine, SyncTypeOK, SyncGenuine
<1>3. CASE lockFile' = NoHolder
    BY <1>3 DEF SyncLockGenuine
<1>4. ASSUME NEW p \in Pid, NEW b \in BOOLEAN,
             lockFile' = PayloadOf(p, b), UNCHANGED <<inc, label>>
      PROVE  SyncLockGenuine'
    BY <1>4, SyncMineGenuine DEF SyncLockGenuine, SyncGenuine, PayloadOf
<1> QED
    BY <1>1, <1>2, <1>3, <1>4

LEMMA SyncNextSeenGenuine ==
    ASSUME SyncIInv, SyncNext
    PROVE  SyncSeenGenuine'
<1> USE DEF SyncIInv
<1> SUFFICES ASSUME NEW q \in Pid, seen'[q] # NoHolder
             PROVE  SyncGenuine(seen[q])'
    BY DEF SyncSeenGenuine
<1>1. seen'[q] = seen[q] \/ seen'[q] = lockFile
    BY DEF SyncNext, Start, CallLockless, CallLocked, TryAcquire, AttemptFails, Link,
       OpenExclusive,
           WritePayload, PayloadFails, ReadLock, ReadHolder, Judge, Reclaim,
           Retry, GiveUp, Release, LeaveLockless, CheckOwner, Unlink, Dies,
           Restart, SyncTypeOK
<1>2. seen'[q] \in Payload /\ SyncGenuine(seen'[q])
    BY <1>1 DEF SyncTypeOK, SyncSeenGenuine, SyncLockGenuine
<1>3. \A h \in Payload : SyncGenuine(h) => SyncGenuine(h)'
    BY SyncGenuineStable
<1> QED
    BY <1>2, SyncGenuineStable DEF SyncGenuine

LEMMA SyncNextJudgedGone ==
    ASSUME SyncIInv, SyncNext
    PROVE  SyncJudgedGone'
<1> USE DEF SyncIInv
<1> SUFFICES ASSUME NEW q \in Pid, q \in alive', stage'[q] = "reclaim"
             PROVE  seen'[q] # NoHolder /\ SyncGone(seen[q])'
    BY DEF SyncJudgedGone
<1>1. /\ seen'[q] = seen[q]
      /\ q \in alive /\ (stage[q] = "reclaim" \/ Reclaimable(seen[q]))
  <2> USE DEF SyncTypeOK, Proceed, Running, SyncDeadIdle
  <2>1. PICK p \in Pid :
            Start(p) \/ TryAcquire(p) \/ Release(p) \/ Dies(p) \/ Restart(p)
    BY DEF SyncNext
  <2>2. CASE Start(p) \/ Release(p) \/ Dies(p) \/ Restart(p)
    BY <2>2 DEF Start, CallLockless, CallLocked, Release, LeaveLockless, CheckOwner,
       Unlink, Dies,
           Restart
  <2>3. CASE AttemptFails(p) \/ Link(p) \/ OpenExclusive(p) \/ WritePayload(p)
               \/ PayloadFails(p)
    BY <2>3 DEF AttemptFails, Link, OpenExclusive, WritePayload, PayloadFails
  <2>4. CASE ReadLock(p) \/ Judge(p)
    BY <2>4 DEF ReadLock, Judge
  <2>5. CASE Reclaim(p) \/ Retry(p) \/ GiveUp(p)
    BY <2>5 DEF Reclaim, Retry, GiveUp
  <2> QED
    BY <2>1, <2>2, <2>3, <2>4, <2>5 DEF TryAcquire
<1>2. seen[q] # NoHolder /\ seen[q] \in Payload
    BY <1>1 DEF SyncJudgedGone, Reclaimable, SyncTypeOK
<1>3. SyncGenuine(seen[q])
    BY <1>2 DEF SyncSeenGenuine
<1>4. SyncGone(seen[q])
    BY <1>1, <1>2, <1>3, SyncReclaimableGone DEF SyncJudgedGone
<1> QED
    BY <1>1, <1>2, <1>3, <1>4, SyncGoneStable DEF SyncGone

LEMMA SyncNextDeadIdle ==
    ASSUME SyncIInv, SyncNext
    PROVE  SyncDeadIdle'
<1> USE DEF SyncIInv, SyncDeadIdle, SyncTypeOK, Proceed, Running
<1>1. PICK p \in Pid :
          Start(p) \/ TryAcquire(p) \/ Release(p) \/ Dies(p) \/ Restart(p)
    BY DEF SyncNext
<1>2. CASE Start(p) \/ Release(p)
    BY <1>2 DEF Start, CallLockless, CallLocked, Release, LeaveLockless, CheckOwner, Unlink
<1>3. CASE Dies(p) \/ Restart(p)
    BY <1>3 DEF Dies, Restart
<1>4. CASE AttemptFails(p) \/ Link(p) \/ OpenExclusive(p) \/ WritePayload(p)
             \/ PayloadFails(p)
    BY <1>4 DEF AttemptFails, Link, OpenExclusive, WritePayload, PayloadFails
<1>5. CASE ReadLock(p) \/ Judge(p) \/ Reclaim(p) \/ Retry(p) \/ GiveUp(p)
    BY <1>5 DEF ReadLock, Judge, Reclaim, Retry, GiveUp
<1> QED
    BY <1>1, <1>2, <1>3, <1>4, <1>5 DEF TryAcquire

\* Two different processes never own the same lock file.
LEMMA SyncMineDistinct ==
    ASSUME SyncTypeOK, NEW p \in Pid, NEW q \in Pid,
           NEW a \in BOOLEAN, NEW b \in BOOLEAN, PayloadOf(p, a) = PayloadOf(q, b)
    PROVE  p = q /\ a = b
  BY DEF PayloadOf

\* The only steps that touch the lock file of a running process are its own,
\* and a reclaim that races.
LEMMA SyncNextOwnerHasLock ==
    ASSUME SyncIInv, SyncNext
    PROVE  SyncOwnerHasLock'
<1> USE DEF SyncIInv
<1> SUFFICES ASSUME ~misfired', NEW q \in Pid, q \in alive',
                    stage'[q] \in {"held", "unlink", "write"}
             PROVE  (lockFile = PayloadOf(q, stage[q] # "write"))'
    BY DEF SyncOwnerHasLock, Inside
<1>a. ~misfired
    BY DEF SyncNext, Start, CallLockless, CallLocked, TryAcquire, AttemptFails, Link,
       OpenExclusive,
           WritePayload, PayloadFails, ReadLock, Judge, Reclaim, Retry, GiveUp,
           Release, LeaveLockless, CheckOwner, Unlink, Dies, Restart
<1>b. \A p \in Pid : p \in alive /\ stage[p] \in {"held", "unlink", "write"}
                        => lockFile = PayloadOf(p, stage[p] # "write")
    BY <1>a DEF SyncOwnerHasLock, Inside
<1>c. \A p \in Pid, b \in BOOLEAN : PayloadOf(p, b) # NoHolder
    BY SyncPayloadType, NoHolderAssumption
<1>1. PICK p \in Pid :
          Start(p) \/ TryAcquire(p) \/ Release(p) \/ Dies(p) \/ Restart(p)
    BY DEF SyncNext
<1>2. CASE Start(p) \/ AttemptFails(p) \/ LeaveLockless(p) \/ ReadLock(p) \/ Judge(p)
             \/ Retry(p) \/ GiveUp(p) \/ CheckOwner(p)
  <2>1. /\ stage'[q] = stage[q] \/ (stage[q] = "held" /\ stage'[q] = "unlink")
        /\ q \in alive /\ lockFile' = lockFile /\ inc' = inc /\ label'[q] = label[q]
    BY <1>2 DEF Start, CallLockless, CallLocked, AttemptFails, LeaveLockless, ReadLock,
       Judge,
                Retry, GiveUp, CheckOwner, SyncTypeOK, Proceed, Running
  <2> QED
    BY <2>1, <1>b DEF PayloadOf, OwnerToken
<1>3. CASE Link(p) \/ OpenExclusive(p)
  <2>1. UNCHANGED <<alive, inc, label>>
    BY <1>3 DEF Link, OpenExclusive
  <2>2. CASE lockFile = NoHolder
    <3>1. stage'[q] = stage[q] => FALSE
      BY <2>1, <2>2, <1>b, <1>c
    <3>2. q = p
      BY <3>1, <1>3 DEF Link, OpenExclusive, Proceed, SyncTypeOK
    <3> QED
      BY <1>3, <2>1, <2>2, <3>2
      DEF Link, OpenExclusive, Proceed, SyncTypeOK, PayloadOf, OwnerToken
  <2>3. CASE lockFile # NoHolder
    <3>1. lockFile' = lockFile /\ stage'[q] = stage[q]
      BY <1>3, <2>3 DEF Link, OpenExclusive, Proceed, SyncTypeOK
    <3> QED
      BY <2>1, <3>1, <1>b DEF PayloadOf, OwnerToken
  <2> QED
    BY <2>2, <2>3
<1>4. CASE WritePayload(p) \/ PayloadFails(p)
  <2>1. UNCHANGED <<alive, inc, label>> /\ p \in alive /\ stage[p] = "write"
    BY <1>4 DEF WritePayload, PayloadFails, Running
  <2>2. lockFile = PayloadOf(p, FALSE)
    BY <2>1, <1>b
  <2>3. q = p
    <3> SUFFICES ASSUME q # p PROVE FALSE
      OBVIOUS
    <3>1. stage'[q] = stage[q]
      BY <1>4 DEF WritePayload, PayloadFails, Proceed, SyncTypeOK
    <3>2. lockFile = PayloadOf(q, stage[q] # "write")
      BY <3>1, <2>1, <1>b
    <3> QED
      BY <3>2, <2>2, SyncMineDistinct
  <2> QED
    BY <1>4, <2>1, <2>2, <2>3
    DEF WritePayload, PayloadFails, Proceed, SyncTypeOK, PayloadOf, OwnerToken
<1>5. CASE Reclaim(p)
  <2>1. /\ UNCHANGED <<alive, inc, label>> /\ stage'[q] = stage[q]
        /\ lockFile \in {NoHolder, seen[p]}
    BY <1>5, <1>a DEF Reclaim, Proceed, SyncTypeOK
  <2>2. lockFile = PayloadOf(q, stage[q] # "write")
    BY <2>1, <1>b
  <2>3. lockFile = seen[p] /\ SyncGone(lockFile)
    BY <2>1, <2>2, <1>c, <1>5 DEF Reclaim, Running, SyncJudgedGone
  <2> QED
    BY <2>1, <2>2, <2>3 DEF SyncGone, PayloadOf, SyncTypeOK
<1>6. CASE Unlink(p)
  <2>1. /\ UNCHANGED <<alive, inc, label>> /\ stage'[q] = stage[q] /\ p # q
        /\ p \in alive /\ stage[p] = "unlink"
    BY <1>6 DEF Unlink, Proceed, Running, SyncTypeOK
  <2>2. lockFile = PayloadOf(p, TRUE) /\ lockFile = PayloadOf(q, stage[q] # "write")
    BY <2>1, <1>b
  <2> QED
    BY <2>1, <2>2, SyncMineDistinct
<1>7. CASE Dies(p)
  <2>1. /\ UNCHANGED <<lockFile, inc, label>> /\ stage'[q] = stage[q] /\ q \in alive
    BY <1>7 DEF Dies, Proceed, SyncTypeOK
  <2> QED
    BY <2>1, <1>b DEF PayloadOf, OwnerToken
<1>8. CASE Restart(p)
  <2>1. /\ UNCHANGED <<lockFile, label, stage>> /\ q \in alive /\ inc'[q] = inc[q]
    BY <1>8 DEF Restart, SyncTypeOK, SyncDeadIdle
  <2> QED
    BY <2>1, <1>b DEF PayloadOf, OwnerToken
<1> QED
    BY <1>1, <1>2, <1>3, <1>4, <1>5, <1>6, <1>7, <1>8 DEF TryAcquire, Release

LEMMA SyncNextIInv == SyncIInv /\ [SyncNext]_syncVars => SyncIInv'
<1>1. ASSUME SyncIInv, SyncNext PROVE SyncIInv'
    BY <1>1, SyncNextType, SyncNextDeadIdle, SyncNextLockGenuine, SyncNextSeenGenuine,
       SyncNextJudgedGone, SyncNextOwnerHasLock DEF SyncIInv
<1>2. ASSUME SyncIInv, UNCHANGED syncVars PROVE SyncIInv'
    BY <1>2 DEF syncVars, SyncIInv, SyncTypeOK, SyncDeadIdle, SyncLockGenuine,
       SyncSeenGenuine,
       SyncJudgedGone, SyncOwnerHasLock, SyncGenuine, SyncGone, Inside, PayloadOf,
       OwnerToken
<1> QED
    BY <1>1, <1>2

LEMMA SyncIInvImplies == SyncIInv => ExclusionUnlessMisfired
<1> SUFFICES ASSUME SyncIInv, ~misfired
             PROVE  /\ SyncMutualExclusion
                    /\ \A p \in Pid : Inside(p) => lockFile = PayloadOf(p, TRUE)
    BY DEF ExclusionUnlessMisfired
<1>1. \A p \in Pid : Inside(p) => lockFile = PayloadOf(p, TRUE)
    BY DEF SyncIInv, SyncOwnerHasLock
<1>2. SyncMutualExclusion
    BY <1>1, SyncMineDistinct DEF SyncMutualExclusion, SyncIInv
<1> QED
    BY <1>1, <1>2

(***************************************************************************)
(* Every reachable state of withMemorySyncLock has well-typed state: the   *)
(* lock file, the holders read from it and the callers' positions.         *)
(***************************************************************************)
THEOREM SyncTypeTheorem == SyncSpec => []SyncTypeOK
<1>1. SyncIInv => SyncTypeOK
    BY DEF SyncIInv
<1> QED
    BY SyncInitIInv, SyncNextIInv, <1>1, PTL DEF SyncSpec

(***************************************************************************)
(* For any number of processes, crashes and reuses of pids, with or        *)
(* without start ticks and hard links: two processes are inside the        *)
(* critical section together only after a reclaim renamed a lock file      *)
(* other than the one it had judged.  The window between readHolder and    *)
(* renameSync in tryAcquire is the one hole in the mutex.                  *)
(***************************************************************************)
THEOREM SyncExclusionTheorem == SyncSpec => []ExclusionUnlessMisfired
    BY SyncInitIInv, SyncNextIInv, SyncIInvImplies, PTL DEF SyncSpec
===========================================================================
