------------------------------ MODULE FileLock ------------------------------
(***************************************************************************)
(* The cross-process advisory file lock, lib/util/file-lock.js: the lock   *)
(* of the credentials file, the machine id, the sync state and the         *)
(* redaction deny list.                                                    *)
(*                                                                         *)
(* The lock is the file <path>.lock.  An asynchronous holder touches it    *)
(* from an interval timer; a file not touched for more than staleMs is     *)
(* stolen.  Time advances in ticks: Stale ticks are staleMs, Wait ticks    *)
(* are waitMs, and the interval timer of a running holder fires at least   *)
(* once per tick.  A process is split at its system calls.                 *)
(***************************************************************************)
EXTENDS Naturals

CONSTANTS
    Proc,        \* the processes
    Sync,        \* the ones that use withFileLockSync
    NoLock,      \* no lock file
    Stale,       \* staleMs in ticks
    MaxFaults,   \* bound: crashes and failed system calls in one behaviour
    MaxCalls     \* bound: calls of one process

ASSUME SyncAssumption == Sync \subseteq Proc
\* The interval is staleMs / 3: more than one tick fits into staleMs.
ASSUME BoundAssumption ==
    Stale \in Nat \ {0, 1} /\ MaxFaults \in Nat /\ MaxCalls \in Nat

\* A mutant: callers give up before a fresh orphan can become stale.
WaitTooShort == Stale

\* options.waitMs defaults to staleMs * 2 + 5 s.
Wait == Stale * 2 + 1

VARIABLES
    lock,     \* NoLock, or the lock file: whose it is, and its token if written
    age,      \* ticks since the lock file was last touched, up to Stale + 1
    pc,       \* where the process is
    calls,    \* the calls it made: with its name, the token of the call
    left,     \* ticks left before its deadline
    judged,   \* the lock file its stat found
    busy,     \* history: another process held or took the lock while it waited
    slow,     \* history: a waiter's system call took longer than a tick
    faults,   \* crashes and failed system calls so far
    raced     \* history: a steal renamed a file other than the one it judged

vars == <<lock, age, pc, calls, left, judged, busy, slow, faults, raced>>

File == [owner : Proc, call : 1..MaxCalls, written : BOOLEAN]

ASSUME NoLockAssumption == NoLock \notin File

Mine(p, written) == [owner |-> p, call |-> calls[p], written |-> written]

\* The file is stale when Date.now() - mtime exceeds staleMs.
IsStale == age > Stale

Goto(p, place) == pc' = [pc EXCEPT ![p] = place]

Holding == {"write", "critical", "readOwner", "rm"}
Polling == {"loop", "open", "stat", "steal"}
Live(f) ==
    f # NoLock /\ pc[f.owner] \in Holding /\ calls[f.owner] = f.call

Init ==
    /\ lock = NoLock
    /\ age = 0
    /\ pc = [p \in Proc |-> "idle"]
    /\ calls = [p \in Proc |-> 0]
    /\ left = [p \in Proc |-> 0]
    /\ judged = [p \in Proc |-> NoLock]
    /\ busy = {} /\ slow = FALSE
    /\ faults = 0
    /\ raced = FALSE

-----------------------------------------------------------------------------
Call(p) ==
    /\ pc[p] \in {"idle", "failed"}
    /\ calls[p] < MaxCalls
    /\ calls' = [calls EXCEPT ![p] = calls[p] + 1]
    /\ left' = [left EXCEPT ![p] = Wait]
    /\ busy' = busy \ {p}
    /\ Goto(p, "loop")
    /\ UNCHANGED <<lock, age, judged, slow, faults, raced>>

\* The for loop's condition: the deadline has not passed.
Loop(p) ==
    /\ pc[p] = "loop"
    /\ Goto(p, IF left[p] > 0 THEN "open" ELSE "failed")
    /\ UNCHANGED <<lock, age, calls, left, judged, busy, slow, faults, raced>>

Waiting == {p \in Proc : pc[p] \in Polling \cup {"sleep"}}

\* open(lockPath, 'wx').
Open(p) ==
    /\ pc[p] = "open"
    /\ \/ lock = NoLock /\ lock' = Mine(p, FALSE) /\ age' = 0 /\ Goto(p, "write")
       \/ lock # NoLock /\ UNCHANGED <<lock, age>> /\ Goto(p, "stat")
    /\ busy' = IF lock = NoLock THEN busy \cup (Waiting \ {p})
               ELSE IF Live(lock) THEN busy \cup {p} ELSE busy
    /\ UNCHANGED <<calls, left, judged, slow, faults, raced>>

\* stat(lockPath): a stale file is stolen, anything else waited for.
Stat(p) ==
    /\ pc[p] = "stat"
    /\ judged' = [judged EXCEPT ![p] = lock]
    /\ Goto(p, IF lock # NoLock /\ IsStale THEN "steal" ELSE "sleep")
    /\ UNCHANGED <<lock, age, calls, left, busy, slow, faults, raced>>

\* rename(lockPath, stolen): moves away whatever file now has that name.
Steal(p) ==
    /\ pc[p] = "steal"
    /\ lock' = NoLock
    /\ raced' = (raced \/ lock \notin {NoLock, judged[p]})
    /\ Goto(p, "loop")
    /\ UNCHANGED <<age, calls, left, judged, busy, slow, faults>>

Wake(p) ==
    /\ pc[p] = "sleep"
    /\ Goto(p, "loop")
    /\ UNCHANGED <<lock, age, calls, left, judged, busy, slow, faults, raced>>

\* A mutant: the file is written without the token of the call.
WriteNoToken(p) ==
    /\ pc[p] = "write"
    /\ lock' = [Mine(p, TRUE) EXCEPT !.call = 0]
    /\ age' = 0
    /\ Goto(p, "critical")
    /\ UNCHANGED <<calls, left, judged, busy, slow, faults, raced>>

\* The token is written to the file p created, and the interval timer starts.
WriteToken(p) ==
    /\ pc[p] = "write"
    /\ lock' = IF lock = Mine(p, FALSE) THEN Mine(p, TRUE) ELSE lock
    /\ age' = IF lock = Mine(p, FALSE) THEN 0 ELSE age
    /\ Goto(p, "critical")
    /\ UNCHANGED <<calls, left, judged, busy, slow, faults, raced>>

\* critical() settles; the timer is cleared, the file closed.
Finish(p) ==
    /\ pc[p] = "critical"
    /\ Goto(p, "readOwner")
    /\ UNCHANGED <<lock, age, calls, left, judged, busy, slow, faults, raced>>

\* The lock is removed only if it holds this call's token.
ReadOwner(p) ==
    /\ pc[p] = "readOwner"
    /\ Goto(p, IF lock = Mine(p, TRUE) THEN "rm" ELSE "idle")
    /\ UNCHANGED <<lock, age, calls, left, judged, busy, slow, faults, raced>>

Remove(p) ==
    /\ pc[p] = "rm"
    /\ lock' = NoLock
    /\ Goto(p, "idle")
    /\ UNCHANGED <<age, calls, left, judged, busy, slow, faults, raced>>

-----------------------------------------------------------------------------
(* Failures                                                                *)

Fault ==
    /\ faults < MaxFaults
    /\ faults' = faults + 1

\* A waiter's call throws: anything but EEXIST from open, ENOENT from rename.
Throw(p) ==
    /\ Fault
    /\ pc[p] \in {"open", "steal"} \/ (pc[p] = "stat" /\ p \in Sync)
    /\ Goto(p, "idle")
    /\ UNCHANGED <<lock, age, calls, left, judged, busy, slow, raced>>

\* writeFile throws: the finally block finds no token and leaves the file.
WriteFails(p) ==
    /\ Fault
    /\ pc[p] = "write"
    /\ Goto(p, "idle")
    /\ UNCHANGED <<lock, age, calls, left, judged, busy, slow, raced>>

\* The process dies and leaves its lock.
Crash(p) ==
    /\ Fault
    /\ pc[p] \notin {"idle", "failed"}
    /\ Goto(p, "idle")
    /\ UNCHANGED <<lock, age, calls, left, judged, busy, slow, raced>>

-----------------------------------------------------------------------------
(* Time                                                                    *)

\* A mutant: no heartbeat.
NeverBeats(p) == FALSE

\* A process whose interval timer is running; it touches the lock's path.
Beats(p) == p \notin Sync /\ pc[p] = "critical"

\* A synchronous holder finishes within staleMs: its callers' obligation.
SyncInTime == \A p \in Sync : pc[p] = "critical" => age < Stale

\* Short steps of a holder around its critical section never take long.
HolderPrompt == \A p \in Proc : pc[p] \notin {"write", "readOwner", "rm"}

Tick ==
    /\ SyncInTime /\ HolderPrompt
    /\ slow' = (slow \/ \E p \in Proc : pc[p] \in Polling)
    /\ age' = IF \E p \in Proc : Beats(p) THEN 0
              ELSE IF IsStale THEN age ELSE age + 1
    /\ left' = [p \in Proc |-> IF left[p] > 0 THEN left[p] - 1 ELSE 0]
    \* A sleeping waiter wakes within 25 ms, so it polls again every tick.
    /\ pc' = [p \in Proc |-> IF pc[p] = "sleep" THEN "loop" ELSE pc[p]]
    /\ UNCHANGED <<lock, calls, judged, busy, faults, raced>>

Acquire(p) == Loop(p) \/ Open(p) \/ Stat(p) \/ Steal(p) \/ Wake(p)
Hold(p) == WriteToken(p) \/ Finish(p) \/ ReadOwner(p) \/ Remove(p)

Next ==
    \/ \E p \in Proc : Call(p) \/ Acquire(p) \/ Hold(p)
    \/ \E p \in Proc : Throw(p) \/ WriteFails(p) \/ Crash(p)
    \/ Tick

Spec == Init /\ [][Next]_vars

-----------------------------------------------------------------------------
\* Type invariant.
TypeOK ==
    /\ lock \in File \cup {NoLock}
    /\ age \in 0..(Stale + 1)
    /\ pc \in [Proc -> Holding \cup Polling \cup {"idle", "sleep", "failed"}]
    /\ calls \in [Proc -> 0..MaxCalls]
    /\ left \in [Proc -> 0..Wait]
    /\ judged \in [Proc -> File \cup {NoLock}]
    /\ busy \subseteq Proc /\ slow \in BOOLEAN
    /\ faults \in 0..MaxFaults
    /\ raced \in BOOLEAN

\* The promise of withFileLock: at most one process is inside critical().
\* The header comment of file-lock.js argues it from "Stealing is exclusive".
MutualExclusion ==
    \A p, q \in Proc : pc[p] = "critical" /\ pc[q] = "critical" => p = q

\* What heartbeats, tokens and rename do guarantee: as long as no steal has
\* renamed a file other than the stale one it judged, holders exclude each
\* other, a holder's lock file is its own and never stale.
ExclusionUnlessRaced ==
    ~raced =>
        /\ MutualExclusion
        /\ \A p \in Proc :
               pc[p] \in {"critical", "readOwner", "rm"} =>
                   lock = Mine(p, TRUE) /\ ~IsStale

\* The retry window outlasts an orphaned lock: while no waiter's system call
\* hangs, a caller times out only if another process held or took the lock
\* during its wait.  It ends with the first raced steal: a holder robbed of its
\* file goes on touching the path, which may keep an orphan of another fresh.
TimeoutMeansBusy ==
    ~slow /\ ~raced => \A p \in Proc : pc[p] = "failed" => p \in busy
=============================================================================
