--------------------------- MODULE MemorySyncLock ---------------------------
(***************************************************************************)
(* The cross-process memory sync mutex, lib/memory/sync-lock.js.           *)
(*                                                                         *)
(* Every process that runs a locked memory command, and the daemon that    *)
(* runs the converge cycle, serialises on the file                         *)
(* .brain/memory-sync.lock.  A process runs its own JavaScript without     *)
(* interleaving, but each file system call is one atomic step with respect *)
(* to the other processes, so withMemorySyncLock and tryAcquire are split  *)
(* at their system calls.                                                  *)
(*                                                                         *)
(* A process is named by its pid.  It may crash anywhere and a new process *)
(* may get the same pid: inc counts the incarnations of a pid and stands   *)
(* for the kernel start tick.                                              *)
(***************************************************************************)
EXTENDS Naturals

CONSTANTS
    Pid,         \* the pids
    Label,       \* the holder labels (daemon-converge, memory publish, ...)
    ReadOnly,    \* the pids that cannot write .brain
    StartTicks,  \* TRUE on Linux: a pid's start tick can be read from /proc
    HardLinks,   \* the processes whose link(2) in .brain is supported
    NoHolder,    \* no lock file, and what reading an unreadable one returns
    MaxTries,    \* bound: retries a caller's waitMs allows
    MaxCrashes   \* bound: crashes in one behaviour

ASSUME SyncBoundAssumption == MaxTries \in Nat /\ MaxCrashes \in Nat
ASSUME PlatformAssumption ==
    /\ StartTicks \in BOOLEAN
    /\ HardLinks \subseteq Pid
    /\ ReadOnly \subseteq Pid
ASSUME LabelAssumption == Label # {}

VARIABLES
    lockFile,  \* the lock file: NoHolder or a Payload (written or still empty)
    alive,     \* the pids under which a process runs
    inc,       \* the incarnation of the pid
    stage,     \* where the process is in withMemorySyncLock
    label,     \* the holderLabel of its current call
    seen,      \* the holder it read from the lock file
    tries,     \* the retries left before its deadline
    crashes,   \* crashes so far
    misfired   \* history: a reclaim renamed a file other than the one it judged

syncVars == <<lockFile, alive, inc, stage, label, seen, tries, crashes, misfired>>

NoToken == 0

\* The owner token of a live pid: its start tick, or null off Linux.
OwnerToken(p) == IF StartTicks THEN inc[p] ELSE NoToken

\* The lock file process p creates; inc identifies the file, the code reads
\* only pid, label and token.
PayloadOf(p, written) ==
    [pid |-> p, inc |-> inc[p], label |-> label[p],
     token |-> OwnerToken(p), written |-> written]

Payload ==
    [pid : Pid, inc : Nat, label : Label, token : Nat, written : BOOLEAN]

ASSUME NoHolderAssumption == NoHolder \notin Payload

\* readHolder: an absent or a still empty lock file reads as null.
ReadHolder == IF lockFile # NoHolder /\ lockFile.written THEN lockFile ELSE NoHolder

Proceed(p, place) == stage' = [stage EXCEPT ![p] = place]

Running(p, place) == p \in alive /\ stage[p] = place

SyncInit ==
    /\ lockFile = NoHolder
    /\ alive = Pid
    /\ inc = [p \in Pid |-> 1]
    /\ stage = [p \in Pid |-> "idle"]
    /\ label = [p \in Pid |-> CHOOSE l \in Label : TRUE]
    /\ seen = [p \in Pid |-> NoHolder]
    /\ tries = [p \in Pid |-> 0]
    /\ crashes = 0
    /\ misfired = FALSE

-----------------------------------------------------------------------------
\* withMemorySyncLock on a writable .brain.
CallLocked(p, l) ==
    /\ Running(p, "idle")
    /\ p \notin ReadOnly
    /\ label' = [label EXCEPT ![p] = l]
    /\ tries' = [tries EXCEPT ![p] = MaxTries]
    /\ Proceed(p, "try")
    /\ UNCHANGED <<lockFile, alive, inc, seen, crashes, misfired>>

\* A .brain found unwritable beforehand degrades to running without the lock.
CallLockless(p) ==
    /\ Running(p, "idle")
    /\ p \in ReadOnly
    /\ Proceed(p, "lockless")
    /\ UNCHANGED <<lockFile, alive, inc, label, seen, tries, crashes, misfired>>

LeaveLockless(p) ==
    /\ Running(p, "lockless")
    /\ Proceed(p, "idle")
    /\ UNCHANGED <<lockFile, alive, inc, label, seen, tries, crashes, misfired>>

\* The temp file, or the link, fails for another reason than EEXIST: the
\* error surfaces, or, when .brain is unwritable, fn runs without the lock.
AttemptFails(p) ==
    /\ Running(p, "try")
    /\ Proceed(p, "idle") \/ Proceed(p, "lockless")
    /\ UNCHANGED <<lockFile, alive, inc, label, seen, tries, crashes, misfired>>

\* link(2): the payload becomes visible together with the lock file.
Link(p) ==
    /\ Running(p, "try")
    /\ p \in HardLinks
    /\ \/ lockFile = NoHolder /\ lockFile' = PayloadOf(p, TRUE) /\ Proceed(p, "held")
       \/ lockFile # NoHolder /\ lockFile' = lockFile /\ Proceed(p, "read")
    /\ UNCHANGED <<alive, inc, label, seen, tries, crashes, misfired>>

\* Without hard links: exclusive create, and the payload written later.
OpenExclusive(p) ==
    /\ Running(p, "try")
    /\ p \notin HardLinks
    /\ \/ lockFile = NoHolder /\ lockFile' = PayloadOf(p, FALSE) /\ Proceed(p, "write")
       \/ lockFile # NoHolder /\ lockFile' = lockFile /\ Proceed(p, "read")
    /\ UNCHANGED <<alive, inc, label, seen, tries, crashes, misfired>>

\* The payload goes to the file p created, wherever that file is by now.
WritePayload(p) ==
    /\ Running(p, "write")
    /\ lockFile' = IF lockFile = PayloadOf(p, FALSE) THEN PayloadOf(p, TRUE) ELSE lockFile
    /\ Proceed(p, "held")
    /\ UNCHANGED <<alive, inc, label, seen, tries, crashes, misfired>>

\* A failed write removes the lock file, then surfaces the error, or, when
\* .brain turned out to be unwritable, runs fn without the lock.
PayloadFails(p) ==
    /\ Running(p, "write")
    /\ lockFile' = NoHolder
    /\ Proceed(p, "idle") \/ Proceed(p, "lockless")
    /\ UNCHANGED <<alive, inc, label, seen, tries, crashes, misfired>>

ReadLock(p) ==
    /\ Running(p, "read")
    /\ seen' = [seen EXCEPT ![p] = ReadHolder]
    /\ Proceed(p, "judge")
    /\ UNCHANGED <<lockFile, alive, inc, label, tries, crashes, misfired>>

\* Mutants: any readable holder is stolen; a recycled pid is not noticed.
StealAnyHolder(h) == h # NoHolder
TrustLivePid(h) == h # NoHolder /\ h.pid \notin alive

\* The holder is provably gone: its pid is dead, or the pid's start tick shows
\* that it was recycled.
Reclaimable(h) ==
    /\ h # NoHolder
    /\ \/ h.pid \notin alive
       \/ StartTicks /\ h.token # OwnerToken(h.pid)

Judge(p) ==
    /\ Running(p, "judge")
    /\ Proceed(p, IF Reclaimable(seen[p]) THEN "reclaim" ELSE "wait")
    /\ UNCHANGED <<lockFile, alive, inc, label, seen, tries, crashes, misfired>>

\* rename(2) moves away whatever file now has the lock's name.
Reclaim(p) ==
    /\ Running(p, "reclaim")
    /\ lockFile' = NoHolder
    /\ misfired' = (misfired \/ lockFile \notin {NoHolder, seen[p]})
    /\ Proceed(p, "wait")
    /\ UNCHANGED <<alive, inc, label, seen, tries, crashes>>

\* Mutants: the deadline is checked one attempt too late; it is never reached.
RetryPastDeadline(p) ==
    /\ Running(p, "wait")
    /\ tries' = [tries EXCEPT ![p] = tries[p] - 1]
    /\ Proceed(p, "try")
    /\ UNCHANGED <<lockFile, alive, inc, label, seen, crashes, misfired>>

RetryForever(p) ==
    /\ Running(p, "wait")
    /\ tries[p] > 0
    /\ Proceed(p, "try")
    /\ UNCHANGED <<lockFile, alive, inc, label, seen, tries, crashes, misfired>>

\* The deadline is checked after every failed attempt.
Retry(p) ==
    /\ Running(p, "wait")
    /\ tries[p] > 0
    /\ tries' = [tries EXCEPT ![p] = tries[p] - 1]
    /\ Proceed(p, "try")
    /\ UNCHANGED <<lockFile, alive, inc, label, seen, crashes, misfired>>

GiveUp(p) ==
    /\ Running(p, "wait")
    /\ tries[p] = 0
    /\ Proceed(p, "idle")
    /\ UNCHANGED <<lockFile, alive, inc, label, seen, tries, crashes, misfired>>

\* fn has settled: the finally block reads the lock file and unlinks it only
\* if pid, label and token are still this call's.
CheckOwner(p) ==
    /\ Running(p, "held")
    /\ LET h == ReadHolder IN
       Proceed(p, IF /\ h # NoHolder
                  /\ h.pid = p /\ h.label = label[p] /\ h.token = OwnerToken(p)
               THEN "unlink" ELSE "idle")
    /\ UNCHANGED <<lockFile, alive, inc, label, seen, tries, crashes, misfired>>

Unlink(p) ==
    /\ Running(p, "unlink")
    /\ lockFile' = NoHolder
    /\ Proceed(p, "idle")
    /\ UNCHANGED <<alive, inc, label, seen, tries, crashes, misfired>>

-----------------------------------------------------------------------------
\* The environment: a process dies anywhere, and its pid is used again.
Dies(p) ==
    /\ p \in alive
    /\ crashes < MaxCrashes
    /\ crashes' = crashes + 1
    /\ alive' = alive \ {p}
    /\ Proceed(p, "idle")
    /\ UNCHANGED <<lockFile, inc, label, seen, tries, misfired>>

Restart(p) ==
    /\ p \notin alive
    /\ alive' = alive \cup {p}
    /\ inc' = [inc EXCEPT ![p] = inc[p] + 1]
    /\ UNCHANGED <<lockFile, stage, label, seen, tries, crashes, misfired>>

Start(p) == CallLockless(p) \/ \E l \in Label : CallLocked(p, l)

TryAcquire(p) ==
    \/ AttemptFails(p) \/ Link(p) \/ OpenExclusive(p)
    \/ WritePayload(p) \/ PayloadFails(p)
    \/ ReadLock(p) \/ Judge(p) \/ Reclaim(p) \/ Retry(p) \/ GiveUp(p)

Release(p) == LeaveLockless(p) \/ CheckOwner(p) \/ Unlink(p)

SyncNext ==
    \E p \in Pid : Start(p) \/ TryAcquire(p) \/ Release(p) \/ Dies(p) \/ Restart(p)

SyncSpec == SyncInit /\ [][SyncNext]_syncVars

\* A running process keeps executing, and every fn it runs settles.
FairSpec == SyncSpec /\ \A p \in Pid : WF_syncVars(TryAcquire(p) \/ Release(p))

\* Moreover every process goes on issuing memory commands (the daemon's
\* converge cycle runs on an interval), and the file system does not fail
\* every one of its attempts.
BusySpec ==
    FairSpec /\ \A p \in Pid :
        WF_syncVars(Start(p)) /\ SF_syncVars(Link(p) \/ OpenExclusive(p))

-----------------------------------------------------------------------------
Places == {"idle", "lockless", "try", "write", "read", "judge", "reclaim",
           "wait", "held", "unlink"}

\* Type invariant.
SyncTypeOK ==
    /\ lockFile \in Payload \cup {NoHolder}
    /\ alive \subseteq Pid
    /\ inc \in [Pid -> Nat]
    /\ stage \in [Pid -> Places]
    /\ label \in [Pid -> Label]
    /\ seen \in [Pid -> Payload \cup {NoHolder}]
    /\ tries \in [Pid -> Nat]
    /\ crashes \in Nat
    /\ misfired \in BOOLEAN

Inside(p) == p \in alive /\ stage[p] \in {"held", "unlink"}

\* The promise of withMemorySyncLock: no two processes are inside fn at once.
\* The header comment of sync-lock.js argues it from "a lock whose holder pid
\* is ALIVE is never stolen".
SyncMutualExclusion == \A p, q \in Pid : Inside(p) /\ Inside(q) => p = q

\* What the code does guarantee, whatever crashes and pid reuse happen: as
\* long as no reclaim has renamed a lock file other than the dead one it
\* judged, processes exclude each other, and the lock file is the holder's.
ExclusionUnlessMisfired ==
    ~misfired => /\ SyncMutualExclusion
                 /\ \A p \in Pid : Inside(p) => lockFile = PayloadOf(p, TRUE)

\* Every caller is bounded: whoever entered withMemorySyncLock leaves it,
\* having run fn or with MemorySyncLockHeldError, or dies.
CallsTerminate == \A p \in Pid : stage[p] # "idle" ~> stage[p] = "idle"

\* A lock file whose owner is dead, or whose pid is now another process.
Orphaned ==
    lockFile # NoHolder /\ ~(lockFile.pid \in alive /\ inc[lockFile.pid] = lockFile.inc)

\* On Linux an orphaned lock that holds its payload never blocks the checkout
\* for good: somebody reclaims it, unless nobody who may write is left.
OrphanReclaimed ==
    Orphaned /\ lockFile.written ~> (~Orphaned \/ alive \subseteq ReadOnly)
=============================================================================
