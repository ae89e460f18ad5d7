------------------------ MODULE MemoryConvergeProofs ------------------------
(***************************************************************************)
(* Proofs about MemoryConverge for any number of cycles, any timers, and   *)
(* any changes of the settings.                                            *)
(***************************************************************************)
EXTENDS MemoryConverge, TLAPS

\* A cycle with converge on, from its request for the lock to its end.
Working(c) == pc[c] \in InLock \cup {"lock"}

\* The configuration read of c is the one that counts.
Current(c) == pc[c] = "config" /\ configGen[c] = configGeneration

\* c may yet find the lock held and restore what it saw at its start.
MayRestore(c) == Current(c) \/ (pc[c] = "lock" /\ Live(c))

\* Nobody, abandoned or not, is past its freshness check and in the lock.
NobodyAtWork == \A c \in Cycle : pc[c] \notin InLock \ {"freshness"}

Healthy == {"ok", "never_synced"}

(***************************************************************************)
(* The inductive invariant.                                                *)
(***************************************************************************)
\* Generations are handed out once: a number names at most one cycle.
Numbered ==
    /\ \A c \in Cycle :
         /\ gen[c] <= generation /\ configGen[c] <= configGeneration
         /\ pc[c] \in {"idle", "config"} => gen[c] = 0
         /\ Working(c) => gen[c] > 0
         /\ pc[c] = "config" => configGen[c] > 0
    /\ \A c, d \in Cycle : c # d =>
         /\ gen[c] = gen[d] => gen[c] = 0
         /\ configGen[c] = configGen[d] => configGen[c] = 0

\* A read that counts is reported as pending, and its cycle is not abandoned.
ReadsPending == \A c \in Cycle : Current(c) => configPending /\ c \notin aborted

\* A cycle at work that has lost its generation has been told so.
AbortedOrCounting ==
    \A c \in Cycle :
        /\ Working(c) => c \in aborted \/ gen[c] = generation
        /\ c \in aborted => pc[c] # "idle"
        /\ c \in watchdog => pc[c] \notin {"idle", "config"}

\* Until the startup cycle has ended or timed out no other has begun.
StartupFirst ==
    pc[Startup] # "done" /\ ~timedOut =>
        \A c \in Cycle : c # Startup => pc[c] = "idle"

LockOwned == \A c \in Cycle : pc[c] \in InLock => lock = c

\* The phases that no timer may abandon, and what they rest on.
Unabandoned ==
    \A c \in Cycle :
        /\ pc[c] \in {"replay", "compare", "fleet", "publish"} =>
             Live(c) /\ c \notin watchdog /\ c \notin stale /\ c # Startup
        /\ pc[c] \in {"idle", "config", "lock", "freshness"} => c \notin stale

\* The flags agree: a running cycle has closed the gate of an enabled window.
FlagsAgree ==
    /\ running => effective /\ wasEnabled /\ ~gateOpen
    /\ gateOpen => effective = wasEnabled

\* An open gate of an enabled window was earned.
GateEarned == gateOpen /\ wasEnabled => proved /\ state \in Healthy /\ NobodyAtWork

\* What a cycle would restore is still true.
PriorKept ==
    \A c \in Cycle : MayRestore(c) =>
        /\ prior[c].state = "blocked_conflict" => blockedSince # "none"
        /\ prior[c].state \in Healthy => blockedSince = "none"
        /\ prior[c].armed /\ prior[c].gate =>
             proved /\ prior[c].state \in Healthy /\ NobodyAtWork

IInv ==
    /\ TypeOK /\ Numbered /\ ReadsPending /\ AbortedOrCounting /\ StartupFirst
    /\ LockOwned /\ RunningExact /\ Unabandoned /\ FlagsAgree
    /\ GateEarned /\ PriorKept /\ ConflictWindow

LEMMA InitIInv == Init => IInv
<1> SUFFICES ASSUME Init PROVE IInv
    OBVIOUS
<1>1. TypeOK
    BY ConfigAssumption, HolderAssumption DEF Init, TypeOK, States, Windows, Enabled, InLock
<1>2. Numbered /\ ReadsPending /\ AbortedOrCounting /\ StartupFirst
    BY DEF Init, Numbered, ReadsPending, AbortedOrCounting, StartupFirst, Current,
           Working, InLock
<1>3. LockOwned /\ RunningExact /\ Unabandoned /\ FlagsAgree
    BY DEF Init, LockOwned, RunningExact, Unabandoned, FlagsAgree, Live, InLock
<1>4. GateEarned /\ PriorKept /\ ConflictWindow
    BY DEF Init, GateEarned, PriorKept, ConflictWindow, MayRestore, Current,
           Healthy
<1> QED
    BY <1>1, <1>2, <1>3, <1>4 DEF IInv

(***************************************************************************)
(* The steps of a cycle with converge on are of two kinds: it ends with a  *)
(* result, or it advances to another phase.                                *)
(***************************************************************************)
\* A cycle ends.  Only a cycle in the lock ends safe, and a result that is
\* written agrees with its window.
Ended(c) ==
    \E health \in States, safe \in BOOLEAN, window \in Windows :
        /\ Working(c)
        /\ Settle(c, health, safe, window)
        /\ safe => health \in Healthy /\ pc[c] \in InLock
        /\ health \in Healthy => window = "none"
        /\ health = "blocked_conflict" => window # "none"

\* A cycle that counts advances in the lock; what may not be abandoned is not
\* timed.
Advanced(c) ==
    \E place \in InLock \ {"freshness"} :
        /\ pc[c] \in InLock /\ Live(c)
        /\ Goto(c, place)
        /\ watchdog' \in {watchdog \cup {c}, watchdog \ {c}}
        /\ stale' \in {stale, stale \cup {c}}
        /\ place # "refresh" => c \notin watchdog' /\ c \notin stale' /\ c # Startup
        /\ UNCHANGED <<env, disk, lock, runner, config, configGen, gen, prior,
                       aborted, timedOut, proved>>

\* A cycle that counts excludes another, and a read of the configuration.
LEMMA LiveAlone ==
    ASSUME IInv, NEW c \in Cycle, Working(c), Live(c)
    PROVE  /\ running /\ ~configPending /\ ~gateOpen
           /\ \A d \in Cycle : ~Current(d)
           /\ \A d \in Cycle : d # c => ~(Working(d) /\ Live(d))
<1>1. running /\ ~configPending /\ ~gateOpen
    BY DEF IInv, RunningExact, FlagsAgree, Working
<1>2. \A d \in Cycle : ~Current(d)
    BY <1>1 DEF IInv, ReadsPending
<1>3. \A d \in Cycle : d # c => ~(Working(d) /\ Live(d))
    BY DEF IInv, Numbered, TypeOK, Live
<1> QED
    BY <1>1, <1>2, <1>3

\* The read that counts is the only one, and no cycle counts meanwhile.
LEMMA ReadAlone ==
    ASSUME IInv, NEW c \in Cycle, Current(c)
    PROVE  /\ configPending /\ ~running /\ c \notin aborted
           /\ \A d \in Cycle : d # c => ~Current(d)
           /\ \A d \in Cycle : ~(Working(d) /\ Live(d))
<1>1. configPending /\ ~running /\ c \notin aborted
    BY DEF IInv, ReadsPending, RunningExact
<1>2. \A d \in Cycle : d # c => ~Current(d)
    BY DEF IInv, Numbered, TypeOK, Current
<1>3. \A d \in Cycle : ~(Working(d) /\ Live(d))
    BY <1>1 DEF IInv, RunningExact, Working
<1> QED
    BY <1>1, <1>2, <1>3

LEMMA BlockedEnds ==
    ASSUME TypeOK, ConflictWindow, NEW c \in Cycle, Working(c),
           NEW health \in {"blocked_conflict", "store_deferred", "publish_blocked"},
           Blocked(c, health)
    PROVE  Ended(c)
<1> DEFINE window ==
        IF health # "blocked_conflict" THEN blockedSince
        ELSE IF blockedSince = "none" THEN "open"
        ELSE IF blockedSince = "overdue" THEN "escalated" ELSE blockedSince
<1>1. window \in Windows /\ (health = "blocked_conflict" => window # "none")
    BY DEF TypeOK, Windows
<1>2. Settle(c, health, FALSE, window)
    BY DEF Blocked
<1>3. health \in States /\ health \notin Healthy
    BY DEF States, Healthy
<1> HIDE DEF window
<1> QED
    BY <1>1, <1>2, <1>3 DEF Ended

LEMMA SafeEnds ==
    ASSUME NEW c \in Cycle, pc[c] \in InLock, Safe(c)
    PROVE  Ended(c)
<1>1. PICK health \in {"ok", "never_synced"} : Settle(c, health, TRUE, "none")
    BY DEF Safe
<1>2. health \in States /\ health # "blocked_conflict" /\ health \in Healthy /\ "none" \in Windows
    BY DEF States, Healthy, Windows
<1> QED
    BY <1>1, <1>2 DEF Ended, Working

LEMMA FreshnessAdvances ==
    ASSUME IInv, NEW c \in Cycle, Freshness(c)
    PROVE  Advanced(c)
<1>1. pc[c] = "freshness" /\ pc[c] \in InLock /\ Working(c) /\ c \notin stale
    BY DEF Freshness, InLock, Working, IInv, Unabandoned
<1>2. c \notin aborted /\ Live(c)
    BY <1>1 DEF Freshness, Run, IInv, AbortedOrCounting, Live
<1>3. gateOpen = FALSE
    BY <1>1, <1>2, LiveAlone DEF IInv, TypeOK
<1>4. gateOpen' = gateOpen
    BY <1>3 DEF Freshness
<1> QED
    BY <1>1, <1>2, <1>4 DEF Freshness, Run, Advanced, InLock, runner, config

LEMMA PublicationKinds ==
    ASSUME IInv, NEW c \in Cycle, Publication(c)
    PROVE  Ended(c) \/ Advanced(c)
<1> USE DEF IInv
<1>1. pc[c] \in {"replay", "compare", "fleet", "publish"}
    BY DEF Publication, ReplayReturns, CompareReturns, PublishReturns
<1>2. pc[c] \in InLock /\ Working(c) /\ Live(c) /\ c \notin stale /\ c # Startup
      /\ c \notin watchdog
    BY <1>1 DEF InLock, Working, Unabandoned
<1>3. CASE ReplayReturns(c)
  <2>1. CASE Live(c) /\ Run(c, "refresh", TRUE) /\ UNCHANGED <<stale, gateOpen>>
    BY <1>2, <2>1 DEF Run, Advanced, InLock, runner, config
  <2> QED
    BY <1>2, <1>3, <2>1, BlockedEnds DEF ReplayReturns
<1>4. CASE CompareReturns(c)
  <2>1. CASE /\ pc[c] = "compare" /\ Live(c) /\ Goto(c, "fleet")
             /\ UNCHANGED <<env, disk, lock, runner, config, configGen, gen, prior,
                            aborted, watchdog, stale, timedOut, proved>>
    <3>1. watchdog' = watchdog \ {c}
        BY <1>2, <2>1
    <3> QED
        BY <1>2, <2>1, <3>1 DEF Advanced, InLock
  <2>2. CASE pc[c] = "fleet" /\ Run(c, "publish", FALSE) /\ UNCHANGED <<stale, gateOpen>>
    BY <1>2, <2>2 DEF Run, Advanced, InLock, runner, config
  <2> QED
    BY <1>2, <1>4, <2>1, <2>2, BlockedEnds, SafeEnds DEF CompareReturns
<1>5. CASE PublishReturns(c)
    BY <1>2, <1>5, BlockedEnds, SafeEnds DEF PublishReturns
<1> QED
    BY <1>3, <1>4, <1>5 DEF Publication

LEMMA RefreshKinds ==
    ASSUME IInv, NEW c \in Cycle, RefreshReturns(c)
    PROVE  Ended(c) \/ Advanced(c)
<1> USE DEF IInv
<1>1. pc[c] = "refresh" /\ pc[c] \in InLock /\ Working(c)
    BY DEF RefreshReturns, InLock, Working
<1>2. CASE c \in stale /\ Settle(c, "stale", FALSE, blockedSince)
    BY <1>1, <1>2 DEF Ended, States, Healthy, TypeOK
<1>3. CASE c = Startup /\ Settle(c, "ok", FALSE, "none")
    BY <1>1, <1>3 DEF Ended, States, Healthy, Windows
<1>4. CASE /\ c # Startup /\ c \notin stale /\ Live(c)
           /\ Goto(c, "compare")
           /\ watchdog' = watchdog \ {c}
           /\ UNCHANGED <<env, disk, lock, runner, config, configGen, gen,
                          prior, aborted, stale, timedOut, proved>>
    BY <1>1, <1>4 DEF Advanced, InLock
<1> QED
    BY <1>1, <1>2, <1>3, <1>4, BlockedEnds DEF RefreshReturns

\* Every step is one of these.
LEMMA StepKinds ==
    ASSUME IInv, Next
    PROVE  \/ \E c \in Cycle :
                \/ Start(c) \/ ConfigIgnored(c) \/ ConfigFails(c) \/ ConfigOff(c)
                \/ ConfigOn(c) \/ AcquireLock(c) \/ LockHeld(c)
                \/ Ended(c) \/ Advanced(c) \/ WatchdogFires(c)
           \/ StartupTimeout \/ WindowAges
           \/ OtherLock \/ SetConverge \/ SetEnv
<1>1. CASE \E c \in Cycle : Throws(c)
    BY <1>1, BlockedEnds DEF Throws, Working, IInv
<1>2. CASE \E c \in Cycle : Freshness(c) \/ RefreshReturns(c) \/ Publication(c)
    BY <1>2, FreshnessAdvances, RefreshKinds, PublicationKinds
<1> QED
    BY <1>1, <1>2 DEF Next, Configure, Lock

(***************************************************************************)
(* The type invariant in three parts: the surroundings and the settings,   *)
(* the flags of the runner, the cycles.                                    *)
(***************************************************************************)
SettingsTyped ==
    /\ env \in Envs /\ disk \in Configs /\ cached \in Configs
    /\ lock \in Cycle \cup {Other, NoOne}
    /\ configGeneration \in Nat /\ generation \in Nat

FlagsTyped ==
    /\ state \in States /\ blockedSince \in Windows
    /\ gateOpen \in BOOLEAN /\ effective \in BOOLEAN
    /\ wasEnabled \in BOOLEAN /\ running \in BOOLEAN
    /\ configPending \in BOOLEAN /\ configUnknown \in BOOLEAN
    /\ timedOut \in BOOLEAN /\ proved \in BOOLEAN

CyclesTyped ==
    /\ pc \in [Cycle -> {"idle", "config", "lock", "done"} \cup InLock]
    /\ configGen \in [Cycle -> Nat] /\ gen \in [Cycle -> Nat]
    /\ prior \in [Cycle -> [state : States, gate : BOOLEAN, armed : BOOLEAN]]
    /\ aborted \subseteq Cycle /\ watchdog \subseteq Cycle /\ stale \subseteq Cycle

LEMMA TypeParts == TypeOK <=> SettingsTyped /\ FlagsTyped /\ CyclesTyped
  BY DEF TypeOK, SettingsTyped, FlagsTyped, CyclesTyped

LEMMA NextType ==
    ASSUME IInv, Next
    PROVE  TypeOK'
<1>a. TypeOK
    BY DEF IInv
<1>b. SettingsTyped /\ FlagsTyped /\ CyclesTyped
    BY <1>a, TypeParts
<1>c. SettingsTyped' /\ FlagsTyped' /\ CyclesTyped' => TypeOK'
    BY TypeParts, PTL
<1> USE <1>b DEF States, Windows, InLock, Goto, runner, config, locals
<1>1. ASSUME NEW c \in Cycle, Start(c) \/ ConfigIgnored(c)
      PROVE  TypeOK'
  <2>1. SettingsTyped'
    BY <1>1 DEF SettingsTyped, Start, ConfigIgnored, Enabled
  <2>a. gateOpen' \in BOOLEAN
    BY <1>1 DEF FlagsTyped, Start, ConfigIgnored
  <2>2. FlagsTyped'
    <3>1. CASE Start(c)
        BY <3>1, <2>a DEF FlagsTyped, Start
    <3>2. CASE ConfigIgnored(c)
        BY <3>2 DEF FlagsTyped, ConfigIgnored
    <3> QED
        BY <1>1, <3>1, <3>2
  <2>b. prior' \in [Cycle -> [state : States, gate : BOOLEAN, armed : BOOLEAN]]
    <3>1. [state |-> state, gate |-> gateOpen, armed |-> wasEnabled]
              \in [state : States, gate : BOOLEAN, armed : BOOLEAN]
        BY DEF FlagsTyped
    <3> QED
        BY <1>1, <3>1 DEF CyclesTyped, Start, ConfigIgnored
  <2>3. CyclesTyped'
    <3>1. CASE Start(c)
        BY <3>1, <2>b DEF CyclesTyped, SettingsTyped, Start
    <3>2. CASE ConfigIgnored(c)
        BY <3>2, <2>b DEF CyclesTyped, ConfigIgnored
    <3> QED
        BY <1>1, <3>1, <3>2
  <2> QED
    BY <1>c, <2>1, <2>2, <2>3
<1>2. ASSUME NEW c \in Cycle, ConfigFails(c) \/ ConfigOff(c) \/ ConfigOn(c)
      PROVE  TypeOK'
  <2>1. SettingsTyped'
    BY <1>2 DEF SettingsTyped, ConfigFails, ConfigOff, ConfigOn
  <2>2. FlagsTyped'
    BY <1>2 DEF FlagsTyped, ConfigFails, ConfigOff, ConfigOn
  <2>3. CyclesTyped'
    BY <1>2 DEF CyclesTyped, SettingsTyped, ConfigFails, ConfigOff, ConfigOn
  <2> QED
    BY <1>c, <2>1, <2>2, <2>3
<1>3. ASSUME NEW c \in Cycle, AcquireLock(c) \/ LockHeld(c)
      PROVE  TypeOK'
  <2>1. SettingsTyped'
    BY <1>3 DEF SettingsTyped, AcquireLock, LockHeld, Leave
  <2>a. state' \in States /\ gateOpen' \in BOOLEAN /\ running' \in BOOLEAN
    <3>1. prior[c] \in [state : States, gate : BOOLEAN, armed : BOOLEAN]
        BY DEF CyclesTyped
    <3> QED
        BY <1>3, <3>1 DEF FlagsTyped, AcquireLock, LockHeld
  <2>2. FlagsTyped'
    BY <1>3, <2>a DEF FlagsTyped, AcquireLock, LockHeld, Leave
  <2>3. CyclesTyped'
    BY <1>3 DEF CyclesTyped, AcquireLock, LockHeld, Leave
  <2> QED
    BY <1>c, <2>1, <2>2, <2>3
<1>4. ASSUME NEW c \in Cycle, Ended(c)
      PROVE  TypeOK'
  <2>1. SettingsTyped'
    BY <1>4 DEF SettingsTyped, Ended, Settle, Leave
  <2>a. PICK health \in States, safe \in BOOLEAN, window \in Windows :
            Settle(c, health, safe, window)
    BY <1>4 DEF Ended
  <2>b. Leave(c)
    BY <2>a DEF Settle
  <2>c. UNCHANGED <<effective, wasEnabled, configPending, configUnknown, timedOut>>
    BY <2>b DEF Leave
  <2>d. \/ UNCHANGED <<state, gateOpen, blockedSince, running, proved>>
        \/ /\ state' = health /\ gateOpen' = safe /\ blockedSince' = window
           /\ running' = FALSE /\ proved' = safe
    BY <2>a, Zenon DEF Settle
  <2>e. state' \in States /\ blockedSince' \in Windows
    BY <2>d, Zenon DEF FlagsTyped
  <2>f. gateOpen' \in BOOLEAN /\ running' \in BOOLEAN /\ proved' \in BOOLEAN
    BY <2>d, Zenon DEF FlagsTyped
  <2>2. FlagsTyped'
    BY <2>c, <2>e, <2>f DEF FlagsTyped
  <2>3. CyclesTyped'
    BY <1>4 DEF CyclesTyped, Ended, Settle, Leave
  <2> QED
    BY <1>c, <2>1, <2>2, <2>3
<1>5. ASSUME NEW c \in Cycle, Advanced(c)
      PROVE  TypeOK'
  <2>1. SettingsTyped'
    BY <1>5 DEF SettingsTyped, Advanced
  <2>2. FlagsTyped'
    BY <1>5 DEF FlagsTyped, Advanced
  <2>3. CyclesTyped'
    BY <1>5 DEF CyclesTyped, Advanced
  <2> QED
    BY <1>c, <2>1, <2>2, <2>3
<1>6. ASSUME NEW c \in Cycle, WatchdogFires(c)
      PROVE  TypeOK'
  <2>1. SettingsTyped'
    BY <1>6 DEF SettingsTyped, WatchdogFires
  <2>2. FlagsTyped'
    BY <1>6 DEF FlagsTyped, WatchdogFires
  <2>3. CyclesTyped'
    BY <1>6 DEF CyclesTyped, WatchdogFires
  <2> QED
    BY <1>c, <2>1, <2>2, <2>3
<1>7. CASE StartupTimeout \/ WindowAges
  <2>1. SettingsTyped'
    BY <1>7 DEF SettingsTyped, StartupTimeout, WindowAges
  <2>2. FlagsTyped'
    BY <1>7 DEF FlagsTyped, StartupTimeout, WindowAges
  <2>3. CyclesTyped'
    BY <1>7, StartupAssumption DEF CyclesTyped, StartupTimeout, WindowAges
  <2> QED
    BY <1>c, <2>1, <2>2, <2>3
<1>8. CASE OtherLock \/ SetConverge \/ SetEnv
  <2>1. SettingsTyped'
    BY <1>8 DEF SettingsTyped, OtherLock, SetConverge, SetEnv
  <2>2. FlagsTyped'
    BY <1>8 DEF FlagsTyped, OtherLock, SetConverge, SetEnv
  <2>3. CyclesTyped'
    BY <1>8 DEF CyclesTyped, OtherLock, SetConverge, SetEnv
  <2> QED
    BY <1>c, <2>1, <2>2, <2>3
<1> QED
    BY <1>1, <1>2, <1>3, <1>4, <1>5, <1>6, <1>7, <1>8, StepKinds

\* Generations are taken from counters that only grow.
LEMMA NextNumbered ==
    ASSUME IInv, Next
    PROVE  Numbered'
<1> DEFINE GenType ==
        /\ generation \in Nat /\ configGeneration \in Nat
        /\ gen \in [Cycle -> Nat] /\ configGen \in [Cycle -> Nat]
        /\ DOMAIN pc = Cycle
<1>a. GenType /\ Numbered
    BY DEF IInv, TypeOK
<1>1. ASSUME NEW c \in Cycle, Start(c)
      PROVE  Numbered'
  <2>1. /\ pc[c] = "idle" /\ pc' = [pc EXCEPT ![c] = "config"]
        /\ configGen' = [configGen EXCEPT ![c] = configGeneration + 1]
        /\ configGeneration' = configGeneration + 1
        /\ gen' = gen /\ generation' = generation
    BY <1>1 DEF Start, MayStart, Goto
  <2> QED
    BY <1>a, <2>1 DEF Numbered, Working, InLock
<1>2. ASSUME NEW c \in Cycle, ConfigOn(c)
      PROVE  Numbered'
  <2>1. /\ pc[c] = "config" /\ pc' = [pc EXCEPT ![c] = "lock"]
        /\ gen' = [gen EXCEPT ![c] = generation + 1]
        /\ generation' = generation + 1
        /\ configGen' = configGen /\ configGeneration' = configGeneration
    BY <1>2 DEF ConfigOn, Goto
  <2> QED
    BY <1>a, <2>1 DEF Numbered, Working, InLock
<1>3. ASSUME gen' = gen, configGen' = configGen,
             generation' \in {generation, generation + 1},
             configGeneration' \in {configGeneration, configGeneration + 1},
             \/ pc' = pc
             \/ \E c \in Cycle : pc' = [pc EXCEPT ![c] = "done"]
             \/ \E c \in Cycle, place \in InLock :
                    Working(c) /\ pc' = [pc EXCEPT ![c] = place]
      PROVE  Numbered'
  <2>1. /\ generation' \in Nat /\ generation <= generation'
        /\ configGeneration' \in Nat /\ configGeneration <= configGeneration'
    BY <1>a, <1>3
  <2>2. \A d \in Cycle : gen[d] <= generation' /\ configGen[d] <= configGeneration'
    BY <1>a, <2>1 DEF Numbered
  <2>3. \A d \in Cycle : /\ pc'[d] \in {"idle", "config"} => pc[d] = pc'[d]
                         /\ Working(d)' => Working(d)
    BY <1>a, <1>3 DEF Working, InLock
  <2> QED
    BY <1>a, <1>3, <2>2, <2>3 DEF Numbered
<1>4. ASSUME NEW c \in Cycle,
             \/ ConfigIgnored(c) \/ ConfigFails(c) \/ ConfigOff(c)
             \/ AcquireLock(c) \/ LockHeld(c) \/ Ended(c) \/ Advanced(c)
      PROVE  Numbered'
  <2> USE <1>4 DEF runner, config, Goto, Working, InLock
  <2>1. CASE ConfigIgnored(c) \/ ConfigFails(c) \/ ConfigOff(c)
    BY <2>1, <1>3 DEF ConfigIgnored, ConfigFails, ConfigOff
  <2>2. CASE AcquireLock(c)
    BY <2>2, <1>3 DEF AcquireLock
  <2>3. CASE LockHeld(c) \/ Ended(c)
    BY <2>3, <1>3 DEF LockHeld, Leave, Ended, Settle
  <2>4. CASE Advanced(c)
    BY <2>4, <1>3 DEF Advanced
  <2> QED
    BY <2>1, <2>2, <2>3, <2>4
<1>5. CASE StartupTimeout \/ \E c \in Cycle : WatchdogFires(c)
  <2>1. /\ UNCHANGED <<gen, configGen, pc>>
        /\ generation' = generation + 1 /\ configGeneration' = configGeneration + 1
    BY <1>5 DEF StartupTimeout, WatchdogFires
  <2> QED
    BY <2>1, <1>3
<1>6. CASE WindowAges \/ OtherLock \/ SetConverge \/ SetEnv
    BY <1>6, <1>3 DEF WindowAges, OtherLock, SetConverge, SetEnv, runner, config, locals
<1> QED
    BY <1>1, <1>2, <1>4, <1>5, <1>6, StepKinds

\* A timer that abandons a cycle outdates the pending read.
LEMMA NextReadsPending ==
    ASSUME IInv, Next
    PROVE  ReadsPending'
<1> USE DEF IInv, TypeOK, ReadsPending, Current, Goto, runner, config, locals
<1>1. ASSUME NEW c \in Cycle, Start(c)
      PROVE  ReadsPending'
    BY <1>1 DEF Start, MayStart, AbortedOrCounting, Numbered
<1>2. ASSUME NEW c \in Cycle, ConfigFails(c) \/ ConfigOff(c) \/ ConfigOn(c)
      PROVE  ReadsPending'
  <2>1. Current(c)
    BY <1>2 DEF ConfigFails, ConfigOff, ConfigOn
  <2>2. \A d \in Cycle : ~Current(d)'
    BY <1>2, <2>1, ReadAlone DEF ConfigFails, ConfigOff, ConfigOn
  <2> QED
    BY <2>2
<1>3. ASSUME NEW c \in Cycle, ConfigIgnored(c) \/ AcquireLock(c) \/ LockHeld(c)
      PROVE  ReadsPending'
    BY <1>3 DEF ConfigIgnored, AcquireLock, LockHeld, Leave
<1>4. ASSUME NEW c \in Cycle, Ended(c) \/ Advanced(c)
      PROVE  ReadsPending'
    BY <1>4 DEF Ended, Settle, Leave, Advanced, InLock
<1>5. CASE StartupTimeout \/ \E c \in Cycle : WatchdogFires(c)
    BY <1>5 DEF StartupTimeout, WatchdogFires, Numbered
<1>6. CASE WindowAges \/ OtherLock \/ SetConverge \/ SetEnv
    BY <1>6 DEF WindowAges, OtherLock, SetConverge, SetEnv
<1> QED
    BY <1>1, <1>2, <1>3, <1>4, <1>5, <1>6, StepKinds

\* Until the startup cycle has ended, the timeout finds the others idle.
LEMMA NextStartupFirst ==
    ASSUME IInv, Next
    PROVE  StartupFirst'
<1> USE DEF IInv, TypeOK, StartupFirst, Goto, runner, config, locals
<1>1. ASSUME NEW c \in Cycle,
             \/ Start(c) \/ ConfigIgnored(c) \/ ConfigFails(c) \/ ConfigOff(c)
             \/ ConfigOn(c)
      PROVE  StartupFirst'
    BY <1>1, StartupAssumption
       DEF Start, MayStart, ConfigIgnored, ConfigFails, ConfigOff, ConfigOn
<1>2. ASSUME NEW c \in Cycle, AcquireLock(c) \/ LockHeld(c) \/ Ended(c) \/ Advanced(c)
      PROVE  StartupFirst'
    BY <1>2, StartupAssumption
       DEF AcquireLock, LockHeld, Leave, Ended, Working, InLock, Settle, Advanced
<1>3. CASE StartupTimeout \/ \E c \in Cycle : WatchdogFires(c)
    BY <1>3 DEF StartupTimeout, WatchdogFires
<1>4. CASE WindowAges \/ OtherLock \/ SetConverge \/ SetEnv
    BY <1>4 DEF WindowAges, OtherLock, SetConverge, SetEnv
<1> QED
    BY <1>1, <1>2, <1>3, <1>4, StepKinds

LEMMA NextLockOwned ==
    ASSUME IInv, Next
    PROVE  LockOwned'
<1> USE DEF IInv, TypeOK, LockOwned, InLock, Goto, runner, config, locals
<1>1. ASSUME NEW c \in Cycle,
             \/ Start(c) \/ ConfigIgnored(c) \/ ConfigFails(c) \/ ConfigOff(c)
             \/ ConfigOn(c)
      PROVE  LockOwned'
    BY <1>1 DEF Start, ConfigIgnored, ConfigFails, ConfigOff, ConfigOn
<1>2. ASSUME NEW c \in Cycle, AcquireLock(c)
      PROVE  LockOwned'
    BY <1>2, HolderAssumption DEF AcquireLock
<1>3. ASSUME NEW c \in Cycle, LockHeld(c) \/ Ended(c) \/ Advanced(c)
      PROVE  LockOwned'
    BY <1>3 DEF LockHeld, Leave, Ended, Settle, Advanced
<1>4. CASE StartupTimeout \/ \E c \in Cycle : WatchdogFires(c)
    BY <1>4 DEF StartupTimeout, WatchdogFires
<1>5. CASE WindowAges \/ SetConverge \/ SetEnv
    BY <1>5 DEF WindowAges, SetConverge, SetEnv
<1>6. CASE OtherLock
    BY <1>6, HolderAssumption DEF OtherLock
<1> QED
    BY <1>1, <1>2, <1>3, <1>4, <1>5, <1>6, StepKinds

\* A cycle gets its generation when no other counts; a timer that takes it
\* away aborts the cycle.
LEMMA NextAbortedOrCounting ==
    ASSUME IInv, Next
    PROVE  AbortedOrCounting'
<1> USE DEF IInv, TypeOK, AbortedOrCounting, Working, InLock, Goto, runner, config, locals
<1>1. ASSUME NEW c \in Cycle,
             Start(c) \/ ConfigIgnored(c) \/ ConfigFails(c) \/ ConfigOff(c)
      PROVE  AbortedOrCounting'
    BY <1>1 DEF Start, MayStart, ConfigIgnored, ConfigFails, ConfigOff
<1>2. ASSUME NEW c \in Cycle, ConfigOn(c)
      PROVE  AbortedOrCounting'
  <2>1. Current(c)
    BY <1>2 DEF ConfigOn, Current
  <2>2. \A d \in Cycle : Working(d) => d \in aborted
    BY <2>1, ReadAlone DEF Live
  <2> QED
    BY <1>2, <2>2 DEF ConfigOn
<1>3. ASSUME NEW c \in Cycle, AcquireLock(c) \/ LockHeld(c)
      PROVE  AbortedOrCounting'
    BY <1>3 DEF AcquireLock, LockHeld, Leave
<1>4. ASSUME NEW c \in Cycle, Ended(c)
      PROVE  AbortedOrCounting'
    BY <1>4 DEF Ended, Settle, Leave
<1>5. ASSUME NEW c \in Cycle, Advanced(c)
      PROVE  AbortedOrCounting'
    BY <1>5 DEF Advanced
<1>6. ASSUME NEW c \in Cycle, WatchdogFires(c)
      PROVE  AbortedOrCounting'
  <2>1. CASE Working(c)
    <3>1. \A d \in Cycle : d # c /\ Working(d) => d \in aborted
        BY <1>6, <2>1, LiveAlone DEF WatchdogFires, Live
    <3> QED
        BY <1>6, <3>1 DEF WatchdogFires
  <2>2. CASE ~Working(c)
    <3>1. PICK d \in Cycle : Working(d) /\ Live(d)
        BY <1>6 DEF WatchdogFires, RunningExact
    <3>2. gen[c] = gen[d] /\ gen[d] > 0 /\ c # d
        BY <1>6, <2>2, <3>1 DEF WatchdogFires, Live, Numbered
    <3> QED
        BY <3>2 DEF Numbered
  <2> QED
    BY <2>1, <2>2
<1>7. CASE StartupTimeout
  <2>1. \A c \in Cycle : c # Startup => pc[c] = "idle"
    BY <1>7 DEF StartupTimeout, StartupFirst
  <2> QED
    BY <1>7, <2>1 DEF StartupTimeout
<1>8. CASE WindowAges \/ OtherLock \/ SetConverge \/ SetEnv
    BY <1>8 DEF WindowAges, OtherLock, SetConverge, SetEnv
<1> QED
    BY <1>1, <1>2, <1>3, <1>4, <1>5, <1>6, <1>7, <1>8, StepKinds

\* A cycle whose watchdog fires is at work: it is the one that counts.
LEMMA WatchdogWorking ==
    ASSUME IInv, NEW c \in Cycle, WatchdogFires(c)
    PROVE  Working(c) /\ Live(c)
<1>1. PICK d \in Cycle : Working(d) /\ Live(d)
    BY DEF WatchdogFires, IInv, RunningExact, Working
<1>2. gen[c] = gen[d] /\ gen[d] > 0
    BY <1>1 DEF WatchdogFires, Live, IInv, Numbered, TypeOK
<1>3. c = d
    BY <1>2 DEF IInv, Numbered, TypeOK
<1> QED
    BY <1>1, <1>3

\* A timer leaves no cycle that counts.
LEMMA TimersEndAll ==
    ASSUME IInv, StartupTimeout \/ \E c \in Cycle : WatchdogFires(c)
    PROVE  \A d \in Cycle : ~(Working(d) /\ Live(d))'
<1> USE DEF IInv, TypeOK, Numbered
<1>1. pc' = pc /\ gen' = gen /\ generation' = generation + 1
    BY DEF StartupTimeout, WatchdogFires
<1> QED
    BY <1>1 DEF Live

\* What a cycle that ends without being counted leaves as it was.
LEMMA EndedKinds ==
    ASSUME NEW c \in Cycle, Ended(c)
    PROVE  /\ Working(c) /\ pc' = [pc EXCEPT ![c] = "done"]
           /\ UNCHANGED <<env, disk, cached, effective, wasEnabled, generation,
                          config, configGen, gen, prior, aborted, stale, timedOut>>
           /\ watchdog' = watchdog \ {c}
           /\ \/ ~Live(c) /\ UNCHANGED <<state, gateOpen, blockedSince, running, proved>>
              \/ /\ Live(c) /\ running' = FALSE
                 /\ gateOpen' => proved' /\ state' \in Healthy /\ pc[c] \in InLock
                 /\ state' \in Healthy => blockedSince' = "none"
                 /\ state' = "blocked_conflict" => blockedSince' # "none"
<1>1. PICK health \in States, safe \in BOOLEAN, window \in Windows :
        /\ Working(c)
        /\ Settle(c, health, safe, window)
        /\ safe => health \in Healthy /\ pc[c] \in InLock
        /\ health \in Healthy => window = "none"
        /\ health = "blocked_conflict" => window # "none"
    BY DEF Ended
<1>2. Leave(c)
    BY <1>1 DEF Settle
<1>3. CASE ~Live(c)
    BY <1>1, <1>2, <1>3 DEF Settle, Leave, Goto
<1>4. CASE Live(c)
  <2>1. /\ state' = health /\ gateOpen' = safe /\ blockedSince' = window
        /\ running' = FALSE /\ proved' = safe
    BY <1>1, <1>4, Zenon DEF Settle
  <2>2. gateOpen' => proved' /\ state' \in Healthy /\ pc[c] \in InLock
    BY <1>1, <2>1, Zenon
  <2> QED
    BY <1>1, <1>2, <1>4, <2>1, <2>2 DEF Leave, Goto
<1> QED
    BY <1>3, <1>4

\* LockHeld, likewise.
LEMMA LockHeldKinds ==
    ASSUME NEW c \in Cycle, LockHeld(c)
    PROVE  /\ pc[c] = "lock" /\ Working(c) /\ pc' = [pc EXCEPT ![c] = "done"]
           /\ UNCHANGED <<env, disk, cached, effective, wasEnabled, generation,
                          config, configGen, gen, prior, aborted, stale, timedOut,
                          blockedSince, proved>>
           /\ watchdog' = watchdog \ {c}
           /\ \/ ~Live(c) /\ UNCHANGED <<state, gateOpen, running>>
              \/ /\ Live(c) /\ running' = FALSE
                 /\ state' = prior[c].state
                 /\ gateOpen' => prior[c].armed /\ prior[c].gate
<1>1. pc[c] = "lock" /\ Working(c)
    BY DEF LockHeld, Working
<1>2. CASE ~Live(c)
    BY <1>1, <1>2 DEF LockHeld, Leave, Goto
<1>3. CASE Live(c)
  <2>1. /\ state' = prior[c].state /\ running' = FALSE
        /\ gateOpen' = (prior[c].armed /\ prior[c].gate)
    BY <1>3, Zenon DEF LockHeld
  <2> QED
    BY <1>1, <1>3, <2>1 DEF LockHeld, Leave, Goto
<1> QED
    BY <1>2, <1>3

\* A cycle that ends takes the flag with it exactly if it counts.
LEMMA NextRunningExact ==
    ASSUME IInv, Next
    PROVE  RunningExact'
<1> DEFINE Counts(d) == Working(d) /\ Live(d)
<1>a. /\ running <=> \E d \in Cycle : Counts(d)
      /\ configPending => ~running
    BY DEF IInv, RunningExact, Working
<1>b. /\ running' <=> \E d \in Cycle : Counts(d)'
      /\ configPending' => ~running'
      => RunningExact'
    BY DEF RunningExact, Working
<1>1. ASSUME NEW c \in Cycle, Start(c)
      PROVE  RunningExact'
  <2>1. \A d \in Cycle : Counts(d)' <=> Counts(d)
    BY <1>1 DEF Start, MayStart, Goto, Working, InLock, Live, IInv, TypeOK
  <2> QED
    BY <1>1, <1>a, <1>b, <2>1 DEF Start, MayStart
<1>2. ASSUME NEW c \in Cycle, ConfigIgnored(c) \/ ConfigFails(c) \/ ConfigOff(c)
      PROVE  RunningExact'
  <2>1. running' = running /\ (configPending' => configPending)
    BY <1>2 DEF ConfigIgnored, ConfigFails, ConfigOff, runner, config
  <2>2. pc[c] = "config" /\ pc' = [pc EXCEPT ![c] = "done"]
        /\ UNCHANGED <<gen, generation, aborted>>
    BY <1>2 DEF ConfigIgnored, ConfigFails, ConfigOff, runner, config, Goto
  <2>3. \A d \in Cycle : Counts(d)' <=> Counts(d)
    BY <2>2 DEF Working, InLock, Live, IInv, TypeOK
  <2> QED
    BY <1>a, <1>b, <2>1, <2>3
<1>3. ASSUME NEW c \in Cycle, ConfigOn(c)
      PROVE  RunningExact'
  <2>1. Current(c)
    BY <1>3 DEF ConfigOn, Current
  <2>2. c \notin aborted
    BY <2>1, ReadAlone
  <2>3. Counts(c)'
    BY <1>3, <2>2 DEF ConfigOn, Goto, Working, Live, IInv, TypeOK
  <2> QED
    BY <1>3, <1>b, <2>3 DEF ConfigOn
<1>4. ASSUME NEW c \in Cycle, AcquireLock(c) \/ Advanced(c)
      PROVE  RunningExact'
  <2>1. /\ Working(c) /\ (pc' = [pc EXCEPT ![c] = pc'[c]]) /\ Working(c)'
        /\ UNCHANGED <<gen, generation, aborted, running, configPending>>
    BY <1>4 DEF AcquireLock, Advanced, Goto, Working, InLock, runner, config, IInv, TypeOK
  <2>2. \A d \in Cycle : Counts(d)' <=> Counts(d)
    BY <2>1 DEF Working, Live, IInv, TypeOK
  <2> QED
    BY <1>a, <1>b, <2>1, <2>2
<1>5. ASSUME NEW c \in Cycle, LockHeld(c) \/ Ended(c)
      PROVE  RunningExact'
  <2>1. /\ pc' = [pc EXCEPT ![c] = "done"] /\ Working(c)
        /\ UNCHANGED <<gen, generation, aborted, configPending>>
        /\ (~Live(c) /\ running' = running) \/ (Live(c) /\ running' = FALSE)
    BY <1>5, EndedKinds, LockHeldKinds DEF config
  <2>2. \A d \in Cycle : Counts(d)' <=> Counts(d) /\ d # c
    BY <2>1 DEF Working, InLock, Live, IInv, TypeOK
  <2>3. CASE ~Live(c) /\ running' = running
    BY <1>a, <1>b, <2>1, <2>2, <2>3
  <2>4. CASE Live(c) /\ running' = FALSE
    <3>1. \A d \in Cycle : d # c => ~Counts(d)
        BY <2>1, <2>4, LiveAlone
    <3> QED
        BY <1>b, <2>2, <2>4, <3>1
  <2> QED
    BY <2>1, <2>3, <2>4
<1>6. CASE StartupTimeout \/ \E c \in Cycle : WatchdogFires(c)
  <2>1. running' = FALSE
    BY <1>6 DEF StartupTimeout, WatchdogFires
  <2> QED
    BY <1>6, <1>b, <2>1, TimersEndAll
<1>7. CASE WindowAges \/ OtherLock \/ SetConverge \/ SetEnv
  <2>1. UNCHANGED <<pc, gen, generation, aborted, running, configPending>>
    BY <1>7 DEF WindowAges, OtherLock, SetConverge, SetEnv, runner, config, locals
  <2> QED
    BY <1>a, <1>b, <2>1 DEF Working, Live
<1> QED
    BY <1>1, <1>2, <1>3, <1>4, <1>5, <1>6, <1>7, StepKinds

\* No timer and no other cycle reaches a cycle in a phase that is not timed.
LEMMA NextUnabandoned ==
    ASSUME IInv, Next
    PROVE  Unabandoned'
<1> USE DEF IInv, TypeOK, Unabandoned, InLock, Goto, runner, config, locals
<1>1. ASSUME NEW c \in Cycle,
             Start(c) \/ ConfigIgnored(c) \/ ConfigFails(c) \/ ConfigOff(c)
      PROVE  Unabandoned'
    BY <1>1 DEF Start, MayStart, ConfigIgnored, ConfigFails, ConfigOff, Live
<1>2. ASSUME NEW c \in Cycle, ConfigOn(c)
      PROVE  Unabandoned'
  <2>1. Current(c)
    BY <1>2 DEF ConfigOn, Current
  <2>2. \A d \in Cycle : pc[d] \notin {"replay", "compare", "fleet", "publish"}
    BY <2>1, ReadAlone DEF Working
  <2> QED
    BY <1>2, <2>2 DEF ConfigOn
<1>3. ASSUME NEW c \in Cycle, AcquireLock(c) \/ LockHeld(c)
      PROVE  Unabandoned'
  <2>1. CASE AcquireLock(c)
    BY <2>1 DEF AcquireLock, Live
  <2>2. CASE LockHeld(c)
    <3>1. /\ pc' = [pc EXCEPT ![c] = "done"] /\ watchdog' = watchdog \ {c}
          /\ UNCHANGED <<generation, gen, aborted, stale>>
        BY <2>2, LockHeldKinds
    <3> QED
        BY <3>1 DEF Live
  <2> QED
    BY <1>3, <2>1, <2>2
<1>4. ASSUME NEW c \in Cycle, Ended(c)
      PROVE  Unabandoned'
  <2>1. /\ pc' = [pc EXCEPT ![c] = "done"] /\ watchdog' = watchdog \ {c}
        /\ UNCHANGED <<generation, gen, aborted, stale>>
    BY <1>4, EndedKinds
  <2> QED
    BY <2>1 DEF Live
<1>5. ASSUME NEW c \in Cycle, Advanced(c)
      PROVE  Unabandoned'
    BY <1>5 DEF Advanced, Live
<1>6. ASSUME NEW c \in Cycle, WatchdogFires(c)
      PROVE  Unabandoned'
  <2>1. Working(c) /\ Live(c) /\ c \in watchdog
    BY <1>6, WatchdogWorking DEF WatchdogFires
  <2>2. \A d \in Cycle : pc[d] \notin {"replay", "compare", "fleet", "publish"}
    BY <2>1, LiveAlone DEF Working
  <2> QED
    BY <1>6, <2>2 DEF WatchdogFires
<1>7. CASE StartupTimeout
  <2>1. \A d \in Cycle : pc[d] \notin {"replay", "compare", "fleet", "publish"}
    BY <1>7 DEF StartupTimeout, StartupFirst
  <2> QED
    BY <1>7, <2>1 DEF StartupTimeout
<1>8. CASE WindowAges \/ OtherLock \/ SetConverge \/ SetEnv
    BY <1>8 DEF WindowAges, OtherLock, SetConverge, SetEnv, Live
<1> QED
    BY <1>1, <1>2, <1>3, <1>4, <1>5, <1>6, <1>7, <1>8, StepKinds

LEMMA NextFlagsAgree ==
    ASSUME IInv, Next
    PROVE  FlagsAgree'
<1> USE DEF IInv, FlagsAgree, runner, config, locals
<1>1. ASSUME NEW c \in Cycle, Start(c) \/ ConfigIgnored(c)
      PROVE  FlagsAgree'
  <2>1. UNCHANGED <<effective, wasEnabled, running>>
    BY <1>1 DEF Start, ConfigIgnored
  <2>2. gateOpen' => gateOpen
    BY <1>1, Zenon DEF Start, ConfigIgnored
  <2> QED
    BY <2>1, <2>2
<1>2. ASSUME NEW c \in Cycle, ConfigFails(c) \/ ConfigOff(c) \/ ConfigOn(c)
      PROVE  FlagsAgree'
  <2>1. Current(c) /\ ~running
    BY <1>2, ReadAlone DEF ConfigFails, ConfigOff, ConfigOn, Current
  <2>2. CASE ConfigFails(c) \/ ConfigOff(c)
    <3>1. running' = running /\ wasEnabled' = effective'
        BY <2>2 DEF ConfigFails, ConfigOff
    <3> QED
        BY <2>1, <3>1, Zenon
  <2>3. CASE ConfigOn(c)
    BY <2>3 DEF ConfigOn
  <2> QED
    BY <1>2, <2>2, <2>3
<1>3. ASSUME NEW c \in Cycle, AcquireLock(c) \/ Advanced(c)
      PROVE  FlagsAgree'
    BY <1>3 DEF AcquireLock, Advanced
<1>4. ASSUME NEW c \in Cycle, LockHeld(c) \/ Ended(c)
      PROVE  FlagsAgree'
  <2>1. UNCHANGED <<effective, wasEnabled>> /\ Working(c)
    BY <1>4, LockHeldKinds, EndedKinds
  <2>2. CASE Live(c)
    <3>1. running /\ running' = FALSE
        BY <1>4, <2>1, <2>2, LockHeldKinds, EndedKinds, LiveAlone
    <3>2. effective = TRUE /\ wasEnabled = TRUE
        BY <3>1 DEF TypeOK
    <3> QED
        BY <2>1, <3>1, <3>2
  <2>3. CASE ~Live(c)
    BY <1>4, <2>1, <2>3, LockHeldKinds, EndedKinds
  <2> QED
    BY <2>2, <2>3
<1>5. CASE StartupTimeout \/ \E c \in Cycle : WatchdogFires(c)
    BY <1>5 DEF StartupTimeout, WatchdogFires
<1>6. CASE WindowAges \/ OtherLock \/ SetConverge \/ SetEnv
    BY <1>6 DEF WindowAges, OtherLock, SetConverge, SetEnv
<1> QED
    BY <1>1, <1>2, <1>3, <1>4, <1>5, <1>6, StepKinds

\* Only a cycle that counts gets to work, and by then the gate is closed.
LEMMA NextGateEarned ==
    ASSUME IInv, Next
    PROVE  GateEarned'
<1> USE DEF IInv, TypeOK, GateEarned, NobodyAtWork, InLock, Goto, runner, config, locals
<1>1. ASSUME NEW c \in Cycle, Start(c) \/ ConfigIgnored(c)
      PROVE  GateEarned'
    BY <1>1 DEF Start, ConfigIgnored
<1>2. ASSUME NEW c \in Cycle, ConfigFails(c) \/ ConfigOff(c) \/ ConfigOn(c)
      PROVE  GateEarned'
    BY <1>2 DEF ConfigFails, ConfigOff, ConfigOn
<1>3. ASSUME NEW c \in Cycle, AcquireLock(c)
      PROVE  GateEarned'
    BY <1>3 DEF AcquireLock
<1>4. ASSUME NEW c \in Cycle, Advanced(c)
      PROVE  GateEarned'
  <2>1. ~gateOpen /\ gateOpen' = gateOpen
    BY <1>4, LiveAlone DEF Advanced, Working
  <2> QED
    BY <2>1
<1>5. ASSUME NEW c \in Cycle, LockHeld(c)
      PROVE  GateEarned'
  <2>1. CASE Live(c)
    <3>1. /\ pc[c] = "lock" /\ pc' = [pc EXCEPT ![c] = "done"]
          /\ state' = prior[c].state /\ proved' = proved
          /\ gateOpen' => prior[c].armed /\ prior[c].gate
        BY <1>5, <2>1, LockHeldKinds
    <3>2. gateOpen' => proved /\ prior[c].state \in Healthy /\ NobodyAtWork
        BY <2>1, <3>1 DEF PriorKept, MayRestore
    <3> QED
        BY <3>1, <3>2
  <2>2. CASE ~Live(c)
    <3>1. /\ pc' = [pc EXCEPT ![c] = "done"]
          /\ UNCHANGED <<state, gateOpen, wasEnabled, proved>>
        BY <1>5, <2>2, LockHeldKinds
    <3> QED
        BY <3>1
  <2> QED
    BY <2>1, <2>2
<1>6. ASSUME NEW c \in Cycle, Ended(c)
      PROVE  GateEarned'
  <2>1. CASE Live(c)
    <3>1. /\ pc' = [pc EXCEPT ![c] = "done"]
          /\ gateOpen' => proved' /\ state' \in Healthy /\ pc[c] \in InLock
        BY <1>6, <2>1, EndedKinds
    <3>2. gateOpen' => NobodyAtWork'
        BY <3>1 DEF LockOwned
    <3> QED
        BY <3>1, <3>2
  <2>2. CASE ~Live(c)
    <3>1. /\ pc' = [pc EXCEPT ![c] = "done"]
          /\ UNCHANGED <<state, gateOpen, wasEnabled, proved>>
        BY <1>6, <2>2, EndedKinds
    <3> QED
        BY <3>1
  <2> QED
    BY <2>1, <2>2
<1>7. CASE StartupTimeout \/ \E c \in Cycle : WatchdogFires(c)
    BY <1>7 DEF StartupTimeout, WatchdogFires
<1>8. CASE WindowAges \/ OtherLock \/ SetConverge \/ SetEnv
    BY <1>8 DEF WindowAges, OtherLock, SetConverge, SetEnv
<1> QED
    BY <1>1, <1>2, <1>3, <1>4, <1>5, <1>6, <1>7, <1>8, StepKinds

LEMMA NextConflictWindow ==
    ASSUME IInv, Next
    PROVE  ConflictWindow'
<1> USE DEF IInv, ConflictWindow, runner, config, locals
<1>1. ASSUME NEW c \in Cycle,
             \/ Start(c) \/ ConfigIgnored(c) \/ ConfigFails(c) \/ ConfigOff(c)
             \/ ConfigOn(c) \/ AcquireLock(c) \/ Advanced(c)
      PROVE  ConflictWindow'
    BY <1>1 DEF Start, ConfigIgnored, ConfigFails, ConfigOff, ConfigOn, AcquireLock, Advanced
<1>2. ASSUME NEW c \in Cycle, LockHeld(c)
      PROVE  ConflictWindow'
    BY <1>2, LockHeldKinds DEF PriorKept, MayRestore, Healthy
<1>3. ASSUME NEW c \in Cycle, Ended(c)
      PROVE  ConflictWindow'
    BY <1>3, EndedKinds DEF Healthy
<1>4. CASE StartupTimeout \/ \E c \in Cycle : WatchdogFires(c)
    BY <1>4 DEF StartupTimeout, WatchdogFires
<1>5. CASE WindowAges \/ OtherLock \/ SetConverge \/ SetEnv
    BY <1>5 DEF WindowAges, OtherLock, SetConverge, SetEnv
<1> QED
    BY <1>1, <1>2, <1>3, <1>4, <1>5, StepKinds

\* Between the start of a cycle and its request for the lock nobody else
\* reports a result.
LEMMA NextPriorKept ==
    ASSUME IInv, Next
    PROVE  PriorKept'
<1> DEFINE Kept(d) ==
        /\ prior[d].state = "blocked_conflict" => blockedSince # "none"
        /\ prior[d].state \in Healthy => blockedSince = "none"
        /\ prior[d].armed /\ prior[d].gate =>
             proved /\ prior[d].state \in Healthy /\ NobodyAtWork
<1>a. \A d \in Cycle : MayRestore(d) => Kept(d)
    BY DEF IInv, PriorKept
<1>b. (\A d \in Cycle : MayRestore(d)' => Kept(d)') => PriorKept'
    BY DEF PriorKept
<1>c. TypeOK /\ Numbered
    BY DEF IInv
<1>1. ASSUME NEW c \in Cycle, Start(c)
      PROVE  PriorKept'
  <2> USE <1>1 DEF Start, MayStart, Goto
  <2>1. pc' = [pc EXCEPT ![c] = "config"] /\ NobodyAtWork' = NobodyAtWork
    BY <1>c DEF TypeOK, NobodyAtWork, InLock
  <2>2. /\ prior'[c].state = state /\ prior'[c].gate = gateOpen
        /\ prior'[c].armed = wasEnabled
    BY <1>c DEF TypeOK
  <2>3. Kept(c)'
    BY <2>1, <2>2 DEF IInv, GateEarned, ConflictWindow, Healthy
  <2>4. \A d \in Cycle : d # c => ~MayRestore(d)'
    <3>1. \A d \in Cycle : ~(pc[d] = "lock" /\ Live(d))
        BY DEF IInv, RunningExact
    <3> QED
        BY <1>c, <3>1 DEF MayRestore, Current, Live, TypeOK, Numbered
  <2> QED
    BY <1>b, <2>3, <2>4
<1>2. ASSUME NEW c \in Cycle, ConfigFails(c) \/ ConfigOff(c)
      PROVE  PriorKept'
  <2>1. Current(c)
    BY <1>2 DEF ConfigFails, ConfigOff, Current
  <2>2. \A d \in Cycle : ~MayRestore(d)'
    BY <1>2, <1>c, <2>1, ReadAlone
       DEF ConfigFails, ConfigOff, MayRestore, Current, Live, Working, Goto, TypeOK
  <2> QED
    BY <1>b, <2>2
<1>3. ASSUME NEW c \in Cycle, ConfigOn(c)
      PROVE  PriorKept'
  <2>1. Current(c)
    BY <1>3 DEF ConfigOn, Current
  <2>2. \A d \in Cycle : d # c => ~MayRestore(d)'
    BY <1>3, <1>c, <2>1, ReadAlone
       DEF ConfigOn, MayRestore, Current, Live, Working, Goto, TypeOK, Numbered
  <2>3. Kept(c)
    BY <1>a, <2>1 DEF MayRestore
  <2>4. UNCHANGED <<prior, blockedSince, proved, NobodyAtWork>>
    BY <1>3, <1>c DEF ConfigOn, Goto, NobodyAtWork, TypeOK, InLock
  <2> QED
    BY <1>b, <2>2, <2>3, <2>4
<1>4. ASSUME UNCHANGED <<prior, proved>>,
             blockedSince' = blockedSince \/ (blockedSince = "open" /\ blockedSince' = "overdue"),
             NobodyAtWork => NobodyAtWork',
             \A d \in Cycle : MayRestore(d)' => MayRestore(d)
      PROVE  PriorKept'
    BY <1>a, <1>b, <1>4 DEF Healthy
<1>5. ASSUME NEW c \in Cycle, ConfigIgnored(c) \/ AcquireLock(c)
      PROVE  PriorKept'
  <2>1. /\ pc' = [pc EXCEPT ![c] = pc'[c]] /\ pc'[c] \in {"done", "freshness"}
        /\ UNCHANGED <<prior, proved, blockedSince, configGen, configGeneration, gen,
                       generation, aborted>>
    BY <1>5, <1>c DEF ConfigIgnored, AcquireLock, Goto, TypeOK, runner, config
  <2>2. NobodyAtWork => NobodyAtWork'
    BY <1>c, <2>1 DEF NobodyAtWork, TypeOK, InLock
  <2>3. \A d \in Cycle : MayRestore(d)' => MayRestore(d)
    BY <1>c, <2>1 DEF MayRestore, Current, Live, TypeOK
  <2> QED
    BY <1>4, <2>1, <2>2, <2>3
<1>6. ASSUME NEW c \in Cycle, LockHeld(c) \/ Ended(c), ~Live(c)
      PROVE  PriorKept'
  <2>1. /\ pc' = [pc EXCEPT ![c] = "done"]
        /\ UNCHANGED <<prior, proved, blockedSince, configGen, configGeneration, gen,
                       generation, aborted>>
    BY <1>6, LockHeldKinds, EndedKinds DEF config
  <2>2. NobodyAtWork => NobodyAtWork'
    BY <1>c, <2>1 DEF NobodyAtWork, TypeOK, InLock
  <2>3. \A d \in Cycle : MayRestore(d)' => MayRestore(d)
    BY <1>c, <2>1 DEF MayRestore, Current, Live, TypeOK
  <2> QED
    BY <1>4, <2>1, <2>2, <2>3
<1>7. ASSUME NEW c \in Cycle, ((LockHeld(c) \/ Ended(c)) /\ Live(c)) \/ Advanced(c)
      PROVE  PriorKept'
  <2>1. /\ Working(c) /\ Live(c)
        /\ pc' = [pc EXCEPT ![c] = pc'[c]] /\ pc'[c] \in (InLock \ {"freshness"}) \cup {"done"}
        /\ UNCHANGED <<configGen, configGeneration, gen, generation, aborted>>
    <3>1. CASE LockHeld(c) /\ Live(c)
        BY <3>1, <1>c, LockHeldKinds DEF TypeOK, config
    <3>2. CASE Ended(c) /\ Live(c)
        BY <3>2, <1>c, EndedKinds DEF TypeOK, config
    <3>3. CASE Advanced(c)
        BY <3>3, <1>c DEF Advanced, Goto, TypeOK, Working, runner, config
    <3> QED
        BY <1>7, <3>1, <3>2, <3>3
  <2>2. \A d \in Cycle : ~Current(d) /\ (d # c => ~(Working(d) /\ Live(d)))
    BY <2>1, LiveAlone
  <2>3. \A d \in Cycle : ~MayRestore(d)'
    BY <1>c, <2>1, <2>2 DEF MayRestore, Current, Live, Working, InLock, TypeOK
  <2> QED
    BY <1>b, <2>3
<1>8. CASE StartupTimeout \/ \E c \in Cycle : WatchdogFires(c)
  <2>1. \A d \in Cycle : ~Current(d)'
    BY <1>8, <1>c DEF StartupTimeout, WatchdogFires, Current, Numbered, TypeOK
  <2>2. \A d \in Cycle : ~MayRestore(d)'
    BY <1>8, <2>1, TimersEndAll DEF MayRestore, Working
  <2> QED
    BY <1>b, <2>2
<1>9. CASE WindowAges \/ OtherLock \/ SetConverge \/ SetEnv
  <2>1. /\ UNCHANGED <<pc, prior, proved, configGen, configGeneration, gen, generation,
                       aborted>>
        /\ blockedSince' = blockedSince \/ (blockedSince = "open" /\ blockedSince' = "overdue")
    BY <1>9 DEF WindowAges, OtherLock, SetConverge, SetEnv, runner, config, locals
  <2>2. NobodyAtWork => NobodyAtWork'
    BY <2>1 DEF NobodyAtWork
  <2>3. \A d \in Cycle : MayRestore(d)' => MayRestore(d)
    BY <2>1 DEF MayRestore, Current, Live
  <2> QED
    BY <1>4, <2>1, <2>2, <2>3
<1> QED
    BY <1>1, <1>2, <1>3, <1>5, <1>6, <1>7, <1>8, <1>9, StepKinds

LEMMA NextIInv ==
    ASSUME IInv, [Next]_vars
    PROVE  IInv'
<1>1. CASE Next
    BY <1>1, NextType, NextNumbered, NextReadsPending, NextAbortedOrCounting,
       NextStartupFirst, NextLockOwned, NextRunningExact, NextUnabandoned,
       NextFlagsAgree, NextGateEarned, NextPriorKept, NextConflictWindow
       DEF IInv
<1>2. CASE UNCHANGED vars
  <2> USE <1>2 DEF IInv, vars, runner, config, locals
  <2>1. TypeOK' /\ Numbered' /\ ReadsPending' /\ AbortedOrCounting' /\ StartupFirst'
    BY DEF TypeOK, Numbered, ReadsPending, AbortedOrCounting, StartupFirst, Current, Working
  <2>2. LockOwned' /\ RunningExact' /\ Unabandoned' /\ FlagsAgree'
    BY DEF LockOwned, RunningExact, Unabandoned, FlagsAgree, Live
  <2>3. GateEarned' /\ PriorKept' /\ ConflictWindow'
    BY DEF GateEarned, PriorKept, ConflictWindow, NobodyAtWork, MayRestore, Current, Live
  <2> QED
    BY <2>1, <2>2, <2>3
<1> QED
    BY <1>1, <1>2

LEMMA IInvImplies ==
    ASSUME IInv
    PROVE  GateProven /\ PublicationJoined
<1> USE DEF IInv, TypeOK
<1>1. ASSUME PushGate, ConvergeOn
      PROVE  /\ proved
             /\ state \in {"ok", "never_synced"}
             /\ ~running
             /\ NobodyAtWork
  <2>1. ~configPending /\ ~configUnknown
    BY <1>1 DEF PushGate, ConvergeOn, Enabled
  <2>2. Enabled(env, cached)
    BY <1>1, <2>1 DEF ConvergeOn
  <2>3. effective /\ gateOpen
    BY <1>1, <2>1, <2>2 DEF PushGate
  <2>4. wasEnabled
    BY <2>3 DEF FlagsAgree
  <2> QED
    BY <2>3, <2>4 DEF GateEarned, FlagsAgree, Healthy
<1>2. GateProven
    BY <1>1 DEF GateProven, NobodyAtWork
<1>3. ASSUME NEW c \in Cycle, pc[c] \in {"replay", "publish"}
      PROVE  /\ running /\ Live(c) /\ lock = c
             /\ c \notin stale /\ c # Startup
  <2>1. Working(c) /\ lock = c
    BY <1>3 DEF Working, InLock, LockOwned
  <2>2. Live(c) /\ c \notin stale /\ c # Startup
    BY <1>3 DEF Unabandoned
  <2> QED
    BY <2>1, <2>2, LiveAlone
<1> QED
    BY <1>2, <1>3 DEF PublicationJoined

(***************************************************************************)
(* The theorems.                                                           *)
(***************************************************************************)
\* The runner's flags, generations and phases keep their types through every
\* cycle, timer and change of the settings.
THEOREM TypeTheorem == Spec => []TypeOK
<1>1. IInv => TypeOK
    BY DEF IInv
<1> QED
    BY InitIInv, NextIInv, <1>1, PTL DEF Spec

\* The gate of the raw path (isMemoryPushGateOpen) is open with converge on
\* only on the strength of a complete safe cycle, and while nobody is at work.
THEOREM GateTheorem == Spec => []GateProven
<1> QED
    BY InitIInv, NextIInv, IInvImplies, PTL DEF Spec

\* The single-flight flag is that of one live cycle: it neither sticks nor is
\* cleared under a cycle that counts.
THEOREM RunningTheorem == Spec => []RunningExact
<1>1. IInv => RunningExact
    BY DEF IInv
<1> QED
    BY InitIInv, NextIInv, <1>1, PTL DEF Spec

\* No replay or publish outlives its cycle: whatever timers fire, it belongs
\* to the live cycle that holds the lock.
THEOREM PublicationTheorem == Spec => []PublicationJoined
<1> QED
    BY InitIInv, NextIInv, IInvImplies, PTL DEF Spec

\* A reported conflict always has a window that can escalate, and a healthy
\* report none, also when a state is restored after contention.
THEOREM ConflictTheorem == Spec => []ConflictWindow
<1>1. IInv => ConflictWindow
    BY DEF IInv
<1> QED
    BY InitIInv, NextIInv, <1>1, PTL DEF Spec
=============================================================================
