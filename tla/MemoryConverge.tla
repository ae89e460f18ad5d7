--------------------------- MODULE MemoryConverge ---------------------------
(***************************************************************************)
(* The daemon's memory converge runner, createConvergeRunner of            *)
(* lib/daemon/memory-converge.mjs, with the daemon's use of it             *)
(* (lib/daemon/brain-asset-sync.mjs) and its settings                      *)
(* (lib/memory/converge-safety.js).                                        *)
(*                                                                         *)
(* A cycle reads the configuration, takes the memory sync lock, assesses   *)
(* freshness, replays queued publications, refreshes, compares heads and   *)
(* publishes.  It is split at its awaits.  Timers (the cycle watchdog, the *)
(* startup timeout) abandon a cycle that is stuck; the abandoned cycle may *)
(* still wake up later, holding the lock.  While converge is on, the asset *)
(* sync pushes raw memory/** files only when PushGate is true.             *)
(*                                                                         *)
(* proved is a history variable.                                           *)
(***************************************************************************)
EXTENDS Naturals

CONSTANTS
    Cycle,      \* the calls of runCycle that are not refused
    Startup,    \* the one made by runStartupCycle
    Other,      \* a process that is not the daemon
    NoOne,      \* nobody holds the memory sync lock
    Envs,       \* values of the environment overrides
    Configs     \* values of the persisted setting

ASSUME StartupAssumption == Startup \in Cycle
ASSUME HolderAssumption == Other # NoOne /\ {Other, NoOne} \cap Cycle = {}
ASSUME EnvAssumption == Envs \subseteq {"unset", "kill", "on", "off"}
ASSUME ConfigAssumption == "unset" \in Configs /\ Configs \subseteq {"unset", "on", "off"}

VARIABLES
    env, disk,         \* environment overrides; the persisted setting
    lock,              \* holder of the memory sync lock
    state,             \* the health state
    gateOpen,
    cached,            \* persistedConvergeEnabled
    effective,         \* effectiveSetting.enabled
    wasEnabled, running,
    configPending, configUnknown, configGeneration,
    generation,
    blockedSince,      \* the conflict window, and whether it was escalated
    pc,                \* where each cycle is
    configGen, gen,    \* the generations each cycle was started with
    prior,             \* what it found: state, gateOpen, wasEnabled
    aborted,           \* cycles whose signal is aborted
    watchdog,          \* cycles whose watchdog timer is set
    stale,             \* cycles with evidence against publishing
    timedOut,          \* runStartupCycle gave up
    proved             \* history: the last terminal result of this enable
                       \* window was a complete and safe one

config == <<configPending, configUnknown, configGeneration>>
runner == <<state, gateOpen, cached, effective, wasEnabled, running,
            generation, blockedSince>>
locals == <<pc, configGen, gen, prior, aborted, watchdog, stale>>
vars == <<env, disk, lock, runner, config, locals, timedOut, proved>>

States == {"starting", "disabled", "ok", "blocked_conflict", "store_deferred",
           "publish_blocked", "never_synced", "stale"}
Windows == {"none", "open", "overdue", "escalated"}

\* resolveConvergeSetting(config, env).enabled.
Enabled(e, c) == e = "on" \/ (e = "unset" /\ c # "off")

\* isMemoryPushGateOpen.
PushGate ==
    IF configPending \/ configUnknown
    THEN env = "kill"
    ELSE Enabled(env, cached) => effective /\ gateOpen

Live(c) == gen[c] = generation /\ c \notin aborted

Goto(c, place) == pc' = [pc EXCEPT ![c] = place]

Init ==
    /\ env \in Envs /\ disk \in Configs
    /\ lock = NoOne
    /\ state = "starting"
    /\ gateOpen = FALSE
    /\ cached = "unset"
    /\ effective = Enabled(env, "unset")
    /\ wasEnabled = FALSE /\ running = FALSE
    /\ configPending = FALSE /\ configUnknown = FALSE /\ configGeneration = 0
    /\ generation = 0
    /\ blockedSince = "none"
    /\ pc = [c \in Cycle |-> "idle"]
    /\ configGen = [c \in Cycle |-> 0]
    /\ gen = [c \in Cycle |-> 0]
    /\ prior = [c \in Cycle |-> [state |-> "starting", gate |-> FALSE, armed |-> FALSE]]
    /\ aborted = {} /\ watchdog = {} /\ stale = {}
    /\ timedOut = FALSE
    /\ proved = FALSE

-----------------------------------------------------------------------------
(* The start of a cycle                                                    *)

\* The daemon awaits the startup cycle before it starts the periodic ones.
MayStart(c) ==
    /\ pc[c] = "idle"
    /\ c # Startup => pc[Startup] = "done" \/ timedOut
    /\ ~running /\ ~configPending

\* runCycle up to its first await.
Start(c) ==
    /\ MayStart(c)
    /\ prior' = [prior EXCEPT ![c] =
           [state |-> state, gate |-> gateOpen, armed |-> wasEnabled]]
    /\ configGeneration' = configGeneration + 1
    /\ configGen' = [configGen EXCEPT ![c] = configGeneration + 1]
    /\ configPending' = TRUE /\ configUnknown' = TRUE
    /\ gateOpen' = (gateOpen /\ ~Enabled(env, cached))
    /\ Goto(c, "config")
    /\ UNCHANGED <<env, disk, lock, state, cached, effective, wasEnabled,
                   running, generation, blockedSince, gen, aborted, watchdog,
                   stale, timedOut, proved>>

\* The read of a cycle that was abandoned meanwhile is ignored.
ConfigIgnored(c) ==
    /\ pc[c] = "config"
    /\ configGen[c] # configGeneration
    /\ Goto(c, "done")
    /\ UNCHANGED <<env, disk, lock, runner, config, configGen, gen, prior,
                   aborted, watchdog, stale, timedOut, proved>>

\* readConfig throws: converge counts as on, and nothing is known.
ConfigFails(c) ==
    /\ pc[c] = "config"
    /\ configGen[c] = configGeneration
    /\ configPending' = FALSE
    /\ effective' = TRUE /\ wasEnabled' = TRUE
    /\ state' = "store_deferred"
    /\ gateOpen' = FALSE
    /\ proved' = FALSE
    /\ Goto(c, "done")
    /\ UNCHANGED <<env, disk, lock, cached, running, generation, blockedSince,
                   configUnknown, configGeneration, configGen, gen, prior,
                   aborted, watchdog, stale, timedOut>>

\* Converge is off: the raw path is open, and the next enable starts afresh.
ConfigOff(c) ==
    /\ pc[c] = "config"
    /\ configGen[c] = configGeneration
    /\ ~Enabled(env, disk)
    /\ configPending' = FALSE /\ configUnknown' = FALSE
    /\ cached' = disk
    /\ effective' = FALSE /\ wasEnabled' = FALSE
    /\ state' = "disabled"
    /\ gateOpen' = TRUE
    /\ proved' = FALSE
    /\ Goto(c, "done")
    /\ UNCHANGED <<env, disk, lock, running, generation, blockedSince,
                   configGeneration, configGen, gen, prior, aborted, watchdog,
                   stale, timedOut>>

\* Converge is on: the cycle arms its watchdog and asks for the lock.
ConfigOn(c) ==
    /\ pc[c] = "config"
    /\ configGen[c] = configGeneration
    /\ Enabled(env, disk)
    /\ configPending' = FALSE /\ configUnknown' = FALSE
    /\ cached' = disk
    /\ effective' = TRUE /\ wasEnabled' = TRUE
    /\ gateOpen' = FALSE
    /\ running' = TRUE
    /\ generation' = generation + 1
    /\ gen' = [gen EXCEPT ![c] = generation + 1]
    /\ watchdog' = watchdog \cup {c}
    /\ Goto(c, "lock")
    /\ UNCHANGED <<env, disk, lock, state, blockedSince, configGeneration,
                   configGen, prior, aborted, stale, timedOut, proved>>

-----------------------------------------------------------------------------
(* The end of a cycle                                                      *)

\* The lock is released and the watchdog cleared, whoever the cycle is.
Leave(c) ==
    /\ Goto(c, "done")
    /\ lock' = IF lock = c THEN NoOne ELSE lock
    /\ watchdog' = watchdog \ {c}
    /\ UNCHANGED <<env, disk, cached, effective, wasEnabled, generation,
                   config, configGen, gen, prior, aborted, stale, timedOut>>

\* A mutant: an abandoned cycle still writes its result.
SettleLate(c, health, safe, window) ==
    /\ state' = health
    /\ gateOpen' = safe
    /\ blockedSince' = window
    /\ running' = FALSE
    /\ proved' = (IF Live(c) THEN safe ELSE proved)
    /\ Leave(c)

\* The result of a cycle: only a live one writes it.
Settle(c, health, safe, window) ==
    /\ IF Live(c)
       THEN /\ state' = health
            /\ gateOpen' = safe
            /\ blockedSince' = window
            /\ running' = FALSE
            /\ proved' = safe
       ELSE UNCHANGED <<state, gateOpen, blockedSince, running, proved>>
    /\ Leave(c)

\* openGate, set and clearBlocked: a terminal safe outcome.
Safe(c) == \E health \in {"ok", "never_synced"} : Settle(c, health, TRUE, "none")

\* A mutant: a conflict opens no window.
BlockedNoWindow(c, health) == Settle(c, health, FALSE, blockedSince)

\* setBlocked: the first conflict opens a window, a late one escalates it.
Blocked(c, health) ==
    Settle(c, health, FALSE,
           IF health # "blocked_conflict" THEN blockedSince
           ELSE IF blockedSince = "none" THEN "open"
           ELSE IF blockedSince = "overdue" THEN "escalated" ELSE blockedSince)

-----------------------------------------------------------------------------
(* A cycle with converge on                                                *)

AcquireLock(c) ==
    /\ pc[c] = "lock" /\ lock = NoOne
    /\ lock' = c
    /\ Goto(c, "freshness")
    /\ UNCHANGED <<env, disk, runner, config, configGen, gen, prior, aborted,
                   watchdog, stale, timedOut, proved>>

\* A mutant: the open gate of a disabled window passes for a proof.
LockHeldAnyWindow(c) ==
    /\ pc[c] = "lock" /\ lock # NoOne
    /\ IF Live(c)
       THEN /\ state' = prior[c].state
            /\ gateOpen' = prior[c].gate
            /\ running' = FALSE
       ELSE UNCHANGED <<state, gateOpen, running>>
    /\ Leave(c)
    /\ UNCHANGED <<blockedSince, proved>>

\* A mutant: contention is reported as a health state of its own.
LockHeldState(c) ==
    /\ pc[c] = "lock" /\ lock # NoOne
    /\ IF Live(c)
       THEN /\ state' = "lock_held"
            /\ gateOpen' = (prior[c].armed /\ prior[c].gate)
            /\ running' = FALSE
       ELSE UNCHANGED <<state, gateOpen, running>>
    /\ UNCHANGED <<blockedSince, proved>>
    /\ Leave(c)

\* MemorySyncLockHeldError: the prior state is kept, and the prior gate if it
\* belongs to this enable window.
LockHeld(c) ==
    /\ pc[c] = "lock" /\ lock # NoOne
    /\ IF Live(c)
       THEN /\ state' = prior[c].state
            /\ gateOpen' = (prior[c].armed /\ prior[c].gate)
            /\ running' = FALSE
       ELSE UNCHANGED <<state, gateOpen, running>>
    /\ UNCHANGED <<blockedSince, proved>>
    /\ Leave(c)

InLock == {"freshness", "replay", "refresh", "compare", "fleet", "publish"}

\* Anything else thrown in the cycle, by the lock or under it.
Throws(c) ==
    /\ pc[c] \in InLock \cup {"lock"}
    /\ Blocked(c, "store_deferred")

\* A mutant: commands do not look at the signal.
RunAnyway(c, place, timed) ==
    /\ Goto(c, place)
    /\ watchdog' = IF timed THEN watchdog \cup {c} ELSE watchdog \ {c}
    /\ UNCHANGED <<env, disk, lock, state, cached, effective, wasEnabled,
                   running, generation, blockedSince, config, configGen, gen,
                   prior, aborted, timedOut, proved>>

\* A mutant: the watchdog is not set again after a replay.
RunUntimed(c, place, timed) ==
    /\ c \notin aborted
    /\ Goto(c, place)
    /\ watchdog' = watchdog \ {c}
    /\ UNCHANGED <<env, disk, lock, state, cached, effective, wasEnabled,
                   running, generation, blockedSince, config, configGen, gen,
                   prior, aborted, timedOut, proved>>

\* runMemoryCommandCaptured: runMemoryCommand (lib/memory/cli.js:661) throws at
\* once when the cycle's signal is aborted.
Run(c, place, timed) ==
    /\ c \notin aborted
    /\ Goto(c, place)
    /\ watchdog' = IF timed THEN watchdog \cup {c} ELSE watchdog \ {c}
    /\ UNCHANGED <<env, disk, lock, state, cached, effective, wasEnabled,
                   running, generation, blockedSince, config, configGen, gen,
                   prior, aborted, timedOut, proved>>

\* assessFreshness; without evidence of staleness a queue is replayed first.
\* Publications are never abandoned: their watchdog is cancelled.
Freshness(c) ==
    /\ pc[c] = "freshness"
    /\ \/ /\ stale' = stale \cup {c}
          /\ gateOpen' = (gateOpen /\ ~Live(c))
          /\ Run(c, "refresh", c \in watchdog)
       \/ /\ c # Startup
          /\ Run(c, "replay", FALSE)
          /\ UNCHANGED <<stale, gateOpen>>
       \/ /\ Run(c, "refresh", c \in watchdog)
          /\ UNCHANGED <<stale, gateOpen>>

ReplayReturns(c) ==
    /\ pc[c] = "replay"
    /\ \/ Blocked(c, "blocked_conflict")
       \/ Blocked(c, "store_deferred")
       \/ Live(c) /\ Run(c, "refresh", TRUE) /\ UNCHANGED <<stale, gateOpen>>

\* refresh fails, finds what startup must not publish, ends a stale or
\* startup cycle, or leads on to the comparison of heads.
RefreshReturns(c) ==
    /\ pc[c] = "refresh"
    /\ \/ Blocked(c, "store_deferred")
       \/ c \in stale /\ Settle(c, "stale", FALSE, blockedSince)
       \/ /\ c = Startup /\ c \notin stale
          /\ \/ Blocked(c, "blocked_conflict")
             \/ Settle(c, "ok", FALSE, "none")
       \/ /\ c # Startup /\ c \notin stale /\ Live(c)
          /\ Goto(c, "compare")
          /\ watchdog' = watchdog \ {c}
          /\ UNCHANGED <<env, disk, lock, runner, config, configGen, gen,
                         prior, aborted, stale, timedOut, proved>>

\* localMatchesOwnHead, then localMatchesFleet or a tree that is now empty.
CompareReturns(c) ==
    /\ pc[c] \in {"compare", "fleet"}
    /\ \/ Safe(c)
       \/ pc[c] = "compare" /\ Blocked(c, "store_deferred")
       \/ /\ pc[c] = "compare" /\ Live(c)
          /\ Goto(c, "fleet")
          /\ UNCHANGED <<env, disk, lock, runner, config, configGen, gen, prior,
                         aborted, watchdog, stale, timedOut, proved>>
       \/ /\ pc[c] = "fleet"
          /\ Run(c, "publish", FALSE)
          /\ UNCHANGED <<stale, gateOpen>>

PublishReturns(c) ==
    /\ pc[c] = "publish"
    /\ \/ Safe(c)
       \/ Blocked(c, "blocked_conflict")
       \/ Blocked(c, "publish_blocked")

-----------------------------------------------------------------------------
(* Timers                                                                  *)

\* The watchdog abandons a cycle stuck in a pull phase.
WatchdogFires(c) ==
    /\ c \in watchdog /\ running /\ Live(c)
    /\ aborted' = aborted \cup {c}
    /\ watchdog' = watchdog \ {c}
    /\ state' = "store_deferred"
    /\ gateOpen' = FALSE
    /\ running' = FALSE
    /\ configUnknown' = TRUE
    /\ configGeneration' = configGeneration + 1
    /\ generation' = generation + 1
    /\ proved' = FALSE
    /\ UNCHANGED <<env, disk, lock, cached, effective, wasEnabled,
                   blockedSince, configPending, pc, configGen, gen, prior,
                   stale, timedOut>>

\* runStartupCycle's timeout.
StartupTimeout ==
    /\ ~timedOut /\ pc[Startup] \notin {"idle", "done"}
    /\ timedOut' = TRUE
    /\ aborted' = aborted \cup {Startup}
    /\ state' = "store_deferred"
    /\ gateOpen' = FALSE
    /\ running' = FALSE
    /\ configPending' = FALSE /\ configUnknown' = TRUE
    /\ configGeneration' = configGeneration + 1
    /\ generation' = generation + 1
    /\ proved' = FALSE
    /\ UNCHANGED <<env, disk, lock, cached, effective, wasEnabled,
                   blockedSince, pc, configGen, gen, prior, watchdog, stale>>

\* The conflict window passes the escalation limit.
WindowAges ==
    /\ blockedSince = "open"
    /\ blockedSince' = "overdue"
    /\ UNCHANGED <<env, disk, lock, state, gateOpen, cached, effective,
                   wasEnabled, running, generation, config, locals, timedOut,
                   proved>>

-----------------------------------------------------------------------------
(* The surroundings                                                        *)

\* Another process takes the memory sync lock, or releases it.
OtherLock ==
    /\ lock \in {NoOne, Other}
    /\ lock' = IF lock = NoOne THEN Other ELSE NoOne
    /\ UNCHANGED <<env, disk, runner, config, locals, timedOut, proved>>

\* The operator changes the persisted setting, or the daemon's environment.
SetConverge ==
    /\ disk' \in Configs
    /\ UNCHANGED <<env, lock, runner, config, locals, timedOut, proved>>

SetEnv ==
    /\ env' \in Envs
    /\ UNCHANGED <<disk, lock, runner, config, locals, timedOut, proved>>

-----------------------------------------------------------------------------
Configure(c) == ConfigIgnored(c) \/ ConfigFails(c) \/ ConfigOff(c) \/ ConfigOn(c)
Lock(c) == AcquireLock(c) \/ LockHeld(c)
Publication(c) == ReplayReturns(c) \/ CompareReturns(c) \/ PublishReturns(c)

Next ==
    \/ \E c \in Cycle :
           \/ Start(c) \/ Configure(c) \/ Lock(c) \/ Freshness(c)
           \/ RefreshReturns(c) \/ Publication(c) \/ Throws(c)
           \/ WatchdogFires(c)
    \/ StartupTimeout \/ WindowAges
    \/ OtherLock \/ SetConverge \/ SetEnv

Spec == Init /\ [][Next]_vars

\* Reading the configuration ends, the wait for the lock is bounded, timers
\* fire, and publications, whose requests are bounded, return.  Freshness and
\* refresh may hang for ever.
FairSpec ==
    /\ Spec
    /\ \A c \in Cycle :
           /\ WF_vars(Configure(c)) /\ WF_vars(Lock(c))
           /\ WF_vars(Publication(c)) /\ WF_vars(WatchdogFires(c))

-----------------------------------------------------------------------------
\* Type invariant.
TypeOK ==
    /\ env \in Envs /\ disk \in Configs
    /\ lock \in Cycle \cup {Other, NoOne}
    /\ state \in States
    /\ gateOpen \in BOOLEAN
    /\ cached \in Configs
    /\ effective \in BOOLEAN
    /\ wasEnabled \in BOOLEAN /\ running \in BOOLEAN
    /\ configPending \in BOOLEAN /\ configUnknown \in BOOLEAN
    /\ configGeneration \in Nat
    /\ generation \in Nat
    /\ blockedSince \in Windows
    /\ pc \in [Cycle -> {"idle", "config", "lock", "done"} \cup InLock]
    /\ configGen \in [Cycle -> Nat]
    /\ gen \in [Cycle -> Nat]
    /\ prior \in [Cycle -> [state : States, gate : BOOLEAN, armed : BOOLEAN]]
    /\ aborted \subseteq Cycle /\ watchdog \subseteq Cycle /\ stale \subseteq Cycle
    /\ timedOut \in BOOLEAN
    /\ proved \in BOOLEAN

\* Converge is on, as it was last read or is just being read.
ConvergeOn == Enabled(env, cached) \/ (configPending /\ Enabled(env, disk))

\* With converge on, raw memory files pass the gate only on the strength of a
\* complete safe cycle of this enable window, the latest with a result, and
\* while no cycle, abandoned ones included, is changing or publishing memory:
\* the FR-4b truth table of docs/MEMORY_CONVERGE_STATES.md.
GateProven ==
    PushGate /\ ConvergeOn =>
        /\ proved
        /\ state \in {"ok", "never_synced"}
        /\ ~running
        /\ \A c \in Cycle : pc[c] \notin InLock \ {"freshness"}

\* The single-flight flag is set exactly while one live cycle is under way:
\* it neither sticks, stopping all later cycles, nor is cleared under a cycle
\* that still counts.
RunningExact ==
    /\ running <=> \E c \in Cycle : pc[c] \in InLock \cup {"lock"} /\ Live(c)
    /\ configPending => ~running

\* A replay or publish in flight belongs to the cycle that is reported to be
\* running and holds the lock, never to one that was abandoned, is a startup
\* cycle or saw stale evidence: no head lands after its cycle was reported
\* aborted.
PublicationJoined ==
    \A c \in Cycle :
        pc[c] \in {"replay", "publish"} =>
            /\ running /\ Live(c) /\ lock = c
            /\ c \notin stale /\ c # Startup

\* A reported conflict has a window that can escalate, and a healthy report
\* has closed it, also when the state is restored after lock contention.
ConflictWindow ==
    /\ state = "blocked_conflict" => blockedSince # "none"
    /\ state \in {"ok", "never_synced"} => blockedSince = "none"

\* The runner is never stuck: a cycle whose store hangs is abandoned.
FlagReleased ==
    /\ running ~> ~running
    /\ configPending ~> ~configPending
=============================================================================
