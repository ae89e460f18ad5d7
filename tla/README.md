# A TLA+ development of agentbootup

agentbootup gives coding agents a portable "brain": memory pages, skills and
transcripts that a daemon keeps in step between machines, and a server that
stores them and relays chat turns to agents running on an owner's own device.
This directory holds TLA+ models of the parts of it that are concurrent, and
the properties that make them correct, checked with TLC on small instances and,
where listed, proved with TLAPS for every value of the constants.

Paths below are relative to the repository.

## The system

### Components

| Component | State | Operations | What makes it hard |
|---|---|---|---|
| Memory sync lock, `lib/memory/sync-lock.js` | `.brain/memory-sync.lock`, who holds it in this process | acquire (hard link or exclusive create), reclaim of a dead lock, release, lockless mode | several processes, crashes, reused pids, file names that change their file between two system calls |
| File lock, `lib/util/file-lock.js` | `<path>.lock`, its age | acquire, steal, heartbeat, release; a synchronous variant | staleness by time only, slow waiters, failed writes |
| Converge runner, `lib/daemon/memory-converge.mjs` | health, push gate, single-flight flag, generations, conflict window | `runCycle`, `runStartupCycle`, `isMemoryPushGateOpen` | timers that abandon a cycle which then wakes up, settings that change during a read, lock contention |
| Memory store protocol, `lib/memory/store*.js`, `tombstones.js`, `remote-store.js` | publisher heads, tombstones, baselines | publish, refresh, merge, retire | concurrent publishers, deletions against replays |
| Replay queue, `lib/memory/replay-queue.js` | immutable publications waiting to be sent | enqueue, replay, record failure | crash between publishing and dequeuing |
| Asset sync, `lib/daemon/brain-asset-sync.mjs` | sync state file, the cycle promise | discover, push, watchdog | gate read at the start, pushes later |
| Relay state machine, `src/server/lib/remote-local-relay-state-machine.ts` | maps of sessions, handles, commands; event queues; completed and interrupted commands | connector and relay frames, drain, releases, session end | any frame at any time, bounded queues, five maps that must agree |
| Turn receipts, `src/server/lib/remote-local-turn-store.ts` | one document per command | accept, markInProgress, terminalize, terminalizeCommand, status | compare-and-swap races, throttling, writes whose outcome is unknown |
| Connector registry, `src/server/lib/remote-local-connector-registry.ts` | live connectors, staged turns, command scopes | attach, detach, observe, stage and start turns, refresh | awaits between relay state and durable state |
| Live event broker, approvals, admission, device authority, `src/server/lib/remote-local-*.ts` | streams, approval records, tickets | subscribe, decide, admit, reauthenticate | one-time use, disconnection |
| Runtime leases, `src/server/lib/runtime-lease-store.ts` | a lease per agent | wake, refresh, expire | unconditional writes, several replicas |
| Transcript archive store, `src/server/lib/transcript-archive-store.ts` | claim, part and catalog documents, immutable objects | upload a part, commit, collect | answers that are lost, several processes on one upload, crashes between documents |
| Everything else (bundles, transcripts, authorization tables, CLI, doctor, templates) | files and documents | | listed in `PROJECT.json` with the reason for leaving it out |

### How they interact

* The daemon (`brain-asset-sync.mjs`) awaits one startup converge cycle, then
  starts cycles on an interval. A cycle takes the memory sync lock and runs
  memory commands in process; the `memory` command line takes the same lock
  from other processes. The asset sync asks the runner's push gate whether raw
  `memory/**` files may be pushed.
* Credentials, machine id, sync state and the redaction deny list are files
  guarded by the file lock.
* A chat turn is accepted as a receipt (turn store), staged in the registry,
  sent through the relay state machine to the connector on the owner's device,
  and answered by numbered events and one terminal receipt. The registry drains
  them to the owner's stream and settles the durable receipt.
* Memory commands of a checkout merge the heads of all publishers of the shared
  store, and publish a snapshot through their own head and `latest.json`;
  what cannot be published waits in the replay queue.

### What has to be right

* Locks: one holder at a time; a dead holder blocks nobody for good; every
  caller gets an answer.
* Converge: while converge is on, raw memory leaves the machine only after a
  complete safe cycle; nothing is published by a cycle that was reported
  aborted; a hung store does not stop later cycles.
* Relay: every accepted turn ends exactly once; the stream an owner sees has no
  holes; maps never disagree.
* Receipts: a turn is dispatched at most once; a terminal disposition never
  changes; an answer, once given, stays true.
* Registry: a turn whose receipt is open is known to something that will settle
  it; completed means that the owner has seen the end.
* Memory store: deleted pages stay deleted, gaps are not deletions, an edit is
  not overwritten by someone who has not seen it.
* Leases: an accepted wake stands, a ready runtime is not lost.
* Archive: nothing is stored twice, what was acknowledged stays, a commit can
  be resumed after any crash.

The hazards, each at the line where it bites, are in `PROJECT.json`.

## Modules

| Module | Models | Properties |
|---|---|---|
| `MemorySyncLock` | `lib/memory/sync-lock.js` | `ExclusionUnlessMisfired`, `SyncMutualExclusion`, `CallsTerminate`, `OrphanReclaimed` |
| `FileLock` | `lib/util/file-lock.js` | `ExclusionUnlessRaced`, `TimeoutMeansBusy` |
| `RelayStateMachine` | `src/server/lib/remote-local-relay-state-machine.ts` | `MapsAgree`, `SettledOnce`, `StreamIntact`, `MemoryExact`; `ReceiptKept` (only proved) |
| `TurnReceipt` | what a receipt promises (abstract) | |
| `TurnStore` | `src/server/lib/remote-local-turn-store.ts` | `ReceiptSpec`, `AnswersHold`, `DispatchedOnce`, `CallsEnd` |
| `MemoryConverge` | `lib/daemon/memory-converge.mjs` | `GateProven`, `RunningExact`, `PublicationJoined`, `ConflictWindow`, `FlagReleased` |
| `ConnectorRegistry` | `src/server/lib/remote-local-connector-registry.ts` with its callbacks in `src/server/server.ts`, the broker's streams and the routes of `remote-local-chat.ts` | `OpenAccounted`, `RefreshAlone`, `CompletedSeen`, `SessionEndSettles` |
| `MemoryStore` | `lib/memory/store.js`, `tombstones.js`, `replay-queue.js` and the commands of `cli.js` | `NoResurrection`, `NoLateResurrection`, `TombstoneEarned`, `FastForwardOnly` |
| `RuntimeLease` | `src/server/lib/runtime-lease-store.ts`, `routes/runtime-lease.ts` | `AcceptedStands`, `ReadyKept` |
| `ArchiveStore` | `src/server/lib/transcript-archive-store.ts` | `OneObject`, `AnswersHold`, `Recoverable`, `ClaimsSettled`, `CollectedWhole` |
| `MC...` | symmetry sets for TLC | |
| `...Proofs` | inductive invariants and theorems; `LockProofs` is about both locks | |

Definitions marked "A mutant" are plausible mistakes in the code they stand
next to. No specification uses them; each one, put in the place of the
definition it imitates, makes TLC report the property it is meant for.

### Conventions

A process, call or cycle has a `pc` that says at which system call, request or
await it is; everything between two of those is one action, because JavaScript
runs it without interruption (and, for the locks, because one system call is
what other processes can observe as atomic). Time is modelled only where the
code compares times: retries left before a deadline, ticks in `FileLock`, and
timers that may fire whenever they are set. History variables (`raced`,
`late`, `failed`, `writer`, `busy`, `slow`, `accepted`, `settled`, `delivered`,
`proved`, `acked`, `straddled`, `seen` of the registry, `orphaned`, `birth`,
`had`, `removed`, `behind`, `stranded`, `unread`, `misfired`, and `shown` of a
publication) are read by no guard.

### MemorySyncLock

`lockFile` is the file: pid, start token, label, and whether the payload has been
written. `inc` numbers the incarnations of a pid; on Linux the start token
names the incarnation, elsewhere (`StartTicks = FALSE`) it is missing.
`HardLinks` is the set of processes that can link; the others take the
fallback path, so both paths meet in one run. A reclaim is three steps, as in the
code: read the holder, judge it, rename *whatever now has the lock's name*.
`seen` is what was judged, and `misfired` records a rename of something else.
Lockless calls (`ReadOnly`, or an attempt that finds `.brain` unwritable) run
outside the lock, as the code intends.

### FileLock

`age` counts ticks since the lock was touched. In a tick every running
asynchronous holder touches the lock's path, whoever's file it is, as the
interval timer does (every third of `staleMs`). Holders are prompt around their
critical section (`HolderPrompt`): suspended processes are excluded by the
header of the file. A synchronous holder finishes within `staleMs`
(`SyncInTime`), which its comment demands. Waiters may be arbitrarily slow;
`slow` remembers it, and `TimeoutMeansBusy` (a caller that times out did meet
another holder while it waited) is claimed only for prompt waiters, and only
until the first race (see below): a holder whose file was stolen by mistake goes
on touching the path, and if the process that has its file now dies, the robbed
one keeps that orphan fresh for as long as it works. That takes more calls than
the run has; it is a hypothesis of the property all the same. The
heartbeat runs three times within the stale time, so `Stale` is at least two
ticks. A waiter needs up to `Stale + 2` ticks to see an orphan go; with a stale
time of one tick that would be all of its wait, `2 * Stale + 1`.

A steal has the same shape as the reclaim of the other lock: it renames after
an earlier `stat`, so a slow waiter may move away the fresh lock of the one that
stole first, although the header (line 16) calls a steal exclusive. `raced`
records it, and `ExclusionUnlessRaced` shows that this is the only way two
holders meet.

### RelayStateMachine

The `Map`s of the class are functions with `None`; a `Command` record is
spread over `handleOf`, `events`, `eventBytes`, `nextSequence` and
`terminal`. Methods have no await, so each is one action. The connector may
send any frame with any ids at any time; frames of a foreign fence, unparsable
frames and frames of the wrong direction are `InvalidFrame`. Refused turn
requests change nothing and have no action. Heartbeats and availability
frames change nothing, and neither do approval decisions and cancels, which are
forwarded or refused. `inventoryRefreshId` is the `answered` flag of
`ConnectorRegistry`, which alone reads it.

### TurnReceipt and TurnStore

All calls concern one command id. A call reads the document, writes with the
revision it read, and after a write with an unknown outcome reads again. The
storage service is external: a compare-and-swap document whose writes may be
refused, throttled (known not applied) or fail, and whose failed writes sit in
`inFlight` and may be applied later, if their revision still matches.
`ReceiptSpec` is `TurnReceipt!Spec` with `disposition <- doc.disposition`.

### MemoryConverge

A cycle is split at its awaits: config, lock, freshness, replay, refresh,
comparison with the own head and the fleet, publish. `Live` is the code's
`live()`. The watchdog and the startup timeout abandon a cycle at any place
where their timer is set; the cycle goes on holding the lock and continues
later. Memory commands are their exit codes. `proved` is true from a
terminal safe result until the enable window ends or a later result is not
safe. The conflict window is none, open, overdue or escalated. Left out:
failure records, detail texts, `lastCycleAt` and the freshness fields of the
health report.

`GateProven` speaks of the gate's value. The asset sync reads the gate once at
the start of a pass (`brain-asset-sync.mjs:861`), so a pass that began under an
open gate may still be pushing when a cycle starts; that is a hazard listed for
the asset sync model. A `.brain` that is a plain file makes cycles lockless, and
then an abandoned cycle may overlap a new one; the model assumes a lock that
works.

### ConnectorRegistry

The composition of the remote-local chat: the registry with its callbacks as
the server wires them, its relay reduced to the set of active commands and the
number of the inventory, the receipt store reduced to one step per call (what
it does inside is `TurnStore`), and the broker reduced to the set of open
streams. An action is the code between two awaits. The rechecks of `live()`
during a refresh are part of `Close`; the rate limiter is a refusal that may
come at any time.

A turn whose receipt is open and for which no step is under way is staged,
or running with its route known. The exceptions are explicit (`orphaned`):
the terminal receipt was drained and `live()` failed afterwards (line 142); a
new inventory overtook `beforeSend()` (line 275); the loop that settles the
turns of a replaced inventory ended at an earlier turn (lines 385-395); or a
call to the store failed. The third needs no failure: two running turns and a
new inventory suffice, because the settlement of the first conflicts with
itself (see Findings), which leaves the second open and its stream hanging.
Re-subscribing to a turn whose stream was lost while it is still active gives a
stream nobody feeds. Open receipts of a server that is restarted are settled by
nobody; restarts are not modelled.

### MemoryStore

A page's bytes are a version, a snapshot is a function from pages to versions.
Commands of one checkout exclude each other (that is what `MemorySyncLock` is
for). Users are excluded by nothing: they edit and remove pages at any time,
also while a command of their checkout runs. A command is split wherever others
can come between what it reads and what it writes, and may die, or lose its
store, at each of these places:

* *refresh* reads the merge, applies it to `memory/`, and then records the
  baseline of the pages it finds there by then;
* *publish* reads `latest.json`; reads the merge and notes what the user and the
  fleet have deleted; restores the missing pages of `latest.json` one by one,
  the deleted ones among them; removes those again one by one; checks that what
  has drifted may be fast-forwarded; selects the pages that are here by then;
  writes its head (and, before, keeps an overwritten `latest.json` that nobody
  else names); replaces `latest.json`; and records the baseline. A store that
  fails on the way turns it into a queue item (`PublishDefers`);
* *replay* checks the frozen pages against the deletions, then against
  `latest.json`, and goes on like a publish.

One pass over `memory/` that others do not write (the application of a refresh,
the freezing of a queue item, the selection) and one reading of the heads are
single steps: the model lets a user come before or after them. An edit that hits
a publication between selecting a page and copying it is a step of its own
(`Torn`): a new snapshot then fails its hash check (`PublishTorn`), one that the
store has already is published with the bytes selected and the file time of
the edit.

The merge is the code's: newest marker first, and a tombstone wins over every
pointer that is not newer. Ties of markers, which the code breaks by bundle
hash, are broken by the version. A publication carries, as history, the
versions it was compared with (`shown`): the fleet's, as far as `latest.json`
had them too.

`NoResurrection` has five exceptions, each of them something the code does:

* `raced`: the tombstone was written while a command of another checkout was
  under way, or the page changed while it was being published;
* `late`: the tombstone was dated back, because it waited in the queue (this is
  the violation run);
* `behind`: a publication restored the page from a `latest.json` that did not
  have the fleet's version of it;
* `stranded`: a publication restored a page that the user or the fleet had
  deleted, from a `latest.json` that still names it, and ended before it had
  removed it again (`cli.js:1075` and `1092`): killed, or deferred because a
  later page could not be read. The file has the time of now, so the next
  publication takes it for a page made again;
* `unread`: `publishMemoryToStore` could not read the merge and went on without
  leaving out deleted pages (`store.js:781-784`).

All but `behind` occur in the run; that one takes more checkouts.

Two of the exceptions were found by proof attempts that failed, and were then
replayed with TLC on larger instances than the run's.

* *Restored from behind* (four checkouts, two pages). A page is deleted and
  made again; the second publication dies after its head and before
  `latest.json`; a third checkout, which never refreshed, publishes another page
  and with it puts its old copy into `latest.json`. A new checkout that
  publishes fills its gaps from `latest.json` alone (`cli.js:979-1124`), which
  gives the old bytes the file time of now, so they win the merge over the
  newer ones and over the tombstone.
* *Not shown* (two checkouts), the exception of `FastForwardOnly`. Between the
  head and the `latest.json` of a publication that deletes a page, the other
  checkout replays an edit of it made in the same millisecond. The edit is
  visible only through `latest.json`, which the first then replaces: it was not
  there to be compared when that publication read it. So it is with any edit
  another checkout publishes after the comparison, as `cli.js:1128` concedes.

Delete against edit is last writer wins, by design. Two things the model
makes visible and no document rules out: a publish that removes stale pages and
then stops on a conflict leaves them in its baseline, so that a later publish
may write a tombstone for a page made again since; and a checkout whose
`latest.json` was overwritten by a racing publisher is told of a conflict on a
version it has not edited until it refreshes.

### RuntimeLease

One document, replicas that serialise their own calls, and no conditional
update. `late` and `raced` record that another replica wrote between a call's
read and its write. Within one replica an accepted wake stands and a ready
runtime is kept: only the call at the head of a replica's chain runs. Across
replicas `upsert` refuses only to touch a ready lease (lines 127-145): it silently replaces another replica's waking lease, also one
for a different intent, and expiry or failure decided on an older lease
overwrites a ready one. The store's comment (lines 41-44) names this limit.
The document service and the hosts' reports are external.

### ArchiveStore

Parts and the final archive go through the same claim: created (pending),
uploaded with its generation, completed, or uncertain when the answer to the
upload was lost. An uncertain object stays reserved for good: the store fails
closed, and `OneObject` is what that buys. Audit documents are left out except
that failing to write one turns an answer into an error.

A committed upload may be collected at any time. The retention counts from
`committedAt`, which is set when the archive's generation is recorded (line
933) and not when the claim is completed, so a commit that is resumed later can
be collected at once; and it may be configured down to a second. A part upload
looks once, at its start (line 731), whether the upload is committed. One that
was past that check when the commit completed (`straddled`) may therefore work
beside the collection: it finds its part gone and claims, uploads and publishes
it a second time, or completes a claim whose document is deleted under it. What
it leaves is collected by nobody, because the collection's claim is completed.
`OneObject`, `CollectedWhole` and `ClaimsSettled` exempt exactly these parts, and
the run reaches such leftovers; the archive itself, what was answered, and
that a commit can be resumed are untouched by them. Whether the document service
writes a claim anew that is updated after it was deleted is not known, so it may
(`Writes`) or may refuse (`UpdateRefused`). A part whose process
died after publishing and before completing its claim keeps the claim
`uploaded`; no collection removes it. The sharing of commits within one process
is left out.

## Runs

| Run | Instance | Distinct states | Shows |
|---|---|---|---|
| `lock_linux` | 3 processes: hard links, fallback, read-only; tokens; 1 crash | 21 k | exclusion unless a reclaim raced; calls end; orphans are reclaimed |
| `lock_reclaim_race` | 2 processes, 1 crash | | **violation** of mutual exclusion |
| `filelock_exclusion` | 2 async, 1 sync process, 2 faults, stale after 2 ticks | 2.5 M | exclusion unless a steal raced; until then a timeout means a live holder |
| `relay_maps` | 2 references, 2 handles, 2 commands accepted twice, queue of 2 frames and 3 bytes, memory of one | 23 k | maps, settlement, memory, streams |
| `turns_store` | 3 calls of any kind, 2 digests, 2 terminal dispositions, 1 retry | 657 k | answers, dispatch, refinement, calls end |
| `converge_gate` | startup and 2 periodic cycles, kill switch, persisted setting | 101 k | gate, flag, publications, window; flags are released |
| `registry` | 2 turns, 2 sessions, 2 connections, 2 inventories, 1 fault | 1.2 M | open receipts accounted for, refresh alone, completed was seen |
| `registry_session_end` | 2 turns, 1 connection, 2 inventories, no fault | | **violation**: a session's end settles its turn as interrupted |
| `memory_store` | 2 checkouts, 2 pages, 2 moments, 4 events | 1.3 M | no resurrection but in the named ways, earned tombstones, no overwriting of unseen edits |
| `memory_late_deletion` | the same, 3 events | | **violation**: a queued deletion has no effect |
| `runtime_lease` | 3 requests, 2 replicas, 2 intents, 1 fault | 718 k | accepted wakes and ready runtimes |
| `archive_upload` | 2 parts, 3 processes, 6 requests, 2 faults | 2.9 M | one object, resumable commits, whole collections, except under an upload |

Why the bounds suffice. Lock races need a dead holder and two processes that
judged it; each of the three lock users takes a different path. The steal race
needs one waiter to steal and another to be slow. In the relay a command
is accepted twice and the inventory replaced twice, so that state left over
from the first life of a session meets the second; queues and the memory of
completed commands are small enough to overflow. Receipts: two calls race, towards
different dispositions too, and a third observes, each of any kind. Converge: one abandoned cycle and one that
runs or finds the lock held, after a startup cycle that may itself be the
straggler. Registry: one connection replaces another and one inventory another,
while a second turn is at any place of its own. Memory store: an edit, a removal
and the commands that meet; each command counts as one event, as does each that dies,
and the two pages let one be the bystander. Two moments tell what is older from
what is written after it. Leases: a writer, a writer on the other replica, and
one whose answer must stand. Archive: upload of each part, commit, collection,
and two retries, or an upload that is still at work when the collection begins,
with a failure of each of two of them. Named bounds:
`MaxTries`, `MaxCrashes`, `MaxFaults`, `MaxCalls`, `MaxAccepts`, `MaxProposals`,
`MaxEvents`, `MaxConnections`, `MaxInventories`, `MaxRequests`, `MaxClock`; the
sets `Call` and `Cycle` are the calls of one behaviour. `CHECK_DEADLOCK FALSE`
is set where a behaviour may end: in `turns_store`, when all calls have been
answered, and in `memory_late_deletion`, when the events are used up.

### Fairness

* `MemorySyncLock!FairSpec`: a running process takes its next step; callbacks
  run under the lock settle. `BusySpec` adds that processes keep issuing
  memory commands (the converge interval) and that linking or creating the lock
  does not fail at every one of infinitely many attempts: without a later caller
  nobody reclaims an orphan.
* `TurnStore!FairSpec`: every request is answered, fails or times out.
* `MemoryConverge!FairSpec`: configuration reads end, the lock wait is bounded
  by 30 s, timers fire, and publications end because every request of a memory
  command is bounded (`createBoundedMemoryFetch`). Freshness and refresh get no
  fairness: they may hang for ever, which is what the watchdog is for.

### Findings

* `lock_reclaim_race`: in `sync-lock.js` two processes that judged the same dead
  lock can both end up inside: the slower rename removes the lock the faster
  one has just acquired. The comment at line 202 says this cannot happen.
* `memory_late_deletion`: a deletion that waited in the replay queue is published
  with its old date, and a head written in between keeps the page alive. The
  replay reports success and the page stays. `docs/MEMORY_SYNC_SAFETY.md` says
  that a stale publish must never resurrect what a later tombstone removed.
* `registry_session_end`: a turn ended by a new inventory is meant to be settled
  as indeterminate. With the callbacks as `server.ts` wires them its stream is
  closed first, the next callback takes the closed stream for a lost one and
  settles the turn as interrupted, and the settlement as indeterminate then
  conflicts, throws, ends the loop over the other turns and removes the
  connector. The unit test passes a callback that never refuses.

Apart from their renames both locks are right: `ExclusionUnlessMisfired` and
`ExclusionUnlessRaced` say so for every behaviour in which no such rename has
happened.

## Proofs

| Theorem | Says |
|---|---|
| `LockProofs!SyncTypeTheorem` | `SyncSpec => []SyncTypeOK` |
| `LockProofs!SyncExclusionTheorem` | `SyncSpec => []ExclusionUnlessMisfired` |
| `LockProofs!TypeTheorem` | `Spec => []TypeOK` (of `FileLock`) |
| `LockProofs!ExclusionTheorem` | `Spec => []ExclusionUnlessRaced` |
| `LockProofs!TimeoutTheorem` | `Spec => []TimeoutMeansBusy` |
| `RelayStateMachineProofs!MapsTheorem` | `Spec => [](TypeOK /\ MapsAgree)` |
| `RelayStateMachineProofs!SettledTheorem` | `Spec => []SettledOnce` |
| `RelayStateMachineProofs!StreamTheorem` | `Spec => [](ReceiptKept /\ StreamIntact)` |
| `RelayStateMachineProofs!MemoryTheorem` | `Spec => []MemoryExact` |
| `TurnStoreProofs!AnswersTheorem` | `Spec => [](TypeOK /\ AnswersHold /\ DispatchedOnce)` |
| `TurnStoreProofs!ReceiptTheorem` | `Spec => ReceiptSpec` |
| `MemoryConvergeProofs!TypeTheorem`, `GateTheorem`, `RunningTheorem`, `PublicationTheorem`, `ConflictTheorem` | `Spec => []` of `TypeOK`, `GateProven`, `RunningExact`, `PublicationJoined`, `ConflictWindow` |
| `ConnectorRegistryProofs!TypeTheorem`, `RefreshTheorem`, `CompletedTheorem`, `AccountedTheorem` | `Spec => []` of `TypeOK`, `RefreshAlone`, `CompletedSeen`, `OpenAccounted` |
| `MemoryStoreProofs!TypeTheorem`, `TombstoneTheorem`, `ResurrectionTheorem` | `Spec => []` of `TypeOK`, `TombstoneEarned`, `NoResurrection` |
| `MemoryStoreProofs!FastForwardTheorem` | `Spec => FastForwardOnly` (an action property) |
| `RuntimeLeaseProofs!TypeTheorem`, `AcceptedTheorem` | `Spec => []` of `TypeOK`, `AcceptedStands` |
| `RuntimeLeaseProofs!ReadyTheorem` | `Spec => ReadyKept` (an action property) |
| `ArchiveStoreProofs!TypeTheorem`, `OneObjectTheorem`, `AnswersTheorem`, `RecoverableTheorem`, `CollectedTheorem`, `SettledTheorem` | `Spec => []` of `TypeOK`, `OneObject`, `AnswersHold`, `Recoverable`, `CollectedWhole`, `ClaimsSettled` |

They hold for any number of processes, calls, cycles, commands, parts,
checkouts, pages, connections, faults and retries. Assumptions are the named ASSUMEs of the
component modules: null values lie outside the sets, limits are natural
numbers, a frame fits an empty queue (the parser's frame limit is below the
queue's byte limit), terminal dispositions differ from the others, the stale
time of the file lock is at least two ticks, there is a page of memory and a
first moment at which it was written, a lease lives for some time and
has a replica that serves it.

*MemorySyncLock.* Exclusion alone is not inductive: whether a rename hits a live
lock depends on what the process judged. The invariant adds that dead processes
do nothing, that every payload, in the lock or remembered, names an incarnation
that exists or existed (`LockGenuine`, `SeenGenuine`), that what a process is
about to reclaim belongs to an incarnation that is gone and stays gone
(`JudgedGone`), and that unless a reclaim raced the lock file is its holder's
(`OwnerHasLock`). A reclaim of the judged file then cannot touch a holder's.

*FileLock.* The same argument with time for evidence: a file that was judged
stale belongs to a call that is over (`JudgedOver`), because a running holder
touches its lock in every tick or, if synchronous, finishes within the stale
time. For timeouts, `WaiterKnows` says of a waiter that met nobody alive at the
lock that the file is an orphan at least as old as its wait, so that the lock is
free for it after `Stale + 2` ticks at the latest. It needs, like exclusion, that
nobody but its holder touches the lock, which ends with the first race.

*RelayStateMachine.* `Core` is the type invariant, that a command without a
handle has no queue, sequence or receipt, and `MapsAgree`. Settlement follows
from it by counting. `StreamTheorem` strengthens the statement about queues:
sequence numbers below `nextSequence`, in order, and none missing from
`delivered` on, unless the queue is one receipt. `MemoryTheorem` needs that the
queue of completed commands has no repetitions and that finitely many commands
run, so that what is released at once is a sequence of distinct commands;
lemmas on joining and cutting such sequences do the rest.

*TurnStore.* The invariant says what each call knows at each place: an
intended write extends the document of the revision it names, writes in flight
that still fit extend the current one, a call told of a disposition found it in
the document. The refinement is then a step-by-step case analysis: the document
changes only in `Apply`, by a write that fits.

*MemoryConverge.* Generations are handed out once (`Numbered`), so at most one
cycle is live; a live cycle at work excludes another one and every read of the
settings that still counts (`LiveAlone`, `ReadAlone`). `PriorKept` says that
what `LockHeld` would restore is still true when it restores it, `GateEarned`
that an open gate was earned by a safe cycle of this enable window. A step
either ends the live cycle, advances it, or belongs to a straggler and touches
nothing that counts.

*ConnectorRegistry.* The invariant follows each turn and each connection. A
turn is posted, staged, and then started or aborted once (`Life`), and an open
one is routed, tended by a step under way, or orphaned (`Accounted`). What a
handler works on was sent, and what it is ending or settling is no longer
routed (`Handler`); the attached connection is the last one (`Attached`). The
number of routes left behind by settled turns is at most the number of faults
(`Routes`), which is a count over finite sets. Every action names the turns and
connections it is about, and a lemma shows that all others keep their part.

*MemoryStore.* The merge takes the largest marker of a set, so the lemmas that
come first say what a largest element is and what the merged version of a page
can be: a version some pointer offers, with a marker no other exceeds. Four
invariants build on one another.

* `TypeInv` adds to the types that histories are as long as the events allow,
  that a command holds what agrees with what it was made from (a replay the
  first item of its queue, which a publication has found empty), and that the
  pages that are here or frozen have a file time (`FilesOK`).
* `EarnedInv` follows the evidence of a deletion through every place that holds
  one: the tombstones of a head, the pages a checkout knows of and lacks, the
  items of its queue, and what the command under way is to remove or has not
  selected. All are pages a user removed, because a gap enters the known pages
  only together with a file.
* `HadInv` says that a checkout has had in `memory/` every version its files,
  baseline, head and queue name, and that a publication differs from what it
  was shown only where the checkout had that. It carries `FastForwardOnly`: the
  baseline hash that permits a fast-forward names a version that was here.
* `DatedInv` and `FreshInv` carry `NoResurrection`. A marker is never older than
  its version, and, for a page without one of the exceptions, never younger
  than a deletion its version is older than (`HonestStore`, `HonestAt`): markers
  are copied with the bytes, and only a refresh or a restore makes new ones, of
  what the merge showed (`ViewFresh`). The one time they make another is between
  the restoring of a deleted page and its removal (`Doomed`), and whoever ends
  there leaves the page stranded. That is not enough, because the merge
  compares a tombstone with the time a head was written and not with the
  page's marker: a head that carries the old bytes and is written later keeps the
  page alive. `WrittenAnew` says that then some head, or a preserved
  `latest.json`, also has younger bytes, which win by their marker. To keep it
  when a head is replaced, a publication under way carries younger bytes or
  others do (`HeldAnew`, for a replay from its first check on), and no checkout
  steps back from younger bytes to older ones, in its files, between a selection
  and what the user makes of the pages meanwhile, or in the order of its queue
  (`NoStepBack`). A page that changes under a publication may get a marker of
  bytes that were not published; it counts as raced. The case that
  decides is `WriteHead`: it either adds a tombstone at a moment at which no
  other command is under way, so that nothing was selected before it, or leaves
  the deletions of the page as they are or fewer (`WriteHeadTombs`).

*RuntimeLease.* Calls queue once and only the head of a chain has begun
(`Queued`, `HolderAlone`), so between two requests of a call only another
replica can have written (`Apart`). A call then writes what it decided on a
lease that is still the stored one, unless it is marked late (`Founded`), and an
answered lease stands (`Stands`).

*ArchiveStore.* The documents of an object agree (`Agree`) and a pending claim
has one process that created it and may store the object (`Exclusive`), hence
one object. `Collection` orders the deletions behind the catalog's entry,
`Acknowledged` ties answers to documents, and `ProcessOK` says what each
process knows. Nothing is claimed of a part that is overtaken, one collected under an
upload; a step on such a part is shown to touch no other object, and an upload
past its check is accounted for from the moment the commit completes
(`Straddles`). Each step is shown harmless to what the other processes rest on.
`SettledTheorem` adds that without failures every claim that is not settled is
the task of some process (`Tended`).

### Model-checked only

Liveness (`CallsTerminate`, `OrphanReclaimed`, `CallsEnd`, `FlagReleased`) is out
of the prover's reach here: it needs fairness and `ENABLED`. Every safety
invariant and action property of the passing runs is proved. The three properties
of the violation runs are false of the code.

## Plan

Modelled so far: both locks, the converge runner, the chat relay with its
receipts and registry, the memory store with its queue, leases and the archive;
the safety properties of all of them are proved. What would come next:

1. Asset sync pass under the converge gate, composed with `MemoryConverge`.
2. Approval records and the pending approvals of the broker.
3. Transcript manifest lock, admission of connectors (one-time tickets).

## Not modelled

Parsers and formatters, the command line, reports, installers and templates,
which are sequential input and output; authorization tables, whose difficulty
is in their data; transcript discovery and upload on the client, which is file
parsing around one cursor. In modelled components: host extensions, approvals
and `turn()` of the registry, corrupt files, retired heads and the remote
adapters of the memory store, declaring an upload and restoring from the
archive. `PROJECT.json` lists every component with its status.
