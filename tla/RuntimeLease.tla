---------------------------- MODULE RuntimeLease ----------------------------
(***************************************************************************)
(* The runtime lease of one agent: lib/runtime-lease-store.ts and the two  *)
(* routes of routes/runtime-lease.ts, on several server replicas.          *)
(*                                                                         *)
(* The lease is one document.  A replica serializes its calls with an      *)
(* in-memory lock; nothing serializes the replicas, and the document       *)
(* service offers an exclusive create but no conditional update.  A call   *)
(* is split at its requests to that service.                               *)
(*                                                                         *)
(* bundle, ingress key and placement, and the runtime specification they   *)
(* determine, are one intent; endpoint and machine are one runtime.  Time  *)
(* is a clock: a lease written now expires Ttl later.                      *)
(***************************************************************************)
EXTENDS Naturals, Sequences

CONSTANTS
    Call,        \* the requests served
    Replica,     \* the server processes
    Intent,      \* what a wake may ask for
    Unstated,    \* a wake whose body names no bundle
    Runtime,     \* the runtimes hosts may report
    NoRuntime,   \* no endpoint and no machine
    NoLease,     \* no document, or nothing answered yet
    Ttl,         \* ttlSeconds in ticks
    MaxClock,    \* bound: ticks of one behaviour
    MaxFaults    \* bound: failed storage requests of one behaviour

ASSUME TimeAssumption ==
    Ttl \in Nat \ {0} /\ MaxClock \in Nat /\ MaxFaults \in Nat
ASSUME ReplicaAssumption == Replica # {}
ASSUME ValueAssumption == Unstated \notin Intent /\ NoRuntime \notin Runtime

VARIABLES
    doc,      \* the stored lease
    clock,    \* the time
    queue,    \* locks: the calls of a replica in the order they will run
    pc,       \* where a call is
    req,      \* its request and the replica that serves it
    phase,    \* what the store call it is in was made for
    seen,     \* the document as it last read it
    cand,     \* the lease it is writing
    reply,    \* the lease it answered with, NoLease for an error
    writer,   \* history: the replica that wrote the document last
    late,     \* history: another replica wrote between its reads of the document
    raced,    \* history: an update replaced a document its call did not decide on
    failed,   \* history: a host reported a failed launch
    faults    \* failed storage requests so far

vars == <<doc, clock, queue, pc, req, phase, seen, cand, reply, writer,
          late, raced, failed, faults>>

Status == {"waking", "chat_ready", "failed", "expired"}
Lease ==
    [status : Status, intent : Intent, runtime : Runtime \cup {NoRuntime},
     expires : 0..(MaxClock + Ttl), created : Call]
Request ==
    [kind : {"wake"}, replica : Replica, intent : Intent \cup {Unstated},
     ttl : BOOLEAN]
    \cup [kind : {"address"}, replica : Replica]
    \cup [kind : {"report"}, replica : Replica, status : {"chat_ready", "failed"},
          runtime : Runtime]

ASSUME NoLeaseAssumption == NoLease \notin Lease

\* isExpired.
Expired(lease) == lease.expires <= clock

\* A new lease, as handleWakeAgent composes it.
Waking(c, intent) ==
    [status |-> "waking", intent |-> intent, runtime |-> NoRuntime,
     expires |-> clock + Ttl, created |-> c]

Init ==
    /\ doc = NoLease /\ clock = 0
    /\ queue = [r \in Replica |-> <<>>]
    /\ pc = [c \in Call |-> "idle"]
    /\ req = [c \in Call |-> NoLease]
    /\ phase = [c \in Call |-> "read"]
    /\ seen = [c \in Call |-> NoLease]
    /\ cand = [c \in Call |-> NoLease]
    /\ reply = [c \in Call |-> NoLease]
    /\ writer = CHOOSE r \in Replica : TRUE
    /\ late = [c \in Call |-> FALSE]
    /\ raced = FALSE /\ failed = FALSE /\ faults = 0

Goto(c, place) == pc' = [pc EXCEPT ![c] = place]

\* A request arrives and joins the chain of its replica (withAgentLock).
Arrive(c) ==
    /\ pc[c] = "idle"
    /\ \E q \in Request :
         /\ req' = [req EXCEPT ![c] = q]
         /\ queue' = [queue EXCEPT ![q.replica] = Append(@, c)]
    /\ Goto(c, "queued")
    /\ UNCHANGED <<doc, clock, phase, seen, cand, reply, writer, late, raced, failed, faults>>

\* A mutant: the task runs without waiting for the one before it.
TurnUnlocked(c) == TRUE

\* The task of c runs: every task before it has settled.
Turn(c) == Head(queue[req[c].replica]) = c

\* The task has settled, by value or by error, and the next one may run.
Leave(c) == queue' = [queue EXCEPT ![req[c].replica] = Tail(@)]

Answer(c, lease) ==
    /\ reply' = [reply EXCEPT ![c] = lease]
    /\ Goto(c, "done")
    /\ Leave(c)
    /\ UNCHANGED <<phase, cand>>

Refuse(c) == Answer(c, NoLease)

\* Enter upsert with a lease, for the given caller.
Upsert(c, lease, caller) ==
    /\ cand' = [cand EXCEPT ![c] = lease]
    /\ phase' = [phase EXCEPT ![c] = caller]
    /\ Goto(c, "get")
    /\ UNCHANGED <<queue, reply>>

\* handleWakeAgent, from the active lease it found.
Wake(c, lease) ==
    LET q == req[c]
        active == lease # NoLease /\ lease.status \in {"waking", "chat_ready"}
        changes == q.intent # Unstated /\ q.intent # lease.intent
    IN  \/ /\ active /\ (changes \/ (q.ttl /\ lease.status = "chat_ready"))
           /\ Refuse(c)
        \/ /\ active /\ ~changes /\ ~q.ttl
           /\ Answer(c, lease)
        \/ /\ active /\ ~changes /\ q.ttl /\ lease.status = "waking"
           /\ phase' = [phase EXCEPT ![c] = "refresh"]
           /\ Goto(c, "read")
           /\ UNCHANGED <<queue, reply, cand>>
        \/ /\ ~active /\ q.intent = Unstated
           /\ Refuse(c)
        \/ /\ ~active /\ q.intent # Unstated
           /\ Upsert(c, Waking(c, q.intent), "save")

\* A host reports on the launch of a waking lease, inside the agent's lock.
Report(c, lease) ==
    IF lease # NoLease /\ lease.status = "waking"
    THEN Upsert(c, [lease EXCEPT !.status = req[c].status,
                                 !.runtime = IF req[c].status = "failed"
                                             THEN NoRuntime ELSE req[c].runtime,
                                 !.expires = clock + Ttl], "report")
    ELSE Refuse(c)

\* refreshWakingTtl, from the lease its own read found.
Refresh(c, lease) ==
    IF lease # NoLease /\ lease.status = "waking"
    THEN Upsert(c, [lease EXCEPT !.expires = clock + Ttl], "refreshed")
    ELSE Answer(c, lease)

\* The caller of getActiveAndPersistExpiry continues with what it returned.
Found(c, lease) ==
    \/ phase[c] = "refresh" /\ Refresh(c, lease)
    \/ phase[c] = "read" /\ req[c].kind = "wake" /\ Wake(c, lease)
    \/ phase[c] = "read" /\ req[c].kind = "report" /\ Report(c, lease)
    \/ phase[c] = "read" /\ req[c].kind = "address" /\ Answer(c, lease)

\* getActiveAndPersistExpiry: a lease past its time is first rewritten.
Read(c) ==
    /\ pc[c] \in {"queued", "read"} /\ Turn(c)
    /\ seen' = [seen EXCEPT ![c] = doc]
    /\ IF doc # NoLease /\ Expired(doc) /\ (doc.status # "expired" \/ doc.runtime # NoRuntime)
       THEN /\ cand' = [cand EXCEPT ![c] = [doc EXCEPT !.status = "expired",
                                                       !.runtime = NoRuntime]]
            /\ Goto(c, "get")
            /\ UNCHANGED <<queue, reply, phase>>
       ELSE Found(c, doc)
    /\ UNCHANGED <<doc, clock, req, writer, late, raced, failed, faults>>

\* RuntimeLeaseConflictError: only the wake's own upsert is caught, and then
\* the lease that is there is answered if it is what was asked for.
Conflict(c, current) ==
    IF phase[c] = "save" /\ current.intent = req[c].intent
    THEN Answer(c, current)
    ELSE Refuse(c)

\* A mutant: upsert refuses nothing.
NeverRefused(current, next) == FALSE

\* A ready lease does not go back to waking nor change its runtime.
Regresses(current, next) ==
    /\ current.status = "chat_ready"
    /\ \/ next.status = "waking"
       \/ /\ next.status = "chat_ready"
          /\ \/ next.intent # current.intent
             \/ next.runtime # current.runtime

\* upsert reads the document and decides.
UpsertGet(c) ==
    /\ pc[c] = "get"
    /\ seen' = [seen EXCEPT ![c] = doc]
    /\ late' = [late EXCEPT ![c] = doc # seen[c] /\ writer # req[c].replica]
    /\ IF doc # NoLease /\ Regresses(doc, cand[c])
       THEN Conflict(c, doc)
       ELSE /\ Goto(c, IF doc = NoLease THEN "create" ELSE "update")
            /\ UNCHANGED <<queue, reply, phase, cand>>
    /\ UNCHANGED <<doc, clock, req, writer, raced, failed, faults>>

\* The update keeps createdAt.
Persisted(c) == [cand[c] EXCEPT !.created = seen[c].created]

Written(c, lease) ==
    /\ doc' = lease
    /\ writer' = req[c].replica
    /\ failed' = (failed \/ lease.status = "failed")
    /\ raced' = \/ raced
                \/ /\ pc[c] = "update"
                   /\ late[c] \/ (doc # seen[c] /\ writer # req[c].replica)
    /\ UNCHANGED late

\* upsert returns the lease it wrote to its caller.
Returned(c, lease) ==
    IF phase[c] \in {"read", "refresh"} THEN Found(c, lease) ELSE Answer(c, lease)

\* updateDocument: unconditional.
Update(c) ==
    /\ pc[c] = "update"
    /\ Written(c, Persisted(c))
    /\ Returned(c, Persisted(c))
    /\ seen' = [seen EXCEPT ![c] = Persisted(c)]
    /\ UNCHANGED <<clock, req, faults>>

\* createDocumentWithId: refused with 409 when the document exists.
Create(c) ==
    /\ pc[c] = "create"
    /\ \/ /\ doc = NoLease
          /\ Written(c, cand[c])
          /\ Returned(c, cand[c])
       \/ /\ doc # NoLease
          /\ Goto(c, "reget")
          /\ UNCHANGED <<doc, queue, phase, cand, reply, writer, late, raced, failed>>
    /\ UNCHANGED <<clock, req, seen, faults>>

\* A mutant: the loser of the create race overwrites the winner.
YieldsNever(current) == FALSE

\* The loser of the create race gives way to an active lease.
Yields(current) == current.status \notin {"expired", "failed"}

\* The loser reads the document it lost to.
Reget(c) ==
    /\ pc[c] = "reget"
    /\ seen' = [seen EXCEPT ![c] = doc]
    /\ IF Yields(doc)
       THEN Conflict(c, doc)
       ELSE /\ Goto(c, "update")
            /\ UNCHANGED <<queue, reply, phase, cand>>
    /\ UNCHANGED <<doc, clock, req, writer, late, raced, failed, faults>>

\* A storage request fails, a write possibly after it was applied.
Fails(c) ==
    /\ faults < MaxFaults
    /\ faults' = faults + 1
    /\ \/ pc[c] \in {"queued", "read"} /\ Turn(c)
       \/ pc[c] \in {"get", "create", "update", "reget"}
    /\ \/ UNCHANGED <<doc, writer, late, raced, failed>>
       \/ pc[c] = "update" /\ Written(c, Persisted(c))
       \/ pc[c] = "create" /\ doc = NoLease /\ Written(c, cand[c])
    /\ Refuse(c)
    /\ UNCHANGED <<clock, req, seen>>

Tick ==
    /\ clock < MaxClock
    /\ clock' = clock + 1
    /\ UNCHANGED <<doc, queue, pc, req, phase, seen, cand, reply, writer, late,
                   raced, failed, faults>>

Runs(c) == Read(c) \/ UpsertGet(c) \/ Update(c) \/ Create(c) \/ Reget(c) \/ Fails(c)

Done == (\A c \in Call : pc[c] = "done") /\ UNCHANGED vars

Next == Tick \/ Done \/ \E c \in Call : Arrive(c) \/ Runs(c)

Spec == Init /\ [][Next]_vars

-----------------------------------------------------------------------------

\* The state is well typed: a call past its read holds the head of its
\* replica's chain, and a ready lease has a runtime.
TypeOK ==
    /\ doc \in Lease \cup {NoLease}
    /\ clock \in 0..MaxClock /\ faults \in 0..MaxFaults
    /\ queue \in [Replica -> Seq(Call)]
    /\ pc \in [Call -> {"idle", "queued", "read", "get", "create", "update", "reget", "done"}]
    /\ req \in [Call -> Request \cup {NoLease}]
    /\ phase \in [Call -> {"read", "refresh", "refreshed", "save", "report"}]
    /\ seen \in [Call -> Lease \cup {NoLease}]
    /\ cand \in [Call -> Lease \cup {NoLease}]
    /\ reply \in [Call -> Lease \cup {NoLease}]
    /\ late \in [Call -> BOOLEAN]
    /\ writer \in Replica /\ raced \in BOOLEAN /\ failed \in BOOLEAN
    /\ \A c \in Call : pc[c] \in {"read", "get", "create", "update", "reget"} =>
                        Head(queue[req[c].replica]) = c
    /\ doc # NoLease => (doc.status = "chat_ready" <=> doc.runtime # NoRuntime)

\* A wake that was answered with a live lease can count on it: until that
\* lease expires, or a launch fails, the stored lease serves the same intent.
\* The one exception is an update by a call that decided on the document
\* before another replica wrote it: upsert reads again but refuses only over
\* a ready lease (lines 127-145).  The loser of a create race does yield.
AcceptedStands ==
    \/ raced \/ failed
    \/ \A c \in Call :
         (reply[c] # NoLease /\ reply[c].expires > clock) => doc.intent = reply[c].intent

\* No step takes a live ready lease from its runtime, except an update of
\* another replica: one that had read the document before it became ready, or
\* one that expires or fails the older lease it had decided on.  Waking and a
\* second runtime are refused (upsert, lines 130-138), those two are not.
ReadyKept ==
    [][(/\ doc # NoLease /\ doc.status = "chat_ready" /\ ~Expired(doc)
        /\ doc'.runtime # doc.runtime \/ doc'.intent # doc.intent)
       => \E c \in Call :
            /\ pc[c] = "update" /\ pc'[c] # "update" /\ writer # req[c].replica
            /\ \/ doc # seen[c]
               \/ late[c] /\ cand[c].status \in {"expired", "failed"}]_vars
=============================================================================
