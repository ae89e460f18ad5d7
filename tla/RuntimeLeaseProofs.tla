------------------------- MODULE RuntimeLeaseProofs -------------------------
(***************************************************************************)
(* Proofs about RuntimeLease for any number of requests, replicas and      *)
(* intents, any time to live and any run of the clock.                     *)
(***************************************************************************)
EXTENDS RuntimeLease, SequenceTheorems, TLAPS

\* Places inside upsert, and those where a call holds its replica's lock.
Upserting == {"get", "create", "update", "reget"}
Holding == {"read"} \cup Upserting

\* A wake may write over a lease that failed or is past its time.
Spent(lease) == lease.status = "failed" \/ (lease.status = "expired" /\ Expired(lease))

\* What a call may decide to write when the lease is current: a new lease
\* where none is active, the same lease for longer or with the report of its
\* host while it is waking, or the same lease as expired.
Decided(next, current) ==
    \/ (current = NoLease \/ Spent(current)) /\ next.status = "waking"
    \/ /\ current # NoLease /\ current.status = "waking"
       /\ next.intent = current.intent /\ next.expires >= current.expires
    \/ /\ current # NoLease /\ Expired(current)
       /\ next.status = "expired" /\ next.intent = current.intent
       /\ next.expires = current.expires

\* The call waits in a chain.
Waits(c, chain) == \E i \in 1..Len(chain) : chain[i] = c

\* A lease the code writes.
Sane(lease) ==
    /\ lease \in Lease
    /\ lease.status = "chat_ready" <=> lease.runtime # NoRuntime
    /\ lease.status = "expired" => Expired(lease)
    /\ lease.expires <= clock + Ttl

(***************************************************************************)
(* The inductive invariant, call by call.                                  *)
(***************************************************************************)
\* A call that has arrived is in the chain of its replica, and at its head
\* once it has begun.
Queued(c) ==
    /\ pc[c] # "idle" => req[c] \in Request
    /\ pc[c] \notin {"idle", "done"} => Waits(c, queue[req[c].replica])
    /\ pc[c] \in Holding => Head(queue[req[c].replica]) = c

\* Only another replica writes between two requests of a call.
Apart(c) ==
    /\ pc[c] \in {"get", "update"} /\ doc # seen[c] => writer # req[c].replica
    /\ pc[c] \in {"create", "reget", "update"} /\ late[c] => writer # req[c].replica

\* A call writes what it decided on the lease it has seen, unless it came late.
Founded(c) ==
    /\ pc[c] \in Upserting => Sane(cand[c])
    /\ pc[c] = "get" => /\ Decided(cand[c], seen[c])
                        /\ seen[c] = NoLease => phase[c] = "save"
    /\ pc[c] \in {"create", "reget"} => cand[c].status = "waking" /\ phase[c] = "save"
    /\ pc[c] = "update" =>
         /\ seen[c] # NoLease /\ ~Regresses(seen[c], cand[c])
         /\ ~late[c] => Decided(cand[c], seen[c])
    /\ doc = NoLease => seen[c] = NoLease
    /\ pc[c] \in {"reget", "update"} => doc # NoLease

\* What was answered stands as long as it lives.
Stands(c) ==
    (reply[c] # NoLease /\ ~Expired(reply[c])) =>
        /\ doc # NoLease /\ doc.intent = reply[c].intent
        /\ doc.expires >= reply[c].expires

CallOK(c) == Queued(c) /\ Apart(c) /\ Founded(c)

Places == {"idle", "queued", "read", "get", "create", "update", "reget", "done"}

Typed ==
    /\ doc \in Lease \cup {NoLease}
    /\ clock \in 0..MaxClock /\ faults \in 0..MaxFaults
    /\ queue \in [Replica -> Seq(Call)]
    /\ pc \in [Call -> Places]
    /\ req \in [Call -> Request \cup {NoLease}]
    /\ phase \in [Call -> {"read", "refresh", "refreshed", "save", "report"}]
    /\ seen \in [Call -> Lease \cup {NoLease}]
    /\ cand \in [Call -> Lease \cup {NoLease}]
    /\ reply \in [Call -> Lease \cup {NoLease}]
    /\ late \in [Call -> BOOLEAN]
    /\ writer \in Replica /\ raced \in BOOLEAN /\ failed \in BOOLEAN

DocOK == doc # NoLease => Sane(doc) /\ (doc.status = "failed" => failed)

AllStand == raced \/ failed \/ \A c \in Call : Stands(c)

IInv == Typed /\ DocOK /\ AllStand /\ \A c \in Call : CallOK(c)

(***************************************************************************)
(* Chains and leases.                                                      *)
(***************************************************************************)
LEMMA AppendWaits ==
    ASSUME NEW s \in Seq(Call), NEW a \in Call
    PROVE  /\ Append(s, a) \in Seq(Call)
           /\ Waits(a, Append(s, a))
           /\ \A b : Waits(b, s) => Waits(b, Append(s, a)) /\ Head(Append(s, a)) = Head(s)
<1>1. /\ Append(s, a) \in Seq(Call) /\ Len(Append(s, a)) = Len(s) + 1 /\ Len(s) \in Nat
      /\ \A i \in 1..Len(s) : Append(s, a)[i] = s[i]
      /\ Append(s, a)[Len(s) + 1] = a
    BY AppendProperties, LenProperties
<1>2. Waits(a, Append(s, a))
  <2>1. Len(s) + 1 \in 1..Len(Append(s, a))
    BY <1>1
  <2> QED
    BY <1>1, <2>1 DEF Waits
<1>3. ASSUME NEW b, Waits(b, s)
      PROVE  Waits(b, Append(s, a)) /\ Head(Append(s, a)) = Head(s)
  <2>1. PICK i \in 1..Len(s) : s[i] = b
    BY <1>3 DEF Waits
  <2>2. i \in 1..Len(Append(s, a)) /\ Append(s, a)[i] = b
    BY <1>1, <2>1
  <2>3. s # <<>>
    BY <2>1
  <2>4. Head(s) = s[1] /\ Head(Append(s, a)) = Append(s, a)[1] /\ 1 \in 1..Len(s)
    BY <1>1, <2>1, <2>3
  <2> QED
    BY <1>1, <2>2, <2>4 DEF Waits
<1> QED
    BY <1>1, <1>2, <1>3

LEMMA TailWaits ==
    ASSUME NEW s \in Seq(Call), NEW a \in Call, Waits(a, s)
    PROVE  /\ Tail(s) \in Seq(Call)
           /\ \A b : Waits(b, s) /\ b # Head(s) => Waits(b, Tail(s))
<1>1. s # <<>> /\ Len(s) \in Nat
    BY LenProperties DEF Waits
<1>2. /\ Tail(s) \in Seq(Call) /\ Head(s) = s[1] /\ Len(Tail(s)) = Len(s) - 1
      /\ \A i \in 1..Len(Tail(s)) : Tail(s)[i] = s[i + 1]
    BY <1>1, HeadTailProperties
<1>3. ASSUME NEW b, Waits(b, s), b # Head(s)
      PROVE  Waits(b, Tail(s))
  <2>1. PICK i \in 1..Len(s) : s[i] = b
    BY <1>3 DEF Waits
  <2>2. i # 1 /\ i - 1 \in 1..Len(Tail(s)) /\ Tail(s)[i - 1] = b
    BY <1>1, <1>2, <1>3, <2>1
  <2> QED
    BY <2>2 DEF Waits
<1> QED
    BY <1>2, <1>3

(***************************************************************************)
(* What the step of one call does to the others.                           *)
(***************************************************************************)
\* Only c moves.
Alone(c) ==
    \A b \in Call \ {c} :
        /\ pc'[b] = pc[b] /\ req'[b] = req[b] /\ phase'[b] = phase[b] /\ seen'[b] = seen[b]
        /\ cand'[b] = cand[b] /\ late'[b] = late[b]

\* It joins a chain, leaves one or stays in it.
ChainStep(c) ==
    \/ queue' = queue
    \/ pc[c] = "idle" /\ \E r \in Replica : queue' = [queue EXCEPT ![r] = Append(@, c)]
    \/ pc[c] # "idle" /\ Turn(c) /\ Leave(c)

\* It writes the document in the name of its replica, or leaves it alone.
DocStep(c) ==
    \/ UNCHANGED <<doc, writer>>
    \/ pc[c] \in Holding /\ doc' \in Lease /\ writer' = req[c].replica

LEMMA Replicas ==
    ASSUME IInv, NEW c \in Call, pc[c] # "idle"
    PROVE  /\ req[c] \in Request /\ req[c].replica \in Replica
           /\ pc[c] # "done" => Waits(c, queue[req[c].replica])
           /\ queue[req[c].replica] \in Seq(Call)
  BY DEF IInv, Typed, CallOK, Queued, Request

\* Two calls that hold the lock of a replica are the same.
LEMMA HolderAlone ==
    ASSUME IInv, NEW b \in Call, NEW c \in Call, b # c, pc[b] \in Holding,
           pc[c] \in Holding \/ Turn(c)
    PROVE  req[b].replica # req[c].replica
  BY DEF IInv, CallOK, Queued, Turn

LEMMA OthersQueued ==
    ASSUME IInv, NEW c \in Call, pc[c] # "done", Alone(c), ChainStep(c), NEW b \in Call, b # c
    PROVE  Queued(b)'
<1> USE DEF IInv, CallOK
<1>1. pc'[b] = pc[b] /\ req'[b] = req[b] /\ Queued(b)
    BY DEF Alone
<1>2. CASE queue' = queue
    BY <1>1, <1>2 DEF Queued
<1>3. ASSUME pc[b] # "idle"
      PROVE  /\ req[b].replica \in Replica /\ queue[req[b].replica] \in Seq(Call)
             /\ pc[b] # "done" => Waits(b, queue[req[b].replica])
    BY <1>3, Replicas
<1>4. ASSUME NEW r \in Replica, queue' = [queue EXCEPT ![r] = Append(@, c)]
      PROVE  Queued(b)'
  <2>1. queue[r] \in Seq(Call)
    BY DEF Typed
  <2>2. CASE pc[b] \notin {"idle", "done"} /\ req[b].replica = r
    <3>1. Waits(b, queue[r])
        BY <1>3, <2>2
    <3>2. Waits(b, Append(queue[r], c)) /\ Head(Append(queue[r], c)) = Head(queue[r])
        BY <2>1, <3>1, AppendWaits
    <3>3. queue'[r] = Append(queue[r], c)
        BY <1>4 DEF Typed
    <3> QED
        BY <1>1, <2>2, <3>2, <3>3 DEF Queued
  <2>3. CASE pc[b] \notin {"idle", "done"} /\ req[b].replica # r
    <3>1. queue'[req[b].replica] = queue[req[b].replica]
        BY <1>3, <1>4, <2>3 DEF Typed
    <3> QED
        BY <1>1, <2>3, <3>1 DEF Queued
  <2>4. CASE pc[b] \in {"idle", "done"}
    BY <1>1, <2>4 DEF Queued, Holding, Upserting
  <2> QED
    BY <2>2, <2>3, <2>4
<1>5. ASSUME pc[c] # "idle", Turn(c), Leave(c)
      PROVE  Queued(b)'
  <2> DEFINE r == req[c].replica
  <2>1. r \in Replica /\ queue[r] \in Seq(Call) /\ Waits(c, queue[r]) /\ Head(queue[r]) = c
    BY <1>5, Replicas DEF Turn
  <2>2. queue' = [queue EXCEPT ![r] = Tail(@)]
    BY <1>5 DEF Leave
  <2>3. CASE pc[b] \notin {"idle", "done"} /\ req[b].replica = r
    <3>1. Waits(b, queue[r])
        BY <1>3, <2>3
    <3>2. Waits(b, Tail(queue[r]))
        BY <2>1, <3>1, TailWaits
    <3>3. pc[b] \notin Holding
        BY <1>5, <2>3, HolderAlone
    <3>4. queue'[r] = Tail(queue[r])
        BY <2>1, <2>2 DEF Typed
    <3> QED
        BY <1>1, <2>3, <3>2, <3>3, <3>4 DEF Queued
  <2>4. CASE pc[b] \notin {"idle", "done"} /\ req[b].replica # r
    <3>1. queue'[req[b].replica] = queue[req[b].replica]
        BY <1>3, <2>1, <2>2, <2>4 DEF Typed
    <3> QED
        BY <1>1, <2>4, <3>1 DEF Queued
  <2>5. CASE pc[b] \in {"idle", "done"}
    BY <1>1, <2>5 DEF Queued, Holding, Upserting
  <2> QED
    BY <2>3, <2>4, <2>5
<1> QED
    BY <1>2, <1>4, <1>5 DEF ChainStep

LEMMA OthersKeep ==
    ASSUME IInv, NEW c \in Call, pc[c] # "done", Alone(c), ChainStep(c), DocStep(c),
           clock' = clock
    PROVE  \A b \in Call \ {c} : CallOK(b)'
<1> SUFFICES ASSUME NEW b \in Call, b # c
             PROVE  CallOK(b)'
    OBVIOUS
<1> USE DEF IInv, CallOK
<1>1. Queued(b)'
    BY OthersQueued
<1>2. /\ pc'[b] = pc[b] /\ req'[b] = req[b] /\ phase'[b] = phase[b] /\ seen'[b] = seen[b]
      /\ cand'[b] = cand[b] /\ late'[b] = late[b]
    BY DEF Alone
<1>3. CASE UNCHANGED <<doc, writer>>
  <2>1. Apart(b)'
    BY <1>2, <1>3 DEF Apart
  <2>2. Founded(b)'
    BY <1>2, <1>3 DEF Founded, Sane, Decided, Spent, Expired, Regresses
  <2> QED
    BY <1>1, <2>1, <2>2
<1>4. CASE pc[c] \in Holding /\ doc' \in Lease /\ writer' = req[c].replica
  <2>1. pc[b] \in Holding => writer' # req[b].replica
    BY <1>4, HolderAlone
  <2>2. Apart(b)'
    BY <1>2, <2>1 DEF Apart, Holding, Upserting
  <2>3. doc' # NoLease
    BY <1>4, NoLeaseAssumption
  <2>4. Founded(b)'
    BY <1>2, <2>3 DEF Founded, Sane, Decided, Spent, Expired, Regresses
  <2> QED
    BY <1>1, <2>2, <2>4
<1> QED
    BY <1>3, <1>4 DEF DocStep

(***************************************************************************)
(* What was answered stands.                                               *)
(***************************************************************************)
\* A write does not take a live lease away.
Follows ==
    doc # NoLease /\ ~Expired(doc) => doc'.intent = doc.intent /\ doc'.expires >= doc.expires

LEMMA Standing ==
    ASSUME IInv, clock' = clock, doc' = doc \/ (doc' \in Lease /\ (raced' \/ failed' \/ Follows)),
           raced => raced', failed => failed',
           \A b \in Call : reply'[b] \in {reply[b], NoLease, doc'}
    PROVE  AllStand'
<1> SUFFICES ASSUME ~raced', ~failed', NEW b \in Call, reply'[b] # NoLease, ~Expired(reply[b])'
             PROVE  doc' # NoLease /\ doc'.intent = reply'[b].intent
                    /\ doc'.expires >= reply'[b].expires
    BY DEF AllStand, Stands, Expired
<1> USE DEF IInv, Typed
<1>1. ~raced /\ ~failed /\ Stands(b)
    BY DEF AllStand
<1>2. doc' \in Lease \cup {NoLease} /\ (reply'[b] = reply[b] \/ reply'[b] = doc')
    OBVIOUS
<1>3. \A l \in Lease : l # NoLease /\ l.expires \in Nat
    BY NoLeaseAssumption, TimeAssumption DEF Lease
<1>4. CASE reply'[b] = doc'
    BY <1>2, <1>3, <1>4
<1>5. CASE reply'[b] = reply[b]
  <2>1. reply[b] \in Lease /\ ~Expired(reply[b]) /\ clock \in Nat
    BY <1>5, TimeAssumption DEF Expired
  <2>2. doc \in Lease /\ doc.intent = reply[b].intent /\ doc.expires >= reply[b].expires
    BY <1>1, <2>1, <1>3 DEF Stands
  <2>3. ~Expired(doc)
    BY <1>3, <2>1, <2>2 DEF Expired
  <2>4. doc' = doc \/ (doc' \in Lease /\ doc'.intent = doc.intent /\ doc'.expires >= doc.expires)
    BY <1>3, <2>2, <2>3 DEF Follows
  <2> QED
    BY <1>3, <1>5, <2>1, <2>2, <2>4
<1> QED
    BY <1>2, <1>4, <1>5

(***************************************************************************)
(* How a call goes on with a lease.                                        *)
(***************************************************************************)
\* It answers, reads again to refresh, or enters upsert with a decision.
Outcome(c, d) ==
    \/ Answer(c, d) \/ Answer(c, NoLease)
    \/ /\ Goto(c, "read")
       /\ phase' = [phase EXCEPT ![c] = "refresh"]
       /\ UNCHANGED <<queue, reply, cand>>
    \/ \E l \in Lease, k \in {"read", "refresh", "save", "report", "refreshed"} :
         /\ Sane(l) /\ Decided(l, d) /\ (d = NoLease => k = "save")
         /\ Upsert(c, l, k)

LEMMA FoundKinds ==
    ASSUME IInv, NEW c \in Call, req[c] \in Request, NEW d,
           d = NoLease \/ Sane(d), Found(c, d)
    PROVE  Outcome(c, d)
<1> USE DEF IInv
<1>1. d # NoLease => d \in Lease /\ d.expires \in Nat /\ d.runtime \in Runtime \cup {NoRuntime}
                     /\ d.intent \in Intent /\ d.created \in Call
                     /\ d.expires <= clock + Ttl
  BY TimeAssumption DEF Sane, Lease
<1>2. /\ clock \in 0..MaxClock /\ clock \in Nat /\ Ttl \in Nat \ {0} /\ MaxClock \in Nat
      /\ clock + Ttl \in 0..(MaxClock + Ttl) /\ ~(clock + Ttl <= clock)
    BY TimeAssumption DEF Typed
<1>3. ASSUME phase[c] = "refresh", Refresh(c, d)
      PROVE  Outcome(c, d)
  <2>1. CASE d # NoLease /\ d.status = "waking"
    <3> DEFINE l == [d EXCEPT !.expires = clock + Ttl]
    <3>1. l \in Lease /\ l.status = "waking" /\ l.runtime = d.runtime /\ l.intent = d.intent
          /\ l.expires = clock + Ttl
        BY <1>1, <1>2, <2>1 DEF Lease
    <3>2. Sane(l) /\ Decided(l, d)
        BY <1>1, <1>2, <2>1, <3>1 DEF Sane, Decided
    <3>3. Upsert(c, l, "refreshed")
        BY <1>3, <2>1 DEF Refresh
    <3> HIDE DEF l
    <3> QED
        BY <2>1, <3>1, <3>2, <3>3 DEF Outcome
  <2>2. CASE ~(d # NoLease /\ d.status = "waking")
    BY <1>3, <2>2 DEF Refresh, Outcome
  <2> QED
    BY <2>1, <2>2
<1>4. ASSUME req[c].kind = "wake", Wake(c, d)
      PROVE  Outcome(c, d)
  <2> DEFINE q == req[c]
             active == d # NoLease /\ d.status \in {"waking", "chat_ready"}
  <2>1. CASE ~active /\ q.intent # Unstated /\ Upsert(c, Waking(c, q.intent), "save")
    <3>1. q.intent \in Intent
        BY <1>4, <2>1 DEF Request
    <3> DEFINE l == Waking(c, q.intent)
    <3>2. l \in Lease /\ l.status = "waking" /\ l.runtime = NoRuntime /\ l.expires = clock + Ttl
        BY <1>2, <3>1 DEF Lease, Waking, Status
    <3>3. d = NoLease \/ Spent(d)
        BY <2>1 DEF Sane, Spent, Lease, Status
    <3>4. Sane(l) /\ Decided(l, d)
        BY <1>2, <3>2, <3>3 DEF Sane, Decided
    <3> HIDE DEF l
    <3> QED
        BY <2>1, <3>2, <3>4 DEF Outcome, l
  <2>2. CASE Answer(c, d) \/ Refuse(c)
    BY <2>2 DEF Refuse, Outcome
  <2>3. CASE /\ phase' = [phase EXCEPT ![c] = "refresh"]
             /\ Goto(c, "read")
             /\ UNCHANGED <<queue, reply, cand>>
    BY <2>3 DEF Outcome
  <2> QED
    BY <1>4, <2>1, <2>2, <2>3 DEF Wake
<1>5. ASSUME req[c].kind = "report", Report(c, d)
      PROVE  Outcome(c, d)
  <2> DEFINE q == req[c]
  <2>1. CASE d # NoLease /\ d.status = "waking"
    <3>1. q.status \in {"chat_ready", "failed"} /\ q.runtime \in Runtime
        BY <1>5 DEF Request
    <3> DEFINE r == IF q.status = "failed" THEN NoRuntime ELSE q.runtime
               l == [d EXCEPT !.status = q.status, !.runtime = r, !.expires = clock + Ttl]
    <3>2. r \in Runtime \cup {NoRuntime} /\ (q.status = "chat_ready" <=> r # NoRuntime)
        BY <3>1, ValueAssumption
    <3> HIDE DEF r
    <3>3. l \in Lease /\ l.status = q.status /\ l.runtime = r /\ l.intent = d.intent
          /\ l.expires = clock + Ttl
        BY <1>1, <1>2, <2>1, <3>1, <3>2 DEF Lease, Status
    <3>4. Sane(l) /\ Decided(l, d)
        BY <1>1, <1>2, <2>1, <3>1, <3>2, <3>3 DEF Sane, Decided
    <3>5. Upsert(c, l, "report")
        BY <1>5, <2>1 DEF Report, r
    <3> HIDE DEF l
    <3> QED
        BY <2>1, <3>3, <3>4, <3>5 DEF Outcome
  <2>2. CASE ~(d # NoLease /\ d.status = "waking")
    BY <1>5, <2>2 DEF Report, Refuse, Outcome
  <2> QED
    BY <2>1, <2>2
<1>6. CASE Answer(c, d)
    BY <1>6 DEF Outcome
<1> QED
    BY <1>3, <1>4, <1>5, <1>6 DEF Found

\* What the store and the history may do while c goes on, at most one write.
Serves(c) ==
    /\ pc[c] \in {"queued"} \cup Holding /\ Turn(c)
    /\ DocStep(c) /\ UNCHANGED <<clock, req>>
    /\ doc' \in Lease \cup {NoLease} /\ (doc # NoLease => doc' # NoLease)
    /\ seen' \in [Call -> Lease \cup {NoLease}] /\ (doc' = NoLease => seen'[c] = NoLease)
    /\ late' \in [Call -> BOOLEAN] /\ writer' \in Replica
    /\ raced' \in BOOLEAN /\ failed' \in BOOLEAN /\ faults' \in 0..MaxFaults
    /\ \A b \in Call \ {c} : seen'[b] = seen[b] /\ late'[b] = late[b]
    /\ raced => raced'
    /\ failed => failed'
    /\ doc' = doc \/ (Sane(doc') /\ (doc'.status = "failed" => failed')
                          /\ (raced' \/ failed' \/ Follows))

LEMMA Serving ==
    ASSUME IInv, NEW c \in Call, Serves(c)
    PROVE  /\ req[c] \in Request /\ pc[c] \notin {"idle", "done"} /\ DocOK'
           /\ queue \in [Replica -> Seq(Call)] /\ req[c].replica \in Replica
           /\ Tail(queue[req[c].replica]) \in Seq(Call)
<1> USE DEF IInv, Serves
<1>1. pc[c] \notin {"idle", "done"}
    BY DEF Holding, Upserting
<1>2. DocOK'
    BY DEF DocOK, Sane, Expired
<1>3. req[c] \in Request /\ req[c].replica \in Replica
      /\ Tail(queue[req[c].replica]) \in Seq(Call)
    BY <1>1, Replicas, TailWaits
<1> QED
    BY <1>1, <1>2, <1>3 DEF Typed

LEMMA ServeKeeps ==
    ASSUME IInv, NEW c \in Call, Serves(c), Alone(c), ChainStep(c), CallOK(c)',
           queue' \in [Replica -> Seq(Call)], pc' \in [Call -> Places],
           phase' \in [Call -> {"read", "refresh", "refreshed", "save", "report"}],
           cand' \in [Call -> Lease \cup {NoLease}],
           reply' \in [Call -> Lease \cup {NoLease}],
           \A b \in Call : reply'[b] \in {reply[b], NoLease, doc'}
    PROVE  IInv'
<1> USE DEF Serves
<1>1. Typed'
    BY DEF IInv, Typed
<1>2. DocOK' /\ pc[c] # "done"
    BY Serving
<1>3. doc' = doc \/ doc' \in Lease
    BY DEF Sane
<1>4. AllStand'
    BY <1>3, Standing
<1>5. \A b \in Call : CallOK(b)'
    BY <1>2, OthersKeep
<1> QED
    BY <1>1, <1>2, <1>4, <1>5 DEF IInv

LEMMA AnswerKeeps ==
    ASSUME IInv, NEW c \in Call, Serves(c), NEW l \in Lease \cup {NoLease},
           l \in {NoLease, doc'}, Answer(c, l)
    PROVE  IInv'
<1> USE DEF IInv
<1>1. /\ reply' = [reply EXCEPT ![c] = l] /\ pc' = [pc EXCEPT ![c] = "done"]
      /\ queue' = [queue EXCEPT ![req[c].replica] = Tail(@)]
      /\ UNCHANGED <<phase, cand>>
    BY DEF Answer, Goto, Leave
<1>2. ChainStep(c)
    BY Serving DEF ChainStep, Answer, Serves
<1>3. Alone(c)
    BY <1>1 DEF Alone, Serves, Typed
<1>4. pc'[c] = "done" /\ req'[c] = req[c] /\ req[c] \in Request
    BY <1>1, Serving DEF Serves, Typed
<1>5. CallOK(c)'
    BY <1>4 DEF CallOK, Queued, Apart, Founded, Holding, Upserting, Serves
<1>6. queue' \in [Replica -> Seq(Call)]
    BY <1>1, Serving
<1>7. pc' \in [Call -> Places] /\ reply' \in [Call -> Lease \cup {NoLease}]
      /\ \A b \in Call : reply'[b] \in {reply[b], NoLease, doc'}
    BY <1>1 DEF Typed, Places
<1> QED
    BY <1>1, <1>2, <1>3, <1>5, <1>6, <1>7, ServeKeeps DEF Typed

\* A call whose next place is p keeps its place in the chain.
LEMMA StaysQueued ==
    ASSUME IInv, NEW c \in Call, Serves(c), queue' = queue, NEW p, pc'[c] = p,
           p \in Holding
    PROVE  Queued(c)'
<1>1. /\ req[c] \in Request /\ pc[c] \notin {"idle", "done"} /\ req' = req
      /\ Waits(c, queue[req[c].replica]) /\ Head(queue[req[c].replica]) = c
    BY Serving, Replicas DEF Serves, Turn
<1> QED
    BY <1>1 DEF Queued

LEMMA OutcomeKeeps ==
    ASSUME IInv, NEW c \in Call, Serves(c), NEW d \in Lease \cup {NoLease},
           doc' = d, seen'[c] = d, Outcome(c, d)
    PROVE  IInv'
<1> USE DEF IInv
<1>1. CASE Answer(c, d) \/ Answer(c, NoLease)
    BY <1>1, AnswerKeeps
<1>2. CASE /\ Goto(c, "read")
           /\ phase' = [phase EXCEPT ![c] = "refresh"]
           /\ UNCHANGED <<queue, reply, cand>>
  <2>1. pc' = [pc EXCEPT ![c] = "read"] /\ pc'[c] = "read"
    BY <1>2 DEF Goto, Typed
  <2>2. ChainStep(c) /\ Alone(c)
    BY <1>2, <2>1 DEF ChainStep, Alone, Serves, Typed
  <2>3. Queued(c)'
    BY <1>2, <2>1, StaysQueued DEF Holding
  <2>4. CallOK(c)'
    BY <2>1, <2>3 DEF CallOK, Apart, Founded, Holding, Upserting, Serves
  <2>5. pc' \in [Call -> Places]
        /\ phase' \in [Call -> {"read", "refresh", "refreshed", "save", "report"}]
    BY <1>2, <2>1 DEF Typed, Places
  <2> QED
    BY <1>2, <2>2, <2>4, <2>5, ServeKeeps DEF Typed
<1>3. ASSUME NEW l \in Lease, NEW k \in {"read", "refresh", "save", "report", "refreshed"},
             Sane(l), Decided(l, d), d = NoLease => k = "save", Upsert(c, l, k)
      PROVE  IInv'
  <2>1. /\ pc' = [pc EXCEPT ![c] = "get"] /\ pc'[c] = "get"
        /\ cand' = [cand EXCEPT ![c] = l] /\ cand'[c] = l
        /\ phase' = [phase EXCEPT ![c] = k] /\ phase'[c] = k
        /\ UNCHANGED <<queue, reply>>
    BY <1>3 DEF Upsert, Goto, Typed
  <2>2. ChainStep(c) /\ Alone(c)
    BY <2>1 DEF ChainStep, Alone, Serves, Typed
  <2>3. Queued(c)'
    BY <2>1, StaysQueued DEF Holding, Upserting
  <2>4. Apart(c)'
    BY <2>1 DEF Apart
  <2>5. Sane(cand[c])' /\ Decided(cand[c], seen[c])'
    BY <1>3, <2>1 DEF Sane, Decided, Spent, Expired, Serves
  <2>6. Founded(c)'
    BY <1>3, <2>1, <2>5 DEF Founded, Upserting, Serves
  <2>7. /\ pc' \in [Call -> Places] /\ cand' \in [Call -> Lease \cup {NoLease}]
        /\ phase' \in [Call -> {"read", "refresh", "refreshed", "save", "report"}]
    BY <2>1 DEF Typed, Places
  <2> QED
    BY <2>1, <2>2, <2>3, <2>4, <2>6, <2>7, ServeKeeps DEF Typed, CallOK
<1> QED
    BY <1>1, <1>2, <1>3 DEF Outcome

(***************************************************************************)
(* The steps keep the invariant.                                           *)
(***************************************************************************)
LEMMA InitIInv == Init => IInv
<1> SUFFICES ASSUME Init PROVE IInv
    OBVIOUS
<1> USE DEF Init
<1>1. writer \in Replica
    BY ReplicaAssumption
<1>2. Typed
  <2>1. clock \in 0..MaxClock /\ faults \in 0..MaxFaults
    BY TimeAssumption
  <2>2. queue \in [Replica -> Seq(Call)]
    BY EmptySeq
  <2>3. /\ pc \in [Call -> Places] /\ req \in [Call -> Request \cup {NoLease}]
        /\ phase \in [Call -> {"read", "refresh", "refreshed", "save", "report"}]
    BY DEF Places
  <2>4. /\ seen \in [Call -> Lease \cup {NoLease}] /\ cand \in [Call -> Lease \cup {NoLease}]
        /\ reply \in [Call -> Lease \cup {NoLease}] /\ late \in [Call -> BOOLEAN]
    OBVIOUS
  <2> QED
    BY <1>1, <2>1, <2>2, <2>3, <2>4 DEF Typed
<1>3. DocOK /\ AllStand
    BY DEF DocOK, AllStand, Stands
<1>4. \A c \in Call : CallOK(c)
    BY DEF CallOK, Queued, Apart, Founded, Holding, Upserting
<1> QED
    BY <1>2, <1>3, <1>4 DEF IInv

LEMMA ArriveKeeps ==
    ASSUME IInv, NEW c \in Call, Arrive(c)
    PROVE  IInv'
<1> USE DEF IInv
<1>1. PICK q \in Request : /\ req' = [req EXCEPT ![c] = q]
                           /\ queue' = [queue EXCEPT ![q.replica] = Append(@, c)]
    BY DEF Arrive
<1>2. q.replica \in Replica /\ queue[q.replica] \in Seq(Call)
    BY DEF Request, Typed
<1>3. Append(queue[q.replica], c) \in Seq(Call) /\ Waits(c, Append(queue[q.replica], c))
    BY <1>2, AppendWaits
<1>4. /\ pc' = [pc EXCEPT ![c] = "queued"] /\ pc[c] = "idle" /\ pc'[c] = "queued"
      /\ req'[c] = q /\ queue'[q.replica] = Append(queue[q.replica], c)
      /\ UNCHANGED <<doc, clock, phase, seen, cand, reply, writer, late, raced, failed, faults>>
    BY <1>1, <1>2 DEF Arrive, Goto, Typed
<1>5. Alone(c) /\ ChainStep(c) /\ DocStep(c)
    BY <1>1, <1>2, <1>4 DEF Alone, ChainStep, DocStep, Typed
<1>6. CallOK(c)'
    BY <1>3, <1>4 DEF CallOK, Queued, Apart, Founded, Holding, Upserting
<1>7. Typed'
  <2>1. queue' \in [Replica -> Seq(Call)] /\ req' \in [Call -> Request \cup {NoLease}]
    BY <1>1, <1>2, <1>3 DEF Typed
  <2>2. pc' \in [Call -> Places]
    BY <1>4 DEF Typed, Places
  <2> QED
    BY <1>4, <2>1, <2>2 DEF Typed
<1>8. DocOK' /\ AllStand'
    BY <1>4 DEF DocOK, AllStand, Stands, Sane, Expired
<1> QED
    BY <1>4, <1>5, <1>6, <1>7, <1>8, OthersKeep

\* A step that only reads: seen' is the document or what it was.
LEMMA ReadServes ==
    ASSUME IInv, NEW c \in Call, pc[c] \in {"queued"} \cup Holding, Turn(c),
           UNCHANGED <<doc, clock, req, writer, raced, failed>>,
           faults' \in 0..MaxFaults,
           seen' = seen \/ seen' = [seen EXCEPT ![c] = doc],
           late' = late \/ \E t \in BOOLEAN : late' = [late EXCEPT ![c] = t]
    PROVE  Serves(c)
<1> USE DEF IInv, Typed
<1>1. seen' \in [Call -> Lease \cup {NoLease}] /\ late' \in [Call -> BOOLEAN]
      /\ \A b \in Call \ {c} : seen'[b] = seen[b] /\ late'[b] = late[b]
    OBVIOUS
<1>2. doc' = NoLease => seen'[c] = NoLease
    BY DEF CallOK, Founded
<1> QED
    BY <1>1, <1>2 DEF Serves, DocStep

LEMMA HolderTurns ==
    ASSUME IInv, NEW c \in Call, pc[c] \in Holding
    PROVE  Turn(c) /\ pc[c] \in {"queued"} \cup Holding
  BY DEF IInv, CallOK, Queued, Turn

LEMMA ReadKeeps ==
    ASSUME IInv, NEW c \in Call, Read(c)
    PROVE  IInv'
<1> USE DEF IInv
<1>1. PICK d \in Lease \cup {NoLease} : d = doc
    BY DEF Typed
<1>2. /\ pc[c] \in {"queued", "read"} /\ Turn(c) /\ seen' = [seen EXCEPT ![c] = doc]
      /\ UNCHANGED <<doc, clock, req, writer, late, raced, failed, faults>>
    BY DEF Read
<1>3. pc[c] \in {"queued"} \cup Holding /\ seen'[c] = d /\ faults \in 0..MaxFaults
    BY <1>1, <1>2 DEF Holding, Typed
<1>4. Serves(c)
    BY <1>2, <1>3, ReadServes
<1>5. req[c] \in Request /\ (d = NoLease \/ Sane(d))
    BY <1>1, <1>4, Serving DEF DocOK
<1>6. CASE d # NoLease /\ Expired(d) /\ (d.status # "expired" \/ d.runtime # NoRuntime)
  <2> DEFINE l == [d EXCEPT !.status = "expired", !.runtime = NoRuntime]
  <2>1. /\ cand' = [cand EXCEPT ![c] = l] /\ Goto(c, "get") /\ UNCHANGED <<queue, reply, phase>>
    BY <1>1, <1>6 DEF Read
  <2>2. d \in Lease /\ l \in Lease /\ l.status = "expired" /\ l.runtime = NoRuntime
        /\ l.intent = d.intent /\ l.expires = d.expires /\ d.expires \in Nat
    <3>1. d \in Lease
        BY <1>6
    <3>2. l \in Lease /\ l.status = "expired" /\ l.runtime = NoRuntime
          /\ l.intent = d.intent /\ l.expires = d.expires
        BY <3>1 DEF Lease, Status
    <3>3. d.expires \in Nat
        BY <3>1, TimeAssumption DEF Lease
    <3> QED
        BY <3>1, <3>2, <3>3
  <2>3. Sane(l) /\ Decided(l, d)
    BY <1>5, <1>6, <2>2 DEF Sane, Decided, Expired
  <2> HIDE DEF l
  <2>4. phase' = [phase EXCEPT ![c] = phase[c]]
        /\ phase[c] \in {"read", "refresh", "save", "report", "refreshed"}
    BY <2>1 DEF Typed
  <2>5. PICK k \in {"read", "refresh", "save", "report", "refreshed"} : k = phase[c]
    BY <2>4
  <2>6. Upsert(c, l, k)
    BY <2>1, <2>4, <2>5 DEF Upsert
  <2>7. Outcome(c, d)
    BY <1>6, <2>2, <2>3, <2>6 DEF Outcome
  <2> QED
    BY <1>1, <1>2, <1>3, <1>4, <2>7, OutcomeKeeps
<1>7. CASE ~(d # NoLease /\ Expired(d) /\ (d.status # "expired" \/ d.runtime # NoRuntime))
  <2>1. Found(c, d)
    BY <1>1, <1>7 DEF Read
  <2> QED
    BY <1>1, <1>2, <1>3, <1>4, <1>5, <2>1, FoundKinds, OutcomeKeeps
<1> QED
    BY <1>6, <1>7

LEMMA ConflictKinds ==
    ASSUME NEW c \in Call, NEW d, Conflict(c, d)
    PROVE  Answer(c, d) \/ Answer(c, NoLease)
  BY DEF Conflict, Refuse

\* A call moves to another request of upsert, with what it decided on.
LEMMA MovesKeep ==
    ASSUME IInv, NEW c \in Call, Serves(c), NEW p \in Upserting, Goto(c, p),
           UNCHANGED <<queue, reply, phase, cand>>,
           Apart(c)', Founded(c)'
    PROVE  IInv'
<1> USE DEF IInv
<1>1. pc' = [pc EXCEPT ![c] = p] /\ pc'[c] = p
    BY DEF Goto, Typed
<1>2. ChainStep(c) /\ Alone(c)
    BY <1>1 DEF ChainStep, Alone, Serves, Typed
<1>3. Queued(c)'
    BY <1>1, StaysQueued DEF Holding
<1>4. pc' \in [Call -> Places]
    BY <1>1 DEF Typed, Places, Upserting
<1> QED
    BY <1>2, <1>3, <1>4, ServeKeeps DEF Typed, CallOK

LEMMA UpsertGetKeeps ==
    ASSUME IInv, NEW c \in Call, UpsertGet(c)
    PROVE  IInv'
<1> USE DEF IInv
<1>1. PICK d \in Lease \cup {NoLease} : d = doc
    BY DEF Typed
<1>2. PICK t \in BOOLEAN : t = (doc # seen[c] /\ writer # req[c].replica)
    OBVIOUS
<1>3. /\ pc[c] = "get" /\ seen' = [seen EXCEPT ![c] = doc] /\ late' = [late EXCEPT ![c] = t]
      /\ UNCHANGED <<doc, clock, req, writer, raced, failed, faults>>
    BY <1>2 DEF UpsertGet
<1>4. Turn(c) /\ pc[c] \in {"queued"} \cup Holding /\ faults \in 0..MaxFaults
      /\ seen'[c] = doc /\ late'[c] = t
    BY <1>3, HolderTurns DEF Holding, Upserting, Typed
<1>5. Serves(c)
    BY <1>3, <1>4, ReadServes
<1>6. Apart(c) /\ Founded(c)
    BY DEF CallOK
<1>7. CASE d # NoLease /\ Regresses(d, cand[c])
  <2>1. Conflict(c, d)
    BY <1>1, <1>7 DEF UpsertGet
  <2> QED
    BY <1>1, <1>3, <1>5, <2>1, ConflictKinds, AnswerKeeps
<1>8. CASE ~(d # NoLease /\ Regresses(d, cand[c]))
  <2>1. PICK p \in {"create", "update"} : p = IF doc = NoLease THEN "create" ELSE "update"
    OBVIOUS
  <2>2. Goto(c, p) /\ UNCHANGED <<queue, reply, phase, cand>>
    BY <1>1, <1>8, <2>1 DEF UpsertGet
  <2>3. pc'[c] = p /\ p \in Upserting
    BY <2>1, <2>2 DEF Goto, Typed, Upserting
  <2>4. Apart(c)'
    BY <1>2, <1>3, <1>4, <2>3 DEF Apart
  <2>5. Sane(cand[c])
    BY <1>3, <1>6 DEF Founded, Upserting
  <2>6. Sane(cand[c])'
    BY <1>3, <2>2, <2>5 DEF Sane, Expired
  <2>7. p = "create" => seen[c] = NoLease /\ cand[c].status = "waking" /\ phase[c] = "save"
    BY <1>3, <1>6, <2>1 DEF Founded, Decided
  <2>8. ~t => doc = seen[c]
    BY <1>2, <1>3, <1>6 DEF Apart
  <2>9. p = "update" => /\ doc # NoLease /\ ~Regresses(doc, cand[c])
                        /\ ~t => Decided(cand[c], doc)
    BY <1>1, <1>3, <1>6, <1>8, <2>1, <2>8 DEF Founded
  <2>10. p = "update" => /\ seen'[c] # NoLease /\ ~Regresses(seen[c], cand[c])'
                         /\ ~late'[c] => Decided(cand[c], seen[c])'
    BY <1>3, <1>4, <2>2, <2>9 DEF Regresses, Decided, Spent, Expired
  <2>11. Founded(c)'
    BY <1>3, <1>4, <2>1, <2>2, <2>3, <2>6, <2>7, <2>9, <2>10 DEF Founded
  <2> QED
    BY <1>5, <2>2, <2>3, <2>4, <2>11, MovesKeep
<1> QED
    BY <1>7, <1>8

\* Rewriting the lease that lost, the creator decides on what it finds.
LEMMA RegetKeeps ==
    ASSUME IInv, NEW c \in Call, Reget(c)
    PROVE  IInv'
<1> USE DEF IInv
<1>1. PICK d \in Lease \cup {NoLease} : d = doc
    BY DEF Typed
<1>3. /\ pc[c] = "reget" /\ seen' = [seen EXCEPT ![c] = doc]
      /\ UNCHANGED <<doc, clock, req, writer, late, raced, failed, faults>>
    BY DEF Reget
<1>4. Turn(c) /\ pc[c] \in {"queued"} \cup Holding /\ faults \in 0..MaxFaults
      /\ seen'[c] = doc
    BY <1>3, HolderTurns DEF Holding, Upserting, Typed
<1>5. Serves(c)
    BY <1>3, <1>4, ReadServes
<1>6. Apart(c) /\ Founded(c)
    BY DEF CallOK
<1>7. CASE Yields(d)
  <2>1. Conflict(c, d)
    BY <1>1, <1>7 DEF Reget
  <2> QED
    BY <1>1, <1>3, <1>5, <2>1, ConflictKinds, AnswerKeeps
<1>8. CASE ~Yields(d)
  <2>1. Goto(c, "update") /\ UNCHANGED <<queue, reply, phase, cand>>
    BY <1>1, <1>8 DEF Reget
  <2>2. pc'[c] = "update" /\ "update" \in Upserting
    BY <2>1 DEF Goto, Typed, Upserting
  <2>3. Apart(c)'
    BY <1>3, <1>4, <1>6, <2>2 DEF Apart
  <2>4. Sane(cand[c]) /\ cand[c].status = "waking" /\ doc # NoLease
    BY <1>3, <1>6 DEF Founded, Upserting
  <2>5. doc.status \in {"expired", "failed"} /\ Sane(doc)
    BY <1>1, <1>8, <2>4 DEF Yields, DocOK
  <2>6. Spent(doc) /\ ~Regresses(doc, cand[c])
    BY <2>5 DEF Sane, Spent, Regresses
  <2>7. Decided(cand[c], doc)
    BY <2>4, <2>6 DEF Decided
  <2>8. Sane(cand[c])' /\ ~Regresses(seen[c], cand[c])' /\ Decided(cand[c], seen[c])'
    BY <1>3, <1>4, <2>1, <2>4, <2>6, <2>7 DEF Sane, Expired, Regresses, Decided, Spent
  <2>9. Founded(c)'
    BY <1>3, <1>4, <2>2, <2>4, <2>8 DEF Founded
  <2> QED
    BY <1>5, <2>1, <2>2, <2>3, <2>9, MovesKeep
<1> QED
    BY <1>7, <1>8

(***************************************************************************)
(* The writes.                                                             *)
(***************************************************************************)
\* The update is sane, and unless the call came late it takes no live lease away.
LEMMA UpdateFollows ==
    ASSUME IInv, NEW c \in Call, pc[c] = "update"
    PROVE  /\ Sane(Persisted(c)) /\ Persisted(c) \in Lease /\ doc # NoLease
           /\ Persisted(c).status = cand[c].status /\ Persisted(c).intent = cand[c].intent
           /\ Persisted(c).expires = cand[c].expires /\ Persisted(c).runtime = cand[c].runtime
           /\ (~late[c] /\ doc = seen[c] /\ ~failed /\ ~Expired(doc)) =>
                   /\ Persisted(c).intent = doc.intent
                   /\ Persisted(c).expires >= doc.expires
<1> USE DEF IInv
<1>1. Founded(c) /\ Sane(cand[c]) /\ seen[c] \in Lease /\ doc # NoLease
    BY DEF CallOK, Founded, Upserting, Typed
<1>2. cand[c] \in Lease /\ seen[c].created \in Call
    BY <1>1 DEF Sane, Lease
<1>3. /\ Persisted(c) \in Lease /\ Persisted(c).status = cand[c].status
      /\ Persisted(c).intent = cand[c].intent
      /\ Persisted(c).expires = cand[c].expires /\ Persisted(c).runtime = cand[c].runtime
    BY <1>2 DEF Persisted, Lease
<1>4. Sane(Persisted(c))
    BY <1>1, <1>3 DEF Sane, Expired
<1>5. ASSUME ~late[c], doc = seen[c], ~failed, ~Expired(doc)
      PROVE  cand[c].intent = doc.intent /\ cand[c].expires >= doc.expires
  <2>1. Decided(cand[c], doc)
    BY <1>1, <1>5 DEF Founded
  <2>2. doc.status # "failed"
    BY <1>1, <1>5 DEF DocOK
  <2> QED
    BY <1>1, <1>5, <2>1, <2>2 DEF Decided, Spent
<1> QED
    BY <1>1, <1>3, <1>4, <1>5

\* A write of c serves it: Written, with faults that stay in bounds.
LEMMA WriteServes ==
    ASSUME IInv, NEW c \in Call, NEW l, Written(c, l), faults' \in 0..MaxFaults,
           UNCHANGED <<clock, req>>,
           \/ pc[c] = "update" /\ l = Persisted(c)
           \/ pc[c] = "create" /\ doc = NoLease /\ l = cand[c],
           seen' = seen \/ seen' = [seen EXCEPT ![c] = l]
    PROVE  Serves(c)
<1> USE DEF IInv
<1>1. /\ doc' = l /\ writer' = req[c].replica /\ late' = late
      /\ failed' = (failed \/ l.status = "failed")
      /\ raced' = \/ raced
                  \/ /\ pc[c] = "update"
                     /\ late[c] \/ (doc # seen[c] /\ writer # req[c].replica)
    BY DEF Written
<1>2. pc[c] \in Holding /\ Turn(c) /\ req[c].replica \in Replica
    BY HolderTurns, Replicas DEF Holding, Upserting
<1>3. Founded(c) /\ Apart(c)
    BY DEF CallOK
<1>4. Sane(l)
    BY <1>3, UpdateFollows DEF Founded, Upserting
<1>5. l \in Lease /\ l # NoLease
    BY <1>4, NoLeaseAssumption DEF Sane
<1>6. raced' \/ failed' \/ Follows
  <2>1. CASE pc[c] = "create"
    BY <2>1 DEF Follows
  <2>2. CASE pc[c] = "update"
    <3>1. SUFFICES ASSUME ~raced', ~failed' PROVE Follows
        OBVIOUS
    <3>2. ~late[c] /\ doc = seen[c] /\ ~failed
        BY <1>1, <1>3, <2>2, <3>1 DEF Apart, Typed
    <3> QED
        BY <1>1, <2>2, <3>2, UpdateFollows DEF Follows
  <2> QED
    BY <2>1, <2>2
<1>7. seen' \in [Call -> Lease \cup {NoLease}] /\ \A b \in Call \ {c} : seen'[b] = seen[b]
    BY <1>5 DEF Typed
<1>8. raced' \in BOOLEAN /\ failed' \in BOOLEAN /\ (raced => raced') /\ (failed => failed')
    BY <1>1
<1>9. DocStep(c)
    BY <1>1, <1>2, <1>5 DEF DocStep
<1> QED
    BY <1>1, <1>2, <1>4, <1>5, <1>6, <1>7, <1>8, <1>9 DEF Serves, Typed

LEMMA UpdateKeeps ==
    ASSUME IInv, NEW c \in Call, Update(c)
    PROVE  IInv'
<1> USE DEF IInv
<1>1. pc[c] = "update"
    BY DEF Update
<1>2. PICK d \in Lease : d = Persisted(c)
    BY <1>1, UpdateFollows
<1>3. /\ Written(c, d) /\ Returned(c, d) /\ seen' = [seen EXCEPT ![c] = d]
      /\ UNCHANGED <<clock, req, faults>> /\ faults \in 0..MaxFaults
    BY <1>2 DEF Update, Typed
<1>4. Serves(c)
    BY <1>1, <1>2, <1>3, WriteServes
<1>5. doc' = d /\ seen'[c] = d /\ Sane(d) /\ req[c] \in Request
    BY <1>1, <1>2, <1>3, <1>4, UpdateFollows, Serving DEF Written, Typed
<1>6. Outcome(c, d)
    BY <1>3, <1>5, FoundKinds DEF Returned, Outcome
<1> QED
    BY <1>4, <1>5, <1>6, OutcomeKeeps

LEMMA CreateKeeps ==
    ASSUME IInv, NEW c \in Call, Create(c)
    PROVE  IInv'
<1> USE DEF IInv
<1>1. pc[c] = "create" /\ UNCHANGED <<clock, req, seen, faults>> /\ faults \in 0..MaxFaults
    BY DEF Create, Typed
<1>2. Founded(c) /\ Apart(c) /\ phase[c] = "save" /\ Sane(cand[c]) /\ cand[c].status = "waking"
    BY <1>1 DEF CallOK, Founded, Upserting
<1>3. PICK d \in Lease : d = cand[c]
    BY <1>2 DEF Sane
<1>4. CASE doc = NoLease /\ Written(c, d) /\ Returned(c, d)
  <2>1. Serves(c)
    BY <1>1, <1>3, <1>4, WriteServes
  <2>2. Answer(c, d) /\ doc' = d
    BY <1>2, <1>4 DEF Returned, Written
  <2> QED
    BY <2>1, <2>2, AnswerKeeps
<1>5. CASE /\ doc # NoLease /\ Goto(c, "reget")
           /\ UNCHANGED <<doc, queue, phase, cand, reply, writer, late, raced, failed>>
  <2>1. Serves(c)
    BY <1>1, <1>5, HolderTurns, ReadServes DEF Holding, Upserting
  <2>2. pc'[c] = "reget" /\ "reget" \in Upserting
    BY <1>5 DEF Goto, Typed, Upserting
  <2>3. Apart(c)'
    BY <1>1, <1>2, <1>5, <2>2 DEF Apart
  <2>4. Founded(c)'
    BY <1>1, <1>2, <1>5, <2>2 DEF Founded, Sane, Expired
  <2> QED
    BY <1>5, <2>1, <2>2, <2>3, <2>4, MovesKeep
<1> QED
    BY <1>1, <1>3, <1>4, <1>5 DEF Create

LEMMA FailsKeeps ==
    ASSUME IInv, NEW c \in Call, Fails(c)
    PROVE  IInv'
<1> USE DEF IInv
<1>1. /\ Answer(c, NoLease) /\ UNCHANGED <<clock, req, seen>>
      /\ \/ pc[c] \in {"queued", "read"} /\ Turn(c)
         \/ pc[c] \in {"get", "create", "update", "reget"}
    BY DEF Fails, Refuse
<1>2. faults' \in 0..MaxFaults
    BY TimeAssumption DEF Fails, Typed
<1>3. Turn(c) /\ pc[c] \in {"queued"} \cup Holding
    BY <1>1, HolderTurns DEF Holding, Upserting
<1>4. CASE UNCHANGED <<doc, writer, late, raced, failed>>
  <2>1. Serves(c)
    BY <1>1, <1>2, <1>3, <1>4, ReadServes
  <2> QED
    BY <1>1, <2>1, AnswerKeeps
<1>5. CASE pc[c] = "update" /\ Written(c, Persisted(c))
  <2>1. PICK d \in Lease : d = Persisted(c)
    BY <1>5, UpdateFollows
  <2>2. Serves(c)
    BY <1>1, <1>2, <1>5, <2>1, WriteServes
  <2> QED
    BY <1>1, <2>2, AnswerKeeps
<1>6. CASE pc[c] = "create" /\ doc = NoLease /\ Written(c, cand[c])
  <2>1. PICK d \in Lease \cup {NoLease} : d = cand[c]
    BY DEF Typed
  <2>2. Serves(c)
    BY <1>1, <1>2, <1>6, <2>1, WriteServes
  <2> QED
    BY <1>1, <2>2, AnswerKeeps
<1> QED
    BY <1>4, <1>5, <1>6 DEF Fails

\* What is past its time stays so, and what was answered dies with the time.
LEMMA TickKeeps ==
    ASSUME IInv, Tick
    PROVE  IInv'
<1> USE DEF IInv
<1>1. /\ clock < MaxClock /\ clock' = clock + 1
      /\ UNCHANGED <<doc, queue, pc, req, phase, seen, cand, reply, writer, late,
                     raced, failed, faults>>
    BY DEF Tick
<1>2. clock \in Nat /\ Ttl \in Nat /\ clock' \in 0..MaxClock /\ clock' \in Nat
    BY <1>1, TimeAssumption DEF Typed
<1>3. \A l \in Lease : l.expires \in Nat
    BY TimeAssumption DEF Lease
<1>4. \A l \in Lease : Sane(l) => Sane(l)'
    BY <1>1, <1>2, <1>3 DEF Sane, Expired
<1>5. Typed'
    BY <1>1, <1>2 DEF Typed
<1>6. DocOK'
    BY <1>1, <1>4 DEF DocOK, Sane
<1>7. \A l \in Lease : Expired(l) => Expired(l)'
    BY <1>1, <1>2, <1>3 DEF Expired
<1>8. AllStand'
    BY <1>1, <1>7 DEF AllStand, Stands, Typed
<1>9. ASSUME NEW c \in Call
      PROVE  CallOK(c)'
  <2>1. Queued(c)' /\ Apart(c)'
    BY <1>1 DEF CallOK, Queued, Apart
  <2>3. seen[c] \in Lease \cup {NoLease} /\ seen'[c] = seen[c] /\ cand'[c] = cand[c]
    BY <1>1 DEF Typed
  <2>4. Sane(cand[c]) => Sane(cand[c])'
    BY <1>1, <1>2, <1>3 DEF Sane, Expired
  <2>5. Decided(cand[c], seen[c]) => Decided(cand[c], seen[c])'
    BY <1>1, <1>2, <1>3, <2>3 DEF Decided, Spent, Expired
  <2>6. Founded(c)'
    BY <1>1, <2>4, <2>5 DEF CallOK, Founded, Regresses
  <2> QED
    BY <2>1, <2>6 DEF CallOK
<1> QED
    BY <1>5, <1>6, <1>8, <1>9

LEMMA NextIInv == IInv /\ [Next]_vars => IInv'
<1> SUFFICES ASSUME IInv, [Next]_vars PROVE IInv'
    OBVIOUS
<1>1. CASE UNCHANGED vars
  <2> USE <1>1 DEF vars, IInv
  <2>1. Typed' /\ DocOK' /\ AllStand'
    BY DEF Typed, DocOK, AllStand, Stands, Sane, Expired
  <2>2. \A c \in Call : CallOK(c)'
    BY DEF CallOK, Queued, Apart, Founded, Sane, Decided, Spent, Expired, Regresses
  <2> QED
    BY <2>1, <2>2
<1>2. ASSUME NEW c \in Call, Arrive(c) \/ Runs(c)
      PROVE  IInv'
    BY <1>2, ArriveKeeps, ReadKeeps, UpsertGetKeeps, UpdateKeeps, CreateKeeps, RegetKeeps,
       FailsKeeps DEF Runs
<1> QED
    BY <1>1, <1>2, TickKeeps DEF Next, Done

LEMMA Invariance == Spec => []IInv
<1> QED
    BY InitIInv, NextIInv, PTL DEF Spec

(***************************************************************************)
(* The theorems.                                                           *)
(***************************************************************************)
\* The document, the chains and the calls keep their types: a call past its
\* read is at the head of its replica's chain (withAgentLock), and a stored
\* lease is ready exactly when it has a runtime.
THEOREM TypeTheorem == Spec => []TypeOK
<1>1. IInv => TypeOK
  <2> SUFFICES ASSUME IInv PROVE TypeOK
    OBVIOUS
  <2>1. Typed
    BY DEF IInv
  <2>2. \A c \in Call : pc[c] \in {"read", "get", "create", "update", "reget"} =>
                        Head(queue[req[c].replica]) = c
    BY DEF IInv, CallOK, Queued, Holding, Upserting
  <2>3. doc # NoLease => (doc.status = "chat_ready" <=> doc.runtime # NoRuntime)
    BY DEF IInv, DocOK, Sane
  <2> QED
    BY <2>1, <2>2, <2>3 DEF Typed, TypeOK, Places
<1> QED
    BY Invariance, <1>1, PTL

\* A wake answered with a live lease can count on it until it expires, a launch
\* fails, or an update replaces a document its call did not decide on: within a
\* replica the lock, and between replicas the exclusive create, see to it.
THEOREM AcceptedTheorem == Spec => []AcceptedStands
<1>1. IInv => AcceptedStands
  <2> SUFFICES ASSUME IInv, ~raced, ~failed, NEW c \in Call,
                      reply[c] # NoLease, reply[c].expires > clock
               PROVE  doc.intent = reply[c].intent
    BY DEF AcceptedStands
  <2>1. reply[c] \in Lease /\ reply[c].expires \in Nat /\ clock \in Nat
    BY TimeAssumption DEF IInv, Typed, Lease
  <2>2. ~Expired(reply[c])
    BY <2>1 DEF Expired
  <2> QED
    BY <2>2 DEF IInv, AllStand, Stands
<1> QED
    BY Invariance, <1>1, PTL

\* Only an update writes over a ready lease that lives: one of another replica,
\* that came late or expires or fails what it had seen.
LEMMA ReadyStep ==
    ASSUME IInv, [Next]_vars, doc # NoLease, doc.status = "chat_ready", ~Expired(doc),
           doc'.runtime # doc.runtime \/ doc'.intent # doc.intent
    PROVE  \E c \in Call :
             /\ pc[c] = "update" /\ pc'[c] # "update" /\ writer # req[c].replica
             /\ \/ doc # seen[c]
                \/ late[c] /\ cand[c].status \in {"expired", "failed"}
<1> USE DEF IInv
<1>1. doc' # doc
    OBVIOUS
<1>2. PICK c \in Call :
          Update(c) \/ (Fails(c) /\ pc[c] = "update" /\ Written(c, Persisted(c)))
  <2>1. PICK c \in Call : Runs(c)
    BY <1>1 DEF Next, vars, Tick, Done, Arrive
  <2>2. ~Read(c) /\ ~UpsertGet(c) /\ ~Reget(c)
    BY <1>1 DEF Read, UpsertGet, Reget
  <2>3. ~Create(c)
    BY <1>1 DEF Create
  <2>4. Fails(c) => pc[c] = "update" /\ Written(c, Persisted(c))
    BY <1>1 DEF Fails
  <2> QED
    BY <2>1, <2>2, <2>3, <2>4 DEF Runs
<1>3. pc[c] = "update" /\ doc' = Persisted(c)
    BY <1>2 DEF Update, Written
<1>4. pc'[c] # "update"
    BY <1>2 DEF Update, Returned, Found, Refresh, Wake, Report, Upsert, Answer, Refuse, Fails,
           Goto, Typed
<1>5. /\ Apart(c) /\ Founded(c)
      /\ Persisted(c).runtime = cand[c].runtime /\ Persisted(c).intent = cand[c].intent
    BY <1>3, UpdateFollows DEF CallOK
<1>6. CASE doc # seen[c]
    BY <1>3, <1>4, <1>5, <1>6 DEF Apart
<1>7. CASE doc = seen[c]
  <2>1. cand[c] \in Lease /\ ~Regresses(doc, cand[c])
    BY <1>3, <1>5, <1>7 DEF Founded, Upserting, Sane
  <2>2. cand[c].status \in {"expired", "failed"}
    BY <1>3, <1>5, <2>1 DEF Regresses, Lease, Status
  <2>3. late[c]
    BY <1>3, <1>5, <1>7, <2>2 DEF Founded, Decided, Spent
  <2> QED
    BY <1>3, <1>4, <1>5, <2>2, <2>3 DEF Apart
<1> QED
    BY <1>6, <1>7

\* No step takes a live ready lease from its runtime, except an update of
\* another replica that upsert's refusals do not cover.
THEOREM ReadyTheorem == Spec => ReadyKept
<1>1. IInv /\ [Next]_vars =>
        [(/\ doc # NoLease /\ doc.status = "chat_ready" /\ ~Expired(doc)
          /\ doc'.runtime # doc.runtime \/ doc'.intent # doc.intent)
         => \E c \in Call :
              /\ pc[c] = "update" /\ pc'[c] # "update" /\ writer # req[c].replica
              /\ \/ doc # seen[c]
                 \/ late[c] /\ cand[c].status \in {"expired", "failed"}]_vars
    BY ReadyStep
<1> QED
    BY Invariance, <1>1, PTL DEF Spec, ReadyKept
=============================================================================
