------------------------- MODULE ArchiveStoreProofs -------------------------
(***************************************************************************)
(* Proofs about ArchiveStore for any number of parts, server processes,    *)
(* requests and failures.                                                  *)
(***************************************************************************)
EXTENDS ArchiveStore, TLAPS

(***************************************************************************)
(* An object is uploaded once, so a generation is 1 or 0, for none, unless *)
(* the object is overtaken: a part that is collected under an upload.  The *)
(* invariant says nothing of what such a part and its uploads come to, and *)
(* a step on such a part touches nothing else.                             *)
(*                                                                         *)
(* A process in OwnerPhase created the claim it works under, one in        *)
(* KnownPhase goes on with a generation it knows to be stored.             *)
(***************************************************************************)
OwnerPhase == {"upload", "uncertain", "release", "persist"}
KnownPhase == {"verify", "complete", "publish", "winner"}
CollectPhase == {"create", "reread", "witness", "mark"} \cup Deleting

Places == {"idle", "start", "find", "read", "create", "reread", "assemble",
           "await", "witness", "mark", "outcome"}
          \cup Deleting \cup OwnerPhase \cup KnownPhase

\* The collection of the temporary parts was claimed.
Collecting(x) == x \in Part /\ collect # "none"

\* What the commit has assembled stays until it is collected.
PartsThere == collect # "none" \/ \A p \in Part : Published(p)

\* What a client may be told of x.
Kept(x) == (doc[x] = 1 /\ Published(x)) \/ (x \in Part /\ Committed)

\* Nothing is left of part p.
Gone(p) == stored[p] = {} /\ doc[p] = 0 /\ claim[p] = NoClaim
AllGone == \A p \in Part \ straddled : Gone(p)

(***************************************************************************)
(* The inductive invariant.                                                *)
(***************************************************************************)
DocumentsTyped ==
    /\ claim \in [Object -> [status : {"none", "pending", "uncertain"} \cup Known, gen : Gen]]
    /\ doc \in [Object -> Gen] /\ made \in [Object -> Gen]
    /\ stored \in [Object -> SUBSET Gen]
    /\ collect \in {"none", "pending", "completed"} /\ plan \in [Part -> Gen]
    /\ straddled \subseteq Part

ProcessesTyped ==
    /\ op \in [Process -> Op \cup {NoOp}] /\ pc \in [Process -> Places]
    /\ held \in [Process -> Gen]

BoundsTyped ==
    /\ requests \in 0..MaxRequests /\ faults \in 0..MaxFaults

Typed == DocumentsTyped /\ ProcessesTyped /\ BoundsTyped

Claims == {NoClaim, Claim("pending", 0), Claim("uncertain", 0), Claim("uploaded", 1),
           Claim("completed", 1)}

\* There was at most one generation of x.
Once(x) ==
    /\ claim[x] \in Claims /\ doc[x] \in {0, 1} /\ made[x] \in {0, 1}
    /\ stored[x] \in SUBSET {1}

\* The documents of an object agree: an object is uploaded under a claim that
\* stays, one that is known is stored, until it is collected, and only one
\* that is known is published.
Agrees(x) ==
    /\ made[x] = 1 => claim[x] # NoClaim \/ Collecting(x)
    /\ claim[x].status \in Known => 1 \in stored[x] \/ Collecting(x)
    /\ doc[x] = 1 => claim[x].status \in Known
    /\ x = Final /\ doc[x] = 1 => claim[x].status = "completed"
    /\ x = Final /\ claim[x] # NoClaim => PartsThere

Agree == \A x \in Object : ~Overtaken(x) => Once(x) /\ Agrees(x)

\* A phase belongs to an operation, and to what the process holds.
Placed(o, p) ==
    /\ p = "idle" <=> o = NoOp
    /\ p \in {"find", "read"} => o \in Part
    /\ p \in {"assemble", "await"} => o = Final
    /\ p \in {"witness", "mark"} \cup Deleting => o = Collect
    /\ p \in OwnerPhase \cup KnownPhase => o \in Object

Holds(o, p, g) ==
    /\ o \in Object /\ ~Overtaken(o) =>
         /\ p = "persist" \/ p \in KnownPhase => g = 1
         /\ g = 0 \/ (g = 1 /\ p \in {"persist", "outcome"} \cup KnownPhase)
    /\ o = Final => ~Overtaken(o)
    /\ p \in Deleting => g \in Part
    /\ o \notin Object /\ p \notin Deleting => g = 0

\* The claim of an owner is pending, and uploaded under once.
Owning(o, p) ==
    p \in OwnerPhase /\ ~Overtaken(o) =>
        /\ claim[o] = Claim("pending", 0)
        /\ p \in {"upload", "release"} => made[o] = 0
        /\ p = "persist" => made[o] = 1 /\ 1 \in stored[o]

Exclusive ==
    \A v, w \in Process :
        v # w /\ pc[v] \in OwnerPhase /\ pc[w] \in OwnerPhase =>
            op[v] # op[w] \/ Overtaken(op[v])

\* A process that goes on with a known generation, or creates the claim of
\* the archive.
Knowing(o, p, g) ==
    /\ p \in KnownPhase /\ ~Overtaken(o) => claim[o].status \in Known /\ 1 \in stored[o]
    /\ p \in {"publish", "winner"} /\ o = Final => claim[Final].status = "completed"
    /\ p = "complete" /\ o \in Part /\ ~Overtaken(o) => doc[o] = 1
    /\ p = "create" /\ o = Final => PartsThere
    /\ p = "outcome" /\ g # 0 => o \in Object /\ Kept(o)

\* A collection begins after the commit, deletes its parts in order and marks
\* its claim when nothing is left.
Collector(o, p, g) ==
    /\ o = Collect /\ p \in CollectPhase => Committed
    /\ p \in {"witness", "mark"} \cup Deleting => collect # "none"
    /\ p \in Deleting =>
         /\ \A r \in Part \ straddled : r < g => Gone(r)
         /\ g \notin straddled /\ p \in {"document", "claim"} => stored[g] = {}
         /\ g \notin straddled /\ p = "claim" => doc[g] = 0
    /\ p = "mark" => AllGone

\* An upload past its claim check when the commit completed is accounted for.
Straddles(o, p) ==
    o \in Part /\ p \notin {"start", "outcome"} /\ claim[Final].status = "completed" =>
        o \in straddled

Collection ==
    /\ collect # "none" => Committed /\ \A p \in Part \ straddled : plan[p] = 1
    /\ collect = "completed" => AllGone

Acknowledged ==
    \A a \in acked : a \in Object \X Gen /\ (a[1] = Final => a[2] = 1) /\ Kept(a[1])

\* A process may serve o, be at p and hold g.
At(o, p, g) ==
    /\ Placed(o, p) /\ Holds(o, p, g) /\ Owning(o, p) /\ Knowing(o, p, g)
    /\ Collector(o, p, g) /\ Straddles(o, p)

ProcessOK(w) == At(op[w], pc[w], held[w])

IInv ==
    /\ Typed /\ Agree /\ Exclusive /\ Collection /\ Acknowledged
    /\ \A w \in Process : ProcessOK(w)

(***************************************************************************)
(* Operations, and what a step of one process leaves to the others.        *)
(***************************************************************************)
LEMMA OpFacts ==
    /\ Final \in Object /\ Final \notin Part /\ Part \subseteq Object
    /\ \A x \in Object : x \in Part \/ x = Final
    /\ Collect \notin Object /\ Collect \in Op /\ Object \subseteq Op
    /\ \A x \in Op : x \in Object \/ x = Collect
    /\ NoOp \notin Op
  BY BoundAssumption, NoOpAssumption DEF Op, Object, Part, Final, Collect

\* w takes the step.
Actor(w) ==
    \A v \in Process : v # w => op'[v] = op[v] /\ pc'[v] = pc[v] /\ held'[v] = held[v]

\* The step leaves to the others what they rest on.
Harmless(w) ==
    /\ \A v \in Process : v # w /\ pc[v] \in OwnerPhase /\ ~Overtaken(op[v])' =>
         /\ claim'[op[v]] = claim[op[v]] /\ made'[op[v]] = made[op[v]]
         /\ stored'[op[v]] = stored[op[v]]
    /\ \A v \in Process : v # w /\ pc[v] \in KnownPhase /\ ~Overtaken(op[v])' =>
         /\ claim'[op[v]].status \in Known /\ 1 \in stored'[op[v]]
         /\ doc[op[v]] = 1 => doc'[op[v]] = 1
    /\ claim[Final].status = "completed" =>
         claim'[Final].status = "completed" /\ straddled' = straddled
    /\ claim'[Final].status = "completed" =>
         claim[Final].status = "completed" \/ straddled' = Underway
    /\ PartsThere => PartsThere'
    /\ \A x \in Object : Kept(x) => Kept(x)'
    /\ Committed => Committed'
    /\ collect # "none" => collect' # "none" /\ plan' = plan
    /\ collect # "none" =>
         \A p \in Part \ straddled :
            /\ stored[p] = {} => stored'[p] = {}
            /\ doc[p] = 0 => doc'[p] = 0
            /\ Gone(p) => Gone(p)'

\* What is overtaken stays so, and is when a collection is claimed.
LEMMA OvertakenStays ==
    ASSUME IInv, NEW w \in Process, Harmless(w)
    PROVE  /\ \A x : Overtaken(x) => Overtaken(x)'
           /\ collect # "none" => claim[Final].status = "completed" /\ straddled' = straddled
           /\ straddled \subseteq Part /\ ~Overtaken(Final)
           /\ DocumentsTyped' => ~Overtaken(Final)'
<1>1. collect # "none" => claim[Final].status = "completed" /\ straddled' = straddled
    BY DEF IInv, Collection, Committed, Harmless
<1>2. \A x : Overtaken(x) => Overtaken(x)'
    BY <1>1 DEF Overtaken, Harmless
<1>3. straddled \subseteq Part
    BY DEF IInv, Typed, DocumentsTyped
<1>4. DocumentsTyped' => straddled' \subseteq Part
    BY DEF DocumentsTyped
<1> QED
    BY <1>1, <1>2, <1>3, <1>4, OpFacts DEF Overtaken

LEMMA OthersKeep ==
    ASSUME IInv, NEW w \in Process, Actor(w), Harmless(w), DocumentsTyped',
           NEW v \in Process, v # w
    PROVE  ProcessOK(v)'
<1>1. /\ ProcessOK(v) /\ op'[v] = op[v] /\ pc'[v] = pc[v] /\ held'[v] = held[v]
      /\ \A x : Overtaken(x) => Overtaken(x)'
      /\ ~Overtaken(Final)'
    BY OvertakenStays, OpFacts DEF Actor, IInv
<1>2. Placed(op[v], pc[v])'
    BY <1>1 DEF ProcessOK, At, Placed
<1>3. Holds(op[v], pc[v], held[v])'
    BY <1>1 DEF ProcessOK, At, Holds
<1>4. Owning(op[v], pc[v])'
    BY <1>1 DEF ProcessOK, At, Owning, Harmless
<1>5. Knowing(op[v], pc[v], held[v])'
  <2>1. pc[v] = "complete" /\ op[v] \in Part => op[v] \in Object
    BY OpFacts
  <2>2. pc[v] \in {"complete", "publish", "winner"} => pc[v] \in KnownPhase
    BY DEF KnownPhase
  <2>3. Knowing(op[v], pc[v], held[v])
    BY <1>1 DEF ProcessOK, At
  <2>4. pc[v] \in KnownPhase /\ ~Overtaken(op[v])' =>
           claim'[op[v]].status \in Known /\ 1 \in stored'[op[v]]
    BY DEF Harmless
  <2>5. pc[v] \in {"publish", "winner"} /\ op[v] = Final => claim'[Final].status = "completed"
    BY <2>3 DEF Harmless, Knowing
  <2>6. pc[v] = "complete" /\ op[v] \in Part /\ ~Overtaken(op[v])' => doc'[op[v]] = 1
    BY <1>1, <2>2, <2>3 DEF Harmless, Knowing
  <2>7. pc[v] = "create" /\ op[v] = Final => PartsThere'
    BY <2>3 DEF Harmless, Knowing
  <2>8. ASSUME pc[v] = "outcome", held[v] # 0 PROVE op[v] \in Object /\ Kept(op[v])'
    <3>1. op[v] \in Object /\ Kept(op[v])
        BY <2>3, <2>8 DEF Knowing
    <3>2. PICK x \in Object : x = op[v]
        BY <3>1
    <3>3. Kept(x)'
        BY <3>1, <3>2 DEF Harmless
    <3> QED
        BY <1>1, <3>2, <3>3 DEF Kept, Published
  <2> QED
    BY <1>1, <2>4, <2>5, <2>6, <2>7, <2>8 DEF Knowing
<1>6. Collector(op[v], pc[v], held[v])'
  <2>1. Collector(op[v], pc[v], held[v]) /\ (pc[v] \in Deleting => held[v] \in Part)
    BY <1>1 DEF ProcessOK, At, Holds
  <2>2. collect # "none" => straddled' = straddled
    BY OvertakenStays
  <2>3. pc[v] \in {"witness", "mark"} \cup Deleting => collect # "none" /\ collect' # "none"
    BY <2>1 DEF Collector, Harmless
  <2>4. pc[v] = "mark" => AllGone'
    BY <2>1, <2>2, <2>3 DEF Collector, Harmless, AllGone
  <2>5. pc[v] \in Deleting =>
         /\ \A r \in Part \ straddled' : r < held[v] => Gone(r)'
         /\ held[v] \notin straddled' /\ pc[v] \in {"document", "claim"} => stored'[held[v]] = {}
         /\ held[v] \notin straddled' /\ pc[v] = "claim" => doc'[held[v]] = 0
    BY <2>1, <2>2, <2>3 DEF Collector, Harmless
  <2> QED
    BY <1>1, <2>1, <2>3, <2>4, <2>5 DEF Collector, Harmless
<1>7. Straddles(op[v], pc[v])'
  <2>1. Straddles(op[v], pc[v])
    BY <1>1 DEF ProcessOK, At
  <2>2. op[v] \in Part /\ pc[v] \notin {"start", "outcome"} => op[v] \in Underway
    BY DEF Underway
  <2> QED
    BY <1>1, <2>1, <2>2 DEF Straddles, Harmless
<1> QED
    BY <1>1, <1>2, <1>3, <1>4, <1>5, <1>6, <1>7 DEF ProcessOK, At

\* So a step keeps the invariant if it is harmless, keeps the documents in
\* agreement, and leaves its own process in order.
LEMMA StepKeeps ==
    ASSUME IInv, NEW w \in Process, Actor(w), Harmless(w),
           Typed', Agree', Collection', ProcessOK(w)',
           pc'[w] \in OwnerPhase /\ ~Overtaken(op[w])' =>
               op'[w] = op[w] /\ (pc[w] \in OwnerPhase \/ claim[op[w]] = NoClaim),
           \/ acked' = acked
           \/ /\ acked' = acked \cup {<<op[w], held[w]>>} /\ op[w] \in Object
              /\ op[w] = Final => held[w] = 1
              /\ Kept(op[w])
    PROVE  IInv'
<1>1. \A v \in Process : ProcessOK(v)'
    BY OthersKeep DEF Typed
<1>a. /\ \A x : Overtaken(x) => Overtaken(x)'
      /\ ProcessesTyped
    BY OvertakenStays DEF IInv, Typed
<1>b. \A v \in Process : v # w => op'[v] = op[v] /\ pc'[v] = pc[v]
    BY DEF Actor
<1>2. Exclusive'
  <2>1. ASSUME NEW v \in Process, v # w, pc'[v] \in OwnerPhase, pc'[w] \in OwnerPhase,
               op'[v] = op'[w], ~Overtaken(op[w])'
        PROVE  FALSE
    <3>1. pc[v] \in OwnerPhase /\ op'[v] = op[v] /\ op'[w] = op[w] /\ op[v] = op[w]
        BY <1>b, <2>1
    <3>2. ~Overtaken(op[v])
        BY <1>a, <2>1, <3>1 DEF Overtaken
    <3>3. claim[op[v]] # NoClaim
        BY <3>1, <3>2 DEF IInv, ProcessOK, At, Owning, NoClaim, Claim
    <3> QED
        BY <2>1, <3>1, <3>2, <3>3 DEF IInv, Exclusive
  <2>2. ASSUME NEW u \in Process, NEW v \in Process, u # v, u # w, v # w,
               pc'[u] \in OwnerPhase, pc'[v] \in OwnerPhase
        PROVE  op'[u] # op'[v] \/ Overtaken(op[u])'
    <3>1. op'[u] = op[u] /\ op'[v] = op[v] /\ pc'[u] = pc[u] /\ pc'[v] = pc[v]
        BY <2>2 DEF Actor
    <3> QED
        BY <1>a, <2>2, <3>1 DEF IInv, Exclusive, Overtaken
  <2> QED
    BY <2>1, <2>2 DEF Exclusive
<1>3. Acknowledged'
  <2>1. \A a \in acked : a \in Object \X Gen /\ (a[1] = Final => a[2] = 1) /\ Kept(a[1])'
      BY DEF IInv, Acknowledged, Harmless
  <2>2. CASE acked' = acked
      BY <2>1, <2>2 DEF Acknowledged
  <2>3. CASE acked' = acked \cup {<<op[w], held[w]>>}
    <3>2. held[w] \in Gen
        BY <1>a DEF ProcessesTyped
    <3>3. CASE acked' = acked
        BY <2>2, <3>3
    <3>4. CASE op[w] \in Object /\ (op[w] = Final => held[w] = 1) /\ Kept(op[w])
      <4>1. PICK x \in Object : x = op[w]
          BY <3>4
      <4>2. Kept(x)' /\ <<x, held[w]>>[1] = x /\ <<x, held[w]>>[2] = held[w]
          BY <3>4, <4>1 DEF Harmless
      <4>3. ASSUME NEW a \in acked'
            PROVE  a \in Object \X Gen /\ (a[1] = Final => a[2] = 1) /\ Kept(a[1])'
        <5>1. CASE a \in acked
            BY <2>1, <5>1
        <5>2. CASE a = <<x, held[w]>>
            BY <3>2, <3>4, <4>1, <4>2, <5>2
        <5> QED
            BY <2>3, <4>1, <4>3, <5>1, <5>2
      <4> QED
          BY <4>3 DEF Acknowledged
    <3> QED
        BY <3>3, <3>4
  <2> QED
      BY <2>2, <2>3
<1> QED
    BY <1>1, <1>2, <1>3 DEF IInv

LEMMA CommittedPublished ==
    ASSUME IInv, Committed
    PROVE  doc[Final] = 1 /\ 1 \in stored[Final] /\ Published(Final)
<1>1. ~Overtaken(Final)
    BY OpFacts DEF IInv, Typed, DocumentsTyped, Overtaken
<1>2. Once(Final) /\ Agrees(Final)
    BY <1>1, OpFacts DEF IInv, Agree
<1>3. doc[Final] = 1
    BY <1>2 DEF Once, Committed
<1>4. 1 \in stored[Final]
    BY <1>2, OpFacts DEF Agrees, Committed, Known, Collecting
<1> QED
    BY <1>3, <1>4 DEF Published

\* A collection finds only overtaken parts being uploaded.
LEMMA UnderCollection ==
    ASSUME IInv, collect # "none"
    PROVE  /\ Committed /\ claim[Final].status = "completed"
           /\ \A v \in Process :
                op[v] \in Part /\ pc[v] \notin {"start", "outcome"} => Overtaken(op[v])
           /\ \A p \in Part : Overtaken(p) <=> p \in straddled
  BY DEF IInv, Collection, Committed, ProcessOK, At, Straddles, Overtaken

\* A step that leaves the documents alone.
LEMMA ReadingKeeps ==
    ASSUME IInv, NEW w \in Process, Actor(w), UNCHANGED documents
    PROVE  Harmless(w) /\ Agree' /\ Collection' /\ DocumentsTyped'
<1> USE DEF documents
<1>1. /\ UNCHANGED <<Committed, PartsThere, AllGone>>
      /\ \A x : (Kept(x) <=> Kept(x)') /\ (Collecting(x) <=> Collecting(x)')
                /\ (Overtaken(x) <=> Overtaken(x)') /\ (Gone(x) <=> Gone(x)')
                /\ (Once(x) <=> Once(x)')
    BY DEF Committed, PartsThere, AllGone, Gone, Kept, Published, Collecting, Overtaken, Once
<1>2. Harmless(w)
  <2>1. ASSUME NEW v \in Process, v # w, pc[v] \in KnownPhase, ~Overtaken(op[v])'
        PROVE  claim'[op[v]].status \in Known /\ 1 \in stored'[op[v]]
    <3>1. ~Overtaken(op[v])
        BY <2>1 DEF Actor, Overtaken
    <3> QED
        BY <2>1, <3>1 DEF IInv, ProcessOK, At, Knowing
  <2> QED
      BY <1>1, <2>1 DEF Harmless
<1>3. Agree'
    BY <1>1 DEF IInv, Agree, Agrees
<1>4. Collection'
    BY <1>1 DEF IInv, Collection
<1> QED
    BY <1>2, <1>3, <1>4 DEF IInv, Typed, DocumentsTyped

(***************************************************************************)
(* The writes.  Each leaves the documents in agreement and is harmless.    *)
(***************************************************************************)
Sound(w) == Harmless(w) /\ Agree' /\ Collection' /\ DocumentsTyped'

\* A write to the claim, the document or the store of the object of w.
ObjectWrite(w, x) ==
    /\ op[w] = x /\ pc[w] \notin {"start", "outcome"} /\ op' = op
    /\ collect' = collect /\ plan' = plan
    /\ straddled' = IF x = Final /\ claim'[x].status = "completed"
                       /\ claim[x].status # "completed" THEN Underway ELSE straddled
    /\ \A y \in Object : y # x =>
         claim'[y] = claim[y] /\ doc'[y] = doc[y] /\ stored'[y] = stored[y] /\ made'[y] = made[y]

\* What a write to an object keeps, and how the documents of x agree after it.
Allowed(w, x) ==
    /\ claim[x] # claim'[x] =>
         claim[x] = NoClaim \/ pc[w] \in OwnerPhase \/ claim[x].status \in Known
    /\ stored[x] # stored'[x] \/ made[x] # made'[x] => pc[w] \in OwnerPhase
    /\ 1 \in stored[x] => 1 \in stored'[x]
    /\ doc[x] = 1 => doc'[x] = 1
    /\ claim[x].status \in Known => claim'[x].status \in Known
    /\ claim[x].status = "completed" => claim'[x].status = "completed"
    /\ made'[x] = 1 => claim'[x] # NoClaim
    /\ claim'[x].status \in Known => 1 \in stored'[x]
    /\ doc'[x] = 1 => claim'[x].status \in Known
    /\ x = Final /\ doc'[x] = 1 => claim'[x].status = "completed"
    /\ x = Final /\ claim'[x] # NoClaim => PartsThere
    /\ Once(x)'

\* What is published of an object that is not overtaken.
LEMMA OncePublished ==
    ASSUME NEW x, Once(x)
    PROVE  Published(x) <=> doc[x] = 1 /\ 1 \in stored[x]
  BY DEF Once, Published

LEMMA ObjectWriteKeeps ==
    ASSUME IInv, NEW w \in Process, Actor(w), NEW x \in Object, ObjectWrite(w, x),
           ~Overtaken(x), Allowed(w, x), DocumentsTyped'
    PROVE  Sound(w)
<1> USE OpFacts DEF ObjectWrite
<1>a. /\ Typed /\ Agree /\ Exclusive /\ Collection
      /\ DocumentsTyped /\ \A v \in Process : ProcessOK(v)
    BY DEF IInv, Typed
<1>b. x \in Part => collect = "none"
    BY UnderCollection
<1>c. /\ claim[Final].status = "completed" => straddled' = straddled
      /\ collect # "none" => claim[Final].status = "completed"
      /\ claim'[Final].status = "completed" =>
           claim[Final].status = "completed" \/ straddled' = Underway
    BY UnderCollection
<1>d. \A y : Overtaken(y) <=> Overtaken(y)'
    BY <1>c DEF Overtaken
<1>e. Once(x) /\ Agrees(x) /\ Once(x)'
    BY <1>a DEF Agree, Allowed
<1>1. Committed => Committed'
    BY <1>e DEF Committed, Once, Allowed
<1>2. Published(x) => Published(x)'
    BY <1>e, OncePublished DEF Allowed, Once, Published
<1>3. PartsThere => PartsThere'
    BY <1>2 DEF PartsThere, Published
<1>4. \A y \in Object : Kept(y) => Kept(y)'
    BY <1>1, <1>2 DEF Kept, Allowed, Published
<1>5. ASSUME collect # "none" PROVE \A p \in Part : UNCHANGED <<stored[p], doc[p], claim[p]>>
    BY <1>b, <1>5
<1>6. ASSUME NEW v \in Process, v # w, pc[v] \in OwnerPhase, op[v] = x
      PROVE  claim'[x] = claim[x] /\ made'[x] = made[x] /\ stored'[x] = stored[x]
  <2>1. claim[x] = Claim("pending", 0)
      BY <1>a, <1>6 DEF ProcessOK, At, Owning
  <2>2. pc[w] \notin OwnerPhase
      BY <1>a, <1>6 DEF Exclusive
  <2> QED
      BY <2>1, <2>2 DEF Allowed, NoClaim, Claim, Known
<1>7. ASSUME NEW v \in Process, pc[v] \in KnownPhase, op[v] = x
      PROVE  claim'[x].status \in Known /\ 1 \in stored'[x]
    BY <1>a, <1>7 DEF ProcessOK, At, Knowing, Allowed
<1>8. \A v \in Process : pc[v] \in OwnerPhase \cup KnownPhase => op[v] \in Object
    BY <1>a DEF ProcessOK, At, Placed
<1>9. Harmless(w)
  <2>1. \A v \in Process : v # w /\ pc[v] \in OwnerPhase =>
         /\ claim'[op[v]] = claim[op[v]] /\ made'[op[v]] = made[op[v]]
         /\ stored'[op[v]] = stored[op[v]]
      BY <1>6, <1>8
  <2>2. ASSUME NEW v \in Process, v # w, pc[v] \in KnownPhase, ~Overtaken(op[v])'
        PROVE  /\ claim'[op[v]].status \in Known /\ 1 \in stored'[op[v]]
               /\ doc[op[v]] = 1 => doc'[op[v]] = 1
    <3>1. CASE op[v] = x
        BY <1>7, <2>2, <3>1 DEF Allowed
    <3>2. CASE op[v] # x
      <4>1. ~Overtaken(op[v])
          BY <1>d, <2>2 DEF Overtaken
      <4> QED
          BY <1>a, <1>8, <2>2, <3>2, <4>1 DEF ProcessOK, At, Knowing
    <3> QED
        BY <3>1, <3>2
  <2>3. claim[Final].status = "completed" => claim'[Final].status = "completed"
      BY DEF Allowed
  <2>4. collect # "none" =>
         \A p \in Part \ straddled :
            /\ stored[p] = {} => stored'[p] = {}
            /\ doc[p] = 0 => doc'[p] = 0
            /\ Gone(p) => Gone(p)'
      BY <1>5 DEF Gone
  <2> QED
    BY <2>1, <2>2, <2>3, <2>4, <1>c, <1>1, <1>3, <1>4 DEF Harmless
<1>10. Agree'
  <2>1. ASSUME NEW y \in Object, y # x, ~Overtaken(y)'
        PROVE  Once(y)' /\ Agrees(y)'
    <3>1. Once(y) /\ Agrees(y)
        BY <1>a, <1>d, <2>1 DEF Agree
    <3> QED
        BY <2>1, <3>1, <1>3 DEF Once, Agrees, Collecting
  <2>2. Agrees(x)'
      BY <1>3 DEF Agrees, Allowed
  <2> QED
      BY <2>1, <2>2, <1>e DEF Agree
<1>11. Collection'
    BY <1>a, <1>c, <1>1, <1>5 DEF Collection, AllGone, Gone
<1> QED
    BY <1>9, <1>10, <1>11 DEF Sound

\* An object some process works on is not being collected, or is overtaken.
LEMMA WorkedOn ==
    ASSUME IInv, NEW w \in Process, op[w] \in Object, pc[w] \notin {"start", "outcome"},
           ~Overtaken(op[w])
    PROVE  LET x == op[w] IN
           /\ ~Collecting(x) /\ Once(x)
           /\ made[x] = 1 => claim[x] # NoClaim
           /\ claim[x].status \in Known => 1 \in stored[x]
           /\ doc[x] = 1 => claim[x].status \in Known
           /\ x = Final /\ doc[x] = 1 => claim[x].status = "completed"
           /\ x = Final /\ claim[x] # NoClaim => PartsThere
           /\ ProcessOK(w)
<1>1. ~Collecting(op[w])
    BY UnderCollection DEF Collecting
<1> QED
    BY <1>1 DEF IInv, Agree, Agrees

LEMMA ClaimValues ==
    /\ NoClaim.status \notin Known /\ Claim("pending", 0).status \notin Known
    /\ Claim("uncertain", 0).status \notin Known
    /\ Claim("uploaded", 1).status \in Known /\ Claim("uploaded", 1).status # "completed"
    /\ Claim("completed", 1).status \in Known /\ Claim("completed", 1).status = "completed"
    /\ NoClaim.status # "completed" /\ Claim("pending", 0).status # "completed"
    /\ Claim("uncertain", 0).status # "completed"
    /\ NoClaim # Claim("pending", 0) /\ NoClaim # Claim("uncertain", 0)
    /\ NoClaim # Claim("uploaded", 1) /\ NoClaim # Claim("completed", 1)
    /\ Claim("pending", 0) # Claim("uncertain", 0)
    /\ \A c \in Claims : c \in [status : {"none", "pending", "uncertain"} \cup Known, gen : Gen]
  BY DEF NoClaim, Claim, Known, Claims, Gen

LEMMA CreateKeeps ==
    ASSUME IInv, NEW w \in Process, Actor(w), op' = op, pc[w] = "create",
           op[w] \in Object, ~Overtaken(op[w]), CreateClaim(op[w])
    PROVE  Sound(w)
<1> DEFINE x == op[w]
<1>0. UNCHANGED <<doc, stored, made, collect, plan, straddled>>
      /\ claim' = [claim EXCEPT ![x] = IF @ = NoClaim THEN Claim("pending", 0) ELSE @]
    BY DEF CreateClaim, ChangesClaim
<1>1. DocumentsTyped'
    BY <1>0, ClaimValues DEF IInv, Typed, DocumentsTyped, Claims
<1>3. claim'[x] = (IF claim[x] = NoClaim THEN Claim("pending", 0) ELSE claim[x])
    BY <1>0 DEF IInv, Typed, DocumentsTyped
<1>2. ObjectWrite(w, x)
    BY <1>0, <1>3, ClaimValues DEF ObjectWrite, IInv, Typed, DocumentsTyped
<1>4. x = Final => PartsThere
    BY DEF IInv, ProcessOK, At, Knowing
<1>5. Once(x)'
    BY <1>0, <1>3, WorkedOn DEF Once, Claims
<1>6. Allowed(w, x)
    BY <1>0, <1>3, <1>4, <1>5, WorkedOn, ClaimValues DEF Allowed
<1> QED
    BY <1>1, <1>2, <1>6, ObjectWriteKeeps

\* A write to the claim of an object.
LEMMA ClaimWrite ==
    ASSUME IInv, NEW w \in Process, op' = op, NEW x \in Object, op[w] = x,
           pc[w] \notin {"start", "outcome"}, NEW c \in Claims,
           claim' = [claim EXCEPT ![x] = c], UNCHANGED <<doc, stored, made, collect, plan>>,
           straddled' = IF x = Final /\ c.status = "completed"
                           /\ claim[x].status # "completed" THEN Underway ELSE straddled
    PROVE  DocumentsTyped' /\ ObjectWrite(w, x) /\ claim'[x] = c
<1>1. claim'[x] = c
    BY DEF IInv, Typed, DocumentsTyped
<1>2. straddled' \subseteq Part
    BY DEF IInv, Typed, DocumentsTyped, Underway
<1>3. DocumentsTyped'
    BY <1>2, ClaimValues DEF IInv, Typed, DocumentsTyped
<1>4. ObjectWrite(w, x)
    BY <1>1 DEF ObjectWrite, IInv, Typed, DocumentsTyped
<1> QED
    BY <1>1, <1>3, <1>4

\* The object an owner works on.
LEMMA Owned ==
    ASSUME IInv, NEW w \in Process, pc[w] \in OwnerPhase, ~Overtaken(op[w])
    PROVE  /\ op[w] \in Object /\ pc[w] \notin {"start", "outcome"}
           /\ claim[op[w]] = Claim("pending", 0) /\ doc[op[w]] # 1
           /\ op[w] = Final => PartsThere
           /\ pc[w] \in {"upload", "release"} => made[op[w]] = 0
           /\ pc[w] = "persist" => made[op[w]] = 1 /\ 1 \in stored[op[w]] /\ held[w] = 1
<1>1. op[w] \in Object /\ pc[w] \notin {"start", "outcome"}
    BY DEF IInv, ProcessOK, At, Placed, OwnerPhase
<1>2. claim[op[w]] = Claim("pending", 0)
    BY DEF IInv, ProcessOK, At, Owning
<1> QED
    BY <1>1, <1>2, WorkedOn, ClaimValues DEF ProcessOK, At, Owning, Holds

LEMMA UploadKeeps ==
    ASSUME IInv, NEW w \in Process, Actor(w), op' = op, pc[w] = "upload", Upload(op[w]),
           ~Overtaken(op[w])
    PROVE  Sound(w)
<1> DEFINE x == op[w]
<1>a. pc[w] \in OwnerPhase /\ x \in Object
    BY Owned DEF OwnerPhase
<1>b. made[x] = 0 /\ made[x] + 1 = 1
    BY <1>a, Owned
<1>c. UNCHANGED <<claim, doc, collect, plan, straddled>>
    BY DEF Upload
<1>d. made' = [made EXCEPT ![x] = 1] /\ stored' = [stored EXCEPT ![x] = @ \cup {1}]
    BY <1>b DEF Upload
<1>1. DocumentsTyped'
    BY <1>a, <1>c, <1>d DEF IInv, Typed, DocumentsTyped, Gen
<1>2. ObjectWrite(w, x)
    BY <1>a, <1>c, <1>d, Owned DEF ObjectWrite, IInv, Typed, DocumentsTyped
<1>3. made'[x] = 1 /\ stored'[x] = stored[x] \cup {1}
    BY <1>a, <1>d DEF IInv, Typed, DocumentsTyped
<1>4. Once(x)'
    BY <1>a, <1>c, <1>3, Owned, WorkedOn DEF Once
<1>5. Allowed(w, x)
    BY <1>a, <1>c, <1>3, <1>4, Owned, ClaimValues DEF Allowed
<1> QED
    BY <1>a, <1>1, <1>2, <1>5, ObjectWriteKeeps

\* An owner settles its claim: uncertain, given back or uploaded.
LEMMA SettleKeeps ==
    ASSUME IInv, NEW w \in Process, Actor(w), op' = op, ~Overtaken(op[w]),
           \/ pc[w] = "uncertain" /\ Uncertain(op[w])
           \/ pc[w] = "release" /\ Release(op[w])
           \/ pc[w] = "persist" /\ Record(op[w], "uploaded", held[w])
    PROVE  Sound(w)
<1> DEFINE x == op[w]
<1>a. pc[w] \in OwnerPhase /\ x \in Object
    BY Owned DEF OwnerPhase
<1>b. UNCHANGED <<doc, stored, made, collect, plan, straddled>>
    BY DEF Uncertain, Release, SetClaim, Record, ChangesClaim
<1>c. PICK c \in {NoClaim, Claim("uncertain", 0), Claim("uploaded", 1)} :
        /\ claim' = [claim EXCEPT ![x] = c]
        /\ c = NoClaim => made[x] = 0
        /\ c = Claim("uploaded", 1) => 1 \in stored[x]
    BY <1>a, Owned, ClaimValues DEF Uncertain, Release, SetClaim, Record
<1>d. c \in Claims /\ c.status # "completed"
    BY ClaimValues DEF Claims
<1>e. straddled' = IF x = Final /\ c.status = "completed"
                      /\ claim[x].status # "completed" THEN Underway ELSE straddled
    BY <1>b, <1>d
<1>f. c \in Claims /\ pc[w] \notin {"start", "outcome"}
    BY <1>a, <1>d, Owned
<1>1. DocumentsTyped' /\ ObjectWrite(w, x) /\ claim'[x] = c
    BY <1>a, <1>b, <1>c, <1>e, <1>f, ClaimWrite
<1>4. Once(x)'
    BY <1>a, <1>b, <1>d, <1>1, Owned, WorkedOn DEF Once
<1>5. Allowed(w, x)
    BY <1>a, <1>b, <1>c, <1>1, <1>4, Owned, ClaimValues DEF Allowed
<1> QED
    BY <1>a, <1>1, <1>5, ObjectWriteKeeps

\* The object a process goes on with.
LEMMA KnownObject ==
    ASSUME IInv, NEW w \in Process, pc[w] \in KnownPhase, ~Overtaken(op[w])
    PROVE  /\ op[w] \in Object /\ pc[w] \notin {"start", "outcome"} /\ held[w] = 1
           /\ claim[op[w]].status \in Known /\ 1 \in stored[op[w]]
           /\ op[w] = Final => PartsThere
  BY WorkedOn, ClaimValues DEF IInv, ProcessOK, At, Placed, Holds, Knowing, KnownPhase

LEMMA CompleteKeeps ==
    ASSUME IInv, NEW w \in Process, Actor(w), op' = op, pc[w] = "complete",
           Record(op[w], "completed", held[w]), ~Overtaken(op[w])
    PROVE  Sound(w)
<1> DEFINE x == op[w]
<1>a. pc[w] \in KnownPhase /\ x \in Object /\ held[w] = 1
    BY KnownObject DEF KnownPhase
<1>b. UNCHANGED <<doc, stored, made, collect, plan>>
    BY DEF Record, ChangesClaim
<1>c. Claim("completed", 1) \in Claims /\ claim' = [claim EXCEPT ![x] = Claim("completed", 1)]
    BY <1>a DEF Record, Claims
<1>d. PICK c \in Claims : c = Claim("completed", 1)
    BY <1>c
<1>e. straddled' = IF x = Final /\ c.status = "completed"
                      /\ claim[x].status # "completed" THEN Underway ELSE straddled
    BY <1>d, ClaimValues DEF Record
<1>f. claim' = [claim EXCEPT ![x] = c] /\ pc[w] \notin {"start", "outcome"}
    BY <1>a, <1>c, <1>d, KnownObject
<1>1. DocumentsTyped' /\ ObjectWrite(w, x) /\ claim'[x] = Claim("completed", 1)
    BY <1>a, <1>b, <1>d, <1>e, <1>f, ClaimWrite
<1>4. Once(x)'
    BY <1>a, <1>b, <1>c, <1>1, KnownObject, WorkedOn DEF Once
<1>5. Allowed(w, x)
    BY <1>a, <1>b, <1>1, <1>4, KnownObject, ClaimValues DEF Allowed
<1> QED
    BY <1>a, <1>1, <1>5, ObjectWriteKeeps

LEMMA PublishKeeps ==
    ASSUME IInv, NEW w \in Process, Actor(w), op' = op, pc[w] = "publish",
           Publish(op[w], held[w]), ~Overtaken(op[w])
    PROVE  Sound(w)
<1> DEFINE x == op[w]
<1>a. pc[w] \in KnownPhase /\ x \in Object /\ held[w] = 1
    BY KnownObject DEF KnownPhase
<1>b. UNCHANGED <<claim, stored, made, collect, plan, straddled>>
    BY DEF Publish
<1>c. doc' = [doc EXCEPT ![x] = IF @ = 0 THEN 1 ELSE @]
    BY <1>a DEF Publish
<1>1. DocumentsTyped'
    BY <1>a, <1>b, <1>c DEF IInv, Typed, DocumentsTyped, Gen
<1>2. ObjectWrite(w, x)
    BY <1>a, <1>b, <1>c, KnownObject DEF ObjectWrite, IInv, Typed, DocumentsTyped
<1>3. x = Final => claim[x].status = "completed"
    BY DEF IInv, ProcessOK, At, Knowing
<1>4. doc'[x] = IF doc[x] = 0 THEN 1 ELSE doc[x]
    BY <1>a, <1>c DEF IInv, Typed, DocumentsTyped
<1>5. Once(x)'
    BY <1>a, <1>b, <1>4, KnownObject, WorkedOn DEF Once
<1>6. Allowed(w, x)
    BY <1>a, <1>b, <1>3, <1>4, <1>5, KnownObject, WorkedOn, ClaimValues DEF Allowed
<1> QED
    BY <1>a, <1>1, <1>2, <1>6, ObjectWriteKeeps

\* A deletion from a part leaves the rest alone, and nobody rests on the part
\* unless it is overtaken.
LEMMA DeletionKeeps ==
    ASSUME IInv, NEW w \in Process, Actor(w), op' = op, NEW p \in Part, collect # "none",
           UNCHANGED <<made, collect, plan, straddled>>,
           \A y \in Object : y # p =>
               claim'[y] = claim[y] /\ doc'[y] = doc[y] /\ stored'[y] = stored[y],
           DocumentsTyped', stored'[p] \in SUBSET stored[p], doc'[p] \in {0, doc[p]},
           \/ claim'[p] = claim[p]
           \/ claim'[p] = NoClaim /\ doc'[p] = doc[p] /\ (p \notin straddled => doc[p] = 0)
    PROVE  Sound(w)
<1> USE OpFacts
<1>a. /\ Committed /\ p \in Object /\ p # Final
      /\ \A y : Overtaken(y) <=> Overtaken(y)'
      /\ \A y \in Part : Overtaken(y) <=> y \in straddled
    BY UnderCollection DEF Overtaken
<1>1. Committed' /\ PartsThere'
    BY <1>a DEF Committed, PartsThere
<1>2. \A y \in Object : Kept(y) => Kept(y)'
    BY <1>a, <1>1 DEF Kept, Published
<1>3. ASSUME NEW v \in Process, pc[v] \in OwnerPhase \cup KnownPhase, ~Overtaken(op[v])'
      PROVE  op[v] = Final
  <2>1. op[v] \in Object /\ pc[v] \notin {"start", "outcome"}
      BY <1>3 DEF IInv, ProcessOK, At, Placed, OwnerPhase, KnownPhase
  <2>2. ~Overtaken(op[v])
      BY <1>3 DEF Overtaken
  <2> QED
      BY <2>1, <2>2, UnderCollection
<1>4. Harmless(w)
  <2>1. \A v \in Process : pc[v] \in KnownPhase /\ op[v] = Final =>
            claim[Final].status \in Known /\ 1 \in stored[Final]
      BY <1>a DEF IInv, ProcessOK, At, Knowing, Overtaken, Typed, DocumentsTyped
  <2>2. claim'[Final] = claim[Final] /\ stored'[Final] = stored[Final] /\ doc'[Final] = doc[Final]
      BY <1>a
  <2>3. \A r \in Part : /\ stored[r] = {} => stored'[r] = {}
                        /\ doc[r] = 0 => doc'[r] = 0
                        /\ Gone(r) => Gone(r)'
    <3>1. ASSUME NEW r \in Part, r # p PROVE UNCHANGED <<stored[r], doc[r], claim[r]>>
        BY <3>1
    <3> QED
        BY <3>1 DEF Gone
  <2>4. \A v \in Process : v # w /\ pc[v] \in OwnerPhase /\ ~Overtaken(op[v])' =>
         /\ claim'[op[v]] = claim[op[v]] /\ made'[op[v]] = made[op[v]]
         /\ stored'[op[v]] = stored[op[v]]
      BY <1>3, <2>2
  <2>5. \A v \in Process : v # w /\ pc[v] \in KnownPhase /\ ~Overtaken(op[v])' =>
         /\ claim'[op[v]].status \in Known /\ 1 \in stored'[op[v]]
         /\ doc[op[v]] = 1 => doc'[op[v]] = 1
      BY <1>3, <2>1, <2>2
  <2> QED
      BY <1>1, <1>2, <2>2, <2>3, <2>4, <2>5 DEF Harmless
<1>5. Agree'
  <2>1. ASSUME NEW y \in Object, ~Overtaken(y)' PROVE Once(y)' /\ Agrees(y)'
    <3>1. Once(y) /\ Agrees(y)
        BY <1>a, <2>1 DEF IInv, Agree
    <3>2. CASE y # p
        BY <1>1, <2>1, <3>1, <3>2 DEF Once, Agrees, Collecting
    <3>3. CASE y = p
      <4>1. Collecting(p)' /\ p \notin straddled
          BY <1>a, <2>1, <3>3 DEF Collecting
      <4>2. Once(y)'
          BY <3>1, <3>3 DEF Once, Claims
      <4>3. doc'[p] = 1 => claim'[p] = claim[p]
          BY <4>1
      <4> QED
          BY <1>a, <3>1, <3>3, <4>1, <4>2, <4>3 DEF Agrees, Once
    <3> QED
        BY <3>2, <3>3
  <2> QED
      BY <2>1 DEF Agree
<1>6. Collection'
  <2>1. AllGone => AllGone'
      BY <1>4 DEF Harmless, AllGone
  <2> QED
      BY <1>1, <2>1 DEF IInv, Collection
<1> QED
    BY <1>4, <1>5, <1>6 DEF Sound

\* What stands while a collection deletes.
LEMMA Collects ==
    ASSUME IInv, NEW w \in Process, pc[w] \in Deleting
    PROVE  /\ op[w] = Collect /\ collect # "none" /\ Committed /\ held[w] \in Part
           /\ Collector(op[w], pc[w], held[w])
  BY DEF IInv, ProcessOK, At, Placed, Holds, Collector, CollectPhase

LEMMA DeleteKeeps ==
    ASSUME IInv, NEW w \in Process, Actor(w), op' = op,
           \/ pc[w] = "object" /\ DeleteObject(held[w])
           \/ pc[w] = "document" /\ DeleteDocument(held[w])
           \/ pc[w] = "claim" /\ Release(held[w])
    PROVE  Sound(w)
<1>1. PICK p \in Part : p = held[w]
    BY Collects DEF Deleting
<1>2. collect # "none" /\ p \in Object /\ DocumentsTyped
      /\ (pc[w] = "claim" => p \in straddled \/ doc[p] = 0)
    BY <1>1, Collects, OpFacts DEF Deleting, Collector, IInv, Typed
<1>3. CASE pc[w] = "object" /\ DeleteObject(p)
  <2>1. stored' = [stored EXCEPT ![p] = @ \ {plan[p]}]
        /\ UNCHANGED <<claim, doc, made, collect, plan, straddled>>
      BY <1>3 DEF DeleteObject
  <2>2. DocumentsTyped'
      BY <1>2, <2>1 DEF DocumentsTyped
  <2> QED
      BY <1>2, <2>1, <2>2, DeletionKeeps DEF DocumentsTyped
<1>4. CASE pc[w] = "document" /\ DeleteDocument(p)
  <2>1. doc' = [doc EXCEPT ![p] = 0] /\ UNCHANGED <<claim, stored, made, collect, plan, straddled>>
      BY <1>4 DEF DeleteDocument
  <2>2. DocumentsTyped'
      BY <1>2, <2>1 DEF DocumentsTyped, Gen
  <2> QED
      BY <1>2, <2>1, <2>2, DeletionKeeps DEF DocumentsTyped
<1>5. CASE pc[w] = "claim" /\ Release(p)
  <2>1. claim' = [claim EXCEPT ![p] = NoClaim]
        /\ UNCHANGED <<doc, stored, made, collect, plan, straddled>>
      BY <1>5 DEF Release, SetClaim, ChangesClaim
  <2>2. DocumentsTyped'
      BY <1>2, <2>1, ClaimValues DEF DocumentsTyped, Claims
  <2>3. claim'[p] = NoClaim
      BY <1>2, <2>1 DEF DocumentsTyped
  <2> QED
      BY <1>2, <1>5, <2>1, <2>2, <2>3, DeletionKeeps DEF DocumentsTyped
<1> QED
    BY <1>1, <1>3, <1>4, <1>5

\* A collection is claimed: until then every part the commit assembled is
\* there, once.
LEMMA ClaimCollectionKeeps ==
    ASSUME IInv, NEW w \in Process, Actor(w), op' = op, op[w] = Collect, pc[w] = "create",
           ClaimCollection
    PROVE  Sound(w)
<1>a. /\ Committed /\ UNCHANGED <<claim, doc, stored, made, straddled>>
      /\ collect # "none" => UNCHANGED <<collect, plan>>
      /\ collect = "none" => collect' = "pending" /\ plan' = [p \in Part |-> doc[p]]
    BY DEF ClaimCollection, IInv, ProcessOK, At, Collector, CollectPhase
<1>b. DocumentsTyped
    BY DEF IInv, Typed
<1>1. DocumentsTyped'
  <2>1. \A p \in Part : doc[p] \in Gen
      BY <1>b, OpFacts DEF DocumentsTyped
  <2> QED
      BY <1>a, <1>b, <2>1 DEF DocumentsTyped
<1>2. /\ UNCHANGED <<Committed, AllGone>> /\ \A x : Kept(x) <=> Kept(x)'
      /\ \A x : Gone(x) <=> Gone(x)'
      /\ PartsThere => PartsThere'
      /\ \A x : (Overtaken(x) => Overtaken(x)') /\ (Collecting(x) => Collecting(x)')
    BY <1>a DEF Committed, AllGone, Gone, Kept, Published, PartsThere, Overtaken, Collecting
<1>3. Harmless(w)
  <2>1. ASSUME NEW v \in Process, pc[v] \in KnownPhase, ~Overtaken(op[v])'
        PROVE  claim'[op[v]].status \in Known /\ 1 \in stored'[op[v]]
    <3>1. ~Overtaken(op[v])
        BY <1>a, <2>1 DEF Overtaken
    <3> QED
        BY <1>a, <2>1, <3>1 DEF IInv, ProcessOK, At, Knowing
  <2> QED
      BY <1>a, <1>2, <2>1 DEF Harmless
<1>4. Agree'
  <2>1. ASSUME NEW y \in Object, ~Overtaken(y)' PROVE Once(y)' /\ Agrees(y)'
    <3>1. Once(y) /\ Agrees(y)
        BY <1>2, <2>1 DEF IInv, Agree
    <3> QED
        BY <1>a, <1>2, <3>1 DEF Once, Agrees
  <2> QED
      BY <2>1 DEF Agree
<1>5. Collection'
  <2>1. CASE collect # "none"
      BY <1>a, <1>2, <2>1 DEF IInv, Collection
  <2>2. CASE collect = "none"
    <3>1. PartsThere
      <4>1. claim[Final] # NoClaim /\ ~Overtaken(Final)
          BY <1>a, <2>2, ClaimValues DEF Committed, Overtaken
      <4> QED
          BY <4>1, OpFacts DEF IInv, Agree, Agrees
    <3>2. ASSUME NEW p \in Part PROVE doc[p] = 1
      <4>1. Once(p)
          BY <2>2, OpFacts DEF IInv, Agree, Overtaken
      <4> QED
          BY <2>2, <3>1, <4>1 DEF Once, PartsThere, Published
    <3> QED
        BY <1>a, <1>2, <2>2, <3>2 DEF Collection
  <2> QED
      BY <2>1, <2>2
<1> QED
    BY <1>1, <1>3, <1>4, <1>5 DEF Sound

LEMMA MarkKeeps ==
    ASSUME IInv, NEW w \in Process, Actor(w), op' = op, pc[w] = "mark", MarkCollected
    PROVE  Sound(w)
<1>a. /\ collect # "none" /\ AllGone
      /\ collect' = "completed" /\ UNCHANGED <<claim, doc, stored, made, plan, straddled>>
    BY DEF MarkCollected, IInv, ProcessOK, At, Collector
<1>1. DocumentsTyped'
    BY <1>a DEF IInv, Typed, DocumentsTyped
<1>2. /\ UNCHANGED <<Committed, AllGone>> /\ \A x : Kept(x) <=> Kept(x)'
      /\ \A x : Gone(x) <=> Gone(x)'
      /\ PartsThere => PartsThere'
      /\ \A x : (Overtaken(x) <=> Overtaken(x)') /\ (Collecting(x) => Collecting(x)')
    BY <1>a DEF Committed, AllGone, Gone, Kept, Published, PartsThere, Overtaken, Collecting
<1>3. Harmless(w)
  <2>1. ASSUME NEW v \in Process, pc[v] \in KnownPhase, ~Overtaken(op[v])'
        PROVE  claim'[op[v]].status \in Known /\ 1 \in stored'[op[v]]
    <3>1. ~Overtaken(op[v])
        BY <1>a, <2>1 DEF Overtaken
    <3> QED
        BY <1>a, <2>1, <3>1 DEF IInv, ProcessOK, At, Knowing
  <2> QED
      BY <1>a, <1>2, <2>1 DEF Harmless
<1>4. Agree'
  <2>1. ASSUME NEW y \in Object, ~Overtaken(y)' PROVE Once(y)' /\ Agrees(y)'
    <3>1. Once(y) /\ Agrees(y)
        BY <1>2, <2>1 DEF IInv, Agree
    <3> QED
        BY <1>a, <1>2, <3>1 DEF Once, Agrees
  <2> QED
      BY <2>1 DEF Agree
<1>5. Collection'
    BY <1>a, <1>2 DEF IInv, Collection
<1> QED
    BY <1>1, <1>3, <1>4, <1>5 DEF Sound

LEMMA WriteKeeps ==
    ASSUME IInv, NEW w \in Process, Actor(w), op' = op, Write(w), ~Overtaken(op[w])
    PROVE  Sound(w)
<1>1. CASE pc[w] = "create" /\ op[w] # Collect /\ CreateClaim(op[w])
  <2>1. op[w] \in Object
      BY <1>1, OpFacts DEF IInv, Typed, ProcessesTyped, ProcessOK, At, Placed
  <2> QED
      BY <1>1, <2>1, CreateKeeps
<1>2. CASE pc[w] = "create" /\ op[w] = Collect /\ ClaimCollection
    BY <1>2, ClaimCollectionKeeps
<1>3. CASE pc[w] = "upload" /\ Upload(op[w])
    BY <1>3, UploadKeeps
<1>4. CASE \/ pc[w] = "uncertain" /\ Uncertain(op[w])
           \/ pc[w] = "release" /\ Release(op[w])
           \/ pc[w] = "persist" /\ Record(op[w], "uploaded", held[w])
    BY <1>4, SettleKeeps
<1>5. CASE pc[w] = "complete" /\ Record(op[w], "completed", held[w])
    BY <1>5, CompleteKeeps
<1>6. CASE pc[w] = "publish" /\ Publish(op[w], held[w])
    BY <1>6, PublishKeeps
<1>7. CASE \/ pc[w] = "object" /\ DeleteObject(held[w])
           \/ pc[w] = "document" /\ DeleteDocument(held[w])
           \/ pc[w] = "claim" /\ Release(held[w])
    BY <1>7, DeleteKeeps
<1>8. CASE pc[w] = "mark" /\ MarkCollected
    BY <1>8, MarkKeeps
<1> QED
    BY <1>1, <1>2, <1>3, <1>4, <1>5, <1>6, <1>7, <1>8 DEF Write

(***************************************************************************)
(* Where the process goes.                                                 *)
(***************************************************************************)
\* w serves o at p and holds g from now on; the others stay where they are.
Lands(w, o, p, g) ==
    /\ op' = [op EXCEPT ![w] = o] /\ pc' = [pc EXCEPT ![w] = p]
    /\ held' = [held EXCEPT ![w] = g]

LEMMA Landed ==
    ASSUME IInv, NEW w \in Process,
           NEW o \in Op \cup {NoOp}, NEW p \in Places, NEW g \in Gen, Lands(w, o, p, g)
    PROVE  /\ Actor(w) /\ ProcessesTyped' /\ op'[w] = o /\ pc'[w] = p /\ held'[w] = g
           /\ o = op[w] => op' = op
  BY DEF IInv, Typed, ProcessesTyped, Lands, Actor

\* A step or an end within the operation.
LEMMA Moved ==
    ASSUME IInv, NEW w \in Process, NEW p \in Places, NEW g \in Gen, op' = op,
           pc' = [pc EXCEPT ![w] = p],
           (held' = held /\ held[w] = g) \/ held' = [held EXCEPT ![w] = g]
    PROVE  Actor(w) /\ ProcessesTyped' /\ op'[w] = op[w] /\ pc'[w] = p /\ held'[w] = g
  BY DEF IInv, Typed, ProcessesTyped, Actor

\* A step that leaves the documents alone keeps the invariant if its process
\* may be where it lands.
LEMMA ReadingStep ==
    ASSUME IInv, NEW w \in Process, UNCHANGED documents, op' = op,
           NEW p \in Places, NEW g \in Gen, pc' = [pc EXCEPT ![w] = p],
           (held' = held /\ held[w] = g) \/ held' = [held EXCEPT ![w] = g],
           At(op[w], p, g), p \in OwnerPhase => pc[w] \in OwnerPhase,
           acked' = acked, requests' = requests, faults' \in 0..MaxFaults
    PROVE  IInv'
<1>3. requests \in 0..MaxRequests
    BY DEF IInv, Typed, BoundsTyped
<1>5. Actor(w) /\ ProcessesTyped' /\ op'[w] = op[w] /\ pc'[w] = p /\ held'[w] = g
    BY Moved
<1>7. Sound(w)
    BY <1>5, ReadingKeeps DEF Sound
<1>8. /\ UNCHANGED <<Committed, PartsThere, AllGone>>
      /\ \A x : (Kept(x) <=> Kept(x)') /\ (Overtaken(x) <=> Overtaken(x)')
                /\ (Gone(x) <=> Gone(x)')
    BY DEF Committed, PartsThere, AllGone, Gone, Kept, Published, Overtaken, documents
<1>9. ProcessOK(w)'
  <2>0. PICK o : o = op[w] /\ o = op'[w]
      BY <1>5
  <2>1. Placed(o, p) /\ Holds(o, p, g)'
      BY <1>8, <2>0 DEF At, Holds
  <2>2. Owning(o, p)'
      BY <1>8, <2>0 DEF At, Owning, documents
  <2>3. Knowing(o, p, g)'
      BY <1>8, <2>0 DEF At, Knowing, documents
  <2>4. Collector(o, p, g)'
      BY <1>8, <2>0 DEF At, Collector, documents
  <2>5. Straddles(o, p)'
      BY <2>0 DEF At, Straddles, documents
  <2>6. At(o, p, g)'
      BY <2>1, <2>2, <2>3, <2>4, <2>5 DEF At, Placed
  <2> QED
      BY <1>5, <2>0, <2>6 DEF ProcessOK
<1>10. Typed'
    BY <1>3, <1>5, <1>7 DEF Typed, Sound, BoundsTyped
<1> QED
    BY <1>5, <1>7, <1>9, <1>10, StepKeeps DEF Sound

\* What At says of a place is spelled out by
\* DEF ProcessOK, At, Placed, Holds, Owning, Knowing, Collector, Straddles.
\* A failed operation knows nothing.
LEMMA FailedAt ==
    ASSUME IInv, NEW w \in Process, pc[w] # "idle"
    PROVE  /\ At(op[w], "outcome", 0) /\ op[w] # NoOp /\ "outcome" \in Places
           /\ "outcome" \notin OwnerPhase /\ ProcessOK(w) /\ 0 \in Gen /\ 1 \in Gen
           /\ held[w] \in Gen /\ op[w] \in Op /\ faults \in 0..MaxFaults
           /\ op[w] = Final => ~Overtaken(op[w])
  BY DEF IInv, ProcessOK, At, Placed, Holds, Owning, Knowing, Collector, Straddles, OwnerPhase,
         KnownPhase, CollectPhase, Deleting, Places, Typed, ProcessesTyped, BoundsTyped, Gen

LEMMA FailKeeps ==
    ASSUME IInv, NEW w \in Process, pc[w] # "idle", Fails(w), Reading
    PROVE  IInv'
  BY FailedAt, ReadingStep DEF Fails, End, Hold, Goto, Reading, documents

\* Which step it takes at p: Step and End, with the guards of ReadingStep.
LEMMA GoesOn ==
    ASSUME IInv, NEW w \in Process, NEW p \in Places \ OwnerPhase, Step(w, p), Reading,
           At(op[w], p, held[w])
    PROVE  IInv'
<1>1. PICK g \in Gen : g = held[w]
    BY DEF IInv, Typed, ProcessesTyped
<1>2. At(op[w], p, g) /\ held' = held /\ pc' = [pc EXCEPT ![w] = p]
    BY <1>1 DEF Step, Goto
<1>3. faults \in 0..MaxFaults
    BY DEF IInv, Typed, BoundsTyped
<1> QED
    BY <1>1, <1>2, <1>3, ReadingStep DEF Reading

LEMMA Ends ==
    ASSUME IInv, NEW w \in Process, NEW g, g = 1 => op[w] \in Object /\ Kept(op[w]),
           g \in {0, 1}, End(w, g), Reading, pc[w] # "idle"
    PROVE  IInv'
<1>1. At(op[w], "outcome", g)
    BY FailedAt DEF ProcessOK, At, Placed, Holds, Owning, Knowing, Collector, Straddles,
       OwnerPhase, KnownPhase, Deleting, CollectPhase
<1> QED
    BY <1>1, FailedAt, ReadingStep DEF End, Hold, Goto, Reading

\* What a process knows of the object whose claim or document it reads.
LEMMA ClaimRead ==
    ASSUME IInv, NEW w \in Process, op[w] \in Object, pc[w] \notin {"start", "outcome"},
           ~Overtaken(op[w])
    PROVE  LET c == claim[op[w]] IN
           /\ c.status \in Known => c.gen = 1 /\ 1 \in stored[op[w]]
           /\ doc[op[w]] \in {0, 1}
  BY WorkedOn, ClaimValues DEF Once, Claims, Claim, NoClaim

LEMMA PartStartKeeps ==
    ASSUME IInv, NEW w \in Process, PartStart(w)
    PROVE  IInv'
<1>a. pc[w] = "start" /\ op[w] \in Part /\ Reading
    BY DEF PartStart
<1>1. CASE Fails(w)
    BY <1>1, <1>a, FailKeeps
<1>2. CASE Step(w, "find") /\ claim[Final].status # "completed"
  <2>1. At(op[w], "find", held[w])
      BY <1>a, <1>2, FailedAt, OpFacts DEF ProcessOK, At, Placed, Holds, Owning,
         Knowing, Collector, Straddles, OwnerPhase, KnownPhase, Deleting, CollectPhase
  <2> QED
      BY <1>2, <2>1, <1>a, GoesOn DEF Places, OwnerPhase, KnownPhase
<1> QED
    BY <1>1, <1>2 DEF PartStart

LEMMA FindPartKeeps ==
    ASSUME IInv, NEW w \in Process, FindPart(w), ~Overtaken(op[w])
    PROVE  IInv'
<1>a. pc[w] = "find" /\ op[w] \in Part /\ op[w] \in Object /\ Reading
    BY OpFacts DEF FindPart, IInv, ProcessOK, At, Placed
<1>1. CASE Step(w, "read")
  <2>1. At(op[w], "read", held[w])
      BY <1>a, FailedAt, OpFacts DEF ProcessOK, At, Placed, Holds, Owning,
         Knowing, Collector, Straddles, OwnerPhase, KnownPhase, Deleting, CollectPhase
  <2> QED
      BY <1>1, <2>1, <1>a, GoesOn DEF Places, OwnerPhase, KnownPhase
<1>2. CASE End(w, IF Published(op[w]) THEN doc[op[w]] ELSE 0)
  <2>1. PICK g \in {0, 1} : g = (IF Published(op[w]) THEN doc[op[w]] ELSE 0)
      BY <1>a, ClaimRead
  <2>2. g = 1 => Kept(op[w])
      BY <2>1 DEF Kept
  <2>3. End(w, g)
      BY <1>2, <2>1
  <2> QED
      BY <1>a, <2>2, <2>3, Ends
<1> QED
    BY <1>1, <1>2 DEF FindPart

LEMMA ClaimedKeeps ==
    ASSUME IInv, NEW w \in Process, pc[w] \in {"read", "reread"}, op[w] \in Object,
           Claimed(w, claim[op[w]]), Reading, ~Overtaken(op[w])
    PROVE  IInv'
<1>a. pc[w] \notin {"idle", "start", "outcome"}
    OBVIOUS
<1>1. CASE claim[op[w]].status \in Known /\ Hold(w, claim[op[w]].gen) /\ Goto(w, "verify")
  <2>1. claim[op[w]].gen = 1 /\ 1 \in stored[op[w]]
      BY <1>a, <1>1, ClaimRead
  <2>2. At(op[w], "verify", 1)
      BY <1>1, <2>1, FailedAt, OpFacts DEF ProcessOK, At, Placed, Holds, Owning,
         Knowing, Collector, Straddles, OwnerPhase, KnownPhase, Deleting, CollectPhase
  <2>3. pc' = [pc EXCEPT ![w] = "verify"] /\ held' = [held EXCEPT ![w] = 1]
      BY <1>1, <2>1 DEF Hold, Goto
  <2> QED
      BY <1>a, <2>2, <2>3, FailedAt, ReadingStep DEF Reading, Places, OwnerPhase,
             KnownPhase
<1>2. CASE op[w] = Final /\ Step(w, "await")
  <2>1. At(op[w], "await", held[w])
      BY <1>2, FailedAt, OpFacts DEF ProcessOK, At, Placed, Holds, Owning,
         Knowing, Collector, Straddles, OwnerPhase, KnownPhase, Deleting, CollectPhase
  <2> QED
      BY <1>a, <1>2, <2>1, GoesOn DEF Places, OwnerPhase, KnownPhase
<1>3. CASE Fails(w)
    BY <1>3, FailKeeps
<1> QED
    BY <1>1, <1>2, <1>3 DEF Claimed

LEMMA ReadClaimKeeps ==
    ASSUME IInv, NEW w \in Process, ReadClaim(w), ~Overtaken(op[w])
    PROVE  IInv'
<1>a. pc[w] = "read" /\ op[w] \in Part /\ op[w] \in Object /\ Reading
    BY OpFacts DEF ReadClaim, IInv, ProcessOK, At, Placed
<1>1. CASE Step(w, "create")
  <2>1. At(op[w], "create", held[w])
      BY <1>a, FailedAt, OpFacts DEF ProcessOK, At, Placed, Holds, Owning,
         Knowing, Collector, Straddles, OwnerPhase, KnownPhase, Deleting, CollectPhase
  <2> QED
      BY <1>1, <2>1, <1>a, GoesOn DEF Places, OwnerPhase, KnownPhase
<1>2. CASE Claimed(w, claim[op[w]])
    BY <1>2, <1>a, ClaimedKeeps
<1> QED
    BY <1>1, <1>2 DEF ReadClaim

LEMMA RereadKeeps ==
    ASSUME IInv, NEW w \in Process, Reread(w), ~Overtaken(op[w])
    PROVE  IInv'
<1>a. pc[w] = "reread" /\ op[w] \in Object /\ Reading
    BY OpFacts DEF Reread, IInv, ProcessOK, At, Placed, Typed, ProcessesTyped
<1>1. CASE Fails(w)
    BY <1>1, <1>a, FailKeeps
<1>2. CASE Claimed(w, claim[op[w]])
    BY <1>2, <1>a, ClaimedKeeps
<1> QED
    BY <1>1, <1>2 DEF Reread

\* The generation the catalog shows may be answered.
LEMMA CommitAnswers ==
    ASSUME IInv, NEW w \in Process, op[w] = Final, pc[w] # "idle", Reading,
           End(w, doc[Final]),
           doc[Final] = 1 => 1 \in stored[Final]
    PROVE  IInv'
<1>1. PICK g \in {0, 1} : g = doc[Final]
    BY OpFacts, FailedAt DEF IInv, Agree, Once
<1>2. End(w, g)
    BY <1>1
<1>3. g = 1 => Kept(Final)
    BY <1>1 DEF Kept, Published
<1> QED
    BY <1>2, <1>3, Ends, OpFacts

LEMMA CommitStartKeeps ==
    ASSUME IInv, NEW w \in Process, CommitStart(w)
    PROVE  IInv'
<1>a. pc[w] = "start" /\ op[w] = Final /\ Reading
    BY DEF CommitStart
<1>1. CASE Committed /\ End(w, doc[Final])
    BY <1>1, <1>a, CommittedPublished, CommitAnswers
<1>2. CASE Step(w, "assemble")
  <2>1. At(op[w], "assemble", held[w])
      BY <1>a, FailedAt, OpFacts DEF ProcessOK, At, Placed, Holds, Owning,
         Knowing, Collector, Straddles, OwnerPhase, KnownPhase, Deleting, CollectPhase
  <2> QED
      BY <1>2, <2>1, <1>a, GoesOn DEF Places, OwnerPhase, KnownPhase
<1> QED
    BY <1>1, <1>2 DEF CommitStart

LEMMA AssembleKeeps ==
    ASSUME IInv, NEW w \in Process, Assemble(w)
    PROVE  IInv'
<1>a. pc[w] = "assemble" /\ op[w] = Final /\ Reading
    BY DEF Assemble, IInv, ProcessOK, At, Placed
<1>1. CASE (\A p \in Part : Published(p)) /\ Step(w, "create")
  <2>1. At(op[w], "create", held[w])
      BY <1>1, <1>a, FailedAt, OpFacts DEF ProcessOK, At, Placed, Holds, Owning, PartsThere,
         Knowing, Collector, Straddles, OwnerPhase, KnownPhase, Deleting, CollectPhase
  <2> QED
      BY <1>1, <2>1, <1>a, GoesOn DEF Places, OwnerPhase, KnownPhase
<1>2. CASE Fails(w)
    BY <1>2, <1>a, FailKeeps
<1> QED
    BY <1>1, <1>2 DEF Assemble

LEMMA AwaitKeeps ==
    ASSUME IInv, NEW w \in Process, Await(w)
    PROVE  IInv'
<1>a. pc[w] = "await" /\ op[w] = Final /\ Reading
    BY DEF Await, IInv, ProcessOK, At, Placed
<1>1. CASE Committed /\ End(w, doc[Final])
    BY <1>1, <1>a, CommittedPublished, CommitAnswers
<1>2. CASE Fails(w)
    BY <1>2, <1>a, FailKeeps
<1> QED
    BY <1>1, <1>2 DEF Await

LEMMA VerifyKeeps ==
    ASSUME IInv, NEW w \in Process, Verify(w), ~Overtaken(op[w])
    PROVE  IInv'
<1>a. pc[w] = "verify" /\ Reading /\ pc[w] \in KnownPhase
    BY DEF Verify, KnownPhase
<1>1. CASE Fails(w)
    BY <1>1, <1>a, FailKeeps
<1>2. CASE op[w] = Final /\ Step(w, "complete")
  <2>1. At(op[w], "complete", held[w])
      BY <1>2, <1>a, KnownObject, FailedAt, OpFacts DEF ProcessOK, At, Placed, Holds, Owning,
         Knowing, Collector, Straddles, OwnerPhase, KnownPhase, Deleting, CollectPhase
  <2> QED
      BY <1>2, <2>1, <1>a, GoesOn DEF Places, OwnerPhase, KnownPhase
<1>3. CASE op[w] # Final /\ Step(w, "publish")
  <2>1. At(op[w], "publish", held[w])
      BY <1>3, <1>a, KnownObject, FailedAt, OpFacts DEF ProcessOK, At, Placed, Holds, Owning,
         Knowing, Collector, Straddles, OwnerPhase, KnownPhase, Deleting, CollectPhase
  <2> QED
      BY <1>3, <2>1, <1>a, GoesOn DEF Places, OwnerPhase, KnownPhase
<1> QED
    BY <1>1, <1>2, <1>3 DEF Verify

LEMMA WinnerKeeps ==
    ASSUME IInv, NEW w \in Process, Winner(w), ~Overtaken(op[w])
    PROVE  IInv'
<1>a. /\ pc[w] = "winner" /\ Reading /\ pc[w] \in KnownPhase
      /\ op[w] \in Object /\ held[w] = 1 /\ 1 \in stored[op[w]]
    BY KnownObject DEF Winner, KnownPhase
<1>1. CASE op[w] = Final /\ End(w, doc[Final])
    BY <1>1, <1>a, CommitAnswers
<1>2. CASE End(w, IF doc[op[w]] = held[w] /\ Published(op[w]) THEN held[w] ELSE 0)
  <2>1. PICK g \in {0, 1} : g = (IF doc[op[w]] = held[w] /\ Published(op[w]) THEN held[w] ELSE 0)
      BY <1>a
  <2>2. g = 1 => Kept(op[w])
      BY <1>a, <2>1 DEF Kept
  <2>3. End(w, g)
      BY <1>2, <2>1
  <2> QED
      BY <1>a, <2>2, <2>3, Ends
<1> QED
    BY <1>1, <1>2 DEF Winner

LEMMA CollectStartKeeps ==
    ASSUME IInv, NEW w \in Process, CollectStart(w)
    PROVE  IInv'
<1>a. pc[w] = "start" /\ op[w] = Collect /\ Reading
    BY DEF CollectStart
<1>1. CASE Fails(w)
    BY <1>1, <1>a, FailKeeps
<1>2. CASE Committed /\ collect = "pending" /\ Step(w, "witness")
  <2>1. At(op[w], "witness", held[w])
      BY <1>2, <1>a, FailedAt, OpFacts DEF ProcessOK, At, Placed, Holds, Owning,
         Knowing, Collector, Straddles, OwnerPhase, KnownPhase, Deleting, CollectPhase
  <2> QED
      BY <1>2, <2>1, <1>a, GoesOn DEF Places, OwnerPhase, KnownPhase
<1>3. CASE Committed /\ Step(w, "create")
  <2>1. At(op[w], "create", held[w])
      BY <1>3, <1>a, FailedAt, OpFacts DEF ProcessOK, At, Placed, Holds, Owning,
         Knowing, Collector, Straddles, OwnerPhase, KnownPhase, Deleting, CollectPhase
  <2> QED
      BY <1>3, <2>1, <1>a, GoesOn DEF Places, OwnerPhase, KnownPhase
<1> QED
    BY <1>1, <1>2, <1>3 DEF CollectStart

LEMMA RereadCollectionKeeps ==
    ASSUME IInv, NEW w \in Process, RereadCollection(w)
    PROVE  IInv'
<1>a. pc[w] = "reread" /\ op[w] = Collect /\ Reading
    BY DEF RereadCollection
<1>1. CASE Fails(w)
    BY <1>1, <1>a, FailKeeps
<1>2. CASE collect = "pending" /\ Step(w, "witness")
  <2>1. At(op[w], "witness", held[w])
      BY <1>2, <1>a, FailedAt, OpFacts DEF ProcessOK, At, Placed, Holds, Owning,
         Knowing, Collector, Straddles, OwnerPhase, KnownPhase, Deleting, CollectPhase
  <2> QED
      BY <1>2, <2>1, <1>a, GoesOn DEF Places, OwnerPhase, KnownPhase
<1> QED
    BY <1>1, <1>2 DEF RereadCollection

LEMMA WitnessKeeps ==
    ASSUME IInv, NEW w \in Process, Witness(w)
    PROVE  IInv'
<1>a. pc[w] = "witness" /\ op[w] = Collect /\ Reading /\ collect # "none" /\ held[w] = 0
    BY OpFacts DEF Witness, IInv, ProcessOK, At, Placed, Holds, Collector, Deleting
<1>1. CASE Fails(w)
    BY <1>1, <1>a, FailKeeps
<1>2. CASE Parts = 0 /\ Step(w, "mark") /\ Committed
  <2>1. At(op[w], "mark", held[w])
      BY <1>2, <1>a, FailedAt, OpFacts DEF ProcessOK, At, Placed, Holds, Owning, AllGone, Part,
         Knowing, Collector, Straddles, OwnerPhase, KnownPhase, Deleting, CollectPhase
  <2> QED
      BY <1>2, <2>1, <1>a, GoesOn DEF Places, OwnerPhase, KnownPhase
<1>3. CASE Parts # 0 /\ Hold(w, 1) /\ Goto(w, "object") /\ Committed
  <2>1. 1 \in Part /\ \A r \in Part : ~(r < 1)
      BY <1>3, BoundAssumption DEF Part
  <2>2. At(op[w], "object", 1)
      BY <1>3, <1>a, <2>1, FailedAt, OpFacts DEF ProcessOK, At, Placed, Holds, Owning,
         Knowing, Collector, Straddles, OwnerPhase, KnownPhase, Deleting, CollectPhase
  <2>3. "object" \in Places /\ "object" \notin OwnerPhase
      BY DEF Places, OwnerPhase, Deleting
  <2> QED
      BY <1>3, <1>a, <2>2, <2>3, FailedAt, ReadingStep DEF Hold, Goto, Reading
<1> QED
    BY <1>1, <1>2, <1>3 DEF Witness

\* An update of a claim that is gone.
LEMMA UpdateRefusedKeeps ==
    ASSUME IInv, NEW w \in Process, UpdateRefused(w)
    PROVE  IInv'
  BY FailKeeps DEF UpdateRefused

(***************************************************************************)
(* The steps that write.                                                   *)
(***************************************************************************)
\* The step moves w to p and nothing else but documents and failures.
Writer(w, p, g) ==
    /\ op' = op /\ pc' = [pc EXCEPT ![w] = p]
    /\ (held' = held /\ held[w] = g) \/ held' = [held EXCEPT ![w] = g]
    /\ acked' = acked /\ requests' = requests /\ faults' \in 0..MaxFaults

LEMMA WriterActs ==
    ASSUME IInv, NEW w \in Process, NEW p \in Places, NEW g \in Gen, Writer(w, p, g)
    PROVE  Actor(w) /\ ProcessesTyped' /\ op'[w] = op[w] /\ pc'[w] = p /\ held'[w] = g
  BY Moved DEF Writer

LEMMA WritingStep ==
    ASSUME IInv, NEW w \in Process, NEW p \in Places, NEW g \in Gen, Writer(w, p, g),
           Sound(w), ProcessOK(w)',
           p \in OwnerPhase => pc[w] \in OwnerPhase \/ claim[op[w]] = NoClaim
    PROVE  IInv'
<1>1. Actor(w) /\ ProcessesTyped' /\ op'[w] = op[w] /\ pc'[w] = p
    BY WriterActs
<1>2. Typed'
    BY <1>1 DEF Typed, Sound, BoundsTyped, IInv, Writer
<1> QED
    BY <1>1, <1>2, StepKeeps DEF Sound, Writer

\* An upload under way stays accounted for.
LEMMA StraddlesOn ==
    ASSUME IInv, NEW w \in Process, Harmless(w), op'[w] = op[w],
           pc[w] \notin {"start", "outcome"}, NEW p
    PROVE  Straddles(op[w], p)'
<1>1. Straddles(op[w], pc[w])
    BY DEF IInv, ProcessOK, At
<1>2. op[w] \in Part => op[w] \in Underway
    BY DEF Underway
<1> QED
    BY <1>1, <1>2 DEF Straddles, Harmless

\* A write that fails its process, applied or not.
LEMMA WriteFails ==
    ASSUME IInv, NEW w \in Process, Writer(w, "outcome", 0), pc[w] # "idle",
           Write(w) \/ UNCHANGED documents, ~Overtaken(op[w])
    PROVE  IInv'
<1>1. Actor(w) /\ op'[w] = op[w] /\ pc'[w] = "outcome" /\ held'[w] = 0
    BY WriterActs, FailedAt
<1>2. Sound(w)
    BY <1>1, WriteKeeps, ReadingKeeps DEF Sound, Writer
<1>3. ~Overtaken(Final)'
    BY <1>2, OvertakenStays DEF Sound
<1>4. ProcessOK(w)'
    BY <1>1, <1>3, FailedAt DEF ProcessOK, At, Placed, Holds, Owning, Knowing, Collector,
         Straddles, OwnerPhase, KnownPhase, Deleting, CollectPhase
<1> QED
    BY <1>2, <1>4, FailedAt, WritingStep

\* A collection is claimed, or was.
LEMMA CollectionGoesOn ==
    ASSUME IInv, NEW w \in Process, NEW p \in {"witness", "reread"}, Writer(w, p, 0),
           pc[w] = "create", op[w] = Collect, ClaimCollection \/ UNCHANGED documents,
           p = "witness" => ClaimCollection
    PROVE  IInv'
<1>1. /\ Actor(w) /\ op'[w] = op[w] /\ pc'[w] = p /\ held'[w] = 0 /\ p \in Places
      /\ op' = op
    BY WriterActs DEF Writer, Places, Gen
<1>2. Committed
    BY DEF IInv, ProcessOK, At, Collector, CollectPhase
<1>3. Sound(w)
    BY <1>1, ClaimCollectionKeeps, ReadingKeeps DEF Sound
<1>4. Committed' /\ (p = "witness" => collect' # "none")
    BY <1>2, <1>3 DEF Sound, Harmless, ClaimCollection
<1>5. ProcessOK(w)'
    BY <1>1, <1>4, OpFacts DEF ProcessOK, At, Placed, Holds, Owning, Knowing,
       Collector, Straddles, OwnerPhase, KnownPhase, Deleting, CollectPhase
<1> QED
    BY <1>1, <1>3, <1>5, WritingStep DEF OwnerPhase, Gen

\* What a process may do next with an object, given what is there after the
\* write.
LEMMA ObjectGoesOn ==
    ASSUME IInv, NEW w \in Process, NEW p \in OwnerPhase \cup KnownPhase \cup {"reread"},
           NEW g \in {0, 1}, Writer(w, p, g), Write(w) \/ UNCHANGED documents,
           op[w] \in Object, pc[w] \notin {"idle", "start", "outcome"}, ~Overtaken(op[w]),
           g = 1 <=> p = "persist" \/ p \in KnownPhase,
           Owning(op[w], p)', Knowing(op[w], p, g)',
           p \in OwnerPhase => pc[w] \in OwnerPhase \/ claim[op[w]] = NoClaim
    PROVE  IInv'
<1>a. p \in Places /\ g \in Gen
    BY DEF Places, Gen
<1>1. Actor(w) /\ op'[w] = op[w] /\ pc'[w] = p /\ held'[w] = g /\ op' = op
    BY <1>a, WriterActs DEF Writer
<1>2. Sound(w)
    BY <1>1, WriteKeeps, ReadingKeeps DEF Sound
<1>3. ~Overtaken(Final)' /\ Straddles(op[w], p)'
    BY <1>1, <1>2, OvertakenStays, StraddlesOn DEF Sound
<1>4. ProcessOK(w)'
  <2>1. Placed(op[w], p)'
      BY <1>1, FailedAt, OpFacts DEF Placed, Deleting, OwnerPhase, KnownPhase
  <2>2. Holds(op[w], p, g)'
      BY <1>1, <1>3 DEF Holds, Deleting, OwnerPhase, KnownPhase
  <2>3. Collector(op[w], p, g)'
      BY <1>1, OpFacts DEF Collector, Deleting, OwnerPhase, KnownPhase
  <2>4. PICK o : o = op[w] /\ o = op'[w]
      BY <1>1
  <2>5. At(o, p, g)'
      BY <2>1, <2>2, <2>3, <2>4, <1>3 DEF At
  <2> QED
      BY <1>1, <2>4, <2>5 DEF ProcessOK
<1> QED
    BY <1>a, <1>2, <1>4, WritingStep

LEMMA CreateGoesOn ==
    ASSUME IInv, NEW w \in Process, pc[w] = "create", op[w] \in Object, ~Overtaken(op[w]),
           CreateClaim(op[w]), NEW p \in {"upload", "reread"},
           p = "upload" <=> claim[op[w]] = NoClaim, Writer(w, p, 0)
    PROVE  IInv'
<1>1. Write(w)
    BY OpFacts DEF Write
<1>2. /\ claim[op[w]] = NoClaim => claim'[op[w]] = Claim("pending", 0)
      /\ made' = made
    BY DEF CreateClaim, ChangesClaim, IInv, Typed, DocumentsTyped
<1>3. claim[op[w]] = NoClaim => made[op[w]] = 0
    BY WorkedOn DEF Once
<1>4. op'[w] = op[w]
    BY DEF Writer
<1>5. Owning(op[w], p)' /\ Knowing(op[w], p, 0)'
    BY <1>2, <1>3, <1>4 DEF Owning, Knowing, KnownPhase, OwnerPhase
<1> QED
    BY <1>1, <1>5, ObjectGoesOn DEF OwnerPhase, KnownPhase

LEMMA UploadGoesOn ==
    ASSUME IInv, NEW w \in Process, pc[w] = "upload", Upload(op[w]), Writer(w, "persist", 1),
           ~Overtaken(op[w])
    PROVE  IInv'
<1>1. Write(w) /\ pc[w] \in OwnerPhase
    BY DEF Write, OwnerPhase
<1>2. /\ op[w] \in Object /\ made[op[w]] = 0 /\ claim[op[w]] = Claim("pending", 0)
    BY <1>1, Owned
<1>3. /\ claim'[op[w]] = Claim("pending", 0) /\ made'[op[w]] = 1
      /\ 1 \in stored'[op[w]]
    BY <1>2 DEF Upload, IInv, Typed, DocumentsTyped
<1>4. op'[w] = op[w]
    BY DEF Writer
<1>5. Owning(op[w], "persist")' /\ Knowing(op[w], "persist", 1)'
    BY <1>3, <1>4 DEF Owning, Knowing, KnownPhase
<1> QED
    BY <1>1, <1>2, <1>5, ObjectGoesOn DEF OwnerPhase, KnownPhase

\* An upload that is not answered leaves the claim to be marked uncertain, one
\* that is refused leaves it to be given back.
LEMMA UploadFails ==
    ASSUME IInv, NEW w \in Process, pc[w] = "upload", Writer(w, "uncertain", 0),
           Write(w) \/ UNCHANGED documents, ~Overtaken(op[w])
    PROVE  IInv'
<1>1. pc[w] \in OwnerPhase /\ op[w] \in Object /\ claim[op[w]] = Claim("pending", 0)
    BY Owned DEF OwnerPhase
<1>2. claim' = claim
    BY DEF Write, Upload, documents, Deleting
<1>4. op'[w] = op[w]
    BY DEF Writer
<1>5. Owning(op[w], "uncertain")' /\ Knowing(op[w], "uncertain", 0)'
    BY <1>1, <1>2, <1>4 DEF Owning, Knowing, KnownPhase
<1> QED
    BY <1>1, <1>5, ObjectGoesOn DEF OwnerPhase, KnownPhase

LEMMA PersistGoesOn ==
    ASSUME IInv, NEW w \in Process, pc[w] = "persist", Record(op[w], "uploaded", held[w]),
           Writer(w, "verify", 1), ~Overtaken(op[w])
    PROVE  IInv'
<1>1. Write(w) /\ pc[w] \in OwnerPhase
    BY DEF Write, OwnerPhase
<1>2. /\ op[w] \in Object /\ 1 \in stored[op[w]] /\ held[w] = 1
    BY <1>1, Owned
<1>3. claim'[op[w]] = Claim("uploaded", 1) /\ 1 \in stored'[op[w]]
    BY <1>2 DEF Record, ChangesClaim, IInv, Typed, DocumentsTyped
<1>4. op'[w] = op[w]
    BY DEF Writer
<1>5. Owning(op[w], "verify")' /\ Knowing(op[w], "verify", 1)'
    BY <1>3, <1>4, ClaimValues DEF Owning, Knowing, OwnerPhase
<1> QED
    BY <1>1, <1>2, <1>5, ObjectGoesOn DEF OwnerPhase, KnownPhase

LEMMA CompleteGoesOn ==
    ASSUME IInv, NEW w \in Process, pc[w] = "complete", op[w] = Final,
           Record(op[w], "completed", held[w]), Writer(w, "publish", 1)
    PROVE  IInv'
<1>1. Write(w) /\ pc[w] \in KnownPhase /\ ~Overtaken(op[w])
    BY FailedAt DEF Write, KnownPhase
<1>2. /\ op[w] \in Object /\ 1 \in stored[op[w]] /\ held[w] = 1
    BY <1>1, KnownObject
<1>3. claim'[op[w]] = Claim("completed", 1) /\ 1 \in stored'[op[w]]
    BY <1>2 DEF Record, ChangesClaim, IInv, Typed, DocumentsTyped
<1>4. op'[w] = op[w]
    BY DEF Writer
<1>5. Owning(op[w], "publish")' /\ Knowing(op[w], "publish", 1)'
    BY <1>3, <1>4, ClaimValues DEF Owning, Knowing, OwnerPhase
<1> QED
    BY <1>1, <1>2, <1>5, ObjectGoesOn DEF OwnerPhase, KnownPhase

\* A part that was completed, and an archive that was published, is answered.
LEMMA ObjectAnswered ==
    ASSUME IInv, NEW w \in Process, Writer(w, "outcome", 1), Write(w), ~Overtaken(op[w]),
           \/ pc[w] = "complete" /\ op[w] # Final
           \/ pc[w] = "publish" /\ op[w] = Final
    PROVE  IInv'
<1>1. pc[w] \in KnownPhase /\ op[w] \in Object /\ held[w] = 1 /\ 1 \in stored[op[w]]
    BY KnownObject DEF KnownPhase
<1>2. /\ Actor(w) /\ op'[w] = op[w] /\ pc'[w] = "outcome" /\ held'[w] = 1
      /\ op' = op
    BY WriterActs, FailedAt DEF Writer
<1>3. doc'[op[w]] = 1 /\ stored' = stored
  <2>1. CASE pc[w] = "complete"
    <3>1. doc[op[w]] = 1
        BY <1>1, <2>1, OpFacts DEF IInv, ProcessOK, At, Knowing
    <3> QED
        BY <2>1, <3>1 DEF Write, Record, ChangesClaim
  <2>2. CASE pc[w] = "publish"
    <3>1. Publish(op[w], 1)
        BY <1>1, <2>2 DEF Write
    <3>2. doc[op[w]] \in {0, 1}
        BY <1>1, <2>2, WorkedOn DEF Once
    <3> QED
        BY <1>1, <3>1, <3>2 DEF Publish, IInv, Typed, DocumentsTyped
  <2> QED
      BY <2>1, <2>2
<1>4. Kept(op[w])'
    BY <1>1, <1>2, <1>3 DEF Kept, Published
<1>5. Sound(w)
    BY <1>2, WriteKeeps
<1>6. ~Overtaken(Final)'
    BY <1>5, OvertakenStays DEF Sound
<1>7. ProcessOK(w)'
    BY <1>1, <1>2, <1>4, <1>6, FailedAt, OpFacts DEF ProcessOK, At, Placed, Holds, Owning,
       Knowing, Collector, Straddles, OwnerPhase, KnownPhase, Deleting, CollectPhase
<1> QED
    BY <1>5, <1>7, FailedAt, WritingStep

\* A part is published before its claim is completed.
LEMMA PublishGoesOn ==
    ASSUME IInv, NEW w \in Process, pc[w] = "publish", op[w] # Final, doc[op[w]] = 0,
           Write(w), Writer(w, "complete", 1), ~Overtaken(op[w])
    PROVE  IInv'
<1>1. pc[w] \in KnownPhase
    BY DEF KnownPhase
<1>2. /\ op[w] \in Object /\ 1 \in stored[op[w]] /\ held[w] = 1 /\ claim[op[w]].status \in Known
    BY <1>1, KnownObject
<1>3. Publish(op[w], 1)
    BY <1>2 DEF Write
<1>4. claim' = claim /\ stored' = stored /\ doc'[op[w]] = 1 /\ op'[w] = op[w]
    BY <1>2, <1>3 DEF Publish, Writer, IInv, Typed, DocumentsTyped
<1>5. Owning(op[w], "complete")' /\ Knowing(op[w], "complete", 1)'
    BY <1>2, <1>4 DEF Owning, Knowing, OwnerPhase
<1> QED
    BY <1>1, <1>2, <1>5, ObjectGoesOn DEF OwnerPhase, KnownPhase

\* Publishing was refused or is unclear: the claim still stands for the object.
LEMMA PublishRead ==
    ASSUME IInv, NEW w \in Process, pc[w] = "publish", Write(w) \/ UNCHANGED documents,
           Writer(w, "winner", 1), ~Overtaken(op[w])
    PROVE  IInv'
<1>1. pc[w] \in KnownPhase
    BY DEF KnownPhase
<1>2. /\ op[w] \in Object /\ 1 \in stored[op[w]] /\ claim[op[w]].status \in Known
      /\ op[w] = Final => claim[Final].status = "completed"
    BY <1>1, KnownObject DEF IInv, ProcessOK, At, Knowing
<1>3. claim' = claim /\ stored' = stored /\ op'[w] = op[w]
    BY DEF Write, Publish, documents, Writer
<1>4. Owning(op[w], "winner")' /\ Knowing(op[w], "winner", 1)'
    BY <1>2, <1>3 DEF Owning, Knowing, OwnerPhase
<1> QED
    BY <1>1, <1>2, <1>4, ObjectGoesOn DEF OwnerPhase, KnownPhase

\* A deletion is followed by the next, and the last by the end.
LEMMA DeletionGoesOn ==
    ASSUME IInv, NEW w \in Process, pc[w] \in Deleting, Write(w), NEW p \in Places,
           NEW g \in Gen, Writer(w, p, g),
           \/ pc[w] = "object" /\ p = "document" /\ g = held[w]
           \/ pc[w] = "document" /\ p = "claim" /\ g = held[w]
           \/ pc[w] = "claim" /\ p = "mark" /\ g = 0 /\ held[w] = Parts
           \/ pc[w] = "claim" /\ p = "object" /\ g = held[w] + 1 /\ held[w] # Parts
    PROVE  IInv'
<1>1. Actor(w) /\ op'[w] = op[w] /\ pc'[w] = p /\ held'[w] = g /\ op' = op
    BY WriterActs DEF Writer
<1>2. PICK r \in Part : r = held[w] /\ op[w] = Collect /\ collect # "none" /\ Committed
                        /\ Collector(op[w], pc[w], r)
    BY Collects
<1>3. ~Overtaken(op[w])
    BY <1>2, OpFacts DEF IInv, Typed, DocumentsTyped, Overtaken
<1>4. Sound(w)
    BY <1>1, <1>3, WriteKeeps
<1>5. /\ Committed' /\ collect' # "none" /\ straddled' = straddled
      /\ \A q \in Part \ straddled : /\ stored[q] = {} => stored'[q] = {}
                                     /\ doc[q] = 0 => doc'[q] = 0
                                     /\ Gone(q) => Gone(q)'
    BY <1>2, <1>4, OvertakenStays DEF Sound, Harmless
<1>6. \A q \in Part \ straddled : q < r => Gone(q)'
    BY <1>2, <1>5 DEF Collector
<1>7. ASSUME r \notin straddled
      PROVE  /\ pc[w] = "object" => stored'[r] = {}
             /\ pc[w] = "document" => stored'[r] = {} /\ doc'[r] = 0
             /\ pc[w] = "claim" => Gone(r)'
  <2>1. r \in Object /\ DocumentsTyped
      BY OpFacts DEF IInv, Typed
  <2>2. Once(r) /\ plan[r] = 1
      BY <1>2, <1>7, <2>1 DEF IInv, Agree, Overtaken, Collection
  <2>3. CASE pc[w] = "object"
    <3>1. stored' = [stored EXCEPT ![r] = @ \ {plan[r]}]
        BY <1>2, <2>3 DEF Write, DeleteObject
    <3> QED
        BY <2>1, <2>2, <2>3, <3>1 DEF Once, DocumentsTyped
  <2>4. CASE pc[w] = "document"
    <3>1. doc' = [doc EXCEPT ![r] = 0] /\ stored' = stored
        BY <1>2, <2>4 DEF Write, DeleteDocument
    <3> QED
        BY <1>2, <1>7, <2>1, <2>4, <3>1 DEF Collector, DocumentsTyped
  <2>5. CASE pc[w] = "claim"
    <3>1. claim' = [claim EXCEPT ![r] = NoClaim] /\ stored' = stored /\ doc' = doc
        BY <1>2, <2>5 DEF Write, Release, SetClaim, ChangesClaim
    <3> QED
        BY <1>2, <1>7, <2>1, <2>5, <3>1 DEF Collector, DocumentsTyped, Gone
  <2> QED
      BY <2>3, <2>4, <2>5
<1>8. ProcessOK(w)'
  <2>1. Collector(Collect, p, g)'
    <3>1. CASE pc[w] = "object" \/ pc[w] = "document"
        BY <1>2, <1>5, <1>6, <1>7, <3>1 DEF Collector, Deleting
    <3>2. CASE pc[w] = "claim" /\ p = "mark"
      <4>1. \A q \in Part : q < r \/ q = r
          BY <1>2, <3>2, BoundAssumption DEF Part
      <4> QED
          BY <1>5, <1>6, <1>7, <3>2, <4>1 DEF Collector, Deleting, AllGone
    <3>3. CASE pc[w] = "claim" /\ p = "object"
      <4>1. \A q \in Part : q < g => q < r \/ q = r
          BY <1>2, <3>3, BoundAssumption DEF Part
      <4> QED
          BY <1>5, <1>6, <1>7, <3>3, <4>1 DEF Collector, Deleting
    <3> QED
        BY <3>1, <3>2, <3>3 DEF Deleting
  <2>2. p \in Deleting => g \in Part
      BY <1>2, BoundAssumption DEF Deleting, Part
  <2> QED
      BY <1>1, <1>2, <2>1, <2>2, OpFacts DEF ProcessOK, At, Placed, Holds, Owning,
         Knowing, Straddles, OwnerPhase, KnownPhase, Deleting
<1> QED
    BY <1>4, <1>8, WritingStep DEF OwnerPhase

LEMMA HeldAt ==
    ASSUME IInv, NEW w \in Process, pc[w] \notin {"outcome"} \cup Deleting, ~Overtaken(op[w])
    PROVE  /\ pc[w] = "persist" \/ pc[w] \in KnownPhase => held[w] = 1
           /\ ~(pc[w] = "persist" \/ pc[w] \in KnownPhase) => held[w] = 0
<1>1. Placed(op[w], pc[w]) /\ Holds(op[w], pc[w], held[w])
    BY DEF IInv, ProcessOK, At
<1> QED
    BY <1>1 DEF Placed, Holds, OwnerPhase

LEMMA WritesKeeps ==
    ASSUME IInv, NEW w \in Process, Writes(w), ~Overtaken(op[w])
    PROVE  IInv'
<1> USE DEF Writer, Step, Goto, Hold, End, Fails
<1>a. /\ Write(w) /\ Answered(w) /\ UNCHANGED <<op, acked, requests, faults>>
      /\ faults' \in 0..MaxFaults /\ pc[w] # "idle" /\ pc[w] # "outcome"
    BY DEF Writes, Writing, IInv, Typed, BoundsTyped, Deleting
<1>1. CASE pc[w] = "create" /\ op[w] = Collect
  <2>1. held[w] = 0 /\ ClaimCollection
      BY <1>a, <1>1, HeldAt DEF Write, KnownPhase, Deleting
  <2>2. pc' = [pc EXCEPT ![w] = IF collect = "none" THEN "witness" ELSE "reread"]
        /\ held' = held
      BY <1>a, <1>1 DEF Answered, Deleting
  <2>3. CASE collect = "none"
      BY <1>a, <1>1, <2>1, <2>2, <2>3, CollectionGoesOn
  <2>4. CASE collect # "none"
      BY <1>a, <1>1, <2>1, <2>2, <2>4, CollectionGoesOn
  <2> QED
      BY <2>3, <2>4
<1>2. CASE pc[w] = "create" /\ op[w] # Collect
  <2>1. op[w] \in Object /\ CreateClaim(op[w]) /\ held[w] = 0
      BY <1>a, <1>2, FailedAt, HeldAt, OpFacts DEF Write, KnownPhase, Deleting
  <2>2. pc' = [pc EXCEPT ![w] = IF claim[op[w]] = NoClaim THEN "upload" ELSE "reread"]
        /\ held' = held
      BY <1>a, <1>2 DEF Answered, Deleting
  <2>3. CASE claim[op[w]] = NoClaim
      BY <1>a, <1>2, <2>1, <2>2, <2>3, CreateGoesOn
  <2>4. CASE claim[op[w]] # NoClaim
      BY <1>a, <1>2, <2>1, <2>2, <2>4, CreateGoesOn
  <2> QED
      BY <2>3, <2>4
<1>3. CASE pc[w] = "upload"
  <2>1. Upload(op[w]) /\ made[op[w]] + 1 = 1
      BY <1>a, <1>3, Owned DEF Write, OwnerPhase, Deleting
  <2>2. pc' = [pc EXCEPT ![w] = "persist"] /\ held' = [held EXCEPT ![w] = 1]
      BY <1>a, <1>3, <2>1 DEF Answered, Deleting
  <2> QED
      BY <1>a, <1>3, <2>1, <2>2, UploadGoesOn
<1>4. CASE pc[w] \in {"uncertain", "release", "mark"}
    BY <1>a, <1>4, WriteFails DEF Answered, Deleting
<1>5. CASE pc[w] = "persist"
    BY <1>a, <1>5, HeldAt, PersistGoesOn DEF Answered, Write, Deleting
<1>6. CASE pc[w] = "complete"
  <2>1. held[w] = 1
      BY <1>a, <1>6, HeldAt DEF KnownPhase, Deleting
  <2>2. CASE op[w] = Final
      BY <1>a, <1>6, <2>1, <2>2, CompleteGoesOn DEF Answered, Write, Deleting
  <2>3. CASE op[w] # Final
      BY <1>a, <1>6, <2>1, <2>3, ObjectAnswered DEF Answered, Deleting
  <2> QED
      BY <2>2, <2>3
<1>7. CASE pc[w] = "publish"
  <2>1. held[w] = 1
      BY <1>a, <1>7, HeldAt DEF KnownPhase, Deleting
  <2>2. CASE doc[op[w]] # 0
      BY <1>a, <1>7, <2>1, <2>2, PublishRead DEF Answered, Deleting
  <2>3. CASE doc[op[w]] = 0 /\ op[w] = Final
      BY <1>a, <1>7, <2>1, <2>3, ObjectAnswered DEF Answered, Deleting
  <2>4. CASE doc[op[w]] = 0 /\ op[w] # Final
      BY <1>a, <1>7, <2>1, <2>4, PublishGoesOn DEF Answered, Deleting
  <2> QED
      BY <2>2, <2>3, <2>4
<1>8. CASE pc[w] \in Deleting
  <2>1. held[w] \in Part /\ held[w] \in Gen /\ 0 \in Gen /\ held[w] + 1 \in Gen
      BY <1>8, Collects, BoundAssumption DEF Part, Gen
  <2>2. Deleting \subseteq Places /\ "mark" \in Places
      BY DEF Places
  <2>3. NextDeletion(w)
      BY <1>a, <1>8 DEF Answered, Deleting
  <2>4. CASE pc[w] = "object"
      BY <1>a, <1>8, <2>1, <2>2, <2>3, <2>4, DeletionGoesOn DEF NextDeletion, Deleting
  <2>5. CASE pc[w] = "document"
      BY <1>a, <1>8, <2>1, <2>2, <2>3, <2>5, DeletionGoesOn DEF NextDeletion, Deleting
  <2>6. CASE pc[w] = "claim" /\ held[w] = Parts
    <3>1. Writer(w, "mark", 0)
        BY <1>a, <2>3, <2>6 DEF NextDeletion, NextPart
    <3> QED
        BY <1>a, <1>8, <2>1, <2>2, <2>6, <3>1, DeletionGoesOn
  <2>7. CASE pc[w] = "claim" /\ held[w] # Parts
    <3>1. Writer(w, "object", held[w] + 1)
        BY <1>a, <2>3, <2>7 DEF NextDeletion, NextPart
    <3>2. "object" \in Places
        BY <2>2 DEF Deleting
    <3> QED
        BY <1>a, <1>8, <2>1, <2>7, <3>1, <3>2, DeletionGoesOn
  <2> QED
      BY <1>8, <2>4, <2>5, <2>6, <2>7 DEF Deleting
<1> QED
    BY <1>a, <1>1, <1>2, <1>3, <1>4, <1>5, <1>6, <1>7, <1>8 DEF Answered

\* A failure is one more.
LEMMA OneMoreFault ==
    ASSUME IInv, faults < MaxFaults, faults' = faults + 1
    PROVE  faults' \in 0..MaxFaults
  BY BoundAssumption DEF IInv, Typed, BoundsTyped

LEMMA RequestFailsKeeps ==
    ASSUME IInv, NEW w \in Process, RequestFails(w), ~Overtaken(op[w])
    PROVE  IInv'
<1> USE DEF Writer, Step, Goto, Hold, End, Fails
<1>a. /\ Write(w) \/ UNCHANGED documents
      /\ Unanswered(w) /\ UNCHANGED <<op, acked, requests>>
      /\ faults' \in 0..MaxFaults /\ pc[w] # "idle" /\ pc[w] # "outcome"
    BY OneMoreFault DEF RequestFails
<1>1. CASE pc[w] = "upload"
    BY <1>a, <1>1, HeldAt, UploadFails DEF Unanswered, KnownPhase, Deleting
<1>2. CASE pc[w] = "publish" /\ op[w] = Final
    BY <1>a, <1>2, HeldAt, PublishRead DEF Unanswered, KnownPhase, Deleting
<1>3. CASE pc[w] = "create" /\ op[w] = Collect
  <2>1. held[w] = 0 /\ (ClaimCollection \/ UNCHANGED documents)
      BY <1>a, <1>3, HeldAt DEF Write, KnownPhase, Deleting
  <2>2. Writer(w, "reread", 0)
      BY <1>a, <1>3, <2>1 DEF Unanswered
  <2> QED
      BY <1>3, <2>1, <2>2, CollectionGoesOn
<1>4. CASE Fails(w)
    BY <1>a, <1>4, WriteFails
<1> QED
    BY <1>a, <1>1, <1>2, <1>3, <1>4 DEF Unanswered

LEMMA UploadRejectedKeeps ==
    ASSUME IInv, NEW w \in Process, UploadRejected(w), ~Overtaken(op[w])
    PROVE  IInv'
<1>a. /\ pc[w] = "upload" /\ pc[w] \in OwnerPhase /\ UNCHANGED <<documents, op, acked, requests>>
      /\ faults' \in 0..MaxFaults /\ pc' = [pc EXCEPT ![w] = "release"] /\ held' = held
    BY OneMoreFault DEF UploadRejected, OwnerPhase, Step, Goto
<1>1. held[w] = 0 /\ op[w] \in Object /\ claim[op[w]] = Claim("pending", 0) /\ made[op[w]] = 0
    BY <1>a, HeldAt, Owned DEF OwnerPhase, KnownPhase, Deleting
<1>2. At(op[w], "release", 0)
    BY <1>a, <1>1, FailedAt, OpFacts DEF ProcessOK, At, Placed, Holds, Owning, Knowing,
       Collector, Straddles, OwnerPhase, KnownPhase, Deleting
<1> QED
    BY <1>a, <1>1, <1>2, FailedAt, ReadingStep DEF Places, OwnerPhase

(***************************************************************************)
(* The steps of an upload whose part is overtaken touch nothing else.      *)
(***************************************************************************)
Confined(x) ==
    /\ DocumentsTyped' /\ UNCHANGED <<collect, plan, straddled>>
    /\ \A y \in Object : y # x =>
         claim'[y] = claim[y] /\ doc'[y] = doc[y] /\ stored'[y] = stored[y] /\ made'[y] = made[y]

LEMMA OvertakenWrite ==
    ASSUME IInv, NEW w \in Process, op[w] \in Part, Write(w) \/ UNCHANGED documents
    PROVE  Confined(op[w])
<1>a. DocumentsTyped /\ op[w] \in Object /\ op[w] # Final /\ op[w] # Collect /\ held[w] \in Gen
    BY OpFacts DEF IInv, Typed, ProcessesTyped
<1>b. pc[w] \notin Deleting \cup {"mark"}
    BY <1>a DEF IInv, ProcessOK, At, Placed
<1>1. CASE UNCHANGED documents
    BY <1>1, <1>a DEF documents, Confined, DocumentsTyped
<1>2. CASE CreateClaim(op[w])
    BY <1>2, <1>a, ClaimValues DEF CreateClaim, ChangesClaim, Confined, DocumentsTyped, Claims
<1>3. CASE Upload(op[w])
    BY <1>3, <1>a DEF Upload, Confined, DocumentsTyped, Gen
<1>4. CASE Uncertain(op[w]) \/ Release(op[w])
    BY <1>4, <1>a, ClaimValues DEF Uncertain, Release, SetClaim, ChangesClaim, Confined,
       DocumentsTyped, Claims
<1>5. ASSUME NEW s \in Known, Record(op[w], s, held[w]) PROVE Confined(op[w])
  <2>1. Claim(s, held[w]) \in [status : {"none", "pending", "uncertain"} \cup Known, gen : Gen]
      BY <1>a DEF Claim
  <2> QED
      BY <1>5, <1>a, <2>1 DEF Record, ChangesClaim, Confined, DocumentsTyped
<1>6. CASE Publish(op[w], held[w])
    BY <1>6, <1>a DEF Publish, Confined, DocumentsTyped, Gen
<1> QED
    BY <1>a, <1>b, <1>1, <1>2, <1>3, <1>4, <1>5, <1>6 DEF Write, Deleting, Known

LEMMA OvertakenGoesOn ==
    ASSUME IInv, NEW w \in Process, op[w] \in Part, Overtaken(op[w]), Confined(op[w]),
           NEW p \in Places \ ({"idle", "assemble", "await", "witness", "mark"} \cup Deleting),
           NEW g \in Gen, Writer(w, p, g)
    PROVE  IInv'
<1> DEFINE x == op[w]
<1>1. Actor(w) /\ op'[w] = x /\ pc'[w] = p /\ held'[w] = g
    BY WriterActs
<1>2. /\ x \in Object /\ x # Final /\ x # Collect /\ x # NoOp /\ Final \in Object
      /\ collect # "none" /\ x \in straddled
      /\ Committed /\ straddled \subseteq Part /\ Part \subseteq Object
    BY UnderCollection, OpFacts DEF Overtaken, IInv, Typed, DocumentsTyped
<1>3. /\ \A y : Overtaken(y) <=> Overtaken(y)'
      /\ \A y \in Object : y # x =>
           claim'[y] = claim[y] /\ doc'[y] = doc[y] /\ stored'[y] = stored[y]
           /\ made'[y] = made[y]
      /\ collect' = collect /\ plan' = plan /\ straddled' = straddled
    BY DEF Confined, Overtaken
<1>4. Committed' /\ PartsThere'
    BY <1>2, <1>3 DEF Committed, PartsThere
<1>5. \A q \in Part \ straddled : UNCHANGED <<stored[q], doc[q], claim[q], plan[q]>>
    BY <1>2, <1>3
<1>6. Harmless(w)
  <2>1. ASSUME NEW v \in Process, pc[v] \in OwnerPhase \cup KnownPhase, ~Overtaken(op[v])'
        PROVE  /\ op[v] \in Object /\ op[v] # x /\ ~Overtaken(op[v])
    <3>1. ~Overtaken(op[v])
        BY <2>1 DEF Confined, Overtaken, Writer
    <3>2. op[v] \in Object
        BY <2>1 DEF IInv, ProcessOK, At, Placed
    <3> QED
        BY <3>1, <3>2
  <2>2. \A v \in Process : v # w /\ pc[v] \in OwnerPhase /\ ~Overtaken(op[v])' =>
         /\ claim'[op[v]] = claim[op[v]] /\ made'[op[v]] = made[op[v]]
         /\ stored'[op[v]] = stored[op[v]]
      BY <1>3, <2>1
  <2>3. \A v \in Process : v # w /\ pc[v] \in KnownPhase /\ ~Overtaken(op[v])' =>
         /\ claim'[op[v]].status \in Known /\ 1 \in stored'[op[v]]
         /\ doc[op[v]] = 1 => doc'[op[v]] = 1
      BY <1>3, <2>1 DEF IInv, ProcessOK, At, Knowing
  <2>4. \A y \in Object : Kept(y) => Kept(y)'
      BY <1>3, <1>4 DEF Kept, Published
  <2>5. Gone(x)' \/ \A q \in Part \ straddled : Gone(q) => Gone(q)'
      BY <1>5 DEF Gone
  <2> QED
      BY <1>2, <1>3, <1>4, <1>5, <2>2, <2>3, <2>4 DEF Harmless, Gone
<1>7. Agree'
  <2>1. ASSUME NEW y \in Object, ~Overtaken(y)' PROVE Once(y)' /\ Agrees(y)'
    <3>1. Once(y) /\ Agrees(y) /\ y # x
        BY <1>3, <2>1 DEF IInv, Agree
    <3> QED
        BY <1>3, <1>4, <2>1, <3>1 DEF Once, Agrees, Collecting
  <2> QED
      BY <2>1 DEF Agree
<1>8. Collection'
    BY <1>3, <1>4, <1>5 DEF IInv, Collection, AllGone, Gone
<1>9. ProcessOK(w)'
  <2>1. PICK o \in Part : o = x /\ o = op'[w] /\ o # Final /\ o # Collect /\ o # NoOp
        /\ o \in Object
      BY <1>1, <1>2
  <2>2. Overtaken(o)' /\ o \in straddled' /\ Kept(o)'
      BY <1>2, <1>3, <1>4, <2>1 DEF Overtaken, Kept
  <2>3. At(o, p, g)'
      BY <2>1, <2>2 DEF At, Placed, Holds, Owning, Knowing, Collector, Straddles, Deleting
  <2> QED
      BY <1>1, <2>1, <2>3 DEF ProcessOK
<1>10. Typed'
    BY WriterActs DEF Typed, Confined, BoundsTyped, IInv, Writer
<1>11. Overtaken(op[w])'
    BY <1>2, <1>3 DEF Overtaken, Writer
<1> QED
    BY <1>1, <1>6, <1>7, <1>8, <1>9, <1>10, <1>11, StepKeeps DEF Writer

LEMMA OvertakenKeeps ==
    ASSUME IInv, NEW w \in Process, op[w] \in Part, Overtaken(op[w]),
           \/ FindPart(w) \/ ReadClaim(w) \/ Reread(w) \/ Verify(w) \/ Winner(w)
           \/ Writes(w) \/ RequestFails(w) \/ UploadRejected(w)
    PROVE  IInv'
<1> DEFINE Onward == {"read", "create", "reread", "verify", "complete", "publish", "winner",
                      "upload", "uncertain", "release", "persist", "outcome"}
<1>a. /\ op[w] # Final /\ op[w] # Collect /\ op[w] \in Object /\ held[w] \in Gen
      /\ DocumentsTyped /\ faults \in 0..MaxFaults
      /\ pc[w] \notin Deleting \cup {"mark"}
    BY OpFacts DEF IInv, Typed, ProcessesTyped, BoundsTyped, ProcessOK, At, Placed
<1>b. /\ claim[op[w]].gen \in Gen /\ doc[op[w]] \in Gen /\ made[op[w]] + 1 \in Gen /\ 0 \in Gen
    BY <1>a DEF DocumentsTyped, Gen
<1>1. /\ op' = op /\ acked' = acked /\ requests' = requests
      /\ Write(w) \/ UNCHANGED documents
    BY DEF FindPart, ReadClaim, Reread, Verify, Winner, Writes, RequestFails, UploadRejected,
       Reading
<1>2. faults' \in 0..MaxFaults
    BY <1>a, OneMoreFault DEF FindPart, ReadClaim, Reread, Verify, Winner, Writes,
       RequestFails, UploadRejected, Reading
<1>3. \E p \in Onward : pc' = [pc EXCEPT ![w] = p]
  <2>1. CASE FindPart(w) \/ ReadClaim(w) \/ Reread(w) \/ Verify(w) \/ Winner(w)
             \/ UploadRejected(w)
      BY <1>a, <2>1 DEF FindPart, ReadClaim, Reread, Verify, Winner, UploadRejected, Claimed, Step, Goto,
         Fails, End
  <2>2. CASE Writes(w)
      BY <1>a, <2>2 DEF Writes, Answered, Step, Goto, Fails, End
  <2>3. CASE RequestFails(w)
      BY <1>a, <2>3 DEF RequestFails, Unanswered, Step, Goto, Fails, End
  <2> QED
      BY <2>1, <2>2, <2>3
<1>4. \E g \in Gen : (held' = held /\ held[w] = g) \/ held' = [held EXCEPT ![w] = g]
  <2>1. CASE FindPart(w) \/ ReadClaim(w) \/ Reread(w) \/ Verify(w) \/ Winner(w)
             \/ UploadRejected(w)
      BY <1>a, <1>b, <2>1 DEF FindPart, ReadClaim, Reread, Verify, Winner, UploadRejected, Claimed,
         Step, Fails, End, Hold
  <2>2. CASE Writes(w)
      BY <1>a, <1>b, <2>2 DEF Writes, Answered, Step, Hold, Fails, End
  <2>3. CASE RequestFails(w)
      BY <1>a, <1>b, <2>3 DEF RequestFails, Unanswered, Step, Hold, Fails, End
  <2> QED
      BY <2>1, <2>2, <2>3
<1>5. PICK p \in Onward, g \in Gen : Writer(w, p, g)
    BY <1>1, <1>2, <1>3, <1>4 DEF Writer
<1>6. p \in Places \ ({"idle", "assemble", "await", "witness", "mark"} \cup Deleting)
    BY <1>5 DEF Places, OwnerPhase, KnownPhase, Deleting
<1>7. Confined(op[w])
    BY <1>1, OvertakenWrite
<1> QED
    BY <1>5, <1>6, <1>7, OvertakenGoesOn

(***************************************************************************)
(* A request arrives, and is answered or lost.                             *)
(***************************************************************************)
LEMMA BeginKeeps ==
    ASSUME IInv, NEW w \in Process, Begin(w)
    PROVE  IInv'
<1>0. ~Overtaken(op[w])
    BY OpFacts DEF Begin, IInv, ProcessOK, At, Placed, Typed, DocumentsTyped, Overtaken, Op, Object
<1>1. PICK o \in Op : op' = [op EXCEPT ![w] = o]
    BY DEF Begin
<1>2. /\ held[w] = 0 /\ requests' = requests + 1 /\ requests' \in 0..MaxRequests
      /\ pc' = [pc EXCEPT ![w] = "start"] /\ held' = held
      /\ UNCHANGED <<documents, acked, faults>>
    BY <1>0, HeldAt, BoundAssumption DEF Begin, Step, Goto, IInv, Typed, BoundsTyped, KnownPhase,
       Deleting
<1>3. Lands(w, o, "start", 0)
    BY <1>1, <1>2 DEF Lands, IInv, Typed, ProcessesTyped
<1>4. /\ Actor(w) /\ ProcessesTyped' /\ op'[w] = o /\ pc'[w] = "start" /\ held'[w] = 0
    BY <1>3, Landed DEF Places, Gen
<1>6. Harmless(w) /\ Agree' /\ Collection' /\ DocumentsTyped'
    BY <1>2, <1>4, ReadingKeeps DEF Sound
<1>7. ~Overtaken(Final)'
    BY <1>6, OvertakenStays
<1>8. ProcessOK(w)'
    BY <1>4, <1>7, OpFacts DEF ProcessOK, At, Placed, Holds, Owning, Knowing, Collector, Straddles,
       OwnerPhase, KnownPhase, Deleting, CollectPhase
<1>9. Typed'
    BY <1>2, <1>4, <1>6 DEF Typed, BoundsTyped, IInv
<1> QED
    BY <1>2, <1>4, <1>6, <1>8, <1>9, StepKeeps DEF OwnerPhase

\* A process that is done with its request, which it may have answered.
LEMMA IdleKeeps ==
    ASSUME IInv, NEW w \in Process, Idle(w), UNCHANGED <<documents, requests>>,
           faults' \in 0..MaxFaults,
           \/ acked' = acked
           \/ /\ acked' = acked \cup {<<op[w], held[w]>>} /\ op[w] \in Object
              /\ op[w] = Final => held[w] = 1
              /\ Kept(op[w])
    PROVE  IInv'
<1>1. Lands(w, NoOp, "idle", 0) /\ "idle" \in Places /\ 0 \in Gen
    BY DEF Idle, Hold, Goto, Lands, Places, Gen
<1>3. Actor(w) /\ ProcessesTyped' /\ op'[w] = NoOp /\ pc'[w] = "idle" /\ held'[w] = 0
    BY <1>1, Landed
<1>5. Harmless(w) /\ Agree' /\ Collection' /\ DocumentsTyped'
    BY <1>3, ReadingKeeps
<1>6. ProcessOK(w)'
    BY <1>3, OpFacts DEF ProcessOK, At, Placed, Holds, Owning, Knowing, Collector, Straddles,
       OwnerPhase, KnownPhase, Deleting, CollectPhase, Op
<1>7. Typed'
    BY <1>3, <1>5 DEF Typed, BoundsTyped, IInv
<1> QED
    BY <1>3, <1>5, <1>6, <1>7, StepKeeps DEF OwnerPhase

LEMMA AnswerKeeps ==
    ASSUME IInv, NEW w \in Process, Answer(w)
    PROVE  IInv'
<1>1. Idle(w) /\ UNCHANGED <<documents, requests>> /\ pc[w] = "outcome"
    BY DEF Answer
<1>2. faults' \in 0..MaxFaults
    BY OneMoreFault DEF Answer, IInv, Typed, BoundsTyped
<1>3. held[w] # 0 => op[w] \in Object /\ Kept(op[w])
    BY <1>1 DEF IInv, ProcessOK, At, Knowing
<1>4. held[w] # 0 /\ op[w] = Final => held[w] = 1
    BY <1>3 DEF IInv, ProcessOK, At, Holds
<1>5. acked' = acked \/ (held[w] # 0 /\ acked' = acked \cup {<<op[w], held[w]>>})
    BY DEF Answer
<1> QED
    BY <1>1, <1>2, <1>3, <1>4, <1>5, IdleKeeps

LEMMA CrashKeeps ==
    ASSUME IInv, NEW w \in Process, Crash(w)
    PROVE  IInv'
  BY OneMoreFault, IdleKeeps DEF Crash

(***************************************************************************)
(* The invariant holds.                                                    *)
(***************************************************************************)
LEMMA InitIInv == Init => IInv
<1> SUFFICES ASSUME Init PROVE IInv
    OBVIOUS
<1>1. /\ DocumentsTyped /\ ~Committed /\ collect = "none" /\ acked = {}
      /\ \A x \in Object : claim[x] = NoClaim /\ doc[x] = 0 /\ made[x] = 0 /\ stored[x] = {}
    BY OpFacts, ClaimValues DEF Init, DocumentsTyped, Committed, Claims, Gen
<1>2. /\ ProcessesTyped /\ BoundsTyped
      /\ \A w \in Process : pc[w] = "idle" /\ op[w] = NoOp /\ held[w] = 0
    BY BoundAssumption DEF Init, ProcessesTyped, BoundsTyped, Places, Gen
<1>3. Agree
    BY <1>1, ClaimValues DEF Agree, Once, Agrees, Claims
<1>4. \A w \in Process : ProcessOK(w)
    BY <1>1, <1>2, OpFacts DEF ProcessOK, At, Placed, Holds, Owning, Knowing, Collector, Straddles,
       OwnerPhase, KnownPhase, Deleting, CollectPhase, Op
<1>5. Exclusive /\ Collection /\ Acknowledged
    BY <1>1, <1>2 DEF Exclusive, Collection, Acknowledged, OwnerPhase
<1> QED
    BY <1>1, <1>2, <1>3, <1>4, <1>5 DEF IInv, Typed

LEMMA RunsKeeps ==
    ASSUME IInv, NEW w \in Process, Runs(w)
    PROVE  IInv'
<1>1. CASE \/ Begin(w) \/ PartStart(w) \/ CommitStart(w) \/ Assemble(w) \/ Await(w)
           \/ CollectStart(w) \/ RereadCollection(w) \/ Witness(w) \/ UpdateRefused(w)
           \/ Answer(w) \/ Crash(w)
    BY <1>1, BeginKeeps, PartStartKeeps, CommitStartKeeps, AssembleKeeps, AwaitKeeps,
       CollectStartKeeps, RereadCollectionKeeps, WitnessKeeps, UpdateRefusedKeeps,
       AnswerKeeps, CrashKeeps
<1>2. CASE \/ FindPart(w) \/ ReadClaim(w) \/ Reread(w) \/ Verify(w) \/ Winner(w)
           \/ Writes(w) \/ RequestFails(w) \/ UploadRejected(w)
  <2>1. CASE Overtaken(op[w])
    <3>1. op[w] \in Part
        BY <2>1 DEF Overtaken, IInv, Typed, DocumentsTyped
    <3> QED
        BY <1>2, <2>1, <3>1, OvertakenKeeps
  <2>2. CASE ~Overtaken(op[w])
      BY <1>2, <2>2, FindPartKeeps, ReadClaimKeeps, RereadKeeps, VerifyKeeps, WinnerKeeps,
         WritesKeeps, RequestFailsKeeps, UploadRejectedKeeps
  <2> QED
      BY <2>1, <2>2
<1> QED
    BY <1>1, <1>2 DEF Runs

LEMMA NextIInv == IInv /\ [Next]_vars => IInv'
<1> SUFFICES ASSUME IInv, [Next]_vars PROVE IInv'
    OBVIOUS
<1>1. CASE UNCHANGED vars
  <2>1. /\ UNCHANGED <<Typed, Exclusive, Acknowledged, Committed, PartsThere, AllGone>>
        /\ \A x : (Overtaken(x) <=> Overtaken(x)') /\ (Gone(x) <=> Gone(x)')
                  /\ (Kept(x) <=> Kept(x)') /\ (Once(x) <=> Once(x)')
                  /\ (Collecting(x) <=> Collecting(x)')
      BY <1>1 DEF vars, documents, Typed, DocumentsTyped, ProcessesTyped, BoundsTyped, Once,
         Collecting, PartsThere, Committed, Published, Exclusive, Overtaken, AllGone, Gone,
         Acknowledged, Kept
  <2>2. UNCHANGED <<Agree, Collection>>
      BY <1>1, <2>1 DEF vars, documents, Agree, Agrees, Collection
  <2>3. ASSUME NEW w \in Process PROVE ProcessOK(w)'
    <3>1. ProcessOK(w)
        BY DEF IInv
    <3>2. PICK o, p, g : o = op[w] /\ o = op'[w] /\ p = pc[w] /\ p = pc'[w]
                         /\ g = held[w] /\ g = held'[w]
        BY <1>1 DEF vars
    <3>3. At(o, p, g)'
        BY <1>1, <2>1, <3>1, <3>2 DEF ProcessOK, At, Placed, Holds, Owning, Knowing, Collector,
           Straddles, vars, documents
    <3> QED
        BY <3>2, <3>3 DEF ProcessOK
  <2> QED
      BY <2>1, <2>2, <2>3 DEF IInv
<1>2. CASE Done
    BY <1>1, <1>2 DEF Done
<1>3. ASSUME NEW w \in Process, Runs(w) PROVE IInv'
    BY <1>3, RunsKeeps
<1> QED
    BY <1>1, <1>2, <1>3 DEF Next

LEMMA Invariance == Spec => []IInv
  BY InitIInv, NextIInv, PTL DEF Spec

\* TypeOK: besides the types, that a process that serves no request is idle
\* and that no behaviour exceeds its bounds.
THEOREM TypeTheorem == Spec => []TypeOK
<1>1. IInv => TypeOK
  <2>1. IInv => acked \subseteq Object \X Gen
      BY DEF IInv, Acknowledged
  <2>2. IInv => \A w \in Process : pc[w] = "idle" <=> op[w] = NoOp
      BY DEF IInv, ProcessOK, At, Placed
  <2> QED
      BY <2>1, <2>2 DEF IInv, Typed, TypeOK, DocumentsTyped, ProcessesTyped, BoundsTyped
<1> QED
    BY <1>1, Invariance, PTL

\* OneObject: however requests race, fail ambiguously, are retried or die, the
\* archive is uploaded at most once, and so is a part, except one that is
\* collected while an upload of it is under way since before the commit.
THEOREM OneObjectTheorem == Spec => []OneObject
<1>1. IInv => OneObject
    BY DEF IInv, Agree, Once, OneObject
<1> QED
    BY <1>1, Invariance, PTL

\* AnswersHold: what a client was told is stored stays, a part until the
\* catalog stands for it.
THEOREM AnswersTheorem == Spec => []AnswersHold
<1>1. IInv => AnswersHold
  <2> SUFFICES ASSUME IInv, NEW a \in acked
               PROVE  \/ a[1] = Final /\ doc[Final] = a[2] /\ Published(Final)
                      \/ a[1] \in Part /\ (Published(a[1]) \/ (Committed /\ Published(Final)))
      BY DEF AnswersHold
  <2>1. a \in Object \X Gen /\ (a[1] = Final => a[2] = 1) /\ Kept(a[1])
      BY DEF IInv, Acknowledged
  <2>2. a[1] \in Object
      BY <2>1
  <2> QED
      BY <2>1, <2>2, OpFacts, CommittedPublished DEF Kept
<1> QED
    BY <1>1, Invariance, PTL

\* Recoverable: once the generation of the archive is recorded, a crash leaves
\* all that another commit needs.
THEOREM RecoverableTheorem == Spec => []Recoverable
<1>1. IInv => Recoverable
  <2> SUFFICES ASSUME IInv, claim[Final].status \in Known
               PROVE  /\ claim[Final].gen \in stored[Final]
                      /\ Published(Final) \/ \A p \in Part : Published(p)
      BY DEF Recoverable
  <2>0. ~Overtaken(Final)
      BY OpFacts DEF IInv, Typed, DocumentsTyped, Overtaken
  <2>a. Once(Final) /\ Agrees(Final)
      BY <2>0, OpFacts DEF IInv, Agree
  <2>1. claim[Final].gen = 1 /\ claim[Final] # NoClaim
      BY <2>a, ClaimValues DEF Once, Claims, Claim, NoClaim
  <2>2. 1 \in stored[Final] /\ PartsThere
      BY <2>a, <2>1, OpFacts DEF Agrees, Collecting
  <2>3. collect # "none" => Published(Final)
      BY CommittedPublished DEF IInv, Collection
  <2> QED
      BY <2>1, <2>2, <2>3 DEF PartsThere
<1> QED
    BY <1>1, Invariance, PTL

\* CollectedWhole: a collection marked completed left nothing of the parts,
\* and nothing of them comes back, except of a part that an upload was at work
\* on since before the commit completed.
THEOREM CollectedTheorem == Spec => []CollectedWhole
<1>1. IInv => CollectedWhole
  <2> SUFFICES ASSUME IInv, collect = "completed"
               PROVE  /\ doc[Final] \in stored[Final]
                      /\ \A p \in Part \ straddled :
                           stored[p] = {} /\ doc[p] = 0 /\ claim[p] = NoClaim
      BY DEF CollectedWhole
  <2>1. Committed /\ AllGone
      BY DEF IInv, Collection
  <2> QED
      BY <2>1, CommittedPublished DEF AllGone, Gone
<1> QED
    BY <1>1, Invariance, PTL

(***************************************************************************)
(* Without failures a claim that is not settled is somebody's task, unless *)
(* its part is overtaken.                                                  *)
(***************************************************************************)
Settled(x) == claim[x] = IF doc[x] = 0 THEN NoClaim ELSE Claim("completed", doc[x])

\* v is to settle the claim of x.
Tends(v, x) ==
    \/ op[v] = x /\ claim[x] = Claim("pending", 0) /\ pc[v] \in {"upload", "persist"}
    \/ /\ op[v] = x /\ claim[x] = Claim("uploaded", 1) /\ doc[x] = 0
       /\ pc[v] \in {"verify", IF x = Final THEN "complete" ELSE "publish"}
    \/ op[v] = x /\ claim[x] = Claim("uploaded", 1) /\ doc[x] = 1 /\ pc[v] = "complete"
    \/ op[v] = Final /\ x = Final /\ claim[x] = Claim("completed", 1) /\ pc[v] = "publish"
    \/ x \in Part /\ claim[x] = Claim("completed", 1) /\ doc[x] = 0
       /\ pc[v] = "claim" /\ held[v] = x

Tended ==
    faults = 0 =>
        /\ \A w \in Process : pc[w] \notin {"uncertain", "release"}
        /\ \A x \in Object : Overtaken(x) \/ Settled(x) \/ \E v \in Process : Tends(v, x)

\* What the steps of w leave alone.
LEMMA RunsAlone ==
    ASSUME IInv, NEW w \in Process, Runs(w)
    PROVE  /\ \A v \in Process : v # w => op'[v] = op[v] /\ pc'[v] = pc[v] /\ held'[v] = held[v]
           /\ \A x : Overtaken(x) => Overtaken(x)'
<1>1. op' = op \/ \E o : op' = [op EXCEPT ![w] = o]
    BY DEF Runs, Begin, PartStart, FindPart, ReadClaim, Reread, CommitStart,
       Assemble, Await, Verify, Winner, CollectStart, RereadCollection, Witness, Writes,
       UpdateRefused, RequestFails, UploadRejected, Answer, Crash, Reading, Idle
<1>2. \E p : pc' = [pc EXCEPT ![w] = p]
    BY DEF Runs, Begin, PartStart, FindPart, ReadClaim, Reread, CommitStart,
       Assemble, Await, Verify, Winner, CollectStart, RereadCollection, Witness, Writes,
       UpdateRefused, RequestFails, UploadRejected, Answer, Crash, Idle, Claimed, Answered,
       Unanswered, NextDeletion, NextPart, Step, Goto, End, Fails
<1>3. held' = held \/ \E g : held' = [held EXCEPT ![w] = g]
    BY DEF Runs, Begin, PartStart, FindPart, ReadClaim, Reread, CommitStart,
       Assemble, Await, Verify, Winner, CollectStart, RereadCollection, Witness, Writes,
       UpdateRefused, RequestFails, UploadRejected, Answer, Crash, Idle, Claimed, Answered,
       Unanswered, NextDeletion, NextPart, Step, End, Fails, Hold
<1>4. UNCHANGED documents \/ Write(w)
    BY DEF Runs, Begin, PartStart, FindPart, ReadClaim, Reread, CommitStart,
       Assemble, Await, Verify, Winner, CollectStart, RereadCollection, Witness, Writes,
       UpdateRefused, RequestFails, UploadRejected, Answer, Crash, Reading
<1>5. collect # "none" => claim[Final].status = "completed"
    BY DEF IInv, Collection, Committed
<1>6. collect # "none" => collect' # "none" /\ straddled' = straddled
    BY <1>4, <1>5 DEF documents, Write, CreateClaim, ClaimCollection, Upload, Uncertain, Release,
       SetClaim, ChangesClaim, Record, Publish, DeleteObject, DeleteDocument, MarkCollected
<1> QED
    BY <1>1, <1>2, <1>3, <1>6 DEF IInv, Typed, ProcessesTyped, Overtaken

\* A step of w, seen from the claims.
LEMMA TendedStep ==
    ASSUME IInv, Tended, NEW w \in Process, faults = 0, Runs(w),
           pc'[w] \notin {"uncertain", "release"},
           \A x \in Object :
               \/ Overtaken(x)' \/ Settled(x)' \/ Tends(w, x)'
               \/ claim'[x] = claim[x] /\ doc'[x] = doc[x] /\ ~Tends(w, x)
    PROVE  Tended'
<1>1. \A v \in Process : pc'[v] \notin {"uncertain", "release"}
    BY RunsAlone DEF Tended
<1>2. ASSUME NEW x \in Object, claim'[x] = claim[x], doc'[x] = doc[x], ~Tends(w, x)
      PROVE  Overtaken(x)' \/ Settled(x)' \/ \E v \in Process : Tends(v, x)'
  <2>1. CASE Settled(x)
      BY <1>2, <2>1 DEF Settled
  <2>2. ASSUME NEW v \in Process, Tends(v, x) PROVE Tends(v, x)'
    <3>1. op'[v] = op[v] /\ pc'[v] = pc[v] /\ held'[v] = held[v]
        BY <1>2, <2>2, RunsAlone
    <3> QED
        BY <1>2, <2>2, <3>1 DEF Tends
  <2>3. Overtaken(x) => Overtaken(x)'
      BY RunsAlone
  <2> QED
      BY <2>1, <2>2, <2>3 DEF Tended
<1>3. \A x \in Object : Overtaken(x)' \/ Settled(x)' \/ \E v \in Process : Tends(v, x)'
    BY <1>2
<1> QED
    BY <1>1, <1>3 DEF Tended

\* What a process in no such place does with the documents left alone.
Tending == {"upload", "persist", "verify", "complete", "publish", "claim"}

LEMMA IdleStep ==
    ASSUME IInv, Tended, NEW w \in Process, faults = 0, Runs(w), claim' = claim, doc' = doc,
           pc'[w] \notin {"uncertain", "release"}, pc[w] \notin Tending
    PROVE  Tended'
<1>1. \A x : ~Tends(w, x)
    BY DEF Tends, Tending
<1> QED
    BY <1>1, TendedStep

\* Reads and requests that come and go.
LEMMA QuietTended ==
    ASSUME IInv, Tended, NEW w \in Process, faults = 0,
           \/ Begin(w) \/ PartStart(w) \/ FindPart(w) \/ ReadClaim(w) \/ Reread(w)
           \/ CommitStart(w) \/ Assemble(w) \/ Await(w) \/ Winner(w)
           \/ CollectStart(w) \/ RereadCollection(w) \/ Witness(w) \/ Answer(w)
    PROVE  Tended'
<1>1. claim' = claim /\ doc' = doc
    BY DEF Begin, PartStart, FindPart, ReadClaim, Reread, CommitStart, Assemble, Await, Winner,
       CollectStart, RereadCollection, Witness, Answer, Reading, documents
<1>2. pc[w] \notin Tending
    BY DEF Begin, PartStart, FindPart, ReadClaim, Reread, CommitStart, Assemble, Await, Winner,
       CollectStart, RereadCollection, Witness, Answer, Tending
<1>3. pc'[w] \notin {"uncertain", "release"}
    BY DEF Begin, PartStart, FindPart, ReadClaim, Reread, CommitStart, Assemble, Await, Winner,
       CollectStart, RereadCollection, Witness, Answer, Idle, Claimed, Step, Goto, End, Fails,
       IInv, Typed, ProcessesTyped
<1> QED
    BY <1>1, <1>2, <1>3, IdleStep DEF Runs

\* An upload that is overtaken may do what it likes.
LEMMA OvertakenTended ==
    ASSUME IInv, Tended, NEW w \in Process, faults = 0, Overtaken(op[w]),
           Verify(w) \/ Writes(w) \/ UpdateRefused(w)
    PROVE  Tended'
<1>1. Runs(w)
    BY DEF Runs
<1>2. op[w] \in Part /\ op' = op /\ (Write(w) \/ UNCHANGED documents)
    BY DEF Overtaken, IInv, Typed, DocumentsTyped, Verify, Writes, UpdateRefused, Reading
<1>3. Confined(op[w])
    BY <1>2, OvertakenWrite
<1>4. op[w] # Collect /\ op[w] # Final /\ pc[w] # "claim"
    BY <1>2, OpFacts DEF IInv, ProcessOK, At, Placed, Deleting
<1>5. pc'[w] \notin {"uncertain", "release"}
    BY <1>4 DEF Verify, Writes, Answered, UpdateRefused, NextDeletion, NextPart, Step, Goto, End,
       Fails, IInv, Typed, ProcessesTyped
<1>6. ASSUME NEW y \in Object
      PROVE  Overtaken(y)' \/ (claim'[y] = claim[y] /\ doc'[y] = doc[y] /\ ~Tends(w, y))
  <2>1. CASE y = op[w]
      BY <1>1, <2>1, RunsAlone
  <2>2. CASE y # op[w]
      BY <1>3, <1>4, <2>2 DEF Confined, Tends
  <2> QED
      BY <2>1, <2>2
<1> QED
    BY <1>1, <1>5, <1>6, TendedStep

\* A claim is there to be updated unless its part is overtaken.
LEMMA RefusedTended ==
    ASSUME IInv, Tended, NEW w \in Process, faults = 0, UpdateRefused(w)
    PROVE  Tended'
<1>1. CASE Overtaken(op[w])
    BY <1>1, OvertakenTended
<1>2. CASE ~Overtaken(op[w])
  <2>1. CASE pc[w] \in OwnerPhase
      BY <1>2, <2>1, Owned, ClaimValues DEF UpdateRefused
  <2>2. CASE pc[w] \in KnownPhase
      BY <1>2, <2>2, KnownObject, ClaimValues DEF UpdateRefused
  <2> QED
      BY <2>1, <2>2 DEF UpdateRefused, OwnerPhase, KnownPhase
<1> QED
    BY <1>1, <1>2

\* A verification finds the object.
LEMMA VerifyTended ==
    ASSUME IInv, Tended, NEW w \in Process, faults = 0, Verify(w), ~Overtaken(op[w])
    PROVE  Tended'
<1>a. pc[w] = "verify" /\ pc[w] \in KnownPhase /\ Reading
    BY DEF Verify, KnownPhase
<1>b. op[w] \in Object /\ 1 \in stored[op[w]] /\ held[w] = 1
    BY <1>a, KnownObject
<1>1. pc'[w] = IF op[w] = Final THEN "complete" ELSE "publish"
    BY <1>b DEF Verify, Step, Goto, IInv, Typed, ProcessesTyped
<1>2. ASSUME NEW x \in Object, Tends(w, x) PROVE Tends(w, x)'
    BY <1>a, <1>1, <1>2 DEF Tends, Reading, documents
<1>3. claim' = claim /\ doc' = doc
    BY <1>a DEF Reading, documents
<1> QED
    BY <1>1, <1>2, <1>3, TendedStep DEF Runs

\* A write to the object of w concerns no other.
LEMMA ObjectTended ==
    ASSUME IInv, Tended, NEW w \in Process, faults = 0, Writes(w), op[w] \in Object,
           \A y \in Object : y # op[w] => claim'[y] = claim[y] /\ doc'[y] = doc[y],
           pc'[w] \notin {"uncertain", "release"}, pc[w] \notin Deleting,
           NEW x \in Object, x = op[w],
           \/ Settled(x)' \/ Tends(w, x)'
           \/ claim'[x] = claim[x] /\ doc'[x] = doc[x] /\ ~Tends(w, x)
    PROVE  Tended'
<1>1. ASSUME NEW y \in Object
      PROVE  \/ Settled(y)' \/ Tends(w, y)'
             \/ claim'[y] = claim[y] /\ doc'[y] = doc[y] /\ ~Tends(w, y)
    BY DEF Tends, Deleting
<1> QED
    BY <1>1, TendedStep DEF Runs

LEMMA CreateTended ==
    ASSUME IInv, Tended, NEW w \in Process, faults = 0, Writes(w), pc[w] = "create",
           ~Overtaken(op[w])
    PROVE  Tended'
<1>a. Write(w) /\ Answered(w) /\ op' = op
    BY DEF Writes
<1>1. CASE op[w] = Collect
  <2>1. claim' = claim /\ doc' = doc
      BY <1>a, <1>1 DEF Write, ClaimCollection, Deleting
  <2>2. pc'[w] \in {"witness", "reread"}
      BY <1>a, <1>1 DEF Answered, Step, Goto, Deleting, IInv, Typed, ProcessesTyped
  <2> QED
      BY <2>1, <2>2, IdleStep DEF Runs, Tending
<1>2. CASE op[w] # Collect
  <2>1. PICK x \in Object : x = op[w] /\ CreateClaim(op[w])
      BY <1>a, <1>2, FailedAt, OpFacts DEF Write
  <2>2. /\ claim' = [claim EXCEPT ![x] = IF @ = NoClaim THEN Claim("pending", 0) ELSE @]
        /\ doc' = doc
      BY <2>1 DEF CreateClaim, ChangesClaim
  <2>3. pc'[w] = IF claim[x] = NoClaim THEN "upload" ELSE "reread"
      BY <1>a, <1>2, <2>1 DEF Answered, Step, Goto, Deleting, IInv, Typed, ProcessesTyped
  <2>4. ~Tends(w, x)
      BY <2>1, OpFacts DEF Tends
  <2>5. CASE claim[x] = NoClaim
    <3>1. Tends(w, x)'
        BY <1>a, <2>1, <2>2, <2>3, <2>5 DEF Tends, IInv, Typed, DocumentsTyped
    <3> QED
        BY <2>1, <2>2, <2>3, <3>1, ObjectTended DEF IInv, Typed, DocumentsTyped, Deleting
  <2>6. CASE claim[x] # NoClaim
    <3>1. claim' = claim
        BY <2>1, <2>2, <2>6 DEF IInv, Typed, DocumentsTyped
    <3> QED
        BY <2>1, <2>2, <2>3, <2>4, <3>1, ObjectTended DEF Deleting
  <2> QED
      BY <2>5, <2>6
<1> QED
    BY <1>1, <1>2

LEMMA OwnerTended ==
    ASSUME IInv, Tended, NEW w \in Process, faults = 0, Writes(w), pc[w] \in OwnerPhase,
           ~Overtaken(op[w])
    PROVE  Tended'
<1>a. Write(w) /\ Answered(w) /\ op' = op /\ pc[w] \in {"upload", "persist"}
      /\ pc[w] \notin Deleting
    BY DEF Writes, Tended, OwnerPhase, Deleting
<1>x. PICK x \in Object : x = op[w]
    BY Owned
<1>b. /\ claim[x] = Claim("pending", 0) /\ doc[x] = 0
      /\ (pc[w] = "persist" => held[w] = 1)
    BY <1>x, Owned, WorkedOn DEF Once
<1>1. CASE pc[w] = "upload"
  <2>1. claim' = claim /\ doc' = doc
      BY <1>a, <1>x, <1>1 DEF Write, Upload, Deleting
  <2>2. pc'[w] = "persist"
      BY <1>a, <1>x, <1>1 DEF Answered, Goto, IInv, Typed, ProcessesTyped
  <2>3. Tends(w, x)'
      BY <1>a, <1>x, <1>b, <2>1, <2>2 DEF Tends
  <2> QED
      BY <1>a, <1>b, <1>x, <1>1, <2>1, <2>2, <2>3, ObjectTended
<1>2. CASE pc[w] = "persist"
  <2>1. claim' = [claim EXCEPT ![x] = Claim("uploaded", 1)] /\ doc' = doc
      BY <1>a, <1>x, <1>b, <1>2 DEF Write, Record, ChangesClaim
  <2>2. pc'[w] = "verify"
      BY <1>a, <1>x, <1>2 DEF Answered, Step, Goto, IInv, Typed, ProcessesTyped
  <2>3. Tends(w, x)'
      BY <1>a, <1>x, <1>b, <2>1, <2>2 DEF Tends, IInv, Typed, DocumentsTyped
  <2> QED
      BY <1>a, <1>b, <1>x, <1>2, <2>1, <2>2, <2>3, ObjectTended DEF IInv, Typed, DocumentsTyped
<1> QED
    BY <1>a, <1>x, <1>1, <1>2

LEMMA KnownTended ==
    ASSUME IInv, Tended, NEW w \in Process, faults = 0, Writes(w), pc[w] \in KnownPhase,
           ~Overtaken(op[w])
    PROVE  Tended'
<1>a. Write(w) /\ Answered(w) /\ op' = op /\ pc[w] \in {"complete", "publish"}
      /\ pc[w] \notin Deleting
    BY DEF Writes, Writing, KnownPhase, Deleting
<1>x. PICK x \in Object : x = op[w]
    BY KnownObject
<1>b. /\ held[w] = 1 /\ doc[x] \in {0, 1}
      /\ claim[x] \in {Claim("uploaded", 1), Claim("completed", 1)}
      /\ (pc[w] = "publish" /\ x = Final => claim[x] = Claim("completed", 1))
      /\ (pc[w] = "complete" /\ x # Final => doc[x] = 1)
  <2>1. /\ held[w] = 1 /\ claim[x].status \in Known
        /\ (pc[w] = "publish" /\ x = Final => claim[x].status = "completed")
        /\ (pc[w] = "complete" /\ x \in Part => doc[x] = 1)
      BY <1>x, KnownObject DEF IInv, ProcessOK, At, Knowing
  <2>2. Once(x)
      BY <1>x, KnownObject, WorkedOn
  <2> QED
      BY <2>1, <2>2, ClaimValues, OpFacts DEF Once, Claims
<1>1. CASE pc[w] = "complete"
  <2>1. claim' = [claim EXCEPT ![x] = Claim("completed", 1)] /\ doc' = doc
      BY <1>a, <1>x, <1>b, <1>1 DEF Write, Record, ChangesClaim
  <2>2. pc'[w] = IF x = Final THEN "publish" ELSE "outcome"
      BY <1>a, <1>x, <1>1 DEF Answered, Step, Goto, End, IInv, Typed, ProcessesTyped
  <2>3. claim'[x] = Claim("completed", 1)
      BY <1>b, <1>x, <2>1 DEF IInv, Typed, DocumentsTyped
  <2>4. CASE x = Final
    <3>1. Tends(w, x)'
        BY <1>a, <1>x, <2>2, <2>3, <2>4 DEF Tends
    <3> QED
        BY <1>a, <1>b, <1>x, <1>1, <2>1, <2>2, <3>1, ObjectTended DEF IInv, Typed, DocumentsTyped
  <2>5. CASE x # Final
    <3>1. Settled(x)'
        BY <1>a, <1>x, <1>b, <1>1, <2>1, <2>3, <2>5 DEF Settled
    <3> QED
        BY <1>a, <1>b, <1>x, <1>1, <2>1, <2>2, <3>1, ObjectTended DEF IInv, Typed, DocumentsTyped
  <2> QED
      BY <2>4, <2>5
<1>2. CASE pc[w] = "publish"
  <2>1. doc' = [doc EXCEPT ![x] = IF @ = 0 THEN 1 ELSE @] /\ claim' = claim
      BY <1>a, <1>x, <1>b, <1>2 DEF Write, Publish
  <2>2. doc'[x] = 1
      BY <1>b, <1>x, <2>1 DEF IInv, Typed, DocumentsTyped
  <2>3. pc'[w] = IF doc[x] # 0 THEN "winner" ELSE IF x = Final THEN "outcome"
                 ELSE "complete"
      BY <1>a, <1>x, <1>2 DEF Answered, Step, Goto, End, IInv, Typed, ProcessesTyped
  <2>4. CASE claim[x] = Claim("completed", 1)
    <3>1. Settled(x)'
        BY <1>a, <1>x, <2>1, <2>2, <2>4 DEF Settled
    <3> QED
        BY <1>a, <1>b, <1>x, <1>2, <2>1, <2>3, <3>1, ObjectTended DEF IInv, Typed, DocumentsTyped
  <2>5. CASE claim[x] = Claim("uploaded", 1) /\ doc[x] = 0
    <3>1. x # Final
        BY <1>b, <1>x, <1>2, <2>5, ClaimValues
    <3>2. Tends(w, x)'
        BY <1>a, <1>x, <2>1, <2>2, <2>3, <2>5, <3>1 DEF Tends
    <3> QED
        BY <1>a, <1>b, <1>x, <1>2, <2>1, <2>3, <3>2, ObjectTended DEF IInv, Typed, DocumentsTyped
  <2>6. CASE claim[x] = Claim("uploaded", 1) /\ doc[x] = 1
    <3>1. doc' = doc
        BY <1>b, <1>x, <2>1, <2>6 DEF IInv, Typed, DocumentsTyped
    <3>2. x # Final
        BY <1>b, <1>x, <1>2, <2>6, ClaimValues
    <3>3. ~Tends(w, x)
        BY <1>2, <2>6, <3>2 DEF Tends
    <3> QED
        BY <1>a, <1>b, <1>x, <1>2, <2>1, <2>3, <3>1, <3>3, ObjectTended
  <2> QED
      BY <1>b, <1>x, <2>4, <2>5, <2>6
<1> QED
    BY <1>a, <1>x, <1>1, <1>2

\* The deletion of a document turns a settled claim into a task of the
\* collector, and that of the claim ends it.
LEMMA DeletionTended ==
    ASSUME IInv, Tended, NEW w \in Process, faults = 0, Writes(w), pc[w] \in Deleting
    PROVE  Tended'
<1>a. Write(w) /\ NextDeletion(w) /\ op' = op
    BY DEF Writes, Answered, Deleting
<1>b. PICK r \in Part : r = held[w] /\ op[w] = Collect /\ collect # "none"
                        /\ Collector(op[w], pc[w], r)
    BY Collects
<1>c. r \in Object /\ r # Final /\ DocumentsTyped /\ op[w] \notin Object
    BY <1>b, OpFacts DEF IInv, Typed
<1>1. CASE pc[w] = "object"
  <2>1. claim' = claim /\ doc' = doc
      BY <1>a, <1>1 DEF Write, DeleteObject
  <2>2. pc'[w] = "document"
      BY <1>a, <1>1 DEF NextDeletion, Step, Goto, IInv, Typed, ProcessesTyped
  <2> QED
      BY <1>1, <2>1, <2>2, IdleStep DEF Runs, Tending
<1>2. CASE pc[w] = "document"
  <2>1. claim' = claim /\ doc' = [doc EXCEPT ![r] = 0]
      BY <1>a, <1>b, <1>2 DEF Write, DeleteDocument
  <2>2. pc'[w] = "claim" /\ held' = held
      BY <1>a, <1>2 DEF NextDeletion, Step, Goto, IInv, Typed, ProcessesTyped
  <2>3. \A y \in Object : ~Tends(w, y)
      BY <1>c, <1>2 DEF Tends
  <2>4. CASE doc[r] = 0
    <3>1. doc' = doc
        BY <1>c, <2>1, <2>4 DEF DocumentsTyped
    <3> QED
        BY <2>1, <2>2, <2>3, <3>1, TendedStep DEF Runs
  <2>5. CASE Overtaken(r)
    <3>1. Overtaken(r)'
        BY <2>5, RunsAlone DEF Runs
    <3> QED
        BY <1>c, <2>1, <2>2, <2>3, <3>1, TendedStep DEF Runs, DocumentsTyped
  <2>6. CASE doc[r] # 0 /\ ~Overtaken(r)
    <3>1. Once(r) /\ Agrees(r)
        BY <1>c, <2>6 DEF IInv, Agree
    <3>2. doc[r] = 1 /\ claim[r] \in {Claim("uploaded", 1), Claim("completed", 1)}
        BY <2>6, <3>1, ClaimValues DEF Once, Agrees, Claims
    <3>3. ASSUME NEW v \in Process, Tends(v, r) PROVE FALSE
      <4>1. op[v] = r /\ pc[v] = "complete"
          BY <1>c, <3>2, <3>3, ClaimValues DEF Tends
      <4> QED
          BY <1>b, <2>6, <4>1, UnderCollection
    <3>4. Settled(r)
        BY <1>c, <2>6, <3>3 DEF Tended
    <3>5. Tends(w, r)'
      <4>1. claim'[r] = Claim("completed", 1) /\ doc'[r] = 0
          BY <1>c, <2>1, <3>2, <3>4 DEF Settled, DocumentsTyped
      <4> QED
          BY <1>b, <2>2, <4>1 DEF Tends
    <3> QED
        BY <1>c, <2>1, <2>2, <2>3, <3>5, TendedStep DEF Runs, DocumentsTyped
  <2> QED
      BY <2>4, <2>5, <2>6
<1>3. CASE pc[w] = "claim"
  <2>1. claim' = [claim EXCEPT ![r] = NoClaim] /\ doc' = doc
      BY <1>a, <1>b, <1>3 DEF Write, Release, SetClaim, ChangesClaim
  <2>2. pc'[w] \in {"mark", "object"}
      BY <1>a, <1>3 DEF NextDeletion, NextPart, Goto, IInv, Typed, ProcessesTyped
  <2>3. \A y \in Object : y # r => ~Tends(w, y)
      BY <1>b, <1>c, <1>3 DEF Tends
  <2>4. Overtaken(r)' \/ Settled(r)'
    <3>1. CASE Overtaken(r)
        BY <3>1, RunsAlone DEF Runs
    <3>2. CASE ~Overtaken(r)
      <4>1. doc[r] = 0
          BY <1>b, <1>3, <3>2, UnderCollection DEF Collector, Deleting
      <4> QED
          BY <1>c, <2>1, <4>1 DEF Settled, DocumentsTyped
    <3> QED
        BY <3>1, <3>2
  <2> QED
      BY <1>c, <2>1, <2>2, <2>3, <2>4, TendedStep DEF Runs, DocumentsTyped
<1> QED
    BY <1>1, <1>2, <1>3 DEF Deleting

LEMMA WritesTended ==
    ASSUME IInv, Tended, NEW w \in Process, faults = 0, Writes(w)
    PROVE  Tended'
<1>1. CASE pc[w] = "mark"
  <2>1. claim' = claim /\ doc' = doc /\ pc'[w] = "outcome"
      BY <1>1 DEF Writes, Write, Answered, MarkCollected, Fails, End, Goto, Deleting, IInv, Typed,
         ProcessesTyped
  <2> QED
      BY <1>1, <2>1, IdleStep DEF Runs, Tending
<1> QED
    BY <1>1, OvertakenTended, CreateTended, OwnerTended, KnownTended, DeletionTended
       DEF Writes, Writing, OwnerPhase, KnownPhase

LEMMA NextTended == IInv /\ Tended /\ [Next]_vars => Tended'
<1> SUFFICES ASSUME IInv, Tended, [Next]_vars, faults' = 0 PROVE Tended'
    BY DEF Tended
<1>1. CASE UNCHANGED vars \/ Done
  <2>1. faults = 0 /\ UNCHANGED <<claim, doc, op, pc, held, collect, straddled>>
      BY <1>1 DEF Done, vars, documents
  <2> QED
      BY <2>1 DEF Tended, Settled, Tends, Overtaken
<1>2. ASSUME NEW w \in Process, Runs(w) PROVE Tended'
  <2>1. faults \in Nat
      BY DEF IInv, Typed, BoundsTyped
  <2>2. faults' = faults + 1 => FALSE
      BY <2>1
  <2>3. CASE Writes(w) \/ Verify(w) \/ UpdateRefused(w)
    <3>1. faults = 0
        BY <2>3 DEF Writes, Verify, UpdateRefused, Reading
    <3> QED
        BY <2>3, <3>1, WritesTended, VerifyTended, OvertakenTended, RefusedTended
  <2>4. CASE Begin(w) \/ PartStart(w) \/ FindPart(w) \/ ReadClaim(w) \/ Reread(w)
             \/ CommitStart(w) \/ Assemble(w) \/ Await(w) \/ Winner(w)
             \/ CollectStart(w) \/ RereadCollection(w) \/ Witness(w) \/ Answer(w)
    <3>1. faults = 0
        BY <2>2, <2>4 DEF Begin, PartStart, FindPart, ReadClaim, Reread, CommitStart,
           Assemble, Await, Winner, CollectStart, RereadCollection, Witness, Answer, Reading
    <3> QED
        BY <2>4, <3>1, QuietTended
  <2>5. CASE RequestFails(w) \/ UploadRejected(w) \/ Crash(w)
      BY <2>2, <2>5 DEF RequestFails, UploadRejected, Crash
  <2> QED
      BY <1>2, <2>3, <2>4, <2>5 DEF Runs
<1> QED
    BY <1>1, <1>2 DEF Next

\* ClaimsSettled: without failures, when no request is being served, every
\* claim is settled and agrees with what is published, unless its part was
\* collected under an upload.
THEOREM SettledTheorem == Spec => []ClaimsSettled
<1>1. Init => IInv /\ Tended
  <2>1. Init => Tended
    <3> SUFFICES ASSUME Init PROVE Tended
        OBVIOUS
    <3>1. \A x \in Object : claim[x] = NoClaim /\ doc[x] = 0
        BY DEF Init
    <3>2. \A w \in Process : pc[w] = "idle"
        BY DEF Init
    <3> QED
        BY <3>1, <3>2 DEF Tended, Settled
  <2> QED
      BY <2>1, InitIInv
<1>2. IInv /\ Tended /\ [Next]_vars => IInv' /\ Tended'
    BY NextIInv, NextTended
<1>3. Tended => ClaimsSettled
  <2> SUFFICES ASSUME Tended, faults = 0, \A w \in Process : pc[w] = "idle",
                      NEW x \in Object
               PROVE  Settled(x) \/ Overtaken(x)
      BY DEF ClaimsSettled, Settled
  <2>1. \A v \in Process : ~Tends(v, x)
      BY DEF Tends
  <2> QED
      BY <2>1 DEF Tended
<1> QED
    BY <1>1, <1>2, <1>3, PTL DEF Spec
=============================================================================
