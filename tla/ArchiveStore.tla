---------------------------- MODULE ArchiveStore ----------------------------
(***************************************************************************)
(* One upload to the transcript archive, as the server processes that      *)
(* handle its requests see it: lib/transcript-archive-store.ts.            *)
(*                                                                         *)
(* A part is uploaded by the process that creates its claim document, and  *)
(* published as a part document; a commit assembles the parts, uploads the *)
(* archive under a claim of its own and publishes it in the catalog.  Part *)
(* and archive go through the same steps and are both objects here: parts  *)
(* are 1..Parts, Final is the archive.  Every request to the storage       *)
(* service is a step; a request may fail whether or not it was applied,    *)
(* and a process may die.                                                  *)
(*                                                                         *)
(* Temporary parts are collected after the commit, at any time: the        *)
(* retention may be a second, and counts from the time at which the        *)
(* generation of the archive was recorded, not from the completion (lines  *)
(* 578 and 933).  A part upload checks once, when it starts, that the      *)
(* upload is not committed (line 731).                                     *)
(*                                                                         *)
(* What a part contains, its declared plan and hash, the lineage of the    *)
(* upload and the memory budget of commits are left out, and so are the    *)
(* audit documents: only that failing to write one fails the request.      *)
(***************************************************************************)
EXTENDS Naturals, FiniteSets

CONSTANTS
    Parts,       \* totalParts
    Process,     \* server processes: one request of this upload each at a time
    NoOp,        \* the process serves no request
    MaxRequests, \* bound: requests of one behaviour
    MaxFaults    \* bound: failed storage requests and crashes

ASSUME BoundAssumption == {Parts, MaxRequests, MaxFaults} \subseteq Nat

Part == 1..Parts
Final == 0
Collect == Parts + 1     \* collectTemporaryParts
Object == Part \cup {Final}
Op == Object \cup {Collect}

ASSUME NoOpAssumption == NoOp \notin Op

VARIABLES
    claim,     \* part and final claim documents: their status and generation
    doc,       \* part documents and the catalog: the generation published
    stored,    \* the generations of an object that exist in the store
    made,      \* how many generations of an object were ever stored
    collect,   \* the claim document of the collection: its status
    plan,      \* and the generations of the parts it deletes
    op,        \* the operation a process serves
    pc,        \* where the process is in it
    held,      \* the generation it goes on with or answers, 0 for an error;
               \* in a collection the part whose leftovers it deletes
    acked,     \* history: what clients were told is stored, with its generation
    straddled, \* history: parts an upload was at work on when the commit completed
    requests,  \* requests so far
    faults     \* failures so far

documents == <<claim, doc, stored, made, collect, plan, straddled>>
vars == <<documents, op, pc, held, acked, requests, faults>>

Gen == Nat     \* 0: none
Claim(status, gen) == [status |-> status, gen |-> gen]
NoClaim == Claim("none", 0)
Known == {"uploaded", "completed"}

Init ==
    /\ claim = [x \in Object |-> NoClaim]
    /\ doc = [x \in Object |-> 0]
    /\ stored = [x \in Object |-> {}]
    /\ made = [x \in Object |-> 0]
    /\ collect = "none" /\ plan = [p \in Part |-> 0]
    /\ op = [w \in Process |-> NoOp]
    /\ pc = [w \in Process |-> "idle"]
    /\ held = [w \in Process |-> 0]
    /\ acked = {} /\ straddled = {} /\ requests = 0 /\ faults = 0

Published(x) == doc[x] # 0 /\ doc[x] \in stored[x]

Goto(w, place) == pc' = [pc EXCEPT ![w] = place]
Hold(w, gen) == held' = [held EXCEPT ![w] = gen]
Step(w, place) == Goto(w, place) /\ UNCHANGED held

\* The operation ended; its outcome is still to be audited.
End(w, gen) == Hold(w, gen) /\ Goto(w, "outcome")
Fails(w) == End(w, 0)

Reading == UNCHANGED <<documents, op, acked, requests, faults>>

\* A request for this upload arrives, and its audit intent is written.
Begin(w) ==
    /\ pc[w] = "idle" /\ requests < MaxRequests
    /\ requests' = requests + 1
    /\ \E o \in Op : op' = [op EXCEPT ![w] = o]
    /\ Step(w, "start")
    /\ UNCHANGED <<documents, acked, faults>>

\* uploadPart is refused once the upload is committed.
PartStart(w) ==
    /\ pc[w] = "start" /\ op[w] \in Part
    /\ IF claim[Final].status = "completed" THEN Fails(w) ELSE Step(w, "find")
    /\ Reading

\* A published part is only verified.
FindPart(w) ==
    /\ pc[w] = "find"
    /\ \/ doc[op[w]] = 0 /\ Step(w, "read")
       \/ doc[op[w]] # 0 /\ End(w, IF Published(op[w]) THEN doc[op[w]] ELSE 0)
    /\ Reading

\* A claim that was there: an object known to be stored is finished for its
\* owner; otherwise the upload is the owner's, and a commit waits for it.
Claimed(w, c) ==
    \/ c.status \in Known /\ Hold(w, c.gen) /\ Goto(w, "verify")
    \/ c.status \in {"pending", "uncertain"} /\ op[w] = Final /\ Step(w, "await")
    \/ c.status \in {"pending", "uncertain"} /\ op[w] # Final /\ Fails(w)

ReadClaim(w) ==
    /\ pc[w] = "read"
    /\ \/ claim[op[w]] = NoClaim /\ Step(w, "create")
       \/ Claimed(w, claim[op[w]])
    /\ Reading

\* The claim was created meanwhile: whose is it?
Reread(w) ==
    /\ pc[w] = "reread" /\ op[w] # Collect
    /\ \/ claim[op[w]] = NoClaim /\ Fails(w)
       \/ Claimed(w, claim[op[w]])
    /\ Reading

\* A mutant: the claim alone is taken for the commit.
CommittedByClaim == claim[Final].status = "completed"

\* The catalog entry of a committed upload (findCatalogByUpload).
Committed == claim[Final].status = "completed" /\ doc[Final] # 0

\* commit returns an entry it finds.
CommitStart(w) ==
    /\ pc[w] = "start" /\ op[w] = Final
    /\ IF Committed THEN End(w, doc[Final]) ELSE Step(w, "assemble")
    /\ Reading

\* Otherwise every part must be published and download.
Assemble(w) ==
    /\ pc[w] = "assemble"
    /\ IF \A p \in Part : Published(p) THEN Step(w, "create") ELSE Fails(w)
    /\ Reading

\* awaitCompletedClaim polls, and gives up.
Await(w) ==
    /\ pc[w] = "await"
    /\ \/ Committed /\ End(w, doc[Final])
       \/ Fails(w)
    /\ Reading

\* The stored generation is read back before it is published.
Verify(w) ==
    /\ pc[w] = "verify"
    /\ IF held[w] \notin stored[op[w]] THEN Fails(w)
       ELSE Step(w, IF op[w] = Final THEN "complete" ELSE "publish")
    /\ Reading

\* Publishing was refused, or failed for the archive: what is there decides.
Winner(w) ==
    /\ pc[w] = "winner"
    /\ IF op[w] = Final
       THEN End(w, doc[Final])
       ELSE End(w, IF doc[op[w]] = held[w] /\ Published(op[w]) THEN held[w] ELSE 0)
    /\ Reading

\* A part that can be collected has its document and completed claim agree.
Collectable(p) == doc[p] # 0 /\ claim[p] = Claim("completed", doc[p])

\* collectCommittedUploadParts up to its own claim.  What it reads of the parts
\* stays so until a collection is claimed, and then its claim is refused.
CollectStart(w) ==
    /\ pc[w] = "start" /\ op[w] = Collect
    /\ IF ~Committed \/ collect = "completed" THEN Fails(w)
       ELSE IF collect = "pending" THEN Step(w, "witness")
       ELSE IF \A p \in Part : Collectable(p) THEN Step(w, "create")
       ELSE Fails(w)
    /\ Reading

\* The claim was refused or is unclear: is there one that is not completed?
RereadCollection(w) ==
    /\ pc[w] = "reread" /\ op[w] = Collect
    /\ IF collect = "pending" THEN Step(w, "witness") ELSE Fails(w)
    /\ Reading

\* Both witnesses of the commit are read again before the plan is carried out
\* from its first part, also by a process that resumes a collection.
Witness(w) ==
    /\ pc[w] = "witness"
    /\ IF ~Committed THEN Fails(w)
       ELSE IF Parts = 0 THEN Step(w, "mark")
       ELSE Hold(w, 1) /\ Goto(w, "object")
    /\ Reading
-----------------------------------------------------------------------------
\* The writes.  A write that is applied is the same whether or not the process
\* receives its answer.

ChangesClaim == UNCHANGED <<doc, stored, made, collect, plan>>

CreateClaim(x) ==
    /\ claim' = [claim EXCEPT ![x] = IF @ = NoClaim THEN Claim("pending", 0) ELSE @]
    /\ ChangesClaim /\ UNCHANGED straddled

\* A claim document is updated or deleted.
SetClaim(x, c) ==
    claim' = [claim EXCEPT ![x] = c] /\ ChangesClaim /\ UNCHANGED straddled

\* A mutant: an ambiguous upload gives its claim back.
UncertainReleases(x) == SetClaim(x, NoClaim)

\* bestEffortClaimUpdate and releaseDefinitelyRejectedClaim.
Uncertain(x) == SetClaim(x, Claim("uncertain", 0))
Release(x) == SetClaim(x, NoClaim)

Upload(x) ==
    /\ made' = [made EXCEPT ![x] = @ + 1]
    /\ stored' = [stored EXCEPT ![x] = @ \cup {made[x] + 1}]
    /\ UNCHANGED <<claim, doc, collect, plan, straddled>>

\* A mutant: the generation is not recorded.
KeepPending(x, status, gen) == UNCHANGED documents

\* The parts of uploads that are past their claim check.
Underway ==
    {op[w] : w \in {v \in Process : op[v] \in Part /\ pc[v] \notin {"start", "outcome"}}}

Record(x, status, gen) ==
    /\ claim' = [claim EXCEPT ![x] = Claim(status, gen)] /\ ChangesClaim
    /\ straddled' = IF x = Final /\ status = "completed" /\ claim[x].status # status
                    THEN Underway ELSE straddled

Publish(x, gen) ==
    /\ doc' = [doc EXCEPT ![x] = IF @ = 0 THEN gen ELSE @]
    /\ UNCHANGED <<claim, stored, made, collect, plan, straddled>>

\* createDocumentWithId of the collection's claim, and its update.
ClaimCollection ==
    /\ IF collect = "none"
       THEN collect' = "pending" /\ plan' = [p \in Part |-> doc[p]]
       ELSE UNCHANGED <<collect, plan>>
    /\ UNCHANGED <<claim, doc, stored, made, straddled>>

MarkCollected ==
    collect' = "completed" /\ UNCHANGED <<claim, doc, stored, made, plan, straddled>>

\* The generation in the plan is deleted, then the documents of the part,
\* whatever they say by now.  What is already gone is no error.
DeleteObject(p) ==
    /\ stored' = [stored EXCEPT ![p] = @ \ {plan[p]}]
    /\ UNCHANGED <<claim, doc, made, collect, plan, straddled>>

DeleteDocument(p) ==
    /\ doc' = [doc EXCEPT ![p] = 0]
    /\ UNCHANGED <<claim, stored, made, collect, plan, straddled>>

Deleting == {"object", "document", "claim"}
Writing == {"create", "upload", "uncertain", "release", "persist", "complete",
            "publish", "mark"} \cup Deleting

Write(w) ==
    \/ pc[w] = "create" /\ op[w] # Collect /\ CreateClaim(op[w])
    \/ pc[w] = "create" /\ op[w] = Collect /\ ClaimCollection
    \/ pc[w] = "upload" /\ Upload(op[w])
    \/ pc[w] = "uncertain" /\ Uncertain(op[w])
    \/ pc[w] = "release" /\ Release(op[w])
    \/ pc[w] = "persist" /\ Record(op[w], "uploaded", held[w])
    \/ pc[w] = "complete" /\ Record(op[w], "completed", held[w])
    \/ pc[w] = "publish" /\ Publish(op[w], held[w])
    \/ pc[w] = "object" /\ DeleteObject(held[w])
    \/ pc[w] = "document" /\ DeleteDocument(held[w])
    \/ pc[w] = "claim" /\ Release(held[w])
    \/ pc[w] = "mark" /\ MarkCollected

\* The next part, or the end: the success is audited, and the claim marked.
NextPart(w) ==
    IF held[w] = Parts THEN Hold(w, 0) /\ Goto(w, "mark")
    ELSE Hold(w, held[w] + 1) /\ Goto(w, "object")

\* A mutant: a generation that is gone already stands for the whole part.
SkipsPart(w) ==
    \/ /\ pc[w] = "object"
       /\ IF plan[held[w]] \in stored[held[w]] THEN Step(w, "document") ELSE NextPart(w)
    \/ pc[w] = "document" /\ Step(w, "claim")
    \/ pc[w] = "claim" /\ NextPart(w)

\* The order of deletions.
NextDeletion(w) ==
    \/ pc[w] = "object" /\ Step(w, "document")
    \/ pc[w] = "document" /\ Step(w, "claim")
    \/ pc[w] = "claim" /\ NextPart(w)

\* Where the process goes on when its write is answered.
Answered(w) ==
    \/ pc[w] = "create" /\ op[w] = Collect
       /\ Step(w, IF collect = "none" THEN "witness" ELSE "reread")
    \/ pc[w] = "create" /\ op[w] # Collect
       /\ Step(w, IF claim[op[w]] = NoClaim THEN "upload" ELSE "reread")
    \/ pc[w] = "upload" /\ Hold(w, made[op[w]] + 1) /\ Goto(w, "persist")
    \/ pc[w] \in {"uncertain", "release", "mark"} /\ Fails(w)
    \/ pc[w] = "persist" /\ Step(w, "verify")
    \/ pc[w] = "complete" /\ IF op[w] = Final THEN Step(w, "publish") ELSE End(w, held[w])
    \/ pc[w] = "publish" /\ doc[op[w]] # 0 /\ Step(w, "winner")
    \/ pc[w] = "publish" /\ doc[op[w]] = 0
       /\ IF op[w] = Final THEN End(w, held[w]) ELSE Step(w, "complete")
    \/ pc[w] \in Deleting /\ NextDeletion(w)

Writes(w) ==
    /\ pc[w] \in Writing
    /\ Write(w) /\ Answered(w)
    /\ UNCHANGED <<op, acked, requests, faults>>

\* The claim to update is gone, collected meanwhile.  Whether the service then
\* writes it anew, as Writes does, or refuses is not known.
UpdateRefused(w) ==
    /\ pc[w] \in {"uncertain", "persist", "complete"} /\ claim[op[w]] = NoClaim
    /\ Fails(w)
    /\ Reading

\* A mutant: the failure is swallowed.
UnansweredGoesOn(w) == End(w, held[w])

\* Where it goes on when the request fails.
Unanswered(w) ==
    \/ pc[w] = "upload" /\ Step(w, "uncertain")
    \/ pc[w] = "publish" /\ op[w] = Final /\ Step(w, "winner")
    \/ pc[w] = "create" /\ op[w] = Collect /\ Step(w, "reread")
    \/ /\ pc[w] # "upload"
       /\ pc[w] = "publish" => op[w] # Final
       /\ pc[w] = "create" => op[w] # Collect
       /\ Fails(w)

\* A storage request fails, a write possibly after it was applied.
RequestFails(w) ==
    /\ pc[w] \notin {"idle", "outcome"} /\ faults < MaxFaults
    /\ faults' = faults + 1
    /\ \/ UNCHANGED documents
       \/ pc[w] \in Writing /\ Write(w)
    /\ Unanswered(w)
    /\ UNCHANGED <<op, acked, requests>>

\* The upload is refused in a way that proves nothing was stored.
UploadRejected(w) ==
    /\ pc[w] = "upload" /\ faults < MaxFaults
    /\ faults' = faults + 1
    /\ Step(w, "release")
    /\ UNCHANGED <<documents, op, acked, requests>>

\* A mutant: the request is not forgotten.
IdleBusy(w) == Hold(w, 0) /\ Goto(w, "idle") /\ UNCHANGED op

Idle(w) ==
    /\ op' = [op EXCEPT ![w] = NoOp]
    /\ Hold(w, 0) /\ Goto(w, "idle")

\* The outcome is audited and answered: when it cannot be audited, as an error.
Answer(w) ==
    /\ pc[w] = "outcome"
    /\ \/ /\ acked' = acked \cup (IF held[w] = 0 THEN {} ELSE {<<op[w], held[w]>>})
          /\ UNCHANGED faults
       \/ /\ held[w] # 0 /\ faults < MaxFaults
          /\ faults' = faults + 1
          /\ UNCHANGED acked
    /\ Idle(w)
    /\ UNCHANGED <<documents, requests>>

Crash(w) ==
    /\ pc[w] # "idle" /\ faults < MaxFaults
    /\ faults' = faults + 1
    /\ Idle(w)
    /\ UNCHANGED <<documents, acked, requests>>

Runs(w) ==
    \/ Begin(w) \/ PartStart(w) \/ FindPart(w) \/ ReadClaim(w) \/ Reread(w)
    \/ CommitStart(w) \/ Assemble(w) \/ Await(w) \/ Verify(w) \/ Winner(w)
    \/ CollectStart(w) \/ RereadCollection(w) \/ Witness(w) \/ Writes(w)
    \/ UpdateRefused(w) \/ RequestFails(w) \/ UploadRejected(w) \/ Answer(w) \/ Crash(w)

Done ==
    /\ requests = MaxRequests /\ \A w \in Process : pc[w] = "idle"
    /\ UNCHANGED vars

Next == Done \/ \E w \in Process : Runs(w)

Spec == Init /\ [][Next]_vars
-----------------------------------------------------------------------------
\* The state is well typed.
TypeOK ==
    /\ claim \in [Object -> [status : {"none", "pending", "uncertain"} \cup Known, gen : Gen]]
    /\ doc \in [Object -> Gen] /\ stored \in [Object -> SUBSET Gen]
    /\ made \in [Object -> Gen]
    /\ collect \in {"none", "pending", "completed"} /\ plan \in [Part -> Gen]
    /\ op \in [Process -> Op \cup {NoOp}]
    /\ held \in [Process -> Gen \cup Part]
    /\ \A w \in Process : pc[w] = "idle" <=> op[w] = NoOp
    /\ acked \subseteq Object \X Gen /\ straddled \subseteq Part
    /\ requests \in 0..MaxRequests /\ faults \in 0..MaxFaults

\* An upload of the part was past its claim check when the commit completed,
\* and the part is collected under it.
Overtaken(x) == x \in straddled /\ collect # "none"

\* However requests race, fail ambiguously, are retried or die, the archive
\* itself is uploaded at most once, and so is each part ("no duplicate object
\* was uploaded", lines 773 and 913), except a part that was collected while
\* an upload of it was under way since before the commit.
OneObject == \A x \in Object : made[x] <= 1 \/ Overtaken(x)

\* What a client was told is stored stays: the generation a commit answered is
\* the one in the catalog, and a part stays until the catalog stands for it.
AnswersHold ==
    \A a \in acked :
        \/ a[1] = Final /\ doc[Final] = a[2] /\ Published(Final)
        \/ a[1] \in Part /\ (Published(a[1]) \/ (Committed /\ Published(Final)))

\* Once the generation of the archive is recorded, a crash at any later point
\* leaves all that another commit needs: the archive, and until the catalog
\* shows it also the parts, which that commit reads before it can find the
\* claim (lines 860, 903 and 934).
Recoverable ==
    claim[Final].status \in Known =>
        /\ claim[Final].gen \in stored[Final]
        /\ Published(Final) \/ \A p \in Part : Published(p)

\* Without failures nothing stays reserved: when no request is being served
\* every claim is settled and agrees with what is published, unless its part
\* was collected under an upload.
ClaimsSettled ==
    (faults = 0 /\ \A w \in Process : pc[w] = "idle") =>
        \A x \in Object :
            \/ claim[x] = IF doc[x] = 0 THEN NoClaim ELSE Claim("completed", doc[x])
            \/ Overtaken(x)

\* A collection marked completed left no temporary object, document or claim,
\* and none comes back (lines 671-676), except of a part that an upload was at
\* work on since before the commit completed.
CollectedWhole ==
    collect = "completed" =>
        /\ doc[Final] \in stored[Final]
        /\ \A p \in Part \ straddled :
            stored[p] = {} /\ doc[p] = 0 /\ claim[p] = NoClaim
=============================================================================
