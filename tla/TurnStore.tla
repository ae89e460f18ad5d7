----------------------------- MODULE TurnStore -----------------------------
(***************************************************************************)
(* The durable receipt of one remote-local turn:                           *)
(* src/server/lib/remote-local-turn-store.ts over the storage service's    *)
(* compare-and-set documents.                                              *)
(*                                                                         *)
(* All calls here name the same command id; two calls may differ in the    *)
(* digest of the request.  A call is split at its requests to the storage  *)
(* service.  A request may be answered, refused, throttled (429, known not *)
(* to be applied) or fail; a write that failed may still be applied later, *)
(* or never.                                                               *)
(***************************************************************************)
EXTENDS Naturals

CONSTANTS
    Call,       \* the calls made on the store
    Digest,     \* request digests
    NoDigest,   \* the digest of no document
    Stamp,      \* values of updatedAt; two calls may pick the same
    Terminal,   \* terminal dispositions
    Retries     \* terminalRetryPolicy.attempts

Kinds == {"accept", "progress", "terminal", "command"}
Dispositions == {"accepted", "in_progress"} \cup Terminal
Results == {"none", "accepted", "replay", "updated", "idempotent",
            "conflict", "unavailable"}

ASSUME RetriesAssumption == Retries \in Nat
ASSUME NoDigestAssumption == NoDigest \notin Digest
ASSUME TerminalAssumption ==
    Terminal \cap {"none", "accepted", "in_progress"} = {}

VARIABLES
    doc,        \* the stored document; revision 0 is none
    inFlight,   \* writes whose requests failed and that may still be applied
    pc,         \* where the call is
    kind,       \* which operation it is
    digest,     \* the digest it was called with
    target,     \* the disposition it asks for
    intended,   \* the write it makes, with the revision it read
    attempts,   \* retries made
    result      \* its answer

vars == <<doc, inFlight, pc, kind, digest, target, intended, attempts, result>>

NoDoc == [rev |-> 0, digest |-> NoDigest, disposition |-> "none", stamp |-> 0]
Write == [rev : Nat, digest : Digest, disposition : Dispositions, stamp : Stamp]

Init ==
    /\ doc = NoDoc
    /\ inFlight = {}
    /\ pc = [p \in Call |-> "idle"]
    /\ kind = [p \in Call |-> "accept"]
    /\ digest = [p \in Call |-> NoDigest]
    /\ target = [p \in Call |-> "accepted"]
    /\ intended = [p \in Call |-> NoDoc]
    /\ attempts = [p \in Call |-> 0]
    /\ result = [p \in Call |-> "none"]

request == <<kind, digest, target>>

Goto(p, place) == pc' = [pc EXCEPT ![p] = place]

Answer(p, r) ==
    /\ result' = [result EXCEPT ![p] = r]
    /\ Goto(p, "done")
    /\ UNCHANGED <<intended, attempts>>

SettlesTurn(p) == kind[p] \in {"terminal", "command"}

-----------------------------------------------------------------------------
(* The storage service                                                     *)

\* A mutant: the service writes without comparing revisions.
ApplyBlindly(w) == doc' = [w EXCEPT !.rev = doc.rev + 1]

\* A write is applied only to the revision it names; creation is revision 0.
Apply(w) ==
    /\ doc.rev = w.rev
    /\ doc' = [w EXCEPT !.rev = w.rev + 1]

\* A request that failed reaches the service after all; a stale one is refused.
DeliverLate(w) ==
    /\ inFlight' = inFlight \ {w}
    /\ Apply(w) \/ (doc.rev # w.rev /\ UNCHANGED doc)
    /\ UNCHANGED <<pc, request, intended, attempts, result>>

-----------------------------------------------------------------------------
(* Calls                                                                   *)

CallAccept(p, d, s) ==
    /\ pc[p] = "idle"
    /\ kind' = [kind EXCEPT ![p] = "accept"]
    /\ digest' = [digest EXCEPT ![p] = d]
    /\ target' = [target EXCEPT ![p] = "accepted"]
    /\ intended' = [intended EXCEPT ![p] =
           [rev |-> 0, digest |-> d, disposition |-> "accepted", stamp |-> s]]
    /\ Goto(p, "write")
    /\ UNCHANGED <<doc, inFlight, attempts, result>>

CallProgress(p, d) ==
    /\ pc[p] = "idle"
    /\ kind' = [kind EXCEPT ![p] = "progress"]
    /\ digest' = [digest EXCEPT ![p] = d]
    /\ target' = [target EXCEPT ![p] = "in_progress"]
    /\ Goto(p, "get")
    /\ UNCHANGED <<doc, inFlight, intended, attempts, result>>

CallTerminalize(p, d, t) ==
    /\ pc[p] = "idle"
    /\ kind' = [kind EXCEPT ![p] = "terminal"]
    /\ digest' = [digest EXCEPT ![p] = d]
    /\ target' = [target EXCEPT ![p] = t]
    /\ Goto(p, "get")
    /\ UNCHANGED <<doc, inFlight, intended, attempts, result>>

CallTerminalizeCommand(p, t) ==
    /\ pc[p] = "idle"
    /\ kind' = [kind EXCEPT ![p] = "command"]
    /\ target' = [target EXCEPT ![p] = t]
    /\ Goto(p, "lookup")
    /\ UNCHANGED <<doc, inFlight, digest, intended, attempts, result>>

\* A mutant: retries are not counted.
RetryForever(p, place) ==
    /\ Goto(p, place)
    /\ UNCHANGED <<attempts, intended, result>>

\* A mutant: one retry too many.
RetryOnceMore(p, place) ==
    \/ /\ attempts[p] <= Retries
       /\ attempts' = [attempts EXCEPT ![p] = attempts[p] + 1]
       /\ Goto(p, place)
       /\ UNCHANGED <<intended, result>>
    \/ /\ attempts[p] > Retries
       /\ Answer(p, "unavailable")

\* retryTerminalSettlement: start again from a read, or give up.
Retry(p, place) ==
    \/ /\ attempts[p] < Retries
       /\ attempts' = [attempts EXCEPT ![p] = attempts[p] + 1]
       /\ Goto(p, place)
       /\ UNCHANGED <<intended, result>>
    \/ /\ attempts[p] >= Retries
       /\ Answer(p, "unavailable")

\* A read or write is throttled: only settlements retry.
Throttled(p) ==
    /\ pc[p] \in {"lookup", "get", "write", "confirm"}
    /\ \/ SettlesTurn(p) /\ Retry(p, IF pc[p] = "lookup" THEN "lookup" ELSE "get")
       \/ ~SettlesTurn(p) /\ pc[p] = "write" /\ Goto(p, "confirm")
          /\ UNCHANGED <<intended, attempts, result>>
       \/ ~SettlesTurn(p) /\ pc[p] # "write" /\ Answer(p, "unavailable")
    /\ UNCHANGED <<doc, inFlight, request>>

\* A read fails.
ReadFails(p) ==
    /\ pc[p] \in {"lookup", "get", "confirm"}
    /\ Answer(p, "unavailable")
    /\ UNCHANGED <<doc, inFlight, request>>

\* terminalizeCommand reads the receipt to learn what it was accepted with;
\* terminalize, which it calls, has retries of its own.
Lookup(p) ==
    /\ pc[p] = "lookup"
    /\ \/ /\ doc.rev = 0
          /\ Answer(p, "unavailable")
          /\ UNCHANGED digest
       \/ /\ doc.rev # 0
          /\ digest' = [digest EXCEPT ![p] = doc.digest]
          /\ attempts' = [attempts EXCEPT ![p] = 0]
          /\ Goto(p, "get")
          /\ UNCHANGED <<intended, result>>
    /\ UNCHANGED <<doc, inFlight, kind, target>>

\* The read of markInProgress and terminalizeOnce.
Get(p, s) ==
    /\ pc[p] = "get"
    /\ \/ doc.rev = 0 /\ Answer(p, "unavailable")
       \/ /\ doc.rev # 0 /\ doc.digest # digest[p]
          /\ Answer(p, "conflict")
       \/ /\ doc.rev # 0 /\ doc.digest = digest[p]
          /\ doc.disposition = target[p]
          /\ Answer(p, "idempotent")
       \/ /\ doc.rev # 0 /\ doc.digest = digest[p]
          /\ doc.disposition # target[p] /\ doc.disposition \in Terminal
          /\ Answer(p, "conflict")
       \/ /\ doc.rev # 0 /\ doc.digest = digest[p]
          /\ doc.disposition # target[p] /\ doc.disposition \notin Terminal
          /\ intended' = [intended EXCEPT ![p] =
                 [doc EXCEPT !.disposition = target[p], !.stamp = s]]
          /\ Goto(p, "write")
          /\ UNCHANGED <<attempts, result>>
    /\ UNCHANGED <<doc, inFlight, request>>

\* The write is applied and answered.
WriteApplied(p) ==
    /\ pc[p] = "write"
    /\ Apply(intended[p])
    /\ Answer(p, IF kind[p] = "accept" THEN "accepted" ELSE "updated")
    /\ UNCHANGED <<inFlight, request>>

\* A mutant: finding one's own request stored counts as having stored it.
ReconciledAccepted(p) ==
    IF doc.digest # digest[p] THEN "conflict"
    ELSE IF kind[p] = "accept" THEN "accepted"
    ELSE IF doc.disposition = target[p] THEN "idempotent" ELSE "conflict"

\* What the current document means for a call whose write was refused:
\* reconcileExisting, reconcileTerminal, reconcileProgress.
Reconciled(p) ==
    IF doc.digest # digest[p] THEN "conflict"
    ELSE IF kind[p] = "accept" THEN "replay"
    ELSE IF doc.disposition = target[p] THEN "idempotent" ELSE "conflict"

\* The write is refused with the current document.
WriteRefused(p) ==
    /\ pc[p] = "write"
    /\ doc.rev # intended[p].rev
    /\ Answer(p, Reconciled(p))
    /\ UNCHANGED <<doc, inFlight, request>>

\* The write fails and nobody knows whether it will be applied.
WriteUncertain(p) ==
    /\ pc[p] = "write"
    /\ inFlight' = inFlight \cup {intended[p]}
    /\ Goto(p, "confirm")
    /\ UNCHANGED <<doc, request, intended, attempts, result>>

SameReceipt(p) ==
    [doc EXCEPT !.rev = intended[p].rev] = intended[p]

\* A mutant: any newer revision is taken for the call's own write.
ConfirmTrusting(p) ==
    /\ pc[p] = "confirm"
    /\ Answer(p, IF doc.rev = intended[p].rev THEN "unavailable"
                 ELSE IF kind[p] = "accept" THEN "replay" ELSE "idempotent")
    /\ UNCHANGED <<doc, inFlight, request>>

\* reconcileAfterUncertainCreate, reconcileUncertainTerminal and
\* reconcileUncertainProgress: read again what became of it.
Confirm(p) ==
    /\ pc[p] = "confirm"
    /\ \/ doc.rev = intended[p].rev /\ Answer(p, "unavailable")
       \/ /\ doc.rev # intended[p].rev /\ kind[p] = "accept"
          /\ Answer(p, Reconciled(p))
       \/ /\ doc.rev # intended[p].rev /\ kind[p] # "accept"
          /\ Answer(p, IF SameReceipt(p) THEN "idempotent" ELSE "conflict")
    /\ UNCHANGED <<doc, inFlight, request>>

-----------------------------------------------------------------------------
Begin(p) ==
    \/ \E d \in Digest :
           \/ \E s \in Stamp : CallAccept(p, d, s)
           \/ CallProgress(p, d)
           \/ \E t \in Terminal : CallTerminalize(p, d, t)
    \/ \E t \in Terminal : CallTerminalizeCommand(p, t)

Step(p) ==
    \/ Throttled(p) \/ ReadFails(p) \/ Lookup(p)
    \/ \E s \in Stamp : Get(p, s)
    \/ WriteApplied(p) \/ WriteRefused(p) \/ WriteUncertain(p) \/ Confirm(p)

Next ==
    \/ \E p \in Call : Begin(p) \/ Step(p)
    \/ \E w \in inFlight : DeliverLate(w)

Spec == Init /\ [][Next]_vars

\* Every request is answered, fails or times out.
FairSpec == Spec /\ \A p \in Call : WF_vars(Step(p))

-----------------------------------------------------------------------------
\* Type invariant.
TypeOK ==
    /\ doc \in Write \cup {NoDoc}
    /\ inFlight \subseteq Write
    /\ pc \in [Call -> {"idle", "lookup", "get", "write", "confirm", "done"}]
    /\ kind \in [Call -> Kinds]
    /\ digest \in [Call -> Digest \cup {NoDigest}]
    /\ target \in [Call -> Dispositions]
    /\ intended \in [Call -> Write \cup {NoDoc}]
    /\ attempts \in [Call -> 0..Retries]
    /\ result \in [Call -> Results]

Receipt == INSTANCE TurnReceipt WITH disposition <- doc.disposition

\* The store implements TurnReceipt: "Terminal states never change", and a
\* receipt never goes back, whatever fails, is retried or arrives late.
ReceiptSpec == Receipt!Spec

\* An answer stays true of the document for ever: a settled turn has the
\* disposition the call was told, a turn marked in progress was, an accepted
\* or replayed request is the stored one, a conflicting one is not.
AnswersHold ==
    \A p \in Call :
        /\ result[p] \in {"updated", "idempotent"} =>
               /\ SettlesTurn(p) => doc.disposition = target[p]
               /\ kind[p] = "progress" =>
                      doc.disposition \in Dispositions \ {"accepted"}
        /\ result[p] \in {"accepted", "replay"} => doc.digest = digest[p]
        /\ result[p] = "conflict" /\ kind[p] = "accept" =>
               doc.rev # 0 /\ doc.digest # digest[p]

\* At most one call is told "accepted": the route dispatches the turn to the
\* device on that answer only, so a retried POST never runs it twice.
DispatchedOnce ==
    \A p, q \in Call :
        result[p] = "accepted" /\ result[q] = "accepted" => p = q

\* Every call is answered: a throttled settlement gives up in the end.
CallsEnd == \A p \in Call : pc[p] # "idle" ~> pc[p] = "done"
=============================================================================
