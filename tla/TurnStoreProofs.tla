-------------------------- MODULE TurnStoreProofs --------------------------
(***************************************************************************)
(* Proofs about TurnStore, for any number of calls, requests, dispositions *)
(* and retries: it implements TurnReceipt, and its answers stay true.      *)
(***************************************************************************)
EXTENDS TurnStore, TLAPS

Moves(a, b) ==
    \/ a = "accepted" /\ b = "in_progress"
    \/ a \in {"accepted", "in_progress"} /\ b \in Terminal

\* A write someone may still make: if it is applied, it moves the receipt on.
Fits(w) ==
    /\ w \in Write
    /\ w.rev <= doc.rev
    /\ w.rev = doc.rev =>
           IF w.rev = 0 THEN w.disposition = "accepted"
           ELSE w.digest = doc.digest /\ Moves(doc.disposition, w.disposition)

DocShape == doc.rev = 0 => doc = NoDoc

InFlightFits == \A w \in inFlight : Fits(w)

KindTarget(p) ==
    /\ kind[p] = "accept" <=> target[p] = "accepted"
    /\ kind[p] = "progress" <=> target[p] = "in_progress"
    /\ SettlesTurn(p) <=> target[p] \in Terminal

\* A call on its way to write, or asking what became of its write.
Writing(p) ==
    /\ Fits(intended[p])
    /\ intended[p].digest = digest[p]
    /\ intended[p].disposition = target[p]
    /\ intended[p].rev = 0 <=> kind[p] = "accept"

CallOK(p) ==
    /\ pc[p] # "idle" => KindTarget(p)
    /\ pc[p] # "done" => result[p] = "none"
    /\ pc[p] \in {"write", "confirm"} => Writing(p)
    /\ pc[p] \in {"lookup", "get"} => kind[p] # "accept"

\* AnswersHold, with what makes it inductive: an answered call met a receipt.
AnswerOK(p) ==
    /\ result[p] \in {"updated", "idempotent"} =>
           /\ doc.rev # 0 /\ doc.disposition # "accepted"
           /\ SettlesTurn(p) => doc.disposition = target[p]
    /\ result[p] \in {"accepted", "replay"} =>
           doc.rev # 0 /\ doc.digest = digest[p]
    /\ result[p] = "conflict" /\ kind[p] = "accept" =>
           doc.rev # 0 /\ doc.digest # digest[p]

IInv ==
    /\ TypeOK
    /\ DocShape
    /\ InFlightFits
    /\ \A p \in Call : CallOK(p)
    /\ \A p \in Call : AnswerOK(p)
    /\ DispatchedOnce

-----------------------------------------------------------------------------
LEMMA InitIInv == Init => IInv
<1> SUFFICES ASSUME Init PROVE IInv
  OBVIOUS
<1> USE DEF Init
<1>1. TypeOK
  BY RetriesAssumption DEF TypeOK, Kinds, Dispositions, Results
<1>2. DocShape /\ InFlightFits /\ DispatchedOnce
  BY DEF DocShape, InFlightFits, DispatchedOnce
<1>3. ASSUME NEW p \in Call PROVE CallOK(p) /\ AnswerOK(p)
  BY DEF CallOK, AnswerOK
<1> QED BY <1>1, <1>2, <1>3 DEF IInv

\* What the document can be, field by field.
LEMMA DocFields ==
    ASSUME TypeOK, DocShape
    PROVE  /\ doc.rev \in Nat
           /\ doc.rev # 0 => doc \in Write /\ doc.digest \in Digest
                             /\ doc.disposition \in Dispositions
           /\ doc.rev = 0 => doc.disposition = "none" /\ doc.digest = NoDigest
BY DEF TypeOK, DocShape, NoDoc, Write

\* A write that is applied moves the receipt on, and outdates every other one.
LEMMA Applied ==
    ASSUME TypeOK, DocShape, NEW w, Fits(w), Apply(w)
    PROVE  /\ doc' \in Write /\ doc'.rev = doc.rev + 1 /\ doc'.rev # 0
           /\ doc'.digest = w.digest /\ doc'.disposition = w.disposition
           /\ IF doc.rev = 0 THEN doc'.disposition = "accepted"
              ELSE /\ doc'.digest = doc.digest
                   /\ Moves(doc.disposition, doc'.disposition)
           /\ \A v : Fits(v) => Fits(v)'
<1>1. doc.rev \in Nat /\ w \in Write /\ doc.rev = w.rev
  BY DocFields DEF Fits, Apply
<1>2. doc' = [w EXCEPT !.rev = w.rev + 1]
  BY DEF Apply
<1>3. /\ doc' \in Write /\ doc'.rev = w.rev + 1
      /\ doc'.digest = w.digest /\ doc'.disposition = w.disposition
  BY <1>1, <1>2 DEF Write
<1>4. ASSUME NEW v, Fits(v) PROVE Fits(v)'
  <2>1. v.rev \in Nat /\ v.rev <= doc.rev
    BY <1>4 DEF Fits, Write
  <2> QED BY <1>1, <1>3, <1>4, <2>1 DEF Fits
<1> QED BY <1>1, <1>3, <1>4 DEF Fits

\* No answer is falsified by a receipt that moves on.
LEMMA AnswersSurvive ==
    ASSUME IInv, NEW w, Fits(w), Apply(w), NEW p \in Call,
           UNCHANGED <<kind, digest, target>>, result'[p] = result[p]
    PROVE  AnswerOK(p)'
<1>1. AnswerOK(p) /\ CallOK(p)
  BY DEF IInv
<1>2. CASE doc.rev = 0
  BY <1>1, <1>2 DEF AnswerOK
<1>3. CASE doc.rev # 0
  <2>1. /\ doc'.rev # 0 /\ doc'.digest = doc.digest
        /\ Moves(doc.disposition, doc'.disposition)
    BY <1>3, Applied DEF IInv
  <2>2. doc'.disposition # "accepted"
    BY <2>1, TerminalAssumption DEF Moves
  <2>3. doc.disposition \notin Terminal
    BY <2>1, TerminalAssumption DEF Moves
  <2>4. SettlesTurn(p)' = SettlesTurn(p)
    BY DEF SettlesTurn
  <2>5. SettlesTurn(p) /\ pc[p] # "idle" => target[p] \in Terminal
    BY <1>1 DEF CallOK, KindTarget
  <2>6. result[p] # "none" => pc[p] # "idle"
    BY <1>1 DEF CallOK
  <2> QED BY <1>1, <2>1, <2>2, <2>3, <2>4, <2>5, <2>6 DEF AnswerOK
<1> QED BY <1>2, <1>3

\* Another call's facts do not change when p takes a step that leaves the
\* document alone.
LEMMA OthersKeep ==
    ASSUME IInv, NEW p \in Call, UNCHANGED doc,
           NEW q \in Call, q # p,
           pc'[q] = pc[q], kind'[q] = kind[q], digest'[q] = digest[q],
           target'[q] = target[q], intended'[q] = intended[q],
           result'[q] = result[q]
    PROVE  CallOK(q)' /\ AnswerOK(q)'
BY DEF IInv, CallOK, AnswerOK, Writing, Fits, KindTarget, SettlesTurn

\* A step of one call that leaves the document and the late writes alone
\* preserves the invariant if it preserves what concerns that call.
LEMMA LocalStep ==
    ASSUME IInv, NEW p \in Call, UNCHANGED doc, TypeOK',
           inFlight' = inFlight \/ (inFlight' = inFlight \cup {intended[p]} /\ Fits(intended[p])),
           \A q \in Call : q # p =>
               /\ pc'[q] = pc[q] /\ kind'[q] = kind[q] /\ digest'[q] = digest[q]
               /\ target'[q] = target[q] /\ intended'[q] = intended[q]
               /\ result'[q] = result[q],
           CallOK(p)', AnswerOK(p)', result'[p] # "accepted" \/ result[p] = "accepted"
    PROVE  IInv'
<1>1. DocShape'
  BY DEF IInv, DocShape
<1>2. InFlightFits'
  BY DEF IInv, InFlightFits, Fits
<1>3. \A q \in Call : CallOK(q)' /\ AnswerOK(q)'
  BY OthersKeep
<1>4. DispatchedOnce'
  BY DEF IInv, DispatchedOnce
<1> QED BY <1>1, <1>2, <1>3, <1>4 DEF IInv

\* A step in which p is answered and nothing else happens.
LEMMA AnswerStep ==
    ASSUME IInv, NEW p \in Call, NEW r \in Results \ {"accepted", "none"},
           Answer(p, r), pc[p] # "idle",
           UNCHANGED <<doc, inFlight, kind, target>>,
           digest' = digest,
           r \in {"updated", "idempotent"} =>
               doc.rev # 0 /\ doc.disposition # "accepted"
               /\ (SettlesTurn(p) => doc.disposition = target[p]),
           r = "replay" => doc.rev # 0 /\ doc.digest = digest[p],
           r = "conflict" /\ kind[p] = "accept" =>
               doc.rev # 0 /\ doc.digest # digest[p]
    PROVE  IInv'
<1>1. /\ result' = [result EXCEPT ![p] = r] /\ pc' = [pc EXCEPT ![p] = "done"]
      /\ UNCHANGED <<intended, attempts>>
  BY DEF Answer, Goto
<1>2. TypeOK'
  BY <1>1 DEF IInv, TypeOK
<1>3. pc'[p] = "done" /\ result'[p] = r
  BY <1>1 DEF IInv, TypeOK
<1>4. CallOK(p)'
  BY <1>1, <1>3 DEF IInv, CallOK, KindTarget, SettlesTurn
<1>5. AnswerOK(p)'
  BY <1>1, <1>3 DEF AnswerOK, SettlesTurn
<1>6. \A q \in Call : q # p => pc'[q] = pc[q] /\ result'[q] = result[q]
  BY <1>1 DEF IInv, TypeOK
<1> QED BY <1>1, <1>2, <1>3, <1>4, <1>5, <1>6, LocalStep

\* A step in which p goes on and nothing else happens.
LEMMA GotoStep ==
    ASSUME IInv, NEW p \in Call, pc[p] # "idle", pc[p] # "done",
           NEW place \in {"lookup", "get", "confirm"},
           pc' = [pc EXCEPT ![p] = place],
           place = "confirm" => pc[p] = "write",
           place # "confirm" => kind[p] # "accept",
           TypeOK',
           UNCHANGED <<doc, kind, target, intended, result>>,
           digest' = digest \/ (place = "get" /\ \E d \in Digest : digest' = [digest EXCEPT ![p] = d]),
           inFlight' = inFlight \/ (place = "confirm" /\ inFlight' = inFlight \cup {intended[p]})
    PROVE  IInv'
<1>1. pc'[p] = place /\ \A q \in Call : q # p => pc'[q] = pc[q] /\ digest'[q] = digest[q]
  BY DEF IInv, TypeOK
<1>2. CallOK(p) /\ AnswerOK(p) /\ result[p] = "none"
  BY DEF IInv, CallOK
<1>3. place = "confirm" => Writing(p) /\ digest' = digest
  BY <1>2 DEF CallOK
<1>4. CallOK(p)'
  BY <1>1, <1>2, <1>3 DEF CallOK, Writing, Fits, KindTarget, SettlesTurn
<1>5. AnswerOK(p)'
  BY <1>2 DEF AnswerOK
<1>6. inFlight' = inFlight \/ (inFlight' = inFlight \cup {intended[p]} /\ Fits(intended[p]))
  BY <1>3 DEF Writing
<1> QED BY <1>1, <1>2, <1>4, <1>5, <1>6, LocalStep

LEMMA BeginStep == ASSUME IInv, NEW p \in Call, Begin(p) PROVE IInv'
<1>0. pc[p] = "idle" /\ CallOK(p) /\ result[p] = "none"
  BY DEF Begin, CallAccept, CallProgress, CallTerminalize, CallTerminalizeCommand, IInv, CallOK
<1>d. doc.rev \in Nat
  BY DocFields DEF IInv
<1>1. ASSUME NEW d \in Digest, NEW s \in Stamp, CallAccept(p, d, s) PROVE IInv'
  <2> DEFINE w == [rev |-> 0, digest |-> d, disposition |-> "accepted", stamp |-> s]
  <2>1. w \in Write /\ w.rev = 0 /\ w.digest = d /\ w.disposition = "accepted"
    BY DEF Write, Dispositions
  <2>2. TypeOK'
    BY <1>1, <2>1 DEF CallAccept, Goto, IInv, TypeOK, Kinds, Dispositions
  <2>3. /\ pc'[p] = "write" /\ kind'[p] = "accept" /\ digest'[p] = d
        /\ target'[p] = "accepted" /\ intended'[p] = w /\ result'[p] = "none"
        /\ UNCHANGED <<doc, inFlight>>
    BY <1>0, <1>1 DEF CallAccept, Goto, IInv, TypeOK
  <2> HIDE DEF w
  <2>4. CallOK(p)' /\ AnswerOK(p)'
    BY <1>d, <2>1, <2>3, TerminalAssumption
       DEF CallOK, AnswerOK, Writing, Fits, KindTarget, SettlesTurn
  <2>5. \A q \in Call : q # p =>
               /\ pc'[q] = pc[q] /\ kind'[q] = kind[q] /\ digest'[q] = digest[q]
               /\ target'[q] = target[q] /\ intended'[q] = intended[q]
               /\ result'[q] = result[q]
    BY <1>1 DEF CallAccept, Goto, IInv, TypeOK
  <2> QED BY <2>2, <2>3, <2>4, <2>5, LocalStep
<1>2. ASSUME NEW k \in {"progress", "terminal", "command"},
             NEW t \in Dispositions, k = "progress" <=> t = "in_progress",
             k # "progress" <=> t \in Terminal,
             kind' = [kind EXCEPT ![p] = k], target' = [target EXCEPT ![p] = t],
             NEW place \in {"get", "lookup"}, pc' = [pc EXCEPT ![p] = place],
             NEW d \in Digest \cup {NoDigest}, digest' = [digest EXCEPT ![p] = d],
             UNCHANGED <<doc, inFlight, intended, attempts, result>>
      PROVE  IInv'
  <2>1. TypeOK'
    BY <1>2 DEF IInv, TypeOK, Kinds
  <2>2. pc'[p] = place /\ kind'[p] = k /\ target'[p] = t /\ result'[p] = "none"
    BY <1>0, <1>2 DEF IInv, TypeOK
  <2>3. CallOK(p)' /\ AnswerOK(p)'
    BY <1>2, <2>2, TerminalAssumption DEF CallOK, AnswerOK, KindTarget, SettlesTurn
  <2>4. \A q \in Call : q # p =>
               /\ pc'[q] = pc[q] /\ kind'[q] = kind[q] /\ digest'[q] = digest[q]
               /\ target'[q] = target[q]
    BY <1>2 DEF IInv, TypeOK
  <2> QED BY <1>2, <2>1, <2>2, <2>3, <2>4, LocalStep
<1>3. ASSUME NEW d \in Digest, CallProgress(p, d) PROVE IInv'
  <2>1. "in_progress" \in Dispositions /\ "in_progress" \notin Terminal
    BY TerminalAssumption DEF Dispositions
  <2> QED BY <1>2, <1>3, <2>1 DEF CallProgress, Goto
<1>4. ASSUME NEW d \in Digest, NEW t \in Terminal, CallTerminalize(p, d, t) PROVE IInv'
  <2>1. t \in Dispositions /\ t # "in_progress"
    BY TerminalAssumption DEF Dispositions
  <2> QED BY <1>2, <1>4, <2>1 DEF CallTerminalize, Goto
<1>5. ASSUME NEW t \in Terminal, CallTerminalizeCommand(p, t) PROVE IInv'
  <2>1. t \in Dispositions /\ t # "in_progress"
    BY TerminalAssumption DEF Dispositions
  <2>2. digest' = [digest EXCEPT ![p] = digest[p]] /\ digest[p] \in Digest \cup {NoDigest}
    BY <1>5 DEF CallTerminalizeCommand, IInv, TypeOK
  <2> QED BY <1>2, <1>5, <2>1, <2>2 DEF CallTerminalizeCommand, Goto
<1> QED BY <1>1, <1>3, <1>4, <1>5 DEF Begin

LEMMA ThrottledStep == ASSUME IInv, NEW p \in Call, Throttled(p) PROVE IInv'
<1>0. CallOK(p) /\ pc[p] # "idle" /\ pc[p] # "done"
  BY DEF IInv, Throttled
<1>1. UNCHANGED <<doc, inFlight, kind, target>> /\ digest' = digest
  BY DEF Throttled, request
<1>2. CASE Answer(p, "unavailable")
  BY <1>0, <1>1, <1>2, AnswerStep DEF Results
<1>3. CASE ~Answer(p, "unavailable") /\ SettlesTurn(p)
  <2>1. PICK place \in {"lookup", "get"} :
            /\ attempts[p] < Retries
            /\ attempts' = [attempts EXCEPT ![p] = attempts[p] + 1]
            /\ pc' = [pc EXCEPT ![p] = place]
            /\ UNCHANGED <<intended, result>>
    BY <1>3 DEF Throttled, Retry, Goto
  <2>2. attempts[p] + 1 \in 0..Retries
    BY <2>1, RetriesAssumption DEF IInv, TypeOK
  <2>3. TypeOK'
    BY <1>1, <2>1, <2>2 DEF IInv, TypeOK
  <2>4. kind[p] # "accept"
    BY <1>3 DEF SettlesTurn
  <2> QED BY <1>0, <1>1, <2>1, <2>3, <2>4, GotoStep
<1>4. CASE ~Answer(p, "unavailable") /\ ~SettlesTurn(p)
  <2>1. /\ pc[p] = "write" /\ pc' = [pc EXCEPT ![p] = "confirm"]
        /\ UNCHANGED <<intended, attempts, result>>
    BY <1>4 DEF Throttled, Goto
  <2>2. TypeOK'
    BY <1>1, <2>1 DEF IInv, TypeOK
  <2> QED BY <1>0, <1>1, <2>1, <2>2, GotoStep
<1> QED BY <1>2, <1>3, <1>4

LEMMA ReadFailsStep == ASSUME IInv, NEW p \in Call, ReadFails(p) PROVE IInv'
BY AnswerStep DEF ReadFails, request, Results

LEMMA LookupStep == ASSUME IInv, NEW p \in Call, Lookup(p) PROVE IInv'
<1>1. CASE doc.rev = 0
  BY <1>1, AnswerStep DEF Lookup, Results
<1>2. CASE doc.rev # 0
  <2>1. doc.digest \in Digest
    BY <1>2, DocFields DEF IInv
  <2>2. /\ digest' = [digest EXCEPT ![p] = doc.digest]
        /\ attempts' = [attempts EXCEPT ![p] = 0]
        /\ pc' = [pc EXCEPT ![p] = "get"] /\ pc[p] = "lookup"
        /\ UNCHANGED <<doc, inFlight, kind, target, intended, result>>
    BY <1>2 DEF Lookup, Goto
  <2>3. TypeOK'
    BY <2>1, <2>2, RetriesAssumption DEF IInv, TypeOK
  <2>4. kind[p] # "accept"
    BY <2>2 DEF IInv, CallOK
  <2> QED BY <2>1, <2>2, <2>3, <2>4, GotoStep
<1> QED BY <1>1, <1>2

LEMMA GetStep == ASSUME IInv, NEW p \in Call, NEW s \in Stamp, Get(p, s) PROVE IInv'
<1>0. /\ pc[p] = "get" /\ CallOK(p) /\ KindTarget(p) /\ kind[p] # "accept"
      /\ result[p] = "none" /\ target[p] # "accepted"
  BY DEF Get, IInv, CallOK, KindTarget
<1>1. UNCHANGED <<doc, inFlight, kind, target>> /\ digest' = digest
  BY DEF Get, request
<1>2. CASE Answer(p, "unavailable")
  BY <1>0, <1>1, <1>2, AnswerStep DEF Results
<1>3. CASE Answer(p, "conflict")
  BY <1>0, <1>1, <1>3, AnswerStep DEF Results
<1>4. CASE /\ doc.rev # 0 /\ doc.disposition = target[p] /\ Answer(p, "idempotent")
  BY <1>0, <1>1, <1>4, AnswerStep DEF Results
<1>5. CASE /\ doc.rev # 0 /\ doc.digest = digest[p]
           /\ doc.disposition # target[p] /\ doc.disposition \notin Terminal
           /\ intended' = [intended EXCEPT ![p] =
                  [doc EXCEPT !.disposition = target[p], !.stamp = s]]
           /\ Goto(p, "write")
           /\ UNCHANGED <<attempts, result>>
  <2> DEFINE w == [doc EXCEPT !.disposition = target[p], !.stamp = s]
  <2>1. /\ doc \in Write /\ doc.rev \in Nat /\ doc.disposition \in {"accepted", "in_progress"}
    BY <1>5, DocFields DEF IInv, Dispositions
  <2>2. /\ w \in Write /\ w.rev = doc.rev /\ w.digest = doc.digest
        /\ w.disposition = target[p]
    BY <2>1 DEF Write, IInv, TypeOK
  <2>3. Moves(doc.disposition, target[p])
    BY <1>0, <1>5, <2>1 DEF Moves, KindTarget, IInv, TypeOK, Dispositions
  <2>4. /\ pc' = [pc EXCEPT ![p] = "write"] /\ intended' = [intended EXCEPT ![p] = w]
        /\ UNCHANGED <<attempts, result>>
    BY <1>5 DEF Goto
  <2> HIDE DEF w
  <2>5. TypeOK'
    BY <1>1, <2>2, <2>4 DEF IInv, TypeOK
  <2>6. pc'[p] = "write" /\ intended'[p] = w
    BY <2>4 DEF IInv, TypeOK
  <2>7. Writing(p)'
    BY <1>0, <1>1, <1>5, <2>1, <2>2, <2>3, <2>6 DEF Writing, Fits
  <2>8. CallOK(p)' /\ AnswerOK(p)'
    BY <1>0, <1>1, <2>4, <2>6, <2>7 DEF CallOK, AnswerOK, KindTarget, SettlesTurn
  <2>9. \A q \in Call : q # p => pc'[q] = pc[q] /\ intended'[q] = intended[q]
    BY <2>4 DEF IInv, TypeOK
  <2> QED BY <1>1, <2>4, <2>5, <2>8, <2>9, <1>0, LocalStep
<1> QED BY <1>2, <1>3, <1>4, <1>5 DEF Get

LEMMA WriteAppliedStep == ASSUME IInv, NEW p \in Call, WriteApplied(p) PROVE IInv'
<1>0. /\ pc[p] = "write" /\ CallOK(p) /\ Writing(p) /\ KindTarget(p)
      /\ Fits(intended[p]) /\ Apply(intended[p])
  BY DEF WriteApplied, IInv, CallOK, Writing
<1>1. /\ UNCHANGED <<inFlight, kind, digest, target, intended, attempts>>
      /\ pc' = [pc EXCEPT ![p] = "done"]
      /\ result' = [result EXCEPT ![p] =
                        IF kind[p] = "accept" THEN "accepted" ELSE "updated"]
  BY DEF WriteApplied, request, Answer, Goto
<1>2. /\ doc' \in Write /\ doc'.rev # 0
      /\ doc'.digest = digest[p] /\ doc'.disposition = target[p]
      /\ \A v : Fits(v) => Fits(v)'
  BY <1>0, Applied DEF IInv, Writing
<1>3. TypeOK'
  BY <1>1, <1>2 DEF IInv, TypeOK, Results
<1>4. DocShape' /\ InFlightFits'
  BY <1>1, <1>2 DEF DocShape, InFlightFits, IInv
<1>5. ASSUME NEW q \in Call, q # p PROVE CallOK(q)' /\ AnswerOK(q)'
  <2>1. pc'[q] = pc[q] /\ result'[q] = result[q]
    BY <1>1, <1>5 DEF IInv, TypeOK
  <2>2. AnswerOK(q)'
    BY <1>0, <1>1, <2>1, AnswersSurvive
  <2>3. Writing(q) => Writing(q)'
    BY <1>1, <1>2 DEF Writing
  <2>4. CallOK(q)
    BY DEF IInv
  <2>5. CallOK(q)'
    BY <1>1, <2>1, <2>3, <2>4 DEF CallOK, KindTarget, SettlesTurn
  <2> QED BY <2>2, <2>5
<1>6. CallOK(p)' /\ AnswerOK(p)'
  <2>1. /\ pc'[p] = "done" /\ result'[p] \in {"accepted", "updated"}
        /\ result'[p] = "updated" => kind[p] # "accept"
    BY <1>1 DEF IInv, TypeOK
  <2>2. kind[p] # "accept" => target[p] # "accepted"
    BY <1>0 DEF KindTarget
  <2> QED BY <1>0, <1>1, <1>2, <2>1, <2>2 DEF CallOK, AnswerOK, KindTarget, SettlesTurn
<1>7. DispatchedOnce'
  <2>1. kind[p] = "accept" => \A q \in Call : result[q] # "accepted"
    <3>1. kind[p] = "accept" => doc.rev = 0
      BY <1>0 DEF Writing, Apply
    <3> QED BY <3>1 DEF IInv, AnswerOK
  <2>2. \A q \in Call : q # p => result'[q] = result[q]
    BY <1>1 DEF IInv, TypeOK
  <2>3. result'[p] = "accepted" => kind[p] = "accept"
    BY <1>1 DEF IInv, TypeOK
  <2> QED BY <2>1, <2>2, <2>3 DEF DispatchedOnce, IInv
<1> QED BY <1>3, <1>4, <1>5, <1>6, <1>7 DEF IInv

LEMMA DeliverLateStep == ASSUME IInv, NEW w \in inFlight, DeliverLate(w) PROVE IInv'
<1>0. /\ UNCHANGED <<kind, digest, target, pc, intended, attempts, result>>
      /\ inFlight' = inFlight \ {w} /\ Fits(w)
  BY DEF DeliverLate, request, IInv, InFlightFits
<1>1. CASE UNCHANGED doc
  <2>1. TypeOK' /\ DocShape' /\ InFlightFits' /\ DispatchedOnce'
    BY <1>0, <1>1 DEF IInv, TypeOK, DocShape, InFlightFits, Fits, DispatchedOnce
  <2>2. \A p \in Call : CallOK(p)' /\ AnswerOK(p)'
    BY <1>0, <1>1 DEF IInv, CallOK, AnswerOK, Writing, Fits, KindTarget, SettlesTurn
  <2> QED BY <2>1, <2>2 DEF IInv
<1>2. CASE Apply(w)
  <2>1. doc' \in Write /\ doc'.rev # 0 /\ \A v : Fits(v) => Fits(v)'
    BY <1>0, <1>2, Applied DEF IInv
  <2>2. TypeOK' /\ DocShape' /\ InFlightFits' /\ DispatchedOnce'
    BY <1>0, <2>1 DEF IInv, TypeOK, DocShape, InFlightFits, DispatchedOnce
  <2>3. ASSUME NEW p \in Call PROVE CallOK(p)' /\ AnswerOK(p)'
    <3>1. AnswerOK(p)'
      BY <1>0, <1>2, AnswersSurvive
    <3>2. Writing(p) => Writing(p)'
      BY <1>0, <2>1 DEF Writing
    <3>3. CallOK(p)
      BY DEF IInv
    <3> QED BY <1>0, <3>1, <3>2, <3>3 DEF CallOK, KindTarget, SettlesTurn
  <2> QED BY <2>2, <2>3 DEF IInv
<1> QED BY <1>1, <1>2 DEF DeliverLate

LEMMA WriteRefusedStep == ASSUME IInv, NEW p \in Call, WriteRefused(p) PROVE IInv'
<1>0. /\ pc[p] = "write" /\ KindTarget(p) /\ Writing(p) /\ doc.rev # intended[p].rev
      /\ Answer(p, Reconciled(p)) /\ UNCHANGED <<doc, inFlight, kind, target>> /\ digest' = digest
  BY DEF WriteRefused, IInv, CallOK, request
<1>1. doc.rev # 0
  BY <1>0, DocFields DEF Writing, Fits, Write, IInv
<1>2. kind[p] # "accept" => target[p] # "accepted"
  BY <1>0 DEF KindTarget
<1> QED BY <1>0, <1>1, <1>2, AnswerStep DEF Reconciled, Results

LEMMA WriteUncertainStep == ASSUME IInv, NEW p \in Call, WriteUncertain(p) PROVE IInv'
<1>1. /\ pc[p] = "write" /\ inFlight' = inFlight \cup {intended[p]}
      /\ pc' = [pc EXCEPT ![p] = "confirm"]
      /\ UNCHANGED <<doc, kind, target, intended, attempts, result>> /\ digest' = digest
  BY DEF WriteUncertain, Goto, request
<1>2. intended[p] \in Write
  BY <1>1 DEF IInv, CallOK, Writing, Fits
<1>3. TypeOK'
  BY <1>1, <1>2 DEF IInv, TypeOK
<1> QED BY <1>1, <1>3, GotoStep

LEMMA ConfirmStep == ASSUME IInv, NEW p \in Call, Confirm(p) PROVE IInv'
<1>0. /\ pc[p] = "confirm" /\ KindTarget(p) /\ Writing(p)
      /\ UNCHANGED <<doc, inFlight, kind, target>> /\ digest' = digest
  BY DEF Confirm, IInv, CallOK, request
<1>1. doc.rev # intended[p].rev => doc.rev # 0
  BY <1>0, DocFields DEF Writing, Fits, Write, IInv
<1>2. kind[p] # "accept" => target[p] # "accepted"
  BY <1>0 DEF KindTarget
<1>3. CASE Answer(p, "unavailable")
  BY <1>0, <1>3, AnswerStep DEF Results
<1>4. CASE doc.rev # intended[p].rev /\ kind[p] = "accept" /\ Answer(p, Reconciled(p))
  BY <1>0, <1>1, <1>4, AnswerStep DEF Reconciled, Results
<1>5. CASE /\ doc.rev # intended[p].rev /\ kind[p] # "accept"
           /\ Answer(p, IF SameReceipt(p) THEN "idempotent" ELSE "conflict")
  <2>1. doc \in Write /\ intended[p] \in Write
    BY <1>0, <1>1, <1>5, DocFields DEF IInv, Writing, Fits
  <2>2. SameReceipt(p) => doc.disposition = intended[p].disposition
    BY <2>1 DEF SameReceipt, Write
  <2>3. SameReceipt(p) => doc.disposition = target[p]
    BY <1>0, <2>2 DEF Writing
  <2> QED BY <1>0, <1>1, <1>2, <1>5, <2>3, AnswerStep DEF Results
<1> QED BY <1>3, <1>4, <1>5 DEF Confirm

LEMMA StutterStep == ASSUME IInv, UNCHANGED vars PROVE IInv'
BY DEF vars, IInv, TypeOK, DocShape, InFlightFits, Fits, CallOK, AnswerOK,
       Writing, KindTarget, SettlesTurn, DispatchedOnce

LEMMA NextIInv == IInv /\ [Next]_vars => IInv'
BY BeginStep, ThrottledStep, ReadFailsStep, LookupStep, GetStep,
   WriteAppliedStep, WriteRefusedStep, WriteUncertainStep, ConfirmStep,
   DeliverLateStep, StutterStep DEF Next, Step

-----------------------------------------------------------------------------
LEMMA IInvMeaning == IInv => TypeOK /\ AnswersHold /\ DispatchedOnce
<1> SUFFICES ASSUME IInv PROVE AnswersHold
  BY DEF IInv
<1>1. doc.rev # 0 => doc.disposition \in Dispositions
  BY DocFields DEF IInv
<1> QED BY <1>1 DEF IInv, AnswersHold, AnswerOK

\* Every answer of the store stays true and at most one call is told that
\* it accepted the turn, with any calls, failures and late writes.
THEOREM AnswersTheorem == Spec => [](TypeOK /\ AnswersHold /\ DispatchedOnce)
BY InitIInv, NextIInv, IInvMeaning, PTL DEF Spec

\* The document changes only as TurnReceipt allows.
LEMMA ReceiptStep == IInv /\ [Next]_vars => [Receipt!Next]_(doc.disposition)
<1> SUFFICES ASSUME IInv, [Next]_vars PROVE Receipt!Next \/ doc'.disposition = doc.disposition
  OBVIOUS
<1>1. ASSUME NEW w, Fits(w), Apply(w) PROVE Receipt!Next
  <2>1. IF doc.rev = 0 THEN doc'.disposition = "accepted"
        ELSE Moves(doc.disposition, doc'.disposition)
    BY <1>1, Applied DEF IInv
  <2>2. doc.rev = 0 => doc.disposition = "none"
    BY DocFields DEF IInv
  <2> QED BY <2>1, <2>2 DEF Moves, Receipt!Next, Receipt!Accept, Receipt!Progress, Receipt!End
<1>2. ASSUME NEW p \in Call, WriteApplied(p) PROVE Receipt!Next
  <2>1. Fits(intended[p]) /\ Apply(intended[p])
    BY <1>2 DEF WriteApplied, IInv, CallOK, Writing
  <2> QED BY <1>1, <2>1
<1>3. ASSUME NEW w \in inFlight, DeliverLate(w) PROVE Receipt!Next \/ UNCHANGED doc
  BY <1>1, <1>3 DEF DeliverLate, IInv, InFlightFits
<1>4. ASSUME NEW p \in Call, Begin(p) PROVE UNCHANGED doc
  BY <1>4 DEF Begin, CallAccept, CallProgress, CallTerminalize, CallTerminalizeCommand
<1>5. ASSUME NEW p \in Call, Step(p), ~WriteApplied(p) PROVE UNCHANGED doc
  BY <1>5 DEF Step, Throttled, ReadFails, Lookup, Get, WriteRefused, WriteUncertain, Confirm
<1> QED BY <1>2, <1>3, <1>4, <1>5 DEF Next, vars

LEMMA ReceiptInit == Init => Receipt!Init
BY DEF Init, NoDoc, Receipt!Init

\* The store implements the promise of TurnReceipt.
THEOREM ReceiptTheorem == Spec => ReceiptSpec
BY InitIInv, NextIInv, ReceiptInit, ReceiptStep, PTL DEF Spec, ReceiptSpec, Receipt!Spec
=============================================================================
