---------------------------- MODULE TurnReceipt ----------------------------
(***************************************************************************)
(* What the receipt of one remote-local turn promises its readers, whoever *)
(* writes it and however often: it is accepted once, may go in progress    *)
(* once, and ends once.  "Terminal states never change"                    *)
(* (src/server/lib/remote-local-turn-store.ts).                            *)
(***************************************************************************)
CONSTANT Terminal   \* the terminal dispositions

VARIABLE disposition

Init == disposition = "none"

Accept == disposition = "none" /\ disposition' = "accepted"

Progress == disposition = "accepted" /\ disposition' = "in_progress"

End ==
    /\ disposition \in {"accepted", "in_progress"}
    /\ disposition' \in Terminal

Next == Accept \/ Progress \/ End

Spec == Init /\ [][Next]_disposition
=============================================================================
