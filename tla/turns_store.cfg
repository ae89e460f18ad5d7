CONSTANTS
    Call = {p1, p2, p3}
    Digest = {d1, d2}
    NoDigest = NoDigest
    Stamp = {0}
    Terminal = {"completed", "interrupted"}
    Retries = 1
SPECIFICATION FairSpec
INVARIANTS TypeOK AnswersHold DispatchedOnce
PROPERTIES ReceiptSpec CallsEnd
CHECK_DEADLOCK FALSE
