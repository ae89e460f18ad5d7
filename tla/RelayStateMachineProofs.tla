---------------------- MODULE RelayStateMachineProofs ----------------------
(***************************************************************************)
(* Proofs about RelayStateMachine, for any number of references, handles   *)
(* and commands and any limits.                                            *)
(***************************************************************************)
EXTENDS RelayStateMachine, FiniteSetTheorems, SequenceTheorems, TLAPS

\* What the maps hold of a command that does not run.
IdleIsEmpty ==
    \A c \in Command : handleOf[c] = None =>
        c \notin terminal /\ events[c] = <<>> /\ eventBytes[c] = 0
        /\ nextSequence[c] = 0

Core == TypeOK /\ IdleIsEmpty /\ MapsAgree

-----------------------------------------------------------------------------
\* The initial state satisfies the invariant.
LEMMA CoreInit == Init => Core
<1> SUFFICES ASSUME Init PROVE Core
  OBVIOUS
<1> USE NoneAssumption, LimitAssumption DEF Init
<1>1. TypeOK
  <2>1. events \in [Command -> Seq(Frame)]
    OBVIOUS
  <2>2. interrupted \in [Command -> [Disposition -> Nat]]
    OBVIOUS
  <2>3. 0 \in 0..MaxQueuedBytes
    OBVIOUS
  <2>4. /\ eventBytes \in [Command -> 0..MaxQueuedBytes]
        /\ nextSequence \in [Command -> Nat] /\ accepted \in [Command -> Nat]
        /\ settled \in [Command -> Nat] /\ delivered \in [Command -> Nat]
    BY <2>3
  <2>5. /\ handles \in [Handle -> Ref \cup {None}]
        /\ handleByReference \in [Ref -> Handle \cup {None}]
        /\ handleOf \in [Command -> Handle \cup {None}]
        /\ commandByHandle \in [Handle -> Command \cup {None}]
    OBVIOUS
  <2>6. /\ advertised \subseteq Ref /\ terminal \subseteq Command
        /\ inventoryRevision \in Nat /\ closed \in BOOLEAN
    OBVIOUS
  <2> QED BY <2>1, <2>2, <2>4, <2>5, <2>6 DEF TypeOK
<1>2. IdleIsEmpty /\ MapsAgree
  BY DEF IdleIsEmpty, MapsAgree
<1> QED BY <1>1, <1>2 DEF Core

\* Ending every command, as sessionEnded() does.
LEMMA CoreSessionEnded == Core /\ SessionEnded => Core'
<1> SUFFICES ASSUME Core, SessionEnded PROVE Core'
  OBVIOUS
<1> USE NoneAssumption, LimitAssumption DEF Core, SessionEnded, EndCommands
<1>1. TypeOK'
  BY DEF TypeOK, Disposition, history, memory
<1>2. IdleIsEmpty' /\ MapsAgree'
  BY DEF IdleIsEmpty, MapsAgree, TypeOK
<1> QED BY <1>1, <1>2

LEMMA CorePropose ==
    ASSUME NEW S \in SUBSET Ref, Core, Propose(S) PROVE Core'
<1> USE NoneAssumption, LimitAssumption DEF Core, Propose, EndCommands
<1>1. TypeOK'
  BY DEF TypeOK, Disposition, history, memory
<1>2. IdleIsEmpty' /\ MapsAgree'
  BY DEF IdleIsEmpty, MapsAgree, TypeOK
<1> QED BY <1>1, <1>2

\* One command's queue changes; the maps do not.
LEMMA CoreQueue ==
    ASSUME NEW c \in Command, handleOf[c] # None, Core,
           NEW q \in Seq(Frame), events' = [events EXCEPT ![c] = q],
           NEW b \in 0..MaxQueuedBytes,
           eventBytes' = [eventBytes EXCEPT ![c] = b],
           terminal' \in SUBSET (terminal \cup {c}),
           NEW n \in Nat, nextSequence' = [nextSequence EXCEPT ![c] = n],
           NEW k \in Nat, delivered' = [delivered EXCEPT ![c] = k],
           UNCHANGED <<bindings, handleOf, commandByHandle, interrupted,
                       closed, accepted, settled>>
    PROVE  Core'
<1> USE NoneAssumption, LimitAssumption DEF Core
<1>1. TypeOK'
  BY DEF TypeOK, bindings
<1>2. IdleIsEmpty' /\ MapsAgree'
  BY DEF IdleIsEmpty, MapsAgree, TypeOK, bindings
<1> QED BY <1>1, <1>2

LEMMA FrameTypes ==
    /\ \A n \in Nat : EventFrame(n) \in Frame
    /\ ApprovalFrame \in Frame
    /\ \A k \in Receipts : ReceiptFrame(k) \in Frame
BY DEF EventFrame, ApprovalFrame, ReceiptFrame, Frame, Receipts

\* The handle of a live session leads to a running command.
LEMMA LiveCommand ==
    ASSUME Core, NEW h \in Handle, commandByHandle[h] # None
    PROVE  commandByHandle[h] \in Command
           /\ handleOf[commandByHandle[h]] = h /\ handleOf[commandByHandle[h]] # None
BY NoneAssumption DEF Core, TypeOK, MapsAgree

LEMMA CoreFlood ==
    ASSUME NEW c \in Command, handleOf[c] # None, Core, InterruptFlood(c),
           UNCHANGED <<bindings, handleOf, commandByHandle, memory,
                       interrupted, closed, history>>
    PROVE  Core'
<1>1. <<ReceiptFrame("flood")>> \in Seq(Frame)
  BY FrameTypes DEF Receipts
<1>2. TerminalSize \in 0..MaxQueuedBytes
  BY LimitAssumption
<1>3. nextSequence[c] \in Nat /\ nextSequence' = [nextSequence EXCEPT ![c] = nextSequence[c]]
  BY DEF InterruptFlood, Core, TypeOK
<1>4. delivered[c] \in Nat /\ delivered' = [delivered EXCEPT ![c] = delivered[c]]
  BY DEF history, Core, TypeOK
<1>5. terminal' \in SUBSET (terminal \cup {c})
  BY DEF InterruptFlood
<1> QED
  BY <1>1, <1>2, <1>3, <1>4, <1>5, CoreQueue DEF InterruptFlood, history

LEMMA CoreEnqueue ==
    ASSUME NEW c \in Command, handleOf[c] # None, Core,
           NEW f \in Frame, NEW size \in Size,
           ~Overflows(c, size), Enqueue(c, f, size),
           terminal' \in SUBSET (terminal \cup {c}),
           NEW n \in Nat, nextSequence' = [nextSequence EXCEPT ![c] = n],
           UNCHANGED <<bindings, handleOf, commandByHandle, memory,
                       interrupted, closed, history>>
    PROVE  Core'
<1>1. Append(events[c], f) \in Seq(Frame)
  BY DEF Core, TypeOK
<1>2. eventBytes[c] + size \in 0..MaxQueuedBytes
  BY LimitAssumption DEF Core, TypeOK, Overflows
<1>3. delivered[c] \in Nat /\ delivered' = [delivered EXCEPT ![c] = delivered[c]]
  BY DEF history, Core, TypeOK
<1> QED
  BY <1>1, <1>2, <1>3, CoreQueue DEF Enqueue, history

LEMMA CoreEvent ==
    ASSUME NEW c \in Command, NEW h \in Handle, NEW n \in Nat, NEW size \in Size,
           Core, Event(c, h, n, size)
    PROVE  Core'
<1>1. CASE SessionEnded
  BY <1>1, CoreSessionEnded
<1>2. CASE ~SessionEnded
  <2>1. /\ handleOf[c] # None /\ handleOf[c] = h /\ n = nextSequence[c]
        /\ UNCHANGED <<bindings, handleOf, commandByHandle, memory,
                       interrupted, closed, history>>
    BY <1>2, NoneAssumption DEF Event
  <2>2. CASE InterruptFlood(c)
    BY <2>1, <2>2, CoreFlood
  <2>3. CASE ~InterruptFlood(c)
    <3>1. /\ ~Overflows(c, size) /\ Enqueue(c, EventFrame(n), size)
          /\ nextSequence' = [nextSequence EXCEPT ![c] = nextSequence[c] + 1]
          /\ terminal' \in SUBSET (terminal \cup {c})
      BY <1>2, <2>3 DEF Event
    <3>2. EventFrame(n) \in Frame /\ nextSequence[c] + 1 \in Nat
      BY FrameTypes DEF Core, TypeOK
    <3> QED BY <2>1, <3>1, <3>2, CoreEnqueue
  <2> QED BY <2>2, <2>3
<1> QED BY <1>1, <1>2

LEMMA CoreApproval ==
    ASSUME NEW h \in Handle, NEW size \in Size, Core, Approval(h, size)
    PROVE  Core'
<1>1. CASE SessionEnded
  BY <1>1, CoreSessionEnded
<1>2. CASE ~SessionEnded
  <2> DEFINE c == commandByHandle[h]
  <2>1. /\ c # None
        /\ UNCHANGED <<bindings, handleOf, commandByHandle, memory,
                       interrupted, closed, history>>
    BY <1>2 DEF Approval
  <2>2. c \in Command /\ handleOf[c] # None
    BY <2>1, LiveCommand
  <2>3. CASE InterruptFlood(c)
    BY <2>1, <2>2, <2>3, CoreFlood
  <2>4. CASE ~InterruptFlood(c)
    <3>1. /\ ~Overflows(c, size) /\ Enqueue(c, ApprovalFrame, size)
          /\ nextSequence' = [nextSequence EXCEPT ![c] = nextSequence[c]]
          /\ nextSequence[c] \in Nat
          /\ terminal' \in SUBSET (terminal \cup {c})
      BY <1>2, <2>2, <2>4 DEF Approval, Core, TypeOK
    <3> HIDE DEF c
    <3> QED BY <2>1, <2>2, <3>1, FrameTypes, CoreEnqueue
  <2> QED BY <2>3, <2>4
<1> QED BY <1>1, <1>2

LEMMA CoreTerminal ==
    ASSUME NEW c \in Command, NEW h \in Handle, NEW size \in Size,
           Core, Terminal(c, h, size)
    PROVE  Core'
<1>1. CASE SessionEnded
  BY <1>1, CoreSessionEnded
<1>2. CASE ~SessionEnded
  <2>1. /\ handleOf[c] # None
        /\ terminal' \in SUBSET (terminal \cup {c})
        /\ nextSequence' = [nextSequence EXCEPT ![c] = nextSequence[c]]
        /\ nextSequence[c] \in Nat
        /\ UNCHANGED <<bindings, handleOf, commandByHandle, memory,
                       interrupted, closed, history>>
    BY <1>2, NoneAssumption DEF Terminal, Core, TypeOK
  <2>2. ReceiptFrame("receipt") \in Frame
    BY FrameTypes DEF Receipts
  <2>3. CASE Overflows(c, size)
    <3>1. /\ events' = [events EXCEPT ![c] = <<ReceiptFrame("receipt")>>]
          /\ eventBytes' = [eventBytes EXCEPT ![c] = size]
      BY <1>2, <2>3 DEF Terminal
    <3>2. size \in 0..MaxQueuedBytes /\ <<ReceiptFrame("receipt")>> \in Seq(Frame)
      BY <2>2, LimitAssumption
    <3>3. delivered[c] \in Nat /\ delivered' = [delivered EXCEPT ![c] = delivered[c]]
      BY <2>1 DEF history, Core, TypeOK
    <3> QED BY <2>1, <3>1, <3>2, <3>3, CoreQueue DEF history
  <2>4. CASE ~Overflows(c, size)
    <3>1. Enqueue(c, ReceiptFrame("receipt"), size)
      BY <1>2, <2>4 DEF Terminal
    <3> QED BY <2>1, <2>2, <2>4, <3>1, CoreEnqueue
  <2> QED BY <2>3, <2>4
<1> QED BY <1>1, <1>2

LEMMA CoreBind ==
    ASSUME NEW b \in Binding, Core, Bind(b) PROVE Core'
<1>1. CASE SessionEnded
  BY <1>1, CoreSessionEnded
<1>2. CASE ~SessionEnded
  <2>1. /\ b \in [Handle -> Ref \cup {None}]
        /\ \A h, k \in Handle : b[h] = b[k] /\ b[h] # None => h = k
    BY DEF Binding
  <2>2. /\ \A h \in Handle : b[h] # None =>
               /\ b[h] \in advertised /\ handles[h] = None
               /\ handleByReference[b[h]] = None
        /\ handles' =
               [h \in Handle |-> IF b[h] # None THEN b[h] ELSE handles[h]]
        /\ handleByReference' =
               [r \in Ref |-> IF \E h \in Handle : b[h] = r
                              THEN CHOOSE h \in Handle : b[h] = r
                              ELSE handleByReference[r]]
        /\ UNCHANGED <<advertised, inventoryRevision, commands,
                       interrupted, closed, history>>
    BY <1>2 DEF Bind, Bound
  <2>3. \A r \in Ref, h \in Handle : b[h] = r => handleByReference'[r] = h
    BY <2>1, <2>2, NoneAssumption
  <2>4. \A r \in Ref : (\A h \in Handle : b[h] # r) =>
            handleByReference'[r] = handleByReference[r]
    BY <2>2
  <2>5. TypeOK'
    <3>1. handleByReference' \in [Ref -> Handle \cup {None}]
      BY <2>2, <2>3, <2>4 DEF Core, TypeOK
    <3>2. handles' \in [Handle -> Ref \cup {None}]
      BY <2>1, <2>2 DEF Core, TypeOK
    <3> QED BY <2>2, <3>1, <3>2 DEF Core, TypeOK, commands, history
  <2>6. IdleIsEmpty'
    BY <2>2 DEF Core, IdleIsEmpty, commands
  <2>7. MapsAgree'
    <3>1. ASSUME NEW h \in Handle, handles'[h] # None
          PROVE  handles'[h] \in advertised' /\ handleByReference'[handles'[h]] = h
      <4>1. CASE b[h] # None
        BY <4>1, <3>1, <2>1, <2>2, <2>3 DEF Core, TypeOK
      <4>2. CASE b[h] = None
        <5>1. handles'[h] = handles[h] /\ handles[h] # None /\ handles[h] \in Ref
          BY <4>2, <3>1, <2>2 DEF Core, TypeOK
        <5>2. handles[h] \in advertised /\ handleByReference[handles[h]] = h
          BY <5>1 DEF Core, MapsAgree
        <5>3. \A k \in Handle : b[k] # handles[h]
          BY <5>1, <5>2, <2>2, NoneAssumption
        <5> QED BY <5>1, <5>2, <5>3, <2>2, <2>4
      <4> QED BY <4>1, <4>2
    <3>2. ASSUME NEW r \in Ref, handleByReference'[r] # None
          PROVE  handles'[handleByReference'[r]] = r
      <4>1. CASE \E k \in Handle : b[k] = r
        BY <4>1, <2>2, <2>3, NoneAssumption
      <4>2. CASE \A k \in Handle : b[k] # r
        <5>1. handleByReference[r] \in Handle /\ handles[handleByReference[r]] = r
          BY <4>2, <3>2, <2>4 DEF Core, TypeOK, MapsAgree
        <5> QED BY <5>1, <4>2, <2>2, <2>4, NoneAssumption
      <4> QED BY <4>1, <4>2
    <3>3. ASSUME NEW c \in Command, handleOf'[c] # None
          PROVE  handles'[handleOf'[c]] # None /\ commandByHandle'[handleOf'[c]] = c
      BY <3>3, <2>2 DEF Core, MapsAgree, TypeOK, commands
    <3>4. ASSUME NEW h \in Handle, commandByHandle'[h] # None
          PROVE  handleOf'[commandByHandle'[h]] = h
      BY <3>4, <2>2 DEF Core, MapsAgree, commands
    <3> QED BY <3>1, <3>2, <3>3, <3>4 DEF MapsAgree
  <2> QED BY <2>5, <2>6, <2>7 DEF Core
<1> QED BY <1>1, <1>2

LEMMA CoreTurnRequest ==
    ASSUME NEW c \in Command, NEW h \in Handle, Core, TurnRequest(c, h)
    PROVE  Core'
<1> USE NoneAssumption DEF Core, TurnRequest
<1>1. TypeOK'
  BY DEF TypeOK, bindings
<1>2. IdleIsEmpty'
  BY DEF IdleIsEmpty, TypeOK
<1>3. MapsAgree'
  BY DEF MapsAgree, TypeOK, bindings, Active
<1> QED BY <1>1, <1>2, <1>3

\* Commands leave the maps together with their entry by handle.
LEMMA CoreForget ==
    ASSUME NEW C \in SUBSET Command, Core, Forget(C),
           settled' \in [Command -> Nat],
           UNCHANGED <<bindings, interrupted, closed, accepted, delivered>>
    PROVE  Core'
<1> USE NoneAssumption, LimitAssumption DEF Core, Forget
<1>1. TypeOK'
  <2>1. events' \in [Command -> Seq(Frame)]
    BY DEF TypeOK
  <2> QED BY <2>1 DEF TypeOK, bindings
<1>2. IdleIsEmpty'
  BY DEF IdleIsEmpty, TypeOK
<1>3. MapsAgree'
  <2>1. ASSUME NEW c \in Command, handleOf'[c] # None
        PROVE  handles'[handleOf'[c]] # None /\ commandByHandle'[handleOf'[c]] = c
    BY <2>1 DEF MapsAgree, TypeOK, bindings
  <2>2. ASSUME NEW h \in Handle, commandByHandle'[h] # None
        PROVE  handleOf'[commandByHandle'[h]] = h
    BY <2>2 DEF MapsAgree, TypeOK
  <2> QED BY <2>1, <2>2 DEF MapsAgree, bindings
<1> QED BY <1>1, <1>2, <1>3

LEMMA CoreDrain ==
    ASSUME NEW c \in Command, Core, Drain(c) PROVE Core'
<1>1. CASE c \in terminal
  <2>1. settled' \in [Command -> Nat]
    <3>1. settled' = [settled EXCEPT ![c] = settled[c] + 1]
      BY <1>1 DEF Drain
    <3> QED BY <3>1 DEF Core, TypeOK
  <2> QED BY <1>1, <2>1, CoreForget DEF Drain
<1>2. CASE c \notin terminal
  <2>1. <<>> \in Seq(Frame) /\ 0 \in 0..MaxQueuedBytes
    BY LimitAssumption
  <2>2. nextSequence[c] \in Nat /\ nextSequence' = [nextSequence EXCEPT ![c] = nextSequence[c]]
    BY <1>2 DEF Drain, Core, TypeOK
  <2>3. handleOf[c] # None /\ terminal' \in SUBSET (terminal \cup {c})
    BY <1>2 DEF Drain, Active
  <2> QED BY <1>2, <2>1, <2>2, <2>3, CoreQueue DEF Drain
<1> QED BY <1>1, <1>2

LEMMA PendingNat == ASSUME TypeOK, NEW c \in Command PROVE Pending(c) \in Nat
<1>1. interrupted[c] \in [Disposition -> Nat]
  BY DEF TypeOK
<1>2. \A d \in Disposition : interrupted[c][d] \in Nat
  BY <1>1
<1>3. "session_ended" \in Disposition /\ "post_ingress_indeterminate" \in Disposition
  BY DEF Disposition
<1> QED BY <1>2, <1>3 DEF Pending

LEMMA CoreRelease ==
    Core /\ (ReleaseTerminalCommands \/ ReleaseInterruptedCommands) => Core'
<1>1. ASSUME Core, ReleaseTerminalCommands PROVE Core'
  <2>1. settled' \in [Command -> Nat]
    BY <1>1 DEF ReleaseTerminalCommands, Core, TypeOK
  <2>2. Ended \in SUBSET Command
    BY <1>1 DEF Ended, Core, TypeOK
  <2> QED BY <1>1, <2>1, <2>2, CoreForget DEF ReleaseTerminalCommands
<1>2. ASSUME Core, ReleaseInterruptedCommands PROVE Core'
  <2>1. \A c \in Command : Pending(c) \in Nat
    BY <1>2, PendingNat DEF Core
  <2> USE <1>2 DEF Core, ReleaseInterruptedCommands
  <2>2. TypeOK'
    BY <2>1, SMTT(30) DEF TypeOK, bindings, commands
  <2>3. IdleIsEmpty' /\ MapsAgree'
    BY DEF IdleIsEmpty, MapsAgree, bindings, commands
  <2> QED BY <2>2, <2>3
<1> QED BY <1>1, <1>2

LEMMA CoreStutter == Core /\ UNCHANGED vars => Core'
BY DEF Core, TypeOK, IdleIsEmpty, MapsAgree, vars, bindings, commands, history

LEMMA CoreStep == Core /\ [Next]_vars => Core'
<1> SUFFICES ASSUME Core, [Next]_vars PROVE Core'
  OBVIOUS
<1>1. CASE ReceiveConnector
  <2>1. \A n \in 0..MaxEvents : n \in Nat
    BY LimitAssumption
  <2> QED BY <1>1, <2>1, CorePropose, CoreEvent, CoreTerminal, CoreApproval,
             CoreSessionEnded DEF ReceiveConnector, InvalidFrame
<1>2. CASE ReceiveRelay
  BY <1>2, CoreBind, CoreTurnRequest DEF ReceiveRelay
<1>3. CASE Release
  BY <1>3, CoreDrain, CoreRelease DEF Release
<1>4. CASE SessionEnded
  BY <1>4, CoreSessionEnded
<1>5. CASE UNCHANGED vars
  BY <1>5, CoreStutter
<1> QED BY <1>1, <1>2, <1>3, <1>4, <1>5 DEF Next

-----------------------------------------------------------------------------
(* Every acceptance is settled once                                        *)

\* An interruption record stands for each command that ran.
LEMMA PendingEndCommands ==
    ASSUME TypeOK, NEW d \in Disposition, EndCommands(d), NEW c \in Command
    PROVE  /\ handleOf'[c] = None
           /\ Pending(c)' = Pending(c) + (IF handleOf[c] # None THEN 1 ELSE 0)
<1>1. interrupted[c] \in [Disposition -> Nat]
  BY DEF TypeOK
<1>2. interrupted'[c] = IF handleOf[c] # None
                        THEN [interrupted[c] EXCEPT ![d] = interrupted[c][d] + 1]
                        ELSE interrupted[c]
  BY DEF EndCommands, Active
<1>3. handleOf'[c] = None
  BY DEF EndCommands
<1>4. d = "session_ended" \/ d = "post_ingress_indeterminate"
  BY DEF Disposition
<1>5. Pending(c)' = interrupted'[c]["session_ended"]
                    + interrupted'[c]["post_ingress_indeterminate"]
  BY DEF Pending
<1> QED BY <1>1, <1>2, <1>3, <1>4, <1>5 DEF Pending, Disposition

\* The accounting of one command.
Account(c) ==
    accepted[c] = settled[c] + Pending(c) + (IF handleOf[c] # None THEN 1 ELSE 0)

LEMMA AccountIs == SettledOnce <=> \A c \in Command : Account(c)
BY DEF SettledOnce, Account, Active

LEMMA AccountUnchanged ==
    ASSUME SettledOnce, UNCHANGED <<handleOf, interrupted, accepted, settled>>
    PROVE  SettledOnce'
BY DEF SettledOnce, Pending, Active

LEMMA AccountEnds ==
    ASSUME Core, SettledOnce, NEW d \in Disposition, EndCommands(d),
           UNCHANGED <<accepted, settled>>
    PROVE  SettledOnce'
<1> SUFFICES ASSUME NEW c \in Command PROVE Account(c)'
  BY DEF SettledOnce, Account, Active
<1>1. Account(c)
  BY AccountIs
<1>2. Pending(c) \in Nat /\ settled[c] \in Nat /\ accepted[c] \in Nat
  BY PendingNat DEF Core, TypeOK
<1>3. /\ handleOf'[c] = None
      /\ Pending(c)' = Pending(c) + (IF handleOf[c] # None THEN 1 ELSE 0)
  BY PendingEndCommands DEF Core
<1> QED BY <1>1, <1>2, <1>3 DEF Account

\* Commands of C leave and each is reported.
LEMMA AccountForget ==
    ASSUME Core, SettledOnce, NEW C \in SUBSET Active, Forget(C),
           settled' = [c \in Command |-> IF c \in C THEN settled[c] + 1
                                         ELSE settled[c]],
           UNCHANGED <<interrupted, accepted>>
    PROVE  SettledOnce'
<1> SUFFICES ASSUME NEW c \in Command PROVE Account(c)'
  BY DEF SettledOnce, Account, Active
<1>1. Account(c)
  BY AccountIs
<1>2. Pending(c) \in Nat /\ settled[c] \in Nat /\ accepted[c] \in Nat
  BY PendingNat DEF Core, TypeOK
<1>3. Pending(c)' = Pending(c)
  BY DEF Pending
<1>4. c \in C => handleOf[c] # None
  BY DEF Active
<1> QED BY <1>1, <1>2, <1>3, <1>4 DEF Account, Forget

LEMMA SettledStep == Core /\ SettledOnce /\ [Next]_vars => SettledOnce'
<1> SUFFICES ASSUME Core, SettledOnce, [Next]_vars PROVE SettledOnce'
  OBVIOUS
<1>0. "session_ended" \in Disposition /\ "post_ingress_indeterminate" \in Disposition
  BY DEF Disposition
<1>1. CASE SessionEnded
  BY <1>0, <1>1, AccountEnds DEF SessionEnded, history
<1>2. ASSUME NEW S \in SUBSET Ref, Propose(S) PROVE SettledOnce'
  BY <1>0, <1>2, AccountEnds DEF Propose, history
<1>3. ASSUME NEW c \in Command, NEW h \in Handle, NEW size \in Size,
             NEW n \in 0..MaxEvents, Event(c, h, n, size)
      PROVE  SettledOnce'
  BY <1>1, <1>3, AccountUnchanged DEF Event, history
<1>4. ASSUME NEW c \in Command, NEW h \in Handle, NEW size \in Size,
             Terminal(c, h, size)
      PROVE  SettledOnce'
  BY <1>1, <1>4, AccountUnchanged DEF Terminal, history
<1>5. ASSUME NEW h \in Handle, NEW size \in Size, Approval(h, size)
      PROVE  SettledOnce'
  BY <1>1, <1>5, AccountUnchanged DEF Approval, history
<1>6. ASSUME NEW b \in Binding, Bind(b) PROVE SettledOnce'
  BY <1>1, <1>6, AccountUnchanged DEF Bind, history, commands
<1>7. ASSUME NEW c \in Command, NEW h \in Handle, TurnRequest(c, h)
      PROVE  SettledOnce'
  <2> SUFFICES ASSUME NEW k \in Command PROVE Account(k)'
    BY DEF SettledOnce, Account, Active
  <2>1. Account(k) /\ Pending(k)' = Pending(k) /\ h # None
    BY <1>7, AccountIs, NoneAssumption DEF TurnRequest, Pending
  <2>2. Pending(k) \in Nat /\ settled[k] \in Nat /\ accepted[k] \in Nat
    BY PendingNat DEF Core, TypeOK
  <2>3. handleOf[c] = None
    BY <1>7 DEF TurnRequest, Active
  <2> QED BY <1>7, <2>1, <2>2, <2>3, SMTT(30) DEF Account, TurnRequest, Core, TypeOK
<1>8. ASSUME NEW c \in Command, Drain(c) PROVE SettledOnce'
  <2>1. CASE c \notin terminal
    BY <1>8, <2>1, AccountUnchanged DEF Drain
  <2>2. CASE c \in terminal
    <3>1. settled' = [settled EXCEPT ![c] = settled[c] + 1]
      BY <1>8, <2>2 DEF Drain
    <3>2. settled' = [k \in Command |-> IF k \in {c} THEN settled[k] + 1
                                        ELSE settled[k]]
      BY <3>1 DEF Core, TypeOK
    <3> QED BY <1>8, <2>2, <3>2, AccountForget DEF Drain
  <2> QED BY <2>1, <2>2
<1>9. CASE ReleaseTerminalCommands
  <2>1. Ended \in SUBSET Active
    BY DEF Ended, Core, TypeOK, IdleIsEmpty, Active
  <2> QED BY <1>9, <2>1, AccountForget DEF ReleaseTerminalCommands
<1>10. CASE ReleaseInterruptedCommands
  <2> SUFFICES ASSUME NEW k \in Command PROVE Account(k)'
    BY DEF SettledOnce, Account, Active
  <2>1. Account(k)
    BY AccountIs
  <2>2. Pending(k) \in Nat /\ settled[k] \in Nat /\ accepted[k] \in Nat
    BY PendingNat DEF Core, TypeOK
  <2>3. Pending(k)' = 0
    BY <1>0, <1>10 DEF Pending, ReleaseInterruptedCommands
  <2>4. settled'[k] = settled[k] + Pending(k)
    BY <1>10 DEF ReleaseInterruptedCommands
  <2>5. accepted' = accepted /\ handleOf' = handleOf
    BY <1>10 DEF ReleaseInterruptedCommands, commands
  <2> QED BY <2>1, <2>2, <2>3, <2>4, <2>5 DEF Account
<1>11. CASE UNCHANGED vars
  BY <1>11, AccountUnchanged DEF vars, history, commands
<1> QED BY <1>1, <1>2, <1>3, <1>4, <1>5, <1>6, <1>7, <1>8, <1>9, <1>10, <1>11
        DEF Next, ReceiveConnector, ReceiveRelay, Release, InvalidFrame

-----------------------------------------------------------------------------
(* The queue of a command                                                  *)

\* What ReceiptKept says of one command.
Kept(q, ended) ==
    IF ended
    THEN /\ Len(q) > 0
         /\ \A i \in 1..Len(q) : q[i].kind \in Receipts <=> i = Len(q)
    ELSE \A i \in 1..Len(q) : q[i].kind \notin Receipts

\* What StreamIntact says of one, with the bound its order needs.
Ordered(q, next) ==
    /\ \A i \in 1..Len(q) : q[i].kind = "event" => q[i].sequence < next
    /\ \A i, j \in 1..Len(q) :
           i < j /\ q[i].kind = "event" /\ q[j].kind = "event" =>
               q[i].sequence < q[j].sequence
Whole(q, ended, from, next) ==
    \/ ended /\ Len(q) = 1
    \/ \A n \in from..(next - 1) : \E i \in 1..Len(q) : q[i] = EventFrame(n)

Queue(q, ended, from, next) ==
    /\ Len(q) <= MaxQueuedEvents
    /\ Kept(q, ended)
    /\ Ordered(q, next)
    /\ Whole(q, ended, from, next)

\* Every running command's queue is as it should be.
Queues ==
    \A c \in Command : handleOf[c] # None =>
        Queue(events[c], c \in terminal, delivered[c], nextSequence[c])

\* An emptied queue, after a drain or at acceptance.
LEMMA QueueEmpty ==
    ASSUME NEW n \in Nat PROVE Queue(<<>>, FALSE, n, n)
BY LimitAssumption DEF Queue, Kept, Ordered, Whole

\* A queue replaced by a receipt.
LEMMA QueueReceipt ==
    ASSUME NEW k \in Receipts, NEW n \in Nat, NEW m \in Nat
    PROVE  Queue(<<ReceiptFrame(k)>>, TRUE, m, n)
BY LimitAssumption DEF Queue, Kept, Ordered, Whole, ReceiptFrame, Receipts

\* A receipt at the end of a queue.
LEMMA QueueEnd ==
    ASSUME NEW q \in Seq(Frame), NEW m \in Nat, NEW n \in Nat,
           Queue(q, FALSE, m, n), Len(q) < MaxQueuedEvents, NEW k \in Receipts
    PROVE  Queue(Append(q, ReceiptFrame(k)), TRUE, m, n)
<1> DEFINE r == Append(q, ReceiptFrame(k))
<1>1. /\ Len(r) = Len(q) + 1 /\ r[Len(q) + 1] = ReceiptFrame(k)
      /\ \A i \in 1..Len(q) : r[i] = q[i]
  BY FrameTypes
<1>2. ReceiptFrame(k).kind = k /\ k # "event" /\ Len(q) \in Nat
  BY DEF ReceiptFrame, Receipts
<1> HIDE DEF r
<1>3. Kept(r, TRUE)
  BY <1>1, <1>2 DEF Queue, Kept
<1>4. Ordered(r, n)
  BY <1>1, <1>2 DEF Queue, Ordered
<1>5. Whole(r, TRUE, m, n)
  BY <1>1, <1>2 DEF Queue, Whole
<1>6. Queue(r, TRUE, m, n)
  <2>1. Len(r) <= MaxQueuedEvents
    BY <1>1, <1>2, LimitAssumption
  <2> QED BY <2>1, <1>3, <1>4, <1>5, Zenon DEF Queue
<1> QED BY <1>6 DEF r

\* An approval at the end of a queue.
LEMMA QueueApproval ==
    ASSUME NEW q \in Seq(Frame), NEW m \in Nat, NEW n \in Nat,
           Queue(q, FALSE, m, n), Len(q) < MaxQueuedEvents
    PROVE  Queue(Append(q, ApprovalFrame), FALSE, m, n)
<1> DEFINE r == Append(q, ApprovalFrame)
<1>1. /\ Len(r) = Len(q) + 1 /\ r[Len(q) + 1] = ApprovalFrame
      /\ \A i \in 1..Len(q) : r[i] = q[i]
  BY FrameTypes
<1>2. ApprovalFrame.kind = "approval" /\ "approval" \notin Receipts /\ Len(q) \in Nat
  BY DEF ApprovalFrame, Receipts
<1> HIDE DEF r
<1>3. Kept(r, FALSE)
  BY <1>1, <1>2 DEF Queue, Kept
<1>4. Ordered(r, n)
  BY <1>1, <1>2 DEF Queue, Ordered
<1>5. Whole(r, FALSE, m, n)
  BY <1>1, <1>2 DEF Queue, Whole
<1>6. Queue(r, FALSE, m, n)
  <2>1. Len(r) <= MaxQueuedEvents
    BY <1>1, <1>2, LimitAssumption
  <2> QED BY <2>1, <1>3, <1>4, <1>5, Zenon DEF Queue
<1> QED BY <1>6 DEF r

\* The next event at the end of a queue.
LEMMA QueueEvent ==
    ASSUME NEW q \in Seq(Frame), NEW m \in Nat, NEW n \in Nat,
           Queue(q, FALSE, m, n), Len(q) < MaxQueuedEvents
    PROVE  Queue(Append(q, EventFrame(n)), FALSE, m, n + 1)
<1> DEFINE r == Append(q, EventFrame(n))
<1>1. /\ Len(r) = Len(q) + 1 /\ r[Len(q) + 1] = EventFrame(n)
      /\ \A i \in 1..Len(q) : r[i] = q[i]
  BY FrameTypes
<1>2. /\ EventFrame(n).kind = "event" /\ EventFrame(n).sequence = n
      /\ "event" \notin Receipts /\ Len(q) \in Nat
  BY DEF EventFrame, Receipts
<1>0. \A i \in 1..Len(q) : q[i].sequence \in Nat
  <2>1. \A i \in 1..Len(q) : q[i] \in Frame
    OBVIOUS
  <2> QED BY <2>1 DEF Frame
<1> HIDE DEF r
<1>3. Kept(r, FALSE)
  BY <1>1, <1>2 DEF Queue, Kept
<1>4. Ordered(r, n + 1)
  <2>1. /\ \A i \in 1..Len(q) : q[i].kind = "event" => q[i].sequence < n
        /\ \A i, j \in 1..Len(q) :
               i < j /\ q[i].kind = "event" /\ q[j].kind = "event" =>
                   q[i].sequence < q[j].sequence
    BY DEF Queue, Ordered
  <2>2. ASSUME NEW i \in 1..Len(r), r[i].kind = "event"
        PROVE  r[i].sequence < n + 1
    <3>1. CASE i = Len(q) + 1
      BY <3>1, <1>1, <1>2
    <3>2. CASE i \in 1..Len(q)
      BY <2>2, <3>2, <2>1, <1>0, <1>1
    <3> QED BY <3>1, <3>2, <1>1, <1>2
  <2>3. ASSUME NEW i \in 1..Len(r), NEW j \in 1..Len(r), i < j,
               r[i].kind = "event", r[j].kind = "event"
        PROVE  r[i].sequence < r[j].sequence
    <3>1. i \in 1..Len(q)
      BY <2>3, <1>1, <1>2
    <3>2. CASE j = Len(q) + 1
      BY <2>1, <2>3, <3>1, <3>2, <1>1, <1>2
    <3>3. CASE j \in 1..Len(q)
      BY <2>1, <2>3, <3>1, <3>3, <1>1
    <3> QED BY <3>2, <3>3, <1>1, <1>2
  <2> QED BY <2>2, <2>3 DEF Ordered
<1>5. Whole(r, FALSE, m, n + 1)
  <2> SUFFICES ASSUME NEW k \in m..n PROVE \E i \in 1..Len(r) : r[i] = EventFrame(k)
    BY DEF Whole
  <2>1. CASE k = n
    BY <2>1, <1>1, <1>2
  <2>2. CASE k # n
    BY <2>2, <1>1, <1>2 DEF Queue, Whole
  <2> QED BY <2>1, <2>2
<1>6. Queue(r, FALSE, m, n + 1)
  <2>1. Len(r) <= MaxQueuedEvents
    BY <1>1, <1>2, LimitAssumption
  <2> QED BY <2>1, <1>3, <1>4, <1>5, Zenon DEF Queue
<1> QED BY <1>6 DEF r

\* A step that touches one command's queue at most.
LEMMA QueuesOne ==
    ASSUME Core, Queues, NEW c \in Command,
           NEW q, events' = [events EXCEPT ![c] = q],
           NEW n, nextSequence' = [nextSequence EXCEPT ![c] = n],
           NEW k, delivered' = [delivered EXCEPT ![c] = k],
           \A b \in Command \ {c} : b \in terminal' <=> b \in terminal,
           \A b \in Command \ {c} : handleOf'[b] = handleOf[b],
           Queue(q, c \in terminal', k, n)
    PROVE  Queues'
<1> SUFFICES ASSUME NEW b \in Command, handleOf'[b] # None
             PROVE  Queue(events'[b], b \in terminal', delivered'[b], nextSequence'[b])
  BY DEF Queues
<1>1. CASE b = c
  BY <1>1 DEF Core, TypeOK
<1>2. CASE b # c
  <2>1. /\ events'[b] = events[b] /\ delivered'[b] = delivered[b]
        /\ nextSequence'[b] = nextSequence[b] /\ handleOf[b] # None
        /\ b \in terminal' <=> b \in terminal
    BY <1>2 DEF Core, TypeOK
  <2>2. Queue(events[b], b \in terminal, delivered[b], nextSequence[b])
    BY <2>1 DEF Queues
  <2>3. (b \in terminal') = (b \in terminal)
    BY <2>1
  <2> QED BY <2>1, <2>2, <2>3
<1> QED BY <1>1, <1>2

\* A step after which no command runs.
LEMMA QueuesNone == ASSUME NEW d, EndCommands(d) PROVE Queues'
BY DEF Queues, EndCommands

\* A step that leaves the commands alone, or removes some.
LEMMA QueuesFewer ==
    ASSUME Queues,
           \A c \in Command : handleOf'[c] # None =>
               /\ handleOf[c] # None /\ events'[c] = events[c]
               /\ delivered'[c] = delivered[c] /\ nextSequence'[c] = nextSequence[c]
               /\ (c \in terminal') = (c \in terminal)
    PROVE  Queues'
BY DEF Queues

LEMMA RoomMeans ==
    ASSUME Core, NEW c \in Command, NEW size \in Size, ~Overflows(c, size)
    PROVE  /\ events[c] \in Seq(Frame) /\ Len(events[c]) < MaxQueuedEvents
BY LimitAssumption DEF Core, TypeOK, Overflows

LEMMA QueuesFlood ==
    ASSUME Core, Queues, NEW c \in Command, InterruptFlood(c),
           UNCHANGED <<handleOf, history>>
    PROVE  Queues'
<1>1. /\ nextSequence[c] \in Nat /\ delivered[c] \in Nat
      /\ nextSequence' = [nextSequence EXCEPT ![c] = nextSequence[c]]
      /\ delivered' = [delivered EXCEPT ![c] = delivered[c]]
  BY DEF Core, TypeOK, InterruptFlood, history
<1>2. (c \in terminal') = TRUE
  BY DEF InterruptFlood
<1>3. Queue(<<ReceiptFrame("flood")>>, c \in terminal', delivered[c], nextSequence[c])
  BY <1>1, <1>2, QueueReceipt DEF Receipts
<1>4. \A b \in Command \ {c} : b \in terminal' <=> b \in terminal
  BY DEF InterruptFlood
<1> QED BY <1>1, <1>3, <1>4, QueuesOne DEF InterruptFlood

LEMMA QueuesStep == Core /\ Queues /\ [Next]_vars => Queues'
<1> SUFFICES ASSUME Core, Queues, [Next]_vars PROVE Queues'
  OBVIOUS
<1>1. CASE SessionEnded
  BY <1>1, QueuesNone DEF SessionEnded
<1>2. ASSUME NEW S \in SUBSET Ref, Propose(S) PROVE Queues'
  BY <1>2, QueuesNone DEF Propose
<1>3. ASSUME NEW c \in Command, NEW h \in Handle, NEW size \in Size,
             NEW n \in 0..MaxEvents, Event(c, h, n, size)
      PROVE  Queues'
  <2>1. CASE ~SessionEnded /\ ~InterruptFlood(c)
    <3>1. /\ handleOf[c] # None /\ n = nextSequence[c] /\ c \notin terminal
          /\ ~Overflows(c, size) /\ Enqueue(c, EventFrame(n), size)
          /\ nextSequence' = [nextSequence EXCEPT ![c] = n + 1]
          /\ UNCHANGED <<handleOf, history, terminal>>
      BY <1>3, <2>1, NoneAssumption DEF Event
    <3>2. delivered[c] \in Nat /\ n \in Nat
          /\ delivered' = [delivered EXCEPT ![c] = delivered[c]]
      BY <3>1 DEF Core, TypeOK, history
    <3>3. (c \in terminal) = FALSE /\ (c \in terminal') = FALSE
      BY <3>1
    <3>4. Queue(events[c], FALSE, delivered[c], n)
      BY <3>1, <3>3 DEF Queues
    <3>5. Queue(Append(events[c], EventFrame(n)), c \in terminal', delivered[c], n + 1)
      BY <3>1, <3>2, <3>3, <3>4, RoomMeans, QueueEvent
    <3> QED BY <3>1, <3>2, <3>5, QueuesOne DEF Enqueue
  <2>2. CASE ~SessionEnded /\ InterruptFlood(c)
    BY <1>3, <2>2, QueuesFlood DEF Event
  <2> QED BY <1>1, <2>1, <2>2
<1>4. ASSUME NEW c \in Command, NEW h \in Handle, NEW size \in Size,
             Terminal(c, h, size)
      PROVE  Queues'
  <2>1. CASE ~SessionEnded
    <3>1. /\ handleOf[c] # None /\ c \notin terminal
          /\ terminal' = terminal \cup {c}
          /\ UNCHANGED <<handleOf, history, nextSequence>>
      BY <1>4, <2>1, NoneAssumption DEF Terminal
    <3>2. /\ nextSequence[c] \in Nat /\ delivered[c] \in Nat
          /\ nextSequence' = [nextSequence EXCEPT ![c] = nextSequence[c]]
          /\ delivered' = [delivered EXCEPT ![c] = delivered[c]]
      BY <3>1 DEF Core, TypeOK, history
    <3>3. (c \in terminal) = FALSE /\ (c \in terminal') = TRUE
      BY <3>1
    <3>4. \A b \in Command \ {c} : b \in terminal' <=> b \in terminal
      BY <3>1
    <3>5. CASE Overflows(c, size)
      <4>1. events' = [events EXCEPT ![c] = <<ReceiptFrame("receipt")>>]
        BY <1>4, <2>1, <3>5 DEF Terminal
      <4>2. Queue(<<ReceiptFrame("receipt")>>, c \in terminal', delivered[c], nextSequence[c])
        BY <3>2, <3>3, QueueReceipt DEF Receipts
      <4> QED BY <3>1, <3>2, <3>4, <4>1, <4>2, QueuesOne
    <3>6. CASE ~Overflows(c, size)
      <4>1. events' = [events EXCEPT ![c] = Append(events[c], ReceiptFrame("receipt"))]
        BY <1>4, <2>1, <3>6 DEF Terminal, Enqueue
      <4>2. Queue(events[c], FALSE, delivered[c], nextSequence[c])
        BY <3>1, <3>3 DEF Queues
      <4>3. "receipt" \in Receipts
        BY DEF Receipts
      <4>4. Queue(Append(events[c], ReceiptFrame("receipt")), c \in terminal',
                  delivered[c], nextSequence[c])
        BY <3>2, <3>3, <3>6, <4>2, <4>3, RoomMeans, QueueEnd
      <4> QED BY <3>1, <3>2, <3>4, <4>1, <4>4, QueuesOne
    <3> QED BY <3>5, <3>6
  <2> QED BY <1>1, <2>1
<1>5. ASSUME NEW h \in Handle, NEW size \in Size, Approval(h, size)
      PROVE  Queues'
  <2> DEFINE c == commandByHandle[h]
  <2>1. CASE ~SessionEnded
    <3>1. c # None /\ c \notin terminal /\ UNCHANGED <<handleOf, history>>
      BY <1>5, <2>1 DEF Approval
    <3>2. c \in Command /\ handleOf[c] # None
      BY <3>1, LiveCommand
    <3>3. CASE InterruptFlood(c)
      BY <3>1, <3>2, <3>3, QueuesFlood
    <3>4. CASE ~InterruptFlood(c)
      <4>1. /\ ~Overflows(c, size) /\ Enqueue(c, ApprovalFrame, size)
            /\ UNCHANGED <<nextSequence, terminal>>
        BY <1>5, <2>1, <3>4 DEF Approval
      <4> HIDE DEF c
      <4>2. /\ nextSequence[c] \in Nat /\ delivered[c] \in Nat
            /\ nextSequence' = [nextSequence EXCEPT ![c] = nextSequence[c]]
            /\ delivered' = [delivered EXCEPT ![c] = delivered[c]]
        BY <3>1, <3>2, <4>1 DEF Core, TypeOK, history
      <4>3. (c \in terminal) = FALSE /\ (c \in terminal') = FALSE
        BY <3>1, <4>1
      <4>4. Queue(events[c], FALSE, delivered[c], nextSequence[c])
        BY <3>2, <4>3 DEF Queues
      <4>5. Queue(Append(events[c], ApprovalFrame), c \in terminal',
                  delivered[c], nextSequence[c])
        <5>1. events[c] \in Seq(Frame) /\ Len(events[c]) < MaxQueuedEvents
          BY <3>2, <4>1, RoomMeans
        <5>2. Queue(Append(events[c], ApprovalFrame), FALSE, delivered[c],
                    nextSequence[c])
          BY <4>2, <4>4, <5>1, QueueApproval
        <5> QED BY <4>3, <5>2, Zenon
      <4>6. /\ \A b \in Command \ {c} : handleOf'[b] = handleOf[b]
            /\ \A b \in Command \ {c} : b \in terminal' <=> b \in terminal
            /\ events' = [events EXCEPT ![c] = Append(events[c], ApprovalFrame)]
        BY <3>1, <4>1 DEF Enqueue
      <4> QED BY <3>2, <4>2, <4>5, <4>6, QueuesOne
    <3> QED BY <3>3, <3>4
  <2> QED BY <1>1, <2>1
<1>6. ASSUME NEW b \in Binding, Bind(b) PROVE Queues'
  BY <1>1, <1>6, QueuesFewer DEF Bind, history, commands
<1>7. ASSUME NEW c \in Command, NEW h \in Handle, TurnRequest(c, h)
      PROVE  Queues'
  <2>1. events[c] = <<>> /\ nextSequence[c] = 0 /\ c \notin terminal
    BY <1>7 DEF TurnRequest, Active, Core, IdleIsEmpty
  <2>2. /\ events' = [events EXCEPT ![c] = <<>>]
        /\ nextSequence' = [nextSequence EXCEPT ![c] = 0]
        /\ delivered' = [delivered EXCEPT ![c] = 0]
    BY <1>7, <2>1 DEF TurnRequest, Core, TypeOK
  <2>3. (c \in terminal') = FALSE /\ terminal' = terminal
    BY <1>7, <2>1 DEF TurnRequest
  <2>4. Queue(<<>>, c \in terminal', 0, 0)
    BY <2>3, QueueEmpty
  <2>5. \A b \in Command \ {c} : handleOf'[b] = handleOf[b]
    BY <1>7 DEF TurnRequest, Core, TypeOK
  <2> QED BY <2>2, <2>3, <2>4, <2>5, QueuesOne
<1>8. ASSUME NEW c \in Command, Drain(c) PROVE Queues'
  <2>1. CASE c \notin terminal
    <3>1. /\ events' = [events EXCEPT ![c] = <<>>]
          /\ delivered' = [delivered EXCEPT ![c] = nextSequence[c]]
          /\ UNCHANGED <<handleOf, terminal, nextSequence>>
      BY <1>8, <2>1 DEF Drain
    <3>2. /\ nextSequence[c] \in Nat
          /\ nextSequence' = [nextSequence EXCEPT ![c] = nextSequence[c]]
      BY <3>1 DEF Core, TypeOK
    <3>3. (c \in terminal') = FALSE
      BY <2>1, <3>1
    <3>4. Queue(<<>>, c \in terminal', nextSequence[c], nextSequence[c])
      BY <3>2, <3>3, QueueEmpty
    <3> QED BY <3>1, <3>2, <3>4, QueuesOne
  <2>2. CASE c \in terminal
    <3>1. Forget({c}) /\ delivered' = delivered
      BY <1>8, <2>2 DEF Drain
    <3> QED BY <3>1, QueuesFewer DEF Forget
  <2> QED BY <2>1, <2>2
<1>9. CASE ReleaseTerminalCommands
  <2>1. Forget(Ended) /\ delivered' = delivered
    BY <1>9 DEF ReleaseTerminalCommands
  <2> QED BY <2>1, QueuesFewer DEF Forget
<1>10. CASE ReleaseInterruptedCommands
  BY <1>10, QueuesFewer DEF ReleaseInterruptedCommands, commands
<1>11. CASE UNCHANGED vars
  BY <1>11, QueuesFewer DEF vars, commands, history
<1> QED BY <1>1, <1>2, <1>3, <1>4, <1>5, <1>6, <1>7, <1>8, <1>9, <1>10, <1>11
        DEF Next, ReceiveConnector, ReceiveRelay, Release, InvalidFrame

-----------------------------------------------------------------------------
\* The class's maps are typed and agree, whatever frames arrive: no handle
\* ever runs two commands and no command runs on an unbound handle.
THEOREM MapsTheorem == Spec => [](TypeOK /\ MapsAgree)
<1>1. Core => TypeOK /\ MapsAgree
  BY DEF Core
<1> QED BY <1>1, CoreInit, CoreStep, PTL DEF Spec

LEMMA SettledInit == Init => SettledOnce
BY NoneAssumption DEF Init, SettledOnce, Pending, Active, Disposition

\* Every accepted turn is reported ended exactly once, for any connector.
THEOREM SettledTheorem == Spec => []SettledOnce
BY CoreInit, CoreStep, SettledInit, SettledStep, PTL DEF Spec

LEMMA QueuesInit == Init => Queues
BY DEF Init, Queues

\* What the queues' invariant means for the two properties.
LEMMA QueuesMeaning == Core /\ Queues => ReceiptKept /\ StreamIntact
<1> SUFFICES ASSUME Core, Queues PROVE ReceiptKept /\ StreamIntact
  OBVIOUS
<1>1. ASSUME NEW c \in Command, handleOf[c] = None
      PROVE  c \notin terminal /\ Len(events[c]) = 0
  BY <1>1 DEF Core, IdleIsEmpty
<1>2. ReceiptKept
  BY <1>1 DEF ReceiptKept, Queues, Queue, Kept, Active
<1>3. StreamIntact
  BY DEF StreamIntact, Queues, Queue, Ordered, Whole, Active
<1> QED BY <1>2, <1>3

\* No flood, reordering or duplicate of the connector makes a command lose
\* the receipt that ends it, or its queue hold a gap or exceed its limit.
THEOREM StreamTheorem == Spec => [](ReceiptKept /\ StreamIntact)
BY CoreInit, CoreStep, QueuesInit, QueuesStep, QueuesMeaning, PTL DEF Spec

-----------------------------------------------------------------------------
(* The memory of completed commands                                        *)

Distinct(s) == \A i, j \in 1..Len(s) : s[i] = s[j] => i = j

\* The queue names every remembered command once, within its limit; none of
\* them runs, and finitely many commands run.
Memory ==
    /\ completedOrder \in Seq(Command)
    /\ Distinct(completedOrder)
    /\ Len(completedOrder) <= MaxCompletedCommands
    /\ Elements(completedOrder) = completed
    /\ completed \cap Active = {}
    /\ IsFiniteSet(Active)

\* A queue without repetitions is as long as the set of its elements.
LEMMA Counted ==
    ASSUME NEW S, NEW s \in Seq(S), Distinct(s)
    PROVE  Cardinality(Elements(s)) = Len(s)
<1>1. Len(s) \in Nat /\ s \in [1..Len(s) -> S]
  BY LenProperties
<1>2. s \in [1..Len(s) -> Elements(s)]
  BY <1>1 DEF Elements
<1>3. s \in Bijection(1..Len(s), Elements(s))
  BY <1>1, <1>2 DEF Distinct, Elements, Bijection, Injection, Surjection, IsInjective
<1>4. ExistsBijection(1..Len(s), Elements(s))
  BY <1>3 DEF ExistsBijection
<1> QED BY <1>1, <1>4, FS_CountingElements

\* Two queues without repetitions that share nothing, one after the other.
LEMMA Joined ==
    ASSUME NEW S, NEW s \in Seq(S), NEW t \in Seq(S), Distinct(s), Distinct(t),
           Elements(s) \cap Elements(t) = {}
    PROVE  /\ s \o t \in Seq(S) /\ Distinct(s \o t)
           /\ Elements(s \o t) = Elements(s) \cup Elements(t)
<1> DEFINE u == s \o t
<1>1. /\ u \in Seq(S) /\ Len(u) = Len(s) + Len(t)
      /\ Len(s) \in Nat /\ Len(t) \in Nat
      /\ \A i \in 1..Len(s) + Len(t) :
             u[i] = IF i <= Len(s) THEN s[i] ELSE t[i - Len(s)]
  BY ConcatProperties, LenProperties
<1> HIDE DEF u
<1>2. /\ \A i \in 1..Len(s) : u[i] = s[i] /\ i \in 1..Len(u)
      /\ \A i \in 1..Len(t) : u[i + Len(s)] = t[i] /\ i + Len(s) \in 1..Len(u)
  <2>1. ASSUME NEW i \in 1..Len(s) PROVE u[i] = s[i] /\ i \in 1..Len(u)
    BY <1>1
  <2>2. ASSUME NEW i \in 1..Len(t)
        PROVE  u[i + Len(s)] = t[i] /\ i + Len(s) \in 1..Len(u)
    <3>1. /\ i + Len(s) \in 1..Len(s) + Len(t) /\ ~(i + Len(s) <= Len(s))
          /\ (i + Len(s)) - Len(s) = i
      BY <1>1
    <3> QED BY <1>1, <3>1
  <2> QED BY <2>1, <2>2
<1>3. \A i \in 1..Len(u) : i \in 1..Len(s) \/ \E k \in 1..Len(t) : i = k + Len(s)
  <2> SUFFICES ASSUME NEW i \in 1..Len(u), i \notin 1..Len(s)
               PROVE  \E k \in 1..Len(t) : i = k + Len(s)
    OBVIOUS
  <2>1. i - Len(s) \in 1..Len(t) /\ i = (i - Len(s)) + Len(s)
    BY <1>1
  <2> QED BY <2>1
<1>4. \A i \in 1..Len(s), k \in 1..Len(t) : s[i] # t[k]
  BY DEF Elements
<1>5. Distinct(u)
  <2> SUFFICES ASSUME NEW i \in 1..Len(u), NEW j \in 1..Len(u), u[i] = u[j]
               PROVE  i = j
    BY DEF Distinct
  <2>1. CASE i \in 1..Len(s)
    <3>1. ASSUME NEW m \in 1..Len(t), j = m + Len(s) PROVE FALSE
      <4>1. s[i] = t[m]
        BY <1>2, <2>1, <3>1
      <4> QED BY <1>4, <2>1, <4>1
    <3>2. j \in 1..Len(s)
      BY <1>3, <3>1
    <3> QED BY <1>2, <2>1, <3>2 DEF Distinct
  <2>2. ASSUME NEW k \in 1..Len(t), i = k + Len(s) PROVE i = j
    <3>1. PICK m \in 1..Len(t) : j = m + Len(s)
      BY <1>2, <1>3, <1>4, <2>2
    <3>2. t[k] = t[m]
      BY <1>2, <2>2, <3>1
    <3> QED BY <2>2, <3>1, <3>2 DEF Distinct
  <2> QED BY <1>3, <2>1, <2>2
<1>6. Elements(u) = Elements(s) \cup Elements(t)
  <2>1. ASSUME NEW i \in 1..Len(u) PROVE u[i] \in Elements(s) \cup Elements(t)
    <3>1. CASE i \in 1..Len(s)
      BY <1>2, <3>1 DEF Elements
    <3>2. ASSUME NEW k \in 1..Len(t), i = k + Len(s)
          PROVE  u[i] \in Elements(t)
      BY <1>2, <3>2 DEF Elements
    <3> QED BY <1>3, <3>1, <3>2
  <2>2. \A x \in Elements(s) \cup Elements(t) : x \in Elements(u)
    BY <1>2 DEF Elements
  <2>3. \A x \in Elements(u) : x \in Elements(s) \cup Elements(t)
    BY <2>1 DEF Elements
  <2> QED BY <2>2, <2>3
<1> QED BY <1>1, <1>5, <1>6 DEF u

\* A queue without repetitions that loses its first elements.
LEMMA Cut ==
    ASSUME NEW S, NEW s \in Seq(S), Distinct(s), NEW e \in 0..Len(s),
           NEW t, t = SubSeq(s, e + 1, Len(s))
    PROVE  /\ t \in Seq(S) /\ Distinct(t) /\ Len(t) = Len(s) - e
           /\ Elements(t) = Elements(s) \ {s[i] : i \in 1..e}
<1>1. Len(s) \in Nat /\ e \in Nat /\ e <= Len(s) /\ \A i \in 1..Len(s) : s[i] \in S
  BY LenProperties, ElementOfSeq
<1>2. /\ t \in Seq(S) /\ Len(t) = Len(s) - e
      /\ \A i \in 1..Len(s) - e : t[i] = s[e + i]
  <2>1. e + 1 \in Int /\ Len(s) \in Int /\ \A i \in (e + 1)..Len(s) : s[i] \in S
    BY <1>1
  <2>2. /\ t \in Seq(S)
        /\ Len(t) = IF e + 1 <= Len(s) THEN Len(s) - (e + 1) + 1 ELSE 0
        /\ \A i \in 1..Len(s) - (e + 1) + 1 : t[i] = s[(e + 1) + i - 1]
    BY <2>1, SubSeqProperties
  <2> QED BY <1>1, <2>2
<1>3. Distinct(t)
  <2> SUFFICES ASSUME NEW i \in 1..Len(t), NEW j \in 1..Len(t), t[i] = t[j]
               PROVE  i = j
    BY DEF Distinct
  <2>1. e + i \in 1..Len(s) /\ e + j \in 1..Len(s) /\ i \in Nat /\ j \in Nat
    BY <1>1, <1>2
  <2>2. s[e + i] = s[e + j]
    BY <1>2
  <2>3. e + i = e + j
    BY <2>1, <2>2 DEF Distinct
  <2> QED BY <1>1, <2>1, <2>3
<1>4. Elements(t) = Elements(s) \ {s[i] : i \in 1..e}
  <2>1. ASSUME NEW i \in 1..Len(t)
        PROVE  t[i] \in Elements(s) /\ t[i] \notin {s[k] : k \in 1..e}
    <3>1. e + i \in 1..Len(s) /\ t[i] = s[e + i]
      BY <1>1, <1>2
    <3>2. \A k \in 1..e : s[k] # s[e + i]
      BY <1>1, <3>1 DEF Distinct
    <3> QED BY <3>1, <3>2 DEF Elements
  <2>2. ASSUME NEW k \in 1..Len(s), s[k] \notin {s[i] : i \in 1..e}
        PROVE  s[k] \in Elements(t)
    <3>1. k \notin 1..e
      BY <2>2
    <3>2. k - e \in 1..Len(t) /\ t[k - e] = s[k]
      BY <1>1, <1>2, <3>1
    <3> QED BY <3>2 DEF Elements
  <2>3. \A x \in Elements(t) : x \in Elements(s) \ {s[i] : i \in 1..e}
    BY <2>1 DEF Elements
  <2>4. \A x \in Elements(s) \ {s[i] : i \in 1..e} : x \in Elements(t)
    BY <2>2 DEF Elements
  <2> QED BY <2>3, <2>4
<1> QED BY <1>2, <1>3, <1>4

\* The order in which a finite set of commands is released names each once.
LEMMA OrdersAre ==
    ASSUME NEW C \in SUBSET Command, IsFiniteSet(C), NEW order \in Orders(C)
    PROVE  order \in Seq(Command) /\ Distinct(order) /\ Elements(order) = C
<1> DEFINE n == Cardinality(C)
<1>1. n \in Nat
  BY FS_CardinalityType
<1>2. order \in [1..n -> C] /\ Elements(order) = C
  BY DEF Orders
<1> HIDE DEF n
<1>3. order \in Seq(Command) /\ Len(order) = n
  BY <1>1, <1>2
<1>4. order \in Surjection(1..n, C)
  BY <1>2, <1>3 DEF Surjection, Elements
<1>5. IsFiniteSet(1..n) /\ Cardinality(1..n) = n
  BY <1>1, FS_Interval
<1>6. order \in Injection(1..n, C)
  BY <1>4, <1>5, FS_SurjSameCardinalityImpliesInj DEF n
<1>7. Distinct(order)
  BY <1>3, <1>6 DEF Distinct, Injection, IsInjective
<1> QED BY <1>2, <1>3, <1>7

\* Commands that leave the maps are remembered, the oldest ones evicted.
LEMMA Remembered ==
    ASSUME Memory, NEW order \in Seq(Command), Distinct(order),
           Elements(order) \subseteq Active, RememberCompleted(order),
           Active' = Active \ Elements(order)
    PROVE  Memory'
<1> DEFINE all == completedOrder \o order
           excess == IF Len(all) > MaxCompletedCommands
                     THEN Len(all) - MaxCompletedCommands ELSE 0
<1>1. /\ all \in Seq(Command) /\ Distinct(all)
      /\ Elements(all) = completed \cup Elements(order)
  BY Joined DEF Memory
<1>2. /\ completedOrder' = SubSeq(all, excess + 1, Len(all))
      /\ completed' = (completed \cup Elements(order)) \ {all[i] : i \in 1..excess}
  BY DEF RememberCompleted
<1> HIDE DEF all
<1>3. Len(all) \in Nat /\ MaxCompletedCommands \in Nat
  BY <1>1, LenProperties, LimitAssumption
<1>4. excess \in 0..Len(all) /\ Len(all) - excess <= MaxCompletedCommands
  BY <1>3
<1> HIDE DEF excess
<1>5. /\ completedOrder' \in Seq(Command) /\ Distinct(completedOrder')
      /\ Len(completedOrder') = Len(all) - excess
      /\ Elements(completedOrder') = Elements(all) \ {all[i] : i \in 1..excess}
  <2> DEFINE kept == SubSeq(all, excess + 1, Len(all))
  <2>1. /\ kept \in Seq(Command) /\ Distinct(kept) /\ Len(kept) = Len(all) - excess
        /\ Elements(kept) = Elements(all) \ {all[i] : i \in 1..excess}
    <3>1. \A t : t = kept =>
              /\ t \in Seq(Command) /\ Distinct(t) /\ Len(t) = Len(all) - excess
              /\ Elements(t) = Elements(all) \ {all[i] : i \in 1..excess}
      BY <1>1, <1>4, Cut
    <3> HIDE DEF kept
    <3> QED BY <3>1
  <2>2. completedOrder' = kept
    BY <1>2
  <2> HIDE DEF kept
  <2> QED BY <2>1, <2>2
<1>6. Elements(completedOrder)' = completed' /\ Distinct(completedOrder)'
  BY <1>1, <1>2, <1>5 DEF Elements, Distinct
<1>7. (completed \cap Active = {})'
  BY <1>2 DEF Memory
<1>8. IsFiniteSet(Active)'
  BY FS_Subset DEF Memory
<1> QED BY <1>4, <1>5, <1>6, <1>7, <1>8 DEF Memory

\* Forgetting commands takes them out of the running ones.
LEMMA ActiveForget ==
    ASSUME NEW C \in SUBSET Command, Forget(C) PROVE Active' = Active \ C
BY DEF Active, Forget

LEMMA MemoryUnchanged ==
    ASSUME Memory, UNCHANGED <<handleOf, memory>> PROVE Memory'
BY DEF Memory, memory, Active, Distinct, Elements

\* A step after which no command runs.
LEMMA MemoryEnds ==
    ASSUME Memory, NEW d, EndCommands(d), UNCHANGED memory PROVE Memory'
<1>1. Active' = {}
  BY DEF EndCommands, Active
<1>2. IsFiniteSet(Active)'
  BY <1>1, FS_EmptySet
<1>3. (completed \cap Active = {})'
  BY <1>1
<1> QED BY <1>2, <1>3 DEF Memory, memory, Distinct, Elements

LEMMA MemoryStep == Core /\ Memory /\ [Next]_vars => Memory'
<1> SUFFICES ASSUME Core, Memory, [Next]_vars PROVE Memory'
  OBVIOUS
<1>1. CASE SessionEnded
  BY <1>1, MemoryEnds DEF SessionEnded
<1>2. ASSUME NEW S \in SUBSET Ref, Propose(S) PROVE Memory'
  BY <1>2, MemoryEnds DEF Propose
<1>3. ASSUME NEW c \in Command, NEW h \in Handle, NEW size \in Size,
             NEW n \in 0..MaxEvents, Event(c, h, n, size)
      PROVE  Memory'
  BY <1>1, <1>3, MemoryUnchanged DEF Event
<1>4. ASSUME NEW c \in Command, NEW h \in Handle, NEW size \in Size,
             Terminal(c, h, size)
      PROVE  Memory'
  BY <1>1, <1>4, MemoryUnchanged DEF Terminal
<1>5. ASSUME NEW h \in Handle, NEW size \in Size, Approval(h, size)
      PROVE  Memory'
  BY <1>1, <1>5, MemoryUnchanged DEF Approval
<1>6. ASSUME NEW b \in Binding, Bind(b) PROVE Memory'
  BY <1>1, <1>6, MemoryUnchanged DEF Bind, commands
<1>7. ASSUME NEW c \in Command, NEW h \in Handle, TurnRequest(c, h)
      PROVE  Memory'
  <2>1. Active' = Active \cup {c}
    BY <1>7, NoneAssumption DEF TurnRequest, Active, Core, TypeOK
  <2>2. IsFiniteSet(Active)'
    BY <2>1, FS_AddElement DEF Memory
  <2>3. UNCHANGED memory /\ c \notin completed
    BY <1>7 DEF TurnRequest
  <2>4. (completed \cap Active = {})'
    BY <2>1, <2>3 DEF Memory, memory
  <2> QED BY <2>2, <2>3, <2>4 DEF Memory, memory, Distinct, Elements
<1>8. ASSUME NEW c \in Command, Drain(c) PROVE Memory'
  <2>1. CASE c \notin terminal
    BY <1>8, <2>1, MemoryUnchanged DEF Drain
  <2>2. CASE c \in terminal
    <3>1. c \in Active /\ Forget({c}) /\ RememberCompleted(<<c>>)
      BY <1>8, <2>2 DEF Drain
    <3>2. <<c>> \in Seq(Command) /\ Distinct(<<c>>) /\ Elements(<<c>>) = {c}
      BY DEF Distinct, Elements
    <3>3. Active' = Active \ {c}
      BY <3>1, ActiveForget
    <3> QED BY <3>1, <3>2, <3>3, Remembered
  <2> QED BY <2>1, <2>2
<1>9. CASE ReleaseTerminalCommands
  <2>1. Ended \in SUBSET Active /\ Ended \in SUBSET Command
    BY DEF Ended, Core, TypeOK, IdleIsEmpty, Active
  <2>2. IsFiniteSet(Ended)
    BY <2>1, FS_Subset DEF Memory
  <2>3. PICK order \in Orders(Ended) : RememberCompleted(order)
    BY <1>9 DEF ReleaseTerminalCommands
  <2>4. order \in Seq(Command) /\ Distinct(order) /\ Elements(order) = Ended
    BY <2>1, <2>2, OrdersAre
  <2>5. Active' = Active \ Ended
    BY <1>9, <2>1, ActiveForget DEF ReleaseTerminalCommands
  <2> QED BY <2>1, <2>3, <2>4, <2>5, Remembered
<1>10. CASE ReleaseInterruptedCommands
  BY <1>10, MemoryUnchanged DEF ReleaseInterruptedCommands, commands
<1>11. CASE UNCHANGED vars
  BY <1>11, MemoryUnchanged DEF vars, commands
<1> QED BY <1>1, <1>2, <1>3, <1>4, <1>5, <1>6, <1>7, <1>8, <1>9, <1>10, <1>11
        DEF Next, ReceiveConnector, ReceiveRelay, Release, InvalidFrame

LEMMA MemoryInit == Init => Memory
<1> SUFFICES ASSUME Init PROVE Memory
  OBVIOUS
<1>1. completedOrder = <<>> /\ completed = {} /\ Active = {}
  BY DEF Init, Active
<1>2. Len(completedOrder) = 0 /\ completedOrder \in Seq(Command)
  BY <1>1
<1>3. Distinct(completedOrder) /\ Elements(completedOrder) = {}
  BY <1>2 DEF Distinct, Elements
<1>4. Len(completedOrder) <= MaxCompletedCommands
  BY <1>2, LimitAssumption
<1> QED BY <1>1, <1>2, <1>3, <1>4, FS_EmptySet DEF Memory

\* However commands end and however many leave at once, the memory names the
\* completed ones once each within its limit, and none of them runs again
\* while it is remembered.
THEOREM MemoryTheorem == Spec => []MemoryExact
<1>1. Memory => MemoryExact
  <2> SUFFICES ASSUME Memory PROVE MemoryExact
    OBVIOUS
  <2>1. Cardinality(Elements(completedOrder)) = Len(completedOrder)
    BY Counted DEF Memory
  <2> QED BY <2>1 DEF Memory, MemoryExact
<1> QED BY <1>1, CoreInit, CoreStep, MemoryInit, MemoryStep, PTL DEF Spec
=============================================================================
