------------------------- MODULE RelayStateMachine -------------------------
(***************************************************************************)
(* The relay's state for one admitted connector socket: the class          *)
(* RemoteLocalRelayStateMachine of                                         *)
(* src/server/lib/remote-local-relay-state-machine.ts.                     *)
(*                                                                         *)
(* The connector advertises sessions by reference; the relay binds each    *)
(* reference to a handle; a turn is a command on a bound handle; the       *)
(* connector answers with numbered events and one terminal receipt, which  *)
(* wait in the command's queue until drained.  Every method runs to its    *)
(* end without an await, so each is one action.  The connector may send    *)
(* any frame at any time; a frame's text is left out, its size kept.       *)
(* Approval decisions and cancels of the owner are forwarded or refused    *)
(* and change nothing, so they have no action.                             *)
(*                                                                         *)
(* accepted, settled and delivered are history variables.                  *)
(***************************************************************************)
EXTENDS Naturals, Sequences, FiniteSets

CONSTANTS
    Ref,            \* connector references
    Handle,         \* relay session handles
    Command,        \* command ids
    None,           \* no map entry
    Size,           \* sizes of connector frames
    TerminalSize,   \* size of the receipt the relay makes itself
    MaxBrainInFlight, MaxQueuedEvents, MaxQueuedBytes, MaxCompletedCommands,
    MaxAccepts,     \* bound: acceptances of one command
    MaxProposals,   \* bound: inventory proposals
    MaxEvents       \* bound: events of one acceptance

ASSUME NoneAssumption == None \notin Ref \cup Handle \cup Command
ASSUME LimitAssumption ==
    /\ Size \subseteq Nat
    /\ TerminalSize \in Nat
    /\ MaxQueuedBytes \in Nat
    /\ \A s \in Size \cup {TerminalSize} : s <= MaxQueuedBytes
    /\ MaxQueuedEvents \in Nat \ {0}
    /\ MaxBrainInFlight \in Nat \ {0}
    /\ MaxCompletedCommands \in Nat
    /\ MaxAccepts \in Nat /\ MaxProposals \in Nat /\ MaxEvents \in Nat

VARIABLES
    advertised,          \* the references of the last proposal
    handles,             \* handle -> reference
    handleByReference,   \* reference -> handle
    handleOf,            \* commands: command -> its handle
    events,              \* commands: its queue
    eventBytes,          \* commands: bytes in its queue
    nextSequence,        \* commands: number of the next event
    terminal,            \* commands: those with a terminal receipt
    commandByHandle,     \* handle -> command
    completedOrder, completed,   \* the last completed commands
    interrupted,         \* interruption records not yet released, by disposition
    inventoryRevision,
    closed,
    accepted,            \* history: times the command was accepted
    settled,             \* history: times its end was reported to the caller
    delivered            \* history: events drained since it was accepted

bindings == <<advertised, handles, handleByReference, inventoryRevision>>
commands ==
    <<handleOf, events, eventBytes, nextSequence, terminal, commandByHandle>>
memory == <<completedOrder, completed>>
history == <<accepted, settled, delivered>>
vars == <<bindings, commands, memory, interrupted, closed, history>>

Disposition == {"session_ended", "post_ingress_indeterminate"}

\* Queued frames: numbered events, approvals, the connector's receipt, and
\* the receipt the relay makes when a command floods its queue.
Receipts == {"receipt", "flood"}
Frame == [kind : {"event", "approval"} \cup Receipts, sequence : Nat]
EventFrame(n) == [kind |-> "event", sequence |-> n]
ApprovalFrame == [kind |-> "approval", sequence |-> 0]
ReceiptFrame(kind) == [kind |-> kind, sequence |-> 0]

Active == {c \in Command : handleOf[c] # None}
Elements(s) == {s[i] : i \in 1..Len(s)}

Init ==
    /\ advertised = {}
    /\ handles = [h \in Handle |-> None]
    /\ handleByReference = [r \in Ref |-> None]
    /\ handleOf = [c \in Command |-> None]
    /\ events = [c \in Command |-> <<>>]
    /\ eventBytes = [c \in Command |-> 0]
    /\ nextSequence = [c \in Command |-> 0]
    /\ terminal = {}
    /\ commandByHandle = [h \in Handle |-> None]
    /\ completedOrder = <<>> /\ completed = {}
    /\ interrupted = [c \in Command |-> [d \in Disposition |-> 0]]
    /\ inventoryRevision = 0
    /\ closed = FALSE
    /\ accepted = [c \in Command |-> 0]
    /\ settled = [c \in Command |-> 0]
    /\ delivered = [c \in Command |-> 0]

-----------------------------------------------------------------------------
(* Ending commands                                                         *)

\* A mutant: the interruption evidence is taken only of unfinished commands.
EndUnfinishedCommands(d) ==
    /\ interrupted' =
           [c \in Command |->
               IF c \in Active \ terminal
               THEN [interrupted[c] EXCEPT ![d] = interrupted[c][d] + 1]
               ELSE interrupted[c]]
    /\ handleOf' = [c \in Command |-> None]
    /\ events' = [c \in Command |-> <<>>]
    /\ eventBytes' = [c \in Command |-> 0]
    /\ nextSequence' = [c \in Command |-> 0]
    /\ terminal' = {}
    /\ commandByHandle' = [h \in Handle |-> None]
    /\ handleByReference' = [r \in Ref |-> None]

\* A mutant: the reverse map of the handles is not cleared.
EndCommandsKeepReferences(d) ==
    /\ interrupted' =
           [c \in Command |->
               IF c \in Active
               THEN [interrupted[c] EXCEPT ![d] = interrupted[c][d] + 1]
               ELSE interrupted[c]]
    /\ handleOf' = [c \in Command |-> None]
    /\ events' = [c \in Command |-> <<>>]
    /\ eventBytes' = [c \in Command |-> 0]
    /\ nextSequence' = [c \in Command |-> 0]
    /\ terminal' = {}
    /\ commandByHandle' = [h \in Handle |-> None]
    /\ UNCHANGED handleByReference

\* Every command becomes an interruption record; the maps are cleared.
EndCommands(d) ==
    /\ interrupted' =
           [c \in Command |->
               IF c \in Active
               THEN [interrupted[c] EXCEPT ![d] = interrupted[c][d] + 1]
               ELSE interrupted[c]]
    /\ handleOf' = [c \in Command |-> None]
    /\ events' = [c \in Command |-> <<>>]
    /\ eventBytes' = [c \in Command |-> 0]
    /\ nextSequence' = [c \in Command |-> 0]
    /\ terminal' = {}
    /\ commandByHandle' = [h \in Handle |-> None]
    /\ handleByReference' = [r \in Ref |-> None]

\* sessionEnded(), and close() of a frame that breaks the protocol.
SessionEnded ==
    /\ closed' = TRUE
    /\ advertised' = {}
    /\ handles' = [h \in Handle |-> None]
    /\ EndCommands("post_ingress_indeterminate")
    /\ UNCHANGED <<inventoryRevision, memory, history>>

\* A mutant: an evicted command leaves the queue but not the set.
RememberForever(order) ==
    LET all == completedOrder \o order
        excess == IF Len(all) > MaxCompletedCommands
                  THEN Len(all) - MaxCompletedCommands ELSE 0
    IN  /\ completedOrder' = SubSeq(all, excess + 1, Len(all))
        /\ completed' = completed \cup Elements(order)

\* rememberCompleted: the evicted head of a full memory is forgotten.
RememberCompleted(order) ==
    LET all == completedOrder \o order
        excess == IF Len(all) > MaxCompletedCommands
                  THEN Len(all) - MaxCompletedCommands ELSE 0
        evicted == {all[i] : i \in 1..excess}
    IN  /\ completedOrder' = SubSeq(all, excess + 1, Len(all))
        /\ completed' = (completed \cup Elements(order)) \ evicted

\* commands.delete and commandByHandle.delete for the commands in C.
Forget(C) ==
    /\ handleOf' = [c \in Command |-> IF c \in C THEN None ELSE handleOf[c]]
    /\ events' = [c \in Command |-> IF c \in C THEN <<>> ELSE events[c]]
    /\ eventBytes' = [c \in Command |-> IF c \in C THEN 0 ELSE eventBytes[c]]
    /\ nextSequence' =
           [c \in Command |-> IF c \in C THEN 0 ELSE nextSequence[c]]
    /\ terminal' = terminal \ C
    /\ commandByHandle' =
           [h \in Handle |-> IF commandByHandle[h] \in C THEN None
                             ELSE commandByHandle[h]]

-----------------------------------------------------------------------------
(* Frames from the connector: receiveConnector                             *)

\* An inventory proposal ends what the last inventory started.
Propose(sessions) ==
    /\ ~closed
    /\ inventoryRevision < MaxProposals
    /\ advertised' = sessions
    /\ handles' = [h \in Handle |-> None]
    /\ EndCommands("session_ended")
    /\ inventoryRevision' = inventoryRevision + 1
    /\ UNCHANGED <<memory, closed, history>>

\* An unparsable frame, a foreign fence or a type the direction has not.
InvalidFrame == SessionEnded

\* A mutant: one frame too many.
OverflowsLate(c, size) ==
    \/ Len(events[c]) > MaxQueuedEvents
    \/ eventBytes[c] + size > MaxQueuedBytes

\* The queue has no room for a frame of this size.
Overflows(c, size) ==
    \/ Len(events[c]) >= MaxQueuedEvents
    \/ eventBytes[c] + size > MaxQueuedBytes

\* A mutant: the receipt of a flood joins the queue, the flood stays in it.
FloodAppended(c) ==
    /\ events' = [events EXCEPT ![c] = Append(events[c], ReceiptFrame("flood"))]
    /\ eventBytes' = [eventBytes EXCEPT ![c] = eventBytes[c] + TerminalSize]
    /\ terminal' = terminal \cup {c}
    /\ UNCHANGED nextSequence

\* interruptFlood: one receipt made by the relay replaces the whole queue.
InterruptFlood(c) ==
    /\ events' = [events EXCEPT ![c] = <<ReceiptFrame("flood")>>]
    /\ eventBytes' = [eventBytes EXCEPT ![c] = TerminalSize]
    /\ terminal' = terminal \cup {c}
    /\ UNCHANGED nextSequence

Enqueue(c, frame, size) ==
    /\ events' = [events EXCEPT ![c] = Append(events[c], frame)]
    /\ eventBytes' = [eventBytes EXCEPT ![c] = eventBytes[c] + size]

\* event.text, event.tool and event.progress.
Event(c, h, sequence, size) ==
    /\ ~closed
    /\ \/ /\ handleOf[c] # h \/ c \in terminal \/ sequence # nextSequence[c]
          /\ SessionEnded
       \/ /\ handleOf[c] = h /\ c \notin terminal /\ sequence = nextSequence[c]
          /\ \/ Overflows(c, size) /\ InterruptFlood(c)
             \/ /\ ~Overflows(c, size)
                /\ nextSequence[c] < MaxEvents
                /\ Enqueue(c, EventFrame(sequence), size)
                /\ nextSequence' =
                       [nextSequence EXCEPT ![c] = nextSequence[c] + 1]
                /\ UNCHANGED terminal
          /\ UNCHANGED <<bindings, handleOf, commandByHandle, memory,
                         interrupted, closed, history>>

\* approval.request and approval.resolved: found by the session's handle.
Approval(h, size) ==
    LET c == commandByHandle[h]
        live == c # None /\ c \notin terminal
    IN  /\ ~closed
        /\ \/ ~live /\ SessionEnded
           \/ /\ live
              /\ \/ Overflows(c, size) /\ InterruptFlood(c)
                 \/ /\ ~Overflows(c, size)
                    /\ Enqueue(c, ApprovalFrame, size)
                    /\ UNCHANGED <<nextSequence, terminal>>
              /\ UNCHANGED <<bindings, handleOf, commandByHandle, memory,
                             interrupted, closed, history>>

\* terminal.receipt: it always fits, if need be in place of the queue.
Terminal(c, h, size) ==
    /\ ~closed
    /\ \/ /\ handleOf[c] # h \/ c \in terminal
          /\ SessionEnded
       \/ /\ handleOf[c] = h /\ c \notin terminal
          /\ IF Overflows(c, size)
             THEN /\ events' = [events EXCEPT ![c] = <<ReceiptFrame("receipt")>>]
                  /\ eventBytes' = [eventBytes EXCEPT ![c] = size]
             ELSE Enqueue(c, ReceiptFrame("receipt"), size)
          /\ terminal' = terminal \cup {c}
          /\ UNCHANGED <<bindings, handleOf, nextSequence, commandByHandle,
                         memory, interrupted, closed, history>>

-----------------------------------------------------------------------------
(* Frames to the connector: receiveRelay                                   *)

\* The parser admits no reference and no handle twice in one frame.
Binding ==
    {b \in [Handle -> Ref \cup {None}] :
        \A h, k \in Handle : b[h] = b[k] /\ b[h] # None => h = k}
Bound(b) == {h \in Handle : b[h] # None}

\* session.inventory.bind.
Bind(b) ==
    LET fits == \A h \in Bound(b) :
                    /\ b[h] \in advertised
                    /\ handles[h] = None
                    /\ handleByReference[b[h]] = None
    IN  /\ ~closed
        /\ \/ ~fits /\ SessionEnded
           \/ /\ fits
              /\ handles' =
                     [h \in Handle |-> IF b[h] # None THEN b[h] ELSE handles[h]]
              /\ handleByReference' =
                     [r \in Ref |-> IF \E h \in Handle : b[h] = r
                                    THEN CHOOSE h \in Handle : b[h] = r
                                    ELSE handleByReference[r]]
              /\ UNCHANGED <<advertised, inventoryRevision, commands, memory,
                             interrupted, closed, history>>

\* turn.request; one that is refused changes nothing and closes nothing.
TurnRequest(c, h) ==
    /\ ~closed
    /\ handles[h] # None
    /\ c \notin Active \cup completed
    /\ commandByHandle[h] = None
    /\ Cardinality(Active) < MaxBrainInFlight
    /\ accepted[c] < MaxAccepts
    /\ handleOf' = [handleOf EXCEPT ![c] = h]
    /\ commandByHandle' = [commandByHandle EXCEPT ![h] = c]
    /\ accepted' = [accepted EXCEPT ![c] = accepted[c] + 1]
    /\ delivered' = [delivered EXCEPT ![c] = 0]
    /\ UNCHANGED <<bindings, events, eventBytes, nextSequence, terminal,
                   memory, interrupted, closed, settled>>

-----------------------------------------------------------------------------
(* What the socket's owner takes out                                       *)

\* drain(commandId): the queue is handed over; an ended command is forgotten.
Drain(c) ==
    /\ c \in Active
    /\ \/ /\ c \notin terminal
          /\ delivered' = [delivered EXCEPT ![c] = nextSequence[c]]
          /\ events' = [events EXCEPT ![c] = <<>>]
          /\ eventBytes' = [eventBytes EXCEPT ![c] = 0]
          /\ UNCHANGED <<handleOf, nextSequence, terminal, commandByHandle,
                         memory, settled>>
       \/ /\ c \in terminal
          /\ Forget({c})
          /\ RememberCompleted(<<c>>)
          /\ settled' = [settled EXCEPT ![c] = settled[c] + 1]
          /\ UNCHANGED delivered
    /\ UNCHANGED <<bindings, interrupted, closed, accepted>>

Ended == {c \in terminal : \E f \in Elements(events[c]) : f.kind \in Receipts}

Orders(C) ==
    {s \in [1..Cardinality(C) -> C] : Elements(s) = C}

\* releaseTerminalCommands: ended commands leave with their disposition only.
ReleaseTerminalCommands ==
    /\ Ended # {}
    /\ Forget(Ended)
    /\ \E order \in Orders(Ended) : RememberCompleted(order)
    /\ settled' = [c \in Command |-> IF c \in Ended THEN settled[c] + 1
                                     ELSE settled[c]]
    /\ UNCHANGED <<bindings, interrupted, closed, accepted, delivered>>

Pending(c) == interrupted[c]["session_ended"]
              + interrupted[c]["post_ingress_indeterminate"]

\* releaseInterruptedCommands: the records are handed over once.
ReleaseInterruptedCommands ==
    /\ \E c \in Command : Pending(c) > 0
    /\ interrupted' = [c \in Command |-> [d \in Disposition |-> 0]]
    /\ settled' = [c \in Command |-> settled[c] + Pending(c)]
    /\ UNCHANGED <<bindings, commands, memory, closed, accepted, delivered>>

-----------------------------------------------------------------------------
ReceiveConnector ==
    \/ \E sessions \in SUBSET Ref : Propose(sessions)
    \/ \E c \in Command, h \in Handle, size \in Size :
           \/ \E sequence \in 0..MaxEvents : Event(c, h, sequence, size)
           \/ Terminal(c, h, size)
    \/ \E h \in Handle, size \in Size : Approval(h, size)
    \/ InvalidFrame

ReceiveRelay ==
    \/ \E b \in Binding : Bind(b)
    \/ \E c \in Command, h \in Handle : TurnRequest(c, h)

Release ==
    \/ \E c \in Command : Drain(c)
    \/ ReleaseTerminalCommands
    \/ ReleaseInterruptedCommands

Next == ReceiveConnector \/ ReceiveRelay \/ Release \/ SessionEnded

Spec == Init /\ [][Next]_vars

-----------------------------------------------------------------------------
\* Type invariant.
TypeOK ==
    /\ advertised \subseteq Ref
    /\ handles \in [Handle -> Ref \cup {None}]
    /\ handleByReference \in [Ref -> Handle \cup {None}]
    /\ handleOf \in [Command -> Handle \cup {None}]
    /\ events \in [Command -> Seq(Frame)]
    /\ eventBytes \in [Command -> 0..MaxQueuedBytes]
    /\ nextSequence \in [Command -> Nat]
    /\ terminal \subseteq Command
    /\ commandByHandle \in [Handle -> Command \cup {None}]
    /\ interrupted \in [Command -> [Disposition -> Nat]]
    /\ inventoryRevision \in Nat
    /\ closed \in BOOLEAN
    /\ accepted \in [Command -> Nat]
    /\ settled \in [Command -> Nat]
    /\ delivered \in [Command -> Nat]

\* The maps of the class agree at every step: a handle is bound to an
\* advertised reference and back, a command runs on a bound handle, and a
\* handle runs the one command that names it.
MapsAgree ==
    /\ \A h \in Handle : handles[h] # None =>
           handles[h] \in advertised /\ handleByReference[handles[h]] = h
    /\ \A r \in Ref : handleByReference[r] # None =>
           handles[handleByReference[r]] = r
    /\ \A c \in Command : handleOf[c] # None =>
           handles[handleOf[c]] # None /\ commandByHandle[handleOf[c]] = c
    /\ \A h \in Handle : commandByHandle[h] # None =>
           handleOf[commandByHandle[h]] = h

\* Every acceptance of a turn is reported ended exactly once: by a drained
\* or released receipt, or by an interruption record, whatever the connector
\* sends, however often the inventory is replaced, and on close.
SettledOnce ==
    \A c \in Command :
        accepted[c] = settled[c] + Pending(c) + (IF c \in Active THEN 1 ELSE 0)

\* A command marked terminal still holds the receipt that says how it ended,
\* and it is the last frame of its queue: releaseTerminalCommands and the
\* registry, which look for it there, never skip an ended command.
ReceiptKept ==
    \A c \in Command :
        IF c \in terminal
        THEN /\ c \in Active
             /\ Len(events[c]) > 0
             /\ \A i \in 1..Len(events[c]) :
                    events[c][i].kind \in Receipts <=> i = Len(events[c])
        ELSE \A i \in 1..Len(events[c]) : events[c][i].kind \notin Receipts

\* The queue of a command stays within its limits, and what it holds is the
\* stream the connector numbered: every event since the last drain, in order,
\* unless the queue was replaced by a receipt alone.
StreamIntact ==
    \A c \in Active :
        LET q == events[c]
        IN  /\ Len(q) <= MaxQueuedEvents
            /\ \A i, j \in 1..Len(q) :
                   i < j /\ q[i].kind = "event" /\ q[j].kind = "event" =>
                       q[i].sequence < q[j].sequence
            /\ \/ c \in terminal /\ Len(q) = 1
               \/ \A n \in delivered[c]..(nextSequence[c] - 1) :
                      \E i \in 1..Len(q) : q[i] = EventFrame(n)

\* The memory of completed commands is the last ones to complete, each once,
\* and no running command is in it.
MemoryExact ==
    /\ Len(completedOrder) <= MaxCompletedCommands
    /\ Elements(completedOrder) = completed
    /\ Cardinality(completed) = Len(completedOrder)
    /\ completed \cap Active = {}
=============================================================================
