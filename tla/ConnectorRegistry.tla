-------------------------- MODULE ConnectorRegistry --------------------------
(***************************************************************************)
(* One device and the turns sent to it: the in-memory registry of          *)
(* connectors, src/server/lib/remote-local-connector-registry.ts, with its *)
(* callbacks as server.ts wires them, and the owner routes that call it.   *)
(*                                                                         *)
(* The composition point of the remote-local chat.  Of its neighbours it   *)
(* keeps what the registry sees of them: the relay is the set of active    *)
(* commands and the number of its inventory (RelayStateMachine has the     *)
(* rest), the receipt store answers each call in one step (TurnStore), the *)
(* event broker is the set of commands with an open stream.  JavaScript    *)
(* runs the code between two awaits as one step; an action here is such a  *)
(* step, and every await is a place where any other step may come between. *)
(*                                                                         *)
(* Left out: approvals, host extensions, the rate limiter (a turn may be   *)
(* refused at any time) and turn(), which the wired routes do not call.    *)
(***************************************************************************)
EXTENDS Naturals, FiniteSets

CONSTANTS
    Command,         \* turns of the owner, by their command id
    NoCommand,
    Session,         \* sessions the connector advertises
    MaxConnections,  \* bound: transports the device attaches, one after another
    MaxInventories,  \* bound: inventories proposed
    MaxFaults        \* bound: refused claims, failed store calls and sends

ASSUME BoundAssumption == {MaxConnections, MaxInventories, MaxFaults} \subseteq Nat
ASSUME NoCommandAssumption == NoCommand \notin Command

VARIABLES
    reg,       \* the registry, its relay, and the streams of the broker
    conns,     \* connections attached so far; they are numbered from 1
    handle,    \* the session handle a turn names: a session of an inventory
    turn,      \* where the POST of a turn is, and the connection it awaits
    events,    \* where the stream request of a turn is, likewise
    observed,  \* what the message handler of a connection is doing
    receipt,   \* the durable disposition of a turn
    sent,      \* turns whose frame reached a connector
    seen,      \* history: turns whose end was delivered on their stream
    orphaned,  \* history: turns left open by one of the named ways
    faults     \* faults so far

vars == <<reg, conns, handle, turn, events, observed, receipt, sent, seen,
          orphaned, faults>>

Connection == 1..MaxConnections
Terminal == {"completed", "interrupted", "indeterminate"}
Open == {"accepted", "in_progress"}
Idle == [pc |-> "idle", cmd |-> NoCommand, kind |-> "event", todo |-> {}]
Rest == [pc |-> "none", at |-> 0]

Init ==
    /\ reg = [entry    |-> 0,      \* entries: the connection of the device, 0 none
              inv      |-> 0,      \* inventories so far; handles are never reused
              bound    |-> FALSE,  \* that inventory has handles
              answered |-> FALSE,  \* it names the refresh under way
              active   |-> {},     \* the relay's commands
              staged   |-> {},     \* stagedTurns
              scopes   |-> {},     \* commandScopes
              subs     |-> {},     \* the broker's subscribers
              refresh  |-> "idle", \* inventoryRefreshing: "wait"
              aborting |-> {},     \* abort() calls under way
              settle   |-> [k \in Connection |-> {}],  \* detach: still to settle
              settling |-> [k \in Connection |-> {}]]  \* detach: being settled
    /\ conns = 0
    /\ handle = [c \in Command |-> <<>>]
    /\ turn = [c \in Command |-> Rest]
    /\ events = [c \in Command |-> Rest]
    /\ observed = [k \in Connection |-> Idle]
    /\ receipt = [c \in Command |-> "none"]
    /\ sent = {} /\ seen = {} /\ orphaned = {} /\ faults = 0

-----------------------------------------------------------------------------
\* The synchronous part of detach(), streams closed by onInvalidate included.
DetachedForgetsStaged(r) ==
    [r EXCEPT !.entry = 0, !.bound = FALSE, !.active = {},
              !.settle[r.entry] = r.active,
              !.subs = @ \ (r.active \cap r.scopes), !.staged = {},
              !.refresh = IF @ = "wait" THEN "idle" ELSE @]
DetachedKeepsStaged(r) ==
    [r EXCEPT !.entry = 0, !.bound = FALSE, !.active = {},
              !.settle[r.entry] = r.active,
              !.subs = @ \ (r.active \cap r.scopes),
              !.refresh = IF @ = "wait" THEN "idle" ELSE @]
Detached(r) ==
    [r EXCEPT !.entry = 0, !.bound = FALSE, !.active = {},
              !.settle[r.entry] = r.active,
              !.subs = @ \ (r.active \cap r.scopes),
              !.staged = {}, !.aborting = @ \cup r.staged,
              !.refresh = IF @ = "wait" THEN "idle" ELSE @]

\* removeAndClose(): nothing is left to do for a connection already detached.
Removed(r, k) == IF r.entry = k THEN Detached(r) ELSE r

Fault == faults < MaxFaults /\ faults' = faults + 1

\* live(): the claim of connection k is answered; it may be refused, or the
\* connection may have gone during the await.
Claimed(k, ok) ==
    \/ ok = (reg.entry = k) /\ UNCHANGED faults
    \/ ~ok /\ reg.entry = k /\ Fault
Lived(k, ok) == IF ok THEN reg ELSE Removed(reg, k)

\* A call of the receipt store.  It may fail before or after it has written.
Written(c, from, d) ==
    IF receipt[c] \in from THEN [receipt EXCEPT ![c] = d] ELSE receipt
Terminalize(c, d, ok) ==
    \/ /\ receipt' = Written(c, Open, d)
       /\ ok = (receipt'[c] = d)
       /\ UNCHANGED faults
    \/ /\ ~ok /\ Fault
       /\ receipt' \in {receipt, Written(c, Open, d)}
MarkInProgress(c, ok) ==
    \/ /\ receipt' = Written(c, {"accepted"}, "in_progress")
       /\ ok = (receipt'[c] = "in_progress")
       /\ UNCHANGED faults
    \/ /\ ~ok /\ Fault
       /\ receipt' \in {receipt, Written(c, {"accepted"}, "in_progress")}

\* The step gives up the turns S: no code is left that would end them.
GivesUp(S) == orphaned' = orphaned \cup {c \in S : receipt'[c] \in Open}

Bound(c) == reg.bound /\ handle[c][2] = reg.inv

-----------------------------------------------------------------------------
\* Transports.  The close callback runs detach(), whoever closes the socket: the
\* peer, a malformed frame, or an event of a command the relay has forgotten.
Attach ==
    /\ reg.entry = 0 /\ conns < MaxConnections
    /\ conns' = conns + 1
    /\ reg' = [reg EXCEPT !.entry = conns + 1]
    /\ UNCHANGED <<handle, turn, events, observed, receipt, sent, seen, orphaned, faults>>

Close ==
    /\ reg.entry # 0
    /\ reg' = Detached(reg)
    /\ UNCHANGED <<conns, handle, turn, events, observed, receipt, sent, seen,
                   orphaned, faults>>

\* The rest of detach(): settleInterrupted, one command at a time.  A settlement
\* that throws ends the loop.
SettleTake(k) ==
    /\ reg.settling[k] = {}
    /\ \E c \in reg.settle[k] :
         reg' = [reg EXCEPT !.settle[k] = @ \ {c}, !.scopes = @ \ {c},
                            !.settling[k] = {c} \cap reg.scopes]
    /\ UNCHANGED <<conns, handle, turn, events, observed, receipt, sent, seen,
                   orphaned, faults>>

SettleTerminal(k) ==
    /\ \E c \in reg.settling[k], ok \in BOOLEAN :
         /\ Terminalize(c, "indeterminate", ok)
         /\ reg' = [reg EXCEPT !.settling[k] = {},
                               !.settle[k] = IF ok THEN @ ELSE {}]
         /\ GivesUp(IF ok THEN {} ELSE {c} \cup (reg.settle[k] \cap reg.scopes))
    /\ UNCHANGED <<conns, handle, turn, events, observed, sent, seen>>

-----------------------------------------------------------------------------
\* POST of a turn.  The connection was live, a receipt is created (its answer may
\* be lost), and stageTurn awaits live() again.  A connection that comes between
\* refuses the turn like one that has gone: its handle is of another inventory.
Turn(c, pc, at) == turn' = [turn EXCEPT ![c] = [pc |-> pc, at |-> at]]

TurnAccept(c) ==
    /\ turn[c].pc = "none"
    /\ reg.bound
    /\ \E s \in Session : handle' = [handle EXCEPT ![c] = <<s, reg.inv>>]
    /\ receipt' = [receipt EXCEPT ![c] = "accepted"]
    /\ \/ Turn(c, "stage", reg.entry) /\ UNCHANGED <<orphaned, faults>>
       \/ Fault /\ Turn(c, "done", 0) /\ GivesUp({c})
    /\ UNCHANGED <<reg, conns, events, observed, sent, seen>>

Stageable(c) ==
    /\ reg.refresh # "wait"
    /\ Bound(c)
    /\ \A d \in reg.staged : handle[d] # handle[c]

TurnStaged(c) ==
    /\ turn[c].pc = "stage"
    /\ \E ok \in BOOLEAN :
         /\ Claimed(turn[c].at, ok)
         /\ \/ /\ ok /\ Stageable(c)
               /\ reg' = [reg EXCEPT !.staged = @ \cup {c}]
               /\ Turn(c, "done", 0)
            \/ /\ reg' = Lived(turn[c].at, ok)
               /\ Turn(c, "refused", 0)
    /\ UNCHANGED <<conns, handle, events, observed, receipt, sent, seen, orphaned>>

\* terminalize() and abort() ignore what the store answers.
TurnTerminalize(c) ==
    /\ turn[c].pc = "refused"
    /\ \E ok \in BOOLEAN : Terminalize(c, "interrupted", ok)
    /\ Turn(c, "done", 0)
    /\ GivesUp({c})
    /\ UNCHANGED <<reg, conns, handle, events, observed, sent, seen>>

Abort(c) ==
    /\ c \in reg.aborting
    /\ \E ok \in BOOLEAN : Terminalize(c, "interrupted", ok)
    /\ reg' = [reg EXCEPT !.aborting = @ \ {c}]
    /\ GivesUp({c})
    /\ UNCHANGED <<conns, handle, turn, events, observed, sent, seen>>

Expire(c) ==
    /\ c \in reg.staged
    /\ reg' = [reg EXCEPT !.staged = @ \ {c}, !.aborting = @ \cup {c}]
    /\ UNCHANGED <<conns, handle, turn, events, observed, receipt, sent, seen,
                   orphaned, faults>>

-----------------------------------------------------------------------------
\* The stream of a turn: subscribe, then startStagedTurn.  For a turn that has
\* ended everywhere it would open and close without effect.
Events(c, pc, at) == events' = [events EXCEPT ![c] = [pc |-> pc, at |-> at]]

EventsOpen(c) ==
    /\ receipt[c] \in Open \/ c \in reg.active
    /\ c \notin reg.subs
    /\ reg.entry # 0
    /\ \/ events[c].pc = "none" /\ Events(c, "live", reg.entry)
       \/ \* a second stream while the first call awaits, of a turn it has started
          events[c].pc \in {"mark", "abort"} /\ c \in reg.active /\ UNCHANGED events
    /\ reg' = [reg EXCEPT !.subs = @ \cup {c}]
    /\ UNCHANGED <<conns, handle, turn, observed, receipt, sent, seen, orphaned, faults>>

Admits(c) == Bound(c) /\ \A d \in reg.active : handle[d] # handle[c]

EventsStart(c) ==
    LET at == events[c].at IN
    /\ events[c].pc = "live"
    /\ \E ok \in BOOLEAN :
         /\ Claimed(at, ok)
         /\ \/ /\ ok /\ c \in reg.staged /\ Admits(c)
               /\ reg' = [reg EXCEPT !.staged = @ \ {c}, !.active = @ \cup {c}]
               /\ Events(c, "mark", at)
            \/ /\ ok /\ c \in reg.staged /\ ~Admits(c)
               /\ reg' = [reg EXCEPT !.staged = @ \ {c}, !.aborting = @ \cup {c},
                                     !.subs = @ \ {c}]
               /\ Events(c, "none", 0)
            \/ /\ ok /\ c \notin reg.staged /\ c \in reg.active
               /\ UNCHANGED reg
               /\ Events(c, "none", 0)
            \/ /\ ok => c \notin reg.staged \cup reg.active
               /\ reg' = [Lived(at, ok) EXCEPT !.subs = @ \ {c}]
               /\ Events(c, "none", 0)
    /\ UNCHANGED <<conns, handle, turn, observed, receipt, sent, seen, orphaned>>

\* beforeSend() has answered.  The frame is sent if the socket is still open,
\* also when a new inventory has made the relay forget the command meanwhile.
EventsSend(c) ==
    LET at == events[c].at IN
    /\ events[c].pc = "mark"
    /\ \E ok \in BOOLEAN :
         /\ MarkInProgress(c, ok)
         /\ \/ /\ ok /\ reg.entry = at
               /\ sent' = sent \cup {c}
               /\ reg' = [reg EXCEPT !.scopes = @ \cup {c}]
               /\ GivesUp({c} \ (reg.active \cup observed[at].todo))
               /\ Events(c, "none", 0)
            \/ /\ ok => reg.entry # at
               /\ reg' = Removed(reg, at)
               /\ Events(c, "abort", 0)
               /\ UNCHANGED <<sent, orphaned>>
    /\ UNCHANGED <<conns, handle, turn, observed, seen>>

\* The send itself fails on a socket that is still attached.
EventsSendFails(c) ==
    LET at == events[c].at IN
    /\ events[c].pc = "mark" /\ reg.entry = at
    /\ receipt[c] \in Open
    /\ receipt' = [receipt EXCEPT ![c] = "in_progress"]
    /\ Fault
    /\ reg' = Removed(reg, at)
    /\ Events(c, "abort", 0)
    /\ UNCHANGED <<conns, handle, turn, observed, sent, seen, orphaned>>

EventsAbort(c) ==
    /\ events[c].pc = "abort"
    /\ \E ok \in BOOLEAN : Terminalize(c, "interrupted", ok)
    /\ reg' = [reg EXCEPT !.subs = @ \ {c}]
    /\ Events(c, "none", 0)
    /\ GivesUp({c})
    /\ UNCHANGED <<conns, handle, turn, observed, sent, seen>>

\* The client goes away, or stops reading until the heartbeat gives it up.
StreamLost(c) ==
    /\ c \in reg.subs
    /\ reg' = [reg EXCEPT !.subs = @ \ {c}]
    /\ UNCHANGED <<conns, handle, turn, events, observed, receipt, sent, seen,
                   orphaned, faults>>

-----------------------------------------------------------------------------
\* Messages of the connector; those of one socket are handled one by one.
Observes(k, o) == observed' = [observed EXCEPT ![k] = o]
GoOn(k, pc) == Observes(k, [observed[k] EXCEPT !.pc = pc])

\* An event or a terminal receipt: taken by the relay and drained at once.
Message(c, kind) ==
    LET k == reg.entry IN
    /\ k # 0 /\ observed[k] = Idle
    /\ c \in reg.active \cap sent
    /\ reg' = [reg EXCEPT !.active = IF kind = "event" THEN @ ELSE @ \ {c}]
    /\ Observes(k, IF c \in reg.scopes
                   THEN [pc |-> "live", cmd |-> c, kind |-> kind, todo |-> {}]
                   ELSE Idle)
    /\ UNCHANGED <<conns, handle, turn, events, receipt, sent, seen, orphaned, faults>>

\* A terminal receipt that live() refuses is lost: the relay has forgotten the
\* command and detach() does not find it.
ObserveLive(k) ==
    LET o == observed[k] IN
    /\ o.pc = "live"
    /\ \E ok \in BOOLEAN :
         /\ Claimed(k, ok)
         /\ reg' = Lived(k, ok)
         /\ Observes(k, IF ok THEN [o EXCEPT !.pc = "events"] ELSE Idle)
         /\ UNCHANGED receipt
         /\ GivesUp(IF ok \/ o.kind = "event" THEN {} ELSE {o.cmd})
    /\ UNCHANGED <<conns, handle, turn, events, sent, seen>>

\* onEvents: another isLive, then the stream, if it is there.
DeliversAlways(c, ok) == ok
Delivers(c, ok) == ok /\ c \in reg.subs

\* What a delivered terminal frame leaves of its command.
Released(r, c) == [r EXCEPT !.subs = @ \ {c}, !.scopes = @ \ {c}]

ObserveEvents(k) ==
    LET o == observed[k] IN
    /\ o.pc = "events"
    /\ \E ok \in BOOLEAN :
         /\ Claimed(k, ok)
         /\ \/ /\ Delivers(o.cmd, ok) /\ o.kind = "event"
               /\ Observes(k, Idle)
               /\ UNCHANGED <<reg, seen>>
            \/ /\ Delivers(o.cmd, ok) /\ o.kind # "event"
               /\ reg' = Released(reg, o.cmd)
               /\ seen' = seen \cup ({o.cmd} \cap reg.subs)
               /\ GoOn(k, "terminal")
            \/ /\ ~Delivers(o.cmd, ok)
               /\ reg' = Lived(k, ok)
               /\ GoOn(k, "lost")
               /\ UNCHANGED seen
    /\ UNCHANGED <<conns, handle, turn, events, receipt, sent, orphaned>>

\* onEvents ends a turn nobody reads.
ObserveLost(k) ==
    LET o == observed[k] IN
    /\ o.pc = "lost"
    /\ \E ok \in BOOLEAN :
         /\ Terminalize(o.cmd, "interrupted", ok)
         /\ reg' = IF ok THEN Released(reg, o.cmd) ELSE Removed(reg, k)
         /\ GivesUp(IF ok \/ o.kind = "event" THEN {} ELSE {o.cmd})
    /\ Observes(k, Idle)
    /\ UNCHANGED <<conns, handle, turn, events, sent, seen>>

ObserveTerminal(k) ==
    LET o == observed[k] IN
    /\ o.pc = "terminal"
    /\ \E ok \in BOOLEAN :
         /\ Terminalize(o.cmd, o.kind, ok)
         /\ reg' = IF ok THEN reg ELSE Removed(reg, k)
    /\ GivesUp({o.cmd})
    /\ Observes(k, Idle)
    /\ UNCHANGED <<conns, handle, turn, events, sent, seen>>

-----------------------------------------------------------------------------
\* A new inventory ends every command of the relay; observeConnector settles
\* them one by one, and then the sessions are bound.  The next command of the loop
\* that has a route: onInvalidate closes its stream, with the event that the
\* session ended.  Commands without a route are passed over on the way.
TakeEnded(r, k, todo) ==
    \/ /\ todo \cap r.scopes = {}
       /\ reg' = r
       /\ Observes(k, [Idle EXCEPT !.pc = "bind"])
    \/ \E c \in todo \cap r.scopes, passed \in SUBSET (todo \ r.scopes) :
         /\ reg' = Released(r, c)
         /\ Observes(k, [Idle EXCEPT !.pc = "ended live", !.cmd = c,
                                     !.todo = todo \ (passed \cup {c})])

Inventory(answer) ==
    LET k == reg.entry IN
    /\ k # 0 /\ observed[k] = Idle
    /\ reg.inv < MaxInventories
    /\ answer => reg.refresh = "wait"
    /\ TakeEnded([reg EXCEPT !.inv = @ + 1, !.bound = FALSE, !.active = {},
                             !.answered = answer], k, reg.active)
    /\ UNCHANGED <<conns, handle, turn, events, receipt, sent, seen, orphaned, faults>>

EndedLive(k) ==
    /\ observed[k].pc = "ended live"
    /\ \E ok \in BOOLEAN :
         /\ Claimed(k, ok)
         /\ reg' = Lived(k, ok)
         /\ GoOn(k, IF ok THEN "ended events" ELSE "ended terminal")
    /\ UNCHANGED <<conns, handle, turn, events, receipt, sent, seen, orphaned>>

\* onEvents again: with the stream just closed, the turn is one nobody reads,
\* unless the owner has opened another stream meanwhile.
EndedEvents(k) ==
    LET c == observed[k].cmd IN
    /\ observed[k].pc = "ended events"
    /\ \E ok \in BOOLEAN :
         /\ Claimed(k, ok)
         /\ reg' = IF Delivers(c, ok) THEN [reg EXCEPT !.subs = @ \ {c}] ELSE Lived(k, ok)
         /\ GoOn(k, IF Delivers(c, ok) THEN "ended terminal" ELSE "ended lost")
    /\ UNCHANGED <<conns, handle, turn, events, receipt, sent, seen, orphaned>>

\* A step of the loop throws: the connector is removed and the rest is left.
EndedFails(k) ==
    /\ reg' = Removed(reg, k)
    /\ Observes(k, Idle)
    /\ GivesUp({observed[k].cmd} \cup (observed[k].todo \cap reg.scopes))

EndedLost(k) ==
    LET c == observed[k].cmd IN
    /\ observed[k].pc = "ended lost"
    /\ \E ok \in BOOLEAN :
         /\ Terminalize(c, "interrupted", ok)
         /\ \/ /\ ok
               /\ reg' = [reg EXCEPT !.subs = @ \ {c}]
               /\ GoOn(k, "ended terminal")
               /\ UNCHANGED orphaned
            \/ ~ok /\ EndedFails(k)
    /\ UNCHANGED <<conns, handle, turn, events, sent, seen>>

EndedTerminal(k) ==
    LET o == observed[k] IN
    /\ o.pc = "ended terminal"
    /\ \E ok \in BOOLEAN :
         /\ Terminalize(o.cmd, "indeterminate", ok)
         /\ \/ /\ ok
               /\ TakeEnded(reg, k, o.todo)
               /\ UNCHANGED orphaned
            \/ ~ok /\ EndedFails(k)
    /\ UNCHANGED <<conns, handle, turn, events, sent, seen>>

\* bindInventory sends the new handles and answers the refresh they are for.
BindInventory(k) ==
    /\ observed[k].pc = "bind"
    /\ \/ /\ reg.entry = k
          /\ reg' = [reg EXCEPT !.bound = TRUE,
                       !.refresh = IF @ = "wait" /\ reg.answered THEN "idle" ELSE @,
                       !.answered = FALSE]
          /\ UNCHANGED faults
       \/ reg.entry = k /\ Fault /\ reg' = Detached(reg)
       \/ reg.entry # k /\ UNCHANGED <<reg, faults>>
    /\ Observes(k, Idle)
    /\ UNCHANGED <<conns, handle, turn, events, receipt, sent, seen, orphaned>>

-----------------------------------------------------------------------------
\* refreshSessions: one at a time, and never while a turn depends on a handle.
BusyIfActive == reg.active # {}
Busy == reg.active # {} \/ reg.staged # {}

\* The request goes out in the step in which live() succeeded.  That it is refused,
\* here, when it cannot be sent, or in the recheck after the wait, does what
\* Close does.
RefreshSend ==
    /\ reg.entry # 0 /\ reg.refresh = "idle" /\ ~Busy
    /\ reg' = [reg EXCEPT !.refresh = "wait", !.answered = FALSE]
    /\ UNCHANGED <<conns, handle, turn, events, observed, receipt, sent, seen,
                   orphaned, faults>>

RefreshTimeout ==
    /\ reg.refresh = "wait"
    /\ reg' = [reg EXCEPT !.refresh = "idle"]
    /\ UNCHANGED <<conns, handle, turn, events, observed, receipt, sent, seen,
                   orphaned, faults>>

-----------------------------------------------------------------------------
\* No step of the server's own is under way for command c.
Quiet(c) ==
    /\ turn[c].pc \in {"none", "done"}
    /\ events[c].pc = "none"
    /\ c \notin reg.aborting
    /\ \A k \in Connection : /\ c \notin reg.settle[k] \cup reg.settling[k]
                             /\ c # observed[k].cmd /\ c \notin observed[k].todo

Done ==
    /\ reg.entry = 0 /\ conns = MaxConnections /\ reg.refresh = "idle"
    /\ \A k \in Connection : observed[k] = Idle
    /\ \A c \in Command : Quiet(c)
    /\ UNCHANGED vars

Next ==
    \/ Attach \/ Close \/ RefreshSend \/ RefreshTimeout
    \/ \E answer \in BOOLEAN : Inventory(answer)
    \/ \E c \in Command :
         \/ TurnAccept(c) \/ TurnStaged(c) \/ TurnTerminalize(c)
         \/ Abort(c) \/ Expire(c) \/ StreamLost(c)
         \/ EventsOpen(c) \/ EventsStart(c) \/ EventsSend(c) \/ EventsSendFails(c)
         \/ EventsAbort(c)
         \/ \E kind \in Terminal \cup {"event"} : Message(c, kind)
    \/ \E k \in Connection :
         \/ SettleTake(k) \/ SettleTerminal(k)
         \/ ObserveLive(k) \/ ObserveEvents(k) \/ ObserveLost(k) \/ ObserveTerminal(k)
         \/ EndedLive(k) \/ EndedEvents(k) \/ EndedLost(k)
         \/ EndedTerminal(k) \/ BindInventory(k)
    \/ Done

Spec == Init /\ [][Next]_vars

-----------------------------------------------------------------------------
\* Every variable has its type, and nothing is staged, running or refreshed on a
\* connection that detach() has removed.
TypeOK ==
    /\ reg.entry \in 0..conns /\ conns \in 0..MaxConnections
    /\ reg.inv \in 0..MaxInventories
    /\ {reg.bound, reg.answered} \subseteq BOOLEAN
    /\ UNION {reg.active, reg.staged, reg.scopes, reg.subs, reg.aborting} \subseteq Command
    /\ reg.refresh \in {"idle", "wait"}
    /\ \A k \in Connection :
         /\ reg.settle[k] \cup reg.settling[k] \cup observed[k].todo \subseteq Command
         /\ Cardinality(reg.settling[k]) <= 1
         /\ observed[k].cmd \in Command \cup {NoCommand}
         /\ observed[k].kind \in Terminal \cup {"event"}
    /\ \A c \in Command : /\ turn[c].at \in 0..conns /\ events[c].at \in 0..conns
                          /\ receipt[c] \in Terminal \cup Open \cup {"none"}
    /\ sent \cup seen \cup orphaned \subseteq Command
    /\ faults \in 0..MaxFaults
    /\ reg.entry = 0 => reg.active = {} /\ reg.staged = {} /\ reg.refresh # "wait"

\* commandScopes does not grow with the turns served: a command that has left the
\* relay and is not being settled is no longer in it, except one that was given
\* up, or, at one per fault, one whose receipt was written by a call that failed.
ScopesRouted ==
    Cardinality({c \in reg.scopes \ (reg.active \cup orphaned) : Quiet(c)}) <= faults

\* A turn whose receipt is open is never forgotten.  When no step of the server
\* is under way for it, it is staged or running on the attached connector with
\* its route known (so that its end, its stream's loss, the staging timeout or
\* detach() will settle it), or it was given up in one of four ways: its
\* terminal receipt was drained and live() then failed (line 142); a new
\* inventory overtook beforeSend() (line 275); an earlier command's settlement
\* threw and ended the loop it was in (lines 385-395); or the store failed.
\* Conversely a turn that was settled is not routed any more.
OpenAccounted ==
    /\ \A c \in Command :
         receipt[c] \in Open /\ Quiet(c) =>
             \/ c \in reg.staged
             \/ c \in reg.active \cap reg.scopes
             \/ c \in orphaned
    /\ ScopesRouted

\* While a refresh waits for the new inventory, which will end every command and
\* make every handle void, no turn is staged or running (line 302).
RefreshAlone == reg.refresh = "wait" => reg.active = {} /\ reg.staged = {}

\* A receipt says completed only if the owner's stream was given the end of the
\* turn: delivery comes before settlement (lines 143-151).
CompletedSeen == \A c \in Command : receipt[c] = "completed" => c \in seen

\* A turn ended by a new inventory is settled as indeterminate: its receipt is
\* still open when observeConnector settles it so.
SessionEndSettles ==
    \A k \in Connection :
        observed[k].pc = "ended terminal" => receipt[observed[k].cmd] \in Open
=============================================================================
