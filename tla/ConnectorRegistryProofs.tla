---------------------- MODULE ConnectorRegistryProofs ----------------------
(***************************************************************************)
(* Proofs about ConnectorRegistry for any set of turns and sessions and    *)
(* any number of connections, inventories and faults.                      *)
(***************************************************************************)
EXTENDS ConnectorRegistry, FiniteSetTheorems, TLAPS

Reg ==
    [entry : 0..MaxConnections, inv : 0..MaxInventories, bound : BOOLEAN, answered : BOOLEAN,
     active : SUBSET Command, staged : SUBSET Command, scopes : SUBSET Command,
     subs : SUBSET Command, refresh : {"idle", "wait"}, aborting : SUBSET Command,
     settle : [Connection -> SUBSET Command], settling : [Connection -> SUBSET Command]]

\* What a message handler does after a new inventory, and at all.
Ended == {"ended live", "ended events", "ended lost", "ended terminal"}
Doing == {"idle", "live", "events", "lost", "terminal", "bind"} \cup Ended
Kind == Terminal \cup {"event"}
Observation ==
    [pc : Doing, cmd : Command \cup {NoCommand}, kind : Kind, todo : SUBSET Command]

Post == [pc : {"none", "stage", "refused", "done"}, at : 0..MaxConnections]
Stream == [pc : {"none", "live", "mark", "abort"}, at : 0..MaxConnections]
Disposition == Terminal \cup Open \cup {"none"}

Typed ==
    /\ reg \in Reg /\ conns \in 0..MaxConnections /\ faults \in 0..MaxFaults
    /\ turn \in [Command -> Post] /\ events \in [Command -> Stream]
    /\ observed \in [Connection -> Observation]
    /\ receipt \in [Command -> Disposition]
    /\ sent \subseteq Command /\ seen \subseteq Command /\ orphaned \subseteq Command

\* The attached connection is the last one, and has settled nothing yet.
Attached ==
    /\ reg.entry \in {0, conns}
    /\ reg.bound => reg.entry # 0
    /\ reg.entry = 0 => reg.active = {} /\ reg.staged = {} /\ reg.refresh # "wait"
    /\ \A k \in Connection :
         /\ k > conns \/ k = reg.entry => reg.settle[k] = {}
         /\ \A a, b \in reg.settling[k] : a = b

\* A turn is posted, then staged, and started or aborted once.
Life(c) ==
    /\ turn[c].at \in 0..conns /\ events[c].at \in 0..conns
    /\ turn[c].pc = "stage" => turn[c].at # 0
    /\ events[c].pc \in {"live", "mark"} => events[c].at # 0
    /\ turn[c].pc # "done" => c \notin reg.staged \cup reg.aborting \cup sent
    /\ c \in reg.staged => c \notin reg.aborting \cup sent
    /\ c \in reg.aborting => c \notin sent
    /\ (turn[c].pc # "done" \/ c \in reg.staged \cup reg.aborting \cup sent) =>
           events[c].pc \in {"none", "live"}

\* The step under way at a connection ends the turn it is at.
Ending(o) == o.pc \in Ended \cup {"terminal"} \/ (o.pc \in Doing \ {"idle", "bind"} /\ o.kind # "event")

\* What a connection does concerns turns that were sent; those being settled
\* have no route any more.
Handler(k) ==
    LET o == observed[k] IN
    /\ o.pc \notin Ended => o.todo = {}
    /\ o.pc \notin {"idle", "bind"} => o.cmd \in sent
    /\ o.pc \in Ended \cup {"terminal"} => o.cmd \notin reg.scopes
    /\ o.pc = "terminal" => o.kind # "event" /\ o.cmd \in seen
    /\ reg.settling[k] \subseteq sent \ reg.scopes

\* Routes are of turns that were sent; one of a settled turn has cost a fault.
Settled == {c \in reg.scopes : receipt[c] \notin Open}
Routes ==
    /\ reg.scopes \subseteq sent /\ IsFiniteSet(reg.scopes)
    /\ Cardinality(Settled) <= faults

\* A routed turn is running, or waits to be settled.
Routed(c) ==
    /\ c \in reg.scopes
    /\ \/ c \in reg.active
       \/ \E k \in Connection : c \in reg.settle[k] \cup observed[k].todo

\* A step under way will settle, route or give up the turn.
Tended(c) ==
    \/ turn[c].pc \in {"stage", "refused"}
    \/ c \in reg.staged \cup reg.aborting
    \/ events[c].pc \in {"mark", "abort"}
    \/ \E k \in Connection :
         c \in reg.settling[k] \/ (observed[k].cmd = c /\ Ending(observed[k]))

Accounted(c) == receipt[c] \in Open => Routed(c) \/ Tended(c) \/ c \in orphaned

IInv ==
    /\ Typed /\ Attached /\ RefreshAlone /\ Routes /\ CompletedSeen
    /\ \A c \in Command : Life(c) /\ Accounted(c)
    /\ \A k \in Connection : Handler(k)

(***************************************************************************)
(* What a step may leave to the turns and connections it is not about.     *)
(***************************************************************************)
\* The registry's part that matters to them stays.
Same ==
    /\ reg' \in Reg
    /\ reg'.entry = reg.entry /\ reg'.bound = reg.bound /\ reg'.active = reg.active
    /\ reg'.staged = reg.staged /\ reg'.aborting = reg.aborting
    /\ reg'.scopes = reg.scopes /\ reg'.refresh = reg.refresh
    /\ reg'.settle = reg.settle /\ reg'.settling = reg.settling

\* The connection is detached: its turns are to be settled, staged ones aborted.
Drops ==
    /\ reg' \in Reg /\ reg.entry \in Connection
    /\ reg'.entry = 0 /\ reg'.bound = FALSE /\ reg'.active = {} /\ reg'.staged = {}
    /\ reg'.aborting = reg.aborting \cup reg.staged
    /\ reg'.scopes = reg.scopes /\ reg'.refresh = "idle"
    /\ reg'.settle = [reg.settle EXCEPT ![reg.entry] = reg.active]
    /\ reg'.settling = reg.settling

LEMMA ConnectionIs ==
    ASSUME IInv
    PROVE  /\ reg.entry # 0 => reg.entry \in Connection /\ reg.entry = conns
           /\ conns \in Nat /\ MaxConnections \in Nat
           /\ \A k \in Connection : k \in Nat \ {0}
  BY BoundAssumption DEF IInv, Typed, Attached, Connection

LEMMA DetachedType ==
    ASSUME IInv, NEW b \in SUBSET Command, NEW t \in [Connection -> SUBSET Command]
    PROVE  [entry |-> 0, inv |-> reg.inv, bound |-> FALSE, answered |-> reg.answered,
            active |-> {}, staged |-> {}, scopes |-> reg.scopes, subs |-> b,
            refresh |-> "idle", aborting |-> reg.aborting \cup reg.staged,
            settle |-> t, settling |-> reg.settling] \in Reg
<1>1. /\ reg.inv \in 0..MaxInventories /\ reg.answered \in BOOLEAN
      /\ reg.scopes \in SUBSET Command /\ reg.aborting \cup reg.staged \in SUBSET Command
      /\ reg.settling \in [Connection -> SUBSET Command]
    BY DEF IInv, Typed, Reg
<1>2. 0 \in 0..MaxConnections
    BY ConnectionIs
<1> QED
    BY <1>1, <1>2 DEF Reg

LEMMA DetachedDrops ==
    ASSUME IInv, reg.entry # 0, NEW c,
           reg' = Detached(reg) \/ reg' = [Detached(reg) EXCEPT !.subs = @ \ {c}]
    PROVE  Drops
<1>1. PICK r : r = Detached(reg)
    OBVIOUS
<1>2. reg.entry \in Connection /\ 0 \in 0..MaxConnections
    BY ConnectionIs
<1>3. PICK s \in [Connection -> SUBSET Command] : s = [reg.settle EXCEPT ![reg.entry] = reg.active]
    BY <1>2 DEF IInv, Typed, Reg
<1>4. PICK b \in SUBSET Command : b = r.subs
    BY <1>1 DEF IInv, Typed, Reg, Detached
<1>5. r.refresh = "idle"
    BY <1>1 DEF IInv, Typed, Reg, Detached
<1>6. r = [entry |-> 0, inv |-> reg.inv, bound |-> FALSE, answered |-> reg.answered,
           active |-> {}, staged |-> {}, scopes |-> reg.scopes, subs |-> b,
           refresh |-> "idle", aborting |-> reg.aborting \cup reg.staged,
           settle |-> s, settling |-> reg.settling]
    BY <1>1, <1>3, <1>4, <1>5 DEF IInv, Typed, Reg, Detached
<1>7. PICK d \in SUBSET Command :
         reg' = [entry |-> 0, inv |-> reg.inv, bound |-> FALSE, answered |-> reg.answered,
                 active |-> {}, staged |-> {}, scopes |-> reg.scopes, subs |-> d,
                 refresh |-> "idle", aborting |-> reg.aborting \cup reg.staged,
                 settle |-> s, settling |-> reg.settling]
  <2>1. CASE reg' = r
    BY <1>6, <2>1
  <2>2. CASE reg' = [r EXCEPT !.subs = @ \ {c}]
    <3>1. b \ {c} \in SUBSET Command
        OBVIOUS
    <3>2. reg' = [entry |-> 0, inv |-> reg.inv, bound |-> FALSE, answered |-> reg.answered,
                  active |-> {}, staged |-> {}, scopes |-> reg.scopes, subs |-> b \ {c},
                  refresh |-> "idle", aborting |-> reg.aborting \cup reg.staged,
                  settle |-> s, settling |-> reg.settling]
        BY <1>6, <2>2
    <3> QED
        BY <3>1, <3>2
  <2> QED
    BY <1>1, <2>1, <2>2
<1>8. reg' \in Reg
    BY <1>7, DetachedType
<1> QED
    BY <1>2, <1>3, <1>7, <1>8 DEF Drops

LEMMA SameReg ==
    ASSUME IInv, reg' = reg
    PROVE  Same
  BY DEF IInv, Typed, Same

LEMMA RemovedKinds ==
    ASSUME IInv, NEW k \in Connection, NEW c,
           reg' = Removed(reg, k) \/ reg' = [Removed(reg, k) EXCEPT !.subs = @ \ {c}]
    PROVE  Same \/ Drops
<1>1. k # 0
    BY ConnectionIs
<1>2. CASE reg.entry = k
    BY <1>1, <1>2, DetachedDrops DEF Removed
<1>3. CASE reg.entry # k
  <2>1. reg' = reg \/ reg' = [reg EXCEPT !.subs = @ \ {c}]
    BY <1>3 DEF Removed
  <2> QED
    BY <2>1 DEF IInv, Typed, Reg, Same
<1> QED
    BY <1>2, <1>3

\* The registry leaves the turns outside S and the connections outside K alone.
RegBeside(S, K) ==
    /\ conns <= conns' /\ orphaned \subseteq orphaned'
    /\ sent \subseteq sent' /\ sent' \subseteq sent \cup S /\ seen \subseteq seen'
    /\ reg'.scopes \cap sent \subseteq reg.scopes /\ reg.scopes \subseteq reg'.scopes \cup S
    /\ \A c \in Command \ S :
         /\ c \in reg.active => c \in reg'.active \/ \E k \in Connection : c \in reg'.settle[k]
         /\ c \in reg'.staged => c \in reg.staged
         /\ c \in reg'.aborting => c \in reg.staged \cup reg.aborting
         /\ c \in reg.staged \cup reg.aborting => c \in reg'.staged \cup reg'.aborting
         /\ ~(c \in reg'.staged /\ c \in reg'.aborting)
    /\ \A k \in Connection : reg.settle[k] \subseteq reg'.settle[k] \cup S
                             /\ reg.settling[k] \subseteq reg'.settling[k] \cup S
    /\ \A k \in Connection \ K : reg'.settling[k] \subseteq reg.settling[k]

\* So do the requests and the handlers.
CallsBeside(S, K) ==
    /\ \A c \in Command \ S :
           turn'[c] = turn[c] /\ events'[c] = events[c] /\ receipt'[c] = receipt[c]
    /\ \A k \in Connection \ K : observed'[k] = observed[k]
    /\ \A k \in K :
         /\ observed[k].todo \subseteq observed'[k].todo \cup S
         /\ \/ ~Ending(observed[k]) \/ observed[k].cmd \in S
            \/ observed'[k].cmd = observed[k].cmd /\ Ending(observed'[k])

LEMMA OthersKept ==
    ASSUME IInv, NEW S \in SUBSET Command, NEW K \in SUBSET Connection,
           RegBeside(S, K), CallsBeside(S, K), conns' \in Nat
    PROVE  /\ \A c \in Command \ S : Life(c)' /\ Accounted(c)'
           /\ \A k \in Connection \ K : Handler(k)'
<1> USE DEF IInv
<1>1. ASSUME NEW c \in Command \ S
      PROVE  Life(c)'
  <2>1. /\ turn'[c] = turn[c] /\ events'[c] = events[c]
        /\ c \in reg'.staged => c \in reg.staged
        /\ c \in reg'.aborting => c \in reg.staged \cup reg.aborting
        /\ ~(c \in reg'.staged /\ c \in reg'.aborting)
        /\ c \in sent' => c \in sent
    BY DEF RegBeside, CallsBeside
  <2>2. Life(c) /\ conns <= conns'
    BY DEF RegBeside
  <2>3. turn'[c].at \in 0..conns' /\ events'[c].at \in 0..conns'
    BY <2>1, <2>2, ConnectionIs DEF Life
  <2> QED
    BY <2>1, <2>2, <2>3 DEF Life
<1>2. ASSUME NEW c \in Command \ S
      PROVE  Accounted(c)'
  <2>1. receipt'[c] = receipt[c] /\ turn'[c] = turn[c] /\ events'[c] = events[c]
        /\ orphaned \subseteq orphaned' /\ Accounted(c)
    BY DEF RegBeside, CallsBeside
  <2>2. Routed(c) => Routed(c)'
    <3>1. c \in reg.scopes => c \in reg'.scopes
        BY DEF RegBeside
    <3>2. c \in reg.active => c \in reg'.active \/ \E k \in Connection : c \in reg'.settle[k]
        BY DEF RegBeside
    <3>3. \A k \in Connection : c \in reg.settle[k] => c \in reg'.settle[k]
        BY DEF RegBeside
    <3>4. \A k \in Connection : c \in observed[k].todo => c \in observed'[k].todo
        BY DEF CallsBeside
    <3> QED
        BY <3>1, <3>2, <3>3, <3>4 DEF Routed
  <2>3. Tended(c) => Tended(c)'
    <3>1. c \in reg.staged \cup reg.aborting => c \in reg'.staged \cup reg'.aborting
        BY DEF RegBeside
    <3>2. \A k \in Connection : c \in reg.settling[k] => c \in reg'.settling[k]
        BY DEF RegBeside
    <3>3. \A k \in Connection : observed[k].cmd = c /\ Ending(observed[k]) =>
                                observed'[k].cmd = c /\ Ending(observed'[k])
        BY DEF CallsBeside
    <3> QED
        BY <2>1, <3>1, <3>2, <3>3 DEF Tended, Ending
  <2> QED
    BY <2>1, <2>2, <2>3 DEF Accounted
<1>3. ASSUME NEW k \in Connection \ K
      PROVE  Handler(k)'
  <2>1. /\ observed'[k] = observed[k] /\ reg'.settling[k] \subseteq reg.settling[k]
        /\ sent \subseteq sent' /\ seen \subseteq seen'
        /\ reg'.scopes \cap sent \subseteq reg.scopes
    BY DEF RegBeside, CallsBeside
  <2>2. Handler(k)
    OBVIOUS
  <2> QED
    BY <2>1, <2>2 DEF Handler, Ended
<1> QED
    BY <1>1, <1>2, <1>3

LEMMA CalmReg ==
    ASSUME IInv, Same \/ Drops, UNCHANGED <<conns, sent>>, seen \subseteq seen',
           orphaned \subseteq orphaned', NEW S, NEW K
    PROVE  RegBeside(S, K) /\ Attached' /\ RefreshAlone' /\ reg' \in Reg
           /\ reg'.scopes = reg.scopes
<1> USE DEF IInv
<1>1. CASE Same
  <2>1. RegBeside(S, K)
    <3>1. \A c \in Command : c \in reg.staged => c \notin reg.aborting
        BY DEF Life
    <3> QED
        BY <1>1, <3>1, ConnectionIs DEF Same, RegBeside
  <2>2. Attached' /\ RefreshAlone'
    BY <1>1 DEF Same, Attached, RefreshAlone
  <2> QED
    BY <1>1, <2>1, <2>2 DEF Same
<1>2. CASE Drops
  <2>1. reg.entry \in Connection /\ reg.settle[reg.entry] = {}
        /\ reg.settle \in [Connection -> SUBSET Command]
    BY <1>2 DEF Drops, Attached, Typed, Reg
  <2>2. /\ reg'.settle[reg.entry] = reg.active
        /\ \A k \in Connection : k # reg.entry => reg'.settle[k] = reg.settle[k]
    BY <1>2, <2>1 DEF Drops
  <2>3. RegBeside(S, K)
    BY <1>2, <2>1, <2>2, ConnectionIs DEF Drops, RegBeside
  <2>4. Attached'
    <3>1. \A k \in Connection : k > conns => reg'.settle[k] = {}
        BY <2>1, <2>2, ConnectionIs DEF Attached
    <3> QED
        BY <1>2, <3>1, ConnectionIs DEF Drops, Attached
  <2>5. RefreshAlone'
    BY <1>2 DEF Drops, RefreshAlone
  <2> QED
    BY <1>2, <2>3, <2>4, <2>5 DEF Drops
<1> QED
    BY <1>1, <1>2

LEMMA RoutesKept ==
    ASSUME IInv, faults' \in Nat, reg'.scopes \subseteq sent', IsFiniteSet(reg'.scopes),
           \/ Settled' \subseteq Settled /\ faults <= faults'
           \/ \E c : Settled' \subseteq Settled \cup {c} /\ faults' = faults + 1
    PROVE  Routes'
<1> USE DEF IInv
<1>1. IsFiniteSet(Settled) /\ Cardinality(Settled) \in Nat /\ Cardinality(Settled) <= faults
      /\ faults \in Nat
  <2>1. Settled \subseteq reg.scopes /\ IsFiniteSet(reg.scopes) /\ Cardinality(Settled) <= faults
    BY DEF Routes, Settled
  <2>2. IsFiniteSet(Settled)
    BY <2>1, FS_Subset
  <2> QED
    BY <2>1, <2>2, FS_CardinalityType, BoundAssumption DEF Typed
<1>2. CASE Settled' \subseteq Settled /\ faults <= faults'
  <2>1. Cardinality(Settled') <= Cardinality(Settled) /\ Cardinality(Settled') \in Nat
    BY <1>1, <1>2, FS_Subset, FS_CardinalityType
  <2> QED
    BY <1>1, <1>2, <2>1 DEF Routes
<1>3. ASSUME NEW c, Settled' \subseteq Settled \cup {c}, faults' = faults + 1
      PROVE  Routes'
  <2>1. IsFiniteSet(Settled \cup {c}) /\ Cardinality(Settled \cup {c}) \in Nat
        /\ Cardinality(Settled \cup {c}) <= Cardinality(Settled) + 1
    <3>1. IsFiniteSet(Settled \cup {c})
        BY <1>1, FS_AddElement
    <3>2. Cardinality(Settled \cup {c}) = Cardinality(Settled)
          \/ Cardinality(Settled \cup {c}) = Cardinality(Settled) + 1
        BY <1>1, FS_AddElement
    <3> QED
        BY <1>1, <3>1, <3>2
  <2>2. Cardinality(Settled') <= Cardinality(Settled \cup {c}) /\ Cardinality(Settled') \in Nat
    BY <1>3, <2>1, FS_Subset, FS_CardinalityType
  <2> QED
    BY <1>1, <1>3, <2>1, <2>2 DEF Routes
<1> QED
    BY <1>2, <1>3

LEMMA Combined ==
    ASSUME IInv, Typed', Attached', RefreshAlone', Routes', CompletedSeen',
           NEW S \in SUBSET Command, NEW K \in SUBSET Connection,
           RegBeside(S, K), CallsBeside(S, K),
           \A c \in S : Life(c)' /\ Accounted(c)', \A k \in K : Handler(k)'
    PROVE  IInv'
<1>1. conns' \in Nat
    BY BoundAssumption DEF Typed
<1>2. /\ \A c \in Command \ S : Life(c)' /\ Accounted(c)'
      /\ \A k \in Connection \ K : Handler(k)'
    BY <1>1, OthersKept
<1> QED
    BY <1>2 DEF IInv

LEMMA Apart ==
    ASSUME IInv, NEW c \in Command
    PROVE  /\ ~(c \in reg.staged /\ c \in reg.aborting)
           /\ c \in reg.scopes => c \in sent
           /\ c \in reg.staged \cup reg.aborting => c \notin sent /\ c \notin reg.scopes
  BY DEF IInv, Life, Routes

(***************************************************************************)
(* Steps of the registry alone.                                            *)
(***************************************************************************)
LEMMA RegOnly ==
    ASSUME IInv, UNCHANGED <<turn, events, observed, receipt, sent, seen, orphaned, faults>>,
           reg' \in Reg, conns' \in 0..MaxConnections, reg'.scopes \subseteq reg.scopes,
           NEW S, NEW K
    PROVE  Typed' /\ Routes' /\ CompletedSeen' /\ CallsBeside(S, K)
<1> USE DEF IInv
<1>1. Typed' /\ CompletedSeen' /\ CallsBeside(S, K)
    BY DEF Typed, CompletedSeen, CallsBeside
<1>2. reg'.scopes \subseteq sent' /\ IsFiniteSet(reg'.scopes)
    BY FS_Subset DEF Routes
<1>3. Settled' \subseteq Settled /\ faults' \in Nat /\ faults <= faults'
    BY BoundAssumption DEF Settled, Typed
<1> QED
    BY <1>1, <1>2, <1>3, RoutesKept

LEMMA AttachKeeps ==
    ASSUME IInv, Attach
    PROVE  IInv'
<1> USE DEF IInv, Attach
<1>1. conns' \in 0..MaxConnections /\ conns' = conns + 1 /\ conns + 1 # 0
    BY ConnectionIs, BoundAssumption DEF Typed
<1>2. reg' \in Reg /\ reg' = [reg EXCEPT !.entry = conns + 1]
    BY <1>1 DEF Typed, Reg
<1>3. RegBeside({}, {}) /\ Attached' /\ RefreshAlone'
  <2>1. /\ reg'.entry = conns' /\ reg'.bound = reg.bound /\ reg'.active = reg.active
        /\ reg'.staged = reg.staged /\ reg'.aborting = reg.aborting
        /\ reg'.scopes = reg.scopes /\ reg'.refresh = reg.refresh
        /\ reg'.settle = reg.settle /\ reg'.settling = reg.settling
    BY <1>1 DEF Typed, Reg
  <2>2. RegBeside({}, {})
    BY <1>1, <2>1, Apart, ConnectionIs DEF RegBeside
  <2>3. \A k \in Connection : k > conns' \/ k = reg'.entry => k > conns
    BY <1>1, <2>1, ConnectionIs
  <2>4. Attached' /\ RefreshAlone'
    BY <1>1, <2>1, <2>3 DEF Attached, RefreshAlone
  <2> QED
    BY <2>2, <2>4
<1>4. reg'.scopes \subseteq reg.scopes
    BY DEF Typed, Reg
<1> QED
    BY <1>1, <1>2, <1>3, <1>4, RegOnly, Combined

LEMMA CalmRegKeeps ==
    ASSUME IInv, Same \/ Drops,
           UNCHANGED <<conns, turn, events, observed, receipt, sent, seen, orphaned, faults>>
    PROVE  IInv'
<1> USE DEF IInv
<1>1. RegBeside({}, {}) /\ Attached' /\ RefreshAlone' /\ reg' \in Reg /\ reg'.scopes = reg.scopes
    BY CalmReg
<1>2. conns' \in 0..MaxConnections
    BY DEF Typed
<1> QED
    BY <1>1, <1>2, RegOnly, Combined

LEMMA CloseKeeps ==
    ASSUME IInv, Close
    PROVE  IInv'
  BY DetachedDrops, CalmRegKeeps DEF Close

LEMMA StreamLostKeeps ==
    ASSUME IInv, NEW c \in Command, StreamLost(c)
    PROVE  IInv'
<1>1. Same
    BY DEF StreamLost, Same, IInv, Typed, Reg
<1> QED
    BY <1>1, CalmRegKeeps DEF StreamLost

LEMMA RefreshKeeps ==
    ASSUME IInv, RefreshSend \/ RefreshTimeout
    PROVE  IInv'
<1> USE DEF IInv
<1>1. /\ reg' \in Reg
      /\ reg'.entry = reg.entry /\ reg'.bound = reg.bound /\ reg'.active = reg.active
      /\ reg'.staged = reg.staged /\ reg'.aborting = reg.aborting
      /\ reg'.scopes = reg.scopes
      /\ reg'.settle = reg.settle /\ reg'.settling = reg.settling
  <2>1. CASE RefreshSend
    <3>1. reg' = [reg EXCEPT !.refresh = "wait", !.answered = FALSE]
        BY <2>1 DEF RefreshSend
    <3> QED
        BY <3>1 DEF Typed, Reg
  <2>2. CASE RefreshTimeout
    <3>1. reg' = [reg EXCEPT !.refresh = "idle"]
        BY <2>2 DEF RefreshTimeout
    <3> QED
        BY <3>1 DEF Typed, Reg
  <2> QED
    BY <2>1, <2>2
<1>2. reg'.refresh = "wait" => reg.entry # 0 /\ reg.active = {} /\ reg.staged = {}
    BY DEF RefreshSend, RefreshTimeout, Typed, Reg, Busy
<1>3. UNCHANGED <<conns, handle, turn, events, observed, receipt, sent, seen, orphaned, faults>>
    BY DEF RefreshSend, RefreshTimeout
<1>4. RegBeside({}, {})
    BY <1>1, <1>3, Apart, ConnectionIs DEF RegBeside
<1>5. Attached' /\ RefreshAlone' /\ conns' \in 0..MaxConnections
    BY <1>1, <1>2, <1>3 DEF Attached, RefreshAlone, Typed
<1> QED
    BY <1>1, <1>3, <1>4, <1>5, RegOnly, Combined

LEMMA ExpireKeeps ==
    ASSUME IInv, NEW c \in Command, Expire(c)
    PROVE  IInv'
<1> USE DEF IInv
<1>1. /\ reg' \in Reg
      /\ reg'.entry = reg.entry /\ reg'.bound = reg.bound /\ reg'.active = reg.active
      /\ reg'.staged = reg.staged \ {c} /\ reg'.aborting = reg.aborting \cup {c}
      /\ reg'.scopes = reg.scopes /\ reg'.refresh = reg.refresh
      /\ reg'.settle = reg.settle /\ reg'.settling = reg.settling
    BY DEF Expire, Typed, Reg
<1>2. UNCHANGED <<conns, handle, turn, events, observed, receipt, sent, seen, orphaned, faults>>
      /\ c \in reg.staged
    BY DEF Expire
<1>3. RegBeside({}, {})
    BY <1>1, <1>2, Apart, ConnectionIs DEF RegBeside
<1>4. Attached' /\ RefreshAlone' /\ conns' \in 0..MaxConnections
    BY <1>1, <1>2 DEF Attached, RefreshAlone, Typed
<1> QED
    BY <1>1, <1>2, <1>3, <1>4, RegOnly, Combined

LEMMA SettleTakeKeeps ==
    ASSUME IInv, NEW k \in Connection, SettleTake(k)
    PROVE  IInv'
<1> USE DEF IInv
<1>1. PICK c \in reg.settle[k] :
           reg' = [reg EXCEPT !.settle[k] = @ \ {c}, !.scopes = @ \ {c},
                              !.settling[k] = {c} \cap reg.scopes]
    BY DEF SettleTake
<1>2. UNCHANGED <<conns, handle, turn, events, observed, receipt, sent, seen, orphaned, faults>>
      /\ reg.settling[k] = {} /\ c \in Command
    BY DEF SettleTake, Typed, Reg
<1> DEFINE s == [reg.settle EXCEPT ![k] = @ \ {c}]
           t == [reg.settling EXCEPT ![k] = {c} \cap reg.scopes]
<1>3. s \in [Connection -> SUBSET Command] /\ t \in [Connection -> SUBSET Command]
    BY <1>2 DEF Typed, Reg
<1>4. /\ reg' \in Reg
      /\ reg'.entry = reg.entry /\ reg'.bound = reg.bound /\ reg'.active = reg.active
      /\ reg'.staged = reg.staged /\ reg'.aborting = reg.aborting
      /\ reg'.scopes = reg.scopes \ {c} /\ reg'.refresh = reg.refresh
      /\ reg'.settle = s /\ reg'.settling = t
    BY <1>1, <1>3 DEF Typed, Reg
<1>5. /\ s[k] = reg.settle[k] \ {c} /\ t[k] = {c} \cap reg.scopes
      /\ \A j \in Connection : j # k => s[j] = reg.settle[j] /\ t[j] = reg.settling[j]
    BY DEF Typed, Reg
<1> HIDE DEF s, t
<1>6. RegBeside({c}, {k})
    BY <1>2, <1>4, <1>5, Apart, ConnectionIs DEF RegBeside
<1>7. Attached' /\ RefreshAlone' /\ conns' \in 0..MaxConnections
  <2>2. \A j \in Connection : /\ j > conns \/ j = reg.entry => reg'.settle[j] = {}
                             /\ \A a, b \in reg'.settling[j] : a = b
    BY <1>4, <1>5 DEF Attached
  <2> QED
    BY <1>2, <1>4, <2>2 DEF Attached, RefreshAlone, Typed
<1>8. Life(c)' /\ Handler(k)'
    BY <1>2, <1>4, <1>5, Apart DEF Life, Handler
<1>9. Accounted(c)'
  <2>1. Routed(c) => c \in reg'.settling[k]
    BY <1>4, <1>5 DEF Routed
  <2>2. Tended(c) => Tended(c)'
    BY <1>2, <1>4, <1>5 DEF Tended
  <2> QED
    BY <1>2, <2>1, <2>2 DEF Accounted, Tended
<1> QED
    BY <1>2, <1>4, <1>6, <1>7, <1>8, <1>9, RegOnly, Combined

(***************************************************************************)
(* The store, the claim and the turns given up.                            *)
(***************************************************************************)
LEMMA FaultIs ==
    ASSUME IInv
    PROVE  /\ faults \in Nat /\ faults \in 0..MaxFaults
           /\ Fault => faults' = faults + 1 /\ faults' \in 0..MaxFaults
  BY BoundAssumption DEF IInv, Typed, Fault

LEMMA ClaimedIs ==
    ASSUME IInv, NEW k \in Connection, NEW ok \in BOOLEAN, Claimed(k, ok)
    PROVE  /\ faults' \in 0..MaxFaults /\ faults' \in {faults, faults + 1}
           /\ ok => reg.entry = k
           /\ \A c : reg' = Lived(k, ok) \/ reg' = [Lived(k, ok) EXCEPT !.subs = @ \ {c}] =>
                    Same \/ Drops
<1>1. faults' \in 0..MaxFaults /\ faults' \in {faults, faults + 1} /\ (ok => reg.entry = k)
    BY FaultIs DEF Claimed
<1>2. ASSUME NEW c, reg' = Lived(k, ok) \/ reg' = [Lived(k, ok) EXCEPT !.subs = @ \ {c}]
      PROVE  Same \/ Drops
  <2>1. CASE ok
    <3>1. reg' = reg \/ reg' = [reg EXCEPT !.subs = @ \ {c}]
        BY <1>2, <2>1 DEF Lived
    <3> QED
        BY <3>1 DEF IInv, Typed, Reg, Same
  <2>2. CASE ~ok
    BY <1>2, <2>2, RemovedKinds DEF Lived
  <2> QED
    BY <2>1, <2>2
<1> QED
    BY <1>1, <1>2

LEMMA GivenUp ==
    ASSUME IInv, NEW S \in SUBSET Command, GivesUp(S)
    PROVE  /\ orphaned \subseteq orphaned' /\ orphaned' \subseteq Command
           /\ \A c \in S : receipt'[c] \in Open => c \in orphaned'
  BY DEF GivesUp, IInv, Typed

LEMMA TerminalizeIs ==
    ASSUME IInv, NEW c \in Command, NEW d \in Terminal, NEW ok \in BOOLEAN, Terminalize(c, d, ok)
    PROVE  /\ receipt' \in [Command -> Disposition]
           /\ \A b \in Command \ {c} : receipt'[b] = receipt[b]
           /\ receipt'[c] \in {receipt[c], d}
           /\ faults' \in 0..MaxFaults
           /\ ok => receipt'[c] = d /\ receipt'[c] \notin Open
           /\ \/ faults' = faults + 1
              \/ faults' = faults /\ (ok \/ receipt' = receipt) /\ receipt'[c] \notin Open
<1> DEFINE w == Written(c, Open, d)
<1>1. receipt \in [Command -> Disposition] /\ d \in Disposition /\ d \notin Open
    BY DEF IInv, Typed, Disposition, Terminal, Open
<1>2. /\ w \in [Command -> Disposition] /\ \A b \in Command \ {c} : w[b] = receipt[b]
      /\ w[c] \in {receipt[c], d} /\ w[c] \notin Open /\ (w = receipt \/ w[c] = d)
    BY <1>1 DEF Written
<1>3. CASE receipt' = w /\ ok = (receipt'[c] = d) /\ UNCHANGED faults
    BY <1>1, <1>2, <1>3, FaultIs
<1>4. CASE ~ok /\ Fault /\ receipt' \in {receipt, w}
    BY <1>1, <1>2, <1>4, FaultIs
<1> QED
    BY <1>3, <1>4 DEF Terminalize

\* A step that writes at most the receipt of turn c keeps the routes in order.
LEMMA Receipts ==
    ASSUME IInv, NEW c \in Command, receipt' \in [Command -> Disposition],
           \A b \in Command \ {c} : receipt'[b] = receipt[b],
           faults' \in 0..MaxFaults, faults' \in {faults, faults + 1},
           reg'.scopes \subseteq reg.scopes \cup {c}, c \in reg'.scopes => c \in sent',
           sent \subseteq sent', seen \subseteq seen',
           receipt'[c] = "completed" => receipt[c] = "completed" \/ c \in seen',
           c \in reg'.scopes /\ receipt'[c] \notin Open =>
               c \in Settled \/ faults' = faults + 1
    PROVE  Routes' /\ CompletedSeen'
<1> USE DEF IInv
<1>1. CompletedSeen'
    BY DEF CompletedSeen
<1>2. faults \in Nat /\ faults' \in Nat /\ faults <= faults'
    BY BoundAssumption, FaultIs
<1>3. reg'.scopes \subseteq sent' /\ IsFiniteSet(reg'.scopes)
  <2>1. reg'.scopes \subseteq sent'
    BY DEF Routes
  <2>2. IsFiniteSet(reg.scopes \cup {c})
    BY FS_AddElement DEF Routes
  <2> QED
    BY <2>1, <2>2, FS_Subset
<1>4. Settled' \subseteq Settled \cup {c}
    BY DEF Settled, Routes, Typed
<1>5. CASE faults' = faults + 1
    BY <1>1, <1>2, <1>3, <1>4, <1>5, RoutesKept
<1>6. CASE faults' # faults + 1
  <2>1. Settled' \subseteq Settled
    BY <1>4, <1>6 DEF Settled
  <2> QED
    BY <1>1, <1>2, <1>3, <2>1, RoutesKept
<1> QED
    BY <1>1, <1>5, <1>6

\* A settlement whose turn is not routed, or is not any more once it succeeded.
LEMMA Settlement ==
    ASSUME IInv, NEW c \in Command, NEW d \in Terminal, NEW ok \in BOOLEAN,
           Terminalize(c, d, ok), d = "completed" => c \in seen,
           reg'.scopes \subseteq reg.scopes, ok => c \notin reg'.scopes,
           UNCHANGED <<sent, seen>>
    PROVE  Routes' /\ CompletedSeen'
<1>1. /\ receipt' \in [Command -> Disposition]
      /\ \A b \in Command \ {c} : receipt'[b] = receipt[b]
      /\ receipt'[c] \in {receipt[c], d}
      /\ faults' \in 0..MaxFaults
      /\ \/ faults' = faults + 1
         \/ faults' = faults /\ (ok \/ receipt' = receipt) /\ receipt'[c] \notin Open
    BY TerminalizeIs
<1>2. c \in reg'.scopes => c \in sent'
    BY Apart
<1>3. c \in reg'.scopes /\ receipt'[c] \notin Open => c \in Settled \/ faults' = faults + 1
    BY <1>1 DEF Settled
<1> QED
    BY <1>1, <1>2, <1>3, Receipts

(***************************************************************************)
(* The POST of a turn, and abort().                                        *)
(***************************************************************************)
LEMMA TurnAcceptKeeps ==
    ASSUME IInv, NEW c \in Command, TurnAccept(c)
    PROVE  IInv'
<1> USE DEF IInv
<1>1. /\ turn[c].pc = "none" /\ reg.bound /\ receipt' = [receipt EXCEPT ![c] = "accepted"]
      /\ UNCHANGED <<reg, conns, events, observed, sent, seen>>
    BY DEF TurnAccept
<1>2. \/ turn' = [turn EXCEPT ![c] = [pc |-> "stage", at |-> reg.entry]]
         /\ UNCHANGED <<orphaned, faults>>
      \/ turn' = [turn EXCEPT ![c] = [pc |-> "done", at |-> 0]] /\ Fault /\ GivesUp({c})
    BY DEF TurnAccept, Turn
<1>3. /\ receipt' \in [Command -> Disposition] /\ receipt'[c] = "accepted"
      /\ \A b \in Command \ {c} : receipt'[b] = receipt[b]
    BY <1>1 DEF Typed, Disposition, Open
<1>4. reg.entry \in 0..conns /\ reg.entry # 0 /\ reg.entry \in 0..MaxConnections
      /\ 0 \in 0..conns /\ 0 \in 0..MaxConnections
    BY <1>1, ConnectionIs DEF Attached, Typed, Reg
<1>5. /\ turn' \in [Command -> Post] /\ \A b \in Command \ {c} : turn'[b] = turn[b]
      /\ \/ turn'[c] = [pc |-> "stage", at |-> reg.entry]
         \/ turn'[c] = [pc |-> "done", at |-> 0] /\ GivesUp({c})
  <2>1. PICK p \in Post : /\ turn' = [turn EXCEPT ![c] = p]
                          /\ \/ p = [pc |-> "stage", at |-> reg.entry]
                             \/ p = [pc |-> "done", at |-> 0] /\ GivesUp({c})
    BY <1>2, <1>4 DEF Post
  <2>2. turn \in [Command -> Post]
    BY DEF Typed
  <2> QED
    BY <2>1, <2>2
<1>6. /\ faults' \in 0..MaxFaults /\ faults' \in {faults, faults + 1}
      /\ orphaned \subseteq orphaned' /\ orphaned' \subseteq Command
    BY <1>2, FaultIs, GivenUp DEF Typed
<1>7. c \notin reg.staged \cup reg.aborting \cup sent /\ c \notin reg.scopes
    BY <1>1, Apart DEF Life
<1>8. Typed'
    BY <1>1, <1>3, <1>5, <1>6 DEF Typed
<1>9. RegBeside({c}, {}) /\ Attached' /\ RefreshAlone'
    BY <1>1, <1>6, SameReg, CalmReg
<1>10. CallsBeside({c}, {})
    BY <1>1, <1>3, <1>5 DEF CallsBeside
<1>11. Routes' /\ CompletedSeen'
    BY <1>1, <1>3, <1>6, <1>7, Receipts
<1>12. Life(c)'
    BY <1>1, <1>4, <1>5, <1>7 DEF Life
<1>13. Accounted(c)'
    BY <1>3, <1>5, GivenUp DEF Accounted, Tended, Open
<1> QED
    BY <1>8, <1>9, <1>10, <1>11, <1>12, <1>13, Combined

LEMMA TurnStagedKeeps ==
    ASSUME IInv, NEW c \in Command, TurnStaged(c)
    PROVE  IInv'
<1> USE DEF IInv
<1>1. turn[c].pc = "stage"
      /\ UNCHANGED <<conns, handle, events, observed, receipt, sent, seen, orphaned>>
    BY DEF TurnStaged
<1>2. PICK ok \in BOOLEAN :
         /\ Claimed(turn[c].at, ok)
         /\ \/ /\ ok /\ Stageable(c)
               /\ reg' = [reg EXCEPT !.staged = @ \cup {c}]
               /\ turn' = [turn EXCEPT ![c] = [pc |-> "done", at |-> 0]]
            \/ /\ reg' = Lived(turn[c].at, ok)
               /\ turn' = [turn EXCEPT ![c] = [pc |-> "refused", at |-> 0]]
    BY DEF TurnStaged, Turn
<1>3. PICK k \in Connection : k = turn[c].at
    BY <1>1, ConnectionIs DEF Life, Typed, Connection
<1>4. /\ faults' \in 0..MaxFaults /\ faults' \in {faults, faults + 1} /\ (ok => reg.entry = k)
      /\ reg' = Lived(k, ok) => Same \/ Drops
    BY <1>2, <1>3, ClaimedIs
<1>5. c \notin reg.staged \cup reg.aborting \cup sent /\ c \notin reg.scopes
      /\ events[c].pc \in {"none", "live"}
    BY <1>1, Apart DEF Life
<1>6. 0 \in 0..conns /\ 0 \in 0..MaxConnections /\ k # 0
    BY ConnectionIs
<1>7. /\ turn' \in [Command -> Post] /\ \A b \in Command \ {c} : turn'[b] = turn[b]
      /\ turn'[c].at = 0 /\ turn'[c].pc \in {"done", "refused"}
      /\ turn'[c].pc = "done" => ok /\ Stageable(c) /\ reg' = [reg EXCEPT !.staged = @ \cup {c}]
      /\ turn'[c].pc # "done" => reg' = Lived(k, ok)
    BY <1>2, <1>3, <1>6 DEF Typed, Post
<1>8. CallsBeside({c}, {})
    BY <1>1, <1>7 DEF CallsBeside
<1>9. CASE turn'[c].pc = "done"
  <2>1. /\ reg' \in Reg /\ reg.entry = k
        /\ reg'.entry = reg.entry /\ reg'.bound = reg.bound /\ reg'.active = reg.active
        /\ reg'.staged = reg.staged \cup {c} /\ reg'.aborting = reg.aborting
        /\ reg'.scopes = reg.scopes /\ reg'.refresh = reg.refresh
        /\ reg'.settle = reg.settle /\ reg'.settling = reg.settling
    BY <1>4, <1>7, <1>9 DEF Typed, Reg
  <2>2. RegBeside({c}, {})
    BY <1>1, <2>1, Apart, ConnectionIs DEF RegBeside
  <2>3. Attached' /\ RefreshAlone'
    BY <1>1, <1>6, <1>7, <1>9, <2>1 DEF Attached, RefreshAlone, Stageable
  <2>4. Typed'
    BY <1>1, <1>4, <1>7, <2>1 DEF Typed
  <2>5. Routes' /\ CompletedSeen'
    BY <1>1, <1>4, <1>5, <2>1, Receipts DEF Typed
  <2>6. Life(c)' /\ Accounted(c)'
    BY <1>1, <1>5, <1>6, <1>7, <1>9, <2>1 DEF Life, Accounted, Tended
  <2> QED
    BY <1>8, <2>2, <2>3, <2>4, <2>5, <2>6, Combined
<1>10. CASE turn'[c].pc = "refused"
  <2>1. Same \/ Drops
    BY <1>4, <1>7, <1>10
  <2>2. RegBeside({c}, {}) /\ Attached' /\ RefreshAlone' /\ reg' \in Reg /\ reg'.scopes = reg.scopes
    BY <1>1, <2>1, CalmReg
  <2>3. reg'.staged \subseteq reg.staged /\ reg'.aborting \subseteq reg.staged \cup reg.aborting
    BY <2>1 DEF Same, Drops
  <2>4. Typed'
    BY <1>1, <1>4, <1>7, <2>2 DEF Typed
  <2>5. Routes' /\ CompletedSeen'
    BY <1>1, <1>4, <1>5, <2>2, Receipts DEF Typed
  <2>6. Life(c)' /\ Accounted(c)'
    BY <1>1, <1>5, <1>6, <1>7, <1>10, <2>3 DEF Life, Accounted, Tended
  <2> QED
    BY <1>8, <2>2, <2>4, <2>5, <2>6, Combined
<1> QED
    BY <1>7, <1>9, <1>10

LEMMA TurnTerminalizeKeeps ==
    ASSUME IInv, NEW c \in Command, TurnTerminalize(c)
    PROVE  IInv'
<1> USE DEF IInv
<1>1. /\ turn[c].pc = "refused" /\ turn' = [turn EXCEPT ![c] = [pc |-> "done", at |-> 0]]
      /\ GivesUp({c}) /\ UNCHANGED <<reg, conns, handle, events, observed, sent, seen>>
    BY DEF TurnTerminalize, Turn
<1>2. PICK ok \in BOOLEAN : Terminalize(c, "interrupted", ok)
    BY DEF TurnTerminalize
<1>3. "interrupted" \in Terminal /\ c \notin reg.scopes /\ c \notin reg.staged \cup reg.aborting \cup sent
    BY <1>1, Apart DEF Terminal, Life
<1>4. /\ receipt' \in [Command -> Disposition] /\ faults' \in 0..MaxFaults
      /\ \A b \in Command \ {c} : receipt'[b] = receipt[b]
    BY <1>2, <1>3, TerminalizeIs
<1>5. Routes' /\ CompletedSeen'
    BY <1>1, <1>2, <1>3, Settlement
<1>6. 0 \in 0..conns /\ 0 \in 0..MaxConnections
    BY ConnectionIs
<1>7. /\ turn' \in [Command -> Post] /\ turn'[c] = [pc |-> "done", at |-> 0]
      /\ \A b \in Command \ {c} : turn'[b] = turn[b]
    BY <1>1, <1>6 DEF Typed, Post
<1>8. /\ orphaned \subseteq orphaned' /\ orphaned' \subseteq Command
      /\ receipt'[c] \in Open => c \in orphaned'
    BY <1>1, GivenUp
<1>9. Typed' /\ CallsBeside({c}, {})
    BY <1>1, <1>4, <1>7, <1>8 DEF Typed, CallsBeside
<1>10. RegBeside({c}, {}) /\ Attached' /\ RefreshAlone'
    BY <1>1, <1>8, SameReg, CalmReg
<1>11. Life(c)' /\ Accounted(c)'
    BY <1>1, <1>3, <1>6, <1>7, <1>8 DEF Life, Accounted
<1> QED
    BY <1>5, <1>9, <1>10, <1>11, Combined

LEMMA AbortKeeps ==
    ASSUME IInv, NEW c \in Command, Abort(c)
    PROVE  IInv'
<1> USE DEF IInv
<1>1. /\ c \in reg.aborting /\ reg' = [reg EXCEPT !.aborting = @ \ {c}]
      /\ GivesUp({c}) /\ UNCHANGED <<conns, handle, turn, events, observed, sent, seen>>
    BY DEF Abort
<1>2. PICK ok \in BOOLEAN : Terminalize(c, "interrupted", ok)
    BY DEF Abort
<1>3. "interrupted" \in Terminal /\ c \notin reg.scopes
    BY <1>1, Apart DEF Terminal
<1>4. /\ receipt' \in [Command -> Disposition] /\ faults' \in 0..MaxFaults
      /\ \A b \in Command \ {c} : receipt'[b] = receipt[b]
    BY <1>2, <1>3, TerminalizeIs
<1>5. /\ reg' \in Reg
      /\ reg'.entry = reg.entry /\ reg'.bound = reg.bound /\ reg'.active = reg.active
      /\ reg'.staged = reg.staged /\ reg'.aborting = reg.aborting \ {c}
      /\ reg'.scopes = reg.scopes /\ reg'.refresh = reg.refresh
      /\ reg'.settle = reg.settle /\ reg'.settling = reg.settling
    BY <1>1 DEF Typed, Reg
<1>6. Routes' /\ CompletedSeen'
    BY <1>1, <1>2, <1>3, <1>5, Settlement
<1>7. /\ orphaned \subseteq orphaned' /\ orphaned' \subseteq Command
      /\ receipt'[c] \in Open => c \in orphaned'
    BY <1>1, GivenUp
<1>8. Typed' /\ CallsBeside({c}, {})
    BY <1>1, <1>4, <1>5, <1>7 DEF Typed, CallsBeside
<1>9. RegBeside({c}, {})
    BY <1>1, <1>5, <1>7, Apart, ConnectionIs DEF RegBeside
<1>10. Attached' /\ RefreshAlone'
    BY <1>1, <1>5 DEF Attached, RefreshAlone
<1>11. Life(c)' /\ Accounted(c)'
    BY <1>1, <1>5, <1>7 DEF Life, Accounted
<1> QED
    BY <1>6, <1>8, <1>9, <1>10, <1>11, Combined

LEMMA SettleTerminalKeeps ==
    ASSUME IInv, NEW k \in Connection, SettleTerminal(k)
    PROVE  IInv'
<1> USE DEF IInv
<1>1. UNCHANGED <<conns, handle, turn, events, observed, sent, seen>>
    BY DEF SettleTerminal
<1>2. PICK c \in reg.settling[k], ok \in BOOLEAN :
         /\ Terminalize(c, "indeterminate", ok)
         /\ reg' = [reg EXCEPT !.settling[k] = {}, !.settle[k] = IF ok THEN @ ELSE {}]
         /\ GivesUp(IF ok THEN {} ELSE {c} \cup (reg.settle[k] \cap reg.scopes))
    BY DEF SettleTerminal
<1> DEFINE left == IF ok THEN {} ELSE reg.settle[k]
           S == {c} \cup left
           s == [reg.settle EXCEPT ![k] = IF ok THEN @ ELSE {}]
           t == [reg.settling EXCEPT ![k] = {}]
<1>3. /\ c \in Command /\ c \in sent /\ c \notin reg.scopes /\ "indeterminate" \in Terminal
      /\ reg.settling[k] = {c} /\ S \in SUBSET Command
      /\ \A b \in S : b # c => b \in reg.settle[k] /\ ~ok
  <2>1. reg.settling[k] \subseteq {c} /\ c \in sent \ reg.scopes
    BY DEF Attached, Handler
  <2> QED
    BY <2>1 DEF Typed, Reg, Terminal
<1>4. /\ receipt' \in [Command -> Disposition] /\ faults' \in 0..MaxFaults
      /\ \A b \in Command \ {c} : receipt'[b] = receipt[b]
      /\ ok => receipt'[c] \notin Open
    BY <1>2, <1>3, TerminalizeIs
<1>5. s \in [Connection -> SUBSET Command] /\ t \in [Connection -> SUBSET Command]
      /\ \A j \in Connection : /\ j # k => s[j] = reg.settle[j] /\ t[j] = reg.settling[j]
                               /\ s[j] \subseteq reg.settle[j]
                               /\ reg.settle[j] \subseteq s[j] \cup S
                               /\ t[j] \subseteq reg.settling[j]
                               /\ reg.settling[j] \subseteq t[j] \cup S
    BY <1>3 DEF Typed, Reg
<1>6. /\ reg' \in Reg
      /\ reg'.entry = reg.entry /\ reg'.bound = reg.bound /\ reg'.active = reg.active
      /\ reg'.staged = reg.staged /\ reg'.aborting = reg.aborting
      /\ reg'.scopes = reg.scopes /\ reg'.refresh = reg.refresh
      /\ reg'.settle = s /\ reg'.settling = t
  <2> HIDE DEF left, S
  <2> QED
    BY <1>2, <1>5 DEF Typed, Reg
<1>7. Routes' /\ CompletedSeen'
    BY <1>1, <1>2, <1>3, <1>6, Settlement
<1>8. /\ orphaned \subseteq orphaned' /\ orphaned' \subseteq Command
      /\ ~ok => \A b \in {c} \cup (reg.settle[k] \cap reg.scopes) :
                     receipt'[b] \in Open => b \in orphaned'
  <2>1. CASE ok
    BY <1>2, <2>1, GivenUp
  <2>2. CASE ~ok
    <3>1. {c} \cup (reg.settle[k] \cap reg.scopes) \in SUBSET Command
        BY <1>3 DEF Typed, Reg
    <3> QED
        BY <1>2, <2>2, <3>1, GivenUp
  <2> QED
    BY <2>1, <2>2
<1> HIDE DEF left, S, s, t
<1>9. Typed' /\ CallsBeside(S, {})
  <2>1. c \in S
    BY DEF S
  <2> QED
    BY <1>1, <1>4, <1>6, <1>8, <2>1 DEF Typed, CallsBeside
<1>10. RegBeside(S, {})
    BY <1>1, <1>5, <1>6, <1>8, Apart, ConnectionIs DEF RegBeside
<1>11. Attached' /\ RefreshAlone'
  <2>1. \A j \in Connection : /\ j > conns \/ j = reg.entry => reg'.settle[j] = {}
                              /\ \A a, b \in reg'.settling[j] : a = b
    BY <1>5, <1>6 DEF Attached
  <2> QED
    BY <1>1, <1>6, <2>1 DEF Attached, RefreshAlone
<1>12. ASSUME NEW b \in S
       PROVE  Life(b)' /\ Accounted(b)'
  <2>1. b \in Command /\ (b # c => b \in reg.settle[k] /\ ~ok)
    BY <1>3, <1>12
  <2> HIDE DEF IInv
  <2>2. Life(b)'
    <3>1. Life(b) /\ reg'.staged = reg.staged /\ reg'.aborting = reg.aborting
          /\ UNCHANGED <<turn, events, sent, conns>>
        BY <1>1, <1>6, <2>1 DEF IInv
    <3> QED
        BY <3>1 DEF Life
  <2>3. CASE b = c
    BY <1>4, <1>8, <2>2, <2>3 DEF Accounted
  <2>4. CASE b # c
    <3>1. Routed(b) /\ receipt'[b] \in Open => b \in orphaned'
        BY <1>8, <2>1, <2>4 DEF Routed
    <3>2. Tended(b) => Tended(b)'
      <4>1. \A j \in Connection : b \in reg.settling[j] => b \in reg'.settling[j]
        BY <1>3, <1>5, <1>6, <2>4
      <4> QED
        BY <1>1, <1>6, <4>1 DEF Tended
    <3> QED
        BY <1>4, <1>8, <2>1, <2>2, <2>4, <3>1, <3>2 DEF Accounted, IInv
  <2> QED
    BY <2>3, <2>4
<1> QED
    BY <1>3, <1>7, <1>9, <1>10, <1>11, <1>12, Combined

(***************************************************************************)
(* The stream of a turn.                                                   *)
(***************************************************************************)
\* A step that changes at most the stream and the receipt of turn c, and detaches.
LEMMA StreamStep ==
    ASSUME IInv, NEW c \in Command, Same \/ Drops,
           UNCHANGED <<conns, turn, observed, sent, seen>>,
           events' \in [Command -> Stream], \A b \in Command \ {c} : events'[b] = events[b],
           receipt' \in [Command -> Disposition],
           \A b \in Command \ {c} : receipt'[b] = receipt[b],
           faults' \in 0..MaxFaults, Routes', CompletedSeen',
           orphaned \subseteq orphaned', orphaned' \subseteq Command,
           Life(c)', Accounted(c)'
    PROVE  IInv'
<1>1. RegBeside({c}, {}) /\ Attached' /\ RefreshAlone' /\ reg' \in Reg
    BY CalmReg
<1>2. Typed' /\ CallsBeside({c}, {})
    BY <1>1 DEF Typed, CallsBeside, IInv
<1> QED
    BY <1>1, <1>2, Combined

LEMMA EventsOpenKeeps ==
    ASSUME IInv, NEW c \in Command, EventsOpen(c)
    PROVE  IInv'
<1> USE DEF IInv
<1>1. UNCHANGED <<conns, handle, turn, observed, receipt, sent, seen, orphaned, faults>>
      /\ reg.entry # 0 /\ reg' = [reg EXCEPT !.subs = @ \cup {c}]
    BY DEF EventsOpen
<1>2. events' = events \/ (events[c].pc = "none"
                           /\ events' = [events EXCEPT ![c] = [pc |-> "live", at |-> reg.entry]])
    BY DEF EventsOpen, Events
<1>3. Same
    BY <1>1 DEF Typed, Reg, Same
<1>4. reg.entry \in 0..conns /\ reg.entry \in 0..MaxConnections
    BY <1>1, ConnectionIs DEF Typed, Reg
<1>5. /\ events' \in [Command -> Stream] /\ \A b \in Command \ {c} : events'[b] = events[b]
      /\ \/ events'[c] = events[c]
         \/ events[c].pc = "none" /\ events'[c] = [pc |-> "live", at |-> reg.entry]
  <2>1. events \in [Command -> Stream]
    BY DEF Typed
  <2>2. PICK p \in Stream : p = [pc |-> "live", at |-> reg.entry]
    BY <1>4 DEF Stream
  <2> QED
    BY <1>2, <2>1, <2>2
<1>6. Routes' /\ CompletedSeen'
  <2>1. faults' \in Nat /\ faults <= faults' /\ Settled' = Settled
    BY <1>1, <1>3, FaultIs DEF Settled, Same
  <2> QED
    BY <1>1, <1>3, <2>1, RoutesKept DEF Same, Routes, CompletedSeen
<1>7. Life(c)'
    BY <1>1, <1>3, <1>4, <1>5 DEF Life, Same
<1>8. Accounted(c)'
    BY <1>1, <1>3, <1>5 DEF Accounted, Routed, Tended, Same
<1> QED
    BY <1>1, <1>3, <1>5, <1>6, <1>7, <1>8, StreamStep DEF Typed

LEMMA EventsStartKeeps ==
    ASSUME IInv, NEW c \in Command, EventsStart(c)
    PROVE  IInv'
<1> USE DEF IInv
<1> DEFINE at == events[c].at
<1>1. UNCHANGED <<conns, handle, turn, observed, receipt, sent, seen, orphaned>>
      /\ events[c].pc = "live"
    BY DEF EventsStart
<1>2. PICK ok \in BOOLEAN :
         /\ Claimed(at, ok)
         /\ \/ /\ ok /\ c \in reg.staged
               /\ reg' = [reg EXCEPT !.staged = @ \ {c}, !.active = @ \cup {c}]
               /\ events' = [events EXCEPT ![c] = [pc |-> "mark", at |-> at]]
            \/ /\ ok /\ c \in reg.staged
               /\ reg' = [reg EXCEPT !.staged = @ \ {c}, !.aborting = @ \cup {c},
                                     !.subs = @ \ {c}]
               /\ events' = [events EXCEPT ![c] = [pc |-> "none", at |-> 0]]
            \/ /\ reg' = reg \/ reg' = [Lived(at, ok) EXCEPT !.subs = @ \ {c}]
               /\ events' = [events EXCEPT ![c] = [pc |-> "none", at |-> 0]]
    BY DEF EventsStart, Events
<1>3. PICK k \in Connection : k = at
    BY <1>1, ConnectionIs DEF Life, Typed, Connection
<1>4. /\ faults' \in 0..MaxFaults /\ faults' \in {faults, faults + 1} /\ (ok => reg.entry = k)
      /\ reg' = [Lived(k, ok) EXCEPT !.subs = @ \ {c}] => Same \/ Drops
  <2> HIDE DEF IInv
  <2>1. Claimed(k, ok)
    BY <1>2, <1>3
  <2>2. /\ faults' \in 0..MaxFaults /\ faults' \in {faults, faults + 1} /\ (ok => reg.entry = k)
        /\ \A b : reg' = Lived(k, ok) \/ reg' = [Lived(k, ok) EXCEPT !.subs = @ \ {b}] =>
                 Same \/ Drops
    BY <2>1, ClaimedIs
  <2> QED
    BY <2>2, Zenon
<1>5. 0 \in 0..conns /\ 0 \in 0..MaxConnections /\ k # 0 /\ k \in 0..conns
      /\ k \in 0..MaxConnections
    BY <1>3, ConnectionIs DEF Life, Connection
<1>6. /\ events' \in [Command -> Stream] /\ \A b \in Command \ {c} : events'[b] = events[b]
      /\ events'[c] \in {[pc |-> "mark", at |-> k], [pc |-> "none", at |-> 0]}
    BY <1>2, <1>3, <1>5 DEF Typed, Stream
<1>7. CallsBeside({c}, {})
    BY <1>1, <1>6 DEF CallsBeside
<1>8. CASE /\ ok /\ c \in reg.staged
           /\ reg' = [reg EXCEPT !.staged = @ \ {c}, !.active = @ \cup {c}]
           /\ events' = [events EXCEPT ![c] = [pc |-> "mark", at |-> at]]
  <2>1. /\ reg' \in Reg /\ reg.entry = k
        /\ reg'.entry = reg.entry /\ reg'.bound = reg.bound /\ reg'.active = reg.active \cup {c}
        /\ reg'.staged = reg.staged \ {c} /\ reg'.aborting = reg.aborting
        /\ reg'.scopes = reg.scopes /\ reg'.refresh = reg.refresh
        /\ reg'.settle = reg.settle /\ reg'.settling = reg.settling
    BY <1>4, <1>8 DEF Typed, Reg
  <2>2. events'[c] = [pc |-> "mark", at |-> k]
    BY <1>3, <1>8 DEF Typed
  <2>3. RegBeside({c}, {})
    BY <1>1, <2>1, Apart, ConnectionIs DEF RegBeside
  <2>4. Attached' /\ RefreshAlone'
    BY <1>1, <1>5, <1>8, <2>1 DEF Attached, RefreshAlone
  <2>5. Typed'
    BY <1>1, <1>4, <1>6, <2>1 DEF Typed
  <2>6. Routes' /\ CompletedSeen'
    BY <1>1, <1>4, <1>8, <2>1, Apart, Receipts DEF Typed
  <2>7. Life(c)' /\ Accounted(c)'
    BY <1>1, <1>5, <1>8, <2>1, <2>2 DEF Life, Accounted, Tended
  <2> QED
    BY <1>7, <2>3, <2>4, <2>5, <2>6, <2>7, Combined
<1>9. CASE /\ ok /\ c \in reg.staged
           /\ reg' = [reg EXCEPT !.staged = @ \ {c}, !.aborting = @ \cup {c}, !.subs = @ \ {c}]
           /\ events' = [events EXCEPT ![c] = [pc |-> "none", at |-> 0]]
  <2>1. /\ reg' \in Reg
        /\ reg'.entry = reg.entry /\ reg'.bound = reg.bound /\ reg'.active = reg.active
        /\ reg'.staged = reg.staged \ {c} /\ reg'.aborting = reg.aborting \cup {c}
        /\ reg'.scopes = reg.scopes /\ reg'.refresh = reg.refresh
        /\ reg'.settle = reg.settle /\ reg'.settling = reg.settling
    BY <1>9 DEF Typed, Reg
  <2>2. events'[c] = [pc |-> "none", at |-> 0]
    BY <1>9 DEF Typed
  <2>3. RegBeside({c}, {})
    BY <1>1, <2>1, Apart, ConnectionIs DEF RegBeside
  <2>4. Attached' /\ RefreshAlone'
    BY <1>1, <2>1 DEF Attached, RefreshAlone
  <2>5. Typed'
    BY <1>1, <1>4, <1>6, <2>1 DEF Typed
  <2>6. Routes' /\ CompletedSeen'
    BY <1>1, <1>4, <1>9, <2>1, Apart, Receipts DEF Typed
  <2>7. Life(c)' /\ Accounted(c)'
    BY <1>1, <1>5, <1>9, <2>1, <2>2 DEF Life, Accounted, Tended
  <2> QED
    BY <1>7, <2>3, <2>4, <2>5, <2>6, <2>7, Combined
<1>10. CASE /\ reg' = reg \/ reg' = [Lived(at, ok) EXCEPT !.subs = @ \ {c}]
            /\ events' = [events EXCEPT ![c] = [pc |-> "none", at |-> 0]]
  <2>1. Same \/ Drops
    BY <1>3, <1>4, <1>10, SameReg
  <2>2. events'[c] = [pc |-> "none", at |-> 0]
    BY <1>10 DEF Typed
  <2>3. RegBeside({}, {}) /\ Attached' /\ RefreshAlone' /\ reg' \in Reg
        /\ reg'.scopes = reg.scopes
    BY <1>1, <2>1, CalmReg
  <2>4. Routes' /\ CompletedSeen'
    <3>1. faults' \in Nat /\ faults <= faults' /\ Settled' = Settled
        BY <1>1, <1>4, <2>3, FaultIs DEF Settled
    <3> QED
        BY <1>1, <2>3, <3>1, RoutesKept DEF Routes, CompletedSeen
  <2>5. Life(c)'
    BY <1>1, <1>5, <2>1, <2>2 DEF Life, Same, Drops
  <2>6. Accounted(c)'
    <3>1. Routed(c) => Routed(c)'
        BY <1>1, <2>3 DEF RegBeside, Routed
    <3>2. Tended(c) => Tended(c)'
        BY <1>1, <2>3 DEF RegBeside, Tended
    <3> QED
        BY <1>1, <3>1, <3>2 DEF Accounted
  <2> QED
    BY <1>1, <1>4, <1>6, <2>1, <2>4, <2>5, <2>6, StreamStep DEF Typed
<1> QED
    BY <1>2, <1>8, <1>9, <1>10

LEMMA MarkIs ==
    ASSUME IInv, NEW c \in Command, NEW ok \in BOOLEAN, MarkInProgress(c, ok)
    PROVE  /\ receipt' \in [Command -> Disposition]
           /\ \A b \in Command \ {c} : receipt'[b] = receipt[b]
           /\ receipt'[c] \in {receipt[c], "in_progress"}
           /\ faults' \in 0..MaxFaults /\ faults' \in {faults, faults + 1}
           /\ ok => receipt'[c] = "in_progress"
<1> DEFINE w == Written(c, {"accepted"}, "in_progress")
<1>1. receipt \in [Command -> Disposition] /\ "in_progress" \in Disposition
    BY DEF IInv, Typed, Disposition, Open
<1>2. /\ w \in [Command -> Disposition] /\ \A b \in Command \ {c} : w[b] = receipt[b]
      /\ w[c] \in {receipt[c], "in_progress"}
    BY <1>1 DEF Written
<1>3. CASE receipt' = w /\ ok = (receipt'[c] = "in_progress") /\ UNCHANGED faults
    BY <1>1, <1>2, <1>3, FaultIs
<1>4. CASE ~ok /\ Fault /\ receipt' \in {receipt, w}
    BY <1>1, <1>2, <1>4, FaultIs
<1> QED
    BY <1>3, <1>4 DEF MarkInProgress

\* A turn whose frame is about to be sent was never routed.
LEMMA Unsent ==
    ASSUME IInv, NEW c \in Command, events[c].pc \in {"mark", "abort"}
    PROVE  /\ c \notin reg.staged \cup reg.aborting \cup sent \cup reg.scopes
           /\ turn[c].pc = "done" /\ turn[c].at \in 0..conns
           /\ events[c].pc = "mark" => events[c].at \in Connection
<1>1. Life(c) /\ events[c] \in Stream
    BY DEF IInv, Typed
<1>2. c \notin reg.staged \cup reg.aborting \cup sent /\ turn[c].pc = "done"
      /\ turn[c].at \in 0..conns
    BY <1>1 DEF Life
<1>3. events[c].pc = "mark" => events[c].at \in Connection
    BY <1>1, BoundAssumption DEF Life, Stream, Connection
<1> QED
    BY <1>2, <1>3, Apart

\* The frame is not sent.
LEMMA SendRefused ==
    ASSUME IInv, NEW c \in Command, events[c].pc = "mark",
           reg' = Removed(reg, events[c].at),
           events' = [events EXCEPT ![c] = [pc |-> "abort", at |-> 0]],
           receipt' \in [Command -> Disposition],
           \A b \in Command \ {c} : receipt'[b] = receipt[b],
           receipt'[c] \in {receipt[c], "in_progress"},
           faults' \in 0..MaxFaults, faults' \in {faults, faults + 1},
           UNCHANGED <<conns, turn, observed, sent, seen, orphaned>>
    PROVE  IInv'
<1>1. PICK k \in Connection : k = events[c].at
    BY Unsent
<1>2. Same \/ Drops
    BY <1>1, RemovedKinds
<1>3. reg'.scopes = reg.scopes /\ reg'.staged \subseteq reg.staged
      /\ reg'.aborting \subseteq reg.staged \cup reg.aborting
    BY <1>2 DEF Same, Drops
<1>4. c \notin reg.staged \cup reg.aborting \cup sent \cup reg.scopes
      /\ turn[c].pc = "done" /\ turn[c].at \in 0..conns
    BY Unsent
<1>5. Routes' /\ CompletedSeen'
    BY <1>3, <1>4, Receipts
<1>6. 0 \in 0..conns /\ 0 \in 0..MaxConnections
    BY ConnectionIs
<1>7. /\ events' \in [Command -> Stream] /\ \A b \in Command \ {c} : events'[b] = events[b]
      /\ events'[c] = [pc |-> "abort", at |-> 0]
    BY <1>6 DEF IInv, Typed, Stream
<1>8. Life(c)' /\ Accounted(c)'
    BY <1>3, <1>4, <1>6, <1>7 DEF Life, Accounted, Tended
<1> QED
    BY <1>2, <1>5, <1>7, <1>8, StreamStep DEF IInv, Typed

LEMMA EventsSendKeeps ==
    ASSUME IInv, NEW c \in Command, EventsSend(c)
    PROVE  IInv'
<1>1. UNCHANGED <<conns, handle, turn, observed, seen>> /\ events[c].pc = "mark"
    BY DEF EventsSend
<1>2. PICK k \in Connection : k = events[c].at
    BY <1>1, Unsent
<1>3. PICK ok \in BOOLEAN :
         /\ MarkInProgress(c, ok)
         /\ \/ /\ ok /\ reg.entry = k
               /\ sent' = sent \cup {c}
               /\ reg' = [reg EXCEPT !.scopes = @ \cup {c}]
               /\ GivesUp({c} \ (reg.active \cup observed[k].todo))
               /\ events' = [events EXCEPT ![c] = [pc |-> "none", at |-> 0]]
            \/ /\ reg' = Removed(reg, k)
               /\ events' = [events EXCEPT ![c] = [pc |-> "abort", at |-> 0]]
               /\ UNCHANGED <<sent, orphaned>>
    BY <1>2 DEF EventsSend, Events
<1>4. /\ receipt' \in [Command -> Disposition]
      /\ \A b \in Command \ {c} : receipt'[b] = receipt[b]
      /\ receipt'[c] \in {receipt[c], "in_progress"}
      /\ faults' \in 0..MaxFaults /\ faults' \in {faults, faults + 1}
      /\ ok => receipt'[c] = "in_progress"
    BY <1>3, MarkIs
<1>5. CASE /\ reg' = Removed(reg, k)
           /\ events' = [events EXCEPT ![c] = [pc |-> "abort", at |-> 0]]
           /\ UNCHANGED <<sent, orphaned>>
    BY <1>1, <1>2, <1>4, <1>5, SendRefused
<1>6. CASE /\ ok /\ reg.entry = k
           /\ sent' = sent \cup {c}
           /\ reg' = [reg EXCEPT !.scopes = @ \cup {c}]
           /\ GivesUp({c} \ (reg.active \cup observed[k].todo))
           /\ events' = [events EXCEPT ![c] = [pc |-> "none", at |-> 0]]
  <2>1. c \notin reg.staged \cup reg.aborting \cup sent \cup reg.scopes
        /\ turn[c].pc = "done" /\ turn[c].at \in 0..conns
    BY <1>1, Unsent
  <2>2. /\ reg' \in Reg
        /\ reg'.entry = reg.entry /\ reg'.bound = reg.bound /\ reg'.active = reg.active
        /\ reg'.staged = reg.staged /\ reg'.aborting = reg.aborting
        /\ reg'.scopes = reg.scopes \cup {c} /\ reg'.refresh = reg.refresh
        /\ reg'.settle = reg.settle /\ reg'.settling = reg.settling
    BY <1>6 DEF IInv, Typed, Reg
  <2>3. /\ orphaned \subseteq orphaned' /\ orphaned' \subseteq Command
        /\ receipt'[c] \in Open => c \in reg.active \cup observed[k].todo \cup orphaned'
    BY <1>6, GivenUp
  <2>4. 0 \in 0..conns /\ 0 \in 0..MaxConnections
    BY ConnectionIs
  <2>5. /\ events' \in [Command -> Stream] /\ \A b \in Command \ {c} : events'[b] = events[b]
        /\ events'[c] = [pc |-> "none", at |-> 0]
    BY <1>6, <2>4 DEF IInv, Typed, Stream
  <2>6. Typed' /\ CallsBeside({c}, {})
    BY <1>1, <1>4, <1>6, <2>2, <2>3, <2>5 DEF IInv, Typed, CallsBeside
  <2>7. RegBeside({c}, {})
    BY <1>1, <1>6, <2>1, <2>2, <2>3, Apart, ConnectionIs DEF RegBeside
  <2>8. Attached' /\ RefreshAlone'
    BY <1>1, <2>2 DEF IInv, Attached, RefreshAlone
  <2>9. Routes' /\ CompletedSeen'
    <3>1. receipt'[c] \in Open
        BY <1>4, <1>6 DEF Open
    <3> QED
        BY <1>1, <1>4, <1>6, <2>2, <3>1, Receipts DEF Open
  <2>10. Life(c)' /\ Accounted(c)'
    <3>1. Life(c)'
        BY <1>1, <1>6, <2>1, <2>2, <2>4, <2>5 DEF Life
    <3>2. Accounted(c)'
        BY <1>1, <2>2, <2>3 DEF Accounted, Routed
    <3> QED
        BY <3>1, <3>2
  <2> QED
    BY <2>6, <2>7, <2>8, <2>9, <2>10, Combined
<1> QED
    BY <1>3, <1>5, <1>6

LEMMA EventsSendFailsKeeps ==
    ASSUME IInv, NEW c \in Command, EventsSendFails(c)
    PROVE  IInv'
<1>1. /\ UNCHANGED <<conns, handle, turn, observed, sent, seen, orphaned>>
      /\ events[c].pc = "mark" /\ receipt' = [receipt EXCEPT ![c] = "in_progress"]
      /\ Fault /\ reg' = Removed(reg, events[c].at)
      /\ events' = [events EXCEPT ![c] = [pc |-> "abort", at |-> 0]]
    BY DEF EventsSendFails, Events
<1>2. /\ receipt' \in [Command -> Disposition] /\ receipt'[c] = "in_progress"
      /\ \A b \in Command \ {c} : receipt'[b] = receipt[b]
    BY <1>1 DEF IInv, Typed, Disposition, Open
<1> QED
    BY <1>1, <1>2, FaultIs, SendRefused

LEMMA EventsAbortKeeps ==
    ASSUME IInv, NEW c \in Command, EventsAbort(c)
    PROVE  IInv'
<1>1. /\ UNCHANGED <<conns, handle, turn, observed, sent, seen>> /\ GivesUp({c})
      /\ events[c].pc = "abort" /\ reg' = [reg EXCEPT !.subs = @ \ {c}]
      /\ events' = [events EXCEPT ![c] = [pc |-> "none", at |-> 0]]
    BY DEF EventsAbort, Events
<1>2. PICK ok \in BOOLEAN : Terminalize(c, "interrupted", ok)
    BY DEF EventsAbort
<1>3. "interrupted" \in Terminal
    BY DEF Terminal
<1>4. /\ receipt' \in [Command -> Disposition] /\ faults' \in 0..MaxFaults
      /\ \A b \in Command \ {c} : receipt'[b] = receipt[b]
    BY <1>2, <1>3, TerminalizeIs
<1>5. Same
    BY <1>1 DEF IInv, Typed, Reg, Same
<1>6. c \notin reg.staged \cup reg.aborting \cup sent \cup reg.scopes
      /\ turn[c].pc = "done" /\ turn[c].at \in 0..conns
    BY <1>1, Unsent
<1>7. Routes' /\ CompletedSeen'
    BY <1>1, <1>2, <1>3, <1>5, <1>6, Settlement DEF Same
<1>8. 0 \in 0..conns /\ 0 \in 0..MaxConnections
    BY ConnectionIs
<1>9. /\ events' \in [Command -> Stream] /\ \A b \in Command \ {c} : events'[b] = events[b]
      /\ events'[c] = [pc |-> "none", at |-> 0]
    BY <1>1, <1>8 DEF IInv, Typed, Stream
<1>10. /\ orphaned \subseteq orphaned' /\ orphaned' \subseteq Command
       /\ receipt'[c] \in Open => c \in orphaned'
    BY <1>1, GivenUp
<1>11. Life(c)' /\ Accounted(c)'
    BY <1>1, <1>5, <1>6, <1>8, <1>9, <1>10 DEF Life, Accounted, Same
<1> QED
    BY <1>1, <1>4, <1>5, <1>7, <1>9, <1>10, <1>11, StreamStep

(***************************************************************************)
(* The messages of a connector.                                            *)
(***************************************************************************)
LEMMA HandlerStep ==
    ASSUME IInv, NEW k \in Connection, NEW S \in SUBSET Command,
           UNCHANGED <<conns, turn, events, sent>>,
           observed' \in [Connection -> Observation],
           \A j \in Connection \ {k} : observed'[j] = observed[j],
           observed[k].todo \subseteq observed'[k].todo \cup S,
           \/ ~Ending(observed[k]) \/ observed[k].cmd \in S
           \/ observed'[k].cmd = observed[k].cmd /\ Ending(observed'[k]),
           receipt' \in [Command -> Disposition],
           \A b \in Command \ S : receipt'[b] = receipt[b],
           faults' \in 0..MaxFaults, seen' \subseteq Command, orphaned' \subseteq Command,
           reg' \in Reg, RegBeside(S, {k}), Attached', RefreshAlone', Routes', CompletedSeen',
           reg'.staged \subseteq reg.staged, reg'.aborting \subseteq reg.staged \cup reg.aborting,
           reg'.staged \cap reg'.aborting = {},
           \A b \in S : Accounted(b)', Handler(k)'
    PROVE  IInv'
<1>1. Typed'
    BY DEF IInv, Typed
<1>2. CallsBeside(S, {k})
    BY DEF CallsBeside
<1>3. ASSUME NEW b \in S
      PROVE  Life(b)'
  <2>1. Life(b) /\ b \in Command
    BY <1>3 DEF IInv
  <2> QED
    BY <2>1 DEF Life
<1> QED
    BY <1>1, <1>2, <1>3, Combined

\* A step that leaves the registry as it is, or detaches the connection.
LEMMA CalmHandlerStep ==
    ASSUME IInv, NEW k \in Connection, NEW S \in SUBSET Command,
           Same \/ Drops,
           UNCHANGED <<conns, turn, events, sent, seen>>,
           observed' \in [Connection -> Observation],
           \A j \in Connection \ {k} : observed'[j] = observed[j],
           observed[k].todo \subseteq observed'[k].todo \cup S,
           \/ ~Ending(observed[k]) \/ observed[k].cmd \in S
           \/ observed'[k].cmd = observed[k].cmd /\ Ending(observed'[k]),
           receipt' \in [Command -> Disposition],
           \A b \in Command \ S : receipt'[b] = receipt[b],
           faults' \in 0..MaxFaults,
           orphaned \subseteq orphaned', orphaned' \subseteq Command,
           Routes', CompletedSeen', \A b \in S : Accounted(b)', Handler(k)'
    PROVE  IInv'
<1>1. RegBeside(S, {k}) /\ Attached' /\ RefreshAlone' /\ reg' \in Reg
    BY CalmReg
<1>2. /\ reg'.staged \subseteq reg.staged /\ reg'.aborting \subseteq reg.staged \cup reg.aborting
      /\ reg'.staged \cap reg'.aborting = {}
    BY Apart DEF Same, Drops, IInv, Typed, Reg
<1>3. seen' \subseteq Command
    BY DEF IInv, Typed
<1> QED
    BY <1>1, <1>2, <1>3, HandlerStep

\* What is known of a message handler at work.
LEMMA AtWork ==
    ASSUME IInv, NEW k \in Connection, observed[k].pc \notin {"idle", "bind"}
    PROVE  /\ observed[k].cmd \in Command /\ observed[k].cmd \in sent
           /\ observed[k] \in Observation
  BY DEF IInv, Typed, Handler

LEMMA NoReceiptRoutes ==
    ASSUME IInv, UNCHANGED <<receipt, sent, seen>>, faults' \in 0..MaxFaults,
           faults' \in {faults, faults + 1}, reg'.scopes \subseteq reg.scopes
    PROVE  Routes' /\ CompletedSeen' /\ receipt' \in [Command -> Disposition]
<1>1. faults' \in Nat /\ faults <= faults' /\ Settled' \subseteq Settled
    BY FaultIs DEF Settled
<1>2. reg'.scopes \subseteq sent' /\ IsFiniteSet(reg'.scopes)
    BY FS_Subset DEF Routes, IInv
<1> QED
    BY <1>1, <1>2, RoutesKept DEF CompletedSeen, IInv, Typed

LEMMA IdleIs == Idle \in Observation /\ Idle.pc = "idle" /\ Idle.todo = {} /\ ~Ending(Idle)
  BY DEF Idle, Observation, Doing, Kind, Ending, Ended

LEMMA ObserveLiveKeeps ==
    ASSUME IInv, NEW k \in Connection, ObserveLive(k)
    PROVE  IInv'
<1>1. UNCHANGED <<conns, handle, turn, events, sent, seen>> /\ observed[k].pc = "live"
    BY DEF ObserveLive
<1>2. PICK ok \in BOOLEAN :
         /\ Claimed(k, ok)
         /\ reg' = Lived(k, ok)
         /\ observed' = [observed EXCEPT ![k] = IF ok THEN [observed[k] EXCEPT !.pc = "events"]
                                                ELSE Idle]
         /\ UNCHANGED receipt
         /\ GivesUp(IF ok \/ observed[k].kind = "event" THEN {} ELSE {observed[k].cmd})
    BY DEF ObserveLive, Observes
<1>3. PICK c \in Command : c = observed[k].cmd /\ c \in sent
    BY <1>1, AtWork
<1>4. observed[k] \in Observation /\ observed \in [Connection -> Observation]
      /\ observed[k].todo = {}
    BY <1>1 DEF IInv, Typed, Handler, Ended
<1>5. /\ faults' \in 0..MaxFaults /\ faults' \in {faults, faults + 1} /\ (Same \/ Drops)
    BY <1>2, ClaimedIs
<1>6. /\ observed' \in [Connection -> Observation]
      /\ \A j \in Connection \ {k} : observed'[j] = observed[j]
      /\ observed'[k] = IF ok THEN [observed[k] EXCEPT !.pc = "events"] ELSE Idle
    BY <1>2, <1>4, IdleIs DEF Observation, Doing
<1> DEFINE S == IF ok \/ observed[k].kind = "event" THEN {} ELSE {c}
<1>7. /\ orphaned \subseteq orphaned' /\ orphaned' \subseteq Command /\ S \in SUBSET Command
      /\ \A b \in S : receipt'[b] \in Open => b \in orphaned'
  <2>1. S \in SUBSET Command /\ GivesUp(S)
    BY <1>2, <1>3
  <2> HIDE DEF S
  <2> QED
    BY <2>1, GivenUp
<1>8. reg'.scopes = reg.scopes /\ reg'.settling = reg.settling
    BY <1>5 DEF Same, Drops
<1>9. Routes' /\ CompletedSeen' /\ receipt' \in [Command -> Disposition]
    BY <1>1, <1>2, <1>5, <1>8, NoReceiptRoutes
<1>10. Handler(k)'
  <2>1. reg'.settling[k] \subseteq sent \ reg.scopes
    BY <1>8 DEF IInv, Handler
  <2>2. CASE ok
    <3>1. observed'[k].pc = "events" /\ observed'[k].todo = {} /\ observed'[k].cmd = c
        BY <1>3, <1>4, <1>6, <2>2 DEF Observation
    <3> QED
        BY <1>1, <1>3, <1>8, <2>1, <3>1 DEF Handler, Ended
  <2>3. CASE ~ok
    BY <1>1, <1>6, <1>8, <2>1, <2>3, IdleIs DEF Handler, Ended
  <2> QED
    BY <2>2, <2>3
<1>11. \/ ~Ending(observed[k]) \/ observed[k].cmd \in S
       \/ observed'[k].cmd = observed[k].cmd /\ Ending(observed'[k])
    BY <1>1, <1>3, <1>4, <1>6 DEF Ending, Observation, Doing, Ended
<1>12. \A b \in S : Accounted(b)'
    BY <1>7 DEF Accounted
<1>13. observed[k].todo \subseteq observed'[k].todo \cup S
    BY <1>4
<1> HIDE DEF S
<1> QED
    BY <1>1, <1>2, <1>5, <1>6, <1>7, <1>9, <1>10, <1>11, <1>12, <1>13, CalmHandlerStep

\* A command is released: its stream and its route go.
LEMMA ReleasedIs ==
    ASSUME IInv, NEW c \in Command, NEW k \in Connection, reg' = Released(reg, c),
           UNCHANGED <<conns, sent>>, seen \subseteq seen', orphaned \subseteq orphaned'
    PROVE  /\ reg' \in Reg /\ Attached' /\ RefreshAlone' /\ RegBeside({c}, {k})
           /\ reg'.scopes = reg.scopes \ {c} /\ reg'.settling = reg.settling
           /\ reg'.staged = reg.staged /\ reg'.aborting = reg.aborting
<1>1. /\ reg' \in Reg
      /\ reg'.entry = reg.entry /\ reg'.bound = reg.bound /\ reg'.active = reg.active
      /\ reg'.staged = reg.staged /\ reg'.aborting = reg.aborting
      /\ reg'.scopes = reg.scopes \ {c} /\ reg'.refresh = reg.refresh
      /\ reg'.settle = reg.settle /\ reg'.settling = reg.settling
    BY DEF Released, IInv, Typed, Reg
<1>2. RegBeside({c}, {k})
    BY <1>1, Apart, ConnectionIs DEF RegBeside
<1>3. Attached' /\ RefreshAlone'
    BY <1>1 DEF IInv, Attached, RefreshAlone
<1> QED
    BY <1>1, <1>2, <1>3

LEMMA ObserveEventsKeeps ==
    ASSUME IInv, NEW k \in Connection, ObserveEvents(k)
    PROVE  IInv'
<1>1. UNCHANGED <<conns, handle, turn, events, receipt, sent, orphaned>> /\ observed[k].pc = "events"
    BY DEF ObserveEvents
<1>2. PICK c \in Command : c = observed[k].cmd /\ c \in sent
    BY <1>1, AtWork
<1>3. PICK ok \in BOOLEAN :
         /\ Claimed(k, ok)
         /\ \/ /\ observed[k].kind = "event"
               /\ observed' = [observed EXCEPT ![k] = Idle]
               /\ UNCHANGED <<reg, seen>>
            \/ /\ Delivers(c, ok) /\ observed[k].kind # "event"
               /\ reg' = Released(reg, c)
               /\ seen' = seen \cup ({c} \cap reg.subs)
               /\ observed' = [observed EXCEPT ![k] = [observed[k] EXCEPT !.pc = "terminal"]]
            \/ /\ reg' = Lived(k, ok)
               /\ observed' = [observed EXCEPT ![k] = [observed[k] EXCEPT !.pc = "lost"]]
               /\ UNCHANGED seen
    BY <1>2 DEF ObserveEvents, Observes, GoOn
<1>4. observed[k] \in Observation /\ observed \in [Connection -> Observation]
      /\ observed[k].todo = {}
    BY <1>1 DEF IInv, Typed, Handler, Ended
<1>5. /\ faults' \in 0..MaxFaults /\ faults' \in {faults, faults + 1}
      /\ reg' = Lived(k, ok) => Same \/ Drops
    BY <1>3, ClaimedIs
<1>6. receipt' \in [Command -> Disposition] /\ orphaned' \subseteq Command
      /\ orphaned \subseteq orphaned'
    BY <1>1 DEF IInv, Typed
<1>7. reg.settling[k] \subseteq sent \ reg.scopes
    BY DEF IInv, Handler
<1>8. CASE /\ observed[k].kind = "event"
           /\ observed' = [observed EXCEPT ![k] = Idle]
           /\ UNCHANGED <<reg, seen>>
  <2>1. /\ observed' \in [Connection -> Observation] /\ observed'[k] = Idle
        /\ \A j \in Connection \ {k} : observed'[j] = observed[j]
    BY <1>4, <1>8, IdleIs
  <2>2. ~Ending(observed[k])
    BY <1>1, <1>8 DEF Ending, Ended
  <2>3. Handler(k)'
    BY <1>1, <1>7, <1>8, <2>1, IdleIs DEF Handler, Ended
  <2>4. Routes' /\ CompletedSeen'
    BY <1>1, <1>5, <1>8, NoReceiptRoutes
  <2> QED
    BY <1>1, <1>4, <1>5, <1>6, <1>8, <2>1, <2>2, <2>3, <2>4, SameReg, CalmHandlerStep
<1>9. CASE /\ Delivers(c, ok) /\ observed[k].kind # "event"
           /\ reg' = Released(reg, c)
           /\ seen' = seen \cup ({c} \cap reg.subs)
           /\ observed' = [observed EXCEPT ![k] = [observed[k] EXCEPT !.pc = "terminal"]]
  <2>1. /\ observed' \in [Connection -> Observation]
        /\ \A j \in Connection \ {k} : observed'[j] = observed[j]
        /\ observed'[k].pc = "terminal" /\ observed'[k].todo = {} /\ observed'[k].cmd = c
        /\ observed'[k].kind = observed[k].kind
    BY <1>2, <1>4, <1>9 DEF Observation, Doing
  <2>2. c \in seen' /\ seen \subseteq seen' /\ seen' \subseteq Command
    BY <1>9 DEF Delivers, IInv, Typed
  <2>3. /\ reg' \in Reg /\ Attached' /\ RefreshAlone' /\ RegBeside({c}, {k})
        /\ reg'.scopes = reg.scopes \ {c} /\ reg'.settling = reg.settling
        /\ reg'.staged = reg.staged /\ reg'.aborting = reg.aborting
    BY <1>1, <1>6, <1>9, <2>2, ReleasedIs
  <2>4. Handler(k)'
    BY <1>1, <1>2, <1>7, <1>9, <2>1, <2>2, <2>3 DEF Handler
  <2>5. Accounted(c)'
    BY <2>1 DEF Accounted, Tended, Ending
  <2>6. Routes' /\ CompletedSeen'
    BY <1>1, <1>5, <1>6, <2>2, <2>3, Receipts
  <2>7. reg'.staged \cap reg'.aborting = {}
    BY <2>3, Apart DEF IInv, Typed, Reg
  <2> QED
    BY <1>1, <1>2, <1>4, <1>5, <1>6, <2>1, <2>2, <2>3, <2>4, <2>5, <2>6, <2>7, HandlerStep
<1>10. CASE /\ reg' = Lived(k, ok)
            /\ observed' = [observed EXCEPT ![k] = [observed[k] EXCEPT !.pc = "lost"]]
            /\ UNCHANGED seen
  <2>1. /\ observed' \in [Connection -> Observation]
        /\ \A j \in Connection \ {k} : observed'[j] = observed[j]
        /\ observed'[k].pc = "lost" /\ observed'[k].todo = {} /\ observed'[k].cmd = c
        /\ observed'[k].kind = observed[k].kind
    BY <1>2, <1>4, <1>10 DEF Observation, Doing
  <2>2. Same \/ Drops
    BY <1>5, <1>10
  <2>3. reg'.scopes = reg.scopes /\ reg'.settling = reg.settling
    BY <2>2 DEF Same, Drops
  <2>4. Handler(k)'
    BY <1>1, <1>2, <1>7, <2>1, <2>3 DEF Handler, Ended
  <2>5. Routes' /\ CompletedSeen'
    BY <1>1, <1>5, <1>10, <2>3, NoReceiptRoutes
  <2>6. ~Ending(observed[k]) \/ (observed'[k].cmd = observed[k].cmd /\ Ending(observed'[k]))
    BY <1>1, <1>2, <2>1 DEF Ending, Ended, Doing
  <2> QED
    BY <1>1, <1>4, <1>5, <1>6, <1>10, <2>1, <2>2, <2>4, <2>5, <2>6, CalmHandlerStep
<1> QED
    BY <1>3, <1>8, <1>9, <1>10

LEMMA ObserveTerminalKeeps ==
    ASSUME IInv, NEW k \in Connection, ObserveTerminal(k)
    PROVE  IInv'
<1>1. UNCHANGED <<conns, handle, turn, events, sent, seen>> /\ observed[k].pc = "terminal"
      /\ GivesUp({observed[k].cmd}) /\ observed' = [observed EXCEPT ![k] = Idle]
    BY DEF ObserveTerminal, Observes
<1>2. PICK c \in Command : c = observed[k].cmd /\ c \in sent
    BY <1>1, AtWork
<1>3. /\ observed[k].kind \in Terminal /\ c \in seen /\ c \notin reg.scopes
      /\ observed[k].todo = {} /\ reg.settling[k] \subseteq sent \ reg.scopes
    BY <1>1, <1>2 DEF IInv, Handler, Typed, Observation, Kind, Ended
<1>4. PICK d \in Terminal, ok \in BOOLEAN :
         /\ Terminalize(c, d, ok)
         /\ reg' = IF ok THEN reg ELSE Removed(reg, k)
    BY <1>2, <1>3 DEF ObserveTerminal
<1>5. Same \/ Drops
    BY <1>4, SameReg, RemovedKinds
<1>6. reg'.scopes = reg.scopes /\ reg'.settling = reg.settling
    BY <1>5 DEF Same, Drops
<1>7. /\ receipt' \in [Command -> Disposition] /\ faults' \in 0..MaxFaults
      /\ \A b \in Command \ {c} : receipt'[b] = receipt[b]
    BY <1>4, TerminalizeIs
<1>8. Routes' /\ CompletedSeen'
    BY <1>1, <1>3, <1>4, <1>6, Settlement
<1>9. /\ orphaned \subseteq orphaned' /\ orphaned' \subseteq Command
      /\ receipt'[c] \in Open => c \in orphaned'
    BY <1>1, <1>2, GivenUp
<1>10. /\ observed' \in [Connection -> Observation] /\ observed'[k] = Idle
       /\ \A j \in Connection \ {k} : observed'[j] = observed[j]
    BY <1>1, IdleIs DEF IInv, Typed
<1>11. Handler(k)'
    BY <1>1, <1>3, <1>6, <1>10, IdleIs DEF Handler, Ended
<1>12. Accounted(c)'
    BY <1>9 DEF Accounted
<1> QED
    BY <1>1, <1>2, <1>3, <1>5, <1>7, <1>8, <1>9, <1>10, <1>11, <1>12, CalmHandlerStep

LEMMA ObserveLostKeeps ==
    ASSUME IInv, NEW k \in Connection, ObserveLost(k)
    PROVE  IInv'
<1>1. UNCHANGED <<conns, handle, turn, events, sent, seen>> /\ observed[k].pc = "lost"
      /\ observed' = [observed EXCEPT ![k] = Idle]
    BY DEF ObserveLost, Observes
<1>2. PICK c \in Command : c = observed[k].cmd /\ c \in sent
    BY <1>1, AtWork
<1>3. PICK ok \in BOOLEAN :
         /\ Terminalize(c, "interrupted", ok)
         /\ reg' = IF ok THEN Released(reg, c) ELSE Removed(reg, k)
         /\ GivesUp(IF ok \/ observed[k].kind = "event" THEN {} ELSE {c})
    BY <1>2 DEF ObserveLost
<1>4. "interrupted" \in Terminal
    BY DEF Terminal
<1>5. /\ receipt' \in [Command -> Disposition] /\ faults' \in 0..MaxFaults
      /\ \A b \in Command \ {c} : receipt'[b] = receipt[b]
      /\ receipt'[c] \in {receipt[c], "interrupted"} /\ (ok => receipt'[c] \notin Open)
    BY <1>3, <1>4, TerminalizeIs
<1>6. /\ observed' \in [Connection -> Observation] /\ observed'[k] = Idle
      /\ \A j \in Connection \ {k} : observed'[j] = observed[j]
    BY <1>1, IdleIs DEF IInv, Typed
<1>7. observed[k].todo = {} /\ reg.settling[k] \subseteq sent \ reg.scopes
    BY <1>1 DEF IInv, Handler, Ended
<1>8. /\ orphaned \subseteq orphaned' /\ orphaned' \subseteq Command
      /\ ~ok /\ observed[k].kind # "event" => (receipt'[c] \in Open => c \in orphaned')
  <2>1. CASE ok \/ observed[k].kind = "event"
    BY <1>3, <2>1, GivenUp
  <2>2. CASE ~(ok \/ observed[k].kind = "event")
    BY <1>3, <2>2, GivenUp
  <2> QED
    BY <2>1, <2>2
<1>9. CASE ok
  <2>1. /\ reg' \in Reg /\ Attached' /\ RefreshAlone' /\ RegBeside({c}, {k})
        /\ reg'.scopes = reg.scopes \ {c} /\ reg'.settling = reg.settling
        /\ reg'.staged = reg.staged /\ reg'.aborting = reg.aborting
    BY <1>1, <1>3, <1>8, <1>9, ReleasedIs
  <2>2. Routes' /\ CompletedSeen'
    BY <1>1, <1>3, <1>4, <2>1, Settlement
  <2>3. Handler(k)'
    BY <1>1, <1>6, <1>7, <2>1, IdleIs DEF Handler, Ended
  <2>4. Accounted(c)'
    BY <1>5, <1>9 DEF Accounted
  <2>5. reg'.staged \cap reg'.aborting = {} /\ seen' \subseteq Command
    BY <1>1, <2>1, Apart DEF IInv, Typed, Reg
  <2>6. /\ {c} \in SUBSET Command /\ observed[k].todo \subseteq observed'[k].todo \cup {c}
        /\ observed[k].cmd \in {c} /\ \A b \in {c} : Accounted(b)'
        /\ reg'.staged \subseteq reg.staged
        /\ reg'.aborting \subseteq reg.staged \cup reg.aborting
    BY <1>2, <1>7, <2>1, <2>4
  <2> QED
    BY <1>1, <1>5, <1>6, <1>8, <2>1, <2>2, <2>3, <2>5, <2>6, HandlerStep
<1>10. CASE ~ok
  <2>1. Same \/ Drops
    BY <1>3, <1>10, RemovedKinds
  <2>2. RegBeside({}, {}) /\ reg'.scopes = reg.scopes
    BY <1>1, <1>8, <2>1, CalmReg
  <2>3. reg'.settling = reg.settling
    BY <2>1 DEF Same, Drops
  <2>4. Routes' /\ CompletedSeen'
    BY <1>1, <1>3, <1>4, <1>10, <2>2, Settlement
  <2>5. Handler(k)'
    BY <1>1, <1>6, <1>7, <2>2, <2>3, IdleIs DEF Handler, Ended
  <2>6. Accounted(c)'
    <3>1. CASE observed[k].kind # "event"
        BY <1>8, <1>10, <3>1 DEF Accounted
    <3>2. CASE observed[k].kind = "event"
      <4>1. ~Ending(observed[k])
        BY <1>1, <3>2 DEF Ending, Ended
      <4>2. \A j \in Connection : c \in observed[j].todo => c \in observed'[j].todo
        BY <1>6, <1>7
      <4>3. \A j \in Connection : observed[j].cmd = c /\ Ending(observed[j]) =>
                                  observed'[j].cmd = c /\ Ending(observed'[j])
        BY <1>6, <4>1
      <4>4. Routed(c) => Routed(c)'
        BY <2>2, <4>2 DEF RegBeside, Routed
      <4>5. Tended(c) => Tended(c)'
        <5>1. \A j \in Connection : c \in reg.settling[j] => c \in reg'.settling[j]
            BY <2>3
        <5>2. c \in reg.staged \cup reg.aborting => c \in reg'.staged \cup reg'.aborting
            BY <2>2 DEF RegBeside
        <5> QED
            BY <1>1, <4>3, <5>1, <5>2 DEF Tended, Ending
      <4>6. receipt'[c] \in Open => receipt[c] \in Open
        BY <1>5 DEF Open
      <4>7. Accounted(c)
        BY DEF IInv
      <4> QED
        BY <1>8, <4>4, <4>5, <4>6, <4>7 DEF Accounted
    <3> QED
        BY <3>1, <3>2
  <2>7. /\ {c} \in SUBSET Command /\ observed[k].todo \subseteq observed'[k].todo \cup {c}
        /\ observed[k].cmd \in {c} /\ \A b \in {c} : Accounted(b)'
    BY <1>2, <1>7, <2>6
  <2> QED
    BY <1>1, <1>5, <1>6, <1>8, <2>1, <2>4, <2>5, <2>7, CalmHandlerStep
<1> QED
    BY <1>9, <1>10

\* A step of the loop that settles the commands of an old inventory and goes on
\* with the same command.
LEMMA EndedGoesOn ==
    ASSUME IInv, NEW k \in Connection, NEW pc \in Ended, observed[k].pc \in Ended,
           Same \/ Drops, GoOn(k, pc), faults' \in 0..MaxFaults, faults' \in {faults, faults + 1},
           UNCHANGED <<conns, turn, events, receipt, sent, seen, orphaned>>
    PROVE  IInv'
<1>1. observed[k].pc \notin {"idle", "bind"}
    BY DEF Ended
<1>2. PICK c \in Command : c = observed[k].cmd /\ c \in sent
    BY <1>1, AtWork
<1>3. observed[k] \in Observation /\ observed \in [Connection -> Observation] /\ pc \in Doing
    BY DEF IInv, Typed, Doing
<1>4. /\ observed' \in [Connection -> Observation]
      /\ \A j \in Connection \ {k} : observed'[j] = observed[j]
      /\ observed'[k].pc = pc /\ observed'[k].todo = observed[k].todo /\ observed'[k].cmd = c
  <2>1. PICK o \in Observation : o = [observed[k] EXCEPT !.pc = pc]
    BY <1>3 DEF Observation
  <2>2. observed' = [observed EXCEPT ![k] = o]
    BY <2>1 DEF GoOn, Observes
  <2>3. o.pc = pc /\ o.todo = observed[k].todo /\ o.cmd = c
    BY <1>2, <1>3, <2>1 DEF Observation
  <2> QED
    BY <1>3, <2>2, <2>3
<1>5. reg'.scopes = reg.scopes /\ reg'.settling = reg.settling
    BY DEF Same, Drops
<1>6. Routes' /\ CompletedSeen' /\ receipt' \in [Command -> Disposition]
    BY <1>5, NoReceiptRoutes
<1>7. Handler(k)'
  <2>1. c \notin reg.scopes /\ reg.settling[k] \subseteq sent \ reg.scopes
    BY <1>2 DEF IInv, Handler
  <2> QED
    BY <1>2, <1>4, <1>5, <2>1 DEF Handler, Ended
<1>8. observed'[k].cmd = observed[k].cmd /\ Ending(observed'[k])
    BY <1>2, <1>4 DEF Ending
<1>9. orphaned' \subseteq Command
    BY DEF IInv, Typed
<1>10. /\ {} \in SUBSET Command /\ observed[k].todo \subseteq observed'[k].todo \cup {}
       /\ \A b \in Command \ {} : receipt'[b] = receipt[b]
       /\ \A b \in {} : Accounted(b)'
    BY <1>4
<1> QED
    BY <1>4, <1>6, <1>7, <1>8, <1>9, <1>10, CalmHandlerStep

LEMMA EndedLiveKeeps ==
    ASSUME IInv, NEW k \in Connection, EndedLive(k) \/ EndedEvents(k)
    PROVE  IInv'
<1>1. UNCHANGED <<conns, handle, turn, events, receipt, sent, seen, orphaned>>
      /\ observed[k].pc \in Ended
    BY DEF EndedLive, EndedEvents, Ended
<1>2. PICK ok \in BOOLEAN, pc \in Ended :
         /\ Claimed(k, ok) /\ GoOn(k, pc)
         /\ reg' = Lived(k, ok) \/ reg' = [reg EXCEPT !.subs = @ \ {observed[k].cmd}]
    BY DEF EndedLive, EndedEvents, Ended
<1>3. faults' \in 0..MaxFaults /\ faults' \in {faults, faults + 1}
      /\ (reg' = Lived(k, ok) => Same \/ Drops)
    BY <1>2, ClaimedIs
<1>4. Same \/ Drops
  <2>1. CASE reg' = [reg EXCEPT !.subs = @ \ {observed[k].cmd}]
    BY <2>1 DEF IInv, Typed, Reg, Same
  <2> QED
    BY <1>2, <1>3, <2>1
<1> QED
    BY <1>1, <1>2, <1>3, <1>4, EndedGoesOn

LEMMA StillTended ==
    ASSUME NEW k \in Connection, NEW b \in Command, UNCHANGED <<turn, events>>,
           \A j \in Connection \ {k} : observed'[j] = observed[j],
           observed[k].cmd # b \/ ~Ending(observed[k]),
           reg'.settling = reg.settling,
           b \in reg.staged \cup reg.aborting => b \in reg'.staged \cup reg'.aborting,
           Tended(b)
    PROVE  Tended(b)'
<1>1. \A j \in Connection : observed[j].cmd = b /\ Ending(observed[j]) =>
                            observed'[j].cmd = b /\ Ending(observed'[j])
    OBVIOUS
<1>2. \A j \in Connection : b \in reg.settling[j] => b \in reg'.settling[j]
    OBVIOUS
<1> QED
    BY <1>1, <1>2 DEF Tended, Ending

LEMMA EndedFailsKeeps ==
    ASSUME IInv, NEW k \in Connection, NEW c \in Command, observed[k].pc \in Ended,
           observed[k].cmd = c, NEW d \in {"interrupted", "indeterminate"},
           Terminalize(c, d, FALSE), EndedFails(k),
           UNCHANGED <<conns, turn, events, sent, seen>>
    PROVE  IInv'
<1>1. d \in Terminal /\ d # "completed"
    BY DEF Terminal
<1>2. /\ receipt' \in [Command -> Disposition] /\ faults' \in 0..MaxFaults
      /\ \A b \in Command \ {c} : receipt'[b] = receipt[b]
    BY <1>1, TerminalizeIs
<1>3. Same \/ Drops
    BY RemovedKinds DEF EndedFails
<1>4. reg'.scopes = reg.scopes /\ reg'.settling = reg.settling
      /\ reg.staged \cup reg.aborting \subseteq reg'.staged \cup reg'.aborting
    BY <1>3 DEF Same, Drops
<1>5. observed' = [observed EXCEPT ![k] = Idle]
      /\ GivesUp({c} \cup (observed[k].todo \cap reg.scopes))
    BY DEF EndedFails, Observes
<1>6. PICK todo \in SUBSET Command : todo = observed[k].todo
    BY DEF IInv, Typed, Observation
<1>7. /\ orphaned \subseteq orphaned' /\ orphaned' \subseteq Command
      /\ \A b \in {c} \cup (todo \cap reg.scopes) : receipt'[b] \in Open => b \in orphaned'
  <2>1. {c} \cup (todo \cap reg.scopes) \in SUBSET Command
    OBVIOUS
  <2> QED
    BY <1>5, <1>6, <2>1, GivenUp
<1>8. /\ observed' \in [Connection -> Observation] /\ observed'[k] = Idle
      /\ \A j \in Connection \ {k} : observed'[j] = observed[j]
    BY <1>5, IdleIs DEF IInv, Typed
<1>9. Routes' /\ CompletedSeen'
    BY <1>1, <1>4, Settlement
<1>10. Handler(k)'
  <2>1. reg.settling[k] \subseteq sent \ reg.scopes
    BY DEF IInv, Handler
  <2> QED
    BY <1>4, <1>8, <2>1, IdleIs DEF Handler, Ended
<1> DEFINE S == {c} \cup todo
<1>11. ASSUME NEW b \in S
       PROVE  Accounted(b)'
  <2>1. CASE b = c
    BY <1>7, <2>1 DEF Accounted
  <2>2. CASE b # c
    <3>1. b \in todo /\ b \in Command /\ receipt'[b] = receipt[b] /\ Accounted(b)
        BY <1>2, <1>11, <2>2 DEF IInv
    <3>2. Routed(b) /\ receipt'[b] \in Open => b \in orphaned'
        BY <1>7, <3>1 DEF Routed
    <3>3. Tended(b) => Tended(b)'
        BY <1>4, <1>8, <2>2, <3>1, StillTended
    <3> QED
        BY <1>7, <3>1, <3>2, <3>3 DEF Accounted
  <2> QED
    BY <2>1, <2>2
<1>12. /\ S \in SUBSET Command /\ observed[k].todo \subseteq observed'[k].todo \cup S
       /\ observed[k].cmd \in S /\ \A b \in Command \ S : receipt'[b] = receipt[b]
    BY <1>2, <1>6
<1> HIDE DEF S
<1> QED
    BY <1>2, <1>3, <1>7, <1>8, <1>9, <1>10, <1>11, <1>12, CalmHandlerStep

LEMMA EndedLostKeeps ==
    ASSUME IInv, NEW k \in Connection, EndedLost(k)
    PROVE  IInv'
<1>1. UNCHANGED <<conns, handle, turn, events, sent, seen>> /\ observed[k].pc = "ended lost"
      /\ observed[k].pc \in Ended
    BY DEF EndedLost, Ended
<1>2. PICK c \in Command : c = observed[k].cmd /\ c \in sent
    BY <1>1, AtWork
<1>3. PICK ok \in BOOLEAN :
         /\ Terminalize(c, "interrupted", ok)
         /\ \/ /\ ok /\ reg' = [reg EXCEPT !.subs = @ \ {c}]
               /\ observed' = [observed EXCEPT ![k] = [observed[k] EXCEPT !.pc = "ended terminal"]]
               /\ UNCHANGED orphaned
            \/ ~ok /\ EndedFails(k)
    BY <1>2 DEF EndedLost, GoOn, Observes
<1>4. CASE ~ok
  <2>1. Terminalize(c, "interrupted", FALSE) /\ EndedFails(k)
    BY <1>3, <1>4
  <2> QED
    BY <1>1, <1>2, <2>1, EndedFailsKeeps
<1>5. CASE ok
  <2>1. Same
    <3>1. reg' = [reg EXCEPT !.subs = @ \ {c}]
        BY <1>3, <1>5
    <3> QED
        BY <3>1 DEF IInv, Typed, Reg, Same
  <2>2. "interrupted" \in Terminal /\ c \notin reg.scopes
        /\ reg.settling[k] \subseteq sent \ reg.scopes
    BY <1>1, <1>2 DEF IInv, Handler, Terminal, Ended
  <2>3. /\ receipt' \in [Command -> Disposition] /\ faults' \in 0..MaxFaults
        /\ \A b \in Command \ {c} : receipt'[b] = receipt[b]
        /\ receipt'[c] \notin Open
    BY <1>3, <1>5, <2>2, TerminalizeIs
  <2>4. PICK o \in Observation : o = [observed[k] EXCEPT !.pc = "ended terminal"]
    BY DEF IInv, Typed, Observation, Doing, Ended
  <2>5. o.pc = "ended terminal" /\ o.todo = observed[k].todo /\ o.cmd = c
    BY <1>2, <2>4 DEF IInv, Typed, Observation
  <2>6. /\ observed' \in [Connection -> Observation] /\ observed'[k] = o
        /\ \A j \in Connection \ {k} : observed'[j] = observed[j]
    BY <1>3, <1>5, <2>4 DEF IInv, Typed
  <2>7. Routes' /\ CompletedSeen'
    BY <1>1, <1>3, <2>1, <2>2, Settlement DEF Same
  <2>8. Handler(k)'
    BY <1>1, <1>2, <2>1, <2>2, <2>5, <2>6 DEF Handler, Same, Ended
  <2>9. /\ {c} \in SUBSET Command /\ observed[k].todo \subseteq observed'[k].todo \cup {c}
        /\ observed[k].cmd \in {c} /\ \A b \in {c} : Accounted(b)'
    BY <1>2, <2>3, <2>5, <2>6 DEF Accounted
  <2>10. orphaned \subseteq orphaned' /\ orphaned' \subseteq Command
    BY <1>3, <1>5 DEF IInv, Typed
  <2> QED
    BY <1>1, <2>1, <2>3, <2>6, <2>7, <2>8, <2>9, <2>10, CalmHandlerStep
<1> QED
    BY <1>4, <1>5

\* The next command of the loop is taken, or the sessions are bound.
LEMMA TakeEndedIs ==
    ASSUME NEW r \in Reg, NEW k \in Connection, NEW todo \in SUBSET Command,
           observed \in [Connection -> Observation], TakeEnded(r, k, todo)
    PROVE  /\ reg' \in Reg
           /\ reg'.entry = r.entry /\ reg'.bound = r.bound /\ reg'.active = r.active
           /\ reg'.staged = r.staged /\ reg'.aborting = r.aborting
           /\ reg'.refresh = r.refresh /\ reg'.settle = r.settle /\ reg'.settling = r.settling
           /\ reg'.scopes \subseteq r.scopes /\ r.scopes \subseteq reg'.scopes \cup todo
           /\ observed' \in [Connection -> Observation]
           /\ \A j \in Connection \ {k} : observed'[j] = observed[j]
           /\ \/ observed'[k].pc = "bind" /\ observed'[k].todo = {}
              \/ /\ observed'[k].pc = "ended live"
                 /\ observed'[k].cmd \in r.scopes /\ observed'[k].cmd \notin reg'.scopes
           /\ \A b \in todo \cap r.scopes :
                 \/ b \in reg'.scopes /\ b \in observed'[k].todo
                 \/ observed'[k].cmd = b /\ Ending(observed'[k])
<1>1. CASE todo \cap r.scopes = {} /\ reg' = r /\ Observes(k, [Idle EXCEPT !.pc = "bind"])
  <2>1. PICK o \in Observation : o = [Idle EXCEPT !.pc = "bind"]
    BY DEF Idle, Observation, Doing, Kind
  <2>2. o.pc = "bind" /\ o.todo = {}
    BY <2>1 DEF Idle
  <2>3. /\ observed' \in [Connection -> Observation] /\ observed'[k] = o
        /\ \A j \in Connection \ {k} : observed'[j] = observed[j]
    BY <1>1, <2>1 DEF Observes
  <2> QED
    BY <1>1, <2>2, <2>3
<1>2. ASSUME NEW c \in todo \cap r.scopes, NEW passed \in SUBSET (todo \ r.scopes),
             reg' = Released(r, c),
             Observes(k, [Idle EXCEPT !.pc = "ended live", !.cmd = c,
                                      !.todo = todo \ (passed \cup {c})])
      PROVE  /\ reg' \in Reg
             /\ reg'.entry = r.entry /\ reg'.bound = r.bound /\ reg'.active = r.active
             /\ reg'.staged = r.staged /\ reg'.aborting = r.aborting
             /\ reg'.refresh = r.refresh /\ reg'.settle = r.settle /\ reg'.settling = r.settling
             /\ reg'.scopes = r.scopes \ {c}
             /\ observed' \in [Connection -> Observation]
             /\ \A j \in Connection \ {k} : observed'[j] = observed[j]
             /\ observed'[k].pc = "ended live" /\ observed'[k].cmd = c
             /\ observed'[k].todo = todo \ (passed \cup {c})
  <2>1. PICK o \in Observation : o = [Idle EXCEPT !.pc = "ended live", !.cmd = c,
                                                  !.todo = todo \ (passed \cup {c})]
    BY DEF Idle, Observation, Doing, Kind, Ended
  <2>2. o.pc = "ended live" /\ o.cmd = c /\ o.todo = todo \ (passed \cup {c})
    BY <2>1 DEF Idle
  <2>3. /\ observed' \in [Connection -> Observation] /\ observed'[k] = o
        /\ \A j \in Connection \ {k} : observed'[j] = observed[j]
    BY <1>2, <2>1 DEF Observes
  <2>4. /\ reg' \in Reg
        /\ reg'.entry = r.entry /\ reg'.bound = r.bound /\ reg'.active = r.active
        /\ reg'.staged = r.staged /\ reg'.aborting = r.aborting
        /\ reg'.refresh = r.refresh /\ reg'.settle = r.settle /\ reg'.settling = r.settling
        /\ reg'.scopes = r.scopes \ {c}
    BY <1>2 DEF Released, Reg
  <2> QED
    BY <2>2, <2>3, <2>4
<1>3. CASE \E c \in todo \cap r.scopes, passed \in SUBSET (todo \ r.scopes) :
              /\ reg' = Released(r, c)
              /\ Observes(k, [Idle EXCEPT !.pc = "ended live", !.cmd = c,
                                          !.todo = todo \ (passed \cup {c})])
  <2>1. PICK c \in todo \cap r.scopes, passed \in SUBSET (todo \ r.scopes) :
              /\ reg' = Released(r, c)
              /\ Observes(k, [Idle EXCEPT !.pc = "ended live", !.cmd = c,
                                          !.todo = todo \ (passed \cup {c})])
    BY <1>3
  <2>2. /\ reg' \in Reg
        /\ reg'.entry = r.entry /\ reg'.bound = r.bound /\ reg'.active = r.active
        /\ reg'.staged = r.staged /\ reg'.aborting = r.aborting
        /\ reg'.refresh = r.refresh /\ reg'.settle = r.settle /\ reg'.settling = r.settling
        /\ reg'.scopes = r.scopes \ {c}
        /\ observed' \in [Connection -> Observation]
        /\ \A j \in Connection \ {k} : observed'[j] = observed[j]
        /\ observed'[k].pc = "ended live" /\ observed'[k].cmd = c
        /\ observed'[k].todo = todo \ (passed \cup {c})
    BY <1>2, <2>1
  <2>3. Ending(observed'[k])
    BY <2>2 DEF Ending, Ended
  <2>4. \A b \in todo \cap r.scopes :
           b # c => b \in reg'.scopes /\ b \in observed'[k].todo
    BY <2>2
  <2> QED
    BY <2>2, <2>3, <2>4
<1> QED
    BY <1>1, <1>3 DEF TakeEnded

\* A step of the loop over the commands todo that takes the next one, after it has
\* settled those in ended.
LEMMA LoopStep ==
    ASSUME IInv, NEW k \in Connection, NEW r \in Reg, NEW todo \in SUBSET Command,
           NEW ended \in SUBSET Command, TakeEnded(r, k, todo),
           r.entry = reg.entry, r.bound => reg.bound, r.staged = reg.staged,
           r.aborting = reg.aborting, r.refresh = reg.refresh, r.settle = reg.settle,
           r.settling = reg.settling, r.scopes = reg.scopes,
           r.active \subseteq reg.active, reg.active \subseteq r.active \cup todo,
           observed[k].todo \subseteq todo, ~Ending(observed[k]) \/ observed[k].cmd \in ended,
           receipt' \in [Command -> Disposition],
           \A b \in Command \ ended : receipt'[b] = receipt[b],
           \A b \in ended : receipt'[b] \notin Open,
           faults' \in 0..MaxFaults, UNCHANGED <<conns, turn, events, sent, seen, orphaned>>,
           Routes', CompletedSeen'
    PROVE  IInv'
<1> DEFINE S == todo \cup ended
<1>1. observed \in [Connection -> Observation] /\ seen' \subseteq Command /\ orphaned' \subseteq Command
    BY DEF IInv, Typed
<1>2. /\ reg' \in Reg
      /\ reg'.entry = r.entry /\ reg'.bound = r.bound /\ reg'.active = r.active
      /\ reg'.staged = r.staged /\ reg'.aborting = r.aborting
      /\ reg'.refresh = r.refresh /\ reg'.settle = r.settle /\ reg'.settling = r.settling
      /\ reg'.scopes \subseteq r.scopes /\ r.scopes \subseteq reg'.scopes \cup todo
      /\ observed' \in [Connection -> Observation]
      /\ \A j \in Connection \ {k} : observed'[j] = observed[j]
  <2>1. /\ reg' \in Reg
        /\ reg'.entry = r.entry /\ reg'.bound = r.bound /\ reg'.active = r.active
        /\ reg'.staged = r.staged /\ reg'.aborting = r.aborting
        /\ reg'.refresh = r.refresh /\ reg'.settle = r.settle /\ reg'.settling = r.settling
    BY <1>1, TakeEndedIs
  <2>2. reg'.scopes \subseteq r.scopes /\ r.scopes \subseteq reg'.scopes \cup todo
    BY <1>1, TakeEndedIs
  <2>3. observed' \in [Connection -> Observation]
    BY <1>1, TakeEndedIs
  <2>4. \A j \in Connection \ {k} : observed'[j] = observed[j]
    BY <1>1 DEF TakeEnded, Observes
  <2> QED
    BY <2>1, <2>2, <2>3, <2>4
<1>3. \/ observed'[k].pc = "bind" /\ observed'[k].todo = {}
      \/ /\ observed'[k].pc = "ended live"
         /\ observed'[k].cmd \in r.scopes /\ observed'[k].cmd \notin reg'.scopes
    BY <1>1, TakeEndedIs
<1>4. \A b \in todo \cap r.scopes :
         \/ b \in reg'.scopes /\ b \in observed'[k].todo
         \/ observed'[k].cmd = b /\ Ending(observed'[k])
    BY <1>1, TakeEndedIs
<1>5. RegBeside(S, {k})
    BY <1>2, Apart, ConnectionIs DEF RegBeside
<1>6. Attached' /\ RefreshAlone'
    BY <1>2 DEF IInv, Attached, RefreshAlone
<1>7. Handler(k)'
  <2>1. reg.settling[k] \subseteq sent \ reg.scopes /\ reg.scopes \subseteq sent
    BY DEF IInv, Handler, Routes
  <2> QED
    BY <1>2, <1>3, <2>1 DEF Handler, Ended
<1>8. ASSUME NEW b \in S
      PROVE  Accounted(b)'
  <2>1. CASE b \in ended
    BY <2>1 DEF Accounted
  <2>2. CASE b \notin ended
    <3>1. b \in todo /\ b \in Command /\ receipt'[b] = receipt[b] /\ Accounted(b)
        BY <1>8, <2>2 DEF IInv
    <3>2. Routed(b) => Routed(b)' \/ Tended(b)'
        BY <1>4, <3>1 DEF Routed, Tended, Ending
    <3>3. Tended(b) => Tended(b)'
        BY <1>2, <2>2, <3>1, StillTended
    <3> QED
        BY <3>1, <3>2, <3>3 DEF Accounted
  <2> QED
    BY <2>1, <2>2
<1>9. /\ S \in SUBSET Command /\ observed[k].todo \subseteq observed'[k].todo \cup S
      /\ ~Ending(observed[k]) \/ observed[k].cmd \in S
      /\ \A b \in Command \ S : receipt'[b] = receipt[b]
    OBVIOUS
<1>10. /\ reg'.staged \subseteq reg.staged /\ reg'.aborting \subseteq reg.staged \cup reg.aborting
       /\ reg'.staged \cap reg'.aborting = {}
    BY <1>2, Apart DEF IInv, Typed, Reg
<1> HIDE DEF S
<1> QED
    BY <1>1, <1>2, <1>5, <1>6, <1>7, <1>8, <1>9, <1>10, HandlerStep

LEMMA InventoryKeeps ==
    ASSUME IInv, NEW answer \in BOOLEAN, Inventory(answer)
    PROVE  IInv'
<1>1. /\ UNCHANGED <<conns, handle, turn, events, receipt, sent, seen, orphaned, faults>>
      /\ reg.entry # 0 /\ observed[reg.entry] = Idle /\ reg.inv < MaxInventories
    BY DEF Inventory
<1>2. PICK k \in Connection : k = reg.entry
    BY <1>1, ConnectionIs
<1>3. PICK r \in Reg : r = [reg EXCEPT !.inv = @ + 1, !.bound = FALSE, !.active = {},
                                       !.answered = answer]
  <2>1. reg \in Reg /\ reg.inv + 1 \in 0..MaxInventories
    BY <1>1, BoundAssumption DEF IInv, Typed, Reg
  <2> QED
    BY <2>1 DEF Reg
<1>4. /\ r.entry = reg.entry /\ r.bound = FALSE /\ r.staged = reg.staged
      /\ r.aborting = reg.aborting /\ r.refresh = reg.refresh /\ r.settle = reg.settle
      /\ r.settling = reg.settling /\ r.scopes = reg.scopes /\ r.active = {}
    BY <1>3 DEF IInv, Typed, Reg
<1>5. PICK todo \in SUBSET Command : todo = reg.active
    BY DEF IInv, Typed, Reg
<1>6. TakeEnded(r, k, todo)
    BY <1>2, <1>3, <1>5 DEF Inventory
<1>7. observed \in [Connection -> Observation] /\ receipt' \in [Command -> Disposition]
    BY <1>1 DEF IInv, Typed
<1>8. reg'.scopes \subseteq reg.scopes
    BY <1>4, <1>6, <1>7, TakeEndedIs
<1>9. Routes' /\ CompletedSeen'
    BY <1>1, <1>8, FaultIs, NoReceiptRoutes
<1>10. observed[k].todo = {} /\ ~Ending(observed[k])
    BY <1>1, <1>2, IdleIs
<1>11. {} \in SUBSET Command /\ (\A b \in {} : receipt'[b] \notin Open)
       /\ \A b \in Command \ {} : receipt'[b] = receipt[b]
    BY <1>1
<1> QED
    BY <1>1, <1>4, <1>5, <1>6, <1>7, <1>9, <1>10, <1>11, FaultIs, LoopStep

LEMMA EndedTerminalKeeps ==
    ASSUME IInv, NEW k \in Connection, EndedTerminal(k)
    PROVE  IInv'
<1>1. UNCHANGED <<conns, handle, turn, events, sent, seen>> /\ observed[k].pc = "ended terminal"
      /\ observed[k].pc \in Ended
    BY DEF EndedTerminal, Ended
<1>2. PICK c \in Command : c = observed[k].cmd /\ c \in sent
    BY <1>1, AtWork
<1>3. PICK todo \in SUBSET Command : todo = observed[k].todo
    BY DEF IInv, Typed, Observation
<1>4. PICK ok \in BOOLEAN :
         /\ Terminalize(c, "indeterminate", ok)
         /\ \/ ok /\ TakeEnded(reg, k, todo) /\ UNCHANGED orphaned
            \/ ~ok /\ EndedFails(k)
    BY <1>2, <1>3 DEF EndedTerminal
<1>5. CASE ~ok
  <2>1. Terminalize(c, "indeterminate", FALSE) /\ EndedFails(k)
    BY <1>4, <1>5
  <2> QED
    BY <1>1, <1>2, <2>1, EndedFailsKeeps
<1>6. CASE ok
  <2>1. PICK r \in Reg : r = reg
    BY DEF IInv, Typed
  <2>2. TakeEnded(r, k, todo) /\ UNCHANGED orphaned
    BY <1>4, <1>6, <2>1
  <2>3. "indeterminate" \in Terminal /\ c \notin reg.scopes
    BY <1>1, <1>2 DEF IInv, Handler, Terminal
  <2>4. /\ receipt' \in [Command -> Disposition] /\ faults' \in 0..MaxFaults
        /\ \A b \in Command \ {c} : receipt'[b] = receipt[b]
        /\ receipt'[c] \notin Open
    BY <1>4, <1>6, <2>3, TerminalizeIs
  <2>5. reg'.scopes \subseteq reg.scopes
    <3>1. observed \in [Connection -> Observation]
        BY DEF IInv, Typed
    <3> QED
        BY <2>1, <2>2, <3>1, TakeEndedIs
  <2>6. Routes' /\ CompletedSeen'
    BY <1>1, <1>4, <2>3, <2>5, Settlement
  <2>7. /\ {c} \in SUBSET Command /\ \A b \in {c} : receipt'[b] \notin Open
        /\ observed[k].cmd \in {c} /\ observed[k].todo \subseteq todo
    BY <1>2, <1>3, <2>4
  <2> QED
    BY <1>1, <2>1, <2>2, <2>4, <2>6, <2>7, LoopStep
<1> QED
    BY <1>5, <1>6

LEMMA BindInventoryKeeps ==
    ASSUME IInv, NEW k \in Connection, BindInventory(k)
    PROVE  IInv'
<1>1. UNCHANGED <<conns, handle, turn, events, receipt, sent, seen, orphaned>>
      /\ observed[k].pc = "bind" /\ observed' = [observed EXCEPT ![k] = Idle]
    BY DEF BindInventory, Observes
<1>2. /\ observed' \in [Connection -> Observation] /\ observed'[k] = Idle
      /\ \A j \in Connection \ {k} : observed'[j] = observed[j]
    BY <1>1, IdleIs DEF IInv, Typed
<1>3. observed[k].todo = {} /\ ~Ending(observed[k]) /\ reg.settling[k] \subseteq sent \ reg.scopes
    BY <1>1 DEF IInv, Handler, Ended, Ending
<1>4. \/ reg.entry = k /\ UNCHANGED faults
         /\ reg' = [reg EXCEPT !.bound = TRUE,
                       !.refresh = IF @ = "wait" /\ reg.answered THEN "idle" ELSE @,
                       !.answered = FALSE]
      \/ (Same \/ Drops) /\ (Fault \/ UNCHANGED faults)
  <2>1. k # 0
    BY ConnectionIs
  <2>2. CASE reg.entry = k /\ Fault /\ reg' = Detached(reg)
    BY <2>1, <2>2, DetachedDrops
  <2>3. CASE reg.entry # k /\ UNCHANGED <<reg, faults>>
    BY <2>3, SameReg
  <2> QED
    BY <2>2, <2>3 DEF BindInventory
<1>5. faults' \in 0..MaxFaults /\ faults' \in {faults, faults + 1}
    BY <1>4, FaultIs
<1>6. /\ {} \in SUBSET Command /\ observed[k].todo \subseteq observed'[k].todo \cup {}
      /\ \A b \in Command \ {} : receipt'[b] = receipt[b]
      /\ \A b \in {} : Accounted(b)'
    BY <1>1, <1>3
<1>7. orphaned \subseteq orphaned' /\ orphaned' \subseteq Command /\ seen' \subseteq Command
    BY <1>1 DEF IInv, Typed
<1>8. CASE Same \/ Drops
  <2>1. reg'.scopes = reg.scopes /\ reg'.settling = reg.settling
    BY <1>8 DEF Same, Drops
  <2>2. Routes' /\ CompletedSeen' /\ receipt' \in [Command -> Disposition]
    BY <1>1, <1>5, <2>1, NoReceiptRoutes
  <2>3. Handler(k)'
    BY <1>1, <1>2, <1>3, <2>1, IdleIs DEF Handler, Ended
  <2> QED
    BY <1>1, <1>2, <1>3, <1>5, <1>6, <1>7, <1>8, <2>2, <2>3, CalmHandlerStep
<1>9. CASE /\ reg.entry = k /\ UNCHANGED faults
           /\ reg' = [reg EXCEPT !.bound = TRUE,
                         !.refresh = IF @ = "wait" /\ reg.answered THEN "idle" ELSE @,
                         !.answered = FALSE]
  <2>1. PICK f \in {"idle", "wait"} :
            f = (IF reg.refresh = "wait" /\ reg.answered THEN "idle" ELSE reg.refresh)
    BY DEF IInv, Typed, Reg
  <2>2. reg' = [reg EXCEPT !.bound = TRUE, !.refresh = f, !.answered = FALSE]
    BY <1>9, <2>1
  <2>3. /\ reg' \in Reg
        /\ reg'.entry = reg.entry /\ reg'.active = reg.active
        /\ reg'.staged = reg.staged /\ reg'.aborting = reg.aborting
        /\ reg'.scopes = reg.scopes /\ reg'.refresh = f
        /\ reg'.settle = reg.settle /\ reg'.settling = reg.settling
    BY <2>2 DEF IInv, Typed, Reg
  <2>4. f = "wait" => reg.refresh = "wait"
    BY <2>1
  <2>5. RegBeside({}, {k})
    BY <1>1, <2>3, Apart, ConnectionIs DEF RegBeside
  <2>6. Attached' /\ RefreshAlone'
    <3>1. reg.entry # 0
        BY <1>9, ConnectionIs
    <3> QED
        BY <1>1, <2>3, <2>4, <3>1 DEF IInv, Attached, RefreshAlone
  <2>7. Routes' /\ CompletedSeen' /\ receipt' \in [Command -> Disposition]
    BY <1>1, <1>5, <2>3, NoReceiptRoutes
  <2>8. Handler(k)'
    BY <1>1, <1>2, <1>3, <2>3, IdleIs DEF Handler, Ended
  <2>9. reg'.staged \cap reg'.aborting = {}
    BY <2>3, Apart DEF IInv, Typed, Reg
  <2> QED
    BY <1>1, <1>2, <1>3, <1>5, <1>6, <1>7, <2>3, <2>5, <2>6, <2>7, <2>8, <2>9, HandlerStep
<1> QED
    BY <1>4, <1>8, <1>9

LEMMA MessageKeeps ==
    ASSUME IInv, NEW c \in Command, NEW kind \in Kind, Message(c, kind)
    PROVE  IInv'
<1>1. /\ UNCHANGED <<conns, handle, turn, events, receipt, sent, seen, orphaned, faults>>
      /\ reg.entry # 0 /\ observed[reg.entry] = Idle /\ c \in reg.active /\ c \in sent
    BY DEF Message
<1>2. PICK k \in Connection : k = reg.entry
    BY <1>1, ConnectionIs
<1>3. PICK A \in SUBSET Command : A = (IF kind = "event" THEN reg.active ELSE reg.active \ {c})
    BY DEF IInv, Typed, Reg
<1>4. /\ reg' = [reg EXCEPT !.active = A]
      /\ observed' = [observed EXCEPT ![k] =
                         IF c \in reg.scopes
                         THEN [pc |-> "live", cmd |-> c, kind |-> kind, todo |-> {}]
                         ELSE Idle]
    BY <1>2, <1>3 DEF Message, Observes
<1>5. /\ reg' \in Reg
      /\ reg'.entry = reg.entry /\ reg'.bound = reg.bound /\ reg'.active = A
      /\ reg'.staged = reg.staged /\ reg'.aborting = reg.aborting
      /\ reg'.scopes = reg.scopes /\ reg'.refresh = reg.refresh
      /\ reg'.settle = reg.settle /\ reg'.settling = reg.settling
    BY <1>4 DEF IInv, Typed, Reg
<1>6. PICK o \in Observation :
          /\ c \in reg.scopes => o = [pc |-> "live", cmd |-> c, kind |-> kind, todo |-> {}]
          /\ c \notin reg.scopes => o = Idle
          /\ observed' = [observed EXCEPT ![k] = o]
  <2>1. [pc |-> "live", cmd |-> c, kind |-> kind, todo |-> {}] \in Observation
    BY DEF Observation, Doing
  <2>2. CASE c \in reg.scopes
    BY <1>4, <2>1, <2>2
  <2>3. CASE c \notin reg.scopes
    BY <1>4, <2>3, IdleIs
  <2> QED
    BY <2>2, <2>3
<1>7. /\ observed' \in [Connection -> Observation] /\ observed'[k] = o
      /\ \A j \in Connection \ {k} : observed'[j] = observed[j]
    BY <1>6 DEF IInv, Typed
<1>8. Routes' /\ CompletedSeen' /\ receipt' \in [Command -> Disposition]
    BY <1>1, <1>5, FaultIs, NoReceiptRoutes
<1>9. Handler(k)'
  <2>1. reg.settling[k] \subseteq sent \ reg.scopes
    BY DEF IInv, Handler
  <2>2. \/ o.pc = "live" /\ o.cmd = c /\ o.todo = {}
        \/ o.pc = "idle" /\ o.todo = {}
    BY <1>6, IdleIs
  <2> QED
    BY <1>1, <1>5, <1>7, <2>1, <2>2 DEF Handler, Ended
<1>10. /\ observed[k].todo = {} /\ ~Ending(observed[k])
       /\ seen' \subseteq Command /\ orphaned' \subseteq Command
    BY <1>1, <1>2, IdleIs DEF IInv, Typed
<1>11. Attached' /\ RefreshAlone'
    BY <1>1, <1>3, <1>5 DEF IInv, Attached, RefreshAlone
<1>12. reg'.staged \cap reg'.aborting = {}
    BY <1>5, Apart DEF IInv, Typed, Reg
<1> DEFINE S == IF kind = "event" THEN {} ELSE {c}
<1>13. RegBeside(S, {k})
  <2>1. \A b \in Command \ S : b \in reg.active => b \in reg'.active
    BY <1>3, <1>5
  <2> HIDE DEF S
  <2> QED
    BY <1>1, <1>5, <2>1, Apart, ConnectionIs DEF RegBeside
<1>14. ASSUME NEW b \in S
       PROVE  Accounted(b)'
  <2>1. b = c /\ kind # "event" /\ Accounted(c)
    BY <1>14 DEF IInv
  <2>2. CASE c \in reg.scopes
    <3>1. observed'[k].cmd = c /\ Ending(observed'[k])
      <4>1. o.pc = "live" /\ o.cmd = c /\ o.kind # "event"
        BY <1>6, <2>1, <2>2
      <4>2. Ending(o)
        BY <4>1 DEF Ending, Doing
      <4> QED
        BY <1>7, <4>1, <4>2
    <3> QED
        BY <2>1, <3>1 DEF Accounted, Tended, Ending
  <2>3. CASE c \notin reg.scopes
    <3>1. Tended(c) => Tended(c)'
        BY <1>1, <1>5, <1>7, <1>10, StillTended
    <3> QED
        BY <1>1, <2>1, <2>3, <3>1 DEF Accounted, Routed
  <2> QED
    BY <2>2, <2>3
<1>15. /\ S \in SUBSET Command /\ observed[k].todo \subseteq observed'[k].todo \cup S
       /\ \A b \in Command \ S : receipt'[b] = receipt[b]
    BY <1>1, <1>10
<1> HIDE DEF S
<1> QED
    BY <1>1, <1>5, <1>7, <1>8, <1>9, <1>10, <1>11, <1>12, <1>13, <1>14, <1>15, FaultIs, HandlerStep

(***************************************************************************)
(* The invariant, and what follows from it.                                *)
(***************************************************************************)
LEMMA InitIInv ==
    ASSUME Init
    PROVE  IInv
<1> DEFINE none == [k \in Connection |-> {}]
<1>1. none \in [Connection -> SUBSET Command] /\ 0 \in 0..MaxConnections /\ 0 \in 0..MaxInventories
      /\ 0 \in 0..MaxFaults
    BY BoundAssumption
<1>2. reg = [entry |-> 0, inv |-> 0, bound |-> FALSE, answered |-> FALSE, active |-> {},
             staged |-> {}, scopes |-> {}, subs |-> {}, refresh |-> "idle", aborting |-> {},
             settle |-> none, settling |-> none]
    BY DEF Init
<1>3. /\ reg.entry = 0 /\ reg.bound = FALSE /\ reg.active = {} /\ reg.staged = {}
      /\ reg.scopes = {} /\ reg.aborting = {} /\ reg.refresh = "idle"
      /\ \A k \in Connection : reg.settle[k] = {} /\ reg.settling[k] = {}
    BY <1>2
<1>4. reg \in Reg
  <2> HIDE DEF none
  <2> QED
    BY <1>1, <1>2 DEF Reg
<1>5. /\ turn \in [Command -> Post] /\ events \in [Command -> Stream]
      /\ \A c \in Command : turn[c] = Rest /\ events[c] = Rest
    BY <1>1 DEF Init, Rest, Post, Stream
<1>6. observed \in [Connection -> Observation] /\ \A k \in Connection : observed[k] = Idle
    BY IdleIs DEF Init
<1>7. /\ receipt \in [Command -> Disposition] /\ \A c \in Command : receipt[c] = "none"
      /\ conns = 0 /\ sent = {} /\ seen = {} /\ orphaned = {} /\ faults = 0
    BY DEF Init, Disposition
<1>8. Typed
    BY <1>1, <1>4, <1>5, <1>6, <1>7 DEF Typed
<1>9. Attached /\ RefreshAlone /\ CompletedSeen
    BY <1>3, <1>7 DEF Attached, RefreshAlone, CompletedSeen
<1>10. Routes
  <2>1. Settled = {}
    BY <1>3 DEF Settled
  <2> QED
    BY <1>3, <1>7, <2>1, FS_EmptySet DEF Routes
<1>11. ASSUME NEW c \in Command
       PROVE  Life(c) /\ Accounted(c)
  <2>1. 0 \in 0..conns
    BY <1>7
  <2> QED
    BY <1>3, <1>5, <1>7, <2>1 DEF Life, Accounted, Rest, Open
<1>12. ASSUME NEW k \in Connection
       PROVE  Handler(k)
    BY <1>3, <1>6, IdleIs DEF Handler, Ended
<1> QED
    BY <1>8, <1>9, <1>10, <1>11, <1>12 DEF IInv

LEMMA StutterKeeps ==
    ASSUME IInv, UNCHANGED vars
    PROVE  IInv'
<1>1. UNCHANGED <<conns, turn, events, observed, receipt, sent, seen, orphaned, faults>>
      /\ reg' = reg
    BY DEF vars
<1> QED
    BY <1>1, SameReg, CalmRegKeeps

LEMMA NextIInv ==
    ASSUME IInv, [Next]_vars
    PROVE  IInv'
<1>1. CASE Attach \/ Close \/ RefreshSend \/ RefreshTimeout
    BY <1>1, AttachKeeps, CloseKeeps, RefreshKeeps
<1>2. ASSUME NEW answer \in BOOLEAN, Inventory(answer)
      PROVE  IInv'
    BY <1>2, InventoryKeeps
<1>3. ASSUME NEW c \in Command,
             \/ TurnAccept(c) \/ TurnStaged(c) \/ TurnTerminalize(c)
             \/ Abort(c) \/ Expire(c) \/ StreamLost(c)
      PROVE  IInv'
    BY <1>3, TurnAcceptKeeps, TurnStagedKeeps, TurnTerminalizeKeeps, AbortKeeps, ExpireKeeps,
       StreamLostKeeps
<1>4. ASSUME NEW c \in Command,
             \/ EventsOpen(c) \/ EventsStart(c) \/ EventsSend(c) \/ EventsSendFails(c)
             \/ EventsAbort(c)
      PROVE  IInv'
    BY <1>4, EventsOpenKeeps, EventsStartKeeps, EventsSendKeeps, EventsSendFailsKeeps,
       EventsAbortKeeps
<1>5. ASSUME NEW c \in Command, NEW kind \in Terminal \cup {"event"}, Message(c, kind)
      PROVE  IInv'
    BY <1>5, MessageKeeps DEF Kind
<1>6. ASSUME NEW k \in Connection,
             \/ SettleTake(k) \/ SettleTerminal(k)
             \/ ObserveLive(k) \/ ObserveEvents(k) \/ ObserveLost(k) \/ ObserveTerminal(k)
      PROVE  IInv'
    BY <1>6, SettleTakeKeeps, SettleTerminalKeeps, ObserveLiveKeeps, ObserveEventsKeeps,
       ObserveLostKeeps, ObserveTerminalKeeps
<1>7. ASSUME NEW k \in Connection,
             \/ EndedLive(k) \/ EndedEvents(k) \/ EndedLost(k)
             \/ EndedTerminal(k) \/ BindInventory(k)
      PROVE  IInv'
    BY <1>7, EndedLiveKeeps, EndedLostKeeps, EndedTerminalKeeps, BindInventoryKeeps
<1>8. CASE Done \/ UNCHANGED vars
    BY <1>8, StutterKeeps DEF Done
<1> QED
    BY <1>1, <1>2, <1>3, <1>4, <1>5, <1>6, <1>7, <1>8 DEF Next

LEMMA Invariance == Spec => []IInv
<1>1. Init => IInv
    BY InitIInv
<1>2. IInv /\ [Next]_vars => IInv'
    BY NextIInv
<1> QED
    BY <1>1, <1>2, PTL DEF Spec

LEMMA IInvTypeOK ==
    ASSUME IInv
    PROVE  TypeOK
<1> USE DEF IInv
<1>1. /\ reg.entry \in 0..conns /\ conns \in 0..MaxConnections
      /\ reg.inv \in 0..MaxInventories
      /\ {reg.bound, reg.answered} \subseteq BOOLEAN
      /\ UNION {reg.active, reg.staged, reg.scopes, reg.subs, reg.aborting} \subseteq Command
      /\ reg.refresh \in {"idle", "wait"}
    BY ConnectionIs DEF Typed, Reg, Attached
<1>2. ASSUME NEW k \in Connection
      PROVE  /\ reg.settle[k] \cup reg.settling[k] \cup observed[k].todo \subseteq Command
             /\ Cardinality(reg.settling[k]) <= 1
             /\ observed[k].cmd \in Command \cup {NoCommand}
             /\ observed[k].kind \in Terminal \cup {"event"}
  <2>1. Cardinality(reg.settling[k]) = 0 \/ Cardinality(reg.settling[k]) = 1
    <3>1. reg.settling[k] = {} \/ \E a : reg.settling[k] = {a}
      <4>1. \A a, b \in reg.settling[k] : a = b
        BY DEF Attached
      <4>2. ASSUME NEW a \in reg.settling[k]
            PROVE  reg.settling[k] = {a}
        BY <4>1, <4>2
      <4> QED
        BY <4>2
    <3>2. Cardinality({}) = 0 /\ \A a : Cardinality({a}) = 1
        BY FS_EmptySet, FS_Singleton
    <3> QED
        BY <3>1, <3>2, Zenon
  <2>2. observed[k] \in Observation
    BY DEF Typed
  <2> QED
    BY <2>1, <2>2 DEF Typed, Reg, Observation, Kind
<1>3. \A c \in Command : /\ turn[c].at \in 0..conns /\ events[c].at \in 0..conns
                         /\ receipt[c] \in Terminal \cup Open \cup {"none"}
    BY DEF Life, Typed, Disposition
<1>4. /\ sent \cup seen \cup orphaned \subseteq Command
      /\ faults \in 0..MaxFaults
      /\ reg.entry = 0 => reg.active = {} /\ reg.staged = {} /\ reg.refresh # "wait"
    BY DEF Typed, Attached
<1> QED
    BY <1>1, <1>2, <1>3, <1>4 DEF TypeOK

LEMMA IInvOpenAccounted ==
    ASSUME IInv
    PROVE  OpenAccounted
<1>1. ASSUME NEW c \in Command, receipt[c] \in Open, Quiet(c)
      PROVE  c \in reg.staged \/ c \in reg.active \cap reg.scopes \/ c \in orphaned
  <2>1. Routed(c) \/ Tended(c) \/ c \in orphaned
    BY <1>1 DEF IInv, Accounted
  <2>2. Routed(c) => c \in reg.active \cap reg.scopes
    BY <1>1 DEF Quiet, Routed
  <2>3. Tended(c) => c \in reg.staged
    BY <1>1 DEF Quiet, Tended
  <2> QED
    BY <2>1, <2>2, <2>3
<1>2. ScopesRouted
  <2> DEFINE X == {c \in reg.scopes \ (reg.active \cup orphaned) : Quiet(c)}
  <2>1. X \subseteq Settled
    <3>1. \A c \in reg.scopes : c \in Command /\ c \notin reg.staged
        BY Apart DEF IInv, Typed, Reg
    <3> QED
        BY <1>1, <3>1 DEF Settled
  <2>2. IsFiniteSet(Settled) /\ Cardinality(Settled) <= faults
    BY FS_Subset DEF IInv, Routes, Settled
  <2>3. Cardinality(X) <= Cardinality(Settled) /\ Cardinality(X) \in Nat
        /\ Cardinality(Settled) \in Nat
    BY <2>1, <2>2, FS_Subset, FS_CardinalityType
  <2> QED
    BY <2>2, <2>3, FaultIs DEF ScopesRouted
<1> QED
    BY <1>1, <1>2 DEF OpenAccounted

\* Every variable has its type; at most one command of a connection is being
\* settled; without a connection nothing runs, is staged or is refreshed.
THEOREM TypeTheorem == Spec => []TypeOK
  BY Invariance, IInvTypeOK, PTL

\* No turn is staged or running while a refresh waits for its inventory
\* (refreshSessions, stageTurn, startStagedTurn).
THEOREM RefreshTheorem == Spec => []RefreshAlone
<1>1. IInv => RefreshAlone
    BY DEF IInv
<1> QED
    BY <1>1, Invariance, PTL

\* A receipt says completed only if the end of the turn was delivered on the
\* owner's stream (observeConnector, onEvents and then onTerminal).
THEOREM CompletedTheorem == Spec => []CompletedSeen
<1>1. IInv => CompletedSeen
    BY DEF IInv
<1> QED
    BY <1>1, Invariance, PTL

\* No open turn is forgotten except in one of the named ways, and a command that
\* has left the relay keeps a route only at the price of a fault (detach,
\* observeConnector, startStagedTurn, abort).
THEOREM AccountedTheorem == Spec => []OpenAccounted
  BY Invariance, IInvOpenAccounted, PTL
=============================================================================
