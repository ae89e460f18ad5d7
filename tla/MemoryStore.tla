------------------------------ MODULE MemoryStore ------------------------------
(***************************************************************************)
(* The shared memory store of an agent (lib/memory/store.js, tombstones.js *)
(* and replay-queue.js) and the commands of the checkouts that use it      *)
(* (lib/memory/cli.js): publish, flush, replay and refresh --from-store.   *)
(*                                                                         *)
(* A checkout publishes its pages as a snapshot, which it names in a head  *)
(* of its own and then in latest.json.  The fleet's view of a page is the  *)
(* merge of all heads and latest.json: the newest page wins, unless a head *)
(* carries a tombstone that no pointer to the page is newer than.  The     *)
(* commands of one checkout exclude each other (MemorySyncLock); those of  *)
(* different checkouts interleave between the files they read and write,   *)
(* and users edit and remove pages whatever their checkout is running.     *)
(*                                                                         *)
(* The bytes of a page are a version: every edit makes a new one, 0 is no  *)
(* page.  Time is the clock all checkouts and the store share, in ms.      *)
(* Corrupt files, retired heads, the backup policy, --latest and queue     *)
(* items the user discards are left out.                                   *)
(***************************************************************************)
EXTENDS Integers, Sequences, FiniteSets, FiniteSetsExt

CONSTANTS
    Checkout,     \* publishers: a machine's checkout of the agent
    Page,         \* the pages of memory/
    MaxClock,     \* bound: the last moment
    MaxEvents     \* bound: edits, removals, commands and crashes together

ASSUME BoundAssumption == MaxClock \in Nat \ {0} /\ MaxEvents \in Nat
ASSUME PageAssumption == Page # {}

VARIABLES
    clock,    \* Date.now(), the mtime of a file written now
    mem,      \* memory/ of a checkout: a page's version and mtime
    base,     \* .brain/memory-sync-baseline.json: pages, and hashes of some
    queue,    \* the replay queue of a checkout
    head,     \* heads/<publisher>.json and the time it was written
    latest,   \* latest.json
    kept,     \* heads/_latest_*.json: earlier latest.json nobody else names
    sidecar,  \* markers.json of every snapshot in the store
    pc, held, \* where a checkout's command is, and what it has read or made
    birth,    \* history: when a version was written
    had,      \* history: the versions a checkout ever had in memory/
    raced, late, \* history: pages with a tombstone that raced, or was dated back
    behind,   \* history: pages restored from a latest.json without the fleet's version
    stranded, \* history: pages a command that ended early had yet to remove again
    unread,   \* history: deleted pages published because the merge could not be read
    removed,  \* history: pages a user removed
    events    \* edits, removals, commands and crashes so far

store == <<head, latest, kept, sidecar>>
local == <<mem, base, queue>>
history == <<birth, had, raced, late, behind, stranded, unread, removed>>
vars == <<clock, local, store, pc, held, history, events>>

Time == 0..MaxClock
Version == 0..MaxEvents + 1
Contents == [Page -> Version]
Marks == [Page -> Time]
Empty == [p \in Page |-> 0]
Pages(content) == {p \in Page : content[p] # 0}
Largest(S) == Max(S \cup {0})

\* The merge ------------------------------------------------------------------

(* What names a snapshot: heads, preserved heads and latest.json.            *)
Pointers ==
    {[ver |-> x.ver, at |-> x.at] : x \in {head[c] : c \in Checkout} \cup kept \cup {latest}}

(* The marker of a page: the newest a head gives it for this snapshot, else  *)
(* the one the snapshot was first stored with.                               *)
Marker(content, p) ==
    LET newest == Largest({head[c].mark[p] : c \in {d \in Checkout : head[d].ver = content}})
    IN  IF newest # 0 THEN newest ELSE sidecar[content][p]

Offers(p) == {<<Marker(x.ver, p), x.ver[p]>> : x \in {y \in Pointers : y.ver[p] # 0}}
WinMarker(p) == Largest({offer[1] : offer \in Offers(p)})

(* The newest marker wins.  Equal markers fall to the order of the bundle    *)
(* hashes, here that of the versions.                                        *)
Winner(p) ==
    LET offers == Offers(p)
        newest == Largest({offer[1] : offer \in offers})
    IN  IF offers = {} THEN 0
        ELSE Min({offer[2] : offer \in {o \in offers : o[1] = newest}})

(* When a page was last written to the store, and its newest tombstone.      *)
Recency(p) == Largest({x.at : x \in {y \in Pointers : y.ver[p] # 0}})
Tomb(p) == Largest({head[c].tomb[p] : c \in Checkout})

Deleted(p) == Tomb(p) # 0 /\ Recency(p) <= Tomb(p)
Merged(p) == IF Deleted(p) THEN 0 ELSE Winner(p)

\* What a checkout compares -----------------------------------------------------

Local(c) == {p \in Page : mem[c][p].ver # 0}
File(ver, mtime) == [ver |-> ver, mtime |-> mtime]
NoFile == File(0, 0)
Receives(c, files) ==
    /\ mem' = [mem EXCEPT ![c] = files]
    /\ had' = [had EXCEPT ![c] = @ \cup {files[p].ver : p \in Page}]

(* Pages that were here at the last publication or synchronisation.          *)
Known(c) ==
    {p \in Page : head[c].mark[p] # 0 \/ head[c].tomb[p] # 0} \cup base[c].pages

(* Mutant: a page this checkout never received counts as removed.            *)
GoneIsMissing(c) == {p \in Page : Merged(p) # 0} \ Local(c)

Gone(c) == Known(c) \ Local(c)

(* Mutant: any local copy counts as written anew.                            *)
StaleIfAbsent(c) == {p \in Page : Deleted(p) /\ p \notin Local(c)}

(* staleFleetDeletions: a local copy survives the deletion of its page only  *)
(* if it was written in a later ms.                                          *)
Stale(c) ==
    {p \in Page : Deleted(p) /\ (p \in Local(c) => mem[c][p].mtime <= Tomb(p))}

(* Mutant: a newer edit goes ahead whatever the store has by now.            *)
FastForwardIfNewer(c, p) == Merged(p) # 0 /\ mem[c][p].mtime > WinMarker(p)

(* allDriftedFastForwardable: only this side has moved since the last sync.  *)
FastForward(c, p) ==
    /\ Merged(p) # 0
    /\ base[c].hash[p] = Merged(p)
    /\ mem[c][p].mtime > WinMarker(p)

(* The fleet's version of a page as far as the latest.json seen has it too.  *)
Shown(seen) == [p \in Page |-> IF seen[p] = Merged(p) THEN seen[p] ELSE 0]

(* What a publication has read: latest.json, the deletions of the user with  *)
(* their dates, the pages that must not be here, those of latest.json it has *)
(* yet to go through, and those found with other bytes.                      *)
Comparison(seen) ==
    [seen |-> seen, dels |-> Empty, must |-> {}, todo |-> Pages(seen), drifted |-> {}]

(* What a publication takes to the store: its pages, of a frozen one their   *)
(* markers, the deletions the user asked for with their dates, pages it      *)
(* found deleted, and, as history, the versions it was compared with.        *)
Publication(replay, ver, mark, dels, shown) ==
    [replay |-> replay, ver |-> ver, mark |-> mark, dels |-> dels, stale |-> {}, shown |-> shown]
NoPublication == Publication(FALSE, Empty, Empty, Empty, Empty)
DatedNow(pages) == [p \in Page |-> IF p \in pages THEN clock ELSE 0]

Item(ver, mark, dels) == [ver |-> ver, mark |-> mark, dels |-> dels]

(* One checkout has published every page, and each of the others has either  *)
(* refreshed or is new.                                                      *)
Init ==
    LET one == [p \in Page |-> 1]
    IN  /\ clock = 1
        /\ \E first \in Checkout, synced \in SUBSET Checkout :
              /\ first \in synced
              /\ mem = [c \in Checkout |-> [p \in Page |->
                          IF c \in synced THEN File(1, 1) ELSE NoFile]]
              /\ base = [c \in Checkout |->
                          IF c \in synced THEN [pages |-> Page, hash |-> one]
                                         ELSE [pages |-> {}, hash |-> Empty]]
              /\ head = [c \in Checkout |->
                          IF c = first THEN [ver |-> one, mark |-> one, tomb |-> Empty, at |-> 1]
                          ELSE [ver |-> Empty, mark |-> Empty, tomb |-> Empty, at |-> 0]]
              /\ had = [c \in Checkout |-> IF c \in synced THEN {0, 1} ELSE {0}]
        /\ queue = [c \in Checkout |-> <<>>]
        /\ latest = [ver |-> one, at |-> 1]
        /\ kept = {}
        /\ sidecar = [x \in {one} |-> one]
        /\ pc = [c \in Checkout |-> "idle"]
        /\ held = [c \in Checkout |-> NoPublication]
        /\ birth = <<1>>
        /\ raced = {} /\ late = {} /\ behind = {} /\ stranded = {} /\ unread = {} /\ removed = {}
        /\ events = 0

Count == events < MaxEvents /\ events' = events + 1

Goes(c, step, what) ==
    /\ pc' = [pc EXCEPT ![c] = step]
    /\ held' = [held EXCEPT ![c] = what]

Ends(c) == Goes(c, "idle", NoPublication)

\* Users and time -----------------------------------------------------------------

Tick ==
    /\ clock < MaxClock
    /\ clock' = clock + 1
    /\ UNCHANGED <<local, store, pc, held, history, events>>

Edit(c, p) ==
    LET new == Len(birth) + 1
    IN  /\ Count
        /\ Receives(c, [mem[c] EXCEPT ![p] = File(new, clock)])
        /\ birth' = Append(birth, clock)
        /\ UNCHANGED <<clock, base, queue, store, pc, held, raced, late, behind, stranded, unread, removed>>

Remove(c, p) ==
    /\ p \in Local(c)
    /\ Count
    /\ mem' = [mem EXCEPT ![c][p] = NoFile]
    /\ removed' = removed \cup {p}
    /\ UNCHANGED <<clock, base, queue, store, pc, held, birth, had, raced, late, behind, stranded, unread>>

\* memory refresh --from-store ------------------------------------------------------

RefreshFetch(c) ==
    /\ pc[c] = "idle"
    /\ Count
    /\ Goes(c, "fetched", [pages |-> [p \in Page |-> Merged(p)],
                           tomb |-> [p \in Page |-> IF Deleted(p) THEN Tomb(p) ELSE 0]])
    /\ UNCHANGED <<clock, local, store, history>>

(* applyMergedSnapshot fills gaps, leaves drifted pages unless forced, and   *)
(* removes what the fleet deleted.                                           *)
Applied(file, ver, tomb, force) ==
    CASE ver # 0 /\ (file.ver = 0 \/ (force /\ file.ver # ver)) -> File(ver, clock)
      [] file.ver # 0 /\ tomb # 0 /\ (force \/ file.mtime <= tomb) -> NoFile
      [] OTHER -> file

(* The baseline of a page that drifted stays what this checkout accepted.    *)
AcceptedHash(old, file, ver) == IF file.ver = ver THEN ver ELSE old

RefreshApply(c, force) ==
    LET view == held[c]
        files == [p \in Page |-> Applied(mem[c][p], view.pages[p], view.tomb[p], force)]
        Hash(p) == IF view.pages[p] = 0 THEN 0
                   ELSE AcceptedHash(base[c].hash[p], files[p], view.pages[p])
    IN  /\ pc[c] = "fetched"
        /\ Receives(c, files)
        /\ Goes(c, "applied", [pages |-> Pages(view.pages), hash |-> [p \in Page |-> Hash(p)]])
        /\ UNCHANGED <<clock, base, queue, store, birth, raced, late, behind, stranded, unread, removed,
                       events>>

(* The baseline has the pages of the store that are here by now.             *)
RefreshFinish(c) ==
    /\ pc[c] = "applied"
    /\ base' = [base EXCEPT ![c] = [held[c] EXCEPT !.pages = @ \cap Local(c)]]
    /\ Ends(c)
    /\ UNCHANGED <<clock, mem, queue, store, history, events>>

\* memory publish ---------------------------------------------------------------------

(* The command drains the queue first, then reads latest.json ...            *)
PublishFetch(c) ==
    /\ pc[c] = "idle" /\ queue[c] = <<>>
    /\ Count
    /\ Goes(c, "latest", Comparison(latest.ver))
    /\ UNCHANGED <<clock, local, store, history>>

(* ... and the merge, which tells the pages that must not be here: those the *)
(* user removed, and those the fleet deleted.                                *)
PublishCompare(c) ==
    /\ pc[c] = "latest"
    /\ Goes(c, "compared", [held[c] EXCEPT !.dels = DatedNow(Gone(c)),
                                          !.must = Gone(c) \cup Stale(c)])
    /\ UNCHANGED <<clock, local, store, history, events>>

(* applyFetchedSnapshot restores the pages of latest.json that are missing   *)
(* here, one by one, also those that must not be.                            *)
PublishRestore(c, p) ==
    LET seen == held[c].seen[p]
        here == mem[c][p].ver
    IN  /\ pc[c] = "compared" /\ p \in held[c].todo
        /\ Receives(c, IF here = 0 THEN [mem[c] EXCEPT ![p] = File(seen, clock)] ELSE mem[c])
        /\ Goes(c, "compared",
                [held[c] EXCEPT !.todo = @ \ {p},
                                !.drifted = IF here \in {0, seen} THEN @ ELSE @ \cup {p}])
        /\ behind' = IF here = 0 /\ p \notin held[c].must /\ Tomb(p) # 0 /\ Merged(p) # seen
                     THEN behind \cup {p} ELSE behind
        /\ UNCHANGED <<clock, base, queue, store, birth, raced, late, stranded, unread, removed, events>>

(* removeLocalMemoryPages: what must not be here goes (again).               *)
PublishStrip(c, p) ==
    /\ pc[c] = "compared" /\ held[c].todo = {} /\ p \in held[c].must
    /\ mem' = [mem EXCEPT ![c][p] = NoFile]
    /\ Goes(c, "compared", [held[c] EXCEPT !.must = @ \ {p}])
    /\ UNCHANGED <<clock, base, queue, store, history, events>>

(* The command ends on a conflict, reconciled or not.                        *)
PublishCheck(c) ==
    /\ pc[c] = "compared" /\ held[c].todo = {} /\ held[c].must = {}
    /\ IF \A p \in held[c].drifted : FastForward(c, p)
       THEN Goes(c, "prepared",
                 Publication(FALSE, Empty, Empty, held[c].dels, Shown(held[c].seen)))
       ELSE Ends(c)
    /\ UNCHANGED <<clock, local, store, history, events>>

(* publishMemoryToStore takes the pages that are here by now.  It leaves out *)
(* those the fleet has deleted, if the merge can be read, and refuses to     *)
(* publish nothing where nothing was known.                                  *)
PublishSelect(c) ==
    \E stale \in {Stale(c), {}} :
        LET files == Local(c) \ stale
            ver == [p \in Page |-> IF p \in files THEN mem[c][p].ver ELSE 0]
        IN  /\ pc[c] = "prepared"
            /\ IF files = {} /\ Known(c) = {}
               THEN Ends(c)
               ELSE Goes(c, "selected", [held[c] EXCEPT !.ver = ver, !.stale = stale])
            /\ unread' = unread \cup (files \cap Stale(c))
            /\ UNCHANGED <<clock, local, store, birth, had, raced, late, behind, stranded, removed,
                           events>>

\* memory flush and memory replay -------------------------------------------------------

(* The pages are frozen in a queue item, or join the one with their content. *)
Enqueue(c, dels) ==
    LET ver == [p \in Page |-> mem[c][p].ver]
        mark == [p \in Page |-> mem[c][p].mtime]
        Later(a, b) == [p \in Page |-> Largest({a[p], b[p]})]
        Earlier(a, b) == [p \in Page |-> IF 0 \in {a[p], b[p]} THEN Largest({a[p], b[p]})
                                                               ELSE Min({a[p], b[p]})]
        Joined(item) ==
            IF item.ver = ver THEN Item(ver, Later(item.mark, mark), Earlier(item.dels, dels))
                              ELSE item
    IN  /\ Local(c) # {}
        /\ queue' = [queue EXCEPT ![c] =
              IF \E i \in DOMAIN @ : @[i].ver = ver THEN [i \in DOMAIN @ |-> Joined(@[i])]
              ELSE Append(@, Item(ver, mark, dels))]

(* Flush freezes what was deleted since the baseline, dated now.             *)
Flush(c) ==
    /\ pc[c] = "idle"
    /\ Count
    /\ Enqueue(c, DatedNow(base[c].pages \ Local(c)))
    /\ UNCHANGED <<clock, mem, base, store, pc, held, history>>

(* Pages a command that ends now would have removed.                         *)
Stranded(c) == IF pc[c] = "compared" THEN held[c].must \cap Local(c) ELSE {}

(* A publication that a transient store error stops is queued instead, with  *)
(* the deletions it knew of by then and the pages that are here.             *)
PublishDefers(c) ==
    /\ \/ pc[c] = "idle" /\ queue[c] = <<>>
       \/ pc[c] = "latest"
       \/ pc[c] = "compared" /\ held[c].todo # {}
       \/ pc[c] \in {"prepared", "selected", "headed"} /\ ~held[c].replay
    /\ Count
    /\ Enqueue(c, IF pc[c] = "latest" THEN DatedNow(Gone(c)) ELSE held[c].dels)
    /\ stranded' = stranded \cup Stranded(c)
    /\ Ends(c)
    /\ UNCHANGED <<clock, mem, base, store, birth, had, raced, late, behind, unread, removed>>

(* A frozen item is refused if it would bring a deleted page back, or if     *)
(* another checkout's latest.json has other bytes for one of its pages.      *)
Resurrects(item) ==
    \E p \in Pages(item.ver) : Deleted(p) /\ item.mark[p] <= Tomb(p)
Differs(c, item) ==
    /\ latest.ver # head[c].ver
    /\ \E p \in Pages(item.ver) : latest.ver[p] \notin {0, item.ver[p]}

ReplayCheck(c) ==
    /\ pc[c] = "idle" /\ queue[c] # <<>>
    /\ ~Resurrects(Head(queue[c]))
    /\ Goes(c, "checked", NoPublication)
    /\ UNCHANGED <<clock, local, store, history, events>>

ReplaySelect(c) ==
    LET item == Head(queue[c])
    IN  /\ pc[c] = "checked"
        /\ IF Differs(c, item)
           THEN Ends(c)
           ELSE Goes(c, "selected",
                     Publication(TRUE, item.ver, item.mark, item.dels, Shown(latest.ver)))
        /\ UNCHANGED <<clock, local, store, history, events>>

\* The publication ------------------------------------------------------------------------

(* The marker of a page in the head: the mtime of its file by now, if there  *)
(* still is one, or the frozen one.                                          *)
NextMark(c, p) ==
    CASE held[c].ver[p] = 0 -> 0
      [] held[c].ver[p] # 0 /\ held[c].replay -> held[c].mark[p]
      [] OTHER -> mem[c][p].mtime

(* calculateNextTombstones: a tombstone stays until the page is published    *)
(* again, and what the previous head or the caller had and is not published  *)
(* gets one, dated by the caller or now.                                     *)
DeletedAt(c, p) == IF held[c].replay /\ held[c].dels[p] # 0 THEN held[c].dels[p] ELSE clock
Ceases(c, p) == head[c].mark[p] # 0 \/ held[c].dels[p] # 0 \/ p \in held[c].stale

(* Mutant: the tombstone of a page stays when the page is published again.   *)
NextTombKept(c, p) ==
    IF head[c].tomb[p] # 0 THEN head[c].tomb[p]
    ELSE IF NextMark(c, p) = 0 /\ Ceases(c, p) THEN DeletedAt(c, p) ELSE 0

NextTomb(c, p) ==
    CASE NextMark(c, p) # 0 -> 0
      [] NextMark(c, p) = 0 /\ head[c].tomb[p] # 0 -> head[c].tomb[p]
      [] OTHER -> IF Ceases(c, p) THEN DeletedAt(c, p) ELSE 0

(* The outgoing latest.json is kept if no head names its snapshot.           *)
Uncovered(new) ==
    /\ latest.ver # new
    /\ \A x \in {head[c] : c \in Checkout} \cup kept : x.ver # latest.ver

(* Pages that have changed under the publication since it took them.         *)
Torn(c) ==
    {p \in Pages(held[c].ver) : ~held[c].replay /\ mem[c][p].ver # held[c].ver[p]}

(* A snapshot the store does not have yet is copied from the files and does  *)
(* not have its hash any more.                                               *)
PublishTorn(c) ==
    /\ pc[c] = "selected" /\ Torn(c) # {} /\ held[c].ver \notin DOMAIN sidecar
    /\ Ends(c)
    /\ UNCHANGED <<clock, local, store, history, events>>

(* Without pages the head only carries tombstones, and latest.json stays.    *)
WriteHead(c) ==
    LET new == held[c].ver
        mark == [p \in Page |-> NextMark(c, p)]
        tomb == [p \in Page |-> NextTomb(c, p)]
        fresh == {p \in Page : tomb[p] # 0 /\ head[c].tomb[p] = 0}
    IN  /\ pc[c] = "selected"
        /\ Torn(c) = {} \/ new \in DOMAIN sidecar
        /\ head' = [head EXCEPT ![c] = [ver |-> new, mark |-> mark, tomb |-> tomb, at |-> clock]]
        /\ IF new = Empty
           THEN UNCHANGED <<kept, sidecar>>
           ELSE /\ kept' = IF Uncovered(new) THEN kept \cup {latest} ELSE kept
                /\ sidecar' = [x \in DOMAIN sidecar \cup {new} |->
                                 IF x \in DOMAIN sidecar THEN sidecar[x] ELSE mark]
        /\ pc' = [pc EXCEPT ![c] = IF new = Empty THEN "published" ELSE "headed"]
        /\ raced' = raced \cup Torn(c) \cup
              (IF \A d \in Checkout \ {c} : pc[d] = "idle" THEN {} ELSE fresh)
        /\ late' = late \cup {p \in fresh : tomb[p] < clock}
        /\ UNCHANGED <<clock, local, latest, held, birth, had, behind, stranded, unread, removed, events>>

WriteLatest(c) ==
    /\ pc[c] = "headed"
    /\ latest' = [ver |-> held[c].ver, at |-> clock]
    /\ pc' = [pc EXCEPT ![c] = "published"]
    /\ UNCHANGED <<clock, local, head, kept, sidecar, held, history, events>>

(* After a publication the baseline is what is here; after a replay it takes *)
(* the frozen pages and leaves the deleted ones.                             *)
PublishFinish(c) ==
    /\ pc[c] = "published" /\ ~held[c].replay
    /\ base' = [base EXCEPT ![c] = [pages |-> Local(c), hash |-> [p \in Page |-> mem[c][p].ver]]]
    /\ Ends(c)
    /\ UNCHANGED <<clock, mem, queue, store, history, events>>

ReplayedBaseline(old, item) ==
    LET gone == Pages(item.dels)
    IN  [pages |-> (old.pages \cup Pages(item.ver)) \ gone,
         hash |-> [p \in Page |-> IF p \in gone THEN 0
                                  ELSE IF item.ver[p] # 0 THEN item.ver[p] ELSE old.hash[p]]]

(* The item goes first: the baseline may be lost with the process.           *)
ReplayFinish(c) ==
    /\ pc[c] = "published" /\ held[c].replay
    /\ queue' = [queue EXCEPT ![c] = Tail(@)]
    /\ \/ base' = [base EXCEPT ![c] = ReplayedBaseline(@, Head(queue[c]))]
       \/ base' = base
    /\ Ends(c)
    /\ UNCHANGED <<clock, mem, store, history, events>>

(* A command dies, or its store cannot be reached any more.                  *)
Crash(c) ==
    /\ pc[c] # "idle"
    /\ Count
    /\ stranded' = stranded \cup Stranded(c)
    /\ Ends(c)
    /\ UNCHANGED <<clock, local, store, birth, had, raced, late, behind, unread, removed>>

User(c) == \E p \in Page : Edit(c, p) \/ Remove(c, p)
Refresh(c) == RefreshFetch(c) \/ (\E force \in BOOLEAN : RefreshApply(c, force)) \/ RefreshFinish(c)
Reconcile(c) ==
    \/ PublishFetch(c) \/ PublishCompare(c) \/ PublishCheck(c)
    \/ \E p \in Page : PublishRestore(c, p) \/ PublishStrip(c, p)
Publish(c) == PublishSelect(c) \/ PublishTorn(c) \/ PublishFinish(c)
Replay(c) == Flush(c) \/ PublishDefers(c) \/ ReplayCheck(c) \/ ReplaySelect(c) \/ ReplayFinish(c)

(* The bounds are reached and no command is under way.                       *)
Done ==
    /\ clock = MaxClock /\ events = MaxEvents
    /\ \A c \in Checkout : pc[c] = "idle"
    /\ UNCHANGED vars

Next ==
    \/ Tick
    \/ \E c \in Checkout : User(c) \/ Refresh(c) \/ Reconcile(c) \/ Publish(c) \/ Replay(c)
    \/ \E c \in Checkout : WriteHead(c) \/ WriteLatest(c) \/ Crash(c)
    \/ Done

Spec == Init /\ [][Next]_vars

\* Properties -------------------------------------------------------------------

Items == [ver : Contents \ {Empty}, mark : Marks, dels : Marks]
Heads == [ver : Contents, mark : Marks, tomb : Marks, at : Time]
Baselines == [pages : SUBSET Page, hash : Contents]
Views == [pages : Contents, tomb : Marks]
Comparisons ==
    [seen : Contents, dels : Marks, must : SUBSET Page, todo : SUBSET Page, drifted : SUBSET Page]
Publications ==
    [replay : BOOLEAN, ver : Contents, mark : Marks, dels : Marks, stale : SUBSET Page,
     shown : Contents]
Steps == {"idle", "fetched", "applied", "latest", "compared", "prepared", "checked",
          "selected", "headed", "published"}

(* What a command holds between two of its steps.                            *)
HeldAt(step) ==
    CASE step = "fetched" -> Views
      [] step = "applied" -> Baselines
      [] step \in {"latest", "compared"} -> Comparisons
      [] OTHER -> Publications

(* Every file of the store and of the checkouts has the shape the code       *)
(* writes, every snapshot a pointer names is stored, a head with a marker    *)
(* for a page has the page and no tombstone for it, and a command holds what *)
(* its step needs.                                                           *)
TypeOK ==
    /\ clock \in Time /\ events \in 0..MaxEvents
    /\ mem \in [Checkout -> [Page -> [ver : Version, mtime : Time]]]
    /\ base \in [Checkout -> Baselines]
    /\ queue \in [Checkout -> Seq(Items)]
    /\ head \in [Checkout -> Heads]
    /\ \A c \in Checkout, p \in Page :
          head[c].mark[p] # 0 => head[c].ver[p] # 0 /\ head[c].tomb[p] = 0
    /\ {latest} \cup kept \subseteq [ver : Contents \ {Empty}, at : Time]
    /\ {x.ver : x \in Pointers} \subseteq DOMAIN sidecar \cup {Empty}
    /\ \A x \in DOMAIN sidecar : x \in Contents /\ sidecar[x] \in Marks
    /\ pc \in [Checkout -> Steps]
    /\ held \in [Checkout -> Views \cup Baselines \cup Comparisons \cup Publications]
    /\ \A c \in Checkout :
          /\ held[c] \in HeldAt(pc[c])
          /\ pc[c] = "checked" => queue[c] # <<>>
          /\ pc[c] \in {"selected", "headed", "published"} /\ held[c].replay => queue[c] # <<>>
    /\ birth \in Seq(Time) /\ had \in [Checkout -> SUBSET Version]

Resurrected(p) ==
    /\ Tomb(p) # 0 /\ ~Deleted(p)
    /\ Winner(p) # 0 /\ birth[Winner(p)] <= Tomb(p)

(* A deleted page does not come back with bytes older than its deletion:     *)
(* not from a stale snapshot, a stale checkout or a frozen queue item.  The  *)
(* exceptions are a deletion that was published while another checkout's     *)
(* command or a change of the page was under way, one that was published     *)
(* after its date, a page that was restored from a latest.json behind the    *)
(* heads, and one that a publication restored and died before it removed it. *)
NoResurrection ==
    \A p \in Page : Resurrected(p) => p \in raced \cup late \cup behind \cup stranded \cup unread

(* The document's rule without the second exception: a stale publish or      *)
(* replay must never resurrect content removed by a later tombstone.         *)
NoLateResurrection ==
    \A p \in Page : Resurrected(p) => p \in raced \cup behind \cup stranded \cup unread

(* A checkout publishes other bytes of a page than the fleet's only if it    *)
(* had those in its memory/, or if latest.json and the heads did not both    *)
(* show them when the publication was prepared: an edit both sides made is a *)
(* conflict, never a silent loss.                                            *)
PublishesOver(c, p) ==
    /\ store' # store /\ pc'[c] # pc[c]
    /\ Merged(p) # 0 /\ held[c].ver[p] \notin {0, Merged(p)}
Excused(c, p) == Merged(p) \in had[c] \/ held[c].shown[p] # Merged(p)
FastForwardOnly ==
    [][\A c \in Checkout, p \in Page : PublishesOver(c, p) => Excused(c, p)]_vars

(* A page gets a tombstone only if some user removed it: a page that was     *)
(* never received, or is lost in a crash, is a gap.                          *)
TombstoneEarned ==
    \A c \in Checkout, p \in Page : head[c].tomb[p] # 0 => p \in removed

===============================================================================
