-------------------------- MODULE MemoryStoreProofs --------------------------
(***************************************************************************)
(* Proofs about MemoryStore for any number of checkouts and pages, any     *)
(* number of edits, removals, commands and crashes, and any time.          *)
(***************************************************************************)
EXTENDS MemoryStore, WellFoundedInduction, TLAPS

\* Extrema ---------------------------------------------------------------------

LEMMA LeastExists ==
    ASSUME NEW S, S \subseteq Nat, S # {}
    PROVE  \E x \in S : \A y \in S : x <= y
<1> DEFINE R == {ss \in Nat \X Nat : ss[1] < ss[2]}
<1>1. IsWellFoundedOn(R, Nat)
    BY NatLessThanWellFounded, Zenon DEF OpToRel
<1> HIDE DEF R
<1>2. PICK x \in S : \A y \in S : ~ (<<y, x>> \in R)
    BY <1>1, WFMin
<1>3. ASSUME NEW y \in S PROVE x <= y
  <2>1. x \in Nat /\ y \in Nat
    OBVIOUS
  <2>2. <<y, x>> \notin R
    BY <1>2
  <2> QED
    BY <2>1, <2>2 DEF R
<1> QED
    BY <1>3

LEMMA MinLeast ==
    ASSUME NEW S, S \subseteq Nat, S # {}
    PROVE  Min(S) \in S /\ \A y \in S : Min(S) <= y
  BY LeastExists DEF Min

LEMMA LargestGreatest ==
    ASSUME NEW n \in Nat, NEW S, S \subseteq 0..n
    PROVE  /\ Largest(S) \in 0..n
           /\ Largest(S) # 0 => Largest(S) \in S
           /\ \A y \in S : y <= Largest(S)
<1> DEFINE T == S \cup {0}
           C == {n - x : x \in T}
<1>1. C \subseteq Nat /\ C # {}
    OBVIOUS
<1>2. PICK z \in C : \A y \in C : z <= y
    BY <1>1, LeastExists
<1>3. PICK m \in T : z = n - m
    OBVIOUS
<1>4. \A y \in T : m >= y
    BY <1>2, <1>3
<1> HIDE DEF C
<1>5. Largest(S) \in T /\ \A y \in T : Largest(S) >= y
    BY <1>4 DEF Largest, Max
<1>6. T \subseteq 0..n
    OBVIOUS
<1> QED
    BY <1>5, <1>6

\* The merge ---------------------------------------------------------------------

LEMMA Bounds == /\ MaxClock \in Nat /\ Time = 0..MaxClock /\ Time \subseteq Nat
                /\ Version = 0..(MaxEvents + 1) /\ Version \subseteq Nat
  BY BoundAssumption DEF Time, Version

LEMMA PointerType ==
    ASSUME TypeOK, NEW x \in Pointers
    PROVE  /\ x.ver \in Contents /\ x.at \in Time
           /\ x.ver \in DOMAIN sidecar \/ x.ver = Empty
<1>1. PICK y \in {head[c] : c \in Checkout} \cup kept \cup {latest} :
          x = [ver |-> y.ver, at |-> y.at]
    BY DEF Pointers
<1>2. y.ver \in Contents /\ y.at \in Time
  <2>1. CASE y \in {head[c] : c \in Checkout}
    BY <2>1 DEF TypeOK, Heads
  <2>2. CASE y \in kept \cup {latest}
    <3>1. y \in [ver : Contents \ {Empty}, at : Time]
      BY <2>2 DEF TypeOK
    <3> QED
      BY <3>1
  <2> QED
    BY <2>1, <2>2
<1>3. x.ver \in {z.ver : z \in Pointers}
    OBVIOUS
<1>4. {z.ver : z \in Pointers} \subseteq DOMAIN sidecar \cup {Empty}
    BY DEF TypeOK
<1> QED
    BY <1>1, <1>2, <1>3, <1>4

LEMMA MarkerType ==
    ASSUME TypeOK, NEW x \in Pointers, NEW p \in Page, x.ver[p] # 0
    PROVE  Marker(x.ver, p) \in Time
<1> DEFINE marks == {head[c].mark[p] : c \in {d \in Checkout : head[d].ver = x.ver}}
<1>1. marks \subseteq 0..MaxClock
    BY Bounds DEF TypeOK, Heads, Marks
<1>2. Largest(marks) \in 0..MaxClock
    BY <1>1, LargestGreatest, Bounds
<1>3. Marker(x.ver, p) = IF Largest(marks) # 0 THEN Largest(marks) ELSE sidecar[x.ver][p]
    BY DEF Marker
<1>4. sidecar[x.ver][p] \in Time
  <2>1. x.ver \in DOMAIN sidecar
    BY PointerType DEF Empty
  <2> QED
    BY <2>1 DEF TypeOK, Marks
<1> HIDE DEF marks
<1> QED
    BY <1>2, <1>3, <1>4, Bounds

LEMMA OffersType ==
    ASSUME TypeOK, NEW p \in Page
    PROVE  /\ \A o \in Offers(p) : o[1] \in Time /\ o[2] \in Version /\ o[2] # 0
           /\ \A o \in Offers(p) : \E x \in Pointers :
                 x.ver[p] # 0 /\ o = <<Marker(x.ver, p), x.ver[p]>>
           /\ \A x \in Pointers : x.ver[p] # 0 => <<Marker(x.ver, p), x.ver[p]>> \in Offers(p)
<1>1. \A x \in Pointers : x.ver[p] # 0 => <<Marker(x.ver, p), x.ver[p]>> \in Offers(p)
    BY DEF Offers
<1>2. \A o \in Offers(p) : \E x \in Pointers :
          x.ver[p] # 0 /\ o = <<Marker(x.ver, p), x.ver[p]>>
    BY DEF Offers
<1>3. ASSUME NEW o \in Offers(p) PROVE o[1] \in Time /\ o[2] \in Version /\ o[2] # 0
  <2>1. PICK x \in Pointers : x.ver[p] # 0 /\ o = <<Marker(x.ver, p), x.ver[p]>>
    BY <1>2
  <2>2. x.ver[p] \in Version
    BY PointerType DEF Contents
  <2>3. Marker(x.ver, p) \in Time
    BY <2>1, MarkerType
  <2> QED
    BY <2>1, <2>2, <2>3
<1> QED
    BY <1>1, <1>2, <1>3

LEMMA WinMarkerGreatest ==
    ASSUME TypeOK, NEW p \in Page
    PROVE  /\ WinMarker(p) \in Time
           /\ \A x \in Pointers : x.ver[p] # 0 => Marker(x.ver, p) <= WinMarker(p)
<1> DEFINE marks == {offer[1] : offer \in Offers(p)}
<1>1. marks \subseteq 0..MaxClock
    BY OffersType, Bounds
<1>2. WinMarker(p) = Largest(marks)
    BY DEF WinMarker
<1>3. Largest(marks) \in 0..MaxClock /\ \A y \in marks : y <= Largest(marks)
    BY <1>1, LargestGreatest, Bounds
<1>4. ASSUME NEW x \in Pointers, x.ver[p] # 0 PROVE Marker(x.ver, p) \in marks
  <2>1. <<Marker(x.ver, p), x.ver[p]>> \in Offers(p)
    BY <1>4, OffersType
  <2> QED
    BY <2>1
<1> QED
    BY <1>2, <1>3, <1>4, Bounds

\* The winner is a page some pointer has, with the newest marker.
LEMMA WinnerOffered ==
    ASSUME TypeOK, NEW p \in Page
    PROVE  /\ Winner(p) \in Version
           /\ Winner(p) # 0 => \E x \in Pointers :
                 x.ver[p] = Winner(p) /\ Marker(x.ver, p) = WinMarker(p)
           /\ (\E x \in Pointers : x.ver[p] # 0) => Winner(p) # 0
<1> DEFINE offers == Offers(p)
           marks == {offer[1] : offer \in offers}
           newest == Largest(marks)
           top == {o \in offers : o[1] = newest}
           vers == {offer[2] : offer \in top}
<1>0. newest = WinMarker(p)
    BY DEF WinMarker
<1>1. CASE offers = {}
  <2>1. Winner(p) = 0
    BY <1>1 DEF Winner
  <2>2. ~\E x \in Pointers : x.ver[p] # 0
    BY <1>1, OffersType
  <2>3. 0 \in Version
    BY BoundAssumption DEF Version
  <2> QED
    BY <2>1, <2>2, <2>3
<1>2. CASE offers # {}
  <2>1. Winner(p) = Min(vers)
    BY <1>2 DEF Winner
  <2>2. marks \subseteq 0..MaxClock
    BY OffersType, Bounds
  <2>3. newest \in 0..MaxClock /\ (newest # 0 => newest \in marks) /\ \A y \in marks : y <= newest
    BY <2>2, LargestGreatest, Bounds
  <2>4. newest \in marks
    <3>1. PICK m \in marks : TRUE
      BY <1>2
    <3> HIDE DEF marks, newest
    <3>2. m \in 0..MaxClock /\ m <= newest
      BY <2>2, <2>3
    <3>3. newest = 0 => m = 0
      BY <3>2, Bounds
    <3> QED
      BY <3>3, <2>3
  <2>5. vers # {} /\ vers \subseteq Nat
    <3>1. PICK o \in offers : o[1] = newest
      BY <2>4
    <3>2. o[2] \in vers
      BY <3>1
    <3>3. vers \subseteq Version
      BY OffersType
    <3> QED
      BY <3>2, <3>3, Bounds
  <2>6. Winner(p) \in vers
    BY <2>1, <2>5, MinLeast
  <2>7. PICK o \in offers : o[1] = newest /\ o[2] = Winner(p)
    BY <2>6
  <2>8. PICK x \in Pointers : x.ver[p] # 0 /\ o = <<Marker(x.ver, p), x.ver[p]>>
    BY OffersType
  <2> QED
    BY <2>7, <2>8, <1>0, OffersType
<1> QED
    BY <1>1, <1>2

LEMMA TombGreatest ==
    ASSUME TypeOK, NEW p \in Page
    PROVE  /\ Tomb(p) \in Time
           /\ Tomb(p) # 0 => \E c \in Checkout : head[c].tomb[p] = Tomb(p)
           /\ \A c \in Checkout : head[c].tomb[p] <= Tomb(p)
<1> DEFINE tombs == {head[c].tomb[p] : c \in Checkout}
<1>1. tombs \subseteq 0..MaxClock
    BY Bounds DEF TypeOK, Heads, Marks
<1>2. Tomb(p) = Largest(tombs)
    BY DEF Tomb
<1> HIDE DEF tombs
<1>3. /\ Largest(tombs) \in 0..MaxClock /\ (Largest(tombs) # 0 => Largest(tombs) \in tombs)
      /\ \A y \in tombs : y <= Largest(tombs)
    BY <1>1, LargestGreatest, Bounds
<1> QED
    BY <1>2, <1>3, Bounds DEF tombs

LEMMA RecencyGreatest ==
    ASSUME TypeOK, NEW p \in Page
    PROVE  /\ Recency(p) \in Time
           /\ Recency(p) # 0 => \E x \in Pointers : x.ver[p] # 0 /\ x.at = Recency(p)
           /\ \A x \in Pointers : x.ver[p] # 0 => x.at <= Recency(p)
<1> DEFINE ats == {x.at : x \in {y \in Pointers : y.ver[p] # 0}}
<1>1. ats \subseteq 0..MaxClock
    BY PointerType, Bounds
<1>2. Recency(p) = Largest(ats)
    BY DEF Recency
<1>3. \A x \in Pointers : x.ver[p] # 0 => x.at \in ats
    OBVIOUS
<1>4. \A y \in ats : \E x \in Pointers : x.ver[p] # 0 /\ x.at = y
    OBVIOUS
<1> HIDE DEF ats
<1>5. /\ Largest(ats) \in 0..MaxClock /\ (Largest(ats) # 0 => Largest(ats) \in ats)
      /\ \A y \in ats : y <= Largest(ats)
    BY <1>1, LargestGreatest, Bounds
<1> QED
    BY <1>2, <1>3, <1>4, <1>5, Bounds

LEMMA MergedType ==
    ASSUME TypeOK, NEW p \in Page
    PROVE  Merged(p) \in Version
  BY WinnerOffered, Bounds, BoundAssumption DEF Merged

\* The inductive invariant ---------------------------------------------------------

Preparing(c) == pc[c] \in {"latest", "compared"}
Busy(c) == pc[c] \in {"prepared", "selected", "headed", "published"}

\* Every version was written by an edit, and there are as many as events allow.
HistoryCounted == Len(birth) >= 1 /\ Len(birth) <= events + 1 /\ clock >= 1

\* A replay takes the first item of its queue, a publication finds it empty.
FrozenPublication(c) ==
    /\ held[c].ver = queue[c][1].ver /\ held[c].mark = queue[c][1].mark
    /\ held[c].dels = queue[c][1].dels /\ held[c].stale = {}

CommandOK(c) ==
    /\ pc[c] \in {"idle", "checked"} => held[c] = NoPublication
    /\ pc[c] = "prepared" => ~held[c].replay /\ held[c].ver = Empty /\ held[c].stale = {}
    /\ Preparing(c) => queue[c] = <<>> /\ held[c].todo \subseteq Pages(held[c].seen)
    /\ Busy(c) => IF held[c].replay THEN FrozenPublication(c) ELSE queue[c] = <<>>
    /\ pc[c] = "headed" => held[c].ver # Empty /\ held[c].ver = head[c].ver

CommandState == \A c \in Checkout : CommandOK(c)

\* The pages that are here, and those that are frozen, have an mtime.
FileOK(c) ==
    /\ \A p \in Page : mem[c][p].ver = 0 <=> mem[c][p].mtime = 0
    /\ \A i \in DOMAIN queue[c] : \A p \in Page :
          queue[c][i].ver[p] # 0 => queue[c][i].mark[p] # 0

FilesOK == \A c \in Checkout : FileOK(c)

TypeInv == TypeOK /\ HistoryCounted /\ CommandState /\ FilesOK

\* Whatever checkout c once had and has no more was removed by a user.
TombsRemoved(c) == \A p \in Page : head[c].tomb[p] # 0 => p \in removed

KnownRemoved(c) == Known(c) \ Local(c) \subseteq removed

ItemsRemoved(c) ==
    \A i \in DOMAIN queue[c] : \A p \in Page :
        /\ queue[c][i].ver[p] # 0 /\ p \notin Local(c) => p \in removed
        /\ queue[c][i].dels[p] # 0 => p \in removed
        /\ /\ queue[c][i].ver[p] = 0
           /\ head[c].mark[p] # 0 \/ \E j \in 1..(i - 1) : queue[c][j].ver[p] # 0
           => p \in removed

SelectedRemoved(c, p) ==
    pc[c] = "selected" /\ ~held[c].replay =>
        /\ held[c].ver[p] = 0 /\ head[c].mark[p] # 0 => p \in removed
        /\ held[c].ver[p] # 0 /\ p \notin Local(c) => p \in removed

HeldRemoved(c) ==
    \A p \in Page :
        /\ pc[c] = "fetched" /\ held[c].tomb[p] # 0 => p \in removed
        /\ Preparing(c) /\ held[c].dels[p] # 0 => p \in removed
        /\ Preparing(c) /\ p \in held[c].must => p \in removed
        /\ Busy(c) /\ held[c].dels[p] # 0 => p \in removed
        /\ Busy(c) /\ p \in held[c].stale => p \in removed
        /\ SelectedRemoved(c, p)

EarnedAt(c) == TombsRemoved(c) /\ KnownRemoved(c) /\ ItemsRemoved(c) /\ HeldRemoved(c)

EarnedInv == \A c \in Checkout : EarnedAt(c)

\* Every version checkout c keeps anywhere was once in its memory/.
HadAll(c) ==
    /\ 0 \in had[c]
    /\ \A p \in Page : /\ mem[c][p].ver \in had[c] /\ base[c].hash[p] \in had[c]
                       /\ head[c].ver[p] \in had[c]
    /\ \A i \in DOMAIN queue[c] : \A p \in Page : queue[c][i].ver[p] \in had[c]

\* So is what a command under way holds, and what it was compared with.  A
\* replay has no other bytes of a page than those, unless the checkout had them.
HeldHad(c) ==
    \A p \in Page :
        /\ pc[c] = "applied" => held[c].hash[p] \in had[c]
        /\ Preparing(c) /\ p \notin held[c].todo \cup held[c].drifted => held[c].seen[p] \in had[c]
        /\ Busy(c) /\ ~held[c].replay => held[c].ver[p] \in had[c] /\ held[c].shown[p] \in had[c]
        /\ Busy(c) /\ held[c].replay /\ held[c].shown[p] \notin had[c]
              => held[c].ver[p] \in {0, held[c].shown[p]}

HadAt(c) == HadAll(c) /\ HeldHad(c)

HadInv == \A c \in Checkout : HadAt(c)

\* A version is at least as old as its marker, and both are past.  The marker
\* of a page that left its publication is missing.
Dated(v, m) == v # 0 => v \in 1..Len(birth) /\ birth[v] <= m /\ m <= clock
DatedIfMarked(v, m) == (v # 0 => v \in 1..Len(birth)) /\ (m # 0 => Dated(v, m))

DatedStore ==
    /\ \A v \in 1..Len(birth) : birth[v] <= clock
    /\ \A c \in Checkout : head[c].at <= clock
    /\ \A x \in kept \cup {latest} : x.at <= clock
    /\ \A c \in Checkout : \A p \in Page : DatedIfMarked(head[c].ver[p], head[c].mark[p])
    /\ \A x \in DOMAIN sidecar : \A p \in Page : Dated(x[p], sidecar[x][p])

ReadWritten(c, p) ==
    /\ pc[c] = "fetched" => held[c].pages[p] \in 0..Len(birth)
    /\ Preparing(c) => held[c].seen[p] \in 0..Len(birth)

\* What a publication has selected is as old as its file, or was replaced.
SelectedDated(c, p) ==
    pc[c] = "selected" /\ ~held[c].replay /\ held[c].ver[p] # 0 =>
        /\ held[c].ver[p] \in 1..Len(birth)
        /\ mem[c][p].ver # 0 => birth[held[c].ver[p]] <= mem[c][p].mtime

DatedAt(c) ==
    /\ \A p \in Page : Dated(mem[c][p].ver, mem[c][p].mtime)
    /\ \A i \in DOMAIN queue[c] : \A p \in Page : Dated(queue[c][i].ver[p], queue[c][i].mark[p])
    /\ \A p \in Page : ReadWritten(c, p) /\ SelectedDated(c, p)

DatedInv == DatedStore /\ \A c \in Checkout : DatedAt(c)

\* A page none of whose deletions raced, came late or was undone by a command.
Plain(p) == p \in Page \ (raced \cup late \cup behind \cup stranded \cup unread)

Tombs(p) == {head[c].tomb[p] : c \in Checkout} \ {0}

\* Version v is younger than a deletion at time t.
Fresh(v, t) == v # 0 /\ birth[v] > t
FreshOrNone(v, t) == v # 0 => birth[v] > t

\* A marker younger than a deletion is one of a version younger than it.
Honest(p, v, m) == \A t \in Tombs(p) : m > t => FreshOrNone(v, t)

\* The head of a page that left its publication is not plain.
HonestStore(p) ==
    /\ \A c \in Checkout : /\ head[c].ver[p] # 0 => head[c].mark[p] # 0
                           /\ Honest(p, head[c].ver[p], head[c].mark[p])
    /\ \A x \in DOMAIN sidecar : Honest(p, x[p], sidecar[x][p])

\* A page the publication of c restores although it has to remove it again.
Doomed(c, p) == pc[c] = "compared" /\ p \in held[c].must

HonestAt(c, p) ==
    /\ ~Doomed(c, p) => Honest(p, mem[c][p].ver, mem[c][p].mtime)
    /\ \A i \in DOMAIN queue[c] : Honest(p, queue[c][i].ver[p], queue[c][i].mark[p])

\* What a refresh has fetched is younger than every deletion of the page.
ViewFresh(c, p) ==
    pc[c] = "fetched" => \A t \in Tombs(p) : FreshOrNone(held[c].pages[p], t)

\* A head of one of the checkouts C, or a preserved one, is younger than a
\* deletion at t.
FreshStored(p, t, C) ==
    \/ \E d \in C : Fresh(head[d].ver[p], t)
    \/ \E x \in kept : Fresh(x.ver[p], t)

\* A page that was written after its last deletion was written anew.
WrittenAnew(p) == Tomb(p) # 0 /\ Recency(p) > Tomb(p) => FreshStored(p, Tomb(p), Checkout)

\* So it is with what a publication is about to write.
Taken(c) == IF pc[c] = "checked" THEN queue[c][1].ver ELSE held[c].ver

HeldAnew(c, p) ==
    pc[c] \in {"checked", "selected", "headed"} /\ Taken(c)[p] # 0 =>
        \A t \in Tombs(p) : Fresh(Taken(c)[p], t) \/ FreshStored(p, t, Checkout \ {c})

\* A checkout that published, is about to publish or froze a version younger
\* than a deletion has no older one after it.
HeadStays(c, p, t) ==
    Fresh(head[c].ver[p], t) =>
        /\ ~Doomed(c, p) => FreshOrNone(mem[c][p].ver, t)
        /\ \A i \in DOMAIN queue[c] : FreshOrNone(queue[c][i].ver[p], t)

SelectionStays(c, p, t) ==
    pc[c] = "selected" /\ ~held[c].replay /\ Fresh(held[c].ver[p], t) =>
        FreshOrNone(mem[c][p].ver, t)

QueueStays(c, p, t) ==
    \A i \in DOMAIN queue[c] : Fresh(queue[c][i].ver[p], t) =>
        /\ FreshOrNone(mem[c][p].ver, t)
        /\ \A j \in i..Len(queue[c]) : FreshOrNone(queue[c][j].ver[p], t)

NoStepBack(c, p) ==
    \A t \in Tombs(p) : HeadStays(c, p, t) /\ SelectionStays(c, p, t) /\ QueueStays(c, p, t)

FreshAt(c, p) == HonestAt(c, p) /\ ViewFresh(c, p) /\ HeldAnew(c, p) /\ NoStepBack(c, p)

FreshInv ==
    \A p \in Page : Plain(p) =>
        HonestStore(p) /\ WrittenAnew(p) /\ \A c \in Checkout : FreshAt(c, p)

\* Types -----------------------------------------------------------------------------

StoreOK ==
    /\ head \in [Checkout -> Heads]
    /\ \A c \in Checkout, p \in Page :
          head[c].mark[p] # 0 => head[c].ver[p] # 0 /\ head[c].tomb[p] = 0
    /\ {latest} \cup kept \subseteq [ver : Contents \ {Empty}, at : Time]
    /\ {x.ver : x \in Pointers} \subseteq DOMAIN sidecar \cup {Empty}
    /\ \A x \in DOMAIN sidecar : x \in Contents /\ sidecar[x] \in Marks

LocalOK ==
    /\ mem \in [Checkout -> [Page -> [ver : Version, mtime : Time]]]
    /\ base \in [Checkout -> Baselines]
    /\ queue \in [Checkout -> Seq(Items)]

HeldOK ==
    /\ pc \in [Checkout -> Steps]
    /\ held \in [Checkout -> Views \cup Baselines \cup Comparisons \cup Publications]
    /\ \A c \in Checkout : held[c] \in HeldAt(pc[c])

CommandTyped(c) ==
    /\ pc[c] = "checked" => queue[c] # <<>>
    /\ pc[c] \in {"selected", "headed", "published"} /\ held[c].replay => queue[c] # <<>>

LEMMA TypeOKParts ==
    TypeOK <=> /\ clock \in Time /\ events \in 0..MaxEvents
               /\ LocalOK /\ StoreOK /\ HeldOK /\ \A c \in Checkout : CommandTyped(c)
               /\ birth \in Seq(Time) /\ had \in [Checkout -> SUBSET Version]
  BY DEF TypeOK, StoreOK, LocalOK, HeldOK, CommandTyped

LEMMA EmptyType == Empty \in Contents /\ Empty \in Marks /\ NoPublication \in Publications
  BY BoundAssumption DEF Empty, Contents, Marks, Version, Time, NoPublication, Publication, Publications

LEMMA NoFileType == NoFile \in [ver : Version, mtime : Time]
  BY BoundAssumption DEF NoFile, File, Version, Time

LEMMA DatedNowType ==
    ASSUME clock \in Time, NEW pages
    PROVE  /\ DatedNow(pages) \in Marks
           /\ \A p \in Page : DatedNow(pages)[p] # 0 => p \in pages
  BY BoundAssumption DEF DatedNow, Marks, Time

LEMMA StoreStable ==
    ASSUME StoreOK, UNCHANGED store
    PROVE  StoreOK'
  BY DEF StoreOK, store, Pointers

LEMMA LocalStable ==
    ASSUME LocalOK, UNCHANGED local
    PROVE  LocalOK'
  BY DEF LocalOK, local

\* What a command holds at each of its steps.
LEMMA HeldTypes ==
    ASSUME HeldOK, NEW c \in Checkout
    PROVE  /\ pc[c] = "fetched" => held[c] \in Views
           /\ pc[c] = "applied" => held[c] \in Baselines
           /\ Preparing(c) => held[c] \in Comparisons
           /\ pc[c] \in {"idle", "checked"} \/ Busy(c) => held[c] \in Publications
  BY DEF HeldOK, HeldAt, Preparing, Busy

LEMMA CommandFrame ==
    ASSUME NEW d \in Checkout, CommandOK(d), pc'[d] = pc[d], held'[d] = held[d],
           queue'[d] = queue[d], head'[d] = head[d]
    PROVE  CommandOK(d)'
  BY DEF CommandOK, Preparing, Busy, FrozenPublication, Pages

LEMMA TypedFrame ==
    ASSUME NEW d \in Checkout, CommandTyped(d), pc'[d] = pc[d], held'[d] = held[d],
           queue'[d] = queue[d]
    PROVE  CommandTyped(d)'
  BY DEF CommandTyped

LEMMA GoesTyped ==
    ASSUME HeldOK, NEW c \in Checkout, NEW step \in Steps, NEW what \in HeldAt(step),
           Goes(c, step, what)
    PROVE  /\ HeldOK'
           /\ pc'[c] = step /\ held'[c] = what
           /\ \A d \in Checkout \ {c} : pc'[d] = pc[d] /\ held'[d] = held[d]
<1>1. /\ pc'[c] = step /\ held'[c] = what
      /\ \A d \in Checkout \ {c} : pc'[d] = pc[d] /\ held'[d] = held[d]
    BY DEF Goes, HeldOK
<1>2. what \in Views \cup Baselines \cup Comparisons \cup Publications
    BY DEF HeldAt
<1>3. /\ pc' \in [Checkout -> Steps]
      /\ held' \in [Checkout -> Views \cup Baselines \cup Comparisons \cup Publications]
    BY <1>2 DEF Goes, HeldOK
<1>4. ASSUME NEW d \in Checkout
      PROVE  held'[d] \in HeldAt(pc'[d])
  <2>1. CASE d = c
    BY <2>1, <1>1
  <2>2. CASE d # c
    BY <2>2, <1>1 DEF HeldOK
  <2> QED
    BY <2>1, <2>2
<1> QED
    BY <1>1, <1>3, <1>4 DEF HeldOK, HeldAt

LEMMA EndsTyped ==
    ASSUME HeldOK, NEW c \in Checkout, Ends(c)
    PROVE  /\ HeldOK'
           /\ pc'[c] = "idle" /\ held'[c] = NoPublication
           /\ \A d \in Checkout \ {c} : pc'[d] = pc[d] /\ held'[d] = held[d]
<1>1. "idle" \in Steps /\ NoPublication \in HeldAt("idle")
    BY EmptyType DEF Steps, HeldAt
<1> QED
    BY <1>1, GoesTyped DEF Ends

\* A command that ends leaves nothing to show for it.
LEMMA EndsCommand ==
    ASSUME NEW c \in Checkout, pc'[c] = "idle", held'[c] = NoPublication
    PROVE  CommandOK(c)' /\ CommandTyped(c)'
  BY DEF CommandOK, CommandTyped, Preparing, Busy

Files == [Page -> [ver : Version, mtime : Time]]

LEMMA ReceivesTyped ==
    ASSUME LocalOK, had \in [Checkout -> SUBSET Version],
           NEW c \in Checkout, NEW files \in Files, Receives(c, files)
    PROVE  /\ mem' \in [Checkout -> Files]
           /\ had' \in [Checkout -> SUBSET Version]
           /\ mem'[c] = files /\ \A d \in Checkout \ {c} : mem'[d] = mem[d]
           /\ \A d \in Checkout : had[d] \subseteq had'[d]
           /\ \A p \in Page : files[p].ver \in had'[c]
<1>1. {files[p].ver : p \in Page} \subseteq Version
    BY DEF Files
<1> QED
    BY <1>1 DEF Receives, LocalOK, Files

LEMMA CountTyped ==
    ASSUME events \in 0..MaxEvents, Count
    PROVE  events' \in 0..MaxEvents /\ events' = events + 1 /\ events < MaxEvents
  BY BoundAssumption DEF Count

LEMMA InitType == Init => TypeInv
<1> SUFFICES ASSUME Init PROVE TypeInv
    OBVIOUS
<1> DEFINE one == [p \in Page |-> 1]
<1>1. one \in Contents /\ one \in Marks /\ one # Empty /\ 1 \in Time /\ 1 \in Version
    BY BoundAssumption, PageAssumption DEF Contents, Marks, Empty, Time, Version
<1>2. PICK first \in Checkout, synced \in SUBSET Checkout :
              /\ first \in synced
              /\ mem = [c \in Checkout |-> [p \in Page |->
                          IF c \in synced THEN File(1, 1) ELSE NoFile]]
              /\ base = [c \in Checkout |->
                          IF c \in synced THEN [pages |-> Page, hash |-> one]
                                         ELSE [pages |-> {}, hash |-> Empty]]
              /\ head = [c \in Checkout |->
                          IF c = first THEN [ver |-> one, mark |-> one, tomb |-> Empty, at |-> 1]
                          ELSE [ver |-> Empty, mark |-> Empty, tomb |-> Empty, at |-> 0]]
              /\ had = [c \in Checkout |-> IF c \in synced THEN {0, 1} ELSE {0}]
    BY DEF Init
<1>3. LocalOK
    BY <1>1, <1>2, EmptyType, BoundAssumption
    DEF Init, LocalOK, File, NoFile, Time, Version, Baselines
<1>4. StoreOK
  <2>1. head \in [Checkout -> Heads]
    BY <1>1, <1>2, EmptyType, BoundAssumption DEF Heads, Time
  <2>2. \A c \in Checkout, p \in Page :
            head[c].mark[p] # 0 => head[c].ver[p] # 0 /\ head[c].tomb[p] = 0
    BY <1>2 DEF Empty
  <2>3. latest = [ver |-> one, at |-> 1] /\ kept = {} /\ sidecar = [x \in {one} |-> one]
    BY DEF Init
  <2>4. DOMAIN sidecar = {one} /\ sidecar[one] = one
    BY <2>3
  <2>5. \A x \in Pointers : x.ver \in {one, Empty}
    BY <1>2, <2>3 DEF Pointers
  <2>6. {latest} \cup kept \subseteq [ver : Contents \ {Empty}, at : Time]
    BY <1>1, <2>3
  <2> HIDE DEF one
  <2>7. {x.ver : x \in Pointers} \subseteq DOMAIN sidecar \cup {Empty}
    BY <2>4, <2>5
  <2> QED
    BY <1>1, <2>1, <2>2, <2>4, <2>6, <2>7 DEF StoreOK
<1>5. HeldOK /\ \A c \in Checkout : CommandTyped(c)
    BY EmptyType DEF Init, HeldOK, CommandTyped, HeldAt, Steps
<1>6. clock \in Time /\ events \in 0..MaxEvents /\ birth \in Seq(Time)
    BY <1>1, BoundAssumption DEF Init
<1>7. had \in [Checkout -> SUBSET Version]
    BY <1>1, <1>2, BoundAssumption DEF Version
<1>8. HistoryCounted
    BY DEF Init, HistoryCounted
<1>9. CommandState
    BY DEF Init, CommandState, CommandOK, Busy, Preparing
<1>10. FilesOK
    BY <1>2 DEF Init, FilesOK, FileOK, File, NoFile
<1> QED
    BY <1>3, <1>4, <1>5, <1>6, <1>7, <1>8, <1>9, <1>10, TypeOKParts DEF TypeInv

\* A step in which only checkout c moves keeps the types if it does so for c.
LEMMA TypeStep ==
    ASSUME TypeInv, NEW c \in Checkout,
           clock' \in Time, clock' >= 1, events' \in 0..MaxEvents, LocalOK', StoreOK', HeldOK',
           birth' \in Seq(Time), Len(birth') >= 1, Len(birth') <= events' + 1,
           had' \in [Checkout -> SUBSET Version],
           \A d \in Checkout \ {c} : /\ pc'[d] = pc[d] /\ held'[d] = held[d] /\ mem'[d] = mem[d]
                                     /\ queue'[d] = queue[d] /\ head'[d] = head[d],
           CommandOK(c)', CommandTyped(c)', FileOK(c)'
    PROVE  TypeInv'
<1>1. ASSUME NEW d \in Checkout
      PROVE  CommandOK(d)' /\ CommandTyped(d)' /\ FileOK(d)'
  <2>1. CASE d = c
    BY <2>1
  <2>2. CASE d # c
    <3>1. CommandOK(d) /\ CommandTyped(d) /\ FileOK(d)
      BY TypeOKParts DEF TypeInv, CommandState, FilesOK
    <3>2. CommandOK(d)' /\ CommandTyped(d)'
      BY <3>1, <2>2, CommandFrame, TypedFrame
    <3> QED
      BY <3>1, <3>2, <2>2 DEF FileOK
  <2> QED
    BY <2>1, <2>2
<1>2. TypeOK'
  <2>1. (/\ clock \in Time /\ events \in 0..MaxEvents
         /\ LocalOK /\ StoreOK /\ HeldOK /\ \A d \in Checkout : CommandTyped(d)
         /\ birth \in Seq(Time) /\ had \in [Checkout -> SUBSET Version])'
    BY <1>1
  <2> QED
    BY <2>1 DEF TypeOK, StoreOK, LocalOK, HeldOK, CommandTyped
<1> QED
    BY <1>1, <1>2 DEF TypeInv, HistoryCounted, CommandState, FilesOK

\* The part of the type invariant a step needs of its own checkout.
LEMMA TypeFacts ==
    ASSUME TypeInv
    PROVE  /\ TypeOK /\ clock \in Time /\ clock >= 1 /\ events \in 0..MaxEvents
           /\ LocalOK /\ StoreOK /\ HeldOK
           /\ birth \in Seq(Time) /\ had \in [Checkout -> SUBSET Version]
           /\ Len(birth) >= 1 /\ Len(birth) <= events + 1
           /\ \A c \in Checkout : CommandOK(c) /\ CommandTyped(c) /\ FileOK(c)
           /\ mem \in [Checkout -> Files]
  BY TypeOKParts DEF TypeInv, HistoryCounted, CommandState, FilesOK, LocalOK, Files

\* A step in which a command only moves on.
LEMMA CommandType ==
    ASSUME TypeInv, NEW c \in Checkout, NEW step \in Steps, NEW what \in HeldAt(step),
           Goes(c, step, what), UNCHANGED <<clock, local, store, birth, had>>,
           events' \in 0..MaxEvents, events' >= events, CommandOK(c)', CommandTyped(c)'
    PROVE  TypeInv'
<1>1. /\ HeldOK' /\ \A d \in Checkout \ {c} : pc'[d] = pc[d] /\ held'[d] = held[d]
    BY GoesTyped, TypeFacts
<1>2. LocalOK' /\ StoreOK' /\ FileOK(c)'
    BY TypeFacts, LocalStable, StoreStable DEF FileOK, local
<1>3. Len(birth') <= events' + 1
    BY TypeFacts
<1> QED
    BY <1>1, <1>2, <1>3, TypeFacts, TypeStep DEF local, store

LEMMA CommandEndsType ==
    ASSUME TypeInv, NEW c \in Checkout, Ends(c), UNCHANGED <<clock, local, store, birth, had>>,
           events' \in 0..MaxEvents, events' >= events
    PROVE  TypeInv'
<1>1. pc'[c] = "idle" /\ held'[c] = NoPublication
    BY EndsTyped, TypeFacts
<1>2. "idle" \in Steps /\ NoPublication \in HeldAt("idle")
    BY EmptyType DEF Steps, HeldAt
<1> QED
    BY <1>1, <1>2, EndsCommand, CommandType DEF Ends

LEMMA TickType ==
    ASSUME TypeInv, Tick
    PROVE  TypeInv'
<1>1. clock' \in Time /\ clock' >= 1
    BY TypeFacts, BoundAssumption DEF Tick, Time
<1>2. UNCHANGED <<local, store, pc, held, history, events>>
    BY DEF Tick
<1>3. LocalOK' /\ StoreOK' /\ HeldOK'
    BY <1>2, TypeFacts, LocalStable, StoreStable DEF HeldOK
<1>4. CASE Checkout = {}
    BY <1>1, <1>2, <1>3, <1>4, TypeFacts
    DEF TypeInv, TypeOK, HistoryCounted, CommandState, FilesOK, LocalOK, StoreOK, HeldOK,
        history
<1>5. CASE Checkout # {}
  <2>1. PICK c \in Checkout : TRUE
    BY <1>5
  <2>2. CommandOK(c)' /\ CommandTyped(c)' /\ FileOK(c)'
    BY <1>2, TypeFacts, CommandFrame, TypedFrame DEF local, store, FileOK
  <2> QED
    BY <1>1, <1>2, <1>3, <2>2, TypeFacts, TypeStep DEF local, store, history
<1> QED
    BY <1>4, <1>5

\* A step that changes the pages of a checkout, while its command stays.
LEMMA FilesType ==
    ASSUME TypeInv, NEW c \in Checkout, events' \in 0..MaxEvents,
           UNCHANGED <<clock, base, queue, store, pc, held>>,
           mem' \in [Checkout -> Files], \A d \in Checkout \ {c} : mem'[d] = mem[d],
           had' \in [Checkout -> SUBSET Version], FileOK(c)',
           birth' \in Seq(Time), Len(birth') >= 1, Len(birth') <= events' + 1
    PROVE  TypeInv'
<1>1. LocalOK' /\ StoreOK' /\ HeldOK'
    BY TypeFacts, StoreStable DEF LocalOK, HeldOK, Files
<1>2. CommandOK(c)' /\ CommandTyped(c)'
    BY TypeFacts, CommandFrame, TypedFrame DEF store
<1> QED
    BY <1>1, <1>2, TypeFacts, TypeStep DEF store

LEMMA EditType ==
    ASSUME TypeInv, NEW c \in Checkout, NEW p \in Page, Edit(c, p)
    PROVE  TypeInv'
<1> DEFINE new == Len(birth) + 1
           files == [mem[c] EXCEPT ![p] = File(new, clock)]
<1>1. events' \in 0..MaxEvents /\ events' = events + 1 /\ events < MaxEvents
    BY TypeFacts, CountTyped DEF Edit
<1>2. new \in Version /\ new # 0
    BY <1>1, TypeFacts, BoundAssumption DEF Version
<1>3. files \in Files
    BY <1>2, TypeFacts DEF Files, File
<1>4. Receives(c, files) /\ birth' = Append(birth, clock)
      /\ UNCHANGED <<clock, base, queue, store, pc, held>>
    BY DEF Edit
<1>5. \A q \in Page : files[q].ver = 0 <=> files[q].mtime = 0
    BY <1>2, TypeFacts DEF FileOK, File, Files
<1> HIDE DEF files, new
<1>6. /\ mem' \in [Checkout -> Files] /\ had' \in [Checkout -> SUBSET Version]
      /\ mem'[c] = files /\ \A d \in Checkout \ {c} : mem'[d] = mem[d]
    BY <1>3, <1>4, ReceivesTyped, TypeFacts
<1>7. birth' \in Seq(Time) /\ Len(birth') >= 1 /\ Len(birth') <= events' + 1
    BY <1>1, <1>4, TypeFacts
<1>8. FileOK(c)'
    BY <1>4, <1>5, <1>6, TypeFacts DEF FileOK
<1> QED
    BY <1>1, <1>4, <1>6, <1>7, <1>8, FilesType

LEMMA RemoveType ==
    ASSUME TypeInv, NEW c \in Checkout, NEW p \in Page, Remove(c, p)
    PROVE  TypeInv'
<1>1. events' \in 0..MaxEvents /\ events' = events + 1
    BY TypeFacts, CountTyped DEF Remove
<1>2. /\ mem' = [mem EXCEPT ![c][p] = NoFile]
      /\ UNCHANGED <<clock, base, queue, store, pc, held, birth, had>>
    BY DEF Remove
<1>3. mem' \in [Checkout -> Files] /\ \A d \in Checkout \ {c} : mem'[d] = mem[d]
    BY <1>2, NoFileType, TypeFacts DEF Files
<1>4. FileOK(c)'
    BY <1>2, TypeFacts DEF FileOK, NoFile, File, Files
<1>5. Len(birth') <= events' + 1
    BY <1>1, <1>2, TypeFacts
<1> QED
    BY <1>1, <1>2, <1>3, <1>4, <1>5, TypeFacts, FilesType

LEMMA RefreshFetchType ==
    ASSUME TypeInv, NEW c \in Checkout, RefreshFetch(c)
    PROVE  TypeInv'
<1> DEFINE view == [pages |-> [p \in Page |-> Merged(p)],
                    tomb |-> [p \in Page |-> IF Deleted(p) THEN Tomb(p) ELSE 0]]
<1>1. events' \in 0..MaxEvents /\ events' >= events
    BY TypeFacts, CountTyped DEF RefreshFetch
<1>2. Goes(c, "fetched", view) /\ UNCHANGED <<clock, local, store, birth, had>>
    BY DEF RefreshFetch, history
<1>3. view \in Views
  <2>1. \A p \in Page : Merged(p) \in Version /\ Tomb(p) \in Time /\ 0 \in Time
    BY TypeFacts, MergedType, TombGreatest, BoundAssumption DEF Time
  <2> QED
    BY <2>1 DEF Views, Contents, Marks
<1> HIDE DEF view
<1>4. "fetched" \in Steps /\ view \in HeldAt("fetched")
    BY <1>3 DEF Steps, HeldAt
<1>5. pc'[c] = "fetched" /\ held'[c] = view
    BY <1>2, <1>4, TypeFacts, GoesTyped
<1>6. CommandOK(c)' /\ CommandTyped(c)'
    BY <1>5 DEF CommandOK, CommandTyped, Busy, Preparing
<1> QED
    BY <1>1, <1>2, <1>4, <1>6, CommandType

LEMMA AppliedTyped ==
    ASSUME clock \in Time, NEW file \in [ver : Version, mtime : Time], NEW ver \in Version,
           NEW tomb, NEW force
    PROVE  /\ Applied(file, ver, tomb, force) \in [ver : Version, mtime : Time]
           /\ Applied(file, ver, tomb, force) \in {File(ver, clock), NoFile, file}
  BY NoFileType DEF Applied, File, NoFile

LEMMA RefreshApplyType ==
    ASSUME TypeInv, NEW c \in Checkout, NEW force \in BOOLEAN, RefreshApply(c, force)
    PROVE  TypeInv'
<1> DEFINE view == held[c]
           files == [p \in Page |-> Applied(mem[c][p], view.pages[p], view.tomb[p], force)]
           Hash(p) == IF view.pages[p] = 0 THEN 0
                      ELSE AcceptedHash(base[c].hash[p], files[p], view.pages[p])
           what == [pages |-> Pages(view.pages), hash |-> [p \in Page |-> Hash(p)]]
<1>1. /\ pc[c] = "fetched" /\ Receives(c, files) /\ Goes(c, "applied", what)
      /\ UNCHANGED <<clock, base, queue, store, birth, events>>
    BY DEF RefreshApply
<1>2. view \in Views
    BY <1>1, TypeFacts, HeldTypes
<1>3. files \in Files
    BY <1>2, TypeFacts, AppliedTyped DEF Files, Views, Contents
<1>4. what \in Baselines
  <2>1. [p \in Page |-> Hash(p)] \in Contents
    BY <1>2, <1>3, TypeFacts, BoundAssumption
    DEF AcceptedHash, Views, Contents, Version, LocalOK, Files, Baselines
  <2> QED
    BY <2>1 DEF Baselines, Pages
<1>5. \A p \in Page : files[p].ver = 0 <=> files[p].mtime = 0
  <2> SUFFICES ASSUME NEW p \in Page
               PROVE  files[p].ver = 0 <=> files[p].mtime = 0
    OBVIOUS
  <2>1. /\ mem[c][p] \in [ver : Version, mtime : Time] /\ view.pages[p] \in Version
        /\ mem[c][p].ver = 0 <=> mem[c][p].mtime = 0
    BY <1>2, TypeFacts DEF Files, Views, Contents, FileOK
  <2>2. files[p] = Applied(mem[c][p], view.pages[p], view.tomb[p], force)
    OBVIOUS
  <2> QED
    BY <2>1, <2>2, TypeFacts DEF Applied, File, NoFile
<1> HIDE DEF files, what
<1>6. /\ mem' \in [Checkout -> Files] /\ had' \in [Checkout -> SUBSET Version]
      /\ mem'[c] = files /\ \A d \in Checkout \ {c} : mem'[d] = mem[d]
    BY <1>1, <1>3, ReceivesTyped, TypeFacts
<1>7. LocalOK' /\ StoreOK' /\ FileOK(c)'
    BY <1>1, <1>5, <1>6, TypeFacts, StoreStable DEF LocalOK, Files, FileOK
<1>8. "applied" \in Steps /\ what \in HeldAt("applied")
    BY <1>4 DEF Steps, HeldAt
<1>9. /\ HeldOK' /\ pc'[c] = "applied" /\ held'[c] = what
      /\ \A d \in Checkout \ {c} : pc'[d] = pc[d] /\ held'[d] = held[d]
    BY <1>1, <1>8, GoesTyped, TypeFacts
<1>10. CommandOK(c)' /\ CommandTyped(c)'
    BY <1>9 DEF CommandOK, CommandTyped, Busy, Preparing
<1> QED
    BY <1>1, <1>6, <1>7, <1>9, <1>10, TypeFacts, TypeStep DEF store

\* A command that ends with a new baseline.
LEMMA BaselineType ==
    ASSUME TypeInv, NEW c \in Checkout, NEW new \in Baselines,
           base' = [base EXCEPT ![c] = new] \/ base' = base, Ends(c),
           queue' \in [Checkout -> Seq(Items)], \A d \in Checkout \ {c} : queue'[d] = queue[d],
           \A i \in DOMAIN queue'[c] : \E j \in DOMAIN queue[c] : queue'[c][i] = queue[c][j],
           UNCHANGED <<clock, mem, store, history, events>>
    PROVE  TypeInv'
<1>1. /\ HeldOK' /\ pc'[c] = "idle" /\ held'[c] = NoPublication
      /\ \A d \in Checkout \ {c} : pc'[d] = pc[d] /\ held'[d] = held[d]
    BY EndsTyped, TypeFacts
<1>2. base' \in [Checkout -> Baselines]
    BY TypeFacts DEF LocalOK
<1>3. LocalOK' /\ StoreOK' /\ FileOK(c)'
    BY <1>2, TypeFacts, StoreStable DEF LocalOK, FileOK
<1>4. CommandOK(c)' /\ CommandTyped(c)'
    BY <1>1, EndsCommand
<1> QED
    BY <1>1, <1>3, <1>4, TypeFacts, TypeStep DEF store, history

LEMMA RefreshFinishType ==
    ASSUME TypeInv, NEW c \in Checkout, RefreshFinish(c)
    PROVE  TypeInv'
<1>1. /\ pc[c] = "applied"
      /\ base' = [base EXCEPT ![c] = [held[c] EXCEPT !.pages = @ \cap Local(c)]]
      /\ Ends(c) /\ UNCHANGED <<clock, mem, queue, store, history, events>>
    BY DEF RefreshFinish
<1>2. held[c] \in Baselines
    BY <1>1, TypeFacts, HeldTypes
<1>3. [held[c] EXCEPT !.pages = @ \cap Local(c)] \in Baselines
    BY <1>2 DEF Baselines, Local
<1> QED
    BY <1>1, <1>3, TypeFacts, BaselineType DEF LocalOK

LEMMA PublishFetchType ==
    ASSUME TypeInv, NEW c \in Checkout, PublishFetch(c)
    PROVE  TypeInv'
<1>1. events' \in 0..MaxEvents /\ events' >= events
    BY TypeFacts, CountTyped DEF PublishFetch
<1>2. /\ queue[c] = <<>> /\ Goes(c, "latest", Comparison(latest.ver))
      /\ UNCHANGED <<clock, local, store, birth, had>>
    BY DEF PublishFetch, history
<1>3. "latest" \in Steps /\ Comparison(latest.ver) \in HeldAt("latest")
  <2>1. latest.ver \in Contents
    BY TypeFacts DEF StoreOK
  <2> QED
    BY <2>1, EmptyType DEF Steps, HeldAt, Comparison, Comparisons, Pages
<1>4. pc'[c] = "latest" /\ held'[c] = Comparison(latest.ver)
    BY <1>2, <1>3, TypeFacts, GoesTyped
<1>5. CommandOK(c)' /\ CommandTyped(c)'
    BY <1>2, <1>4 DEF CommandOK, CommandTyped, Busy, Preparing, Comparison, Pages, local
<1> QED
    BY <1>1, <1>2, <1>3, <1>5, CommandType

\* A publication that goes on comparing.
LEMMA ComparingType ==
    ASSUME TypeInv, NEW c \in Checkout, Preparing(c), NEW what \in Comparisons,
           Goes(c, "compared", what), what.todo \subseteq held[c].todo, what.seen = held[c].seen,
           events' = events, UNCHANGED <<clock, base, queue, store, birth>>,
           mem' \in [Checkout -> Files], \A d \in Checkout \ {c} : mem'[d] = mem[d],
           had' \in [Checkout -> SUBSET Version], FileOK(c)'
    PROVE  TypeInv'
<1>1. "compared" \in Steps /\ what \in HeldAt("compared")
    BY DEF Steps, HeldAt
<1>2. /\ HeldOK' /\ pc'[c] = "compared" /\ held'[c] = what
      /\ \A d \in Checkout \ {c} : pc'[d] = pc[d] /\ held'[d] = held[d]
    BY <1>1, TypeFacts, GoesTyped
<1>3. queue[c] = <<>> /\ held[c].todo \subseteq Pages(held[c].seen)
    BY TypeFacts DEF CommandOK
<1>4. CommandOK(c)' /\ CommandTyped(c)'
  <2>1. what.todo \subseteq Pages(what.seen)
    BY <1>3
  <2> QED
    BY <1>2, <1>3, <2>1 DEF CommandOK, CommandTyped, Busy, Preparing, Pages
<1>5. LocalOK' /\ StoreOK'
    BY TypeFacts, StoreStable DEF LocalOK, Files
<1> QED
    BY <1>2, <1>4, <1>5, TypeFacts, TypeStep DEF store

LEMMA PublishCompareParts ==
    ASSUME TypeInv, NEW c \in Checkout, PublishCompare(c)
    PROVE  /\ pc[c] = "latest" /\ Preparing(c) /\ held[c] \in Comparisons
           /\ pc'[c] = "compared" /\ held'[c] \in Comparisons
           /\ \A d \in Checkout \ {c} : pc'[d] = pc[d] /\ held'[d] = held[d]
           /\ held'[c].dels = DatedNow(Gone(c)) /\ held'[c].must = Gone(c) \cup Stale(c)
           /\ held'[c].seen = held[c].seen /\ held'[c].todo = held[c].todo
           /\ held'[c].drifted = held[c].drifted
           /\ Goes(c, "compared", held'[c])
           /\ UNCHANGED <<clock, local, store, history, events>>
<1> DEFINE what == [held[c] EXCEPT !.dels = DatedNow(Gone(c)), !.must = Gone(c) \cup Stale(c)]
<1>1. /\ pc[c] = "latest" /\ Goes(c, "compared", what)
      /\ UNCHANGED <<clock, local, store, history, events>>
    BY DEF PublishCompare
<1>2. Preparing(c) /\ held[c] \in Comparisons
    BY <1>1, TypeFacts, HeldTypes DEF Preparing
<1>3. Gone(c) \cup Stale(c) \subseteq Page
    BY TypeFacts DEF Gone, Stale, Known, LocalOK, Baselines
<1>4. /\ what \in Comparisons /\ what.dels = DatedNow(Gone(c)) /\ what.must = Gone(c) \cup Stale(c)
      /\ what.seen = held[c].seen /\ what.todo = held[c].todo /\ what.drifted = held[c].drifted
    BY <1>2, <1>3, DatedNowType, TypeFacts DEF Comparisons
<1> HIDE DEF what
<1>5. "compared" \in Steps /\ what \in HeldAt("compared")
    BY <1>4 DEF Steps, HeldAt
<1>6. /\ pc'[c] = "compared" /\ held'[c] = what
      /\ \A d \in Checkout \ {c} : pc'[d] = pc[d] /\ held'[d] = held[d]
    BY <1>1, <1>5, TypeFacts, GoesTyped
<1> QED
    BY <1>1, <1>2, <1>4, <1>6

LEMMA PublishCompareType ==
    ASSUME TypeInv, NEW c \in Checkout, PublishCompare(c)
    PROVE  TypeInv'
<1>1. /\ Preparing(c) /\ held'[c] \in Comparisons /\ Goes(c, "compared", held'[c])
      /\ held'[c].todo \subseteq held[c].todo /\ held'[c].seen = held[c].seen
      /\ UNCHANGED <<clock, local, store, history, events>>
    BY PublishCompareParts
<1>2. FileOK(c)'
    BY <1>1, TypeFacts DEF FileOK, local
<1> QED
    BY <1>1, <1>2, TypeFacts, ComparingType DEF local, history

\* What memory/ has after page p of latest.json was gone through.
RestoredFiles(c, p) ==
    IF mem[c][p].ver = 0 THEN [mem[c] EXCEPT ![p] = File(held[c].seen[p], clock)] ELSE mem[c]

LEMMA PublishRestoreParts ==
    ASSUME TypeInv, NEW c \in Checkout, NEW p \in Page, PublishRestore(c, p)
    PROVE  /\ pc[c] = "compared" /\ Preparing(c) /\ held[c] \in Comparisons
           /\ p \in held[c].todo /\ held[c].seen[p] # 0 /\ held[c].seen[p] \in Version
           /\ pc'[c] = "compared" /\ held'[c] \in Comparisons
           /\ \A d \in Checkout \ {c} : pc'[d] = pc[d] /\ held'[d] = held[d]
           /\ held'[c].dels = held[c].dels /\ held'[c].must = held[c].must
           /\ held'[c].seen = held[c].seen /\ held'[c].todo = held[c].todo \ {p}
           /\ held'[c].drifted = IF mem[c][p].ver \in {0, held[c].seen[p]} THEN held[c].drifted
                                 ELSE held[c].drifted \cup {p}
           /\ Goes(c, "compared", held'[c])
           /\ Receives(c, RestoredFiles(c, p)) /\ RestoredFiles(c, p) \in Files
           /\ \A q \in Page \ {p} : RestoredFiles(c, p)[q] = mem[c][q]
           /\ RestoredFiles(c, p)[p] = IF mem[c][p].ver = 0 THEN File(held[c].seen[p], clock)
                                       ELSE mem[c][p]
           /\ behind' = IF mem[c][p].ver = 0 /\ p \notin held[c].must /\ Tomb(p) # 0
                              /\ Merged(p) # held[c].seen[p]
                        THEN behind \cup {p} ELSE behind
           /\ UNCHANGED <<clock, base, queue, store, birth, raced, late, stranded, unread, removed,
                          events>>
<1> DEFINE seen == held[c].seen[p]
           here == mem[c][p].ver
           what == [held[c] EXCEPT !.todo = @ \ {p},
                        !.drifted = IF here \in {0, seen} THEN @ ELSE @ \cup {p}]
<1>1. /\ pc[c] = "compared" /\ p \in held[c].todo
      /\ Receives(c, IF here = 0 THEN [mem[c] EXCEPT ![p] = File(seen, clock)] ELSE mem[c])
      /\ Goes(c, "compared", what)
      /\ behind' = IF here = 0 /\ p \notin held[c].must /\ Tomb(p) # 0 /\ Merged(p) # seen
                   THEN behind \cup {p} ELSE behind
      /\ UNCHANGED <<clock, base, queue, store, birth, raced, late, stranded, unread, removed, events>>
    BY Zenon DEF PublishRestore
<1>2. Preparing(c) /\ held[c] \in Comparisons
    BY <1>1, TypeFacts, HeldTypes DEF Preparing
<1>3. p \in Pages(held[c].seen)
    BY <1>1, <1>2, TypeFacts DEF CommandOK
<1>4. seen # 0 /\ seen \in Version
    BY <1>2, <1>3 DEF Pages, Comparisons, Contents
<1>5. /\ what \in Comparisons /\ what.dels = held[c].dels /\ what.must = held[c].must
      /\ what.seen = held[c].seen /\ what.todo = held[c].todo \ {p}
      /\ what.drifted = IF here \in {0, seen} THEN held[c].drifted ELSE held[c].drifted \cup {p}
    BY <1>2 DEF Comparisons
<1>6. /\ RestoredFiles(c, p) \in Files
      /\ \A q \in Page \ {p} : RestoredFiles(c, p)[q] = mem[c][q]
      /\ RestoredFiles(c, p)[p] = IF here = 0 THEN File(seen, clock) ELSE mem[c][p]
    BY <1>4, TypeFacts DEF RestoredFiles, Files, File
<1> HIDE DEF what
<1>7. "compared" \in Steps /\ what \in HeldAt("compared")
    BY <1>5 DEF Steps, HeldAt
<1>8. /\ pc'[c] = "compared" /\ held'[c] = what
      /\ \A d \in Checkout \ {c} : pc'[d] = pc[d] /\ held'[d] = held[d]
    BY <1>1, <1>7, TypeFacts, GoesTyped
<1> QED
    BY <1>1, <1>2, <1>4, <1>5, <1>6, <1>8 DEF RestoredFiles

LEMMA PublishRestoreType ==
    ASSUME TypeInv, NEW c \in Checkout, NEW p \in Page, PublishRestore(c, p)
    PROVE  TypeInv'
<1>1. /\ Preparing(c) /\ held'[c] \in Comparisons /\ Goes(c, "compared", held'[c])
      /\ held'[c].todo \subseteq held[c].todo /\ held'[c].seen = held[c].seen
      /\ Receives(c, RestoredFiles(c, p)) /\ RestoredFiles(c, p) \in Files
      /\ UNCHANGED <<clock, base, queue, store, birth, events>>
    BY PublishRestoreParts
<1>2. /\ mem' \in [Checkout -> Files] /\ had' \in [Checkout -> SUBSET Version]
      /\ mem'[c] = RestoredFiles(c, p) /\ \A d \in Checkout \ {c} : mem'[d] = mem[d]
    BY <1>1, ReceivesTyped, TypeFacts
<1>3. \A q \in Page : RestoredFiles(c, p)[q].ver = 0 <=> RestoredFiles(c, p)[q].mtime = 0
  <2> SUFFICES ASSUME NEW q \in Page
               PROVE  RestoredFiles(c, p)[q].ver = 0 <=> RestoredFiles(c, p)[q].mtime = 0
    OBVIOUS
  <2>0. /\ held[c].seen[p] # 0
        /\ \A r \in Page \ {p} : RestoredFiles(c, p)[r] = mem[c][r]
        /\ RestoredFiles(c, p)[p] = IF mem[c][p].ver = 0 THEN File(held[c].seen[p], clock)
                                    ELSE mem[c][p]
    BY PublishRestoreParts, Zenon
  <2>1. (mem[c][q].ver = 0 <=> mem[c][q].mtime = 0) /\ clock # 0
    BY TypeFacts DEF FileOK
  <2>2. RestoredFiles(c, p)[q] \in {File(held[c].seen[p], clock), mem[c][q]}
    BY <2>0
  <2> QED
    BY <2>0, <2>1, <2>2 DEF File
<1>4. FileOK(c)'
    BY <1>1, <1>2, <1>3, TypeFacts DEF FileOK
<1> QED
    BY <1>1, <1>2, <1>4, ComparingType

LEMMA PublishStripParts ==
    ASSUME TypeInv, NEW c \in Checkout, NEW p \in Page, PublishStrip(c, p)
    PROVE  /\ pc[c] = "compared" /\ Preparing(c) /\ held[c] \in Comparisons
           /\ held[c].todo = {} /\ p \in held[c].must
           /\ pc'[c] = "compared" /\ held'[c] \in Comparisons
           /\ \A d \in Checkout \ {c} : pc'[d] = pc[d] /\ held'[d] = held[d]
           /\ held'[c].dels = held[c].dels /\ held'[c].must = held[c].must \ {p}
           /\ held'[c].seen = held[c].seen /\ held'[c].todo = held[c].todo
           /\ held'[c].drifted = held[c].drifted
           /\ Goes(c, "compared", held'[c])
           /\ mem' \in [Checkout -> Files] /\ mem'[c][p] = NoFile
           /\ \A q \in Page \ {p} : mem'[c][q] = mem[c][q]
           /\ \A d \in Checkout \ {c} : mem'[d] = mem[d]
           /\ UNCHANGED <<clock, base, queue, store, history, events>>
<1> DEFINE what == [held[c] EXCEPT !.must = @ \ {p}]
<1>1. /\ pc[c] = "compared" /\ held[c].todo = {} /\ p \in held[c].must
      /\ mem' = [mem EXCEPT ![c][p] = NoFile]
      /\ Goes(c, "compared", what)
      /\ UNCHANGED <<clock, base, queue, store, history, events>>
    BY DEF PublishStrip
<1>2. Preparing(c) /\ held[c] \in Comparisons
    BY <1>1, TypeFacts, HeldTypes DEF Preparing
<1>3. /\ what \in Comparisons /\ what.dels = held[c].dels /\ what.must = held[c].must \ {p}
      /\ what.seen = held[c].seen /\ what.todo = held[c].todo /\ what.drifted = held[c].drifted
    BY <1>2 DEF Comparisons
<1>4. /\ mem' \in [Checkout -> Files] /\ mem'[c][p] = NoFile
      /\ \A q \in Page \ {p} : mem'[c][q] = mem[c][q]
      /\ \A d \in Checkout \ {c} : mem'[d] = mem[d]
    BY <1>1, NoFileType, TypeFacts DEF Files
<1> HIDE DEF what
<1>5. "compared" \in Steps /\ what \in HeldAt("compared")
    BY <1>3 DEF Steps, HeldAt
<1>6. /\ pc'[c] = "compared" /\ held'[c] = what
      /\ \A d \in Checkout \ {c} : pc'[d] = pc[d] /\ held'[d] = held[d]
    BY <1>1, <1>5, TypeFacts, GoesTyped
<1> QED
    BY <1>1, <1>2, <1>3, <1>4, <1>6

LEMMA PublishStripType ==
    ASSUME TypeInv, NEW c \in Checkout, NEW p \in Page, PublishStrip(c, p)
    PROVE  TypeInv'
<1>1. /\ Preparing(c) /\ held'[c] \in Comparisons /\ Goes(c, "compared", held'[c])
      /\ held'[c].todo \subseteq held[c].todo /\ held'[c].seen = held[c].seen
      /\ mem' \in [Checkout -> Files] /\ mem'[c][p] = NoFile
      /\ \A q \in Page \ {p} : mem'[c][q] = mem[c][q]
      /\ \A d \in Checkout \ {c} : mem'[d] = mem[d]
      /\ UNCHANGED <<clock, base, queue, store, history, events>>
    BY PublishStripParts
<1>2. FileOK(c)'
    BY <1>1, TypeFacts DEF FileOK, NoFile, File
<1> QED
    BY <1>1, <1>2, TypeFacts, ComparingType DEF history

LEMMA ShownType ==
    ASSUME TypeOK, NEW seen \in Contents
    PROVE  /\ Shown(seen) \in Contents
           /\ \A p \in Page : Shown(seen)[p] = IF seen[p] = Merged(p) THEN seen[p] ELSE 0
  BY BoundAssumption DEF Shown, Contents, Version

\* What a publication holds once it is prepared.
Prepared(c) == Publication(FALSE, Empty, Empty, held[c].dels, Shown(held[c].seen))

LEMMA PublishCheckParts ==
    ASSUME TypeInv, NEW c \in Checkout, PublishCheck(c)
    PROVE  /\ pc[c] = "compared" /\ Preparing(c) /\ held[c] \in Comparisons
           /\ held[c].todo = {} /\ held[c].must = {} /\ queue[c] = <<>>
           /\ Prepared(c) \in Publications
           /\ \/ Ends(c)
              \/ Goes(c, "prepared", Prepared(c)) /\ \A p \in held[c].drifted : FastForward(c, p)
           /\ UNCHANGED <<clock, local, store, history, events>>
<1>1. /\ pc[c] = "compared" /\ held[c].todo = {} /\ held[c].must = {}
      /\ \/ Ends(c)
         \/ Goes(c, "prepared", Prepared(c)) /\ \A p \in held[c].drifted : FastForward(c, p)
      /\ UNCHANGED <<clock, local, store, history, events>>
    BY Zenon DEF PublishCheck, Prepared
<1>2. Preparing(c) /\ held[c] \in Comparisons
    BY <1>1, TypeFacts, HeldTypes DEF Preparing
<1>3. queue[c] = <<>>
    BY <1>2, TypeFacts DEF CommandOK
<1>4. Prepared(c) \in Publications
    BY <1>2, EmptyType, ShownType, TypeFacts DEF Prepared, Publication, Publications, Comparisons
<1> QED
    BY <1>1, <1>2, <1>3, <1>4

LEMMA PublishCheckType ==
    ASSUME TypeInv, NEW c \in Checkout, PublishCheck(c)
    PROVE  TypeInv'
<1>1. /\ queue[c] = <<>> /\ Prepared(c) \in Publications
      /\ UNCHANGED <<clock, local, store, history, events>>
    BY PublishCheckParts
<1>2. CASE Ends(c)
    BY <1>1, <1>2, TypeFacts, CommandEndsType DEF history
<1>3. CASE Goes(c, "prepared", Prepared(c))
  <2>1. "prepared" \in Steps /\ Prepared(c) \in HeldAt("prepared")
    BY <1>1 DEF Steps, HeldAt
  <2>2. pc'[c] = "prepared" /\ held'[c] = Prepared(c)
    BY <1>3, <2>1, TypeFacts, GoesTyped
  <2>3. CommandOK(c)' /\ CommandTyped(c)'
    BY <1>1, <2>2
    DEF CommandOK, CommandTyped, Busy, Preparing, Prepared, Publication, local, Empty
  <2> QED
    BY <1>1, <1>3, <2>1, <2>3, TypeFacts, CommandType DEF history
<1> QED
    BY <1>2, <1>3, PublishCheckParts

\* What publishMemoryToStore selects, if it finds the pages stale deleted.
Selected(c, stale) ==
    [held[c] EXCEPT !.ver = [p \in Page |-> IF p \in Local(c) \ stale THEN mem[c][p].ver ELSE 0],
                    !.stale = stale]

LEMMA PublishSelectParts ==
    ASSUME TypeInv, NEW c \in Checkout, PublishSelect(c)
    PROVE  /\ pc[c] = "prepared" /\ Busy(c) /\ held[c] \in Publications /\ ~held[c].replay
           /\ \E stale \in {Stale(c), {}} :
                 /\ Ends(c) \/ Goes(c, "selected", Selected(c, stale))
                 /\ unread' = unread \cup ((Local(c) \ stale) \cap Stale(c))
           /\ UNCHANGED <<clock, local, store, birth, had, raced, late, behind, stranded, removed,
                          events>>
<1>1. PICK stale \in {Stale(c), {}} :
         /\ pc[c] = "prepared"
         /\ Ends(c) \/ Goes(c, "selected", Selected(c, stale))
         /\ unread' = unread \cup ((Local(c) \ stale) \cap Stale(c))
         /\ UNCHANGED <<clock, local, store, birth, had, raced, late, behind, stranded, removed,
                        events>>
    BY Zenon DEF PublishSelect, Selected
<1>2. Busy(c)
    BY <1>1 DEF Busy
<1>3. held[c] \in Publications /\ ~held[c].replay
    BY <1>1, <1>2, TypeFacts, HeldTypes DEF CommandOK
<1> QED
    BY <1>1, <1>2, <1>3

LEMMA SelectedFields ==
    ASSUME TypeInv, NEW c \in Checkout, pc[c] = "prepared", NEW stale \in {Stale(c), {}}
    PROVE  /\ Selected(c, stale) \in Publications
           /\ ~Selected(c, stale).replay
           /\ Selected(c, stale).dels = held[c].dels /\ Selected(c, stale).stale = stale
           /\ Selected(c, stale).shown = held[c].shown
           /\ \A p \in Page :
                 Selected(c, stale).ver[p] = IF p \in Local(c) \ stale THEN mem[c][p].ver ELSE 0
<1>1. held[c] \in Publications /\ ~held[c].replay
    BY TypeFacts, HeldTypes DEF CommandOK, Busy
<1>2. stale \subseteq Page
    BY DEF Stale
<1>3. [p \in Page |-> IF p \in Local(c) \ stale THEN mem[c][p].ver ELSE 0] \in Contents
    BY TypeFacts, BoundAssumption DEF Contents, Version, Files
<1> QED
    BY <1>1, <1>2, <1>3 DEF Selected, Publications

LEMMA PublishSelectType ==
    ASSUME TypeInv, NEW c \in Checkout, PublishSelect(c)
    PROVE  TypeInv'
<1>1. /\ pc[c] = "prepared" /\ ~held[c].replay
      /\ UNCHANGED <<clock, local, store, birth, had, events>>
    BY PublishSelectParts
<1>2. CASE Ends(c)
    BY <1>1, <1>2, TypeFacts, CommandEndsType
<1>3. ASSUME NEW stale \in {Stale(c), {}}, Goes(c, "selected", Selected(c, stale)) PROVE TypeInv'
  <2>1. "selected" \in Steps /\ Selected(c, stale) \in HeldAt("selected")
    BY <1>1, SelectedFields DEF Steps, HeldAt
  <2>2. pc'[c] = "selected" /\ held'[c] = Selected(c, stale)
    BY <1>3, <2>1, TypeFacts, GoesTyped
  <2>3. queue[c] = <<>>
    BY <1>1, TypeFacts DEF CommandOK, Busy
  <2>4. CommandOK(c)' /\ CommandTyped(c)'
    BY <1>1, <2>2, <2>3, SelectedFields DEF CommandOK, CommandTyped, Busy, Preparing, local
  <2> QED
    BY <1>1, <1>3, <2>1, <2>4, TypeFacts, CommandType
<1> QED
    BY <1>2, <1>3, PublishSelectParts

LEMMA PublishTornType ==
    ASSUME TypeInv, NEW c \in Checkout, PublishTorn(c)
    PROVE  TypeInv'
  BY TypeFacts, CommandEndsType DEF PublishTorn, history

\* Queue items: what is frozen, and what an item of the same content becomes.
Frozen(c) == [p \in Page |-> mem[c][p].ver]

LEMMA EnqueueFields ==
    ASSUME TypeInv, NEW c \in Checkout, NEW dels \in Marks, Enqueue(c, dels)
    PROVE  /\ Local(c) # {} /\ Frozen(c) \in Contents \ {Empty}
           /\ queue' \in [Checkout -> Seq(Items)]
           /\ \A d \in Checkout \ {c} : queue'[d] = queue[d]
           /\ Len(queue'[c]) \in {Len(queue[c]), Len(queue[c]) + 1}
           /\ \A i \in DOMAIN queue[c] :
                 /\ i \in DOMAIN queue'[c] /\ queue'[c][i].ver = queue[c][i].ver
                 /\ \/ queue'[c][i] = queue[c][i]
                    \/ /\ queue[c][i].ver = Frozen(c)
                       /\ \A p \in Page :
                             /\ queue'[c][i].mark[p] \in {queue[c][i].mark[p], mem[c][p].mtime, 0}
                             /\ queue'[c][i].mark[p] >= queue[c][i].mark[p]
                             /\ queue'[c][i].mark[p] >= mem[c][p].mtime
                             /\ queue'[c][i].dels[p] \in {queue[c][i].dels[p], dels[p], 0}
           /\ \A i \in DOMAIN queue'[c] \ DOMAIN queue[c] :
                 /\ i = Len(queue[c]) + 1
                 /\ queue'[c][i] = Item(Frozen(c), [p \in Page |-> mem[c][p].mtime], dels)
<1> DEFINE ver == [p \in Page |-> mem[c][p].ver]
           mark == [p \in Page |-> mem[c][p].mtime]
           Later(a, b) == [p \in Page |-> Largest({a[p], b[p]})]
           Earlier(a, b) == [p \in Page |-> IF 0 \in {a[p], b[p]} THEN Largest({a[p], b[p]})
                                                                  ELSE Min({a[p], b[p]})]
           Joined(item) ==
               IF item.ver = ver THEN Item(ver, Later(item.mark, mark), Earlier(item.dels, dels))
                                 ELSE item
           q == queue[c]
           found == \E i \in DOMAIN q : q[i].ver = ver
<1>1. /\ Local(c) # {}
      /\ queue' = [queue EXCEPT ![c] =
            IF found THEN [i \in DOMAIN q |-> Joined(q[i])] ELSE Append(q, Item(ver, mark, dels))]
    BY Zenon DEF Enqueue
<1>2. ver \in Contents /\ mark \in Marks
    BY TypeFacts DEF Contents, Marks, Files
<1>3. ver # Empty
    BY <1>1 DEF Local, Empty
<1>4. q \in Seq(Items) /\ queue \in [Checkout -> Seq(Items)]
    BY TypeFacts DEF LocalOK
<1>5. Item(ver, mark, dels) \in Items
    BY <1>2, <1>3 DEF Item, Items
<1>6. ASSUME NEW a \in Time, NEW b \in Time
      PROVE  /\ Largest({a, b}) \in Time /\ Largest({a, b}) \in {a, b, 0}
             /\ Largest({a, b}) >= a /\ Largest({a, b}) >= b
             /\ Min({a, b}) \in {a, b}
  <2>1. {a, b} \subseteq 0..MaxClock /\ {a, b} \subseteq Nat /\ {a, b} # {}
    BY Bounds
  <2>2. /\ Largest({a, b}) \in 0..MaxClock /\ (Largest({a, b}) # 0 => Largest({a, b}) \in {a, b})
        /\ \A y \in {a, b} : y <= Largest({a, b})
    BY <2>1, LargestGreatest, Bounds
  <2>3. Min({a, b}) \in {a, b}
    BY <2>1, MinLeast
  <2> QED
    BY <2>2, <2>3, Bounds
<1>7. ASSUME NEW i \in DOMAIN q
      PROVE  /\ Joined(q[i]) \in Items /\ Joined(q[i]).ver = q[i].ver
             /\ \/ Joined(q[i]) = q[i]
                \/ /\ q[i].ver = ver
                   /\ \A p \in Page :
                         /\ Joined(q[i]).mark[p] \in {q[i].mark[p], mem[c][p].mtime, 0}
                         /\ Joined(q[i]).mark[p] >= q[i].mark[p]
                         /\ Joined(q[i]).mark[p] >= mem[c][p].mtime
                         /\ Joined(q[i]).dels[p] \in {q[i].dels[p], dels[p], 0}
  <2>1. q[i] \in Items
    BY <1>4
  <2>2. CASE q[i].ver # ver
    BY <2>1, <2>2
  <2>3. CASE q[i].ver = ver
    <3>1. q[i].mark \in Marks /\ q[i].dels \in Marks
      BY <2>1 DEF Items
    <3>2. \A p \in Page : /\ Largest({q[i].mark[p], mark[p]}) \in Time
                          /\ Largest({q[i].mark[p], mark[p]}) \in {q[i].mark[p], mark[p], 0}
                          /\ Largest({q[i].mark[p], mark[p]}) >= q[i].mark[p]
                          /\ Largest({q[i].mark[p], mark[p]}) >= mark[p]
      BY <1>2, <1>6, <3>1 DEF Marks
    <3>3. \A p \in Page : /\ Earlier(q[i].dels, dels)[p] \in Time
                          /\ Earlier(q[i].dels, dels)[p] \in {q[i].dels[p], dels[p], 0}
      <4> SUFFICES ASSUME NEW p \in Page
                   PROVE  /\ Earlier(q[i].dels, dels)[p] \in Time
                          /\ Earlier(q[i].dels, dels)[p] \in {q[i].dels[p], dels[p], 0}
        OBVIOUS
      <4>1. q[i].dels[p] \in Time /\ dels[p] \in Time
        BY <3>1 DEF Marks
      <4>2. /\ Largest({q[i].dels[p], dels[p]}) \in Time
            /\ Largest({q[i].dels[p], dels[p]}) \in {q[i].dels[p], dels[p], 0}
            /\ Min({q[i].dels[p], dels[p]}) \in {q[i].dels[p], dels[p]}
        BY <4>1, <1>6
      <4> QED
        BY <4>1, <4>2
    <3>4. Later(q[i].mark, mark) \in Marks /\ Earlier(q[i].dels, dels) \in Marks
      BY <3>2, <3>3 DEF Marks
    <3>5. Joined(q[i]) = Item(ver, Later(q[i].mark, mark), Earlier(q[i].dels, dels))
      BY <2>3
    <3> HIDE DEF Earlier, Joined, ver
    <3>6. /\ Joined(q[i]).ver = ver /\ Joined(q[i]).mark = Later(q[i].mark, mark)
          /\ Joined(q[i]).dels = Earlier(q[i].dels, dels)
      BY <3>5 DEF Item
    <3>7. Joined(q[i]) \in Items
      BY <3>4, <3>5, <1>2, <1>3 DEF Item, Items
    <3> QED
      BY <2>3, <3>2, <3>3, <3>6, <3>7
  <2> QED
    BY <2>2, <2>3
<1> HIDE DEF Joined, ver, found
<1>8. CASE found
  <2> DEFINE f == [i \in DOMAIN q |-> Joined(q[i])]
  <2>1. queue' = [queue EXCEPT ![c] = f]
    BY <1>1, <1>8
  <2>2. f \in Seq(Items) /\ Len(f) = Len(q) /\ DOMAIN f = DOMAIN q
    <3>1. DOMAIN q = 1..Len(q) /\ Len(q) \in Nat
      BY <1>4
    <3>2. f \in [1..Len(q) -> Items]
      BY <1>7, <3>1
    <3> QED
      BY <3>1, <3>2
  <2>3. queue'[c] = f /\ queue' \in [Checkout -> Seq(Items)]
        /\ \A d \in Checkout \ {c} : queue'[d] = queue[d]
    BY <1>4, <2>1, <2>2
  <2>4. \A i \in DOMAIN q : f[i] = Joined(q[i])
    OBVIOUS
  <2> HIDE DEF f
  <2> QED
    BY <1>1, <1>2, <1>3, <1>4, <1>7, <2>2, <2>3, <2>4 DEF Frozen, ver
<1>9. CASE ~found
  <2> DEFINE f == Append(q, Item(ver, mark, dels))
  <2>1. queue' = [queue EXCEPT ![c] = f]
    BY <1>1, <1>9
  <2>2. /\ f \in Seq(Items) /\ Len(f) = Len(q) + 1
        /\ \A i \in DOMAIN q : i \in DOMAIN f /\ f[i] = q[i]
        /\ \A i \in DOMAIN f \ DOMAIN q : i = Len(q) + 1 /\ f[i] = Item(ver, mark, dels)
    BY <1>4, <1>5
  <2>3. queue'[c] = f /\ queue' \in [Checkout -> Seq(Items)]
        /\ \A d \in Checkout \ {c} : queue'[d] = queue[d]
    BY <1>4, <2>1, <2>2
  <2> HIDE DEF f
  <2> QED
    BY <1>1, <1>2, <1>3, <2>2, <2>3 DEF Frozen, ver
<1> QED
    BY <1>8, <1>9

LEMMA EnqueueKeeps ==
    ASSUME TypeInv, NEW c \in Checkout, NEW dels \in Marks, Enqueue(c, dels),
           NEW i \in DOMAIN queue[c]
    PROVE  /\ queue'[c][i].ver = queue[c][i].ver
           /\ \/ queue'[c][i] = queue[c][i]
              \/ /\ queue[c][i].ver = Frozen(c)
                 /\ \A p \in Page :
                       /\ queue'[c][i].mark[p] \in {queue[c][i].mark[p], mem[c][p].mtime, 0}
                       /\ queue'[c][i].mark[p] >= queue[c][i].mark[p]
                       /\ queue'[c][i].mark[p] >= mem[c][p].mtime
                       /\ queue'[c][i].dels[p] \in {queue[c][i].dels[p], dels[p], 0}
  BY EnqueueFields, Zenon

LEMMA EnqueueAppends ==
    ASSUME TypeInv, NEW c \in Checkout, NEW dels \in Marks, Enqueue(c, dels),
           NEW i \in DOMAIN queue'[c], i \notin DOMAIN queue[c]
    PROVE  /\ i = Len(queue[c]) + 1
           /\ queue'[c][i] = Item(Frozen(c), [p \in Page |-> mem[c][p].mtime], dels)
<1>1. i \in DOMAIN queue'[c] \ DOMAIN queue[c]
    OBVIOUS
<1> QED
    BY <1>1, EnqueueFields, Zenon

LEMMA EnqueueItems ==
    ASSUME TypeInv, NEW c \in Checkout, NEW dels \in Marks, Enqueue(c, dels), mem' = mem
    PROVE  FileOK(c)'
<1> SUFFICES ASSUME NEW i \in DOMAIN queue'[c], NEW p \in Page, queue'[c][i].ver[p] # 0
             PROVE  queue'[c][i].mark[p] # 0
    BY TypeFacts DEF FileOK
<1>1. mem[c][p].ver # 0 => mem[c][p].mtime # 0
    BY TypeFacts DEF FileOK
<1>2. CASE i \in DOMAIN queue[c]
  <2>1. /\ queue'[c][i].ver = queue[c][i].ver
        /\ \/ queue'[c][i] = queue[c][i]
           \/ queue'[c][i].mark[p] >= queue[c][i].mark[p]
    BY <1>2, EnqueueKeeps
  <2>2. queue[c][i].mark[p] # 0
    BY <1>2, <2>1, TypeFacts DEF FileOK
  <2>3. queue[c][i].mark[p] \in Nat
    <3>1. queue[c] \in Seq(Items)
      BY TypeFacts DEF LocalOK
    <3>2. queue[c][i] \in Items
      BY <1>2, <3>1
    <3> QED
      BY <3>2, Bounds DEF Items, Marks
  <2> QED
    BY <2>1, <2>2, <2>3
<1>3. CASE i \notin DOMAIN queue[c]
  <2>1. queue'[c][i] = Item(Frozen(c), [q \in Page |-> mem[c][q].mtime], dels)
    BY <1>3, EnqueueAppends
  <2> QED
    BY <1>1, <2>1 DEF Item, Frozen
<1> QED
    BY <1>2, <1>3

\* The deletions of a flush are of pages that are not here.
LEMMA FlushDels ==
    ASSUME TypeInv, NEW c \in Checkout
    PROVE  /\ DatedNow(base[c].pages \ Local(c)) \in Marks
           /\ Pages(DatedNow(base[c].pages \ Local(c))) \subseteq base[c].pages \ Local(c)
  BY TypeFacts, DatedNowType DEF Pages

LEMMA FlushType ==
    ASSUME TypeInv, NEW c \in Checkout, Flush(c)
    PROVE  TypeInv'
<1> DEFINE dels == DatedNow(base[c].pages \ Local(c))
<1>1. events' \in 0..MaxEvents /\ events' = events + 1
    BY TypeFacts, CountTyped DEF Flush
<1>2. /\ pc[c] = "idle" /\ Enqueue(c, dels)
      /\ UNCHANGED <<clock, mem, base, store, pc, held, history>>
    BY DEF Flush
<1>3. dels \in Marks
    BY FlushDels
<1> HIDE DEF dels
<1>4. queue' \in [Checkout -> Seq(Items)] /\ \A d \in Checkout \ {c} : queue'[d] = queue[d]
    BY <1>2, <1>3, EnqueueFields
<1>5. LocalOK' /\ StoreOK' /\ HeldOK' /\ FileOK(c)'
    BY <1>2, <1>3, <1>4, TypeFacts, StoreStable, EnqueueItems DEF LocalOK, HeldOK
<1>6. CommandOK(c)' /\ CommandTyped(c)'
    BY <1>2, TypeFacts DEF CommandOK, CommandTyped, Busy, Preparing
<1>7. \A d \in Checkout \ {c} : /\ pc'[d] = pc[d] /\ held'[d] = held[d] /\ mem'[d] = mem[d]
                                /\ queue'[d] = queue[d] /\ head'[d] = head[d]
    BY <1>2, <1>4 DEF store
<1>8. clock' = clock /\ birth' = birth /\ had' = had
    BY <1>2 DEF history
<1> QED
    BY <1>1, <1>5, <1>6, <1>7, <1>8, TypeFacts, TypeStep

\* The deletions of a publication that defers.
DefersDels(c) == IF pc[c] = "latest" THEN DatedNow(Gone(c)) ELSE held[c].dels

LEMMA PublishDefersParts ==
    ASSUME TypeInv, NEW c \in Checkout, PublishDefers(c)
    PROVE  /\ \/ pc[c] = "idle" /\ held[c] = NoPublication
              \/ Preparing(c)
              \/ Busy(c) /\ ~held[c].replay
           /\ queue[c] = <<>> /\ Count
           /\ DefersDels(c) \in Marks /\ Enqueue(c, DefersDels(c))
           /\ Ends(c) /\ stranded' = stranded \cup Stranded(c)
           /\ UNCHANGED <<clock, mem, base, store, birth, had, raced, late, behind, unread, removed>>
<1>1. \/ pc[c] = "idle" /\ queue[c] = <<>>
      \/ Preparing(c)
      \/ Busy(c) /\ ~held[c].replay
    BY DEF PublishDefers, Preparing, Busy
<1>6. /\ Count /\ Enqueue(c, DefersDels(c))
      /\ Ends(c) /\ stranded' = stranded \cup Stranded(c)
      /\ UNCHANGED <<clock, mem, base, store, birth, had, raced, late, behind, unread, removed>>
    BY Zenon DEF PublishDefers, DefersDels
<1>2. queue[c] = <<>>
    BY <1>1, TypeFacts DEF CommandOK
<1>3. pc[c] = "idle" => held[c] = NoPublication
    BY TypeFacts DEF CommandOK
<1>4. held[c].dels \in Marks
    BY <1>1, <1>3, HeldTypes, EmptyType, TypeFacts DEF Comparisons, Publications
<1>5. DefersDels(c) \in Marks
    BY <1>4, DatedNowType, TypeFacts DEF DefersDels
<1> QED
    BY <1>1, <1>2, <1>3, <1>5, <1>6

LEMMA PublishDefersType ==
    ASSUME TypeInv, NEW c \in Checkout, PublishDefers(c)
    PROVE  TypeInv'
<1>1. events' \in 0..MaxEvents /\ events' = events + 1
    BY TypeFacts, CountTyped DEF PublishDefers
<1>2. /\ DefersDels(c) \in Marks /\ Enqueue(c, DefersDels(c)) /\ Ends(c)
      /\ UNCHANGED <<clock, mem, base, store, birth, had>>
    BY PublishDefersParts
<1>3. queue' \in [Checkout -> Seq(Items)] /\ \A d \in Checkout \ {c} : queue'[d] = queue[d]
    BY <1>2, EnqueueFields
<1>4. LocalOK' /\ StoreOK' /\ FileOK(c)'
    BY <1>2, <1>3, TypeFacts, StoreStable, EnqueueItems DEF LocalOK
<1>5. /\ HeldOK' /\ pc'[c] = "idle" /\ held'[c] = NoPublication
      /\ \A d \in Checkout \ {c} : pc'[d] = pc[d] /\ held'[d] = held[d]
    BY <1>2, EndsTyped, TypeFacts
<1>6. CommandOK(c)' /\ CommandTyped(c)'
    BY <1>5, EndsCommand
<1> QED
    BY <1>1, <1>2, <1>3, <1>4, <1>5, <1>6, TypeFacts, TypeStep DEF store

LEMMA FirstItem ==
    ASSUME TypeInv, NEW c \in Checkout, queue[c] # <<>>
    PROVE  /\ queue[c] \in Seq(Items) /\ Head(queue[c]) = queue[c][1]
           /\ 1 \in DOMAIN queue[c] /\ queue[c][1] \in Items
<1>1. queue[c] \in Seq(Items)
    BY TypeFacts DEF LocalOK
<1> QED
    BY <1>1

LEMMA ReplayCheckType ==
    ASSUME TypeInv, NEW c \in Checkout, ReplayCheck(c)
    PROVE  TypeInv'
<1>1. /\ queue[c] # <<>> /\ Goes(c, "checked", NoPublication)
      /\ UNCHANGED <<clock, local, store, birth, had, events>>
    BY DEF ReplayCheck, history
<1>2. "checked" \in Steps /\ NoPublication \in HeldAt("checked")
    BY EmptyType DEF Steps, HeldAt
<1>3. pc'[c] = "checked" /\ held'[c] = NoPublication
    BY <1>1, <1>2, TypeFacts, GoesTyped
<1>4. CommandOK(c)' /\ CommandTyped(c)'
    BY <1>1, <1>3 DEF CommandOK, CommandTyped, Busy, Preparing, local
<1> QED
    BY <1>1, <1>2, <1>4, TypeFacts, CommandType

\* The publication of the first queue item.
Replayed(c) ==
    Publication(TRUE, queue[c][1].ver, queue[c][1].mark, queue[c][1].dels, Shown(latest.ver))

LEMMA ReplaySelectParts ==
    ASSUME TypeInv, NEW c \in Checkout, ReplaySelect(c)
    PROVE  /\ pc[c] = "checked" /\ queue[c] # <<>> /\ 1 \in DOMAIN queue[c] /\ queue[c][1] \in Items
           /\ \/ Ends(c)
              \/ ~Differs(c, queue[c][1]) /\ Goes(c, "selected", Replayed(c))
           /\ Replayed(c) \in Publications
           /\ UNCHANGED <<clock, local, store, history, events>>
<1>1. pc[c] = "checked" /\ queue[c] # <<>>
    BY TypeFacts DEF CommandTyped, ReplaySelect
<1>2. Head(queue[c]) = queue[c][1] /\ 1 \in DOMAIN queue[c] /\ queue[c][1] \in Items
    BY <1>1, FirstItem
<1>3. latest.ver \in Contents
    BY TypeFacts DEF StoreOK
<1>4. Replayed(c) \in Publications
    BY <1>2, <1>3, ShownType, TypeFacts DEF Replayed, Publication, Publications, Items
<1>5. \/ Ends(c)
      \/ ~Differs(c, queue[c][1]) /\ Goes(c, "selected", Replayed(c))
    BY <1>2 DEF ReplaySelect, Replayed
<1> QED
    BY <1>1, <1>2, <1>4, <1>5 DEF ReplaySelect

LEMMA ReplaySelectType ==
    ASSUME TypeInv, NEW c \in Checkout, ReplaySelect(c)
    PROVE  TypeInv'
<1>1. /\ queue[c] # <<>> /\ Replayed(c) \in Publications
      /\ UNCHANGED <<clock, local, store, birth, had, events>>
    BY ReplaySelectParts DEF history
<1>2. CASE Ends(c)
    BY <1>1, <1>2, TypeFacts, CommandEndsType
<1>3. CASE Goes(c, "selected", Replayed(c))
  <2>1. "selected" \in Steps /\ Replayed(c) \in HeldAt("selected")
    BY <1>1 DEF Steps, HeldAt
  <2>2. pc'[c] = "selected" /\ held'[c] = Replayed(c)
    BY <1>3, <2>1, TypeFacts, GoesTyped
  <2>3. CommandOK(c)' /\ CommandTyped(c)'
    BY <1>1, <2>2
    DEF CommandOK, CommandTyped, Busy, Preparing, FrozenPublication, Replayed, Publication, local
  <2> QED
    BY <1>1, <1>3, <2>1, <2>3, TypeFacts, CommandType
<1> QED
    BY <1>2, <1>3, ReplaySelectParts

LEMMA CrashType ==
    ASSUME TypeInv, NEW c \in Checkout, Crash(c)
    PROVE  TypeInv'
<1>1. events' \in 0..MaxEvents /\ events' = events + 1
    BY TypeFacts, CountTyped DEF Crash
<1>2. Ends(c) /\ UNCHANGED <<clock, local, store, birth, had>>
    BY DEF Crash
<1> QED
    BY <1>1, <1>2, TypeFacts, CommandEndsType

LEMMA PublishFinishType ==
    ASSUME TypeInv, NEW c \in Checkout, PublishFinish(c)
    PROVE  TypeInv'
<1>1. /\ base' = [base EXCEPT ![c] = [pages |-> Local(c), hash |-> [p \in Page |-> mem[c][p].ver]]]
      /\ Ends(c) /\ UNCHANGED <<clock, mem, queue, store, history, events>>
    BY DEF PublishFinish
<1>2. [pages |-> Local(c), hash |-> [p \in Page |-> mem[c][p].ver]] \in Baselines
    BY TypeFacts DEF Local, Contents, Files, Baselines
<1> QED
    BY <1>1, <1>2, TypeFacts, BaselineType DEF LocalOK

\* A finished replay drops the first item and keeps the others in their order.
LEMMA ReplayFinishParts ==
    ASSUME TypeInv, NEW c \in Checkout, ReplayFinish(c)
    PROVE  /\ pc[c] = "published" /\ held[c].replay
           /\ queue[c] \in Seq(Items) /\ 1 \in DOMAIN queue[c] /\ queue[c][1] \in Items
           /\ \/ base' = [base EXCEPT ![c] = ReplayedBaseline(base[c], queue[c][1])]
              \/ base' = base
           /\ queue' \in [Checkout -> Seq(Items)]
           /\ \A d \in Checkout \ {c} : queue'[d] = queue[d]
           /\ Len(queue'[c]) = Len(queue[c]) - 1
           /\ \A i \in DOMAIN queue'[c] :
                 i + 1 \in DOMAIN queue[c] /\ queue'[c][i] = queue[c][i + 1]
           /\ Ends(c) /\ UNCHANGED <<clock, mem, store, history, events>>
<1>1. pc[c] = "published" /\ held[c].replay
    BY DEF ReplayFinish
<1>2. queue[c] # <<>>
    BY <1>1, TypeFacts DEF CommandTyped
<1>3. queue[c] \in Seq(Items) /\ queue \in [Checkout -> Seq(Items)]
    BY TypeFacts DEF LocalOK
<1>4. Head(queue[c]) = queue[c][1] /\ 1 \in DOMAIN queue[c] /\ queue[c][1] \in Items
    BY <1>2, FirstItem
<1>5. /\ Tail(queue[c]) \in Seq(Items) /\ Len(Tail(queue[c])) = Len(queue[c]) - 1
      /\ \A i \in DOMAIN Tail(queue[c]) :
            i + 1 \in DOMAIN queue[c] /\ Tail(queue[c])[i] = queue[c][i + 1]
    BY <1>2, <1>3
<1>6. /\ queue' = [queue EXCEPT ![c] = Tail(queue[c])]
      /\ \/ base' = [base EXCEPT ![c] = ReplayedBaseline(base[c], Head(queue[c]))]
         \/ base' = base
      /\ Ends(c) /\ UNCHANGED <<clock, mem, store, history, events>>
    BY DEF ReplayFinish
<1>7. queue'[c] = Tail(queue[c])
    BY <1>3, <1>6
<1> QED
    BY <1>1, <1>3, <1>4, <1>5, <1>6, <1>7

LEMMA ReplayFinishType ==
    ASSUME TypeInv, NEW c \in Checkout, ReplayFinish(c)
    PROVE  TypeInv'
<1>1. /\ queue' \in [Checkout -> Seq(Items)]
      /\ \A d \in Checkout \ {c} : queue'[d] = queue[d]
      /\ Ends(c) /\ UNCHANGED <<clock, mem, store, history, events>>
      /\ \/ base' = [base EXCEPT ![c] = ReplayedBaseline(base[c], queue[c][1])]
         \/ base' = base
      /\ queue[c][1] \in Items
      /\ \A i \in DOMAIN queue'[c] : i + 1 \in DOMAIN queue[c] /\ queue'[c][i] = queue[c][i + 1]
    BY ReplayFinishParts
<1>2. ReplayedBaseline(base[c], queue[c][1]) \in Baselines
    BY <1>1, TypeFacts, BoundAssumption
    DEF ReplayedBaseline, Pages, Items, Contents, LocalOK, Version, Baselines
<1> QED
    BY <1>1, <1>2, BaselineType

\* The markers and tombstones of the next head.
LEMMA NextMarkCases ==
    ASSUME NEW c \in Checkout, NEW p \in Page
    PROVE  /\ held[c].ver[p] = 0 => NextMark(c, p) = 0
           /\ held[c].ver[p] # 0 /\ held[c].replay => NextMark(c, p) = held[c].mark[p]
           /\ held[c].ver[p] # 0 /\ ~held[c].replay => NextMark(c, p) = mem[c][p].mtime
  BY DEF NextMark

LEMMA NextTombCases ==
    ASSUME NEW c \in Checkout, NEW p \in Page
    PROVE  /\ NextMark(c, p) # 0 => NextTomb(c, p) = 0
           /\ NextMark(c, p) = 0 /\ head[c].tomb[p] # 0 => NextTomb(c, p) = head[c].tomb[p]
           /\ NextMark(c, p) = 0 /\ head[c].tomb[p] = 0 =>
                 NextTomb(c, p) = IF Ceases(c, p) THEN DeletedAt(c, p) ELSE 0
  BY DEF NextTomb

LEMMA NextTypes ==
    ASSUME TypeInv, NEW c \in Checkout, held[c] \in Publications, NEW p \in Page
    PROVE  NextMark(c, p) \in Time /\ NextTomb(c, p) \in Time
<1>1. /\ held[c].mark[p] \in Time /\ held[c].dels[p] \in Time /\ mem[c][p].mtime \in Time
      /\ head[c].tomb[p] \in Time /\ clock \in Time /\ 0 \in Time
    BY TypeFacts, BoundAssumption DEF Publications, Marks, Files, StoreOK, Heads, Time
<1>2. NextMark(c, p) \in Time
    BY <1>1 DEF NextMark
<1>3. DeletedAt(c, p) \in Time
    BY <1>1 DEF DeletedAt
<1> QED
    BY <1>1, <1>2, <1>3 DEF NextTomb

\* What WriteHead does to the store, field by field.
LEMMA WriteHeadParts ==
    ASSUME TypeInv, NEW c \in Checkout, WriteHead(c)
    PROVE  /\ pc[c] = "selected"
           /\ Torn(c) = {} \/ held[c].ver \in DOMAIN sidecar
           /\ head'[c].ver = held[c].ver /\ head'[c].at = clock
           /\ \A p \in Page : /\ head'[c].mark[p] = NextMark(c, p)
                             /\ head'[c].tomb[p] = NextTomb(c, p)
           /\ head'[c] = [ver |-> held[c].ver, mark |-> [p \in Page |-> NextMark(c, p)],
                          tomb |-> [p \in Page |-> NextTomb(c, p)], at |-> clock]
           /\ \A d \in Checkout \ {c} : head'[d] = head[d]
           /\ DOMAIN head' = Checkout
           /\ kept \subseteq kept' /\ kept' \subseteq kept \cup {latest}
           /\ held[c].ver # Empty /\ Uncovered(held[c].ver) => latest \in kept'
           /\ DOMAIN sidecar \subseteq DOMAIN sidecar'
           /\ \A x \in DOMAIN sidecar : sidecar'[x] = sidecar[x]
           /\ \A x \in DOMAIN sidecar' \ DOMAIN sidecar :
                 x = held[c].ver /\ x # Empty /\ sidecar'[x] = [p \in Page |-> NextMark(c, p)]
           /\ held[c].ver # Empty => held[c].ver \in DOMAIN sidecar'
           /\ pc' = [pc EXCEPT ![c] = IF held[c].ver = Empty THEN "published" ELSE "headed"]
           /\ UNCHANGED <<clock, local, latest, held, birth, had, behind, stranded, unread, removed,
                          events>>
<1>1. head \in [Checkout -> Heads]
    BY TypeFacts DEF StoreOK
<1> DEFINE mark == [p \in Page |-> NextMark(c, p)]
<1>2. head' = [head EXCEPT ![c] = [ver |-> held[c].ver, mark |-> mark,
                                   tomb |-> [p \in Page |-> NextTomb(c, p)], at |-> clock]]
    BY DEF WriteHead
<1>3. IF held[c].ver = Empty
      THEN UNCHANGED <<kept, sidecar>>
      ELSE /\ kept' = IF Uncovered(held[c].ver) THEN kept \cup {latest} ELSE kept
           /\ sidecar' = [x \in DOMAIN sidecar \cup {held[c].ver} |->
                            IF x \in DOMAIN sidecar THEN sidecar[x] ELSE mark]
    BY DEF WriteHead
<1>4. /\ pc[c] = "selected" /\ (Torn(c) = {} \/ held[c].ver \in DOMAIN sidecar)
      /\ pc' = [pc EXCEPT ![c] = IF held[c].ver = Empty THEN "published" ELSE "headed"]
      /\ UNCHANGED <<clock, local, latest, held, birth, had, behind, stranded, unread, removed,
                          events>>
    BY DEF WriteHead
<1>5. /\ head'[c] = [ver |-> held[c].ver, mark |-> mark,
                     tomb |-> [p \in Page |-> NextTomb(c, p)], at |-> clock]
      /\ \A d \in Checkout \ {c} : head'[d] = head[d]
      /\ DOMAIN head' = Checkout
    BY <1>1, <1>2
<1>6. CASE held[c].ver = Empty
    BY <1>3, <1>4, <1>5, <1>6
<1>7. CASE held[c].ver # Empty
    BY <1>3, <1>4, <1>5, <1>7
<1> QED
    BY <1>6, <1>7

LEMMA WriteHeadMoves ==
    ASSUME TypeInv, NEW c \in Checkout, WriteHead(c)
    PROVE  pc'[c] \in {"headed", "published"} /\ \A d \in Checkout \ {c} : pc'[d] = pc[d]
<1>1. pc' = [pc EXCEPT ![c] = IF held[c].ver = Empty THEN "published" ELSE "headed"]
    BY WriteHeadParts
<1>2. DOMAIN pc = Checkout
    BY TypeFacts DEF HeldOK
<1> QED
    BY <1>1, <1>2

LEMMA PointersHave ==
    /\ \A d \in Checkout : [ver |-> head[d].ver, at |-> head[d].at] \in Pointers
    /\ \A y \in kept \cup {latest} : [ver |-> y.ver, at |-> y.at] \in Pointers
  BY DEF Pointers

LEMMA WriteHeadType ==
    ASSUME TypeInv, NEW c \in Checkout, WriteHead(c)
    PROVE  TypeInv'
<1>1. held[c] \in Publications /\ pc[c] = "selected"
    BY WriteHeadParts, HeldTypes, TypeFacts DEF Busy
<1>2. UNCHANGED <<clock, local, latest, held, birth, had, behind, stranded, unread, removed,
                          events>>
    BY WriteHeadParts
<1>3. \A p \in Page : NextMark(c, p) \in Time /\ NextTomb(c, p) \in Time
    BY <1>1, NextTypes
<1> DEFINE mark == [p \in Page |-> NextMark(c, p)]
           tomb == [p \in Page |-> NextTomb(c, p)]
<1>4. mark \in Marks /\ head' \in [Checkout -> Heads]
  <2>1. mark \in Marks /\ tomb \in Marks
    BY <1>3 DEF Marks
  <2> HIDE DEF mark, tomb
  <2>2. held[c].ver \in Contents /\ clock \in Time
    BY <1>1, TypeFacts DEF Publications
  <2>3. head' = [head EXCEPT ![c] = [ver |-> held[c].ver, mark |-> mark, tomb |-> tomb, at |-> clock]]
    BY DEF WriteHead, mark, tomb
  <2>4. head \in [Checkout -> Heads]
    BY TypeFacts DEF StoreOK
  <2> QED
    BY <2>1, <2>2, <2>3, <2>4 DEF Heads
<1>5. \A d \in Checkout, p \in Page :
          head'[d].mark[p] # 0 => head'[d].ver[p] # 0 /\ head'[d].tomb[p] = 0
  <2> SUFFICES ASSUME NEW d \in Checkout, NEW p \in Page, head'[d].mark[p] # 0
               PROVE  head'[d].ver[p] # 0 /\ head'[d].tomb[p] = 0
    OBVIOUS
  <2>1. CASE d = c
    <3>1. /\ head'[c].ver = held[c].ver /\ head'[c].mark[p] = NextMark(c, p)
          /\ head'[c].tomb[p] = NextTomb(c, p)
      BY WriteHeadParts
    <3> QED
      BY <2>1, <3>1, NextMarkCases, NextTombCases
  <2>2. CASE d # c
    <3>1. head'[d] = head[d]
      BY <2>2, WriteHeadParts
    <3> QED
      BY <3>1, TypeFacts DEF StoreOK
  <2> QED
    BY <2>1, <2>2
<1>6. {latest'} \cup kept' \subseteq [ver : Contents \ {Empty}, at : Time]
    BY <1>2, WriteHeadParts, TypeFacts DEF StoreOK
<1>7. {x.ver : x \in Pointers'} \subseteq DOMAIN sidecar' \cup {Empty}
  <2> DEFINE names == DOMAIN sidecar \cup {Empty}
             news == DOMAIN sidecar' \cup {Empty}
  <2>1. \A x \in Pointers : x.ver \in names
    BY TypeFacts DEF StoreOK
  <2>2. \A d \in Checkout : head[d].ver \in names
    BY <2>1, PointersHave
  <2>3. \A y \in kept \cup {latest} : y.ver \in names
    BY <2>1, PointersHave
  <2>4. names \subseteq news
    BY WriteHeadParts
  <2>5. \A d \in Checkout : head'[d].ver \in news
    BY <2>2, <2>4, WriteHeadParts
  <2>6. \A y \in kept' \cup {latest'} : y.ver \in news
    BY <2>3, <2>4, WriteHeadParts
  <2> HIDE DEF news
  <2>7. {x.ver : x \in Pointers'} \subseteq news
    BY <2>5, <2>6 DEF Pointers
  <2> QED
    BY <2>7 DEF news
<1>8. \A x \in DOMAIN sidecar' : x \in Contents /\ sidecar'[x] \in Marks
  <2>1. held[c].ver \in Contents /\ mark \in Marks
    BY <1>1, <1>4 DEF Publications
  <2>2. /\ \A x \in DOMAIN sidecar : sidecar'[x] = sidecar[x]
        /\ \A x \in DOMAIN sidecar' \ DOMAIN sidecar :
              x = held[c].ver /\ x # Empty /\ sidecar'[x] = mark
    BY WriteHeadParts
  <2>3. \A x \in DOMAIN sidecar : x \in Contents /\ sidecar[x] \in Marks
    BY TypeFacts DEF StoreOK
  <2> QED
    BY <2>1, <2>2, <2>3
<1>9. StoreOK'
    BY <1>4, <1>5, <1>6, <1>7, <1>8 DEF StoreOK
<1>10. LocalOK'
    BY <1>2, TypeFacts, LocalStable
<1> HIDE DEF mark, tomb
<1>11. /\ pc'[c] \in {"headed", "published"} /\ \A d \in Checkout \ {c} : pc'[d] = pc[d]
       /\ pc' \in [Checkout -> Steps] /\ (pc'[c] = "headed" => held[c].ver # Empty)
  <2>1. pc \in [Checkout -> Steps] /\ {"headed", "published"} \subseteq Steps
    BY TypeFacts DEF HeldOK, Steps
  <2> QED
    BY <2>1, WriteHeadParts
<1>12. HeldOK'
  <2>1. ASSUME NEW d \in Checkout PROVE held'[d] \in HeldAt(pc'[d])
    <3>1. CASE d = c
      BY <1>1, <1>2, <1>11, <3>1 DEF HeldAt
    <3>2. CASE d # c
      BY <1>2, <1>11, <3>2, TypeFacts DEF HeldOK
    <3> QED
      BY <3>1, <3>2
  <2> QED
    BY <1>2, <1>11, <2>1, TypeFacts DEF HeldOK, HeldAt
<1>13. CommandOK(c)'
  <2>1. head'[c].ver = held[c].ver
    BY WriteHeadParts
  <2>2. CommandOK(c)
    BY TypeFacts
  <2> QED
    BY <1>1, <1>2, <1>11, <2>1, <2>2
    DEF CommandOK, Busy, Preparing, FrozenPublication, local
<1>14. CommandTyped(c)' /\ FileOK(c)'
    BY <1>1, <1>2, <1>11, TypeFacts DEF CommandTyped, FileOK, local
<1>15. \A d \in Checkout \ {c} : /\ pc'[d] = pc[d] /\ held'[d] = held[d] /\ mem'[d] = mem[d]
                                 /\ queue'[d] = queue[d] /\ head'[d] = head[d]
    BY <1>2, <1>11, WriteHeadParts DEF local
<1> QED
    BY <1>2, <1>9, <1>10, <1>12, <1>13, <1>14, <1>15, TypeFacts, TypeStep

LEMMA WriteLatestParts ==
    ASSUME TypeInv, NEW c \in Checkout, WriteLatest(c)
    PROVE  /\ pc[c] = "headed" /\ held[c] \in Publications
           /\ held[c].ver = head[c].ver /\ held[c].ver # Empty
           /\ latest' = [ver |-> held[c].ver, at |-> clock]
           /\ pc'[c] = "published" /\ \A d \in Checkout \ {c} : pc'[d] = pc[d]
           /\ pc' \in [Checkout -> Steps]
           /\ UNCHANGED <<clock, local, head, kept, sidecar, held, history, events>>
<1>1. pc[c] = "headed"
    BY DEF WriteLatest
<1>2. pc \in [Checkout -> Steps]
    BY TypeFacts DEF HeldOK
<1>3. held[c] \in Publications /\ held[c].ver = head[c].ver /\ held[c].ver # Empty
    BY <1>1, TypeFacts, HeldTypes DEF CommandOK, Busy
<1>4. "published" \in Steps
    BY DEF Steps
<1> QED
    BY <1>1, <1>2, <1>3, <1>4 DEF WriteLatest

LEMMA WriteLatestType ==
    ASSUME TypeInv, NEW c \in Checkout, WriteLatest(c)
    PROVE  TypeInv'
<1>1. /\ pc[c] = "headed" /\ held[c] \in Publications
      /\ held[c].ver = head[c].ver /\ held[c].ver # Empty
      /\ latest' = [ver |-> held[c].ver, at |-> clock]
      /\ pc'[c] = "published" /\ \A d \in Checkout \ {c} : pc'[d] = pc[d]
      /\ pc' \in [Checkout -> Steps]
      /\ UNCHANGED <<clock, local, head, kept, sidecar, held, history, events>>
    BY WriteLatestParts
<1>2. latest' \in [ver : Contents \ {Empty}, at : Time]
    BY <1>1, TypeFacts DEF Publications
<1>3. {x.ver : x \in Pointers'} \subseteq DOMAIN sidecar \cup {Empty}
  <2> DEFINE names == DOMAIN sidecar \cup {Empty}
  <2>1. \A x \in Pointers : x.ver \in names
    BY TypeFacts DEF StoreOK
  <2>2. \A d \in Checkout : head[d].ver \in names
    BY <2>1, PointersHave
  <2>3. \A y \in kept \cup {latest} : y.ver \in names
    BY <2>1, PointersHave
  <2>4. latest'.ver \in names
    BY <1>1, <2>2
  <2> HIDE DEF names
  <2>5. {x.ver : x \in Pointers'} \subseteq names
    BY <1>1, <2>2, <2>3, <2>4 DEF Pointers
  <2> QED
    BY <2>5 DEF names
<1>4. StoreOK'
    BY <1>1, <1>2, <1>3, TypeFacts DEF StoreOK
<1>5. LocalOK'
    BY <1>1, TypeFacts, LocalStable
<1>6. HeldOK'
  <2>1. ASSUME NEW d \in Checkout PROVE held'[d] \in HeldAt(pc'[d])
    <3>1. CASE d = c
      BY <1>1, <3>1 DEF HeldAt
    <3>2. CASE d # c
      BY <1>1, <3>2, TypeFacts DEF HeldOK
    <3> QED
      BY <3>1, <3>2
  <2> QED
    BY <1>1, <2>1, TypeFacts DEF HeldOK, HeldAt
<1>7. CommandOK(c)' /\ CommandTyped(c)' /\ FileOK(c)'
    BY <1>1, TypeFacts
    DEF CommandOK, CommandTyped, Busy, Preparing, FrozenPublication, FileOK, local
<1>8. \A d \in Checkout \ {c} : /\ pc'[d] = pc[d] /\ held'[d] = held[d] /\ mem'[d] = mem[d]
                                /\ queue'[d] = queue[d] /\ head'[d] = head[d]
    BY <1>1 DEF local
<1>9. clock' = clock /\ birth' = birth /\ had' = had /\ events' = events
    BY <1>1 DEF history
<1> QED
    BY <1>4, <1>5, <1>6, <1>7, <1>8, <1>9, TypeFacts, TypeStep

LEMMA StutterType ==
    ASSUME TypeInv, UNCHANGED vars
    PROVE  TypeInv'
  BY DEF TypeInv, TypeOK, HistoryCounted, CommandState, CommandOK, Busy, Preparing,
         FrozenPublication, FilesOK, FileOK, Pages, Pointers, HeldAt,
         vars, local, store, history

LEMMA NextType ==
    ASSUME TypeInv, [Next]_vars
    PROVE  TypeInv'
<1>1. CASE Tick
    BY <1>1, TickType
<1>2. ASSUME NEW c \in Checkout, User(c) \/ Refresh(c) PROVE TypeInv'
    BY <1>2, EditType, RemoveType, RefreshFetchType, RefreshApplyType, RefreshFinishType
    DEF User, Refresh
<1>3. ASSUME NEW c \in Checkout, Reconcile(c) PROVE TypeInv'
    BY <1>3, PublishFetchType, PublishCompareType, PublishRestoreType, PublishStripType,
       PublishCheckType DEF Reconcile
<1>4. ASSUME NEW c \in Checkout, Publish(c) PROVE TypeInv'
    BY <1>4, PublishSelectType, PublishTornType, PublishFinishType DEF Publish
<1>5. ASSUME NEW c \in Checkout, Replay(c) PROVE TypeInv'
    BY <1>5, FlushType, PublishDefersType, ReplayCheckType, ReplaySelectType, ReplayFinishType
    DEF Replay
<1>6. ASSUME NEW c \in Checkout, WriteHead(c) \/ WriteLatest(c) \/ Crash(c) PROVE TypeInv'
    BY <1>6, WriteHeadType, WriteLatestType, CrashType
<1>7. CASE UNCHANGED vars
    BY <1>7, StutterType
<1> QED
    BY <1>1, <1>2, <1>3, <1>4, <1>5, <1>6, <1>7 DEF Next, Done

\* Every file of the store and of the checkouts has the shape the code writes.
THEOREM TypeTheorem == Spec => []TypeOK
<1>1. TypeInv /\ [Next]_vars => TypeInv'
    BY NextType
<1>2. TypeInv => TypeOK
    BY DEF TypeInv
<1> QED
    BY <1>1, <1>2, InitType, PTL DEF Spec

\* A tombstone is earned --------------------------------------------------------------

LEMMA EarnedStep ==
    ASSUME EarnedInv, NEW c \in Checkout, removed \subseteq removed',
           \A d \in Checkout \ {c} : /\ pc'[d] = pc[d] /\ held'[d] = held[d] /\ mem'[d] = mem[d]
                                     /\ base'[d] = base[d] /\ queue'[d] = queue[d]
                                     /\ head'[d] = head[d],
           EarnedAt(c)'
    PROVE  EarnedInv'
<1> SUFFICES ASSUME NEW d \in Checkout, d # c PROVE EarnedAt(d)'
    BY DEF EarnedInv
<1>1. /\ pc'[d] = pc[d] /\ held'[d] = held[d] /\ mem'[d] = mem[d]
      /\ base'[d] = base[d] /\ queue'[d] = queue[d] /\ head'[d] = head[d]
    OBVIOUS
<1>2. EarnedAt(d)
    BY DEF EarnedInv
<1>3. TombsRemoved(d)' /\ KnownRemoved(d)'
    BY <1>1, <1>2 DEF EarnedAt, TombsRemoved, KnownRemoved, Known, Local
<1>4. ItemsRemoved(d)'
    BY <1>1, <1>2 DEF EarnedAt, ItemsRemoved, Local
<1>5. HeldRemoved(d)'
    BY <1>1, <1>2 DEF EarnedAt, HeldRemoved, SelectedRemoved, Preparing, Busy, Local
<1> QED
    BY <1>3, <1>4, <1>5 DEF EarnedAt

LEMMA DeletedRemoved ==
    ASSUME TypeOK, EarnedInv, NEW p \in Page, Tomb(p) # 0
    PROVE  p \in removed
  BY TombGreatest DEF EarnedInv, EarnedAt, TombsRemoved

LEMMA StaleRemoved ==
    ASSUME TypeOK, EarnedInv, NEW c \in Checkout
    PROVE  Stale(c) \subseteq removed /\ Gone(c) \subseteq removed
  BY DeletedRemoved DEF Stale, Deleted, Gone, EarnedInv, EarnedAt, KnownRemoved

LEMMA InitEarned == Init => EarnedInv
<1> SUFFICES ASSUME Init, NEW c \in Checkout PROVE EarnedAt(c)
    BY DEF EarnedInv
<1>1. /\ \A p \in Page : head[c].tomb[p] = 0
      /\ \A p \in Page : mem[c][p].ver = 0 => head[c].mark[p] = 0 /\ p \notin base[c].pages
    BY DEF Init, Empty, File, NoFile
<1>2. queue[c] = <<>> /\ pc[c] = "idle"
    BY DEF Init
<1>3. base[c].pages \subseteq Page
    BY DEF Init
<1> QED
    BY <1>1, <1>2, <1>3
    DEF EarnedAt, TombsRemoved, KnownRemoved, Known, Local, ItemsRemoved, HeldRemoved,
        SelectedRemoved, Preparing, Busy

\* A checkout that loses only removed pages, and whose command holds no others.
LEMMA MoveEarned ==
    ASSUME EarnedInv, NEW c \in Checkout, removed \subseteq removed',
           head'[c] = head[c],
           Local(c) \ Local(c)' \subseteq removed',
           base'[c].pages \ Local(c)' \subseteq removed',
           queue'[c] = queue[c], HeldRemoved(c)'
    PROVE  EarnedAt(c)'
<1>1. EarnedAt(c)
    BY DEF EarnedInv
<1>2. TombsRemoved(c)'
    BY <1>1 DEF EarnedAt, TombsRemoved
<1>3. KnownRemoved(c)'
  <2>1. KnownRemoved(c)
    BY <1>1 DEF EarnedAt
  <2> QED
    BY <2>1 DEF KnownRemoved, Known
<1>4. ItemsRemoved(c)'
  <2>1. ItemsRemoved(c)
    BY <1>1 DEF EarnedAt
  <2>2. \A p \in Page : p \notin Local(c)' => p \notin Local(c) \/ p \in removed'
    OBVIOUS
  <2> HIDE DEF Local
  <2> QED
    BY <2>1, <2>2 DEF ItemsRemoved
<1> QED
    BY <1>2, <1>3, <1>4 DEF EarnedAt

LEMMA EndsEarned ==
    ASSUME EarnedInv, NEW c \in Checkout, pc'[c] = "idle", removed \subseteq removed',
           head'[c] = head[c],
           Local(c) \ Local(c)' \subseteq removed',
           base'[c].pages \ Local(c)' \subseteq removed',
           queue'[c] = queue[c]
    PROVE  EarnedAt(c)'
<1>1. HeldRemoved(c)'
    BY DEF HeldRemoved, SelectedRemoved, Preparing, Busy
<1> QED
    BY <1>1, MoveEarned

LEMMA BaseKnown ==
    ASSUME EarnedInv, NEW c \in Checkout
    PROVE  base[c].pages \ Local(c) \subseteq removed
  BY DEF EarnedInv, EarnedAt, KnownRemoved, Known

\* A command that moves on and leaves the files alone.
LEMMA CommandEarned ==
    ASSUME TypeInv, EarnedInv, NEW c \in Checkout, NEW step, NEW what, Goes(c, step, what),
           UNCHANGED <<mem, base, queue, head, removed>>,
           HeldRemoved(c)'
    PROVE  EarnedInv'
<1>1. \A d \in Checkout \ {c} : pc'[d] = pc[d] /\ held'[d] = held[d]
    BY TypeFacts DEF Goes, HeldOK
<1>2. Local(c)' = Local(c)
    BY DEF Local
<1>3. EarnedAt(c)'
    BY <1>2, BaseKnown, MoveEarned
<1> QED
    BY <1>1, <1>3, EarnedStep

LEMMA CommandEndsEarned ==
    ASSUME TypeInv, EarnedInv, NEW c \in Checkout, Ends(c),
           UNCHANGED <<mem, base, queue, head, removed>>
    PROVE  EarnedInv'
<1>1. pc'[c] = "idle"
    BY TypeFacts, EndsTyped
<1>2. HeldRemoved(c)'
    BY <1>1 DEF HeldRemoved, SelectedRemoved, Preparing, Busy
<1> QED
    BY <1>2, CommandEarned DEF Ends

LEMMA UserEarned ==
    ASSUME TypeInv, EarnedInv, NEW c \in Checkout, NEW p \in Page, Edit(c, p) \/ Remove(c, p)
    PROVE  EarnedInv'
<1>1. /\ pc' = pc /\ held' = held /\ base' = base /\ queue' = queue
      /\ head' = head /\ removed \subseteq removed'
    BY DEF Edit, Remove, store
<1>2. mem \in [Checkout -> Files]
    BY TypeFacts
<1>3. /\ \A d \in Checkout \ {c} : mem'[d] = mem[d]
      /\ Local(c) \ Local(c)' \subseteq removed'
  <2>1. CASE Edit(c, p)
    <3>1. mem' = [mem EXCEPT ![c] = [mem[c] EXCEPT ![p] = File(Len(birth) + 1, clock)]]
      BY <2>1 DEF Edit, Receives
    <3>2. Len(birth) + 1 # 0
      BY TypeFacts
    <3> QED
      BY <1>2, <3>1, <3>2 DEF Local, Files, File
  <2>2. CASE Remove(c, p)
    <3>1. mem' = [mem EXCEPT ![c][p] = NoFile] /\ p \in removed'
      BY <2>2 DEF Remove
    <3> QED
      BY <1>2, <3>1 DEF Local, Files
  <2> QED
    BY <2>1, <2>2
<1>4. base[c].pages \ Local(c)' \subseteq removed'
    BY <1>1, <1>3, BaseKnown
<1>5. HeldRemoved(c)'
  <2>1. HeldRemoved(c)
    BY DEF EarnedInv, EarnedAt
  <2>2. \A q \in Page : q \notin Local(c)' => q \notin Local(c) \/ q \in removed'
    BY <1>3
  <2> HIDE DEF Local
  <2> QED
    BY <1>1, <2>1, <2>2 DEF HeldRemoved, SelectedRemoved, Preparing, Busy
<1>6. EarnedAt(c)'
    BY <1>1, <1>3, <1>4, <1>5, MoveEarned
<1> QED
    BY <1>1, <1>3, <1>6, EarnedStep

LEMMA RefreshFetchEarned ==
    ASSUME TypeInv, EarnedInv, NEW c \in Checkout, RefreshFetch(c)
    PROVE  EarnedInv'
<1> DEFINE view == [pages |-> [p \in Page |-> Merged(p)],
                    tomb |-> [p \in Page |-> IF Deleted(p) THEN Tomb(p) ELSE 0]]
<1>1. Goes(c, "fetched", view) /\ UNCHANGED <<mem, base, queue, head, removed>>
    BY DEF RefreshFetch, history, local, store
<1>2. \A p \in Page : view.tomb[p] # 0 => p \in removed
    BY TypeFacts, DeletedRemoved DEF Deleted
<1> HIDE DEF view
<1>3. pc'[c] = "fetched" /\ held'[c] = view
    BY <1>1, TypeFacts DEF Goes, HeldOK
<1>4. HeldRemoved(c)'
    BY <1>1, <1>2, <1>3 DEF HeldRemoved, SelectedRemoved, Preparing, Busy
<1> QED
    BY <1>1, <1>4, CommandEarned

LEMMA RefreshApplyEarned ==
    ASSUME TypeInv, EarnedInv, NEW c \in Checkout, NEW force \in BOOLEAN, RefreshApply(c, force)
    PROVE  EarnedInv'
<1> DEFINE files == [p \in Page |-> Applied(mem[c][p], held[c].pages[p], held[c].tomb[p], force)]
<1>1. /\ pc[c] = "fetched" /\ mem' = [mem EXCEPT ![c] = files]
      /\ UNCHANGED <<base, queue, head, removed>>
      /\ pc' = [pc EXCEPT ![c] = "applied"] /\ \A d \in Checkout \ {c} : held'[d] = held[d]
    BY TypeFacts DEF RefreshApply, Receives, Goes, HeldOK, store
<1>2. mem'[c] = files /\ \A d \in Checkout \ {c} : mem'[d] = mem[d]
    BY <1>1, TypeFacts
<1>3. pc'[c] = "applied" /\ \A d \in Checkout \ {c} : pc'[d] = pc[d]
    BY <1>1, TypeFacts DEF HeldOK
<1>4. Local(c) \ Local(c)' \subseteq removed
  <2> SUFFICES ASSUME NEW p \in Page, mem[c][p].ver # 0, mem'[c][p].ver = 0
               PROVE  p \in removed
    BY DEF Local
  <2>1. Applied(mem[c][p], held[c].pages[p], held[c].tomb[p], force).ver = 0
    BY <1>2
  <2>2. held[c].tomb[p] # 0
    BY <2>1 DEF Applied, File
  <2> QED
    BY <1>1, <2>2 DEF EarnedInv, EarnedAt, HeldRemoved
<1>5. base'[c].pages \ Local(c)' \subseteq removed
    BY <1>1, <1>4, BaseKnown
<1>6. HeldRemoved(c)'
    BY <1>3 DEF HeldRemoved, SelectedRemoved, Preparing, Busy
<1>7. EarnedAt(c)'
    BY <1>1, <1>4, <1>5, <1>6, MoveEarned
<1> QED
    BY <1>1, <1>2, <1>3, <1>7, EarnedStep

LEMMA RefreshFinishEarned ==
    ASSUME TypeInv, EarnedInv, NEW c \in Checkout, RefreshFinish(c)
    PROVE  EarnedInv'
<1>1. /\ base' = [base EXCEPT ![c] = [held[c] EXCEPT !.pages = @ \cap Local(c)]]
      /\ held[c] \in Baselines /\ Ends(c) /\ UNCHANGED <<mem, queue, head, removed>>
    BY TypeFacts, HeldTypes DEF RefreshFinish, store, history
<1>2. base'[c].pages \subseteq Local(c) /\ \A d \in Checkout \ {c} : base'[d] = base[d]
    BY <1>1, TypeFacts DEF LocalOK, Baselines
<1>3. pc'[c] = "idle" /\ \A d \in Checkout \ {c} : pc'[d] = pc[d] /\ held'[d] = held[d]
    BY <1>1, TypeFacts, EndsTyped
<1>4. Local(c)' = Local(c)
    BY <1>1 DEF Local
<1>5. EarnedAt(c)'
    BY <1>1, <1>2, <1>3, <1>4, EndsEarned
<1> QED
    BY <1>1, <1>2, <1>3, <1>5, EarnedStep

LEMMA PublishFetchEarned ==
    ASSUME TypeInv, EarnedInv, NEW c \in Checkout, PublishFetch(c)
    PROVE  EarnedInv'
<1>1. Goes(c, "latest", Comparison(latest.ver)) /\ UNCHANGED <<mem, base, queue, head, removed>>
    BY DEF PublishFetch, history, local, store
<1>2. pc'[c] = "latest" /\ held'[c] = Comparison(latest.ver)
    BY <1>1, TypeFacts DEF Goes, HeldOK
<1>3. HeldRemoved(c)'
    BY <1>2 DEF HeldRemoved, SelectedRemoved, Preparing, Busy, Comparison, Empty
<1> QED
    BY <1>1, <1>3, CommandEarned

LEMMA PublishCompareEarned ==
    ASSUME TypeInv, EarnedInv, NEW c \in Checkout, PublishCompare(c)
    PROVE  EarnedInv'
<1>1. /\ pc'[c] = "compared" /\ held'[c].dels = DatedNow(Gone(c))
      /\ held'[c].must = Gone(c) \cup Stale(c)
      /\ Goes(c, "compared", held'[c]) /\ UNCHANGED <<mem, base, queue, head, removed>>
    BY PublishCompareParts DEF history, local, store
<1>2. Gone(c) \cup Stale(c) \subseteq removed
    BY TypeFacts, StaleRemoved
<1>3. \A p \in Page : DatedNow(Gone(c))[p] # 0 => p \in Gone(c)
    BY TypeFacts, DatedNowType
<1>4. HeldRemoved(c)'
    BY <1>1, <1>2, <1>3 DEF HeldRemoved, SelectedRemoved, Preparing, Busy
<1> QED
    BY <1>1, <1>4, CommandEarned

\* The restoring and the removing of pages before a publication.
LEMMA ComparingEarned ==
    ASSUME TypeInv, EarnedInv, NEW c \in Checkout, Preparing(c), pc'[c] = "compared",
           held'[c].dels = held[c].dels, held'[c].must \subseteq held[c].must,
           Local(c) \ Local(c)' \subseteq held[c].must,
           \A d \in Checkout \ {c} : pc'[d] = pc[d] /\ held'[d] = held[d] /\ mem'[d] = mem[d],
           UNCHANGED <<base, queue, head, removed>>
    PROVE  EarnedInv'
<1>1. HeldRemoved(c)
    BY DEF EarnedInv, EarnedAt
<1>2. HeldRemoved(c)'
    BY <1>1 DEF HeldRemoved, SelectedRemoved, Preparing, Busy
<1>3. Local(c) \ Local(c)' \subseteq removed
    BY <1>1 DEF HeldRemoved, Local
<1>4. EarnedAt(c)'
    BY <1>2, <1>3, BaseKnown, MoveEarned
<1> QED
    BY <1>4, EarnedStep

LEMMA PublishRestoreEarned ==
    ASSUME TypeInv, EarnedInv, NEW c \in Checkout, NEW p \in Page, PublishRestore(c, p)
    PROVE  EarnedInv'
<1>1. /\ Preparing(c) /\ pc'[c] = "compared" /\ held'[c].dels = held[c].dels
      /\ held'[c].must = held[c].must
      /\ \A d \in Checkout \ {c} : pc'[d] = pc[d] /\ held'[d] = held[d]
      /\ UNCHANGED <<base, queue, head, removed>>
      /\ Receives(c, RestoredFiles(c, p)) /\ RestoredFiles(c, p) \in Files
    BY PublishRestoreParts DEF store
<1>2. /\ mem'[c] = RestoredFiles(c, p) /\ \A d \in Checkout \ {c} : mem'[d] = mem[d]
    BY <1>1, ReceivesTyped, TypeFacts
<1>3. \A q \in Page : RestoredFiles(c, p)[q] = mem[c][q] \/ mem[c][q].ver = 0
    BY TypeFacts DEF RestoredFiles, Files
<1>4. Local(c) \ Local(c)' = {}
    BY <1>2, <1>3 DEF Local
<1> QED
    BY <1>1, <1>2, <1>4, ComparingEarned

LEMMA PublishStripEarned ==
    ASSUME TypeInv, EarnedInv, NEW c \in Checkout, NEW p \in Page, PublishStrip(c, p)
    PROVE  EarnedInv'
<1>1. /\ Preparing(c) /\ p \in held[c].must /\ pc'[c] = "compared"
      /\ held'[c].dels = held[c].dels /\ held'[c].must = held[c].must \ {p}
      /\ \A d \in Checkout \ {c} : pc'[d] = pc[d] /\ held'[d] = held[d] /\ mem'[d] = mem[d]
      /\ \A q \in Page \ {p} : mem'[c][q] = mem[c][q]
      /\ UNCHANGED <<base, queue, head, removed>>
    BY PublishStripParts DEF store, history
<1>2. Local(c) \ Local(c)' \subseteq held[c].must
    BY <1>1 DEF Local
<1> QED
    BY <1>1, <1>2, ComparingEarned

LEMMA PublishCheckEarned ==
    ASSUME TypeInv, EarnedInv, NEW c \in Checkout, PublishCheck(c)
    PROVE  EarnedInv'
<1>1. Preparing(c) /\ UNCHANGED <<mem, base, queue, head, removed>>
    BY PublishCheckParts DEF local, store, history
<1>2. CASE Ends(c)
    BY <1>1, <1>2, CommandEndsEarned
<1>3. CASE Goes(c, "prepared", Prepared(c))
  <2>1. pc'[c] = "prepared" /\ held'[c] = Prepared(c)
    BY <1>3, TypeFacts DEF Goes, HeldOK
  <2>2. \A p \in Page : held[c].dels[p] # 0 => p \in removed
    BY <1>1 DEF EarnedInv, EarnedAt, HeldRemoved
  <2>3. HeldRemoved(c)'
    BY <1>1, <2>1, <2>2 DEF HeldRemoved, SelectedRemoved, Preparing, Busy, Prepared, Publication
  <2> QED
    BY <1>1, <1>3, <2>3, CommandEarned
<1> QED
    BY <1>2, <1>3, PublishCheckParts

LEMMA PublishSelectEarned ==
    ASSUME TypeInv, EarnedInv, NEW c \in Checkout, PublishSelect(c)
    PROVE  EarnedInv'
<1>1. pc[c] = "prepared" /\ Busy(c) /\ UNCHANGED <<mem, base, queue, head, removed>>
    BY PublishSelectParts DEF local, store
<1>2. CASE Ends(c)
    BY <1>1, <1>2, CommandEndsEarned
<1>3. ASSUME NEW stale \in {Stale(c), {}}, Goes(c, "selected", Selected(c, stale))
      PROVE  EarnedInv'
  <2>1. pc'[c] = "selected" /\ held'[c] = Selected(c, stale)
    BY <1>3, TypeFacts DEF Goes, HeldOK
  <2>2. /\ held'[c].dels = held[c].dels /\ held'[c].stale = stale
        /\ \A p \in Page : held'[c].ver[p] = IF p \in Local(c) \ stale THEN mem[c][p].ver ELSE 0
    <3>1. /\ Selected(c, stale).dels = held[c].dels /\ Selected(c, stale).stale = stale
          /\ \A p \in Page : Selected(c, stale).ver[p] =
                IF p \in Local(c) \ stale THEN mem[c][p].ver ELSE 0
      BY <1>1, SelectedFields
    <3> QED
      BY <2>1, <3>1
  <2>3. stale \subseteq removed
    BY TypeFacts, StaleRemoved
  <2>4. EarnedAt(c) /\ Local(c)' = Local(c)
    BY <1>1 DEF EarnedInv, Local
  <2>5. \A p \in Page :
            /\ held'[c].ver[p] = 0 /\ head[c].mark[p] # 0 => p \in removed
            /\ held'[c].ver[p] # 0 => p \in Local(c)
    <3> SUFFICES ASSUME NEW p \in Page
                 PROVE  /\ held'[c].ver[p] = 0 /\ head[c].mark[p] # 0 => p \in removed
                        /\ held'[c].ver[p] # 0 => p \in Local(c)
      OBVIOUS
    <3>1. p \notin Local(c) /\ head[c].mark[p] # 0 => p \in removed
      BY <2>4 DEF EarnedAt, KnownRemoved, Known
    <3>2. p \in Local(c) => mem[c][p].ver # 0
      BY DEF Local
    <3> QED
      BY <2>2, <2>3, <3>1, <3>2
  <2>6. \A p \in Page : held[c].dels[p] # 0 => p \in removed
    BY <1>1, <2>4 DEF EarnedAt, HeldRemoved
  <2>7. HeldRemoved(c)'
    BY <1>1, <2>1, <2>2, <2>3, <2>4, <2>5, <2>6
    DEF HeldRemoved, SelectedRemoved, Preparing, Busy
  <2> QED
    BY <1>1, <1>3, <2>7, CommandEarned
<1> QED
    BY <1>2, <1>3, PublishSelectParts

\* Freezing pages in the queue: a page that is not here was removed if the
\* head or an item has it.
LEMMA EnqueueEarned ==
    ASSUME TypeInv, EarnedInv, NEW c \in Checkout, NEW dels \in Marks, Enqueue(c, dels),
           Pages(dels) \subseteq removed,
           pc'[c] = "idle", UNCHANGED <<mem, base, head, removed>>
    PROVE  EarnedAt(c)'
<1>1. EarnedAt(c)
    BY DEF EarnedInv
<1>2. TombsRemoved(c)' /\ KnownRemoved(c)' /\ HeldRemoved(c)'
    BY <1>1 DEF EarnedAt, TombsRemoved, KnownRemoved, HeldRemoved, SelectedRemoved, Known, Local,
                Preparing, Busy
<1>3. queue[c] \in Seq(Items) /\ queue'[c] \in Seq(Items)
    BY EnqueueFields, TypeFacts DEF LocalOK
<1>4. /\ \A i \in DOMAIN queue[c] :
            /\ i \in DOMAIN queue'[c] /\ queue'[c][i].ver = queue[c][i].ver
            /\ \A p \in Page : queue'[c][i].dels[p] \in {queue[c][i].dels[p], dels[p], 0}
      /\ \A i \in DOMAIN queue'[c] \ DOMAIN queue[c] :
            /\ i = Len(queue[c]) + 1
            /\ queue'[c][i].ver = Frozen(c) /\ queue'[c][i].dels = dels
  <2>1. ASSUME NEW i \in DOMAIN queue[c]
        PROVE  /\ i \in DOMAIN queue'[c] /\ queue'[c][i].ver = queue[c][i].ver
               /\ \A p \in Page : queue'[c][i].dels[p] \in {queue[c][i].dels[p], dels[p], 0}
    <3>1. \/ queue'[c][i] = queue[c][i]
          \/ \A p \in Page : queue'[c][i].dels[p] \in {queue[c][i].dels[p], dels[p], 0}
      BY EnqueueFields
    <3>2. i \in DOMAIN queue'[c] /\ queue'[c][i].ver = queue[c][i].ver
      BY EnqueueFields
    <3> QED
      BY <3>1, <3>2
  <2>2. ASSUME NEW i \in DOMAIN queue'[c] \ DOMAIN queue[c]
        PROVE  /\ i = Len(queue[c]) + 1
               /\ queue'[c][i].ver = Frozen(c) /\ queue'[c][i].dels = dels
    <3>1. /\ i = Len(queue[c]) + 1
          /\ queue'[c][i] = Item(Frozen(c), [p \in Page |-> mem[c][p].mtime], dels)
      BY EnqueueFields
    <3> QED
      BY <3>1 DEF Item
  <2> QED
    BY <2>1, <2>2
<1>5. ItemsRemoved(c)
    BY <1>1 DEF EarnedAt
<1>6. ASSUME NEW i \in DOMAIN queue'[c], NEW p \in Page
      PROVE  /\ queue'[c][i].ver[p] # 0 /\ p \notin Local(c) => p \in removed
             /\ queue'[c][i].dels[p] # 0 => p \in removed
             /\ /\ queue'[c][i].ver[p] = 0
                /\ head[c].mark[p] # 0 \/ \E j \in 1..(i - 1) : queue'[c][j].ver[p] # 0
                => p \in removed
  <2>1. dels[p] # 0 => p \in removed
    BY DEF Pages
  <2>2. CASE i \in DOMAIN queue[c]
    <3>1. \A j \in 1..(i - 1) : queue'[c][j].ver = queue[c][j].ver
      BY <1>3, <1>4, <2>2
    <3>2. queue'[c][i].ver = queue[c][i].ver
          /\ queue'[c][i].dels[p] \in {queue[c][i].dels[p], dels[p], 0}
      BY <1>4, <2>2
    <3> QED
      BY <1>5, <2>1, <2>2, <3>1, <3>2 DEF ItemsRemoved
  <2>3. CASE i \notin DOMAIN queue[c]
    <3>1. i = Len(queue[c]) + 1 /\ queue'[c][i].ver[p] = mem[c][p].ver /\ queue'[c][i].dels = dels
      BY <1>4, <2>3 DEF Frozen
    <3>2. \A j \in 1..(i - 1) : j \in DOMAIN queue[c] /\ queue'[c][j].ver = queue[c][j].ver
      BY <1>3, <1>4, <3>1
    <3>3. head[c].mark[p] # 0 /\ p \notin Local(c) => p \in removed
      BY <1>1 DEF EarnedAt, KnownRemoved, Known
    <3>4. \A j \in DOMAIN queue[c] : queue[c][j].ver[p] # 0 /\ p \notin Local(c) => p \in removed
      BY <1>5 DEF ItemsRemoved
    <3>5. p \in Local(c) <=> mem[c][p].ver # 0
      BY DEF Local
    <3> QED
      BY <2>1, <3>1, <3>2, <3>3, <3>4, <3>5
  <2> QED
    BY <2>2, <2>3
<1>7. ItemsRemoved(c)'
    BY <1>6 DEF ItemsRemoved, Local
<1> QED
    BY <1>2, <1>7 DEF EarnedAt

LEMMA FlushEarned ==
    ASSUME TypeInv, EarnedInv, NEW c \in Checkout, Flush(c)
    PROVE  EarnedInv'
<1> DEFINE dels == DatedNow(base[c].pages \ Local(c))
<1>1. pc[c] = "idle" /\ Enqueue(c, dels) /\ UNCHANGED <<mem, base, head, pc, held, removed>>
    BY DEF Flush, store, history
<1>2. dels \in Marks /\ Pages(dels) \subseteq removed
    BY FlushDels, BaseKnown
<1> HIDE DEF dels
<1>3. \A d \in Checkout \ {c} : queue'[d] = queue[d]
    BY <1>1, <1>2, EnqueueFields
<1>4. EarnedAt(c)'
    BY <1>1, <1>2, EnqueueEarned
<1> QED
    BY <1>1, <1>3, <1>4, EarnedStep

LEMMA PublishDefersEarned ==
    ASSUME TypeInv, EarnedInv, NEW c \in Checkout, PublishDefers(c)
    PROVE  EarnedInv'
<1>1. /\ DefersDels(c) \in Marks /\ Enqueue(c, DefersDels(c)) /\ Ends(c)
      /\ UNCHANGED <<mem, base, head, removed>>
    BY PublishDefersParts DEF store
<1>2. Pages(DefersDels(c)) \subseteq removed
  <2>1. CASE pc[c] = "latest"
    <3>1. \A p \in Page : DatedNow(Gone(c))[p] # 0 => p \in Gone(c)
      BY TypeFacts, DatedNowType
    <3> QED
      BY <2>1, <3>1, TypeFacts, StaleRemoved DEF DefersDels, Pages
  <2>2. CASE pc[c] # "latest" /\ held[c] = NoPublication
    BY <2>2 DEF DefersDels, NoPublication, Publication, Empty, Pages
  <2>3. CASE pc[c] # "latest" /\ (Preparing(c) \/ Busy(c))
    BY <2>3 DEF DefersDels, EarnedInv, EarnedAt, HeldRemoved, Pages
  <2> QED
    BY <2>1, <2>2, <2>3, PublishDefersParts
<1>3. pc'[c] = "idle" /\ \A d \in Checkout \ {c} : pc'[d] = pc[d] /\ held'[d] = held[d]
    BY <1>1, TypeFacts, EndsTyped
<1>4. \A d \in Checkout \ {c} : queue'[d] = queue[d]
    BY <1>1, EnqueueFields
<1>5. EarnedAt(c)'
    BY <1>1, <1>2, <1>3, EnqueueEarned
<1> QED
    BY <1>1, <1>3, <1>4, <1>5, EarnedStep

LEMMA ReplayCheckEarned ==
    ASSUME TypeInv, EarnedInv, NEW c \in Checkout, ReplayCheck(c)
    PROVE  EarnedInv'
<1>1. Goes(c, "checked", NoPublication) /\ UNCHANGED <<mem, base, queue, head, removed>>
    BY DEF ReplayCheck, history, local, store
<1>2. pc'[c] = "checked"
    BY <1>1, TypeFacts DEF Goes, HeldOK
<1>3. HeldRemoved(c)'
    BY <1>2 DEF HeldRemoved, SelectedRemoved, Preparing, Busy
<1> QED
    BY <1>1, <1>3, CommandEarned

LEMMA ReplaySelectEarned ==
    ASSUME TypeInv, EarnedInv, NEW c \in Checkout, ReplaySelect(c)
    PROVE  EarnedInv'
<1>1. 1 \in DOMAIN queue[c] /\ UNCHANGED <<mem, base, queue, head, removed>>
    BY ReplaySelectParts DEF local, store, history
<1>2. CASE Ends(c)
    BY <1>1, <1>2, CommandEndsEarned
<1>3. CASE Goes(c, "selected", Replayed(c))
  <2>1. pc'[c] = "selected" /\ held'[c] = Replayed(c)
    BY <1>3, TypeFacts DEF Goes, HeldOK
  <2>2. held'[c].replay /\ held'[c].dels = queue[c][1].dels /\ held'[c].stale = {}
    BY <2>1 DEF Replayed, Publication
  <2>3. \A p \in Page : queue[c][1].dels[p] # 0 => p \in removed
    BY <1>1 DEF EarnedInv, EarnedAt, ItemsRemoved
  <2>4. HeldRemoved(c)'
    BY <1>1, <2>1, <2>2, <2>3 DEF HeldRemoved, SelectedRemoved, Preparing, Busy
  <2> QED
    BY <1>1, <1>3, <2>4, CommandEarned
<1> QED
    BY <1>2, <1>3, ReplaySelectParts

LEMMA ReplayFinishEarned ==
    ASSUME TypeInv, EarnedInv, NEW c \in Checkout, ReplayFinish(c)
    PROVE  EarnedInv'
<1>1. /\ queue[c] \in Seq(Items) /\ 1 \in DOMAIN queue[c] /\ queue'[c] \in Seq(Items)
      /\ \A d \in Checkout \ {c} : queue'[d] = queue[d]
      /\ \A i \in DOMAIN queue'[c] :
            i + 1 \in DOMAIN queue[c] /\ queue'[c][i] = queue[c][i + 1]
      /\ Ends(c) /\ UNCHANGED <<mem, head, removed>>
    BY ReplayFinishParts DEF store, history
<1>2. /\ base'[c] \in {ReplayedBaseline(base[c], queue[c][1]), base[c]}
      /\ \A d \in Checkout \ {c} : base'[d] = base[d]
    BY ReplayFinishParts, TypeFacts DEF LocalOK
<1>3. base'[c].pages \subseteq base[c].pages \cup Pages(queue[c][1].ver)
    BY <1>2 DEF ReplayedBaseline
<1>4. pc'[c] = "idle" /\ \A d \in Checkout \ {c} : pc'[d] = pc[d] /\ held'[d] = held[d]
    BY <1>1, TypeFacts, EndsTyped
<1>5. EarnedAt(c) /\ Local(c)' = Local(c)
    BY <1>1 DEF EarnedInv, Local
<1>6. Pages(queue[c][1].ver) \ Local(c) \subseteq removed
    BY <1>1, <1>5 DEF EarnedAt, ItemsRemoved, Pages
<1>7. TombsRemoved(c)' /\ HeldRemoved(c)'
    BY <1>1, <1>4, <1>5
    DEF EarnedAt, TombsRemoved, HeldRemoved, SelectedRemoved, Preparing, Busy
<1>8. KnownRemoved(c)'
    BY <1>1, <1>3, <1>5, <1>6 DEF EarnedAt, KnownRemoved, Known
<1>9. ItemsRemoved(c)'
  <2> SUFFICES ASSUME NEW i \in DOMAIN queue'[c], NEW p \in Page
               PROVE  /\ queue'[c][i].ver[p] # 0 /\ p \notin Local(c) => p \in removed
                      /\ queue'[c][i].dels[p] # 0 => p \in removed
                      /\ /\ queue'[c][i].ver[p] = 0
                         /\ head[c].mark[p] # 0 \/ \E j \in 1..(i - 1) : queue'[c][j].ver[p] # 0
                         => p \in removed
    BY <1>1, <1>5 DEF ItemsRemoved
  <2>1. i \in Nat /\ i + 1 \in DOMAIN queue[c] /\ queue'[c][i] = queue[c][i + 1]
    BY <1>1
  <2>2. \A j \in 1..(i - 1) : /\ j \in DOMAIN queue'[c] /\ j + 1 \in 1..((i + 1) - 1)
                              /\ queue'[c][j] = queue[c][j + 1]
    BY <1>1, <2>1
  <2>3. /\ queue[c][i + 1].ver[p] # 0 /\ p \notin Local(c) => p \in removed
        /\ queue[c][i + 1].dels[p] # 0 => p \in removed
        /\ /\ queue[c][i + 1].ver[p] = 0
           /\ head[c].mark[p] # 0 \/ \E j \in 1..((i + 1) - 1) : queue[c][j].ver[p] # 0
           => p \in removed
    BY <1>5, <2>1 DEF EarnedAt, ItemsRemoved
  <2> QED
    BY <2>1, <2>2, <2>3
<1>10. EarnedAt(c)'
    BY <1>7, <1>8, <1>9 DEF EarnedAt
<1> QED
    BY <1>1, <1>2, <1>4, <1>10, EarnedStep

LEMMA PublishFinishEarned ==
    ASSUME TypeInv, EarnedInv, NEW c \in Checkout, PublishFinish(c)
    PROVE  EarnedInv'
<1>1. /\ base' = [base EXCEPT ![c] = [pages |-> Local(c), hash |-> [p \in Page |-> mem[c][p].ver]]]
      /\ Ends(c) /\ UNCHANGED <<mem, queue, head, removed>>
    BY DEF PublishFinish, store, history
<1>2. base'[c].pages = Local(c) /\ \A d \in Checkout \ {c} : base'[d] = base[d]
    BY <1>1, TypeFacts DEF LocalOK
<1>3. pc'[c] = "idle" /\ \A d \in Checkout \ {c} : pc'[d] = pc[d] /\ held'[d] = held[d]
    BY <1>1, TypeFacts, EndsTyped
<1>4. Local(c)' = Local(c)
    BY <1>1 DEF Local
<1>5. EarnedAt(c)'
    BY <1>1, <1>2, <1>3, <1>4, EndsEarned
<1> QED
    BY <1>1, <1>2, <1>3, <1>5, EarnedStep

LEMMA CrashEarned ==
    ASSUME TypeInv, EarnedInv, NEW c \in Checkout, Crash(c)
    PROVE  EarnedInv'
  BY CommandEndsEarned DEF Crash, local, store

\* A page that is not in the next head, which this checkout had there or has in
\* the publication.
LEMMA CeasedRemoved ==
    ASSUME TypeInv, EarnedInv, NEW c \in Checkout, pc[c] = "selected", NEW p \in Page,
           NextMark(c, p) = 0, head[c].mark[p] # 0
    PROVE  p \in removed
<1>1. EarnedAt(c) /\ CommandOK(c)
    BY TypeFacts DEF EarnedInv
<1>2. CASE held[c].replay
  <2>1. /\ held[c].ver = queue[c][1].ver /\ held[c].mark = queue[c][1].mark
        /\ queue[c] # <<>> /\ queue[c] \in Seq(Items)
    BY <1>1, <1>2, TypeFacts DEF CommandOK, Busy, FrozenPublication, CommandTyped, LocalOK
  <2>2. 1 \in DOMAIN queue[c]
    BY <2>1
  <2>3. queue[c][1].ver[p] = 0
    BY <1>2, <2>1, <2>2, NextMarkCases, TypeFacts DEF FileOK
  <2> QED
    BY <1>1, <2>2, <2>3 DEF EarnedAt, ItemsRemoved
<1>3. CASE ~held[c].replay
  <2>1. held[c].ver[p] = 0 \/ p \notin Local(c)
    BY <1>3, NextMarkCases, TypeFacts DEF FileOK, Local
  <2> QED
    BY <1>1, <1>3, <2>1 DEF EarnedAt, HeldRemoved, SelectedRemoved
<1> QED
    BY <1>2, <1>3

\* A head's new tombstone is of a page its checkout had and has no more, or
\* that the fleet had deleted already.
LEMMA NextTombRemoved ==
    ASSUME TypeInv, EarnedInv, NEW c \in Checkout, pc[c] = "selected", NEW p \in Page,
           NextTomb(c, p) # 0
    PROVE  p \in removed
<1>1. EarnedAt(c)
    BY DEF EarnedInv
<1>2. NextMark(c, p) = 0 /\ (head[c].tomb[p] # 0 \/ Ceases(c, p))
    BY NextTombCases
<1>3. CASE head[c].tomb[p] # 0
    BY <1>1, <1>3 DEF EarnedAt, TombsRemoved
<1>4. CASE held[c].dels[p] # 0 \/ p \in held[c].stale
    BY <1>1, <1>4 DEF EarnedAt, HeldRemoved, Busy
<1>5. CASE head[c].mark[p] # 0
    BY <1>2, <1>5, CeasedRemoved
<1> QED
    BY <1>2, <1>3, <1>4, <1>5 DEF Ceases

LEMMA WriteHeadEarned ==
    ASSUME TypeInv, EarnedInv, NEW c \in Checkout, WriteHead(c)
    PROVE  EarnedInv'
<1>1. /\ pc[c] = "selected"
      /\ \A p \in Page : /\ head'[c].mark[p] = NextMark(c, p)
                        /\ head'[c].tomb[p] = NextTomb(c, p)
      /\ \A d \in Checkout \ {c} : head'[d] = head[d]
      /\ UNCHANGED <<mem, base, queue, held, removed>>
    BY WriteHeadParts DEF local
<1>2. pc'[c] \in {"headed", "published"} /\ \A d \in Checkout \ {c} : pc'[d] = pc[d]
    BY WriteHeadMoves
<1>3. EarnedAt(c) /\ CommandOK(c) /\ Local(c)' = Local(c)
    BY <1>1, TypeFacts DEF EarnedInv, Local
<1>4. TombsRemoved(c)'
    BY <1>1, NextTombRemoved DEF TombsRemoved
<1>5. HeldRemoved(c)'
    BY <1>1, <1>2, <1>3 DEF EarnedAt, HeldRemoved, SelectedRemoved, Preparing, Busy
<1>6. CASE held[c].replay
  <2>1. held[c].ver = queue[c][1].ver /\ queue[c] # <<>> /\ queue[c] \in Seq(Items)
    BY <1>1, <1>3, <1>6, TypeFacts DEF CommandOK, Busy, FrozenPublication, CommandTyped, LocalOK
  <2>2. 1 \in DOMAIN queue[c]
    BY <2>1
  <2>3. \A p \in Page : NextMark(c, p) # 0 => queue[c][1].ver[p] # 0
    BY <2>1, NextMarkCases
  <2>4. \A p \in Page : NextMark(c, p) # 0 /\ p \notin Local(c) => p \in removed
    BY <1>3, <2>2, <2>3 DEF EarnedAt, ItemsRemoved
  <2>5. KnownRemoved(c)'
    BY <1>1, <1>3, <1>4, <2>4 DEF EarnedAt, KnownRemoved, Known, TombsRemoved
  <2>6. ItemsRemoved(c)'
    <3> SUFFICES ASSUME NEW i \in DOMAIN queue[c], NEW p \in Page,
                        queue[c][i].ver[p] = 0, NextMark(c, p) # 0
                 PROVE  p \in removed
      BY <1>1, <1>3 DEF EarnedAt, ItemsRemoved
    <3>1. 1 \in 1..(i - 1)
      BY <2>1, <2>3
    <3> QED
      BY <1>3, <2>3, <3>1 DEF EarnedAt, ItemsRemoved
  <2> QED
    BY <1>1, <1>2, <1>4, <1>5, <2>5, <2>6, EarnedStep DEF EarnedAt
<1>7. CASE ~held[c].replay
  <2>1. queue[c] = <<>>
    BY <1>1, <1>3, <1>7 DEF CommandOK, Busy
  <2>2. \A p \in Page : NextMark(c, p) # 0 => p \in Local(c)
    BY <1>7, NextMarkCases, TypeFacts DEF FileOK, Local
  <2>3. KnownRemoved(c)'
    BY <1>1, <1>3, <1>4, <2>2 DEF EarnedAt, KnownRemoved, Known, TombsRemoved
  <2>4. ItemsRemoved(c)'
    BY <1>1, <2>1 DEF ItemsRemoved
  <2> QED
    BY <1>1, <1>2, <1>4, <1>5, <2>3, <2>4, EarnedStep DEF EarnedAt
<1> QED
    BY <1>6, <1>7

LEMMA WriteLatestEarned ==
    ASSUME TypeInv, EarnedInv, NEW c \in Checkout, WriteLatest(c)
    PROVE  EarnedInv'
<1>1. /\ pc[c] = "headed" /\ pc'[c] = "published" /\ \A d \in Checkout \ {c} : pc'[d] = pc[d]
      /\ UNCHANGED <<mem, base, queue, held, head, removed>>
    BY WriteLatestParts DEF local, history
<1>2. EarnedAt(c)
    BY DEF EarnedInv
<1>3. EarnedAt(c)'
    BY <1>1, <1>2
    DEF EarnedAt, TombsRemoved, KnownRemoved, Known, Local, ItemsRemoved, HeldRemoved,
        SelectedRemoved, Preparing, Busy
<1> QED
    BY <1>1, <1>3, EarnedStep

LEMMA NextEarned ==
    ASSUME TypeInv, EarnedInv, [Next]_vars
    PROVE  EarnedInv'
<1>1. CASE Tick \/ UNCHANGED vars
  <2>1. UNCHANGED <<mem, base, queue, pc, held, head, removed>>
    BY <1>1 DEF Tick, vars, local, store, history
  <2> QED
    BY <2>1 DEF EarnedInv, EarnedAt, TombsRemoved, KnownRemoved, Known, Local, ItemsRemoved,
                HeldRemoved, SelectedRemoved, Preparing, Busy
<1>2. ASSUME NEW c \in Checkout, User(c) \/ Refresh(c) PROVE EarnedInv'
    BY <1>2, UserEarned, RefreshFetchEarned, RefreshApplyEarned, RefreshFinishEarned
    DEF User, Refresh
<1>3. ASSUME NEW c \in Checkout, Reconcile(c) PROVE EarnedInv'
    BY <1>3, PublishFetchEarned, PublishCompareEarned, PublishRestoreEarned, PublishStripEarned,
       PublishCheckEarned DEF Reconcile
<1>4. ASSUME NEW c \in Checkout, Publish(c) PROVE EarnedInv'
  <2>1. CASE PublishTorn(c)
    BY <2>1, CommandEndsEarned DEF PublishTorn, local, store, history
  <2> QED
    BY <1>4, <2>1, PublishSelectEarned, PublishFinishEarned DEF Publish
<1>5. ASSUME NEW c \in Checkout, Replay(c) PROVE EarnedInv'
    BY <1>5, FlushEarned, PublishDefersEarned, ReplayCheckEarned, ReplaySelectEarned,
       ReplayFinishEarned DEF Replay
<1>6. ASSUME NEW c \in Checkout, WriteHead(c) \/ WriteLatest(c) \/ Crash(c) PROVE EarnedInv'
    BY <1>6, WriteHeadEarned, WriteLatestEarned, CrashEarned
<1> QED
    BY <1>1, <1>2, <1>3, <1>4, <1>5, <1>6 DEF Next, Done

\* A page gets a tombstone only if some user removed it.
THEOREM TombstoneTheorem == Spec => []TombstoneEarned
<1>1. TypeInv /\ [Next]_vars => TypeInv'
    BY NextType
<1>2. TypeInv /\ EarnedInv /\ [Next]_vars => EarnedInv'
    BY NextEarned
<1>3. EarnedInv => TombstoneEarned
    BY DEF EarnedInv, EarnedAt, TombsRemoved, TombstoneEarned
<1> QED
    BY <1>1, <1>2, <1>3, InitType, InitEarned, PTL DEF Spec

\* Only a fast-forward publishes over other bytes ---------------------------------------

LEMMA HadStep ==
    ASSUME HadInv, NEW c \in Checkout, \A d \in Checkout : had[d] \subseteq had'[d],
           \A d \in Checkout \ {c} : /\ pc'[d] = pc[d] /\ held'[d] = held[d] /\ mem'[d] = mem[d]
                                     /\ base'[d] = base[d] /\ queue'[d] = queue[d]
                                     /\ head'[d] = head[d],
           HadAt(c)'
    PROVE  HadInv'
<1> SUFFICES ASSUME NEW d \in Checkout, d # c PROVE HadAt(d)'
    BY DEF HadInv
<1>1. /\ pc'[d] = pc[d] /\ held'[d] = held[d] /\ mem'[d] = mem[d]
      /\ base'[d] = base[d] /\ queue'[d] = queue[d] /\ head'[d] = head[d] /\ had[d] \subseteq had'[d]
    OBVIOUS
<1>2. HadAt(d)
    BY DEF HadInv
<1>3. HadAll(d)'
    BY <1>1, <1>2 DEF HadAt, HadAll
<1>4. HeldHad(d)'
    BY <1>1, <1>2 DEF HadAt, HeldHad, Preparing, Busy
<1> QED
    BY <1>3, <1>4 DEF HadAt

LEMMA InitHad == Init => HadInv
<1> SUFFICES ASSUME Init, NEW c \in Checkout PROVE HadAt(c)
    BY DEF HadInv
<1>1. /\ 0 \in had[c]
      /\ \A p \in Page : /\ mem[c][p].ver \in had[c] /\ base[c].hash[p] \in had[c]
                         /\ head[c].ver[p] \in had[c]
    BY DEF Init, Empty, File, NoFile
<1>2. queue[c] = <<>> /\ pc[c] = "idle"
    BY DEF Init
<1> QED
    BY <1>1, <1>2 DEF HadAt, HadAll, HeldHad, Preparing, Busy

\* At these steps a command holds no bytes of a page.
LEMMA NothingHeldHad ==
    ASSUME NEW c \in Checkout, pc'[c] \in {"idle", "fetched", "checked"}
    PROVE  HeldHad(c)'
  BY DEF HeldHad, Preparing, Busy

LEMMA CommandHad ==
    ASSUME TypeInv, HadInv, NEW c \in Checkout, NEW step, NEW what, Goes(c, step, what),
           UNCHANGED <<mem, base, queue, head, had>>,
           HeldHad(c)'
    PROVE  HadInv'
<1>1. \A d \in Checkout \ {c} : pc'[d] = pc[d] /\ held'[d] = held[d]
    BY TypeFacts DEF Goes, HeldOK
<1>2. HadAll(c)'
    BY DEF HadInv, HadAt, HadAll
<1> QED
    BY <1>1, <1>2, HadStep DEF HadAt

LEMMA CommandEndsHad ==
    ASSUME TypeInv, HadInv, NEW c \in Checkout, Ends(c),
           UNCHANGED <<mem, base, queue, head, had>>
    PROVE  HadInv'
<1>1. pc'[c] = "idle"
    BY TypeFacts, EndsTyped
<1> QED
    BY <1>1, NothingHeldHad, CommandHad DEF Ends

LEMMA ReceivesHad ==
    ASSUME TypeInv, HadInv, NEW c \in Checkout, NEW files \in Files, Receives(c, files),
           UNCHANGED <<base, queue, head>>
    PROVE  /\ HadAll(c)' /\ mem'[c] = files /\ \A d \in Checkout \ {c} : mem'[d] = mem[d]
           /\ \A d \in Checkout : had[d] \subseteq had'[d]
<1>1. /\ mem'[c] = files /\ \A d \in Checkout \ {c} : mem'[d] = mem[d]
      /\ \A d \in Checkout : had[d] \subseteq had'[d]
      /\ \A q \in Page : files[q].ver \in had'[c]
    BY TypeFacts, ReceivesTyped
<1>2. HadAll(c)
    BY DEF HadInv, HadAt
<1> QED
    BY <1>1, <1>2 DEF HadAll

LEMMA EditHad ==
    ASSUME TypeInv, HadInv, NEW c \in Checkout, NEW p \in Page, Edit(c, p)
    PROVE  HadInv'
<1> DEFINE files == [mem[c] EXCEPT ![p] = File(Len(birth) + 1, clock)]
<1>1. Receives(c, files) /\ UNCHANGED <<pc, held, base, queue, head>>
    BY DEF Edit, store
<1>2. events < MaxEvents
    BY TypeFacts, CountTyped DEF Edit
<1>3. files \in Files
  <2>1. Len(birth) + 1 \in Version
    BY <1>2, TypeFacts, BoundAssumption DEF Version
  <2> QED
    BY <2>1, TypeFacts DEF Files, File
<1> HIDE DEF files
<1>4. /\ HadAll(c)' /\ \A d \in Checkout \ {c} : mem'[d] = mem[d]
      /\ \A d \in Checkout : had[d] \subseteq had'[d]
    BY <1>1, <1>3, ReceivesHad
<1>5. HeldHad(c)
    BY DEF HadInv, HadAt
<1>6. HeldHad(c)'
    BY <1>1, <1>4, <1>5 DEF HeldHad, Preparing, Busy
<1> QED
    BY <1>1, <1>4, <1>6, HadStep DEF HadAt

LEMMA RemoveHad ==
    ASSUME TypeInv, HadInv, NEW c \in Checkout, NEW p \in Page, Remove(c, p)
    PROVE  HadInv'
<1>1. /\ mem' = [mem EXCEPT ![c][p] = NoFile]
      /\ UNCHANGED <<pc, held, base, queue, head, had>>
    BY DEF Remove, store
<1>2. /\ \A d \in Checkout \ {c} : mem'[d] = mem[d]
      /\ \A q \in Page : mem'[c][q] \in {mem[c][q], NoFile}
    BY <1>1, TypeFacts DEF Files
<1>3. HadAt(c)
    BY DEF HadInv
<1>4. HadAll(c)'
  <2>1. \A q \in Page : mem'[c][q].ver \in had[c]
    BY <1>2, <1>3 DEF HadAt, HadAll, NoFile, File
  <2> QED
    BY <1>1, <1>3, <2>1 DEF HadAt, HadAll
<1>5. HeldHad(c)'
    BY <1>1, <1>3 DEF HadAt, HeldHad, Preparing, Busy
<1> QED
    BY <1>1, <1>2, <1>4, <1>5, HadStep DEF HadAt

LEMMA RefreshFetchHad ==
    ASSUME TypeInv, HadInv, NEW c \in Checkout, RefreshFetch(c)
    PROVE  HadInv'
<1> DEFINE what == [pages |-> [p \in Page |-> Merged(p)],
                    tomb |-> [p \in Page |-> IF Deleted(p) THEN Tomb(p) ELSE 0]]
<1>1. Goes(c, "fetched", what) /\ UNCHANGED <<mem, base, queue, head, had>>
    BY DEF RefreshFetch, local, store, history
<1> HIDE DEF what
<1>2. pc'[c] = "fetched"
    BY <1>1, TypeFacts DEF Goes, HeldOK
<1> QED
    BY <1>1, <1>2, NothingHeldHad, CommandHad

LEMMA RefreshApplyHad ==
    ASSUME TypeInv, HadInv, NEW c \in Checkout, NEW force \in BOOLEAN, RefreshApply(c, force)
    PROVE  HadInv'
<1> DEFINE view == held[c]
           files == [p \in Page |-> Applied(mem[c][p], view.pages[p], view.tomb[p], force)]
           Hash(p) == IF view.pages[p] = 0 THEN 0
                      ELSE AcceptedHash(base[c].hash[p], files[p], view.pages[p])
           hash == [p \in Page |-> Hash(p)]
           what == [pages |-> Pages(view.pages), hash |-> hash]
<1>1. /\ pc[c] = "fetched" /\ Receives(c, files) /\ Goes(c, "applied", what)
      /\ UNCHANGED <<base, queue, head>>
    BY DEF RefreshApply, store
<1>2. files \in Files
    BY <1>1, TypeFacts, HeldTypes, AppliedTyped DEF Files, Views, Contents
<1>3. \A p \in Page : hash[p] \in {0, base[c].hash[p], files[p].ver}
    BY DEF AcceptedHash
<1> HIDE DEF files, hash
<1>4. /\ HadAll(c)' /\ mem'[c] = files /\ \A d \in Checkout \ {c} : mem'[d] = mem[d]
      /\ \A d \in Checkout : had[d] \subseteq had'[d]
    BY <1>1, <1>2, ReceivesHad
<1>5. /\ pc'[c] = "applied" /\ held'[c].hash = hash
      /\ \A d \in Checkout \ {c} : pc'[d] = pc[d] /\ held'[d] = held[d]
    BY <1>1, TypeFacts DEF Goes, HeldOK
<1>6. \A p \in Page : hash[p] \in had'[c]
    BY <1>1, <1>3, <1>4 DEF HadAll
<1>7. HeldHad(c)'
    BY <1>5, <1>6 DEF HeldHad, Preparing, Busy
<1> QED
    BY <1>1, <1>4, <1>5, <1>7, HadStep DEF HadAt

LEMMA RefreshFinishHad ==
    ASSUME TypeInv, HadInv, NEW c \in Checkout, RefreshFinish(c)
    PROVE  HadInv'
<1>1. /\ pc[c] = "applied" /\ Ends(c) /\ UNCHANGED <<mem, queue, head, had>>
      /\ base' = [base EXCEPT ![c] = [held[c] EXCEPT !.pages = @ \cap Local(c)]]
    BY DEF RefreshFinish, store, history
<1>2. held[c] \in Baselines
    BY <1>1, TypeFacts, HeldTypes
<1>3. base'[c].hash = held[c].hash /\ \A d \in Checkout \ {c} : base'[d] = base[d]
    BY <1>1, <1>2, TypeFacts DEF LocalOK, Baselines
<1>4. pc'[c] = "idle" /\ \A d \in Checkout \ {c} : pc'[d] = pc[d] /\ held'[d] = held[d]
    BY <1>1, TypeFacts, EndsTyped
<1>5. HadAll(c)'
    BY <1>1, <1>3 DEF HadInv, HadAt, HadAll, HeldHad
<1> QED
    BY <1>1, <1>3, <1>4, <1>5, NothingHeldHad, HadStep DEF HadAt

LEMMA PublishFetchHad ==
    ASSUME TypeInv, HadInv, NEW c \in Checkout, PublishFetch(c)
    PROVE  HadInv'
<1>1. /\ Goes(c, "latest", Comparison(latest.ver))
      /\ UNCHANGED <<mem, base, queue, head, had>>
    BY DEF PublishFetch, local, store, history
<1>2. pc'[c] = "latest" /\ held'[c] = Comparison(latest.ver)
    BY <1>1, TypeFacts DEF Goes, HeldOK
<1>3. held'[c].seen = latest.ver /\ held'[c].todo = Pages(latest.ver)
    BY <1>2 DEF Comparison
<1>4. 0 \in had'[c]
    BY <1>1 DEF HadInv, HadAt, HadAll
<1>5. HeldHad(c)'
    BY <1>2, <1>3, <1>4 DEF HeldHad, Preparing, Busy, Pages
<1> QED
    BY <1>1, <1>5, CommandHad

LEMMA PublishCompareHad ==
    ASSUME TypeInv, HadInv, NEW c \in Checkout, PublishCompare(c)
    PROVE  HadInv'
<1>1. /\ Preparing(c) /\ pc'[c] = "compared" /\ Goes(c, "compared", held'[c])
      /\ held'[c].seen = held[c].seen /\ held'[c].todo = held[c].todo
      /\ held'[c].drifted = held[c].drifted
      /\ UNCHANGED <<mem, base, queue, head, had>>
    BY PublishCompareParts DEF local, store, history
<1>2. HeldHad(c)'
    BY <1>1 DEF HadInv, HadAt, HeldHad, Preparing, Busy
<1> QED
    BY <1>1, <1>2, CommandHad

\* A page of latest.json is restored, or here already, or has drifted.
LEMMA PublishRestoreHad ==
    ASSUME TypeInv, HadInv, NEW c \in Checkout, NEW p \in Page, PublishRestore(c, p)
    PROVE  HadInv'
<1>1. /\ Preparing(c) /\ pc'[c] = "compared"
      /\ held'[c].seen = held[c].seen /\ held'[c].todo = held[c].todo \ {p}
      /\ held'[c].drifted = IF mem[c][p].ver \in {0, held[c].seen[p]} THEN held[c].drifted
                            ELSE held[c].drifted \cup {p}
      /\ \A d \in Checkout \ {c} : pc'[d] = pc[d] /\ held'[d] = held[d]
      /\ Receives(c, RestoredFiles(c, p)) /\ RestoredFiles(c, p) \in Files
      /\ RestoredFiles(c, p)[p] = IF mem[c][p].ver = 0 THEN File(held[c].seen[p], clock)
                                  ELSE mem[c][p]
      /\ UNCHANGED <<base, queue, head>>
    BY PublishRestoreParts DEF store
<1>2. /\ HadAll(c)' /\ mem'[c] = RestoredFiles(c, p)
      /\ \A d \in Checkout \ {c} : mem'[d] = mem[d]
      /\ \A d \in Checkout : had[d] \subseteq had'[d]
    BY <1>1, ReceivesHad
<1>3. HeldHad(c)
    BY DEF HadInv, HadAt
<1>4. p \notin held'[c].drifted => held[c].seen[p] \in had'[c]
  <2>1. mem'[c][p].ver \in had'[c]
    BY <1>2 DEF HadAll
  <2> QED
    BY <1>1, <1>2, <2>1 DEF File
<1>5. ASSUME NEW q \in Page, q \notin held'[c].todo \cup held'[c].drifted
      PROVE  held[c].seen[q] \in had'[c]
  <2>1. q # p => q \notin held[c].todo \cup held[c].drifted
    BY <1>1, <1>5
  <2> QED
    BY <1>1, <1>2, <1>3, <1>4, <1>5, <2>1 DEF HeldHad
<1>6. HeldHad(c)'
    BY <1>1, <1>5 DEF HeldHad, Preparing, Busy
<1> QED
    BY <1>1, <1>2, <1>6, HadStep DEF HadAt

LEMMA PublishStripHad ==
    ASSUME TypeInv, HadInv, NEW c \in Checkout, NEW p \in Page, PublishStrip(c, p)
    PROVE  HadInv'
<1>1. /\ Preparing(c) /\ pc'[c] = "compared"
      /\ held'[c].seen = held[c].seen /\ held'[c].todo = held[c].todo
      /\ held'[c].drifted = held[c].drifted
      /\ \A d \in Checkout \ {c} : pc'[d] = pc[d] /\ held'[d] = held[d] /\ mem'[d] = mem[d]
      /\ mem'[c][p] = NoFile /\ \A q \in Page \ {p} : mem'[c][q] = mem[c][q]
      /\ UNCHANGED <<base, queue, head, had>>
    BY PublishStripParts DEF local, store, history
<1>2. HadAt(c)
    BY DEF HadInv
<1>3. \A q \in Page : mem'[c][q].ver \in had[c]
    BY <1>1, <1>2 DEF HadAt, HadAll, NoFile, File
<1>4. HadAll(c)'
    BY <1>1, <1>2, <1>3 DEF HadAt, HadAll
<1>5. HeldHad(c)'
    BY <1>1, <1>2 DEF HadAt, HeldHad, Preparing, Busy
<1> QED
    BY <1>1, <1>4, <1>5, HadStep DEF HadAt

\* A publication goes ahead if what latest.json and the heads both show was here,
\* or is what this checkout accepted last.
LEMMA PublishCheckHad ==
    ASSUME TypeInv, HadInv, NEW c \in Checkout, PublishCheck(c)
    PROVE  HadInv'
<1>1. UNCHANGED <<mem, base, queue, head, had>> /\ HadAt(c)
    BY PublishCheckParts DEF local, store, history, HadInv
<1>2. CASE Ends(c)
    BY <1>1, <1>2, CommandEndsHad
<1>3. CASE Goes(c, "prepared", Prepared(c)) /\ \A p \in held[c].drifted : FastForward(c, p)
  <2>1. pc'[c] = "prepared" /\ held'[c] = Prepared(c)
    BY <1>3, TypeFacts DEF Goes, HeldOK
  <2>2. /\ ~held'[c].replay /\ held'[c].ver = Empty /\ held'[c].shown = Shown(held[c].seen)
    BY <2>1 DEF Prepared, Publication
  <2>3. /\ Preparing(c) /\ held[c].todo = {} /\ held[c] \in Comparisons
    BY PublishCheckParts
  <2>4. ASSUME NEW p \in Page PROVE Shown(held[c].seen)[p] \in had[c]
    <3>1. Shown(held[c].seen)[p] = IF held[c].seen[p] = Merged(p) THEN held[c].seen[p] ELSE 0
      BY DEF Shown
    <3>2. CASE p \in held[c].drifted
      BY <1>1, <1>3, <3>1, <3>2 DEF FastForward, HadAt, HadAll
    <3>3. CASE p \notin held[c].drifted
      BY <1>1, <2>3, <3>1, <3>3 DEF HadAt, HadAll, HeldHad
    <3> QED
      BY <3>2, <3>3
  <2>5. HeldHad(c)'
    BY <1>1, <2>1, <2>2, <2>4 DEF HadAt, HadAll, HeldHad, Preparing, Busy, Empty
  <2> QED
    BY <1>1, <1>3, <2>5, CommandHad
<1> QED
    BY <1>2, <1>3, PublishCheckParts

LEMMA PublishSelectHad ==
    ASSUME TypeInv, HadInv, NEW c \in Checkout, PublishSelect(c)
    PROVE  HadInv'
<1>1. pc[c] = "prepared" /\ Busy(c) /\ ~held[c].replay /\ UNCHANGED <<mem, base, queue, head, had>>
    BY PublishSelectParts DEF local, store
<1>2. PICK stale \in {Stale(c), {}} : Ends(c) \/ Goes(c, "selected", Selected(c, stale))
    BY PublishSelectParts
<1>3. CASE Ends(c)
    BY <1>1, <1>3, CommandEndsHad
<1>4. CASE Goes(c, "selected", Selected(c, stale))
  <2>1. pc'[c] = "selected" /\ held'[c] = Selected(c, stale)
    BY <1>4, TypeFacts DEF Goes, HeldOK
  <2>2. /\ ~held'[c].replay /\ held'[c].shown = held[c].shown
        /\ \A p \in Page : held'[c].ver[p] \in {mem[c][p].ver, 0}
    BY <1>1, <2>1, SelectedFields
  <2>3. HadAt(c)
    BY DEF HadInv
  <2>4. HeldHad(c)'
    BY <1>1, <2>1, <2>2, <2>3 DEF HadAt, HadAll, HeldHad, Preparing, Busy
  <2> QED
    BY <1>1, <1>4, <2>4, CommandHad
<1> QED
    BY <1>2, <1>3, <1>4

LEMMA EnqueueHad ==
    ASSUME TypeInv, HadInv, NEW c \in Checkout, NEW dels \in Marks, Enqueue(c, dels),
           UNCHANGED <<mem, base, head, had>>
    PROVE  HadAll(c)'
<1>1. HadAll(c)
    BY DEF HadInv, HadAt
<1>2. ASSUME NEW i \in DOMAIN queue'[c], NEW p \in Page
      PROVE  queue'[c][i].ver[p] \in had[c]
  <2>1. CASE i \in DOMAIN queue[c]
    <3>1. queue'[c][i].ver = queue[c][i].ver
      BY <2>1, EnqueueKeeps
    <3> QED
      BY <1>1, <2>1, <3>1 DEF HadAll
  <2>2. CASE i \notin DOMAIN queue[c]
    <3>1. queue'[c][i] = Item(Frozen(c), [q \in Page |-> mem[c][q].mtime], dels)
      BY <2>2, EnqueueAppends
    <3> QED
      BY <1>1, <3>1 DEF HadAll, Item, Frozen
  <2> QED
    BY <2>1, <2>2
<1> QED
    BY <1>1, <1>2 DEF HadAll

LEMMA FlushHad ==
    ASSUME TypeInv, HadInv, NEW c \in Checkout, Flush(c)
    PROVE  HadInv'
<1> DEFINE dels == DatedNow(base[c].pages \ Local(c))
<1>1. pc[c] = "idle" /\ Enqueue(c, dels) /\ UNCHANGED <<mem, base, head, pc, held, had>>
    BY DEF Flush, store, history
<1>2. dels \in Marks
    BY FlushDels
<1> HIDE DEF dels
<1>3. \A d \in Checkout \ {c} : queue'[d] = queue[d]
    BY <1>1, <1>2, EnqueueFields
<1>4. HadAll(c)'
    BY <1>1, <1>2, EnqueueHad
<1> QED
    BY <1>1, <1>3, <1>4, HadStep, NothingHeldHad DEF HadAt

LEMMA PublishDefersHad ==
    ASSUME TypeInv, HadInv, NEW c \in Checkout, PublishDefers(c)
    PROVE  HadInv'
<1>1. /\ DefersDels(c) \in Marks /\ Enqueue(c, DefersDels(c)) /\ Ends(c)
      /\ UNCHANGED <<mem, base, head, had>>
    BY PublishDefersParts DEF store
<1>2. pc'[c] = "idle" /\ \A d \in Checkout \ {c} : pc'[d] = pc[d] /\ held'[d] = held[d]
    BY <1>1, TypeFacts, EndsTyped
<1>3. \A d \in Checkout \ {c} : queue'[d] = queue[d]
    BY <1>1, EnqueueFields
<1>4. HadAll(c)'
    BY <1>1, EnqueueHad
<1> QED
    BY <1>1, <1>2, <1>3, <1>4, HadStep, NothingHeldHad DEF HadAt

LEMMA ReplayCheckHad ==
    ASSUME TypeInv, HadInv, NEW c \in Checkout, ReplayCheck(c)
    PROVE  HadInv'
<1>1. Goes(c, "checked", NoPublication) /\ UNCHANGED <<mem, base, queue, head, had>>
    BY DEF ReplayCheck, history, local, store
<1>2. pc'[c] = "checked"
    BY <1>1, TypeFacts DEF Goes, HeldOK
<1> QED
    BY <1>1, <1>2, NothingHeldHad, CommandHad

\* A frozen item that goes ahead has no other bytes than latest.json, unless
\* this checkout wrote that.
LEMMA ReplaySelectHad ==
    ASSUME TypeInv, HadInv, NEW c \in Checkout, ReplaySelect(c)
    PROVE  HadInv'
<1>1. UNCHANGED <<mem, base, queue, head, had>>
    BY ReplaySelectParts DEF local, store, history
<1>2. CASE Ends(c)
    BY <1>1, <1>2, CommandEndsHad
<1>3. CASE ~Differs(c, queue[c][1]) /\ Goes(c, "selected", Replayed(c))
  <2>1. pc'[c] = "selected" /\ held'[c] = Replayed(c)
    BY <1>3, TypeFacts DEF Goes, HeldOK
  <2>2. HadAll(c)
    BY DEF HadInv, HadAt
  <2>3. /\ held'[c].replay /\ held'[c].ver = queue[c][1].ver
        /\ held'[c].shown = Shown(latest.ver)
    BY <2>1 DEF Replayed, Publication
  <2>4. ASSUME NEW p \in Page, Shown(latest.ver)[p] \notin had[c]
        PROVE  queue[c][1].ver[p] \in {0, Shown(latest.ver)[p]}
    <3>1. Shown(latest.ver)[p] = latest.ver[p] /\ latest.ver[p] # 0
      BY <2>2, <2>4 DEF Shown, HadAll
    <3>2. latest.ver # head[c].ver
      BY <2>2, <2>4, <3>1 DEF HadAll
    <3> QED
      BY <1>3, <3>1, <3>2 DEF Differs, Pages
  <2>5. HeldHad(c)'
    BY <1>1, <2>1, <2>3, <2>4 DEF HeldHad, Preparing, Busy
  <2> QED
    BY <1>1, <1>3, <2>5, CommandHad
<1> QED
    BY <1>2, <1>3, ReplaySelectParts

LEMMA FinishHad ==
    ASSUME TypeInv, HadInv, NEW c \in Checkout, PublishFinish(c) \/ ReplayFinish(c)
    PROVE  HadInv'
<1>1. HadAll(c)
    BY DEF HadInv, HadAt
<1>2. Ends(c) /\ UNCHANGED <<mem, head, had>>
    BY DEF PublishFinish, ReplayFinish, store, history
<1>3. pc'[c] = "idle" /\ \A d \in Checkout \ {c} : pc'[d] = pc[d] /\ held'[d] = held[d]
    BY <1>2, TypeFacts, EndsTyped
<1>4. CASE PublishFinish(c)
  <2>1. queue' = queue
        /\ base' = [base EXCEPT ![c] = [pages |-> Local(c), hash |-> [p \in Page |-> mem[c][p].ver]]]
    BY <1>4 DEF PublishFinish
  <2>2. /\ base'[c].hash = [p \in Page |-> mem[c][p].ver]
        /\ \A d \in Checkout \ {c} : base'[d] = base[d]
    BY <2>1, TypeFacts DEF LocalOK
  <2>3. HadAll(c)'
    BY <1>1, <1>2, <2>1, <2>2 DEF HadAll
  <2> QED
    BY <1>2, <1>3, <2>1, <2>2, <2>3, HadStep, NothingHeldHad DEF HadAt
<1>5. CASE ReplayFinish(c)
  <2>1. /\ 1 \in DOMAIN queue[c]
        /\ \A d \in Checkout \ {c} : queue'[d] = queue[d]
        /\ \A i \in DOMAIN queue'[c] :
              i + 1 \in DOMAIN queue[c] /\ queue'[c][i] = queue[c][i + 1]
    BY <1>5, ReplayFinishParts
  <2>2. /\ base'[c] \in {ReplayedBaseline(base[c], queue[c][1]), base[c]}
        /\ \A d \in Checkout \ {c} : base'[d] = base[d]
    BY <1>5, ReplayFinishParts, TypeFacts DEF LocalOK
  <2>3. \A p \in Page : base'[c].hash[p] \in {0, queue[c][1].ver[p], base[c].hash[p]}
    BY <2>2 DEF ReplayedBaseline
  <2>4. HadAll(c)'
    BY <1>1, <1>2, <2>1, <2>3 DEF HadAll
  <2> QED
    BY <1>2, <1>3, <2>1, <2>2, <2>4, HadStep, NothingHeldHad DEF HadAt
<1> QED
    BY <1>4, <1>5

LEMMA WriteHeadHad ==
    ASSUME TypeInv, HadInv, NEW c \in Checkout, WriteHead(c)
    PROVE  HadInv'
<1>1. /\ pc[c] = "selected" /\ head'[c].ver = held[c].ver
      /\ \A d \in Checkout \ {c} : head'[d] = head[d]
      /\ UNCHANGED <<mem, base, queue, held, had>>
    BY WriteHeadParts DEF local
<1>2. pc'[c] \in {"headed", "published"} /\ \A d \in Checkout \ {c} : pc'[d] = pc[d]
    BY WriteHeadMoves
<1>3. HadAt(c) /\ CommandOK(c)
    BY TypeFacts DEF HadInv
<1>4. \A p \in Page : held[c].ver[p] \in had[c]
  <2>1. CASE held[c].replay
    <3>1. held[c].ver = queue[c][1].ver /\ queue[c] # <<>> /\ queue[c] \in Seq(Items)
      BY <1>1, <1>3, <2>1, TypeFacts DEF CommandOK, Busy, FrozenPublication, CommandTyped, LocalOK
    <3>2. 1 \in DOMAIN queue[c]
      BY <3>1
    <3> QED
      BY <1>3, <3>1, <3>2 DEF HadAt, HadAll
  <2>2. CASE ~held[c].replay
    BY <1>1, <1>3, <2>2 DEF HadAt, HeldHad, Busy
  <2> QED
    BY <2>1, <2>2
<1>5. HadAll(c)'
    BY <1>1, <1>3, <1>4 DEF HadAt, HadAll
<1>6. HeldHad(c)'
    BY <1>1, <1>2, <1>3 DEF HadAt, HeldHad, Preparing, Busy
<1> QED
    BY <1>1, <1>2, <1>5, <1>6, HadStep DEF HadAt

LEMMA WriteLatestHad ==
    ASSUME TypeInv, HadInv, NEW c \in Checkout, WriteLatest(c)
    PROVE  HadInv'
<1>1. /\ pc[c] = "headed" /\ pc'[c] = "published" /\ \A d \in Checkout \ {c} : pc'[d] = pc[d]
      /\ UNCHANGED <<mem, base, queue, held, head, had>>
    BY WriteLatestParts DEF local, history
<1>2. HadAt(c)
    BY DEF HadInv
<1>3. HadAt(c)'
    BY <1>1, <1>2 DEF HadAt, HadAll, HeldHad, Preparing, Busy
<1> QED
    BY <1>1, <1>3, HadStep

LEMMA NextHad ==
    ASSUME TypeInv, HadInv, [Next]_vars
    PROVE  HadInv'
<1>1. CASE Tick \/ UNCHANGED vars
  <2>1. UNCHANGED <<mem, base, queue, pc, held, head, had>>
    BY <1>1 DEF Tick, vars, local, store, history
  <2> QED
    BY <2>1 DEF HadInv, HadAt, HadAll, HeldHad, Preparing, Busy
<1>2. ASSUME NEW c \in Checkout, User(c) \/ Refresh(c) PROVE HadInv'
    BY <1>2, EditHad, RemoveHad, RefreshFetchHad, RefreshApplyHad, RefreshFinishHad
    DEF User, Refresh
<1>3. ASSUME NEW c \in Checkout, Reconcile(c) PROVE HadInv'
    BY <1>3, PublishFetchHad, PublishCompareHad, PublishRestoreHad, PublishStripHad, PublishCheckHad
    DEF Reconcile
<1>4. ASSUME NEW c \in Checkout, Publish(c) PROVE HadInv'
  <2>1. CASE PublishTorn(c)
    BY <2>1, CommandEndsHad DEF PublishTorn, local, store, history
  <2> QED
    BY <1>4, <2>1, PublishSelectHad, FinishHad DEF Publish
<1>5. ASSUME NEW c \in Checkout, Replay(c) PROVE HadInv'
    BY <1>5, FlushHad, PublishDefersHad, ReplayCheckHad, ReplaySelectHad, FinishHad DEF Replay
<1>6. ASSUME NEW c \in Checkout, WriteHead(c) \/ WriteLatest(c) \/ Crash(c) PROVE HadInv'
  <2>1. CASE Crash(c)
    BY <2>1, CommandEndsHad DEF Crash, local, store
  <2> QED
    BY <1>6, <2>1, WriteHeadHad, WriteLatestHad
<1> QED
    BY <1>1, <1>2, <1>3, <1>4, <1>5, <1>6 DEF Next, Done

\* Only the two writes of a publication change the store.
LEMMA StoreWrites ==
    ASSUME TypeInv, [Next]_vars, store' # store
    PROVE  \E c \in Checkout : WriteHead(c) \/ WriteLatest(c)
<1>1. ~Tick /\ ~UNCHANGED vars /\ ~Done
    BY DEF Tick, Done, vars
<1>2. ASSUME NEW c \in Checkout
      PROVE  ~User(c) /\ ~Refresh(c) /\ ~Reconcile(c) /\ ~Publish(c) /\ ~Replay(c) /\ ~Crash(c)
  <2>1. ~User(c) /\ ~Refresh(c)
    BY DEF User, Edit, Remove, Refresh, RefreshFetch, RefreshApply, RefreshFinish
  <2>2. ~Reconcile(c)
    BY PublishCompareParts, PublishRestoreParts, PublishStripParts, PublishCheckParts
    DEF Reconcile, PublishFetch
  <2>3. ~Publish(c)
    BY PublishSelectParts DEF Publish, PublishTorn, PublishFinish
  <2>4. ~Replay(c) /\ ~Crash(c)
    BY ReplaySelectParts DEF Replay, Flush, PublishDefers, ReplayCheck, ReplayFinish, Crash
  <2> QED
    BY <2>1, <2>2, <2>3, <2>4
<1> QED
    BY <1>1, <1>2 DEF Next

LEMMA PublishesOverExcused ==
    ASSUME TypeInv, HadInv, [Next]_vars, NEW c \in Checkout, NEW p \in Page, PublishesOver(c, p)
    PROVE  Excused(c, p)
<1>1. store' # store /\ pc'[c] # pc[c] /\ held[c].ver[p] \notin {0, Merged(p)}
    BY DEF PublishesOver
<1>2. PICK d \in Checkout : WriteHead(d) \/ WriteLatest(d)
    BY <1>1, StoreWrites
<1>3. pc[d] \in {"selected", "headed"} /\ \A e \in Checkout \ {d} : pc'[e] = pc[e]
    BY <1>2, WriteHeadMoves, WriteLatestParts DEF WriteHead
<1>4. c = d
    BY <1>1, <1>3
<1>5. HeldHad(c)
    BY DEF HadInv, HadAt
<1>6. held[c].shown[p] \notin had[c] => held[c].ver[p] \in {0, held[c].shown[p]}
    BY <1>3, <1>4, <1>5 DEF HeldHad, Busy
<1> QED
    BY <1>1, <1>6 DEF Excused

\* A checkout publishes other bytes of a page than the fleet's only if it had
\* those, or could not see them when it compared its pages: no edit of both
\* sides is silently lost.
THEOREM FastForwardTheorem == Spec => FastForwardOnly
<1>1. TypeInv /\ [Next]_vars => TypeInv'
    BY NextType
<1>2. TypeInv /\ HadInv /\ [Next]_vars => HadInv'
    BY NextHad
<1>3. TypeInv /\ HadInv /\ [Next]_vars
        => [\A c \in Checkout, p \in Page : PublishesOver(c, p) => Excused(c, p)]_vars
    BY PublishesOverExcused
<1> QED
    BY <1>1, <1>2, <1>3, InitType, InitHad, PTL DEF Spec, FastForwardOnly

\* A deleted page does not come back ------------------------------------------------------

\* A replay publishes the first item of the queue.
LEMMA ReplaySource ==
    ASSUME TypeInv, NEW c \in Checkout, Busy(c), held[c].replay
    PROVE  /\ queue[c] \in Seq(Items) /\ 1 \in DOMAIN queue[c]
           /\ held[c].ver = queue[c][1].ver /\ held[c].mark = queue[c][1].mark
<1>1. /\ held[c].ver = queue[c][1].ver /\ held[c].mark = queue[c][1].mark
    BY TypeFacts DEF CommandOK, FrozenPublication
<1>2. pc[c] = "prepared" => ~held[c].replay
    BY TypeFacts DEF CommandOK
<1>3. queue[c] # <<>>
    BY <1>2, TypeFacts DEF Busy, CommandTyped
<1> QED
    BY <1>1, <1>3, FirstItem

\* The snapshot of a preserved head or of latest.json is stored.
LEMMA KeptStored ==
    ASSUME TypeInv, NEW x \in kept \cup {latest}
    PROVE  x.ver \in DOMAIN sidecar /\ x.ver \in Contents
<1>1. x \in [ver : Contents \ {Empty}, at : Time]
    BY TypeFacts DEF StoreOK
<1>2. [ver |-> x.ver, at |-> x.at] \in Pointers
    BY PointersHave
<1>3. x.ver \in DOMAIN sidecar \cup {Empty}
    BY <1>2, TypeFacts DEF StoreOK
<1> QED
    BY <1>1, <1>3

\* Every version there is was written.
LEMMA Born ==
    ASSUME TypeInv, DatedInv, NEW c \in Checkout, NEW p \in Page
    PROVE  /\ mem[c][p].ver # 0 => mem[c][p].ver \in 1..Len(birth)
           /\ head[c].ver[p] # 0 => head[c].ver[p] \in 1..Len(birth)
           /\ \A i \in DOMAIN queue[c] :
                 queue[c][i].ver[p] # 0 => queue[c][i].ver[p] \in 1..Len(birth)
           /\ pc[c] = "fetched" /\ held[c].pages[p] # 0 => held[c].pages[p] \in 1..Len(birth)
           /\ Preparing(c) /\ held[c].seen[p] # 0 => held[c].seen[p] \in 1..Len(birth)
<1>1. DatedAt(c) /\ DatedStore
    BY DEF DatedInv
<1>2. ReadWritten(c, p) /\ Len(birth) \in Nat
    BY <1>1, TypeFacts DEF DatedAt
<1>3. /\ pc[c] = "fetched" /\ held[c].pages[p] # 0 => held[c].pages[p] \in 1..Len(birth)
      /\ Preparing(c) /\ held[c].seen[p] # 0 => held[c].seen[p] \in 1..Len(birth)
    BY <1>2 DEF ReadWritten
<1> QED
    BY <1>1, <1>3 DEF DatedAt, DatedStore, Dated, DatedIfMarked

LEMMA HeldBorn ==
    ASSUME TypeInv, DatedInv, NEW c \in Checkout, NEW p \in Page,
           pc[c] \in {"checked", "selected", "headed"}, Taken(c)[p] # 0
    PROVE  Taken(c)[p] \in 1..Len(birth)
<1>1. CASE pc[c] = "checked"
  <2>1. 1 \in DOMAIN queue[c]
    BY <1>1, FirstItem, TypeFacts DEF CommandTyped
  <2> QED
    BY <1>1, <2>1, Born DEF Taken
<1>2. CASE pc[c] = "headed"
    BY <1>2, Born, TypeFacts DEF Taken, CommandOK
<1>3. CASE pc[c] = "selected" /\ held[c].replay
  <2>1. 1 \in DOMAIN queue[c] /\ held[c].ver = queue[c][1].ver
    BY <1>3, ReplaySource DEF Busy
  <2> QED
    BY <1>3, <2>1, Born DEF Taken
<1>4. CASE pc[c] = "selected" /\ ~held[c].replay
    BY <1>4 DEF Taken, DatedInv, DatedAt, SelectedDated
<1> QED
    BY <1>1, <1>2, <1>3, <1>4

LEMMA BirthNat ==
    ASSUME TypeInv, NEW v \in 1..Len(birth)
    PROVE  birth[v] \in Nat
<1>1. birth \in Seq(Time)
    BY TypeFacts
<1>2. birth[v] \in Time
    BY <1>1
<1> QED
    BY <1>2, Bounds

LEMMA KeptBorn ==
    ASSUME TypeInv, DatedInv, NEW x \in kept \cup {latest}, NEW p \in Page
    PROVE  x.ver[p] # 0 => x.ver[p] \in 1..Len(birth)
  BY KeptStored DEF DatedInv, DatedStore, Dated

\* The marker of a page in a snapshot is one a head has for it, or the stored one.
LEMMA MarkerNamed ==
    ASSUME TypeInv, NEW content, NEW p \in Page
    PROVE  \/ \E d \in Checkout : /\ head[d].ver = content /\ head[d].mark[p] # 0
                                  /\ Marker(content, p) = head[d].mark[p]
           \/ Marker(content, p) = sidecar[content][p]
<1> DEFINE marks == {head[c].mark[p] : c \in {d \in Checkout : head[d].ver = content}}
<1>1. Marker(content, p) = IF Largest(marks) # 0 THEN Largest(marks) ELSE sidecar[content][p]
    BY DEF Marker
<1>2. marks \subseteq 0..MaxClock
  <2>1. \A d \in Checkout : head[d].mark[p] \in Time
    BY TypeFacts DEF StoreOK, Heads, Marks
  <2> QED
    BY <2>1, Bounds
<1>3. \A m \in marks : \E d \in Checkout : head[d].ver = content /\ m = head[d].mark[p]
    OBVIOUS
<1> HIDE DEF marks
<1>4. Largest(marks) # 0 => Largest(marks) \in marks
    BY <1>2, LargestGreatest, Bounds
<1> QED
    BY <1>1, <1>3, <1>4

LEMMA MarkerDated ==
    ASSUME TypeInv, DatedInv, NEW x \in Pointers, NEW p \in Page, x.ver[p] # 0
    PROVE  Dated(x.ver[p], Marker(x.ver, p))
<1>1. x.ver \in DOMAIN sidecar
    BY PointerType, TypeFacts DEF Empty
<1>2. DatedStore
    BY DEF DatedInv
<1>3. CASE \E d \in Checkout : /\ head[d].ver = x.ver /\ head[d].mark[p] # 0
                               /\ Marker(x.ver, p) = head[d].mark[p]
    BY <1>2, <1>3 DEF DatedStore, DatedIfMarked
<1>4. CASE Marker(x.ver, p) = sidecar[x.ver][p]
    BY <1>1, <1>2, <1>4 DEF DatedStore
<1> QED
    BY <1>3, <1>4, MarkerNamed

LEMMA MarkerHonest ==
    ASSUME TypeInv, NEW x \in Pointers, NEW p \in Page, x.ver[p] # 0, HonestStore(p)
    PROVE  Honest(p, x.ver[p], Marker(x.ver, p))
<1>1. x.ver \in DOMAIN sidecar
    BY PointerType, TypeFacts DEF Empty
<1>2. CASE \E d \in Checkout : head[d].ver = x.ver /\ Marker(x.ver, p) = head[d].mark[p]
    BY <1>2 DEF HonestStore
<1>3. CASE Marker(x.ver, p) = sidecar[x.ver][p]
    BY <1>1, <1>3 DEF HonestStore
<1> QED
    BY <1>2, <1>3, MarkerNamed

LEMMA TombsBound ==
    ASSUME TypeOK, NEW p \in Page, NEW t \in Tombs(p)
    PROVE  t \in Nat /\ t # 0 /\ t <= Tomb(p) /\ Tomb(p) # 0 /\ Tomb(p) \in Tombs(p)
<1>1. PICK c \in Checkout : t = head[c].tomb[p] /\ t # 0
    BY DEF Tombs
<1>2. t \in Nat
    BY <1>1, Bounds DEF TypeOK, Heads, Marks
<1>3. Tomb(p) \in Nat /\ t <= Tomb(p)
    BY <1>1, TombGreatest, Bounds
<1>4. Tomb(p) # 0
    BY <1>1, <1>2, <1>3
<1> QED
    BY <1>1, <1>2, <1>3, <1>4, TombGreatest DEF Tombs

LEMMA TombInTombs ==
    ASSUME TypeOK, NEW p \in Page, Tomb(p) # 0
    PROVE  Tomb(p) \in Tombs(p)
  BY TombGreatest DEF Tombs

\* A page that is fresh in the store at its last deletion wins with bytes
\* younger than every deletion.
LEMMA MergedFresh ==
    ASSUME TypeInv, DatedInv, FreshInv, NEW p \in Page, Plain(p), Merged(p) # 0
    PROVE  /\ Merged(p) \in 1..Len(birth)
           /\ \A t \in Tombs(p) : birth[Merged(p)] > t
<1>0. TypeOK /\ HonestStore(p) /\ WrittenAnew(p)
    BY TypeFacts DEF FreshInv
<1>1. Merged(p) = Winner(p) /\ ~Deleted(p) /\ Winner(p) # 0
    BY DEF Merged
<1>2. PICK z \in Pointers : z.ver[p] = Winner(p) /\ Marker(z.ver, p) = WinMarker(p)
    BY <1>0, <1>1, WinnerOffered
<1>3. Dated(z.ver[p], Marker(z.ver, p)) /\ Honest(p, z.ver[p], Marker(z.ver, p))
    BY <1>0, <1>1, <1>2, MarkerDated, MarkerHonest
<1>4. Merged(p) \in 1..Len(birth)
    BY <1>1, <1>2, <1>3 DEF Dated
<1>5. ASSUME NEW t \in Tombs(p) PROVE birth[Merged(p)] > t
  <2>1. t \in Nat /\ t <= Tomb(p) /\ Tomb(p) # 0 /\ Tomb(p) \in Tombs(p)
    BY <1>0, TombsBound
  <2>2. Tomb(p) \in Nat /\ Recency(p) \in Nat
    BY <1>0, TombGreatest, RecencyGreatest, Bounds
  <2>3. Recency(p) > Tomb(p)
    BY <1>1, <2>1, <2>2 DEF Deleted
  <2>4. FreshStored(p, Tomb(p), Checkout)
    BY <1>0, <2>1, <2>3 DEF WrittenAnew
  <2>5. PICK y \in Pointers : y.ver[p] # 0 /\ birth[y.ver[p]] > Tomb(p)
    <3>1. CASE \E d \in Checkout : Fresh(head[d].ver[p], Tomb(p))
      <4>1. PICK d \in Checkout : Fresh(head[d].ver[p], Tomb(p))
        BY <3>1
      <4>2. [ver |-> head[d].ver, at |-> head[d].at] \in Pointers
        BY PointersHave
      <4> QED
        BY <4>1, <4>2 DEF Fresh
    <3>2. CASE \E x \in kept : Fresh(x.ver[p], Tomb(p))
      <4>1. PICK x \in kept : Fresh(x.ver[p], Tomb(p))
        BY <3>2
      <4>2. [ver |-> x.ver, at |-> x.at] \in Pointers
        BY PointersHave
      <4> QED
        BY <4>1, <4>2 DEF Fresh
    <3> QED
      BY <2>4, <3>1, <3>2 DEF FreshStored
  <2>6. Dated(y.ver[p], Marker(y.ver, p)) /\ Marker(y.ver, p) <= WinMarker(p)
    BY <1>0, <2>5, MarkerDated, WinMarkerGreatest
  <2>7. y.ver[p] \in 1..Len(birth) /\ birth[y.ver[p]] <= Marker(y.ver, p)
    BY <2>5, <2>6 DEF Dated
  <2>8. /\ birth[y.ver[p]] \in Nat /\ Marker(y.ver, p) \in Nat /\ WinMarker(p) \in Nat
        /\ birth[Merged(p)] \in Nat
    <3>1. Marker(y.ver, p) \in Time /\ WinMarker(p) \in Time
      BY <1>0, <2>5, MarkerType, WinMarkerGreatest
    <3>2. birth[y.ver[p]] \in Nat /\ birth[Merged(p)] \in Nat
      BY <1>4, <2>7, BirthNat
    <3> QED
      BY <3>1, <3>2, Bounds
  <2>9. WinMarker(p) > Tomb(p)
    BY <2>2, <2>5, <2>6, <2>7, <2>8
  <2>10. FreshOrNone(Winner(p), Tomb(p))
    BY <1>2, <1>3, <2>1, <2>9 DEF Honest
  <2> QED
    BY <1>1, <2>1, <2>2, <2>8, <2>10 DEF FreshOrNone
<1> QED
    BY <1>4, <1>5

LEMMA FreshResurrection ==
    ASSUME TypeInv, DatedInv, FreshInv
    PROVE  NoResurrection
<1> SUFFICES ASSUME NEW p \in Page, Resurrected(p), Plain(p) PROVE FALSE
    BY DEF NoResurrection, Plain
<1>1. Tomb(p) # 0 /\ ~Deleted(p) /\ Winner(p) # 0 /\ birth[Winner(p)] <= Tomb(p)
    BY DEF Resurrected
<1>2. Merged(p) = Winner(p)
    BY <1>1 DEF Merged
<1>3. Tomb(p) \in Tombs(p) /\ Tomb(p) \in Nat
    BY <1>1, TypeFacts, TombInTombs, TombGreatest, Bounds
<1>4. Merged(p) \in 1..Len(birth) /\ birth[Merged(p)] > Tomb(p)
    BY <1>1, <1>2, <1>3, MergedFresh
<1>5. birth[Merged(p)] \in Nat
    BY <1>4, TypeFacts, Bounds
<1> QED
    BY <1>1, <1>2, <1>3, <1>4, <1>5

\* A step that leaves the store alone and forgets no version.
Grows ==
    /\ UNCHANGED store /\ clock' \in Nat /\ clock <= clock'
    /\ Len(birth') \in Nat /\ Len(birth) <= Len(birth')
    /\ \A v \in 1..Len(birth) : birth'[v] = birth[v]
    /\ \A v \in 1..Len(birth') : birth'[v] <= clock'
    /\ raced \subseteq raced' /\ late \subseteq late' /\ behind \subseteq behind'
    /\ stranded \subseteq stranded' /\ unread \subseteq unread'

LEMMA GrowsStore ==
    ASSUME TypeInv, DatedInv, Grows, NEW p \in Page
    PROVE  /\ head' = head /\ latest' = latest /\ kept' = kept /\ sidecar' = sidecar
           /\ clock \in Nat /\ Len(birth) \in Nat
           /\ Tombs(p)' = Tombs(p) /\ Tomb(p)' = Tomb(p) /\ Recency(p)' = Recency(p)
           /\ Plain(p)' => Plain(p)
           /\ \A v \in 1..Len(birth) : birth'[v] = birth[v] /\ v \in 1..Len(birth')
<1>1. head' = head /\ latest' = latest /\ kept' = kept /\ sidecar' = sidecar
    BY DEF Grows, store
<1>2. clock \in Nat /\ Len(birth) \in Nat
    BY TypeFacts, Bounds
<1>3. Tombs(p)' = Tombs(p) /\ Tomb(p)' = Tomb(p) /\ Recency(p)' = Recency(p)
    BY <1>1 DEF Tombs, Tomb, Recency, Pointers
<1>4. Plain(p)' => Plain(p)
    BY DEF Grows, Plain
<1>5. \A v \in 1..Len(birth) : birth'[v] = birth[v] /\ v \in 1..Len(birth')
    BY <1>2 DEF Grows
<1> QED
    BY <1>1, <1>2, <1>3, <1>4, <1>5

LEMMA DatedGrows ==
    ASSUME TypeInv, Grows, NEW v, NEW m \in Nat, Dated(v, m)
    PROVE  v # 0 => v \in 1..Len(birth') /\ birth'[v] <= m /\ m <= clock'
<1>1. clock \in Nat /\ Len(birth) \in Nat
    BY TypeFacts, Bounds
<1> QED
    BY <1>1 DEF Grows, Dated

LEMMA StoreGrows ==
    ASSUME TypeInv, DatedInv, Grows
    PROVE  DatedStore'
<1>0. /\ head' = head /\ latest' = latest /\ kept' = kept /\ sidecar' = sidecar
      /\ clock \in Nat /\ Len(birth) \in Nat
    BY TypeFacts, Bounds DEF Grows, store
<1>1. \A c \in Checkout : head[c].at \in Nat /\ \A p \in Page : head[c].mark[p] \in Nat
    BY TypeFacts, Bounds DEF StoreOK, Heads, Marks
<1>2. \A x \in kept \cup {latest} : x.at \in Nat
    BY TypeFacts, Bounds DEF StoreOK
<1>3. \A x \in DOMAIN sidecar : \A p \in Page : sidecar[x][p] \in Nat
    BY TypeFacts, Bounds DEF StoreOK, Marks
<1>4. DatedStore
    BY DEF DatedInv
<1>5. \A v \in 1..Len(birth') : birth'[v] <= clock'
    BY DEF Grows
<1>6. \A c \in Checkout : head'[c].at <= clock'
    BY <1>0, <1>1, <1>4 DEF DatedStore, Grows
<1>7. \A x \in kept' \cup {latest'} : x.at <= clock'
    BY <1>0, <1>2, <1>4 DEF DatedStore, Grows
<1>8. ASSUME NEW c \in Checkout, NEW p \in Page
      PROVE  DatedIfMarked(head[c].ver[p], head[c].mark[p])'
  <2>1. DatedIfMarked(head[c].ver[p], head[c].mark[p])
    BY <1>4 DEF DatedStore
  <2>2. head[c].ver[p] # 0 => head[c].ver[p] \in 1..Len(birth')
    BY <1>0, <2>1 DEF DatedIfMarked, Grows
  <2> QED
    BY <1>0, <1>1, <2>1, <2>2, DatedGrows DEF DatedIfMarked, Dated
<1>9. ASSUME NEW x \in DOMAIN sidecar, NEW p \in Page PROVE Dated(x[p], sidecar[x][p])'
  <2>1. Dated(x[p], sidecar[x][p]) /\ sidecar[x][p] \in Nat
    BY <1>3, <1>4 DEF DatedStore
  <2> QED
    BY <1>0, <2>1, DatedGrows DEF Dated
<1> QED
    BY <1>0, <1>5, <1>6, <1>7, <1>8, <1>9 DEF DatedStore

\* What is said of a publication or a refresh that does not move stays.
LEMMA HeldStable ==
    ASSUME TypeInv, DatedInv, FreshInv, Grows, NEW d \in Checkout, NEW p \in Page,
           pc'[d] = pc[d], held'[d] = held[d], queue'[d] = queue[d]
    PROVE  /\ ReadWritten(d, p)'
           /\ Plain(p) => ViewFresh(d, p)' /\ HeldAnew(d, p)'
<1>1. /\ head' = head /\ kept' = kept /\ Tombs(p)' = Tombs(p)
      /\ \A v \in 1..Len(birth) : birth'[v] = birth[v] /\ v \in 1..Len(birth')
      /\ Len(birth) \in Nat /\ Len(birth) <= Len(birth') /\ Len(birth') \in Nat
    BY GrowsStore DEF Grows
<1>2. ReadWritten(d, p)'
    BY <1>1 DEF DatedInv, DatedAt, ReadWritten, Preparing
<1>3. ASSUME Plain(p) PROVE ViewFresh(d, p)' /\ HeldAnew(d, p)'
  <2>1. ViewFresh(d, p) /\ HeldAnew(d, p)
    BY <1>3 DEF FreshInv, FreshAt
  <2>2. ViewFresh(d, p)'
    BY <1>1, <2>1, Born DEF ViewFresh, FreshOrNone
  <2>3. Taken(d)' = Taken(d)
    BY DEF Taken
  <2>4. \A e \in Checkout : head[e].ver[p] # 0 => birth'[head[e].ver[p]] = birth[head[e].ver[p]]
    BY <1>1, Born
  <2>5. \A x \in kept : x.ver[p] # 0 => birth'[x.ver[p]] = birth[x.ver[p]]
    BY <1>1, KeptBorn
  <2>6. HeldAnew(d, p)'
    <3> SUFFICES ASSUME pc[d] \in {"checked", "selected", "headed"}, Taken(d)[p] # 0,
                        NEW t \in Tombs(p)
                 PROVE  \/ birth'[Taken(d)[p]] > t
                        \/ \E e \in Checkout \ {d} : head[e].ver[p] # 0 /\ birth'[head[e].ver[p]] > t
                        \/ \E x \in kept : x.ver[p] # 0 /\ birth'[x.ver[p]] > t
      BY <1>1, <2>3 DEF HeldAnew, Fresh, FreshStored
    <3>1. Fresh(Taken(d)[p], t) \/ FreshStored(p, t, Checkout \ {d})
      BY <2>1 DEF HeldAnew
    <3>2. birth'[Taken(d)[p]] = birth[Taken(d)[p]]
      BY <1>1, HeldBorn
    <3> QED
      BY <2>4, <2>5, <3>1, <3>2 DEF Fresh, FreshStored
  <2> QED
    BY <2>2, <2>6
<1> QED
    BY <1>2, <1>3

\* It keeps what is said of every checkout that does not move.
LEMMA FreshFrame ==
    ASSUME TypeInv, DatedInv, FreshInv, NEW C \in SUBSET Checkout, Grows,
           \A d \in Checkout \ C : /\ pc'[d] = pc[d] /\ held'[d] = held[d]
                                   /\ mem'[d] = mem[d] /\ queue'[d] = queue[d],
           \A d \in C : DatedAt(d)' /\ \A p \in Page : Plain(p)' => FreshAt(d, p)'
    PROVE  DatedInv' /\ FreshInv'
<1>0. /\ head' = head /\ latest' = latest /\ kept' = kept /\ sidecar' = sidecar
      /\ clock \in Nat /\ Len(birth) \in Nat
      /\ \A v \in 1..Len(birth) : birth'[v] = birth[v] /\ v \in 1..Len(birth')
    BY TypeFacts, Bounds DEF Grows, store
<1>3. ASSUME NEW d \in Checkout \ C PROVE DatedAt(d)'
  <2>0. /\ pc'[d] = pc[d] /\ held'[d] = held[d] /\ mem'[d] = mem[d] /\ queue'[d] = queue[d]
    OBVIOUS
  <2>1. DatedAt(d)
    BY DEF DatedInv
  <2>2. \A p \in Page : mem[d][p].mtime \in Nat
    BY TypeFacts, Bounds DEF Files
  <2>3. \A i \in DOMAIN queue[d] : \A p \in Page : queue[d][i].mark[p] \in Nat
    <3>1. queue[d] \in Seq(Items)
      BY TypeFacts DEF LocalOK
    <3>2. \A i \in DOMAIN queue[d] : queue[d][i] \in Items
      BY <3>1
    <3> QED
      BY <3>2, Bounds DEF Items, Marks
  <2>4. \A p \in Page : ReadWritten(d, p)'
    BY <2>0, HeldStable
  <2>5. ASSUME NEW p \in Page PROVE SelectedDated(d, p)'
    BY <1>0, <2>0, <2>1 DEF DatedAt, SelectedDated
  <2>6. \A p \in Page : Dated(mem[d][p].ver, mem[d][p].mtime)'
    BY <2>0, <2>1, <2>2, DatedGrows DEF DatedAt, Dated
  <2>7. ASSUME NEW i \in DOMAIN queue[d], NEW p \in Page
        PROVE  Dated(queue[d][i].ver[p], queue[d][i].mark[p])'
    <3>1. Dated(queue[d][i].ver[p], queue[d][i].mark[p]) /\ queue[d][i].mark[p] \in Nat
      BY <2>1, <2>3 DEF DatedAt
    <3> QED
      BY <2>0, <3>1, DatedGrows DEF Dated
  <2> QED
    BY <2>0, <2>4, <2>5, <2>6, <2>7 DEF DatedAt
<1>4. DatedInv'
    BY <1>3, StoreGrows DEF DatedInv
<1>5. ASSUME NEW p \in Page, Plain(p)'
      PROVE  (HonestStore(p) /\ WrittenAnew(p) /\ \A c \in Checkout : FreshAt(c, p))'
  <2>1. Plain(p) /\ Tombs(p)' = Tombs(p) /\ Tomb(p)' = Tomb(p) /\ Recency(p)' = Recency(p)
    BY <1>5, GrowsStore
  <2>2. HonestStore(p) /\ WrittenAnew(p) /\ \A c \in Checkout : FreshAt(c, p)
    BY <2>1 DEF FreshInv
  <2>4. \A c \in Checkout : head[c].ver[p] # 0 => birth'[head[c].ver[p]] = birth[head[c].ver[p]]
    BY <1>0, Born
  <2>5. \A x \in kept : x.ver[p] # 0 => birth'[x.ver[p]] = birth[x.ver[p]]
    BY <1>0, KeptBorn
  <2>6. \A x \in DOMAIN sidecar : x[p] # 0 => birth'[x[p]] = birth[x[p]]
    BY <1>0 DEF DatedInv, DatedStore, Dated
  <2>7. HonestStore(p)'
    BY <1>0, <2>1, <2>2, <2>4, <2>6 DEF HonestStore, Honest, FreshOrNone
  <2>9. WrittenAnew(p)'
    <3>1. Tomb(p) # 0 /\ Recency(p) > Tomb(p) => FreshStored(p, Tomb(p), Checkout)
      BY <2>2 DEF WrittenAnew
    <3> QED
      BY <1>0, <2>1, <2>4, <2>5, <3>1 DEF WrittenAnew, FreshStored, Fresh
  <2>10. ASSUME NEW d \in Checkout \ C PROVE FreshAt(d, p)'
    <3>1. /\ pc'[d] = pc[d] /\ held'[d] = held[d] /\ mem'[d] = mem[d] /\ queue'[d] = queue[d]
          /\ FreshAt(d, p) /\ Doomed(d, p)' = Doomed(d, p)
      BY <2>2 DEF Doomed
    <3>2. /\ mem[d][p].ver # 0 => birth'[mem[d][p].ver] = birth[mem[d][p].ver]
          /\ \A i \in DOMAIN queue[d] : queue[d][i].ver[p] # 0
                => birth'[queue[d][i].ver[p]] = birth[queue[d][i].ver[p]]
      BY <1>0, Born
    <3>3. HonestAt(d, p)'
      BY <2>1, <3>1, <3>2 DEF FreshAt, HonestAt, Honest, FreshOrNone
    <3>4. ViewFresh(d, p)' /\ HeldAnew(d, p)'
      BY <2>1, <3>1, HeldStable
    <3>5. NoStepBack(d, p)'
      <4> SUFFICES ASSUME NEW t \in Tombs(p)
                   PROVE  HeadStays(d, p, t)' /\ SelectionStays(d, p, t)' /\ QueueStays(d, p, t)'
        BY <2>1 DEF NoStepBack
      <4>1. \A i \in DOMAIN queue[d] : \A j \in i..Len(queue[d]) : j \in DOMAIN queue[d]
        BY TypeFacts DEF LocalOK
      <4>2. HeadStays(d, p, t) /\ SelectionStays(d, p, t) /\ QueueStays(d, p, t)
        BY <3>1 DEF FreshAt, NoStepBack
      <4>3. HeadStays(d, p, t)'
        BY <1>0, <2>4, <3>1, <3>2, <4>2 DEF HeadStays, Fresh, FreshOrNone
      <4>4. SelectionStays(d, p, t)'
        <5>1. pc[d] = "selected" /\ held[d].ver[p] # 0
                => birth'[held[d].ver[p]] = birth[held[d].ver[p]]
          BY <1>0, HeldBorn DEF Taken
        <5> QED
          BY <3>1, <3>2, <4>2, <5>1 DEF SelectionStays, Fresh, FreshOrNone
      <4>5. QueueStays(d, p, t)'
        BY <3>1, <3>2, <4>1, <4>2 DEF QueueStays, Fresh, FreshOrNone
      <4> QED
        BY <4>3, <4>4, <4>5
    <3> QED
      BY <3>3, <3>4, <3>5 DEF FreshAt
  <2> QED
    BY <1>5, <2>7, <2>9, <2>10
<1> QED
    BY <1>4, <1>5 DEF FreshInv

LEMMA BirthStable ==
    ASSUME TypeInv, DatedInv, UNCHANGED <<store, clock, birth>>,
           raced \subseteq raced', late \subseteq late', behind \subseteq behind',
           stranded \subseteq stranded', unread \subseteq unread'
    PROVE  Grows
<1>1. clock \in Nat /\ Len(birth) \in Nat
    BY TypeFacts, Bounds
<1> QED
    BY <1>1 DEF DatedInv, DatedStore, Grows

LEMMA TickFresh ==
    ASSUME TypeInv, DatedInv, FreshInv, Tick \/ UNCHANGED vars
    PROVE  DatedInv' /\ FreshInv'
<1>1. /\ UNCHANGED <<mem, queue, store, pc, held, birth, raced, late, behind, stranded, unread>>
      /\ clock' = clock + 1 \/ clock' = clock
    BY DEF Tick, vars, local, history
<1>2. clock \in Nat /\ Len(birth) \in Nat /\ \A v \in 1..Len(birth) : birth[v] \in Nat
    BY TypeFacts, Bounds, BirthNat
<1>3. \A v \in 1..Len(birth) : birth[v] <= clock
    BY DEF DatedInv, DatedStore
<1>4. Grows
    BY <1>1, <1>2, <1>3 DEF Grows
<1>5. {} \in SUBSET Checkout
    OBVIOUS
<1> QED
    BY <1>1, <1>4, <1>5, FreshFrame


\* What a step of c that leaves its queue has to see to, page by page: the page
\* is what it was, is gone, or is one younger than all its deletions, one that
\* had to be removed is gone, and what is selected was here.
MovesWell(c, p) ==
    /\ \/ mem'[c][p].ver = 0
       \/ mem'[c][p] = mem[c][p]
       \/ /\ mem'[c][p].mtime = clock /\ mem'[c][p].ver \in 1..Len(birth)
          /\ Plain(p)' /\ ~Doomed(c, p)' => \A t \in Tombs(p) : birth[mem'[c][p].ver] > t
    /\ Plain(p)' /\ Doomed(c, p) /\ ~Doomed(c, p)' => mem'[c][p].ver = 0
    /\ Doomed(c, p)' => queue[c] = <<>>
    /\ pc'[c] = "selected" /\ ~held'[c].replay /\ held'[c].ver[p] # 0 =>
          \/ pc[c] = "selected" /\ held'[c] = held[c]
          \/ mem'[c] = mem[c] /\ held'[c].ver[p] = mem[c][p].ver
    /\ ReadWritten(c, p)'
    /\ Plain(p)' => ViewFresh(c, p)' /\ HeldAnew(c, p)'

LEMMA MoveFresh ==
    ASSUME TypeInv, DatedInv, FreshInv, NEW c \in Checkout,
           UNCHANGED <<store, clock, birth, queue>>,
           raced \subseteq raced', late \subseteq late', behind \subseteq behind',
           stranded \subseteq stranded', unread \subseteq unread',
           \A d \in Checkout \ {c} : pc'[d] = pc[d] /\ held'[d] = held[d] /\ mem'[d] = mem[d],
           \A p \in Page : MovesWell(c, p)
    PROVE  DatedInv' /\ FreshInv'
<1>0. clock' = clock /\ birth' = birth /\ queue' = queue /\ head' = head
    BY DEF store
<1>1. DatedAt(c)'
  <2>1. DatedAt(c) /\ clock \in Nat /\ \A v \in 1..Len(birth) : birth[v] <= clock
    BY TypeFacts, Bounds DEF DatedInv, DatedStore
  <2>2. ASSUME NEW p \in Page PROVE Dated(mem[c][p].ver, mem[c][p].mtime)'
    BY <1>0, <2>1 DEF DatedAt, Dated, MovesWell
  <2>3. \A i \in DOMAIN queue'[c] : \A p \in Page : Dated(queue[c][i].ver[p], queue[c][i].mark[p])'
    BY <1>0, <2>1 DEF DatedAt, Dated
  <2>4. ASSUME NEW p \in Page PROVE SelectedDated(c, p)'
    <3> SUFFICES ASSUME pc'[c] = "selected", ~held'[c].replay, held'[c].ver[p] # 0
                 PROVE  /\ held'[c].ver[p] \in 1..Len(birth)
                        /\ mem'[c][p].ver # 0 => birth[held'[c].ver[p]] <= mem'[c][p].mtime
      BY <1>0 DEF SelectedDated
    <3>1. CASE mem'[c] = mem[c] /\ held'[c].ver[p] = mem[c][p].ver
      BY <2>1, <3>1 DEF DatedAt, Dated
    <3>2. CASE pc[c] = "selected" /\ held'[c] = held[c]
      <4>1. /\ held[c].ver[p] \in 1..Len(birth)
            /\ mem[c][p].ver # 0 => birth[held[c].ver[p]] <= mem[c][p].mtime
        BY <2>1, <3>2 DEF DatedAt, SelectedDated
      <4> QED
        BY <2>1, <3>2, <4>1 DEF MovesWell
    <3> QED
      BY <3>1, <3>2 DEF MovesWell
  <2> QED
    BY <2>2, <2>3, <2>4 DEF DatedAt, MovesWell
<1>2. ASSUME NEW p \in Page, Plain(p)' PROVE FreshAt(c, p)'
  <2>1. FreshAt(c, p)
    BY <1>2 DEF FreshInv, Plain
  <2>2. Tombs(p)' = Tombs(p)
    BY <1>0 DEF Tombs
  <2>3. ASSUME ~Doomed(c, p)'
        PROVE  \/ mem'[c][p].ver = 0
               \/ mem'[c][p] = mem[c][p] /\ ~Doomed(c, p)
               \/ mem'[c][p].ver # 0 /\ \A t \in Tombs(p) : birth[mem'[c][p].ver] > t
    BY <1>2, <2>3 DEF MovesWell
  <2>4. HonestAt(c, p)'
    BY <1>0, <2>1, <2>2, <2>3 DEF FreshAt, HonestAt, Honest, FreshOrNone
  <2>5. ViewFresh(c, p)' /\ HeldAnew(c, p)'
    BY <1>2 DEF MovesWell
  <2>6. ASSUME NEW t \in Tombs(p), ~Doomed(c, p)',
               ~Doomed(c, p) => FreshOrNone(mem[c][p].ver, t)
        PROVE  FreshOrNone(mem[c][p].ver, t)'
    BY <1>0, <2>3, <2>6 DEF FreshOrNone
  <2>7. ASSUME NEW t \in Tombs(p)
        PROVE  HeadStays(c, p, t)' /\ SelectionStays(c, p, t)' /\ QueueStays(c, p, t)'
    <3>1. HeadStays(c, p, t) /\ SelectionStays(c, p, t) /\ QueueStays(c, p, t)
      BY <2>1 DEF FreshAt, NoStepBack
    <3>2. HeadStays(c, p, t)'
      BY <1>0, <2>6, <3>1 DEF HeadStays, Fresh, FreshOrNone
    <3>3. SelectionStays(c, p, t)'
      <4> SUFFICES ASSUME pc'[c] = "selected", ~held'[c].replay, Fresh(held[c].ver[p], t)'
                   PROVE  FreshOrNone(mem[c][p].ver, t)'
        BY DEF SelectionStays
      <4>1. ~Doomed(c, p)'
        BY DEF Doomed
      <4>2. CASE mem'[c] = mem[c] /\ held'[c].ver[p] = mem[c][p].ver
        BY <4>2 DEF Fresh, FreshOrNone
      <4>3. CASE pc[c] = "selected" /\ held'[c] = held[c]
        <5>1. Fresh(held[c].ver[p], t)
          BY <1>0, <4>3 DEF Fresh
        <5>2. FreshOrNone(mem[c][p].ver, t)
          BY <3>1, <4>3, <5>1 DEF SelectionStays
        <5> QED
          BY <2>6, <4>1, <5>2
      <4>4. held'[c].ver[p] # 0
        BY DEF Fresh
      <4> QED
        BY <4>2, <4>3, <4>4 DEF MovesWell
    <3>4. QueueStays(c, p, t)'
      <4> SUFFICES ASSUME NEW i \in DOMAIN queue[c], Fresh(queue[c][i].ver[p], t)
                   PROVE  /\ FreshOrNone(mem[c][p].ver, t)'
                          /\ \A j \in i..Len(queue[c]) : FreshOrNone(queue[c][j].ver[p], t)
        BY <1>0 DEF QueueStays, Fresh, FreshOrNone
      <4>1. ~Doomed(c, p)'
        BY DEF MovesWell
      <4> QED
        BY <2>6, <3>1, <4>1 DEF QueueStays
    <3> QED
      BY <3>2, <3>3, <3>4
  <2> QED
    BY <2>2, <2>4, <2>5, <2>7 DEF FreshAt, NoStepBack
<1>3. {c} \in SUBSET Checkout
    OBVIOUS
<1>4. \A d \in Checkout \ {c} : /\ pc'[d] = pc[d] /\ held'[d] = held[d]
                                /\ mem'[d] = mem[d] /\ queue'[d] = queue[d]
    BY <1>0
<1>5. \A d \in {c} : DatedAt(d)' /\ \A p \in Page : Plain(p)' => FreshAt(d, p)'
    BY <1>1, <1>2
<1>6. Grows
    BY BirthStable
<1> QED
    BY <1>3, <1>4, <1>5, <1>6, FreshFrame

\* A command that is about to write nothing, or has ended.
LEMMA QuietFresh ==
    ASSUME NEW c \in Checkout, NEW p \in Page,
           pc'[c] \in {"idle", "applied", "prepared", "published"}
    PROVE  ViewFresh(c, p)' /\ HeldAnew(c, p)' /\ ReadWritten(c, p)' /\ ~Doomed(c, p)'
  BY DEF ViewFresh, HeldAnew, ReadWritten, Doomed, Preparing

LEMMA RemoveFresh ==
    ASSUME TypeInv, DatedInv, FreshInv, NEW c \in Checkout, NEW p \in Page, Remove(c, p)
    PROVE  DatedInv' /\ FreshInv'
<1>1. /\ mem' = [mem EXCEPT ![c][p] = NoFile]
      /\ UNCHANGED <<clock, queue, store, pc, held, birth, raced, late, behind, stranded, unread>>
    BY DEF Remove
<1>2. /\ \A d \in Checkout \ {c} : mem'[d] = mem[d]
      /\ \A q \in Page : mem'[c][q] = mem[c][q] \/ mem'[c][q] = NoFile
    BY <1>1, TypeFacts DEF Files
<1>3. Grows
    BY <1>1, BirthStable
<1>4. ASSUME NEW q \in Page PROVE MovesWell(c, q)
  <2>1. mem'[c][q].ver = 0 \/ mem'[c][q] = mem[c][q]
    BY <1>2 DEF NoFile, File
  <2>2. Doomed(c, q)' = Doomed(c, q)
    BY <1>1 DEF Doomed
  <2>3. Doomed(c, q) => queue[c] = <<>>
    BY TypeFacts DEF Doomed, Preparing, CommandOK
  <2>4. Plain(q)' => Plain(q)
    BY <1>1 DEF Plain
  <2>5. ReadWritten(c, q)' /\ (Plain(q)' => ViewFresh(c, q)' /\ HeldAnew(c, q)')
    BY <1>1, <1>3, <2>4, HeldStable
  <2>6. pc'[c] = pc[c] /\ held'[c] = held[c]
    BY <1>1
  <2> QED
    BY <2>1, <2>2, <2>3, <2>5, <2>6 DEF MovesWell
<1> QED
    BY <1>1, <1>2, <1>4, MoveFresh

LEMMA RefreshFetchFresh ==
    ASSUME TypeInv, DatedInv, FreshInv, NEW c \in Checkout, RefreshFetch(c)
    PROVE  DatedInv' /\ FreshInv'
<1>1. pc[c] = "idle"
      /\ UNCHANGED <<store, clock, birth, mem, queue, raced, late, behind, stranded, unread>>
    BY DEF RefreshFetch, local, history
<1>2. /\ pc'[c] = "fetched"
      /\ held'[c] = [pages |-> [p \in Page |-> Merged(p)],
                     tomb |-> [p \in Page |-> IF Deleted(p) THEN Tomb(p) ELSE 0]]
      /\ \A d \in Checkout \ {c} : pc'[d] = pc[d] /\ held'[d] = held[d]
    BY TypeFacts DEF RefreshFetch, Goes, HeldOK
<1>3. \A p \in Page : held'[c].pages[p] = Merged(p)
    BY <1>2
<1>4. \A p \in Page : Merged(p) \in 0..Len(birth)
  <2> SUFFICES ASSUME NEW p \in Page, Merged(p) # 0 PROVE Merged(p) \in 0..Len(birth)
    BY TypeFacts
  <2>1. Merged(p) = Winner(p) /\ Winner(p) # 0
    BY DEF Merged
  <2>2. PICK z \in Pointers : z.ver[p] = Winner(p)
    BY <2>1, WinnerOffered, TypeFacts
  <2>3. Dated(z.ver[p], Marker(z.ver, p))
    BY <2>1, <2>2, MarkerDated
  <2> QED
    BY <2>1, <2>2, <2>3, TypeFacts DEF Dated
<1>5. ASSUME NEW p \in Page PROVE MovesWell(c, p)
  <2>1. Tombs(p)' = Tombs(p) /\ (Plain(p)' => Plain(p))
    BY <1>1 DEF Tombs, store, Plain
  <2>2. Plain(p) /\ Merged(p) # 0 => \A t \in Tombs(p) : birth[Merged(p)] > t
    BY MergedFresh
  <2>3. ReadWritten(c, p)'
    BY <1>1, <1>2, <1>3, <1>4 DEF ReadWritten, Preparing
  <2>4. Plain(p)' => ViewFresh(c, p)' /\ HeldAnew(c, p)'
    BY <1>1, <1>2, <1>3, <2>1, <2>2 DEF ViewFresh, HeldAnew, FreshOrNone
  <2>5. mem'[c][p] = mem[c][p] /\ ~Doomed(c, p) /\ ~Doomed(c, p)'
    BY <1>1, <1>2 DEF Doomed
  <2> QED
    BY <1>2, <2>3, <2>4, <2>5 DEF MovesWell
<1>6. \A d \in Checkout \ {c} : pc'[d] = pc[d] /\ held'[d] = held[d] /\ mem'[d] = mem[d]
    BY <1>1, <1>2
<1> QED
    BY <1>1, <1>5, <1>6, MoveFresh

LEMMA RefreshApplyFresh ==
    ASSUME TypeInv, DatedInv, FreshInv, NEW c \in Checkout, NEW force \in BOOLEAN,
           RefreshApply(c, force)
    PROVE  DatedInv' /\ FreshInv'
<1> DEFINE files == [p \in Page |-> Applied(mem[c][p], held[c].pages[p], held[c].tomb[p], force)]
<1>1. /\ pc[c] = "fetched" /\ mem' = [mem EXCEPT ![c] = files]
      /\ pc' = [pc EXCEPT ![c] = "applied"]
      /\ \E what : held' = [held EXCEPT ![c] = what]
      /\ UNCHANGED <<clock, queue, store, birth, raced, late, behind, stranded, unread>>
    BY DEF RefreshApply, Receives, Goes
<1>2. mem'[c] = files /\ \A d \in Checkout \ {c} : mem'[d] = mem[d]
    BY <1>1, TypeFacts
<1>3. pc'[c] = "applied" /\ \A d \in Checkout \ {c} : pc'[d] = pc[d] /\ held'[d] = held[d]
    BY <1>1, TypeFacts DEF HeldOK
<1>4. ASSUME NEW p \in Page
      PROVE  \/ mem'[c][p].ver = 0
             \/ mem'[c][p] = mem[c][p]
             \/ /\ mem'[c][p].mtime = clock /\ mem'[c][p].ver \in 1..Len(birth)
                /\ Plain(p)' => \A t \in Tombs(p) : birth[mem'[c][p].ver] > t
  <2>1. \/ mem'[c][p] = NoFile \/ mem'[c][p] = mem[c][p]
        \/ mem'[c][p] = File(held[c].pages[p], clock) /\ held[c].pages[p] # 0
    BY <1>2 DEF Applied
  <2>2. CASE mem'[c][p] = File(held[c].pages[p], clock) /\ held[c].pages[p] # 0
    <3>1. mem'[c][p].ver = held[c].pages[p] /\ mem'[c][p].mtime = clock
      BY <2>2 DEF File
    <3>2. held[c].pages[p] \in 1..Len(birth)
      BY <1>1, <2>2, Born
    <3>3. ASSUME Plain(p)' PROVE \A t \in Tombs(p) : birth[held[c].pages[p]] > t
      <4>1. ViewFresh(c, p)
        BY <1>1, <3>3 DEF Plain, FreshInv, FreshAt
      <4> QED
        BY <1>1, <2>2, <4>1 DEF ViewFresh, FreshOrNone
    <3> QED
      BY <3>1, <3>2, <3>3
  <2> QED
    BY <2>1, <2>2 DEF NoFile, File
<1> HIDE DEF files
<1>5. ASSUME NEW p \in Page PROVE MovesWell(c, p)
  <2>1. ~Doomed(c, p)
    BY <1>1 DEF Doomed
  <2>2. ViewFresh(c, p)' /\ HeldAnew(c, p)' /\ ReadWritten(c, p)' /\ ~Doomed(c, p)'
    BY <1>3, QuietFresh
  <2> QED
    BY <1>3, <1>4, <2>1, <2>2 DEF MovesWell
<1> QED
    BY <1>1, <1>2, <1>3, <1>5, MoveFresh

\* A command that ends or is prepared, while its files and its queue stay.
LEMMA QuietMove ==
    ASSUME TypeInv, DatedInv, FreshInv, NEW c \in Checkout,
           UNCHANGED <<store, clock, birth, mem, queue>>,
           raced \subseteq raced', late \subseteq late', behind \subseteq behind',
           stranded \subseteq stranded', unread \subseteq unread',
           \A d \in Checkout \ {c} : pc'[d] = pc[d] /\ held'[d] = held[d],
           pc'[c] \in {"idle", "applied", "prepared", "published"},
           \A p \in Page : Plain(p)' /\ Doomed(c, p) => mem[c][p].ver = 0
    PROVE  DatedInv' /\ FreshInv'
<1>1. ASSUME NEW p \in Page PROVE MovesWell(c, p)
  <2>1. ViewFresh(c, p)' /\ HeldAnew(c, p)' /\ ReadWritten(c, p)' /\ ~Doomed(c, p)'
    BY QuietFresh
  <2> QED
    BY <2>1 DEF MovesWell
<1> QED
    BY <1>1, MoveFresh

LEMMA EndsFresh ==
    ASSUME TypeInv, DatedInv, FreshInv, NEW c \in Checkout,
           RefreshFinish(c) \/ PublishTorn(c) \/ PublishFinish(c)
    PROVE  DatedInv' /\ FreshInv'
<1>1. /\ Ends(c) /\ pc[c] # "compared"
      /\ UNCHANGED <<store, clock, birth, mem, queue, raced, late, behind, stranded, unread>>
    BY DEF RefreshFinish, PublishTorn, PublishFinish, local, history
<1>2. pc'[c] = "idle" /\ \A d \in Checkout \ {c} : pc'[d] = pc[d] /\ held'[d] = held[d]
    BY <1>1, TypeFacts, EndsTyped
<1>3. \A p \in Page : ~Doomed(c, p)
    BY <1>1 DEF Doomed
<1> QED
    BY <1>1, <1>2, <1>3, QuietMove

\* A page a command leaves that had to remove it is not plain.
LEMMA StrandedDoomed ==
    ASSUME TypeInv, NEW c \in Checkout, stranded' = stranded \cup Stranded(c)
    PROVE  \A p \in Page : Plain(p)' /\ Doomed(c, p) => mem[c][p].ver = 0
  BY DEF Plain, Doomed, Stranded, Local

LEMMA CrashFresh ==
    ASSUME TypeInv, DatedInv, FreshInv, NEW c \in Checkout, Crash(c)
    PROVE  DatedInv' /\ FreshInv'
<1>1. /\ Ends(c) /\ stranded' = stranded \cup Stranded(c)
      /\ UNCHANGED <<store, clock, birth, mem, queue, raced, late, behind, unread>>
    BY DEF Crash, local
<1>2. pc'[c] = "idle" /\ \A d \in Checkout \ {c} : pc'[d] = pc[d] /\ held'[d] = held[d]
    BY <1>1, TypeFacts, EndsTyped
<1>3. \A p \in Page : Plain(p)' /\ Doomed(c, p) => mem[c][p].ver = 0
    BY <1>1, StrandedDoomed
<1> QED
    BY <1>1, <1>2, <1>3, QuietMove

\* What a publication that reconciles goes on with is not published yet.
LEMMA PreparingFresh ==
    ASSUME TypeInv, DatedInv, NEW c \in Checkout, NEW p \in Page, Preparing(c),
           pc'[c] = "compared", held'[c].seen = held[c].seen, UNCHANGED <<birth, queue>>
    PROVE  /\ ViewFresh(c, p)' /\ HeldAnew(c, p)' /\ ReadWritten(c, p)'
           /\ queue[c] = <<>> /\ pc'[c] # "selected"
<1>1. ReadWritten(c, p)
    BY DEF DatedInv, DatedAt
<1>2. queue[c] = <<>>
    BY TypeFacts DEF CommandOK
<1> QED
    BY <1>1, <1>2 DEF ReadWritten, Preparing, ViewFresh, HeldAnew

LEMMA PublishFetchFresh ==
    ASSUME TypeInv, DatedInv, FreshInv, NEW c \in Checkout, PublishFetch(c)
    PROVE  DatedInv' /\ FreshInv'
<1>1. pc[c] = "idle"
      /\ UNCHANGED <<store, clock, birth, mem, queue, raced, late, behind, stranded, unread>>
    BY DEF PublishFetch, local, history
<1>2. /\ pc'[c] = "latest" /\ held'[c] = Comparison(latest.ver)
      /\ \A d \in Checkout \ {c} : pc'[d] = pc[d] /\ held'[d] = held[d]
    BY TypeFacts DEF PublishFetch, Goes, HeldOK
<1>3. held'[c].seen = latest.ver
    BY <1>2 DEF Comparison
<1>4. ASSUME NEW p \in Page PROVE MovesWell(c, p)
  <2>1. latest.ver[p] \in 0..Len(birth)
    <3>1. latest.ver[p] # 0 => latest.ver[p] \in 1..Len(birth)
      BY KeptBorn
    <3> QED
      BY <3>1, TypeFacts
  <2>2. ViewFresh(c, p)' /\ HeldAnew(c, p)' /\ ReadWritten(c, p)'
    BY <1>1, <1>2, <1>3, <2>1 DEF ViewFresh, HeldAnew, ReadWritten, Preparing
  <2>3. mem'[c][p] = mem[c][p] /\ ~Doomed(c, p) /\ ~Doomed(c, p)'
    BY <1>1, <1>2 DEF Doomed
  <2> QED
    BY <1>2, <2>2, <2>3 DEF MovesWell
<1> QED
    BY <1>1, <1>2, <1>4, MoveFresh

LEMMA PublishCompareFresh ==
    ASSUME TypeInv, DatedInv, FreshInv, NEW c \in Checkout, PublishCompare(c)
    PROVE  DatedInv' /\ FreshInv'
<1>1. /\ pc[c] = "latest" /\ Preparing(c) /\ pc'[c] = "compared"
      /\ held'[c].seen = held[c].seen
      /\ \A d \in Checkout \ {c} : pc'[d] = pc[d] /\ held'[d] = held[d]
      /\ UNCHANGED <<store, clock, birth, mem, queue, raced, late, behind, stranded, unread>>
    BY PublishCompareParts DEF local, history
<1>2. ASSUME NEW p \in Page PROVE MovesWell(c, p)
  <2>1. /\ ViewFresh(c, p)' /\ HeldAnew(c, p)' /\ ReadWritten(c, p)'
        /\ queue[c] = <<>> /\ pc'[c] # "selected"
    BY <1>1, PreparingFresh
  <2>2. mem'[c][p] = mem[c][p] /\ ~Doomed(c, p)
    BY <1>1 DEF Doomed
  <2> QED
    BY <2>1, <2>2 DEF MovesWell
<1> QED
    BY <1>1, <1>2, MoveFresh

\* A page restored from latest.json to stay is younger than its deletions,
\* unless latest.json is behind the heads.
LEMMA PublishRestoreFresh ==
    ASSUME TypeInv, DatedInv, FreshInv, NEW c \in Checkout, NEW p \in Page, PublishRestore(c, p)
    PROVE  DatedInv' /\ FreshInv'
<1>1. /\ pc[c] = "compared" /\ Preparing(c) /\ pc'[c] = "compared"
      /\ held[c].seen[p] # 0 /\ held'[c].must = held[c].must
      /\ held'[c].seen = held[c].seen
      /\ \A d \in Checkout \ {c} : pc'[d] = pc[d] /\ held'[d] = held[d]
      /\ Receives(c, RestoredFiles(c, p)) /\ RestoredFiles(c, p) \in Files
      /\ \A q \in Page \ {p} : RestoredFiles(c, p)[q] = mem[c][q]
      /\ RestoredFiles(c, p)[p] = IF mem[c][p].ver = 0 THEN File(held[c].seen[p], clock)
                                  ELSE mem[c][p]
    BY PublishRestoreParts
<1>2. /\ behind' = IF mem[c][p].ver = 0 /\ p \notin held[c].must /\ Tomb(p) # 0
                      /\ Merged(p) # held[c].seen[p]
                   THEN behind \cup {p} ELSE behind
      /\ UNCHANGED <<clock, queue, store, birth, raced, late, stranded, unread>>
    BY DEF PublishRestore
<1>3. mem'[c] = RestoredFiles(c, p) /\ \A d \in Checkout \ {c} : mem'[d] = mem[d]
    BY <1>1, TypeFacts, ReceivesTyped
<1>4. behind \subseteq behind' /\ \A q \in Page : Plain(q)' => Plain(q)
    BY <1>2 DEF Plain
<1>5. ASSUME NEW q \in Page PROVE MovesWell(c, q)
  <2>1. /\ ViewFresh(c, q)' /\ HeldAnew(c, q)' /\ ReadWritten(c, q)'
        /\ queue[c] = <<>> /\ pc'[c] # "selected"
    BY <1>1, <1>2, PreparingFresh
  <2>2. Doomed(c, q)' = Doomed(c, q)
    BY <1>1 DEF Doomed
  <2>3. \/ mem'[c][q] = mem[c][q]
        \/ /\ mem'[c][q].mtime = clock /\ mem'[c][q].ver \in 1..Len(birth)
           /\ Plain(q)' /\ ~Doomed(c, q)' => \A t \in Tombs(q) : birth[mem'[c][q].ver] > t
    <3>1. CASE q # p \/ mem[c][p].ver # 0
      BY <1>1, <1>3, <3>1
    <3>2. CASE q = p /\ mem[c][p].ver = 0
      <4>1. mem'[c][p].ver = held[c].seen[p] /\ mem'[c][p].mtime = clock
        BY <1>1, <1>3, <3>2 DEF File
      <4>2. held[c].seen[p] \in 1..Len(birth)
        BY <1>1, Born
      <4>3. ASSUME Plain(p)', ~Doomed(c, p), NEW t \in Tombs(p)
            PROVE  birth[held[c].seen[p]] > t
        <5>1. Tomb(p) # 0
          BY TombsBound, TypeFacts
        <5>2. p \notin held[c].must /\ p \notin behind'
          BY <1>1, <4>3 DEF Doomed, Plain
        <5>3. Merged(p) = held[c].seen[p]
          BY <1>2, <3>2, <5>1, <5>2
        <5> QED
          BY <1>1, <1>4, <4>3, <5>3, MergedFresh
      <4> QED
        BY <2>2, <3>2, <4>1, <4>2, <4>3
    <3> QED
      BY <3>1, <3>2
  <2> QED
    BY <2>1, <2>2, <2>3 DEF MovesWell
<1> QED
    BY <1>1, <1>2, <1>3, <1>4, <1>5, MoveFresh

LEMMA PublishStripFresh ==
    ASSUME TypeInv, DatedInv, FreshInv, NEW c \in Checkout, NEW p \in Page, PublishStrip(c, p)
    PROVE  DatedInv' /\ FreshInv'
<1>1. /\ pc[c] = "compared" /\ Preparing(c) /\ pc'[c] = "compared"
      /\ held'[c].must = held[c].must \ {p} /\ held'[c].seen = held[c].seen
      /\ \A d \in Checkout \ {c} : pc'[d] = pc[d] /\ held'[d] = held[d]
      /\ mem'[c][p] = NoFile /\ \A q \in Page \ {p} : mem'[c][q] = mem[c][q]
      /\ \A d \in Checkout \ {c} : mem'[d] = mem[d]
      /\ UNCHANGED <<store, clock, birth, queue, raced, late, behind, stranded, unread>>
    BY PublishStripParts DEF history
<1>2. ASSUME NEW q \in Page PROVE MovesWell(c, q)
  <2>1. /\ ViewFresh(c, q)' /\ HeldAnew(c, q)' /\ ReadWritten(c, q)'
        /\ queue[c] = <<>> /\ pc'[c] # "selected"
    BY <1>1, PreparingFresh
  <2>2. CASE q = p
    BY <1>1, <2>1, <2>2 DEF MovesWell, NoFile, File
  <2>3. CASE q # p
    BY <1>1, <2>1, <2>3 DEF MovesWell, Doomed
  <2> QED
    BY <2>2, <2>3
<1> QED
    BY <1>1, <1>2, MoveFresh

LEMMA PublishCheckFresh ==
    ASSUME TypeInv, DatedInv, FreshInv, NEW c \in Checkout, PublishCheck(c)
    PROVE  DatedInv' /\ FreshInv'
<1>1. /\ held[c].must = {}
      /\ UNCHANGED <<store, clock, birth, mem, queue, raced, late, behind, stranded, unread>>
    BY PublishCheckParts DEF local, history
<1>2. /\ pc'[c] \in {"idle", "prepared"}
      /\ \A d \in Checkout \ {c} : pc'[d] = pc[d] /\ held'[d] = held[d]
    BY PublishCheckParts, TypeFacts DEF Ends, Goes, HeldOK
<1>3. \A p \in Page : ~Doomed(c, p)
    BY <1>1 DEF Doomed
<1> QED
    BY <1>1, <1>2, <1>3, QuietMove

\* A version that may be published over a deletion at t: one with a younger
\* marker, or one of a page the store has anew already.
LEMMA SelectedAnew ==
    ASSUME TypeInv, DatedInv, FreshInv, NEW c \in Checkout, NEW p \in Page, Plain(p),
           NEW v, NEW m \in Nat, v # 0, Honest(p, v, m), ~Deleted(p) \/ m > Tomb(p),
           \A t \in Tombs(p) : Fresh(head[c].ver[p], t) => FreshOrNone(v, t),
           v \in 1..Len(birth), NEW t \in Tombs(p)
    PROVE  Fresh(v, t) \/ FreshStored(p, t, Checkout \ {c})
<1>1. t \in Nat /\ t <= Tomb(p) /\ Tomb(p) # 0 /\ Tomb(p) \in Tombs(p)
    BY TypeFacts, TombsBound
<1>2. Tomb(p) \in Nat /\ Recency(p) \in Nat
    BY TypeFacts, TombGreatest, RecencyGreatest, Bounds
<1>3. CASE m > Tomb(p)
    BY <1>1, <1>2, <1>3 DEF Honest, Fresh, FreshOrNone
<1>4. CASE ~Deleted(p)
  <2>1. Recency(p) > Tomb(p)
    BY <1>1, <1>2, <1>4 DEF Deleted
  <2>2. WrittenAnew(p)
    BY DEF FreshInv
  <2>3. FreshStored(p, Tomb(p), Checkout)
    BY <1>1, <2>1, <2>2 DEF WrittenAnew
  <2>4. CASE \E d \in Checkout : Fresh(head[d].ver[p], Tomb(p))
    <3>1. PICK d \in Checkout : Fresh(head[d].ver[p], Tomb(p))
      BY <2>4
    <3>2. head[d].ver[p] # 0 /\ birth[head[d].ver[p]] \in Nat /\ birth[head[d].ver[p]] > Tomb(p)
      BY <3>1, Born, BirthNat DEF Fresh
    <3>3. Fresh(head[d].ver[p], t)
      BY <1>1, <1>2, <3>2 DEF Fresh
    <3> QED
      BY <3>3 DEF FreshStored, Fresh, FreshOrNone
  <2>5. CASE \E x \in kept : Fresh(x.ver[p], Tomb(p))
    <3>1. PICK x \in kept : Fresh(x.ver[p], Tomb(p))
      BY <2>5
    <3>2. x.ver[p] # 0 /\ birth[x.ver[p]] \in Nat /\ birth[x.ver[p]] > Tomb(p)
      BY <3>1, KeptBorn, BirthNat DEF Fresh
    <3>3. Fresh(x.ver[p], t)
      BY <1>1, <1>2, <3>2 DEF Fresh
    <3> QED
      BY <3>3 DEF FreshStored
  <2> QED
    BY <2>3, <2>4, <2>5 DEF FreshStored
<1> QED
    BY <1>3, <1>4

LEMMA PublishSelectFresh ==
    ASSUME TypeInv, DatedInv, FreshInv, NEW c \in Checkout, PublishSelect(c)
    PROVE  DatedInv' /\ FreshInv'
<1>0. PICK stale \in {Stale(c), {}} :
         /\ Ends(c) \/ Goes(c, "selected", Selected(c, stale))
         /\ unread' = unread \cup ((Local(c) \ stale) \cap Stale(c))
    BY PublishSelectParts
<1>1. pc[c] = "prepared" /\ unread \subseteq unread'
      /\ UNCHANGED <<store, clock, birth, mem, queue, raced, late, behind, stranded>>
    BY <1>0, PublishSelectParts DEF local
<1>2. CASE Ends(c)
  <2>1. pc'[c] = "idle" /\ \A d \in Checkout \ {c} : pc'[d] = pc[d] /\ held'[d] = held[d]
    BY <1>2, TypeFacts, EndsTyped
  <2>2. \A p \in Page : ~Doomed(c, p)
    BY <1>1 DEF Doomed
  <2> QED
    BY <1>1, <2>1, <2>2, QuietMove
<1>3. CASE Goes(c, "selected", Selected(c, stale))
  <2>1. /\ pc'[c] = "selected" /\ held'[c] = Selected(c, stale)
        /\ \A d \in Checkout \ {c} : pc'[d] = pc[d] /\ held'[d] = held[d]
    BY <1>3, TypeFacts DEF Goes, HeldOK
  <2>2. ASSUME NEW p \in Page PROVE MovesWell(c, p)
    <3>1. head' = head /\ kept' = kept /\ Tombs(p)' = Tombs(p) /\ (Plain(p)' => Plain(p))
      BY <1>1 DEF Tombs, store, Plain
    <3>0. Selected(c, stale).ver[p] = IF p \in Local(c) \ stale THEN mem[c][p].ver ELSE 0
      BY <1>0, <1>1, SelectedFields
    <3>2. ASSUME Plain(p)', held'[c].ver[p] # 0, NEW t \in Tombs(p)
          PROVE  Fresh(held'[c].ver[p], t) \/ FreshStored(p, t, Checkout \ {c})
      <4>1. p \in Local(c) \ stale /\ held'[c].ver[p] = mem[c][p].ver /\ mem[c][p].ver # 0
        <5>1. p \in Local(c) \ stale
          BY <2>1, <3>0, <3>2
        <5> QED
          BY <2>1, <3>0, <3>2, <5>1
      <4>2. mem[c][p].mtime \in Nat /\ Tomb(p) \in Nat
        BY TypeFacts, TombGreatest, Bounds DEF Files
      <4>3. p \notin Stale(c)
        BY <1>0, <3>2, <4>1 DEF Plain
      <4>4. ~Deleted(p) \/ mem[c][p].mtime > Tomb(p)
        BY <4>1, <4>2, <4>3 DEF Stale
      <4>5. FreshAt(c, p) /\ ~Doomed(c, p)
        BY <1>1, <3>1, <3>2 DEF FreshInv, Doomed
      <4>6. Honest(p, mem[c][p].ver, mem[c][p].mtime) /\ mem[c][p].ver \in 1..Len(birth)
        BY <4>1, <4>5, Born DEF FreshAt, HonestAt
      <4>7. \A u \in Tombs(p) : Fresh(head[c].ver[p], u) => FreshOrNone(mem[c][p].ver, u)
        BY <4>5 DEF FreshAt, NoStepBack, HeadStays
      <4> QED
        BY <3>1, <3>2, <4>1, <4>2, <4>4, <4>6, <4>7, SelectedAnew
    <3>3. Plain(p)' => HeldAnew(c, p)'
      BY <1>1, <2>1, <3>1, <3>2 DEF HeldAnew, Taken, Fresh, FreshStored
    <3>4. held'[c].ver[p] # 0 => held'[c].ver[p] = mem[c][p].ver
      BY <2>1, <3>0
    <3>5. ViewFresh(c, p)' /\ ReadWritten(c, p)' /\ ~Doomed(c, p) /\ ~Doomed(c, p)'
      BY <1>1, <2>1 DEF ViewFresh, ReadWritten, Preparing, Doomed
    <3>6. mem'[c] = mem[c]
      BY <1>1
    <3> QED
      BY <3>3, <3>4, <3>5, <3>6 DEF MovesWell
  <2> QED
    BY <1>1, <2>1, <2>2, MoveFresh
<1> QED
    BY <1>0, <1>2, <1>3

LEMMA ReplayCheckFresh ==
    ASSUME TypeInv, DatedInv, FreshInv, NEW c \in Checkout, ReplayCheck(c)
    PROVE  DatedInv' /\ FreshInv'
<1>1. /\ pc[c] = "idle" /\ queue[c] # <<>> /\ ~Resurrects(Head(queue[c]))
      /\ UNCHANGED <<store, clock, birth, mem, queue, raced, late, behind, stranded, unread>>
    BY DEF ReplayCheck, local, history
<1>2. /\ pc'[c] = "checked"
      /\ \A d \in Checkout \ {c} : pc'[d] = pc[d] /\ held'[d] = held[d]
    BY TypeFacts DEF ReplayCheck, Goes, HeldOK
<1>3. /\ 1 \in DOMAIN queue[c] /\ queue[c][1] \in Items /\ ~Resurrects(queue[c][1])
      /\ Taken(c)' = queue[c][1].ver
    BY <1>1, <1>2, FirstItem DEF Taken
<1>4. ASSUME NEW p \in Page PROVE MovesWell(c, p)
  <2>1. head' = head /\ kept' = kept /\ Tombs(p)' = Tombs(p) /\ (Plain(p)' => Plain(p))
    BY <1>1 DEF Tombs, store, Plain
  <2>2. ASSUME Plain(p)', queue[c][1].ver[p] # 0, NEW t \in Tombs(p)
        PROVE  Fresh(queue[c][1].ver[p], t) \/ FreshStored(p, t, Checkout \ {c})
    <3>1. queue[c][1].mark[p] \in Nat /\ Tomb(p) \in Nat
      BY <1>3, TypeFacts, TombGreatest, Bounds DEF Items, Marks
    <3>2. ~Deleted(p) \/ queue[c][1].mark[p] > Tomb(p)
      BY <1>3, <2>2, <3>1 DEF Resurrects, Pages
    <3>3. FreshAt(c, p) /\ Plain(p)
      BY <2>1, <2>2 DEF FreshInv
    <3>4. Honest(p, queue[c][1].ver[p], queue[c][1].mark[p]) /\ queue[c][1].ver[p] \in 1..Len(birth)
      BY <1>3, <2>2, <3>3, Born DEF FreshAt, HonestAt
    <3>5. \A u \in Tombs(p) : Fresh(head[c].ver[p], u) => FreshOrNone(queue[c][1].ver[p], u)
      BY <1>3, <3>3 DEF FreshAt, NoStepBack, HeadStays
    <3> QED
      BY <2>2, <3>1, <3>2, <3>3, <3>4, <3>5, SelectedAnew
  <2>3. Plain(p)' => HeldAnew(c, p)'
    BY <1>1, <1>3, <2>1, <2>2 DEF HeldAnew, Fresh, FreshStored
  <2>4. ViewFresh(c, p)' /\ ReadWritten(c, p)' /\ ~Doomed(c, p) /\ ~Doomed(c, p)'
    BY <1>1, <1>2 DEF ViewFresh, ReadWritten, Preparing, Doomed
  <2> QED
    BY <1>1, <1>2, <2>3, <2>4 DEF MovesWell
<1> QED
    BY <1>1, <1>2, <1>4, MoveFresh

LEMMA ReplaySelectFresh ==
    ASSUME TypeInv, DatedInv, FreshInv, NEW c \in Checkout, ReplaySelect(c)
    PROVE  DatedInv' /\ FreshInv'
<1>1. /\ pc[c] = "checked"
      /\ UNCHANGED <<store, clock, birth, mem, queue, raced, late, behind, stranded, unread>>
    BY ReplaySelectParts DEF local, history
<1>2. CASE Ends(c)
  <2>1. pc'[c] = "idle" /\ \A d \in Checkout \ {c} : pc'[d] = pc[d] /\ held'[d] = held[d]
    BY <1>2, TypeFacts, EndsTyped
  <2>2. \A p \in Page : ~Doomed(c, p)
    BY <1>1 DEF Doomed
  <2> QED
    BY <1>1, <2>1, <2>2, QuietMove
<1>3. CASE Goes(c, "selected", Replayed(c))
  <2>1. /\ pc'[c] = "selected" /\ held'[c] = Replayed(c)
        /\ \A d \in Checkout \ {c} : pc'[d] = pc[d] /\ held'[d] = held[d]
    BY <1>3, TypeFacts DEF Goes, HeldOK
  <2>2. held'[c].replay /\ Taken(c) = queue[c][1].ver /\ Taken(c)' = Taken(c)
    BY <1>1, <2>1 DEF Replayed, Publication, Taken
  <2>3. ASSUME NEW p \in Page PROVE MovesWell(c, p)
    <3>1. head' = head /\ kept' = kept /\ Tombs(p)' = Tombs(p) /\ (Plain(p)' => Plain(p))
      BY <1>1 DEF Tombs, store, Plain
    <3>2. ASSUME Plain(p)' PROVE HeldAnew(c, p)'
      <4>1. HeldAnew(c, p)
        BY <3>1, <3>2 DEF FreshInv, FreshAt
      <4> QED
        BY <1>1, <2>2, <3>1, <4>1 DEF HeldAnew, Fresh, FreshStored
    <3>3. ViewFresh(c, p)' /\ ReadWritten(c, p)' /\ ~Doomed(c, p) /\ ~Doomed(c, p)'
      BY <1>1, <2>1 DEF ViewFresh, ReadWritten, Preparing, Doomed
    <3> QED
      BY <1>1, <2>2, <3>2, <3>3 DEF MovesWell
  <2> QED
    BY <1>1, <2>1, <2>3, MoveFresh
<1> QED
    BY <1>2, <1>3, ReplaySelectParts

\* A checkout whose queue changes while its command ends: every item is an
\* earlier one, in the order they had, or the last one and what is here.
LEMMA QueueFresh ==
    ASSUME TypeInv, DatedInv, FreshInv, NEW c \in Checkout,
           UNCHANGED <<store, clock, birth, mem, raced, late, behind, unread>>,
           stranded \subseteq stranded',
           \A p \in Page : Plain(p)' /\ Doomed(c, p) => mem[c][p].ver = 0,
           \A d \in Checkout \ {c} : /\ pc'[d] = pc[d] /\ held'[d] = held[d]
                                     /\ queue'[d] = queue[d],
           pc'[c] = "idle", DOMAIN queue'[c] = 1..Len(queue'[c]), Len(queue'[c]) \in Nat,
           \A i \in DOMAIN queue'[c] : \A p \in Page :
              \/ /\ queue'[c][i].ver[p] = mem[c][p].ver /\ queue'[c][i].mark[p] = mem[c][p].mtime
              \/ \E k \in DOMAIN queue[c] : queue'[c][i].ver[p] = queue[c][k].ver[p]
                                            /\ queue'[c][i].mark[p] = queue[c][k].mark[p],
           NEW shift \in {0, 1},
           \A i \in DOMAIN queue'[c] :
              \/ i + shift \in DOMAIN queue[c] /\ queue'[c][i].ver = queue[c][i + shift].ver
              \/ i + shift = Len(queue[c]) + 1 /\ \A p \in Page : queue'[c][i].ver[p] = mem[c][p].ver
    PROVE  DatedInv' /\ FreshInv'
<1>0. queue[c] \in Seq(Items) /\ DOMAIN queue[c] = 1..Len(queue[c]) /\ Len(queue[c]) \in Nat
    BY TypeFacts DEF LocalOK
<1>1. DatedAt(c)'
  <2>1. DatedAt(c)
    BY DEF DatedInv
  <2>2. ASSUME NEW i \in DOMAIN queue'[c], NEW p \in Page
        PROVE  Dated(queue[c][i].ver[p], queue[c][i].mark[p])'
    <3>1. CASE queue'[c][i].ver[p] = mem[c][p].ver /\ queue'[c][i].mark[p] = mem[c][p].mtime
      BY <2>1, <3>1 DEF DatedAt, Dated
    <3>2. CASE \E k \in DOMAIN queue[c] : queue'[c][i].ver[p] = queue[c][k].ver[p]
                                          /\ queue'[c][i].mark[p] = queue[c][k].mark[p]
      BY <2>1, <3>2 DEF DatedAt, Dated
    <3> QED
      BY <3>1, <3>2
  <2>3. \A p \in Page : Dated(mem[c][p].ver, mem[c][p].mtime)'
    BY <2>1 DEF DatedAt, Dated
  <2> QED
    BY <2>2, <2>3, QuietFresh DEF DatedAt, SelectedDated
<1>2. ASSUME NEW p \in Page, Plain(p)' PROVE FreshAt(c, p)'
  <2>1. FreshAt(c, p)
    BY <1>2 DEF FreshInv, Plain
  <2>2. Tombs(p)' = Tombs(p) /\ head' = head
    BY DEF Tombs, store
  <2>0. /\ Doomed(c, p) => mem[c][p].ver = 0
        /\ Honest(p, mem[c][p].ver, mem[c][p].mtime)
    BY <1>2, <2>1 DEF FreshAt, HonestAt, Honest, FreshOrNone
  <2>3. HonestAt(c, p)'
    <3>1. Honest(p, mem[c][p].ver, mem[c][p].mtime)'
      BY <2>0, <2>2 DEF FreshAt, HonestAt, Honest, FreshOrNone
    <3>2. ASSUME NEW i \in DOMAIN queue'[c]
          PROVE  Honest(p, queue[c][i].ver[p], queue[c][i].mark[p])'
      <4>1. CASE queue'[c][i].ver[p] = mem[c][p].ver /\ queue'[c][i].mark[p] = mem[c][p].mtime
        BY <2>0, <2>2, <4>1 DEF FreshAt, HonestAt, Honest, FreshOrNone
      <4>2. CASE \E k \in DOMAIN queue[c] : queue'[c][i].ver[p] = queue[c][k].ver[p]
                                            /\ queue'[c][i].mark[p] = queue[c][k].mark[p]
        BY <2>1, <2>2, <4>2 DEF FreshAt, HonestAt, Honest, FreshOrNone
      <4> QED
        BY <4>1, <4>2
    <3> QED
      BY <3>1, <3>2 DEF HonestAt
  <2>4. ViewFresh(c, p)' /\ HeldAnew(c, p)'
    BY QuietFresh
  <2>5. NoStepBack(c, p)
    BY <2>1 DEF FreshAt
  <2>6. ASSUME NEW t \in Tombs(p), Fresh(head[c].ver[p], t)
        PROVE  /\ FreshOrNone(mem[c][p].ver, t)
               /\ \A i \in DOMAIN queue'[c] : FreshOrNone(queue'[c][i].ver[p], t)
    <3>1. /\ FreshOrNone(mem[c][p].ver, t)
          /\ \A i \in DOMAIN queue[c] : FreshOrNone(queue[c][i].ver[p], t)
      BY <2>0, <2>5, <2>6 DEF NoStepBack, HeadStays, FreshOrNone
    <3>2. \A i \in DOMAIN queue'[c] : \/ queue'[c][i].ver[p] = mem[c][p].ver
                                      \/ \E k \in DOMAIN queue[c] :
                                            queue'[c][i].ver[p] = queue[c][k].ver[p]
      OBVIOUS
    <3> QED
      BY <3>1, <3>2
  <2>7. ASSUME NEW t \in Tombs(p), NEW i \in DOMAIN queue'[c], Fresh(queue'[c][i].ver[p], t)
        PROVE  /\ FreshOrNone(mem[c][p].ver, t)
               /\ \A j \in i..Len(queue'[c]) : FreshOrNone(queue'[c][j].ver[p], t)
    <3>1. CASE i + shift \in DOMAIN queue[c] /\ queue'[c][i].ver = queue[c][i + shift].ver
      <4>1. /\ FreshOrNone(mem[c][p].ver, t)
            /\ \A j \in (i + shift)..Len(queue[c]) : FreshOrNone(queue[c][j].ver[p], t)
        BY <2>5, <2>7, <3>1 DEF NoStepBack, QueueStays
      <4>2. ASSUME NEW j \in i..Len(queue'[c]) PROVE FreshOrNone(queue'[c][j].ver[p], t)
        <5>1. j \in DOMAIN queue'[c] /\ i \in Nat /\ j \in Nat /\ j >= i /\ shift \in Nat
          OBVIOUS
        <5>2. CASE j + shift \in DOMAIN queue[c] /\ queue'[c][j].ver = queue[c][j + shift].ver
          <6>1. j + shift \in (i + shift)..Len(queue[c])
            BY <1>0, <5>1, <5>2
          <6> QED
            BY <4>1, <5>2, <6>1
        <5>3. CASE queue'[c][j].ver[p] = mem[c][p].ver
          BY <4>1, <5>3
        <5> QED
          BY <5>1, <5>2, <5>3
      <4> QED
        BY <4>1, <4>2
    <3>2. CASE i + shift = Len(queue[c]) + 1 /\ \A q \in Page : queue'[c][i].ver[q] = mem[c][q].ver
      <4>1. FreshOrNone(mem[c][p].ver, t)
        BY <2>7, <3>2 DEF Fresh, FreshOrNone
      <4>2. ASSUME NEW j \in i..Len(queue'[c]) PROVE FreshOrNone(queue'[c][j].ver[p], t)
        <5>1. j \in DOMAIN queue'[c] /\ i \in Nat /\ j \in Nat /\ j >= i /\ shift \in Nat
          OBVIOUS
        <5>2. j + shift \notin DOMAIN queue[c]
          BY <1>0, <3>2, <5>1
        <5>3. queue'[c][j].ver[p] = mem[c][p].ver
          BY <5>1, <5>2
        <5> QED
          BY <4>1, <5>3
      <4> QED
        BY <4>1, <4>2
    <3> QED
      BY <3>1, <3>2
  <2>8. NoStepBack(c, p)'
    <3> SUFFICES ASSUME NEW t \in Tombs(p)
                 PROVE  HeadStays(c, p, t)' /\ SelectionStays(c, p, t)' /\ QueueStays(c, p, t)'
      BY <2>2 DEF NoStepBack
    <3>1. HeadStays(c, p, t)'
      BY <2>2, <2>6 DEF HeadStays, Fresh, FreshOrNone
    <3>2. QueueStays(c, p, t)'
      BY <2>7 DEF QueueStays, Fresh, FreshOrNone
    <3> QED
      BY <3>1, <3>2 DEF SelectionStays
  <2> QED
    BY <2>3, <2>4, <2>8 DEF FreshAt
<1>3. {c} \in SUBSET Checkout
    OBVIOUS
<1>4. \A d \in Checkout \ {c} : /\ pc'[d] = pc[d] /\ held'[d] = held[d]
                                /\ mem'[d] = mem[d] /\ queue'[d] = queue[d]
    OBVIOUS
<1>5. \A d \in {c} : DatedAt(d)' /\ \A p \in Page : Plain(p)' => FreshAt(d, p)'
    BY <1>1, <1>2
<1>6. Grows
    BY BirthStable
<1> QED
    BY <1>3, <1>4, <1>5, <1>6, FreshFrame

LEMMA ReplayFinishFresh ==
    ASSUME TypeInv, DatedInv, FreshInv, NEW c \in Checkout, ReplayFinish(c)
    PROVE  DatedInv' /\ FreshInv'
<1>1. /\ \A d \in Checkout \ {c} : queue'[d] = queue[d]
      /\ \A i \in DOMAIN queue'[c] : i + 1 \in DOMAIN queue[c] /\ queue'[c][i] = queue[c][i + 1]
      /\ Ends(c) /\ pc[c] = "published"
      /\ UNCHANGED <<store, clock, birth, mem, raced, late, behind, stranded, unread>>
    BY ReplayFinishParts DEF history
<1>2. pc'[c] = "idle" /\ \A d \in Checkout \ {c} : pc'[d] = pc[d] /\ held'[d] = held[d]
    BY <1>1, TypeFacts, EndsTyped
<1>3. DOMAIN queue'[c] = 1..Len(queue'[c]) /\ Len(queue'[c]) \in Nat
  <2>1. queue'[c] \in Seq(Items)
    BY ReplayFinishParts
  <2> QED
    BY <2>1
<1>4. \A i \in DOMAIN queue'[c] : \A p \in Page :
          \E k \in DOMAIN queue[c] : queue'[c][i].ver[p] = queue[c][k].ver[p]
                                     /\ queue'[c][i].mark[p] = queue[c][k].mark[p]
    BY <1>1
<1>5. \A i \in DOMAIN queue'[c] :
          i + 1 \in DOMAIN queue[c] /\ queue'[c][i].ver = queue[c][i + 1].ver
    BY <1>1
<1>6. \A p \in Page : ~Doomed(c, p)
    BY <1>1 DEF Doomed
<1> QED
    BY <1>1, <1>2, <1>3, <1>4, <1>5, <1>6, QueueFresh

LEMMA EnqueueFresh ==
    ASSUME TypeInv, DatedInv, FreshInv, NEW c \in Checkout, NEW dels \in Marks, Enqueue(c, dels),
           UNCHANGED <<store, clock, birth, mem, raced, late, behind, unread>>,
           stranded \subseteq stranded',
           \A p \in Page : Plain(p)' /\ Doomed(c, p) => mem[c][p].ver = 0,
           pc'[c] = "idle", \A d \in Checkout \ {c} : pc'[d] = pc[d] /\ held'[d] = held[d]
    PROVE  DatedInv' /\ FreshInv'
<1>1. \A d \in Checkout \ {c} : queue'[d] = queue[d]
    BY EnqueueFields
<1>2. queue[c] \in Seq(Items) /\ queue'[c] \in Seq(Items)
    BY EnqueueFields, TypeFacts DEF LocalOK
<1>3. DOMAIN queue'[c] = 1..Len(queue'[c]) /\ Len(queue'[c]) \in Nat
    BY <1>2
<1>4. ASSUME NEW i \in DOMAIN queue'[c], NEW p \in Page
      PROVE  \/ /\ queue'[c][i].ver[p] = mem[c][p].ver /\ queue'[c][i].mark[p] = mem[c][p].mtime
             \/ \E k \in DOMAIN queue[c] : queue'[c][i].ver[p] = queue[c][k].ver[p]
                                           /\ queue'[c][i].mark[p] = queue[c][k].mark[p]
  <2>1. CASE i \in DOMAIN queue[c]
    <3>1. queue'[c][i].ver = queue[c][i].ver
      BY <2>1, EnqueueKeeps
    <3>2. CASE queue'[c][i] = queue[c][i]
      BY <2>1, <3>2
    <3>3. CASE /\ queue[c][i].ver = Frozen(c)
               /\ queue'[c][i].mark[p] \in {queue[c][i].mark[p], mem[c][p].mtime, 0}
               /\ queue'[c][i].mark[p] >= queue[c][i].mark[p]
      <4>1. queue[c][i].mark[p] \in Nat
        <5>1. queue[c][i] \in Items
          BY <1>2, <2>1
        <5> QED
          BY <5>1, Bounds DEF Items, Marks
      <4>2. queue'[c][i].mark[p] \in {queue[c][i].mark[p], mem[c][p].mtime}
        BY <3>3, <4>1
      <4>3. queue'[c][i].ver[p] = mem[c][p].ver
        BY <3>1, <3>3 DEF Frozen
      <4> QED
        BY <2>1, <3>1, <4>2, <4>3
    <3> QED
      BY <2>1, <3>2, <3>3, EnqueueKeeps
  <2>2. CASE i \notin DOMAIN queue[c]
    <3>1. queue'[c][i] = Item(Frozen(c), [q \in Page |-> mem[c][q].mtime], dels)
      BY <2>2, EnqueueAppends
    <3> QED
      BY <3>1 DEF Item, Frozen
  <2> QED
    BY <2>1, <2>2
<1>5. ASSUME NEW i \in DOMAIN queue'[c]
      PROVE  \/ i + 0 \in DOMAIN queue[c] /\ queue'[c][i].ver = queue[c][i + 0].ver
             \/ i + 0 = Len(queue[c]) + 1 /\ \A p \in Page : queue'[c][i].ver[p] = mem[c][p].ver
  <2>1. i + 0 = i
    BY <1>3
  <2>2. CASE i \in DOMAIN queue[c]
    BY <2>1, <2>2, EnqueueKeeps
  <2>3. CASE i \notin DOMAIN queue[c]
    <3>1. /\ queue'[c][i] = Item(Frozen(c), [q \in Page |-> mem[c][q].mtime], dels)
          /\ i = Len(queue[c]) + 1
      BY <2>3, EnqueueAppends
    <3> QED
      BY <2>1, <3>1 DEF Item, Frozen
  <2> QED
    BY <2>2, <2>3
<1>6. 0 \in {0, 1}
    OBVIOUS
<1> QED
    BY <1>1, <1>3, <1>4, <1>5, <1>6, QueueFresh

LEMMA FlushFresh ==
    ASSUME TypeInv, DatedInv, FreshInv, NEW c \in Checkout, Flush(c)
    PROVE  DatedInv' /\ FreshInv'
<1> DEFINE dels == DatedNow(base[c].pages \ Local(c))
<1>1. /\ pc[c] = "idle" /\ Enqueue(c, dels)
      /\ UNCHANGED <<store, clock, birth, mem, raced, late, behind, stranded, unread, pc, held>>
    BY DEF Flush, history
<1>2. dels \in Marks
    BY FlushDels
<1>3. \A p \in Page : ~Doomed(c, p)
    BY <1>1 DEF Doomed
<1> HIDE DEF dels
<1> QED
    BY <1>1, <1>2, <1>3, EnqueueFresh

LEMMA PublishDefersFresh ==
    ASSUME TypeInv, DatedInv, FreshInv, NEW c \in Checkout, PublishDefers(c)
    PROVE  DatedInv' /\ FreshInv'
<1>1. /\ DefersDels(c) \in Marks /\ Enqueue(c, DefersDels(c)) /\ Ends(c)
      /\ stranded' = stranded \cup Stranded(c)
      /\ UNCHANGED <<store, clock, birth, mem, raced, late, behind, unread>>
    BY PublishDefersParts
<1>2. pc'[c] = "idle" /\ \A d \in Checkout \ {c} : pc'[d] = pc[d] /\ held'[d] = held[d]
    BY <1>1, TypeFacts, EndsTyped
<1>3. \A p \in Page : Plain(p)' /\ Doomed(c, p) => mem[c][p].ver = 0
    BY <1>1, StrandedDoomed
<1> QED
    BY <1>1, <1>2, <1>3, EnqueueFresh

\* An edit is younger than every deletion before it.
LEMMA EditFresh ==
    ASSUME TypeInv, DatedInv, FreshInv, NEW c \in Checkout, NEW p \in Page, Edit(c, p)
    PROVE  DatedInv' /\ FreshInv'
<1> DEFINE new == Len(birth) + 1
<1>1. /\ birth' = Append(birth, clock)
      /\ mem' = [mem EXCEPT ![c] = [mem[c] EXCEPT ![p] = File(new, clock)]]
      /\ UNCHANGED <<clock, queue, store, pc, held, raced, late, behind, stranded, unread>>
    BY DEF Edit, Receives
<1>2. /\ \A d \in Checkout \ {c} : mem'[d] = mem[d]
      /\ \A q \in Page \ {p} : mem'[c][q] = mem[c][q]
      /\ mem'[c][p] = File(new, clock)
    BY <1>1, TypeFacts DEF Files
<1>3. clock \in Nat /\ birth \in Seq(Time) /\ Len(birth) \in Nat
    BY TypeFacts, Bounds
<1>4. /\ Len(birth') = new /\ birth'[new] = clock
      /\ \A v \in 1..Len(birth) : birth'[v] = birth[v]
    BY <1>1, <1>3
<1>5. /\ Len(birth') \in Nat /\ Len(birth) <= Len(birth')
      /\ \A v \in 1..Len(birth') : birth'[v] <= clock'
  <2>1. \A v \in 1..Len(birth) : birth[v] <= clock
    BY DEF DatedInv, DatedStore
  <2>2. \A v \in 1..Len(birth') : v \in 1..Len(birth) \/ v = new
    BY <1>3, <1>4
  <2> QED
    BY <1>1, <1>3, <1>4, <2>1, <2>2
<1> HIDE DEF new
<1>6. new \in 1..Len(birth') /\ new # 0
    BY <1>3, <1>4 DEF new
<1>7. Grows
    BY <1>1, <1>3, <1>4, <1>5 DEF Grows
<1>8. \A q \in Page : /\ ReadWritten(c, q)'
                      /\ Plain(q) => ViewFresh(c, q)' /\ HeldAnew(c, q)'
    BY <1>1, <1>7, HeldStable
<1>9. \A q \in Page : \/ mem'[c][q] = mem[c][q]
                      \/ mem'[c][q].ver = new /\ mem'[c][q].mtime = clock
    BY <1>2 DEF File
<1>10. DatedAt(c)'
  <2>1. DatedAt(c) /\ \A v \in 1..Len(birth) : birth[v] <= clock
    BY DEF DatedInv, DatedStore
  <2>2. ASSUME NEW q \in Page PROVE Dated(mem[c][q].ver, mem[c][q].mtime)'
    <3>1. CASE q = p
      BY <1>1, <1>2, <1>3, <1>4, <1>6, <3>1 DEF Dated, File
    <3>2. CASE q # p
      BY <1>1, <1>2, <1>3, <1>4, <1>5, <2>1, <3>2 DEF Dated, DatedAt
    <3> QED
      BY <3>1, <3>2
  <2>3. \A i \in DOMAIN queue'[c] : \A q \in Page : Dated(queue[c][i].ver[q], queue[c][i].mark[q])'
    BY <1>1, <1>3, <1>4, <1>5, <2>1 DEF Dated, DatedAt
  <2>4. ASSUME NEW q \in Page PROVE SelectedDated(c, q)'
    <3> SUFFICES ASSUME pc[c] = "selected", ~held[c].replay, held[c].ver[q] # 0
                 PROVE  /\ held[c].ver[q] \in 1..Len(birth')
                        /\ mem'[c][q].ver # 0 => birth'[held[c].ver[q]] <= mem'[c][q].mtime
      BY <1>1 DEF SelectedDated
    <3>1. /\ held[c].ver[q] \in 1..Len(birth)
          /\ mem[c][q].ver # 0 => birth[held[c].ver[q]] <= mem[c][q].mtime
      BY <2>1 DEF DatedAt, SelectedDated
    <3>2. birth'[held[c].ver[q]] = birth[held[c].ver[q]] /\ held[c].ver[q] \in 1..Len(birth')
      BY <1>3, <1>4, <1>5, <3>1
    <3> QED
      BY <1>9, <2>1, <3>1, <3>2
  <2> QED
    BY <1>8, <2>2, <2>3, <2>4 DEF DatedAt
<1>11. ASSUME NEW q \in Page, Plain(q)' PROVE FreshAt(c, q)'
  <2>1. FreshAt(c, q) /\ Plain(q)
    BY <1>1, <1>11 DEF FreshInv, Plain
  <2>2. /\ Tombs(q)' = Tombs(q) /\ head' = head /\ \A t \in Tombs(q) : t \in Nat
        /\ Doomed(c, q)' = Doomed(c, q)
    BY <1>1, TombsBound, TypeFacts DEF Tombs, store, Doomed
  <2>3. /\ head[c].ver[q] # 0 => birth'[head[c].ver[q]] = birth[head[c].ver[q]]
        /\ mem[c][q].ver # 0 => birth'[mem[c][q].ver] = birth[mem[c][q].ver]
        /\ \A i \in DOMAIN queue[c] : queue[c][i].ver[q] # 0
              => birth'[queue[c][i].ver[q]] = birth[queue[c][i].ver[q]]
    BY <1>4, Born
  <2>4. \/ mem'[c][q] = mem[c][q]
        \/ mem'[c][q].ver = new /\ mem'[c][q].mtime = clock
    BY <1>9
  <2>5. HonestAt(c, q)'
    <3>1. ~Doomed(c, q)' => Honest(q, mem[c][q].ver, mem[c][q].mtime)'
      <4>1. CASE mem'[c][q] = mem[c][q]
        BY <2>1, <2>2, <2>3, <4>1 DEF FreshAt, HonestAt, Honest, FreshOrNone
      <4>2. CASE mem'[c][q].ver = new /\ mem'[c][q].mtime = clock
        BY <1>4, <2>2, <4>2 DEF Honest, FreshOrNone
      <4> QED
        BY <2>4, <4>1, <4>2
    <3>2. \A i \in DOMAIN queue'[c] : Honest(q, queue[c][i].ver[q], queue[c][i].mark[q])'
      BY <1>1, <2>1, <2>2, <2>3 DEF FreshAt, HonestAt, Honest, FreshOrNone
    <3> QED
      BY <3>1, <3>2 DEF HonestAt
  <2>6. ViewFresh(c, q)' /\ HeldAnew(c, q)'
    BY <1>8, <2>1
  <2>7. ASSUME NEW t \in Tombs(q), clock > t, FreshOrNone(mem[c][q].ver, t)
        PROVE  FreshOrNone(mem[c][q].ver, t)'
    BY <1>4, <2>3, <2>4, <2>7 DEF FreshOrNone
  <2>8. ASSUME NEW t \in Tombs(q), NEW v \in 1..Len(birth), birth[v] > t PROVE clock > t
    <3>1. birth[v] \in Nat /\ t \in Nat /\ birth[v] <= clock
      BY <2>2, BirthNat DEF DatedInv, DatedStore
    <3> QED
      BY <1>3, <2>8, <3>1
  <2>9. ASSUME NEW t \in Tombs(q)
        PROVE  HeadStays(c, q, t)' /\ SelectionStays(c, q, t)' /\ QueueStays(c, q, t)'
    <3>0. HeadStays(c, q, t) /\ SelectionStays(c, q, t) /\ QueueStays(c, q, t)
      BY <2>1 DEF FreshAt, NoStepBack
    <3>1. HeadStays(c, q, t)'
      <4> SUFFICES ASSUME Fresh(head[c].ver[q], t)'
                   PROVE  (/\ ~Doomed(c, q) => FreshOrNone(mem[c][q].ver, t)
                           /\ \A i \in DOMAIN queue[c] : FreshOrNone(queue[c][i].ver[q], t))'
        BY DEF HeadStays
      <4>1. Fresh(head[c].ver[q], t) /\ clock > t
        BY <2>2, <2>3, <2>8, Born DEF Fresh
      <4>2. /\ ~Doomed(c, q) => FreshOrNone(mem[c][q].ver, t)
            /\ \A i \in DOMAIN queue[c] : FreshOrNone(queue[c][i].ver[q], t)
        BY <3>0, <4>1 DEF HeadStays
      <4>3. ~Doomed(c, q) => FreshOrNone(mem[c][q].ver, t)'
        BY <2>7, <4>1, <4>2
      <4> QED
        BY <1>1, <2>2, <2>3, <4>2, <4>3 DEF FreshOrNone
    <3>2. SelectionStays(c, q, t)'
      <4> SUFFICES ASSUME pc[c] = "selected", ~held[c].replay, held[c].ver[q] # 0,
                          birth'[held[c].ver[q]] > t
                   PROVE  FreshOrNone(mem[c][q].ver, t)'
        BY <1>1 DEF SelectionStays, Fresh
      <4>1. held[c].ver[q] \in 1..Len(birth)
        BY DEF DatedInv, DatedAt, SelectedDated
      <4>2. birth[held[c].ver[q]] > t
        BY <1>4, <4>1
      <4>3. clock > t /\ FreshOrNone(mem[c][q].ver, t)
        BY <2>8, <3>0, <4>1, <4>2 DEF SelectionStays, Fresh
      <4> QED
        BY <2>7, <4>3
    <3>3. QueueStays(c, q, t)'
      <4> SUFFICES ASSUME NEW i \in DOMAIN queue[c], Fresh(queue[c][i].ver[q], t)'
                   PROVE  (/\ FreshOrNone(mem[c][q].ver, t)
                           /\ \A j \in i..Len(queue[c]) : FreshOrNone(queue[c][j].ver[q], t))'
        BY <1>1 DEF QueueStays
      <4>1. Fresh(queue[c][i].ver[q], t) /\ clock > t
        BY <1>1, <2>3, <2>8, Born DEF Fresh
      <4>2. /\ FreshOrNone(mem[c][q].ver, t)
            /\ \A j \in i..Len(queue[c]) : FreshOrNone(queue[c][j].ver[q], t)
        BY <3>0, <4>1 DEF QueueStays
      <4>3. FreshOrNone(mem[c][q].ver, t)'
        BY <2>7, <4>1, <4>2
      <4>4. \A j \in i..Len(queue[c]) : j \in DOMAIN queue[c]
        BY TypeFacts DEF LocalOK
      <4> QED
        BY <1>1, <2>3, <4>2, <4>3, <4>4 DEF FreshOrNone
    <3> QED
      BY <3>1, <3>2, <3>3
  <2> QED
    BY <2>2, <2>5, <2>6, <2>9 DEF FreshAt, NoStepBack
<1>12. {c} \in SUBSET Checkout /\ \A d \in {c} : DatedAt(d)' /\ \A q \in Page : Plain(q)' => FreshAt(d, q)'
    BY <1>10, <1>11
<1>13. \A d \in Checkout \ {c} : /\ pc'[d] = pc[d] /\ held'[d] = held[d]
                                 /\ mem'[d] = mem[d] /\ queue'[d] = queue[d]
    BY <1>1, <1>2
<1> QED
    BY <1>7, <1>12, <1>13, FreshFrame

\* The bounds of tombstones and dates, before and after a step.
StoreBounds ==
    \A p \in Page :
        /\ Tomb(p) \in Nat /\ Recency(p) \in Nat
        /\ Tomb(p) # 0 => Tomb(p) \in Tombs(p)
        /\ \A c \in Checkout : head[c].tomb[p] <= Tomb(p)
        /\ Recency(p) # 0 => \E x \in Pointers : x.ver[p] # 0 /\ x.at = Recency(p)
        /\ \A x \in Pointers : x.ver[p] # 0 => x.at <= Recency(p)

LEMMA StoreBounded == TypeOK => StoreBounds
<1> SUFFICES ASSUME TypeOK, NEW p \in Page
             PROVE  /\ Tomb(p) \in Nat /\ Recency(p) \in Nat
                    /\ Tomb(p) # 0 => Tomb(p) \in Tombs(p)
                    /\ \A c \in Checkout : head[c].tomb[p] <= Tomb(p)
                    /\ Recency(p) # 0 => \E x \in Pointers : x.ver[p] # 0 /\ x.at = Recency(p)
                    /\ \A x \in Pointers : x.ver[p] # 0 => x.at <= Recency(p)
    BY DEF StoreBounds
<1> QED
    BY TombGreatest, RecencyGreatest, TombInTombs, Bounds

LEMMA StoreBoundedNext == (TypeOK => StoreBounds)'
  BY StoreBounded, PTL

\* A pointer after a step is a head, a preserved one or latest.json.
LEMMA PointersCasesNext ==
    ASSUME NEW x \in Pointers'
    PROVE  \/ \E d \in Checkout : x.ver = head'[d].ver /\ x.at = head'[d].at
           \/ \E y \in kept' \cup {latest'} : x.ver = y.ver /\ x.at = y.at
  BY DEF Pointers

\* A page of latest.json is dated now when it is written, but a head or a
\* preserved one has it anew already.
LEMMA WriteLatestFresh ==
    ASSUME TypeInv, DatedInv, FreshInv, NEW c \in Checkout, WriteLatest(c)
    PROVE  DatedInv' /\ FreshInv'
<1>1. /\ pc[c] = "headed" /\ held[c].ver = head[c].ver
      /\ latest' = [ver |-> held[c].ver, at |-> clock]
      /\ pc'[c] = "published" /\ \A d \in Checkout \ {c} : pc'[d] = pc[d]
      /\ UNCHANGED <<clock, mem, queue, head, kept, sidecar, held, birth, raced, late, behind,
                     stranded, unread>>
    BY WriteLatestParts DEF local, history
<1>2. DatedInv'
  <2>1. DatedStore'
    <3>1. latest'.at <= clock'
      BY <1>1, TypeFacts, Bounds
    <3> QED
      BY <1>1, <3>1 DEF DatedInv, DatedStore, Dated, DatedIfMarked
  <2>2. ASSUME NEW d \in Checkout PROVE DatedAt(d)'
    <3>1. DatedAt(d)
      BY DEF DatedInv
    <3>2. CASE d = c
      BY <1>1, <3>1, <3>2 DEF DatedAt, Dated, ReadWritten, SelectedDated, Preparing
    <3>3. CASE d # c
      BY <1>1, <3>1, <3>3 DEF DatedAt, Dated, ReadWritten, SelectedDated, Preparing
    <3> QED
      BY <3>2, <3>3
  <2> QED
    BY <2>1, <2>2 DEF DatedInv
<1>3. ASSUME NEW p \in Page, Plain(p)'
      PROVE  (HonestStore(p) /\ WrittenAnew(p) /\ \A d \in Checkout : FreshAt(d, p))'
  <2>1. HonestStore(p) /\ WrittenAnew(p) /\ \A d \in Checkout : FreshAt(d, p)
    BY <1>1, <1>3 DEF FreshInv, Plain
  <2>2. Tombs(p)' = Tombs(p) /\ Tomb(p)' = Tomb(p)
    BY <1>1 DEF Tombs, Tomb
  <2>3. HonestStore(p)'
    BY <1>1, <2>1, <2>2 DEF HonestStore, Honest, FreshOrNone
  <2>4. ASSUME NEW d \in Checkout PROVE FreshAt(d, p)'
    <3>1. FreshAt(d, p) /\ Doomed(d, p)' = Doomed(d, p)
      BY <1>1, <2>1 DEF Doomed
    <3>2. HonestAt(d, p)'
      BY <1>1, <2>2, <3>1 DEF FreshAt, HonestAt, Honest, FreshOrNone
    <3>4. NoStepBack(d, p)'
      <4> SUFFICES ASSUME NEW t \in Tombs(p)
                   PROVE  HeadStays(d, p, t)' /\ SelectionStays(d, p, t)' /\ QueueStays(d, p, t)'
        BY <2>2 DEF NoStepBack
      <4>1. HeadStays(d, p, t) /\ SelectionStays(d, p, t) /\ QueueStays(d, p, t)
        BY <3>1 DEF FreshAt, NoStepBack
      <4>2. HeadStays(d, p, t)' /\ QueueStays(d, p, t)'
        BY <1>1, <3>1, <4>1 DEF HeadStays, QueueStays, Fresh, FreshOrNone
      <4>3. pc'[d] = "selected" => pc[d] = "selected"
        BY <1>1
      <4>4. SelectionStays(d, p, t)'
        BY <1>1, <4>1, <4>3 DEF SelectionStays, Fresh, FreshOrNone
      <4> QED
        BY <4>2, <4>4
    <3>3. ViewFresh(d, p)' /\ HeldAnew(d, p)'
      <4>1. CASE d = c
        BY <1>1, <4>1, QuietFresh
      <4>2. CASE d # c
        BY <1>1, <2>2, <3>1, <4>2
        DEF FreshAt, ViewFresh, HeldAnew, Taken, FreshStored, Fresh, FreshOrNone
      <4> QED
        BY <4>1, <4>2
    <3> QED
      BY <3>2, <3>3, <3>4 DEF FreshAt
  <2>5. WrittenAnew(p)'
    <3> SUFFICES ASSUME Tomb(p) # 0, Recency(p)' > Tomb(p)
                 PROVE  FreshStored(p, Tomb(p), Checkout)
      BY <1>1, <2>2 DEF WrittenAnew, FreshStored, Fresh
    <3>1. StoreBounds /\ StoreBounds'
      BY WriteLatestType, StoreBounded, StoreBoundedNext DEF TypeInv
    <3>2. Tomb(p) \in Tombs(p) /\ Tomb(p) \in Nat /\ Recency(p)' \in Nat /\ Recency(p) \in Nat
      BY <3>1 DEF StoreBounds
    <3>3. CASE held[c].ver[p] # 0
      <4>1. Fresh(held[c].ver[p], Tomb(p)) \/ FreshStored(p, Tomb(p), Checkout \ {c})
        BY <1>1, <2>1, <3>2, <3>3 DEF FreshAt, HeldAnew, Taken
      <4> QED
        BY <1>1, <4>1 DEF FreshStored
    <3>4. CASE held[c].ver[p] = 0
      <4>1. Recency(p)' # 0
        BY <3>2
      <4>2. PICK x \in Pointers' : x.ver[p] # 0 /\ x.at = Recency(p)'
        BY <3>1, <4>1 DEF StoreBounds
      <4>3. PICK y \in Pointers : y.ver[p] # 0 /\ y.at = Recency(p)'
        <5>1. CASE \E d \in Checkout : x.ver = head'[d].ver /\ x.at = head'[d].at
          BY <1>1, <4>2, <5>1, PointersHave
        <5>2. CASE \E y \in kept : x.ver = y.ver /\ x.at = y.at
          BY <4>2, <5>2, PointersHave
        <5>3. x.ver # latest'.ver
          BY <1>1, <3>4, <4>2
        <5> QED
          BY <1>1, <5>1, <5>2, <5>3, PointersCasesNext
      <4>4. Recency(p)' <= Recency(p)
        BY <3>1, <4>3 DEF StoreBounds
      <4>5. Recency(p) > Tomb(p)
        BY <3>2, <4>4
      <4> QED
        BY <2>1, <4>5 DEF WrittenAnew
    <3> QED
      BY <3>3, <3>4
  <2> QED
    BY <2>3, <2>4, <2>5
<1> QED
    BY <1>2, <1>3 DEF FreshInv


\* What is written for a page that has not changed under its publication.
LEMMA UntornMark ==
    ASSUME TypeInv, NEW c \in Checkout, pc[c] = "selected", NEW p \in Page, p \notin Torn(c)
    PROVE  /\ held[c].ver[p] = 0 <=> NextMark(c, p) = 0
           /\ held[c].ver[p] # 0 /\ ~held[c].replay =>
                 /\ held[c].ver[p] = mem[c][p].ver /\ NextMark(c, p) = mem[c][p].mtime
                 /\ queue[c] = <<>>
           /\ held[c].ver[p] # 0 /\ held[c].replay =>
                 /\ queue[c] \in Seq(Items) /\ 1 \in DOMAIN queue[c]
                 /\ held[c].ver[p] = queue[c][1].ver[p] /\ NextMark(c, p) = queue[c][1].mark[p]
<1>1. CASE held[c].ver[p] = 0
    BY <1>1, NextMarkCases
<1>2. CASE held[c].ver[p] # 0 /\ ~held[c].replay
  <2>1. held[c].ver[p] = mem[c][p].ver /\ NextMark(c, p) = mem[c][p].mtime
    BY <1>2, NextMarkCases DEF Torn, Pages
  <2>2. mem[c][p].mtime # 0 /\ queue[c] = <<>>
    BY <1>2, <2>1, TypeFacts DEF FileOK, CommandOK, Busy
  <2> QED
    BY <1>2, <2>1, <2>2
<1>3. CASE held[c].ver[p] # 0 /\ held[c].replay
  <2>1. /\ queue[c] \in Seq(Items) /\ 1 \in DOMAIN queue[c]
        /\ held[c].ver = queue[c][1].ver /\ held[c].mark = queue[c][1].mark
    BY <1>3, ReplaySource DEF Busy
  <2>2. queue[c][1].mark[p] # 0
    BY <1>3, <2>1, TypeFacts DEF FileOK
  <2> QED
    BY <1>3, <2>1, <2>2, NextMarkCases
<1> QED
    BY <1>1, <1>2, <1>3

LEMMA PlainUntorn ==
    ASSUME NEW c \in Checkout, WriteHead(c), NEW p \in Page, Plain(p)'
    PROVE  pc[c] = "selected" /\ p \notin Torn(c)
  BY DEF WriteHead, Plain

\* A new tombstone of a page that stays plain is dated now, and nobody else has
\* a command under way; otherwise the head has no tombstone it had not, and
\* loses the page only if it did not have it.
Quiet(c, p) ==
    /\ held[c].ver[p] = 0 /\ head'[c].tomb[p] >= clock
    /\ \A d \in Checkout \ {c} : pc[d] = "idle"

Same(c, p) ==
    /\ Tombs(p)' \subseteq Tombs(p)
    /\ held[c].ver[p] = 0 => head[c].ver[p] = 0 /\ head'[c].tomb[p] = head[c].tomb[p]

LEMMA WriteHeadTombs ==
    ASSUME TypeInv, FreshInv, NEW c \in Checkout, WriteHead(c), NEW p \in Page, Plain(p)'
    PROVE  /\ Plain(p)
           /\ Tombs(p)' \subseteq Tombs(p) \cup {head'[c].tomb[p]}
           /\ Quiet(c, p) \/ Same(c, p)
<1> DEFINE tomb == [q \in Page |-> NextTomb(c, q)]
           fresh == {q \in Page : tomb[q] # 0 /\ head[c].tomb[q] = 0}
<1>1. /\ raced' = raced \cup Torn(c) \cup
                     (IF \A d \in Checkout \ {c} : pc[d] = "idle" THEN {} ELSE fresh)
      /\ late' = late \cup {q \in fresh : tomb[q] < clock}
      /\ UNCHANGED <<behind, stranded, unread>>
    BY DEF WriteHead
<1>2. /\ head'[c].tomb[p] = NextTomb(c, p)
      /\ \A d \in Checkout \ {c} : head'[d] = head[d]
    BY WriteHeadParts
<1>3. Plain(p)
    BY <1>1 DEF Plain
<1>4. Tombs(p)' \subseteq Tombs(p) \cup {head'[c].tomb[p]}
    BY <1>2 DEF Tombs
<1>0. held[c].ver[p] = 0 <=> NextMark(c, p) = 0
    BY PlainUntorn, UntornMark
<1>5. NextTomb(c, p) \in Nat /\ head[c].tomb[p] \in Nat /\ clock \in Nat
  <2>1. TypeInv'
    BY WriteHeadType
  <2>2. head' \in [Checkout -> Heads] /\ head \in [Checkout -> Heads]
    BY <2>1 DEF TypeInv, TypeOK
  <2> QED
    BY <1>2, <2>2, TypeFacts, Bounds DEF Heads, Marks
<1>6. CASE NextTomb(c, p) = 0 \/ head[c].tomb[p] # 0
  <2>1. head'[c].tomb[p] = 0 \/ (held[c].ver[p] = 0 /\ head'[c].tomb[p] = head[c].tomb[p])
    BY <1>0, <1>2, <1>6, NextTombCases
  <2>2. Tombs(p)' \subseteq Tombs(p)
    BY <1>4, <2>1 DEF Tombs
  <2>3. ASSUME held[c].ver[p] = 0 PROVE head[c].ver[p] = 0 /\ head'[c].tomb[p] = head[c].tomb[p]
    <3>1. CASE head[c].tomb[p] # 0
      <4>1. head[c].mark[p] = 0
        BY <3>1, TypeFacts DEF StoreOK
      <4>2. head[c].ver[p] = 0
        BY <1>3, <4>1 DEF FreshInv, HonestStore
      <4> QED
        BY <1>0, <1>2, <2>3, <3>1, <4>2, NextTombCases
    <3>2. CASE head[c].tomb[p] = 0
      <4>1. ~Ceases(c, p)
        <5> SUFFICES ASSUME Ceases(c, p) PROVE FALSE
          OBVIOUS
        <5>1. NextTomb(c, p) = DeletedAt(c, p)
          BY <1>0, <2>3, <3>2, NextTombCases
        <5>2. DeletedAt(c, p) # 0
          BY TypeFacts DEF DeletedAt
        <5> QED
          BY <1>6, <3>2, <5>1, <5>2
      <4> QED
        BY <1>2, <1>3, <1>6, <3>2, <4>1 DEF Ceases, FreshInv, HonestStore
    <3> QED
      BY <3>1, <3>2
  <2> QED
    BY <1>3, <1>4, <2>2, <2>3 DEF Same
<1>7. CASE NextTomb(c, p) # 0 /\ head[c].tomb[p] = 0
  <2>1. p \in fresh /\ tomb[p] = NextTomb(c, p)
    BY <1>7
  <2>2. ~(NextTomb(c, p) < clock)
    BY <1>1, <2>1 DEF Plain
  <2>3. \A d \in Checkout \ {c} : pc[d] = "idle"
    BY <1>1, <2>1 DEF Plain
  <2>4. held[c].ver[p] = 0
    BY <1>0, <1>7, NextTombCases
  <2> QED
    BY <1>2, <1>3, <1>4, <1>5, <2>2, <2>3, <2>4 DEF Quiet
<1> QED
    BY <1>6, <1>7

\* The marker of a page that stays plain is as honest as its source.
LEMMA NextHonest ==
    ASSUME TypeInv, FreshInv, NEW c \in Checkout, WriteHead(c), NEW p \in Page, Plain(p)'
    PROVE  Honest(p, held[c].ver[p], NextMark(c, p))
<1>1. HonestAt(c, p) /\ pc[c] = "selected" /\ p \notin Torn(c)
    BY PlainUntorn, WriteHeadTombs DEF FreshInv, FreshAt
<1>2. CASE held[c].ver[p] = 0
    BY <1>2 DEF Honest, FreshOrNone
<1>3. CASE held[c].ver[p] # 0 /\ ~held[c].replay
    BY <1>1, <1>3, UntornMark DEF HonestAt, Doomed
<1>4. CASE held[c].ver[p] # 0 /\ held[c].replay
    BY <1>1, <1>4, UntornMark DEF HonestAt
<1> QED
    BY <1>2, <1>3, <1>4

LEMMA NextDated ==
    ASSUME TypeInv, DatedInv, NEW c \in Checkout, pc[c] = "selected", NEW p \in Page
    PROVE  /\ DatedIfMarked(held[c].ver[p], NextMark(c, p))
           /\ p \notin Torn(c) => Dated(held[c].ver[p], NextMark(c, p))
<1>1. DatedAt(c)
    BY DEF DatedInv
<1>2. held[c].ver[p] # 0 => held[c].ver[p] \in 1..Len(birth)
    BY HeldBorn DEF Taken
<1>3. ASSUME NextMark(c, p) # 0 PROVE Dated(held[c].ver[p], NextMark(c, p))
  <2>1. held[c].ver[p] # 0
    BY <1>3, NextMarkCases
  <2>2. CASE held[c].replay
    <3>1. /\ 1 \in DOMAIN queue[c]
          /\ held[c].ver = queue[c][1].ver /\ held[c].mark = queue[c][1].mark
      BY <2>2, ReplaySource DEF Busy
    <3>2. Dated(queue[c][1].ver[p], queue[c][1].mark[p])
      BY <1>1, <3>1 DEF DatedAt
    <3> QED
      BY <2>1, <2>2, <3>1, <3>2, NextMarkCases
  <2>3. CASE ~held[c].replay
    <3>1. NextMark(c, p) = mem[c][p].mtime /\ mem[c][p].ver # 0
      BY <1>3, <2>1, <2>3, NextMarkCases, TypeFacts DEF FileOK
    <3>2. birth[held[c].ver[p]] <= mem[c][p].mtime /\ mem[c][p].mtime <= clock
      BY <1>1, <2>1, <2>3, <3>1 DEF DatedAt, SelectedDated, Dated
    <3> QED
      BY <1>2, <3>1, <3>2 DEF Dated
  <2> QED
    BY <2>2, <2>3
<1>4. p \notin Torn(c) /\ held[c].ver[p] # 0 => NextMark(c, p) # 0
    BY UntornMark
<1> QED
    BY <1>2, <1>3, <1>4 DEF DatedIfMarked, Dated

LEMMA WriteHeadDated ==
    ASSUME TypeInv, DatedInv, NEW c \in Checkout, WriteHead(c)
    PROVE  DatedInv'
<1>1. /\ pc[c] = "selected" /\ UNCHANGED <<clock, mem, queue, latest, held, birth>>
      /\ clock \in Nat
    BY WriteHeadParts, TypeFacts, Bounds DEF local
<1>2. DatedStore /\ \A d \in Checkout : DatedAt(d)
    BY DEF DatedInv
<1>3. \A p \in Page : /\ DatedIfMarked(held[c].ver[p], NextMark(c, p))
                      /\ p \notin Torn(c) => Dated(held[c].ver[p], NextMark(c, p))
    BY <1>1, NextDated
<1>4. ASSUME NEW d \in Checkout
      PROVE  head'[d].at <= clock /\ \A p \in Page : DatedIfMarked(head'[d].ver[p], head'[d].mark[p])
  <2>1. CASE d = c
    <3>1. /\ head'[c].ver = held[c].ver /\ head'[c].at = clock
          /\ \A p \in Page : head'[c].mark[p] = NextMark(c, p)
      BY WriteHeadParts
    <3> QED
      BY <1>1, <1>3, <2>1, <3>1
  <2>2. CASE d # c
    <3>1. head'[d] = head[d]
      BY <2>2, WriteHeadParts
    <3> QED
      BY <1>2, <3>1 DEF DatedStore
  <2> QED
    BY <2>1, <2>2
<1>5. ASSUME NEW x \in DOMAIN sidecar', NEW p \in Page PROVE Dated(x[p], sidecar'[x][p])
  <2>1. CASE x \in DOMAIN sidecar
    <3>1. sidecar'[x] = sidecar[x]
      BY <2>1, WriteHeadParts
    <3> QED
      BY <1>2, <2>1, <3>1 DEF DatedStore
  <2>2. CASE x \notin DOMAIN sidecar
    <3>1. x = held[c].ver /\ sidecar'[x] = [q \in Page |-> NextMark(c, q)]
      BY <2>2, WriteHeadParts
    <3>2. Torn(c) = {}
      BY <2>2, <3>1, WriteHeadParts
    <3> QED
      BY <1>3, <3>1, <3>2
  <2> QED
    BY <2>1, <2>2
<1>6. \A x \in kept' \cup {latest'} : x.at <= clock
  <2>1. kept' \subseteq kept \cup {latest}
    BY WriteHeadParts
  <2> QED
    BY <1>1, <1>2, <2>1 DEF DatedStore
<1>7. DatedStore'
    BY <1>1, <1>2, <1>4, <1>5, <1>6 DEF DatedStore, Dated, DatedIfMarked
<1>8. ASSUME NEW d \in Checkout PROVE DatedAt(d)'
  <2>1. pc'[d] \in {"fetched", "latest", "compared", "selected"} => pc'[d] = pc[d]
    BY WriteHeadMoves
  <2>2. DatedAt(d)
    BY <1>2
  <2>3. \A p \in Page : ReadWritten(d, p)'
    BY <1>1, <2>1, <2>2 DEF DatedAt, ReadWritten, Preparing
  <2>4. \A p \in Page : SelectedDated(d, p)'
    BY <1>1, <2>1, <2>2 DEF DatedAt, SelectedDated
  <2> QED
    BY <1>1, <2>2, <2>3, <2>4 DEF DatedAt, Dated
<1> QED
    BY <1>7, <1>8 DEF DatedInv

\* Markers stay honest: a tombstone dated now is younger than any of them.
LEMMA WriteHeadHonest ==
    ASSUME TypeInv, DatedInv, FreshInv, NEW c \in Checkout, WriteHead(c), NEW p \in Page, Plain(p)'
    PROVE  HonestStore(p)' /\ \A d \in Checkout : HonestAt(d, p)'
<1>1. Plain(p) /\ \A t \in Tombs(p)' : t \in Tombs(p) \/ t >= clock
    BY WriteHeadTombs DEF Quiet, Same
<1>2. /\ pc[c] = "selected" /\ UNCHANGED <<clock, mem, queue, latest, held, birth>>
      /\ clock \in Nat
    BY WriteHeadParts, TypeFacts, Bounds DEF local
<1>3. \A t \in Tombs(p)' : t \in Nat
  <2>1. head' \in [Checkout -> Heads]
    BY WriteHeadType DEF TypeInv, TypeOK
  <2> QED
    BY <2>1, Bounds DEF Tombs, Heads, Marks
<1>4. ASSUME NEW v, NEW m \in Nat, Dated(v, m), Honest(p, v, m), NEW t \in Tombs(p)', m > t, v # 0
      PROVE  birth[v] > t
  <2>1. t \in Nat /\ m <= clock
    BY <1>3, <1>4 DEF Dated
  <2>2. t \in Tombs(p)
    BY <1>1, <1>2, <1>4, <2>1
  <2> QED
    BY <1>4, <2>2 DEF Honest, FreshOrNone
<1>5. HonestStore(p) /\ \A d \in Checkout : HonestAt(d, p)
    BY <1>1 DEF FreshInv, FreshAt
<1>6. DatedStore /\ \A d \in Checkout : DatedAt(d)
    BY DEF DatedInv
<1>7. /\ Honest(p, held[c].ver[p], NextMark(c, p)) /\ Dated(held[c].ver[p], NextMark(c, p))
      /\ NextMark(c, p) \in Nat
  <2>1. p \notin Torn(c) /\ held[c] \in Publications
    BY <1>2, PlainUntorn, TypeFacts, HeldTypes DEF Busy
  <2> QED
    BY <1>2, <2>1, NextHonest, NextDated, NextTypes, Bounds
<1>8. ASSUME NEW d \in Checkout
      PROVE  /\ Honest(p, head[d].ver[p], head[d].mark[p])'
             /\ head'[d].ver[p] # 0 => head'[d].mark[p] # 0
  <2>1. CASE d = c
    <3>1. head'[c].ver = held[c].ver /\ head'[c].mark[p] = NextMark(c, p)
      BY WriteHeadParts
    <3>2. held[c].ver[p] # 0 => NextMark(c, p) # 0
      BY PlainUntorn, UntornMark
    <3> QED
      BY <1>2, <1>4, <1>7, <2>1, <3>1, <3>2 DEF Honest, FreshOrNone
  <2>2. CASE d # c
    <3>1. head'[d] = head[d]
      BY <2>2, WriteHeadParts
    <3>2. head[d].mark[p] \in Nat
      BY TypeFacts, Bounds DEF StoreOK, Heads, Marks
    <3>3. /\ Dated(head[d].ver[p], head[d].mark[p]) /\ Honest(p, head[d].ver[p], head[d].mark[p])
          /\ head[d].ver[p] # 0 => head[d].mark[p] # 0
      BY <1>5, <1>6 DEF DatedStore, DatedIfMarked, Dated, HonestStore
    <3> QED
      BY <1>2, <1>4, <3>1, <3>2, <3>3 DEF Honest, FreshOrNone
  <2> QED
    BY <2>1, <2>2
<1>9. ASSUME NEW x \in DOMAIN sidecar' PROVE Honest(p, x[p], sidecar[x][p])'
  <2>1. CASE x \in DOMAIN sidecar
    <3>1. sidecar'[x] = sidecar[x]
      BY <2>1, WriteHeadParts
    <3>2. sidecar[x][p] \in Nat
      BY <2>1, TypeFacts, Bounds DEF StoreOK, Marks
    <3>3. Dated(x[p], sidecar[x][p]) /\ Honest(p, x[p], sidecar[x][p])
      BY <1>5, <1>6, <2>1 DEF DatedStore, HonestStore
    <3> QED
      BY <1>2, <1>4, <3>1, <3>2, <3>3 DEF Honest, FreshOrNone
  <2>2. CASE x \notin DOMAIN sidecar
    <3>1. x = held[c].ver /\ sidecar'[x] = [q \in Page |-> NextMark(c, q)]
      BY <2>2, WriteHeadParts
    <3> QED
      BY <1>2, <1>4, <1>7, <3>1 DEF Honest, FreshOrNone
  <2> QED
    BY <2>1, <2>2
<1>10. ASSUME NEW d \in Checkout PROVE HonestAt(d, p)'
  <2>0. Doomed(d, p) => Doomed(d, p)'
    BY <1>2, WriteHeadMoves DEF Doomed
  <2>1. ~Doomed(d, p) => Honest(p, mem[d][p].ver, mem[d][p].mtime)'
    <3>1. mem[d][p].mtime \in Nat
      BY TypeFacts, Bounds DEF Files
    <3>2. /\ Dated(mem[d][p].ver, mem[d][p].mtime)
          /\ ~Doomed(d, p) => Honest(p, mem[d][p].ver, mem[d][p].mtime)
      BY <1>5, <1>6 DEF DatedAt, HonestAt
    <3> QED
      BY <1>2, <1>4, <3>1, <3>2 DEF Honest, FreshOrNone
  <2>2. ASSUME NEW i \in DOMAIN queue[d] PROVE Honest(p, queue[d][i].ver[p], queue[d][i].mark[p])'
    <3>1. queue[d][i] \in Items
      BY TypeFacts DEF LocalOK
    <3>2. queue[d][i].mark[p] \in Nat
      BY <3>1, Bounds DEF Items, Marks
    <3>3. /\ Dated(queue[d][i].ver[p], queue[d][i].mark[p])
          /\ Honest(p, queue[d][i].ver[p], queue[d][i].mark[p])
      BY <1>5, <1>6 DEF DatedAt, HonestAt
    <3> QED
      BY <1>2, <1>4, <3>2, <3>3 DEF Honest, FreshOrNone
  <2> QED
    BY <1>2, <2>0, <2>1, <2>2 DEF HonestAt
<1> QED
    BY <1>8, <1>9, <1>10 DEF HonestStore

\* A head younger than a deletion is followed by one that is, or by none in a
\* quiet deletion.
LEMMA WriteHeadKeepsFresh ==
    ASSUME TypeInv, FreshInv, NEW c \in Checkout, WriteHead(c), NEW p \in Page, Plain(p)',
           Same(c, p), NEW C \in SUBSET Checkout, NEW t \in Tombs(p), FreshStored(p, t, C)
    PROVE  FreshStored(p, t, C)'
<1>1. birth' = birth /\ kept \subseteq kept' /\ pc[c] = "selected" /\ head'[c].ver = held[c].ver
    BY WriteHeadParts
<1>2. CASE \E x \in kept : Fresh(x.ver[p], t)
    BY <1>1, <1>2 DEF FreshStored, Fresh
<1>3. ASSUME NEW d \in C, Fresh(head[d].ver[p], t) PROVE FreshStored(p, t, C)'
  <2>1. CASE d # c
    <3>1. head'[d] = head[d]
      BY <2>1, WriteHeadParts
    <3> QED
      BY <1>1, <1>3, <3>1 DEF FreshStored, Fresh
  <2>2. CASE d = c
    <3>1. held[c].ver[p] # 0
      BY <1>3, <2>2 DEF Same, Fresh
    <3>2. /\ FreshOrNone(mem[c][p].ver, t)
          /\ \A i \in DOMAIN queue[c] : FreshOrNone(queue[c][i].ver[p], t)
      <4>1. Plain(p) /\ ~Doomed(c, p)
        BY <1>1, WriteHeadTombs DEF Doomed
      <4> QED
        BY <1>3, <2>2, <4>1 DEF FreshInv, FreshAt, NoStepBack, HeadStays
    <3>3. held[c].ver[p] = mem[c][p].ver
          \/ (1 \in DOMAIN queue[c] /\ held[c].ver[p] = queue[c][1].ver[p])
      BY <1>1, <3>1, PlainUntorn, UntornMark
    <3>4. head'[c].ver[p] # 0 /\ birth'[head'[c].ver[p]] > t
      BY <1>1, <3>1, <3>2, <3>3 DEF FreshOrNone
    <3> QED
      BY <2>2, <3>4 DEF FreshStored, Fresh
  <2> QED
    BY <2>1, <2>2
<1> QED
    BY <1>2, <1>3 DEF FreshStored

LEMMA WriteHeadSteps ==
    ASSUME TypeInv, DatedInv, FreshInv, NEW c \in Checkout, WriteHead(c), NEW p \in Page, Plain(p)',
           NEW d \in Checkout
    PROVE  ViewFresh(d, p)' /\ HeldAnew(d, p)' /\ NoStepBack(d, p)'
<1>1. /\ pc[c] = "selected" /\ UNCHANGED <<clock, mem, queue, latest, held, birth>>
      /\ clock \in Nat
    BY WriteHeadParts, TypeFacts, Bounds DEF local
<1>2. pc'[c] \in {"headed", "published"} /\ \A e \in Checkout \ {c} : pc'[e] = pc[e]
    BY WriteHeadMoves
<1>3. head'[c].ver = held[c].ver /\ \A e \in Checkout \ {c} : head'[e] = head[e]
    BY WriteHeadParts
<1>4. Plain(p) /\ FreshAt(d, p)
    BY WriteHeadTombs DEF FreshInv
<1>5. \A t \in Tombs(p)' : t \in Tombs(p) \/ t >= clock
    BY WriteHeadTombs DEF Quiet, Same
<1>6. \A t \in Tombs(p)' : t \in Nat
  <2>1. head' \in [Checkout -> Heads]
    BY WriteHeadType DEF TypeInv, TypeOK
  <2> QED
    BY <2>1, Bounds DEF Tombs, Heads, Marks
<1>7. ASSUME NEW t \in Tombs(p)', NEW v \in 1..Len(birth), birth[v] > t PROVE t \in Tombs(p)
  <2>1. birth[v] \in Nat /\ birth[v] <= clock /\ t \in Nat
    BY <1>6, BirthNat DEF DatedInv, DatedStore
  <2> QED
    BY <1>1, <1>5, <1>7, <2>1
<1>8. ViewFresh(d, p)'
  <2>1. CASE Quiet(c, p)
    BY <1>2, <2>1 DEF Quiet, ViewFresh
  <2>2. CASE Same(c, p)
    BY <1>1, <1>2, <1>4, <2>2 DEF Same, FreshAt, ViewFresh, FreshOrNone
  <2> QED
    BY <2>1, <2>2, WriteHeadTombs
<1>9. HeldAnew(d, p)'
  <2>1. CASE Quiet(c, p)
    BY <1>1, <1>2, <2>1 DEF Quiet, HeldAnew, Taken
  <2>2. CASE Same(c, p)
    <3>0. pc'[d] \in {"checked", "selected", "headed"} =>
            Taken(d)' = Taken(d) /\ pc[d] \in {"checked", "selected", "headed"}
      BY <1>1, <1>2 DEF Taken
    <3> SUFFICES ASSUME pc'[d] \in {"checked", "selected", "headed"}, Taken(d)[p] # 0,
                        NEW t \in Tombs(p)'
                 PROVE  Fresh(Taken(d)[p], t)' \/ FreshStored(p, t, Checkout \ {d})'
      BY <3>0 DEF HeldAnew
    <3>1. t \in Tombs(p)
      BY <2>2 DEF Same
    <3>2. Fresh(Taken(d)[p], t) \/ FreshStored(p, t, Checkout \ {d})
      BY <1>4, <3>0, <3>1 DEF FreshAt, HeldAnew
    <3>3. CASE Fresh(Taken(d)[p], t)
      BY <1>1, <3>0, <3>3 DEF Fresh
    <3>4. CASE FreshStored(p, t, Checkout \ {d})
      <4>1. Checkout \ {d} \in SUBSET Checkout
        OBVIOUS
      <4>2. FreshStored(p, t, Checkout \ {d})'
        BY <2>2, <3>1, <3>4, <4>1, WriteHeadKeepsFresh
      <4> QED
        BY <4>2
    <3> QED
      BY <3>2, <3>3, <3>4
  <2> QED
    BY <2>1, <2>2, WriteHeadTombs
<1>10. NoStepBack(d, p)'
  <2>1. NoStepBack(d, p)
    BY <1>4 DEF FreshAt
  <2>2. ASSUME NEW t \in Tombs(p)', Fresh(head'[d].ver[p], t)
        PROVE  /\ ~Doomed(d, p)' => FreshOrNone(mem[d][p].ver, t)
               /\ \A i \in DOMAIN queue[d] : FreshOrNone(queue[d][i].ver[p], t)
    <3>1. CASE d # c
      <4>1. Fresh(head[d].ver[p], t)
        BY <1>3, <2>2, <3>1
      <4>2. head[d].ver[p] \in 1..Len(birth) /\ birth[head[d].ver[p]] > t
        BY <4>1, Born DEF Fresh
      <4>3. t \in Tombs(p) /\ (Doomed(d, p) => Doomed(d, p)')
        BY <1>1, <1>2, <1>7, <3>1, <4>2 DEF Doomed
      <4> QED
        BY <2>1, <4>1, <4>3 DEF NoStepBack, HeadStays
    <3>2. CASE d = c
      <4>1. held[c].ver[p] # 0 /\ birth[held[c].ver[p]] > t
        BY <1>3, <2>2, <3>2 DEF Fresh
      <4>2. held[c].ver[p] \in 1..Len(birth)
        BY <1>1, <4>1, HeldBorn DEF Taken
      <4>3. t \in Tombs(p)
        BY <1>7, <4>1, <4>2
      <4>4. CASE held[c].ver[p] = mem[c][p].ver /\ queue[c] = <<>>
        BY <3>2, <4>1, <4>4 DEF FreshOrNone
      <4>5. CASE /\ queue[c] \in Seq(Items) /\ 1 \in DOMAIN queue[c]
                 /\ held[c].ver[p] = queue[c][1].ver[p]
        <5>1. Fresh(queue[c][1].ver[p], t)
          BY <4>1, <4>5 DEF Fresh
        <5>2. /\ FreshOrNone(mem[c][p].ver, t)
              /\ \A j \in 1..Len(queue[c]) : FreshOrNone(queue[c][j].ver[p], t)
          BY <2>1, <3>2, <4>3, <4>5, <5>1 DEF NoStepBack, QueueStays
        <5>3. DOMAIN queue[c] = 1..Len(queue[c])
          BY <4>5
        <5> QED
          BY <3>2, <5>2, <5>3
      <4> QED
        BY <1>1, <4>1, <4>4, <4>5, PlainUntorn, UntornMark
    <3> QED
      BY <3>1, <3>2
  <2>3. ASSUME NEW t \in Tombs(p)', NEW i \in DOMAIN queue[d], Fresh(queue[d][i].ver[p], t)
        PROVE  /\ FreshOrNone(mem[d][p].ver, t)
               /\ \A j \in i..Len(queue[d]) : FreshOrNone(queue[d][j].ver[p], t)
    <3>1. queue[d][i].ver[p] \in 1..Len(birth) /\ birth[queue[d][i].ver[p]] > t
      BY <2>3, Born DEF Fresh
    <3>2. t \in Tombs(p)
      BY <1>7, <3>1
    <3> QED
      BY <2>1, <2>3, <3>2 DEF NoStepBack, QueueStays
  <2>4. ASSUME NEW t \in Tombs(p)', pc'[d] = "selected", ~held[d].replay, Fresh(held[d].ver[p], t)
        PROVE  FreshOrNone(mem[d][p].ver, t)
    <3>1. pc[d] = "selected"
      BY <1>2, <2>4
    <3>2. held[d].ver[p] \in 1..Len(birth) /\ birth[held[d].ver[p]] > t
      BY <2>4, <3>1, HeldBorn DEF Taken, Fresh
    <3>3. t \in Tombs(p)
      BY <1>7, <3>2
    <3> QED
      BY <2>1, <2>4, <3>1, <3>3 DEF NoStepBack, SelectionStays
  <2>5. ASSUME NEW t \in Tombs(p)'
        PROVE  HeadStays(d, p, t)' /\ SelectionStays(d, p, t)' /\ QueueStays(d, p, t)'
    <3>1. HeadStays(d, p, t)'
      BY <1>1, <2>2 DEF HeadStays, Fresh, FreshOrNone
    <3>2. SelectionStays(d, p, t)'
      BY <1>1, <2>4 DEF SelectionStays, Fresh, FreshOrNone
    <3>3. QueueStays(d, p, t)'
      BY <1>1, <2>3 DEF QueueStays, Fresh, FreshOrNone
    <3> QED
      BY <3>1, <3>2, <3>3
  <2> QED
    BY <2>5 DEF NoStepBack
<1> QED
    BY <1>8, <1>9, <1>10

\* After a head is written, a page whose last date is younger than its last
\* deletion was written anew.
LEMMA WriteHeadAnew ==
    ASSUME TypeInv, DatedInv, FreshInv, NEW c \in Checkout, WriteHead(c), NEW p \in Page, Plain(p)'
    PROVE  WrittenAnew(p)'
<1> SUFFICES ASSUME Tomb(p)' # 0, Recency(p)' > Tomb(p)'
             PROVE  FreshStored(p, Tomb(p), Checkout)'
    BY DEF WrittenAnew
<1>1. StoreBounds /\ StoreBounds' /\ DatedInv'
    BY WriteHeadType, WriteHeadDated, StoreBounded, StoreBoundedNext DEF TypeInv
<1>2. /\ Tomb(p)' \in Tombs(p)' /\ Tomb(p)' \in Nat /\ Recency(p)' \in Nat
      /\ Tomb(p) \in Nat /\ Recency(p) \in Nat
    BY <1>1 DEF StoreBounds
<1>3. /\ pc[c] = "selected" /\ clock' = clock /\ latest' = latest /\ birth' = birth
      /\ clock \in Nat
    BY WriteHeadParts, TypeFacts, Bounds
<1>4. head'[c].ver = held[c].ver /\ \A d \in Checkout \ {c} : head'[d] = head[d]
    BY WriteHeadParts
<1>5. Plain(p) /\ WrittenAnew(p) /\ HeldAnew(c, p)
    BY WriteHeadTombs DEF FreshInv, FreshAt
<1>6. PICK x \in Pointers' : x.ver[p] # 0 /\ x.at = Recency(p)'
  <2>1. Recency(p)' # 0
    BY <1>2
  <2> QED
    BY <1>1, <2>1 DEF StoreBounds
<1>7. CASE Quiet(c, p)
  <2>1. x.at <= clock
    <3>1. DatedStore'
      BY <1>1 DEF DatedInv
    <3> QED
      BY <1>3, <3>1, PointersCasesNext DEF DatedStore
  <2>2. head'[c].tomb[p] <= Tomb(p)' /\ head'[c].tomb[p] >= clock
    BY <1>1, <1>7 DEF StoreBounds, Quiet
  <2>3. head'[c].tomb[p] \in Nat
    <3>1. head' \in [Checkout -> Heads]
      BY WriteHeadType DEF TypeInv, TypeOK
    <3> QED
      BY <3>1, Bounds DEF Heads, Marks
  <2> QED
    BY <1>2, <1>3, <1>6, <2>1, <2>2, <2>3
<1>8. CASE Same(c, p) /\ held[c].ver[p] # 0
  <2>1. Tomb(p)' \in Tombs(p)
    BY <1>2, <1>8 DEF Same
  <2>2. PICK t \in Tombs(p) : t = Tomb(p)'
    BY <2>1
  <2>3. Fresh(held[c].ver[p], t) \/ FreshStored(p, t, Checkout \ {c})
    BY <1>3, <1>5, <1>8 DEF HeldAnew, Taken
  <2>4. CASE Fresh(held[c].ver[p], t)
    BY <1>3, <1>4, <2>2, <2>4 DEF FreshStored, Fresh
  <2>5. CASE FreshStored(p, t, Checkout \ {c})
    <3>1. kept \subseteq kept'
      BY WriteHeadParts
    <3> QED
      BY <1>3, <1>4, <2>2, <2>5, <3>1 DEF FreshStored, Fresh
  <2> QED
    BY <2>3, <2>4, <2>5
<1>9. CASE Same(c, p) /\ held[c].ver[p] = 0
  <2>1. head[c].ver[p] = 0 /\ head'[c].tomb[p] = head[c].tomb[p]
    BY <1>9 DEF Same
  <2>2. \A d \in Checkout : head'[d].tomb[p] = head[d].tomb[p]
    BY <1>4, <2>1
  <2>3. Tomb(p)' = Tomb(p) /\ Tomb(p) \in Tombs(p)
    <3>1. Tomb(p)' = Tomb(p)
      BY <2>2 DEF Tomb
    <3> QED
      BY <1>2, <1>9, <3>1 DEF Same
  <2>4. PICK y \in Pointers : y.ver[p] # 0 /\ y.at = Recency(p)'
    <3>1. CASE \E d \in Checkout : x.ver = head'[d].ver /\ x.at = head'[d].at
      BY <1>4, <1>6, <1>9, <3>1, PointersHave
    <3>2. CASE \E y \in kept' \cup {latest'} : x.ver = y.ver /\ x.at = y.at
      <4>1. kept' \cup {latest'} \subseteq kept \cup {latest}
        BY <1>3, WriteHeadParts
      <4> QED
        BY <1>6, <3>2, <4>1, PointersHave
    <3> QED
      BY <3>1, <3>2, PointersCasesNext
  <2>5. Recency(p)' <= Recency(p)
    BY <1>1, <2>4 DEF StoreBounds
  <2>6. FreshStored(p, Tomb(p), Checkout)
    BY <1>2, <1>5, <2>3, <2>5 DEF WrittenAnew
  <2>7. FreshStored(p, Tomb(p), Checkout)'
    <3>1. PICK t \in Tombs(p) : t = Tomb(p)
      BY <2>3
    <3>2. FreshStored(p, t, Checkout)
      BY <2>6, <3>1
    <3>3. FreshStored(p, t, Checkout)'
      BY <1>9, <3>2, WriteHeadKeepsFresh
    <3> QED
      BY <2>3, <3>1, <3>3 DEF FreshStored, Fresh
  <2> QED
    BY <2>7
<1> QED
    BY <1>7, <1>8, <1>9, WriteHeadTombs

LEMMA WriteHeadFresh ==
    ASSUME TypeInv, DatedInv, FreshInv, NEW c \in Checkout, WriteHead(c)
    PROVE  DatedInv' /\ FreshInv'
<1>1. DatedInv'
    BY WriteHeadDated
<1>2. ASSUME NEW p \in Page, Plain(p)'
      PROVE  (HonestStore(p) /\ WrittenAnew(p) /\ \A d \in Checkout : FreshAt(d, p))'
    BY <1>2, WriteHeadHonest, WriteHeadSteps, WriteHeadAnew DEF FreshAt
<1> QED
    BY <1>1, <1>2 DEF FreshInv

LEMMA InitFresh == Init => DatedInv /\ FreshInv
<1> SUFFICES ASSUME Init PROVE DatedInv /\ FreshInv
    OBVIOUS
<1> DEFINE one == [p \in Page |-> 1]
<1>1. /\ clock = 1 /\ birth = <<1>> /\ kept = {} /\ latest = [ver |-> one, at |-> 1]
      /\ sidecar = [x \in {one} |-> one]
    BY DEF Init
<1>2. Len(birth) = 1 /\ birth[1] = 1
    BY <1>1
<1>3. ASSUME NEW c \in Checkout
      PROVE  /\ head[c].at \in {0, 1} /\ queue[c] = <<>> /\ pc[c] = "idle"
             /\ \A p \in Page : /\ head[c].ver[p] = 0 \/ (head[c].ver[p] = 1 /\ head[c].mark[p] = 1)
                                /\ mem[c][p].ver = 0 \/ (mem[c][p].ver = 1 /\ mem[c][p].mtime = 1)
                                /\ head[c].tomb[p] = 0
    BY DEF Init, Empty, File, NoFile
<1>4. DatedStore
  <2>1. \A c \in Checkout : head[c].at <= clock
    BY <1>1, <1>3
  <2>2. \A x \in kept \cup {latest} : x.at <= clock
    BY <1>1
  <2>3. \A c \in Checkout : \A p \in Page : DatedIfMarked(head[c].ver[p], head[c].mark[p])
    BY <1>1, <1>2, <1>3 DEF Dated, DatedIfMarked
  <2>4. \A x \in DOMAIN sidecar : \A p \in Page : Dated(x[p], sidecar[x][p])
    BY <1>1, <1>2 DEF Dated
  <2>5. \A v \in 1..Len(birth) : birth[v] <= clock
    BY <1>1, <1>2
  <2> QED
    BY <2>1, <2>2, <2>3, <2>4, <2>5 DEF DatedStore
<1>5. ASSUME NEW c \in Checkout PROVE DatedAt(c)
    BY <1>1, <1>2, <1>3 DEF DatedAt, Dated, ReadWritten, SelectedDated, Preparing
<1>6. ASSUME NEW p \in Page
      PROVE  HonestStore(p) /\ WrittenAnew(p) /\ \A c \in Checkout : FreshAt(c, p)
  <2>1. Tombs(p) = {}
    BY <1>3 DEF Tombs
  <2>2. Tomb(p) = 0
    <3>1. TypeOK
      BY InitType DEF TypeInv
    <3> QED
      BY <2>1, <3>1, TombInTombs
  <2> QED
    BY <1>3, <2>1, <2>2 DEF HonestStore, Honest, WrittenAnew, FreshAt, HonestAt, ViewFresh, HeldAnew,
                     NoStepBack
<1> QED
    BY <1>4, <1>5, <1>6 DEF DatedInv, FreshInv

LEMMA NextFresh ==
    ASSUME TypeInv, DatedInv, FreshInv, [Next]_vars
    PROVE  DatedInv' /\ FreshInv'
<1>1. CASE Tick \/ UNCHANGED vars
    BY <1>1, TickFresh
<1>2. ASSUME NEW c \in Checkout, User(c) \/ Refresh(c) PROVE DatedInv' /\ FreshInv'
    BY <1>2, EditFresh, RemoveFresh, RefreshFetchFresh, RefreshApplyFresh, EndsFresh
    DEF User, Refresh
<1>3. ASSUME NEW c \in Checkout, Reconcile(c) PROVE DatedInv' /\ FreshInv'
    BY <1>3, PublishFetchFresh, PublishCompareFresh, PublishRestoreFresh, PublishStripFresh,
       PublishCheckFresh DEF Reconcile
<1>4. ASSUME NEW c \in Checkout, Publish(c) PROVE DatedInv' /\ FreshInv'
    BY <1>4, PublishSelectFresh, EndsFresh DEF Publish
<1>5. ASSUME NEW c \in Checkout, Replay(c) PROVE DatedInv' /\ FreshInv'
    BY <1>5, FlushFresh, PublishDefersFresh, ReplayCheckFresh, ReplaySelectFresh,
       ReplayFinishFresh DEF Replay
<1>6. ASSUME NEW c \in Checkout, WriteHead(c) \/ WriteLatest(c) \/ Crash(c)
      PROVE  DatedInv' /\ FreshInv'
    BY <1>6, WriteHeadFresh, WriteLatestFresh, CrashFresh
<1> QED
    BY <1>1, <1>2, <1>3, <1>4, <1>5, <1>6 DEF Next, Done

\* A deleted page does not come back with bytes older than its deletion, unless
\* the deletion was published while another command or a change of the page was
\* under way, or after its date, or the page was restored from a latest.json
\* behind the heads or by a publication that died before it removed it again,
\* or was published while the merge could not be read.
THEOREM ResurrectionTheorem == Spec => []NoResurrection
<1>1. TypeInv /\ [Next]_vars => TypeInv'
    BY NextType
<1>2. TypeInv /\ DatedInv /\ FreshInv /\ [Next]_vars => DatedInv' /\ FreshInv'
    BY NextFresh
<1>3. TypeInv /\ DatedInv /\ FreshInv => NoResurrection
    BY FreshResurrection
<1> QED
    BY <1>1, <1>2, <1>3, InitType, InitFresh, PTL DEF Spec
===============================================================================
