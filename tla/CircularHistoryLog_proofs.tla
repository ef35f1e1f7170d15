------------------------ MODULE CircularHistoryLog_proofs ------------------------
(***************************************************************************)
(* The circular log, for any number of pages and records and any bounds,    *)
(* wherever writes fail and power is cut: what a query returns is on the    *)
(* flash, pages of it continue one another, no byte is programmed twice     *)
(* between two erases, and what a boot would find implements HistoryArchive.*)
(***************************************************************************)
EXTENDS CircularHistoryLog, WellFoundedInduction, FiniteSetTheorems, TLAPS

----------------------------------------------------------------------------
(* The least and the greatest of a set of numbers.                           *)

\* The numbers are well founded.
LEMMA LeastExists ==
    ASSUME NEW S \in SUBSET Nat, S # {}
    PROVE  \E x \in S : \A y \in S : x <= y
  <1> DEFINE R == OpToRel(<, Nat)
  <1>1. \A x, y \in Nat : x < y => <<x, y>> \in R
    BY DEF OpToRel
  <1>2. IsWellFoundedOn(R, Nat)
    BY NatLessThanWellFounded
  <1> HIDE DEF R
  <1>3. PICK x \in S : \A y \in S : ~(<<y, x>> \in R)
    BY <1>2, WFMin
  <1>4. \A y \in S : ~(y < x)
    BY <1>1, <1>3
  <1> QED
    BY <1>4

\* The model's Min chooses the least element there is.
LEMMA MinIsLeast ==
    ASSUME NEW S \in SUBSET Nat, S # {}
    PROVE  Min(S) \in S /\ \A y \in S : Min(S) <= y
  <1>1. \E x \in S : \A y \in S : x <= y
    BY LeastExists
  <1> QED
    BY <1>1 DEF Min

\* A set that is bounded has its greatest element: the least of its bounds.
LEMMA MaxIsGreatest ==
    ASSUME NEW S \in SUBSET Nat, S # {}, NEW b \in Nat, \A x \in S : x <= b
    PROVE  Max(S) \in S /\ \A y \in S : Max(S) >= y
  <1> DEFINE Bounds == {u \in Nat : \A x \in S : x <= u}
  <1>1. Bounds \in SUBSET Nat /\ Bounds # {}
    OBVIOUS
  <1>2. PICK u \in Bounds : \A v \in Bounds : u <= v
    BY <1>1, LeastExists
  <1>3. u \in Nat /\ \A x \in S : x <= u
    BY <1>2
  <1>4. u \in S
    <2> SUFFICES ASSUME u \notin S PROVE FALSE
      OBVIOUS
    <2>1. PICK x \in S : TRUE
      OBVIOUS
    <2>2. \A y \in S : y < u
      BY <1>3
    <2>3. u - 1 \in Nat /\ \A y \in S : y <= u - 1
      BY <1>3, <2>1, <2>2
    <2>4. u - 1 \in Bounds
      BY <2>3
    <2> QED
      BY <1>2, <1>3, <2>4
  <1>5. \E x \in S : \A y \in S : x >= y
    BY <1>3, <1>4
  <1> QED
    BY <1>5 DEF Max
----------------------------------------------------------------------------
(* The invariant.                                                            *)

RecordsOfLog == [kind : Kinds \cup {NoKind}, id : Nat, sequence : Nat]

Sectors ==
    [header : {"erased", "torn", "whole"}, generation : Nat, id : Nat,
     marker : BOOLEAN, records : Seq(RecordsOfLog), tail : {"clean", "torn", "body"}]

PageInfos ==
    [valid : BOOLEAN, generation : Nat, id : Nat, marker : BOOLEAN, used : Nat]

LogTypeOK ==
    /\ flash \in [Pages -> Sectors]
    /\ pages \in [Pages -> PageInfos]
    /\ currentPage \in Pages \cup {NoPage}
    /\ target \in Pages \cup {NoPage}
    /\ active \in Nat
    /\ nextId \in Nat \ {0}
    /\ nextGeneration \in Nat
    /\ nextSequence \in Nat
    /\ job \in RecordsOfLog

\* A sector is claimed before its header is written.
IsFresh(p) == pc \in {"header", "headerCommit"} /\ p = target

\* The sector holds what RAM says of it.
Shows(f, info) ==
    /\ f.header = "whole"
    /\ f.id = info.id
    /\ f.generation = info.generation
    /\ info.used <= Len(f.records)

\* What RAM says of a session that is not being evicted is so on flash.
PagesAreTrue ==
    \A p \in Claimed(pages) :
        IsPendingEviction(pages[p].id) \/ IsFresh(p) \/ Shows(flash[p], pages[p])

IsTombstone(f) == f.header = "whole" /\ f.marker

\* RAM knows every tombstone, once the scan has found it.
TombstonesAreKnown ==
    \/ pc \in {"scan", "stopped"} /\ Claimed(pages) = {}
    \/ \A p \in Pages : IsTombstone(flash[p]) =>
           p \in Marked(pages) /\ pages[p].id = flash[p].id

\* No session id is given out twice, and the active session is never evicted: it is
\* the last that got its id.
ActiveIsKept ==
    /\ \A p \in Claimed(pages) : pages[p].id < nextId
    /\ active < nextId
    /\ active # NoId => ~IsPendingEviction(active)

\* Records are appended behind the last one of the current page.
CurrentPageIsTrue ==
    currentPage # NoPage /\ active # NoId
      /\ pages[currentPage].valid /\ pages[currentPage].id = active
      /\ ~IsFresh(currentPage) =>
        /\ flash[currentPage].header = "whole"
        /\ Len(flash[currentPage].records) = pages[currentPage].used
        /\ flash[currentPage].tail = IF pc = "recordCommit" THEN "body" ELSE "clean"

Writing == pc \in {"select", "mark", "evict", "erase", "header", "headerCommit",
                   "record", "recordCommit"}

\* What the next flash operation has been told to do.
OperationIsSound ==
    /\ pc \in {"scan", "recover"} => active = NoId
    /\ pc = "recover" => Marked(pages) # {}
    /\ Writing => job.id = active /\ active # NoId
    /\ pc = "mark" => /\ target \in Claimed(pages)
                      /\ pages[target].id # job.id
                      /\ Marked(pages) = {}
    /\ pc = "evict" => target \in Marked(pages)
    /\ pc = "erase" => /\ target \in Pages
                       /\ \/ ~pages[target].valid
                          \/ target \in Marked(pages) /\ Others(pages, target) = {}
    /\ pc \in {"header", "headerCommit"} =>
          /\ target \in Claimed(pages)
          /\ pages[target].id = job.id
          /\ ~pages[target].marker
          /\ pages[target].used = 0
          /\ flash[target] = IF pc = "header" THEN Erased ELSE Torn
    /\ pc \in {"record", "recordCommit"} => RoomInCurrentPage

\* The scan takes the greatest id and generation it finds: there is one.
FlashIsBounded ==
    \E b \in Nat : \A p \in Pages : flash[p].id < b /\ flash[p].generation < b

LogInv ==
    /\ LogTypeOK
    /\ PagesAreTrue
    /\ TombstonesAreKnown
    /\ ActiveIsKept
    /\ CurrentPageIsTrue
    /\ OperationIsSound
    /\ FlashIsBounded

----------------------------------------------------------------------------
(* What a step does to one sector and what RAM says of it.                   *)

\* The values a sector and its description start from are of their types.
LEMMA ConstantsAreTyped ==
    /\ Erased \in Sectors /\ Torn \in Sectors
    /\ Unclaimed \in PageInfos /\ ~Unclaimed.valid /\ ~Unclaimed.marker
    /\ ~IsTombstone(Erased) /\ ~IsTombstone(Torn)
    /\ NoJob \in RecordsOfLog
    /\ Pages \subseteq Nat \ {0} /\ NoPage \notin Pages
  <1>1. Pages \subseteq Nat \ {0} /\ NoPage \notin Pages
    BY LogAssumption DEF Pages, NoPage
  <1>2. Erased \in Sectors /\ Torn \in Sectors
    <2>1. <<>> \in Seq(RecordsOfLog)
      OBVIOUS
    <2>2. Erased \in Sectors
      BY <2>1, Zenon DEF Erased, Sectors, NoId
    <2>3. \A f \in Sectors : [f EXCEPT !.header = "torn", !.tail = "torn"] \in Sectors
      BY DEF Sectors
    <2> QED
      BY <2>2, <2>3 DEF Torn
  <1>3. ~IsTombstone(Erased) /\ ~IsTombstone(Torn)
    BY DEF Erased, Torn, IsTombstone
  <1> QED
    BY <1>1, <1>2, <1>3 DEF Unclaimed, PageInfos, NoJob, RecordsOfLog, NoId, Kinds, NoKind

\* Whatever a failed erase leaves of a sector, it makes nothing up.
LEMMA FailedEraseLeaves ==
    ASSUME NEW f \in Sectors, NEW g \in FailedErase(f)
    PROVE  /\ g \in Sectors
           /\ IsTombstone(g) => IsTombstone(f) /\ g.id = f.id
  <1>1. CASE g \in {f, Erased, Torn}
    BY <1>1, ConstantsAreTyped DEF IsTombstone
  <1>2. CASE f.header = "whole" /\ g = [f EXCEPT !.marker = FALSE]
    BY <1>2 DEF IsTombstone, Sectors
  <1>3. ASSUME f.header = "whole", NEW n \in 0 .. Len(f.records) - 1,
               g = [f EXCEPT !.records = SubSeq(@, 1, n), !.tail = "torn"]
        PROVE  g \in Sectors /\ (IsTombstone(g) => IsTombstone(f) /\ g.id = f.id)
    <2>1. f.records \in Seq(RecordsOfLog) /\ n \in Nat /\ n <= Len(f.records)
      BY <1>3 DEF Sectors
    <2>2. SubSeq(f.records, 1, n) \in Seq(RecordsOfLog)
      BY <2>1
    <2> QED
      BY <1>3, <2>2 DEF IsTombstone, Sectors
  <1>4. \/ g \in {f, Erased, Torn}
        \/ f.header = "whole" /\ g = [f EXCEPT !.marker = FALSE]
        \/ f.header = "whole" /\ \E n \in 0 .. Len(f.records) - 1 :
               g = [f EXCEPT !.records = SubSeq(@, 1, n), !.tail = "torn"]
    <2> DEFINE Shortened == {[f EXCEPT !.records = SubSeq(@, 1, n), !.tail = "torn"] :
                                n \in 0 .. Len(f.records) - 1}
    <2>1. g \in {f, Erased, Torn} \/
          (f.header = "whole" /\ (g \in Shortened \/ g \in {[f EXCEPT !.marker = FALSE]}))
      BY DEF FailedErase
    <2> QED
      BY <2>1
  <1> QED
    BY <1>1, <1>2, <1>3, <1>4

\* An eviction in progress stays in progress, if the sector that changes carried no
\* tombstone, or keeps it, or another one has the same, or it was the session's last.
LEMMA PendingPersists ==
    ASSUME pages \in [Pages -> PageInfos],
           NEW x \in Pages, NEW info \in PageInfos, pages' = [pages EXCEPT ![x] = info],
           \/ x \notin Marked(pages)
           \/ info.valid /\ info.marker /\ info.id = pages[x].id
           \/ Others(pages, x) = {}
           \/ \E m \in Marked(pages) \ {x} : pages[m].id = pages[x].id,
           NEW p \in Claimed(pages) \ {x}, IsPendingEviction(pages[p].id)
    PROVE  IsPendingEviction(pages[p].id)'
  <1>1. PICK m \in Marked(pages) : pages[m].id = pages[p].id
    BY DEF IsPendingEviction
  <1>2. p \in Pages /\ pages'[p] = pages[p] /\ pages'[x] = info
        /\ \A q \in Pages \ {x} : pages'[q] = pages[q]
    BY DEF Claimed
  <1>3. \A q \in Marked(pages) \ {x} : q \in Marked(pages')
    BY <1>2 DEF Marked, Claimed
  <1>4. CASE m # x
    BY <1>1, <1>2, <1>3, <1>4 DEF IsPendingEviction, Marked, Claimed
  <1>5. CASE m = x
    <2>1. p \in Others(pages, x)
      BY <1>1, <1>5 DEF Others
    <2>2. CASE info.valid /\ info.marker /\ info.id = pages[x].id
      <3>1. x \in Marked(pages')
        BY <1>2, <2>2 DEF Marked, Claimed
      <3> QED
        BY <1>1, <1>2, <1>5, <2>2, <3>1 DEF IsPendingEviction
    <2>3. CASE \E n \in Marked(pages) \ {x} : pages[n].id = pages[x].id
      BY <1>1, <1>2, <1>3, <1>5, <2>3 DEF IsPendingEviction, Marked, Claimed
    <2> QED
      BY <1>1, <1>5, <2>1, <2>2, <2>3
  <1> QED
    BY <1>4, <1>5

\* One sector and its description change; RAM stays true of the flash.
LEMMA SectorStep ==
    ASSUME LogInv, NEW x \in Pages, NEW g \in Sectors, NEW info \in PageInfos,
           flash' = [flash EXCEPT ![x] = g], pages' = [pages EXCEPT ![x] = info],
           pc \notin {"scan", "stopped"},
           pc \in {"header", "headerCommit"} => x = target,
           IsTombstone(g) => info.valid /\ info.marker /\ info.id = g.id,
           info.valid => IsPendingEviction(info.id)' \/ IsFresh(x)' \/ Shows(g, info),
           \/ x \notin Marked(pages)
           \/ info.valid /\ info.marker /\ info.id = pages[x].id
           \/ Others(pages, x) = {}
           \/ \E m \in Marked(pages) \ {x} : pages[m].id = pages[x].id
    PROVE  /\ flash' \in [Pages -> Sectors] /\ pages' \in [Pages -> PageInfos]
           /\ PagesAreTrue' /\ TombstonesAreKnown' /\ FlashIsBounded'
  <1>1. flash \in [Pages -> Sectors] /\ pages \in [Pages -> PageInfos]
    BY DEF LogInv, LogTypeOK
  <1>2. /\ flash' \in [Pages -> Sectors] /\ pages' \in [Pages -> PageInfos]
        /\ flash'[x] = g /\ pages'[x] = info
        /\ \A q \in Pages \ {x} : flash'[q] = flash[q] /\ pages'[q] = pages[q]
    BY <1>1
  <1>3. ASSUME NEW p \in Claimed(pages')
        PROVE  IsPendingEviction(pages[p].id)' \/ IsFresh(p)' \/ Shows(flash'[p], pages'[p])
    <2>1. CASE p = x
      BY <1>2, <1>3, <2>1 DEF Claimed
    <2>2. CASE p # x
      <3>1. p \in Claimed(pages) \ {x} /\ flash'[p] = flash[p] /\ pages'[p] = pages[p]
        BY <1>2, <2>2 DEF Claimed
      <3>2. IsPendingEviction(pages[p].id) \/ IsFresh(p) \/ Shows(flash[p], pages[p])
        BY <3>1 DEF LogInv, PagesAreTrue
      <3>3. ~IsFresh(p)
        BY <2>2 DEF IsFresh
      <3>4. IsPendingEviction(pages[p].id) => IsPendingEviction(pages[p].id)'
        BY <1>1, <3>1, PendingPersists
      <3> QED
        BY <3>1, <3>2, <3>3, <3>4
    <2> QED
      BY <2>1, <2>2
  <1>4. PagesAreTrue'
    BY <1>3 DEF PagesAreTrue
  <1>5. TombstonesAreKnown'
    <2> SUFFICES ASSUME NEW p \in Pages, IsTombstone(flash'[p])
                 PROVE  p \in Marked(pages') /\ pages'[p].id = flash'[p].id
      BY DEF TombstonesAreKnown
    <2>1. CASE p = x
      BY <1>2, <2>1 DEF Marked, Claimed
    <2>2. CASE p # x
      BY <1>2, <2>2 DEF LogInv, TombstonesAreKnown, Marked, Claimed
    <2> QED
      BY <2>1, <2>2
  <1>6. FlashIsBounded'
    <2>1. PICK b \in Nat : \A p \in Pages : flash[p].id < b /\ flash[p].generation < b
      BY DEF LogInv, FlashIsBounded
    <2>2. \A p \in Pages : flash[p].id \in Nat /\ flash[p].generation \in Nat
      BY <1>1 DEF Sectors
    <2>3. g.id \in Nat /\ g.generation \in Nat
      BY DEF Sectors
    <2>4. PICK c \in Nat : b <= c /\ g.id < c /\ g.generation < c
      <3> DEFINE c == b + g.id + g.generation + 1
      <3>1. c \in Nat /\ b <= c /\ g.id < c /\ g.generation < c
        BY <2>3
      <3> QED
        BY <3>1
    <2>5. \A p \in Pages : flash'[p].id < c /\ flash'[p].generation < c
      BY <1>2, <2>1, <2>2, <2>3, <2>4
    <2> QED
      BY <2>5 DEF FlashIsBounded
  <1> QED
    BY <1>2, <1>4, <1>5, <1>6

\* The record is given up: one sector may hold other data than before, none that RAM
\* would not account for.
LEMMA AbandonKeeps ==
    ASSUME LogInv, Writing, NEW n \in Nat, Unwritten(n),
           NEW x \in Pages, NEW g \in Sectors, NEW info \in {Unclaimed, pages[x]},
           flash' = [flash EXCEPT ![x] = g], pages' = [pages EXCEPT ![x] = info],
           pc \in {"header", "headerCommit"} => x = target /\ info = Unclaimed,
           IsTombstone(g) => info.valid /\ info.marker /\ info.id = g.id,
           info.valid => IsPendingEviction(info.id) \/ Shows(g, info),
           x \notin Marked(pages) \/ info = pages[x],
           \/ currentPage' = NoPage
           \/ /\ currentPage' = currentPage /\ pc # "recordCommit"
              /\ x = currentPage /\ info.valid => info.id # active
    PROVE  LogInv'
  <1>1. /\ flash \in [Pages -> Sectors] /\ pages \in [Pages -> PageInfos]
        /\ pages[x] \in PageInfos /\ info \in PageInfos
    BY ConstantsAreTyped DEF LogInv, LogTypeOK
  <1>2. /\ flash'[x] = g /\ pages'[x] = info
        /\ \A q \in Pages \ {x} : flash'[q] = flash[q] /\ pages'[q] = pages[q]
        /\ info.valid => info = pages[x] /\ pages' = pages
    BY <1>1, ConstantsAreTyped
  <1>3. /\ pc' \in {"idle", "stopped"} /\ job' = NoJob /\ target' = NoPage
        /\ active' \in {active, NoId}
        /\ nextId' = nextId /\ nextGeneration' = nextGeneration
        /\ nextSequence' = nextSequence
    BY DEF Unwritten
  <1>4. info.valid => IsPendingEviction(info.id)' \/ IsFresh(x)' \/ Shows(g, info)
    BY <1>2 DEF IsPendingEviction
  <1>5. \/ x \notin Marked(pages)
        \/ info.valid /\ info.marker /\ info.id = pages[x].id
    BY DEF Marked, Claimed
  <1>6. pc \notin {"scan", "stopped"}
    BY DEF Writing
  <1>7. /\ flash' \in [Pages -> Sectors] /\ pages' \in [Pages -> PageInfos]
        /\ PagesAreTrue' /\ TombstonesAreKnown' /\ FlashIsBounded'
    BY <1>1, <1>4, <1>5, <1>6, SectorStep
  <1>8. LogTypeOK'
    BY <1>3, <1>7, ConstantsAreTyped DEF LogInv, LogTypeOK, NoId
  <1>9. ActiveIsKept'
    <2>1. \A p \in Claimed(pages') : p \in Claimed(pages) /\ pages'[p] = pages[p]
      BY <1>2, ConstantsAreTyped DEF Claimed
    <2>2. \A p \in Marked(pages') : p \in Marked(pages) /\ pages'[p] = pages[p]
      BY <2>1 DEF Marked
    <2>3. /\ \A p \in Claimed(pages) : pages[p].id < nextId
          /\ active < nextId /\ 0 < nextId
          /\ active # NoId => \A p \in Marked(pages) : pages[p].id # active
      BY DEF LogInv, LogTypeOK, ActiveIsKept, IsPendingEviction
    <2>4. \A p \in Claimed(pages') : pages'[p].id < nextId'
      BY <1>3, <2>1, <2>3
    <2>5. active' < nextId'
      BY <1>3, <2>3 DEF NoId
    <2>6. active' # NoId => \A p \in Marked(pages') : pages'[p].id # active'
      BY <1>3, <2>2, <2>3
    <2> QED
      BY <2>4, <2>5, <2>6 DEF ActiveIsKept, IsPendingEviction
  <1>10. CurrentPageIsTrue'
    <2> SUFFICES ASSUME currentPage' # NoPage, active' # NoId,
                        pages'[currentPage'].valid, pages'[currentPage'].id = active'
                 PROVE  /\ flash'[currentPage'].header = "whole"
                        /\ Len(flash'[currentPage'].records) = pages'[currentPage'].used
                        /\ flash'[currentPage'].tail = "clean"
      BY <1>3 DEF CurrentPageIsTrue
    <2>1. currentPage' = currentPage /\ currentPage \in Pages /\ active' = active /\ active # NoId
          /\ pc # "recordCommit" /\ currentPage # x
      BY <1>2, <1>3 DEF LogInv, LogTypeOK
    <2>2. flash'[currentPage] = flash[currentPage] /\ pages'[currentPage] = pages[currentPage]
      BY <1>2, <2>1
    <2>3. ~IsFresh(currentPage)
      BY <2>1 DEF IsFresh
    <2> QED
      BY <2>1, <2>2, <2>3 DEF LogInv, CurrentPageIsTrue
  <1>11. OperationIsSound'
    BY <1>3 DEF OperationIsSound, Writing
  <1> QED
    BY <1>7, <1>8, <1>9, <1>10, <1>11 DEF LogInv

\* The flash is as it was before.
LEMMA FlashIsItself ==
    ASSUME NEW x \in Pages, flash \in [Pages -> Sectors], pages \in [Pages -> PageInfos]
    PROVE  flash = [flash EXCEPT ![x] = flash[x]] /\ pages = [pages EXCEPT ![x] = pages[x]]
  OBVIOUS

----------------------------------------------------------------------------
(* Evictions.                                                                *)

\* A failed erase of a page that is claimed and shown, or of one that is not claimed.
LEMMA EraseFails ==
    ASSUME LogInv, pc \notin {"scan", "stopped"}, NEW x \in Pages,
           NEW g \in FailedErase(flash[x])
    PROVE  /\ g \in Sectors
           /\ IsTombstone(g) => pages[x].valid /\ pages[x].marker /\ pages[x].id = g.id
  <1>1. flash[x] \in Sectors
    BY DEF LogInv, LogTypeOK
  <1>2. g \in Sectors /\ (IsTombstone(g) => IsTombstone(flash[x]) /\ g.id = flash[x].id)
    BY <1>1, FailedEraseLeaves
  <1>3. IsTombstone(flash[x]) => x \in Marked(pages) /\ pages[x].id = flash[x].id
    BY DEF LogInv, TombstonesAreKnown
  <1> QED
    BY <1>2, <1>3 DEF Marked, Claimed

\* The pages of a session whose eviction is under way are not the active session's.
LEMMA MarkedIsNotActive ==
    ASSUME LogInv, NEW m \in Marked(pages), active # NoId
    PROVE  pages[m].id # active
  BY DEF LogInv, ActiveIsKept, IsPendingEviction

\* One page less: RAM forgets it with its sector erased.
LEMMA ForgetPage ==
    ASSUME LogInv, pc \notin {"scan", "stopped", "header", "headerCommit", "record", "recordCommit"},
           NEW x \in Pages,
           flash' = [flash EXCEPT ![x] = Erased], pages' = [pages EXCEPT ![x] = Unclaimed],
           Others(pages, x) = {} \/ \E m \in Marked(pages) \ {x} : pages[m].id = pages[x].id,
           pc' \notin {"header", "headerCommit", "record", "recordCommit"},
           UNCHANGED <<currentPage, active, nextId, nextGeneration, nextSequence, job, target>>
    PROVE  /\ LogTypeOK' /\ PagesAreTrue' /\ TombstonesAreKnown' /\ FlashIsBounded'
           /\ ActiveIsKept' /\ CurrentPageIsTrue'
  <1>1. flash \in [Pages -> Sectors] /\ pages \in [Pages -> PageInfos]
    BY DEF LogInv, LogTypeOK
  <1>2. /\ flash'[x] = Erased /\ pages'[x] = Unclaimed
        /\ \A q \in Pages \ {x} : flash'[q] = flash[q] /\ pages'[q] = pages[q]
    BY <1>1
  <1>3. /\ flash' \in [Pages -> Sectors] /\ pages' \in [Pages -> PageInfos]
        /\ PagesAreTrue' /\ TombstonesAreKnown' /\ FlashIsBounded'
    BY ConstantsAreTyped, SectorStep
  <1>4. LogTypeOK'
    BY <1>3 DEF LogInv, LogTypeOK
  <1>5. ActiveIsKept'
    <2>1. \A p \in Claimed(pages') : p \in Claimed(pages) /\ pages'[p] = pages[p]
      BY <1>2, ConstantsAreTyped DEF Claimed
    <2>2. \A p \in Marked(pages') : p \in Marked(pages) /\ pages'[p] = pages[p]
      BY <2>1 DEF Marked
    <2> QED
      BY <2>1, <2>2 DEF LogInv, ActiveIsKept, IsPendingEviction
  <1>6. CurrentPageIsTrue'
    <2> SUFFICES ASSUME currentPage # NoPage, active # NoId,
                        pages'[currentPage].valid, pages'[currentPage].id = active
                 PROVE  /\ flash'[currentPage].header = "whole"
                        /\ Len(flash'[currentPage].records) = pages'[currentPage].used
                        /\ flash'[currentPage].tail = "clean"
      BY DEF CurrentPageIsTrue
    <2>1. currentPage \in Pages \ {x}
      BY <1>2, ConstantsAreTyped DEF LogInv, LogTypeOK
    <2>2. flash'[currentPage] = flash[currentPage] /\ pages'[currentPage] = pages[currentPage]
      BY <1>2, <2>1
    <2>3. ~IsFresh(currentPage)
      BY DEF IsFresh
    <2> QED
      BY <2>2, <2>3 DEF LogInv, CurrentPageIsTrue
  <1> QED
    BY <1>3, <1>4, <1>5, <1>6

\* recover_pending_evictions(), a page at a time.
LEMMA RecoverKeeps == LogInv /\ Recover => LogInv'
  <1> SUFFICES ASSUME LogInv, Recover PROVE LogInv'
    OBVIOUS
  <1> DEFINE m == Min(Marked(pages))
  <1>1. flash \in [Pages -> Sectors] /\ pages \in [Pages -> PageInfos] /\ pc = "recover"
        /\ active = NoId
    BY DEF LogInv, LogTypeOK, Recover, OperationIsSound
  <1>2. m \in Marked(pages) /\ m \in Pages
    <2>1. Marked(pages) # {} /\ Marked(pages) \in SUBSET Nat
      BY <1>1, ConstantsAreTyped DEF LogInv, OperationIsSound, Marked, Claimed
    <2> QED
      BY <2>1, MinIsLeast DEF Marked, Claimed
  <1>3. PICK p \in Claimed(pages) :
            /\ p = EvictionOrder(pages)
            /\ p \in Pages /\ pages[p].id = pages[m].id
            /\ \/ Others(pages, p) = {}
               \/ \E k \in Marked(pages) \ {p} : pages[k].id = pages[p].id
    <2>1. CASE Others(pages, m) = {}
      BY <1>2, <2>1 DEF EvictionOrder, Marked, Claimed
    <2>2. CASE Others(pages, m) # {}
      <3>1. Others(pages, m) \in SUBSET Nat
        BY ConstantsAreTyped DEF Others, Claimed
      <3>2. EvictionOrder(pages) \in Others(pages, m)
        BY <2>2, <3>1, MinIsLeast DEF EvictionOrder
      <3> QED
        BY <1>2, <3>2 DEF Others, Claimed
    <2> QED
      BY <2>1, <2>2
  <1> HIDE DEF m
  <1>4. CASE /\ flash' = [flash EXCEPT ![p] = Erased]
             /\ pages' = [pages EXCEPT ![p] = Unclaimed]
             /\ pc' = IF Marked(pages') = {} THEN "idle" ELSE "recover"
             /\ UNCHANGED <<currentPage, active, nextId, nextGeneration,
                            nextSequence, errors, pending, job, target, failures,
                            resets>>
    <2>1. /\ LogTypeOK' /\ PagesAreTrue' /\ TombstonesAreKnown' /\ FlashIsBounded'
          /\ ActiveIsKept' /\ CurrentPageIsTrue'
      BY <1>1, <1>3, <1>4, ForgetPage
    <2>2. OperationIsSound'
      BY <1>1, <1>4 DEF OperationIsSound, Writing
    <2> QED
      BY <2>1, <2>2 DEF LogInv
  <1>5. ASSUME NEW g \in FailedErase(flash[p]), flash' = [flash EXCEPT ![p] = g],
               InitializeFails
        PROVE  LogInv'
    <2>1. g \in Sectors
          /\ (IsTombstone(g) => pages[p].valid /\ pages[p].marker /\ pages[p].id = g.id)
      BY <1>1, <1>3, <1>5, EraseFails
    <2>2. /\ pages' = [pages EXCEPT ![p] = pages[p]] /\ pages' = pages
          /\ pages[p] \in PageInfos /\ pages[p].valid
          /\ UNCHANGED <<pages, currentPage, active, nextId, nextGeneration, nextSequence,
                         job, target>>
          /\ pc' \in {"scan", "stopped"}
      BY <1>1, <1>3, <1>5, FlashIsItself DEF InitializeFails, Claimed
    <2>3. IsPendingEviction(pages[p].id)'
      BY <1>2, <1>3, <2>2 DEF IsPendingEviction
    <2>4. /\ flash' \in [Pages -> Sectors] /\ pages' \in [Pages -> PageInfos]
          /\ PagesAreTrue' /\ TombstonesAreKnown' /\ FlashIsBounded'
      BY <1>1, <1>3, <1>5, <2>1, <2>2, <2>3, SectorStep
    <2>5. LogTypeOK'
      BY <2>2, <2>4 DEF LogInv, LogTypeOK
    <2>6. ActiveIsKept' /\ CurrentPageIsTrue' /\ OperationIsSound'
      BY <1>1, <2>2 DEF LogInv, ActiveIsKept, CurrentPageIsTrue, OperationIsSound, Writing,
           IsPendingEviction, NoId
    <2> QED
      BY <2>4, <2>5, <2>6 DEF LogInv
  <1> QED
    BY <1>3, <1>4, <1>5 DEF Recover

\* The pages of the victim other than the one that carries the tombstone.
LEMMA EvictPageKeeps == LogInv /\ EvictPage => LogInv'
  <1> SUFFICES ASSUME LogInv, EvictPage PROVE LogInv'
    OBVIOUS
  <1>1. /\ flash \in [Pages -> Sectors] /\ pages \in [Pages -> PageInfos] /\ pc = "evict"
        /\ target \in Marked(pages) /\ job.id = active /\ active # NoId
        /\ currentPage' = currentPage
    BY DEF LogInv, LogTypeOK, EvictPage, OperationIsSound, Writing
  <1>2. PICK p \in Others(pages, target) : p = Min(Others(pages, target))
    <2>1. Others(pages, target) # {} /\ Others(pages, target) \in SUBSET Nat
      BY ConstantsAreTyped DEF EvictPage, Others, Claimed
    <2> QED
      BY <2>1, MinIsLeast
  <1>3. /\ p \in Pages /\ p \in Claimed(pages) /\ p # target /\ pages[p].id = pages[target].id
        /\ target \in Marked(pages) \ {p} /\ target \in Pages
    BY <1>1, <1>2 DEF Others, Claimed, Marked
  <1>4. CASE /\ flash' = [flash EXCEPT ![p] = Erased]
             /\ pages' = [pages EXCEPT ![p] = Unclaimed]
             /\ pc' = EvictOrErase(pages', target)
             /\ UNCHANGED <<active, nextId, nextGeneration, nextSequence, errors,
                            pending, job, target, failures, resets>>
    <2>1. pc' = IF Others(pages', target) = {} THEN "erase" ELSE "evict"
      BY <1>4 DEF EvictOrErase
    <2>2. /\ LogTypeOK' /\ PagesAreTrue' /\ TombstonesAreKnown' /\ FlashIsBounded'
          /\ ActiveIsKept' /\ CurrentPageIsTrue'
      BY <1>1, <1>3, <1>4, <2>1, ForgetPage
    <2>3. target \in Marked(pages')
      BY <1>1, <1>3, <1>4 DEF Marked, Claimed
    <2>4. OperationIsSound'
      BY <1>1, <1>3, <1>4, <2>1, <2>3 DEF OperationIsSound, Writing
    <2> QED
      BY <2>2, <2>4 DEF LogInv
  <1>5. ASSUME NEW g \in FailedErase(flash[p]), flash' = [flash EXCEPT ![p] = g],
               Unwritten(2), UNCHANGED pages
        PROVE  LogInv'
    <2>1. g \in Sectors
          /\ (IsTombstone(g) => pages[p].valid /\ pages[p].marker /\ pages[p].id = g.id)
      BY <1>1, <1>3, <1>5, EraseFails
    <2>2. pages' = [pages EXCEPT ![p] = pages[p]]
      BY <1>1, <1>3, <1>5, FlashIsItself
    <2>3. IsPendingEviction(pages[p].id) /\ pages[p].id # active
      BY <1>1, <1>3, MarkedIsNotActive DEF IsPendingEviction
    <2>4. Writing
      BY <1>1 DEF Writing
    <2> QED
      BY <1>1, <1>3, <1>5, <2>1, <2>2, <2>3, <2>4, AbandonKeeps
  <1> QED
    BY <1>2, <1>4, <1>5 DEF EvictPage

\* A tombstone on the victim, or a failed attempt at it.
LEMMA MarkKeeps == LogInv /\ MarkVictim => LogInv'
  <1> SUFFICES ASSUME LogInv, MarkVictim PROVE LogInv'
    OBVIOUS
  <1>1. /\ flash \in [Pages -> Sectors] /\ pages \in [Pages -> PageInfos] /\ pc = "mark"
        /\ target \in Claimed(pages) /\ target \in Pages /\ pages[target].id # active
        /\ Marked(pages) = {} /\ job.id = active /\ active # NoId
        /\ currentPage' = currentPage
    BY DEF LogInv, LogTypeOK, MarkVictim, OperationIsSound, Writing, Claimed
  <1>2. PICK x \in Pages : x = target
    BY <1>1
  <1>3. Shows(flash[x], pages[x]) /\ pages[x].valid
    BY <1>1, <1>2 DEF LogInv, PagesAreTrue, IsPendingEviction, IsFresh, Claimed
  <1>4. CASE /\ flash' = [flash EXCEPT ![target].marker = TRUE]
             /\ pages' = [pages EXCEPT ![target].marker = TRUE]
             /\ pc' = EvictOrErase(pages', target)
             /\ UNCHANGED <<active, nextId, nextGeneration, nextSequence,
                            pending, job, target, resets>>
    <2> DEFINE g == [flash[x] EXCEPT !.marker = TRUE]
               info == [pages[x] EXCEPT !.marker = TRUE]
    <2>1. PICK h \in Sectors : h = g
      BY <1>1 DEF Sectors
    <2>2. PICK i \in PageInfos : i = info
      BY <1>1 DEF PageInfos
    <2>3. flash' = [flash EXCEPT ![x] = h] /\ pages' = [pages EXCEPT ![x] = i]
      BY <1>1, <1>2, <1>4, <2>1, <2>2
    <2>4. /\ i.valid /\ i.marker /\ i.id = pages[x].id /\ h.id = flash[x].id
          /\ h.records = flash[x].records
      BY <1>1, <1>3, <2>1, <2>2 DEF Sectors, PageInfos
    <2>5. i.id = h.id
      BY <1>3, <2>4 DEF Shows
    <2>6. /\ flash'[x] = h /\ pages'[x] = i
          /\ \A q \in Pages \ {x} : flash'[q] = flash[q] /\ pages'[q] = pages[q]
      BY <1>1, <2>3
    <2>7. Marked(pages') = {x} /\ Claimed(pages') = Claimed(pages)
      <3>1. \A q \in Pages \ {x} : ~(pages[q].valid /\ pages[q].marker)
        BY <1>1 DEF Marked, Claimed
      <3> QED
        BY <1>3, <2>4, <2>6, <3>1 DEF Marked, Claimed
    <2>8. IsPendingEviction(i.id)'
      BY <2>6, <2>7 DEF IsPendingEviction
    <2>9. /\ flash' \in [Pages -> Sectors] /\ pages' \in [Pages -> PageInfos]
          /\ PagesAreTrue' /\ TombstonesAreKnown' /\ FlashIsBounded'
      BY <1>1, <2>3, <2>4, <2>5, <2>8, SectorStep
    <2>10. LogTypeOK'
      BY <1>1, <1>4, <2>9 DEF LogInv, LogTypeOK
    <2>11. ActiveIsKept'
      <3>1. \A p \in Claimed(pages') : p \in Claimed(pages) /\ pages'[p].id = pages[p].id
        BY <2>4, <2>6, <2>7 DEF Claimed
      <3>2. \A p \in Marked(pages') : pages'[p].id # active
        BY <1>1, <1>2, <2>4, <2>6, <2>7
      <3> QED
        BY <1>4, <3>1, <3>2 DEF LogInv, ActiveIsKept, IsPendingEviction
    <2>12. pc' = IF Others(pages', target) = {} THEN "erase" ELSE "evict"
      BY <1>4 DEF EvictOrErase
    <2>13. CurrentPageIsTrue'
      <3> SUFFICES ASSUME currentPage # NoPage, active # NoId,
                          pages'[currentPage].valid, pages'[currentPage].id = active
                   PROVE  /\ flash'[currentPage].header = "whole"
                          /\ Len(flash'[currentPage].records) = pages'[currentPage].used
                          /\ flash'[currentPage].tail = "clean"
        BY <1>1, <1>4, <2>12 DEF CurrentPageIsTrue
      <3>1. currentPage \in Pages \ {x}
        BY <1>1, <1>2, <2>4, <2>6 DEF LogInv, LogTypeOK
      <3>2. flash'[currentPage] = flash[currentPage] /\ pages'[currentPage] = pages[currentPage]
        BY <2>6, <3>1
      <3>3. ~IsFresh(currentPage)
        BY <1>1 DEF IsFresh
      <3> QED
        BY <1>1, <3>2, <3>3 DEF LogInv, CurrentPageIsTrue
    <2>14. OperationIsSound'
      BY <1>1, <1>2, <1>4, <2>7, <2>12 DEF OperationIsSound, Writing
    <2> QED
      BY <2>9, <2>10, <2>11, <2>13, <2>14 DEF LogInv
  <1>5. CASE Unwritten(2) /\ UNCHANGED <<flash, pages>>
    <2>1. /\ flash' = [flash EXCEPT ![x] = flash[x]] /\ pages' = [pages EXCEPT ![x] = pages[x]]
          /\ flash[x] \in Sectors
      BY <1>1, <1>5, FlashIsItself
    <2>2. ~IsTombstone(flash[x])
      BY <1>1 DEF LogInv, TombstonesAreKnown
    <2>3. Writing
      BY <1>1 DEF Writing
    <2> QED
      BY <1>1, <1>2, <1>3, <1>5, <2>1, <2>2, <2>3, AbandonKeeps
  <1> QED
    BY <1>4, <1>5 DEF MarkVictim

----------------------------------------------------------------------------
(* A sector for the active session, and its header.                          *)

\* The sector that has been chosen is erased, or the record is given up.
LEMMA EraseKeeps == LogInv /\ ErasePage => LogInv'
  <1> SUFFICES ASSUME LogInv, ErasePage PROVE LogInv'
    OBVIOUS
  <1>1. /\ flash \in [Pages -> Sectors] /\ pages \in [Pages -> PageInfos] /\ pc = "erase"
        /\ target \in Pages /\ job.id = active /\ active # NoId
        /\ ~pages[target].valid \/ (target \in Marked(pages) /\ Others(pages, target) = {})
        /\ currentPage' = currentPage /\ nextGeneration \in Nat /\ job \in RecordsOfLog
    BY DEF LogInv, LogTypeOK, ErasePage, OperationIsSound, Writing
  <1>2. PICK x \in Pages : x = target
    BY <1>1
  <1>3. CASE /\ flash' = [flash EXCEPT ![target] = Erased]
             /\ pages' = [pages EXCEPT ![target] =
                    [valid |-> TRUE, generation |-> nextGeneration,
                     id |-> job.id, marker |-> FALSE, used |-> 0]]
             /\ nextGeneration' = nextGeneration + 1
             /\ pc' = "header"
             /\ UNCHANGED <<active, nextId, nextSequence, errors, pending, job,
                            target, failures, resets>>
    <2>1. PICK i \in PageInfos :
              i = [valid |-> TRUE, generation |-> nextGeneration,
                   id |-> job.id, marker |-> FALSE, used |-> 0]
      BY <1>1 DEF PageInfos, RecordsOfLog
    <2>2. i.valid /\ ~i.marker /\ i.id = job.id /\ i.used = 0
      BY <2>1
    <2>3. flash' = [flash EXCEPT ![x] = Erased] /\ pages' = [pages EXCEPT ![x] = i]
      BY <1>2, <1>3, <2>1
    <2>4. /\ flash'[x] = Erased /\ pages'[x] = i
          /\ \A q \in Pages \ {x} : flash'[q] = flash[q] /\ pages'[q] = pages[q]
      BY <1>1, <2>3
    <2>5. IsFresh(x)'
      BY <1>2, <1>3 DEF IsFresh
    <2>6. x \notin Marked(pages) \/ Others(pages, x) = {}
      BY <1>1, <1>2 DEF Marked, Claimed
    <2>7. /\ flash' \in [Pages -> Sectors] /\ pages' \in [Pages -> PageInfos]
          /\ PagesAreTrue' /\ TombstonesAreKnown' /\ FlashIsBounded'
      BY <1>1, <2>3, <2>5, <2>6, ConstantsAreTyped, SectorStep
    <2>8. LogTypeOK'
      BY <1>1, <1>3, <2>7 DEF LogInv, LogTypeOK
    <2>9. ActiveIsKept'
      <3>1. \A p \in Claimed(pages') :
                \/ p = x
                \/ p \in Claimed(pages) /\ pages'[p] = pages[p]
        BY <2>4 DEF Claimed
      <3>2. \A p \in Marked(pages') : p \in Marked(pages) /\ pages'[p] = pages[p]
        BY <2>2, <2>4, <3>1 DEF Marked
      <3>3. active < nextId /\ (\A p \in Claimed(pages) : pages[p].id < nextId)
            /\ \A p \in Marked(pages) : pages[p].id # active
        BY <1>1 DEF LogInv, ActiveIsKept, IsPendingEviction
      <3>4. \A p \in Claimed(pages') : pages'[p].id < nextId
        BY <1>1, <2>2, <2>4, <3>1, <3>3
      <3> QED
        BY <1>3, <3>2, <3>3, <3>4 DEF ActiveIsKept, IsPendingEviction
    <2>10. CurrentPageIsTrue'
      <3> SUFFICES ASSUME currentPage # NoPage, active # NoId,
                          pages'[currentPage].valid, pages'[currentPage].id = active,
                          currentPage # x
                   PROVE  /\ flash'[currentPage].header = "whole"
                          /\ Len(flash'[currentPage].records) = pages'[currentPage].used
                          /\ flash'[currentPage].tail = "clean"
        BY <1>1, <1>2, <1>3 DEF CurrentPageIsTrue, IsFresh
      <3>1. currentPage \in Pages \ {x}
        BY DEF LogInv, LogTypeOK
      <3>2. flash'[currentPage] = flash[currentPage] /\ pages'[currentPage] = pages[currentPage]
        BY <2>4, <3>1
      <3>3. ~IsFresh(currentPage)
        BY <1>1 DEF IsFresh
      <3> QED
        BY <1>1, <3>2, <3>3 DEF LogInv, CurrentPageIsTrue
    <2>11. OperationIsSound'
      BY <1>1, <1>2, <1>3, <2>2, <2>4 DEF OperationIsSound, Writing, Claimed
    <2> QED
      BY <2>7, <2>8, <2>9, <2>10, <2>11 DEF LogInv
  <1>4. ASSUME NEW g \in FailedErase(flash[target]), flash' = [flash EXCEPT ![target] = g],
               Unwritten(1), UNCHANGED pages
        PROVE  LogInv'
    <2>1. g \in Sectors
          /\ (IsTombstone(g) => pages[x].valid /\ pages[x].marker /\ pages[x].id = g.id)
      BY <1>1, <1>2, <1>4, EraseFails
    <2>2. pages' = [pages EXCEPT ![x] = pages[x]] /\ flash' = [flash EXCEPT ![x] = g]
      BY <1>1, <1>2, <1>4, FlashIsItself
    <2>3. pages[x].valid => IsPendingEviction(pages[x].id) /\ pages[x].id # active
      BY <1>1, <1>2, MarkedIsNotActive DEF IsPendingEviction
    <2>4. Writing
      BY <1>1 DEF Writing
    <2> QED
      BY <1>1, <1>4, <2>1, <2>2, <2>3, <2>4, AbandonKeeps
  <1> QED
    BY <1>3, <1>4 DEF ErasePage

\* The fields of a header that has just been committed.
LEMMA WholeHeaderIs ==
    ASSUME pages \in [Pages -> PageInfos], NEW x \in Pages
    PROVE  /\ WholeHeader(x) \in Sectors
           /\ WholeHeader(x).header = "whole" /\ WholeHeader(x).id = pages[x].id
           /\ WholeHeader(x).generation = pages[x].generation
           /\ ~WholeHeader(x).marker
           /\ Len(WholeHeader(x).records) = 0 /\ WholeHeader(x).tail = "clean"
  <1>1. pages[x].id \in Nat /\ pages[x].generation \in Nat
    BY DEF PageInfos
  <1>2. Erased \in Sectors /\ ~Erased.marker /\ Len(Erased.records) = 0 /\ Erased.tail = "clean"
    <2>1. Erased \in Sectors
      BY ConstantsAreTyped
    <2> QED
      BY <2>1 DEF Erased
  <1>3. PICK e \in Sectors : e = Erased
    BY <1>2
  <1>4. WholeHeader(x) = [e EXCEPT !.header = "whole", !.id = pages[x].id,
                                   !.generation = pages[x].generation]
    BY <1>3 DEF WholeHeader
  <1> DEFINE h == WholeHeader(x)
  <1>5. /\ h \in Sectors /\ h.header = "whole" /\ h.id = pages[x].id
        /\ h.generation = pages[x].generation
        /\ h.marker = e.marker /\ h.records = e.records /\ h.tail = e.tail
    BY <1>1, <1>4 DEF Sectors
  <1> QED
    BY <1>2, <1>3, <1>5

\* The body of a header: the sector is claimed but not whole.
LEMMA WriteHeaderKeeps == LogInv /\ WriteHeader => LogInv'
  <1> SUFFICES ASSUME LogInv, WriteHeader PROVE LogInv'
    OBVIOUS
  <1>1. /\ flash \in [Pages -> Sectors] /\ pages \in [Pages -> PageInfos] /\ pc = "header"
        /\ target \in Claimed(pages) /\ target \in Pages /\ job.id = active /\ active # NoId
        /\ pages[target].id = job.id /\ ~pages[target].marker /\ pages[target].used = 0
        /\ flash[target] = Erased /\ currentPage' = currentPage
    BY DEF LogInv, LogTypeOK, WriteHeader, OperationIsSound, Writing, Claimed
  <1>2. PICK x \in Pages : x = target
    BY <1>1
  <1>3. x \notin Marked(pages) /\ pages[x].valid /\ pages[x] \in PageInfos
    BY <1>1, <1>2 DEF Marked, Claimed
  <1>4. CASE /\ flash' = [flash EXCEPT ![target] = Torn]
             /\ pc' = "headerCommit"
             /\ UNCHANGED <<pages, active, nextId, nextGeneration, nextSequence,
                            errors, pending, job, target, failures, resets>>
    <2>1. flash' = [flash EXCEPT ![x] = Torn] /\ pages' = [pages EXCEPT ![x] = pages[x]]
      BY <1>1, <1>2, <1>4, FlashIsItself
    <2>2. IsFresh(x)'
      BY <1>2, <1>4 DEF IsFresh
    <2>3. /\ flash' \in [Pages -> Sectors] /\ pages' \in [Pages -> PageInfos]
          /\ PagesAreTrue' /\ TombstonesAreKnown' /\ FlashIsBounded'
      BY <1>1, <1>2, <1>3, <2>1, <2>2, ConstantsAreTyped, SectorStep
    <2>4. LogTypeOK'
      BY <1>1, <1>4, <2>3 DEF LogInv, LogTypeOK
    <2>5. ActiveIsKept'
      BY <1>4 DEF LogInv, ActiveIsKept, IsPendingEviction
    <2>6. /\ flash'[x] = Torn
          /\ \A q \in Pages \ {x} : flash'[q] = flash[q]
      BY <1>1, <2>1
    <2>7. CurrentPageIsTrue'
      <3> SUFFICES ASSUME currentPage # NoPage, active # NoId,
                          pages[currentPage].valid, pages[currentPage].id = active,
                          currentPage # x
                   PROVE  /\ flash'[currentPage].header = "whole"
                          /\ Len(flash'[currentPage].records) = pages[currentPage].used
                          /\ flash'[currentPage].tail = "clean"
        BY <1>1, <1>2, <1>4 DEF CurrentPageIsTrue, IsFresh
      <3>1. currentPage \in Pages \ {x} /\ ~IsFresh(currentPage)
        BY <1>2 DEF LogInv, LogTypeOK, IsFresh
      <3> QED
        BY <1>1, <2>6, <3>1 DEF LogInv, CurrentPageIsTrue
    <2>8. OperationIsSound'
      BY <1>1, <1>2, <1>4, <2>6 DEF OperationIsSound, Writing
    <2> QED
      BY <2>3, <2>4, <2>5, <2>7, <2>8 DEF LogInv
  <1>5. ASSUME flash' \in {flash, [flash EXCEPT ![target] = Torn]},
               pages' = [pages EXCEPT ![target] = Unclaimed], Unwritten(1)
        PROVE  LogInv'
    <2>1. PICK g \in {Erased, Torn} : flash' = [flash EXCEPT ![x] = g]
      BY <1>1, <1>2, <1>5, FlashIsItself
    <2>2. g \in Sectors /\ ~IsTombstone(g)
      BY <2>1, ConstantsAreTyped
    <2>3. pages' = [pages EXCEPT ![x] = Unclaimed] /\ ~Unclaimed.valid /\ Writing
      BY <1>1, <1>2, <1>5, ConstantsAreTyped DEF Writing
    <2> QED
      BY <1>1, <1>2, <1>3, <1>5, <2>1, <2>2, <2>3, AbandonKeeps
  <1> QED
    BY <1>4, <1>5 DEF WriteHeader

\* The commit word of a header makes its sector whole.
LEMMA CommitHeaderKeeps == LogInv /\ CommitHeader => LogInv'
  <1> SUFFICES ASSUME LogInv, CommitHeader PROVE LogInv'
    OBVIOUS
  <1>1. /\ flash \in [Pages -> Sectors] /\ pages \in [Pages -> PageInfos]
        /\ pc = "headerCommit"
        /\ target \in Claimed(pages) /\ target \in Pages /\ job.id = active /\ active # NoId
        /\ pages[target].id = job.id /\ ~pages[target].marker /\ pages[target].used = 0
        /\ flash[target] = Torn
    BY DEF LogInv, LogTypeOK, CommitHeader, OperationIsSound, Writing, Claimed
  <1>2. PICK x \in Pages : x = target
    BY <1>1
  <1>3. x \notin Marked(pages) /\ pages[x].valid /\ pages[x] \in PageInfos
    BY <1>1, <1>2 DEF Marked, Claimed
  <1>4. PICK h \in Sectors :
            /\ h = WholeHeader(x) /\ h.header = "whole" /\ h.id = pages[x].id
            /\ h.generation = pages[x].generation /\ ~h.marker
            /\ Len(h.records) = 0 /\ h.tail = "clean"
    BY <1>1, WholeHeaderIs
  <1>5. ~IsTombstone(h) /\ Shows(h, pages[x])
    BY <1>1, <1>2, <1>4 DEF IsTombstone, Shows
  <1>6. CASE /\ flash' = [flash EXCEPT ![target] = WholeHeader(target)]
             /\ currentPage' = target
             /\ pc' = "record"
             /\ target' = NoPage
             /\ UNCHANGED <<pages, active, nextId, nextGeneration, nextSequence,
                            errors, pending, job, failures, resets>>
    <2>1. flash' = [flash EXCEPT ![x] = h] /\ pages' = [pages EXCEPT ![x] = pages[x]]
      BY <1>1, <1>2, <1>4, <1>6, FlashIsItself
    <2>2. /\ flash' \in [Pages -> Sectors] /\ pages' \in [Pages -> PageInfos]
          /\ PagesAreTrue' /\ TombstonesAreKnown' /\ FlashIsBounded'
      BY <1>1, <1>2, <1>3, <1>5, <2>1, SectorStep
    <2>3. LogTypeOK'
      BY <1>1, <1>2, <1>6, <2>2 DEF LogInv, LogTypeOK
    <2>4. ActiveIsKept'
      BY <1>6 DEF LogInv, ActiveIsKept, IsPendingEviction
    <2>5. flash'[x] = h
      BY <1>1, <2>1
    <2>6. CurrentPageIsTrue'
      BY <1>1, <1>2, <1>4, <1>6, <2>5 DEF CurrentPageIsTrue
    <2>7. RoomInCurrentPage'
      <3>1. x # NoPage /\ 0 < PageRecords
        BY ConstantsAreTyped, LogAssumption
      <3> QED
        BY <1>1, <1>2, <1>3, <1>6, <3>1 DEF RoomInCurrentPage
    <2>8. OperationIsSound'
      BY <1>1, <1>6, <2>7 DEF OperationIsSound, Writing
    <2> QED
      BY <2>2, <2>3, <2>4, <2>6, <2>8 DEF LogInv
  <1>7. ASSUME flash' \in {flash, [flash EXCEPT ![target] = WholeHeader(target)]},
               pages' = [pages EXCEPT ![target] = Unclaimed], Unwritten(1),
               UNCHANGED currentPage
        PROVE  LogInv'
    <2>1. PICK g \in {Torn, h} : flash' = [flash EXCEPT ![x] = g]
      BY <1>1, <1>2, <1>4, <1>7, FlashIsItself
    <2>2. g \in Sectors /\ ~IsTombstone(g)
      BY <1>4, <1>5, <2>1, ConstantsAreTyped
    <2>3. pages' = [pages EXCEPT ![x] = Unclaimed] /\ ~Unclaimed.valid /\ Writing
      BY <1>1, <1>2, <1>7, ConstantsAreTyped DEF Writing
    <2> QED
      BY <1>1, <1>2, <1>3, <1>7, <2>1, <2>2, <2>3, AbandonKeeps
  <1> QED
    BY <1>6, <1>7 DEF CommitHeader

----------------------------------------------------------------------------
(* The records.                                                              *)

\* A record is being written behind what is committed of the current page.
LEMMA CurrentPageFacts ==
    ASSUME LogInv, pc \in {"record", "recordCommit"}
    PROVE  /\ currentPage \in Pages /\ currentPage \in Claimed(pages)
           /\ job.id = active /\ active # NoId
           /\ pages[currentPage].id = active /\ pages[currentPage].used < PageRecords
           /\ currentPage \notin Marked(pages)
           /\ Shows(flash[currentPage], pages[currentPage])
           /\ Len(flash[currentPage].records) = pages[currentPage].used
           /\ flash[currentPage].tail = IF pc = "recordCommit" THEN "body" ELSE "clean"
           /\ ~IsTombstone(flash[currentPage])
  <1>1. /\ RoomInCurrentPage /\ currentPage \in Pages /\ job.id = active /\ active # NoId
        /\ currentPage # NoPage
    BY DEF LogInv, LogTypeOK, OperationIsSound, Writing, RoomInCurrentPage
  <1>2. /\ currentPage \in Claimed(pages)
        /\ pages[currentPage].id = active /\ pages[currentPage].used < PageRecords
    BY <1>1 DEF RoomInCurrentPage, Claimed
  <1>3. ~IsPendingEviction(active) /\ ~IsFresh(currentPage)
    BY <1>1 DEF LogInv, ActiveIsKept, IsFresh
  <1>4. currentPage \notin Marked(pages)
    BY <1>2, <1>3 DEF IsPendingEviction
  <1>5. Shows(flash[currentPage], pages[currentPage])
    BY <1>2, <1>3 DEF LogInv, PagesAreTrue
  <1>6. /\ Len(flash[currentPage].records) = pages[currentPage].used
        /\ flash[currentPage].tail = IF pc = "recordCommit" THEN "body" ELSE "clean"
    BY <1>1, <1>2, <1>3 DEF LogInv, CurrentPageIsTrue, Claimed
  <1>7. ~IsTombstone(flash[currentPage])
    BY <1>1, <1>4 DEF LogInv, TombstonesAreKnown
  <1> QED
    BY <1>1, <1>2, <1>4, <1>5, <1>6, <1>7

\* What is written behind the records of a sector leaves the rest of it alone.
LEMMA TailChanges ==
    ASSUME NEW f \in Sectors, NEW tail \in {"clean", "torn", "body"}, NEW g,
           g = [f EXCEPT !.tail = tail]
    PROVE  /\ g \in Sectors /\ g.header = f.header /\ g.generation = f.generation
           /\ g.id = f.id /\ g.marker = f.marker /\ g.records = f.records /\ g.tail = tail
  BY DEF Sectors

\* A record that fails leaves the page to be given up.
LEMMA RecordFails ==
    ASSUME LogInv, pc \in {"record", "recordCommit"}, NEW x \in Pages, x = currentPage,
           NEW g \in Sectors, flash' = [flash EXCEPT ![x] = g],
           Shows(g, pages[x]), ~IsTombstone(g),
           currentPage' = NoPage, Unwritten(1), UNCHANGED pages
    PROVE  LogInv'
  <1>1. flash \in [Pages -> Sectors] /\ pages \in [Pages -> PageInfos]
    BY DEF LogInv, LogTypeOK
  <1>2. pages' = [pages EXCEPT ![x] = pages[x]] /\ Writing
    BY <1>1, FlashIsItself DEF Writing
  <1> QED
    BY <1>1, <1>2, AbandonKeeps

\* The body of a record does not count yet.
LEMMA WriteRecordKeeps == LogInv /\ WriteRecord => LogInv'
  <1> SUFFICES ASSUME LogInv, WriteRecord PROVE LogInv'
    OBVIOUS
  <1>1. /\ flash \in [Pages -> Sectors] /\ pages \in [Pages -> PageInfos] /\ pc = "record"
        /\ pages' = pages
    BY DEF LogInv, LogTypeOK, WriteRecord
  <1>2. PICK x \in Pages : x = currentPage
    BY <1>1, CurrentPageFacts
  <1>3. /\ pages[x].valid /\ x \notin Marked(pages) /\ pages[x].id = active
        /\ Shows(flash[x], pages[x]) /\ Len(flash[x].records) = pages[x].used
        /\ ~IsTombstone(flash[x]) /\ job.id = active /\ active # NoId
        /\ flash[x] \in Sectors /\ pages[x] \in PageInfos
    BY <1>1, <1>2, CurrentPageFacts DEF Claimed
  <1>4. ASSUME NEW tail \in {"clean", "torn", "body"}
        PROVE  \E g \in Sectors : /\ g = [flash[x] EXCEPT !.tail = tail]
                                  /\ g.tail = tail /\ g.records = flash[x].records
                                  /\ g.header = "whole" /\ Shows(g, pages[x]) /\ ~IsTombstone(g)
    <2>1. PICK g : g = [flash[x] EXCEPT !.tail = tail]
      OBVIOUS
    <2>2. /\ g \in Sectors /\ g.header = flash[x].header /\ g.generation = flash[x].generation
          /\ g.id = flash[x].id /\ g.marker = flash[x].marker
          /\ g.records = flash[x].records /\ g.tail = tail
      BY <1>3, <2>1, TailChanges
    <2>3. g.header = "whole" /\ Shows(g, pages[x]) /\ ~IsTombstone(g)
      BY <1>3, <2>2 DEF Shows, IsTombstone
    <2> QED
      BY <2>1, <2>2, <2>3
  <1>5. CASE /\ flash' = [flash EXCEPT ![currentPage].tail = "body"]
             /\ pc' = "recordCommit"
             /\ UNCHANGED <<currentPage, active, nextId, nextGeneration,
                            nextSequence, errors, pending, job, target, failures,
                            resets>>
    <2>1. PICK g \in Sectors : /\ g = [flash[x] EXCEPT !.tail = "body"]
                               /\ g.tail = "body" /\ g.records = flash[x].records
                               /\ g.header = "whole" /\ Shows(g, pages[x]) /\ ~IsTombstone(g)
      BY <1>4
    <2>2. flash' = [flash EXCEPT ![x] = g] /\ pages' = [pages EXCEPT ![x] = pages[x]]
      BY <1>1, <1>2, <1>5, <2>1, FlashIsItself
    <2>3. /\ flash' \in [Pages -> Sectors] /\ pages' \in [Pages -> PageInfos]
          /\ PagesAreTrue' /\ TombstonesAreKnown' /\ FlashIsBounded'
      BY <1>1, <1>3, <2>1, <2>2, SectorStep
    <2>4. LogTypeOK'
      BY <1>1, <1>5, <2>3 DEF LogInv, LogTypeOK
    <2>5. ActiveIsKept'
      BY <1>1, <1>5 DEF LogInv, ActiveIsKept, IsPendingEviction
    <2>6. flash'[x] = g
      BY <1>1, <2>2
    <2>7. CurrentPageIsTrue'
      BY <1>1, <1>2, <1>3, <1>5, <2>1, <2>6 DEF CurrentPageIsTrue
    <2>8. RoomInCurrentPage'
      BY <1>1, <1>5 DEF LogInv, OperationIsSound, RoomInCurrentPage
    <2>9. OperationIsSound'
      BY <1>3, <1>5, <2>8 DEF OperationIsSound, Writing
    <2> QED
      BY <2>3, <2>4, <2>5, <2>7, <2>9 DEF LogInv
  <1>6. ASSUME flash' \in {flash, [flash EXCEPT ![currentPage].tail = "torn"]},
               currentPage' = NoPage, Unwritten(1)
        PROVE  LogInv'
    <2>1. PICK g \in Sectors : /\ flash' = [flash EXCEPT ![x] = g]
                               /\ Shows(g, pages[x]) /\ ~IsTombstone(g)
      <3>1. CASE flash' = flash
        BY <1>1, <1>3, <3>1, FlashIsItself
      <3>2. CASE flash' = [flash EXCEPT ![currentPage].tail = "torn"]
        <4>1. flash' = [flash EXCEPT ![x] = [flash[x] EXCEPT !.tail = "torn"]]
          BY <1>1, <1>2, <3>2
        <4> QED
          BY <1>4, <4>1
      <3> QED
        BY <1>6, <3>1, <3>2
    <2> QED
      BY <1>1, <1>2, <1>6, <2>1, RecordFails
  <1> QED
    BY <1>5, <1>6 DEF WriteRecord

\* The commit word of a record makes it count.
LEMMA CommitRecordKeeps == LogInv /\ CommitRecord => LogInv'
  <1> SUFFICES ASSUME LogInv, CommitRecord PROVE LogInv'
    OBVIOUS
  <1>1. /\ flash \in [Pages -> Sectors] /\ pages \in [Pages -> PageInfos]
        /\ pc = "recordCommit" /\ job \in RecordsOfLog
    BY DEF LogInv, LogTypeOK, CommitRecord
  <1>2. PICK x \in Pages : x = currentPage
    BY <1>1, CurrentPageFacts
  <1>3. /\ pages[x].valid /\ x \notin Marked(pages) /\ pages[x].id = active
        /\ Shows(flash[x], pages[x]) /\ Len(flash[x].records) = pages[x].used
        /\ ~IsTombstone(flash[x]) /\ job.id = active /\ active # NoId
        /\ flash[x] \in Sectors /\ pages[x] \in PageInfos
    BY <1>1, <1>2, CurrentPageFacts DEF Claimed
  <1>4. PICK g : g = [flash[x] EXCEPT !.records = Append(@, job), !.tail = "clean"]
    OBVIOUS
  <1>5. /\ g \in Sectors /\ g.header = flash[x].header /\ g.generation = flash[x].generation
        /\ g.id = flash[x].id /\ g.marker = flash[x].marker /\ g.tail = "clean"
        /\ Len(g.records) = Len(flash[x].records) + 1
    <2>1. flash[x].records \in Seq(RecordsOfLog)
      BY <1>3 DEF Sectors
    <2>2. /\ Append(flash[x].records, job) \in Seq(RecordsOfLog)
          /\ Len(Append(flash[x].records, job)) = Len(flash[x].records) + 1
      BY <1>1, <2>1
    <2>3. /\ g.header = flash[x].header /\ g.generation = flash[x].generation
          /\ g.id = flash[x].id /\ g.marker = flash[x].marker /\ g.tail = "clean"
          /\ g.records = Append(flash[x].records, job)
      BY <1>3, <1>4 DEF Sectors
    <2>4. g \in Sectors
      BY <1>3, <1>4, <2>2 DEF Sectors
    <2> QED
      BY <2>2, <2>3, <2>4
  <1>6. /\ Shows(g, pages[x]) /\ ~IsTombstone(g) /\ g.header = "whole"
        /\ pages[x].used \in Nat /\ Len(g.records) = pages[x].used + 1
    BY <1>3, <1>5 DEF Shows, IsTombstone, PageInfos
  <1> DEFINE committed == [flash EXCEPT ![currentPage].records = Append(@, job),
                                        ![currentPage].tail = "clean"]
  <1>7. committed = [flash EXCEPT ![x] = g]
    BY <1>1, <1>2, <1>4
  <1> HIDE DEF committed
  <1>8. CASE /\ flash' = committed
             /\ pages' = [pages EXCEPT ![currentPage].used = @ + 1]
             /\ errors' = 0
             /\ pending' = NoKind
             /\ active' = IF job.kind = "END" THEN NoId ELSE active
             /\ currentPage' = IF job.kind = "END" THEN NoPage ELSE currentPage
             /\ pc' = "idle"
             /\ job' = NoJob
             /\ UNCHANGED <<nextId, nextGeneration, nextSequence, target,
                            failures, resets>>
    <2> DEFINE i == [pages[x] EXCEPT !.used = @ + 1]
    <2>1. /\ i \in PageInfos
          /\ i.valid /\ i.id = pages[x].id /\ i.marker = pages[x].marker
          /\ i.generation = pages[x].generation
          /\ i.used = pages[x].used + 1
      BY <1>3, <1>6 DEF PageInfos
    <2>2. flash' = [flash EXCEPT ![x] = g] /\ pages' = [pages EXCEPT ![x] = i]
      BY <1>1, <1>2, <1>7, <1>8
    <2> HIDE DEF i
    <2>3. Shows(g, i)
      BY <1>3, <1>5, <1>6, <2>1 DEF Shows
    <2>4. /\ flash' \in [Pages -> Sectors] /\ pages' \in [Pages -> PageInfos]
          /\ PagesAreTrue' /\ TombstonesAreKnown' /\ FlashIsBounded'
      BY <1>1, <1>3, <1>5, <1>6, <2>1, <2>2, <2>3, SectorStep
    <2>5. LogTypeOK'
      BY <1>8, <2>4, ConstantsAreTyped DEF LogInv, LogTypeOK, NoId
    <2>6. /\ flash'[x] = g /\ pages'[x] = i
          /\ \A q \in Pages \ {x} : flash'[q] = flash[q] /\ pages'[q] = pages[q]
      BY <1>1, <2>2
    <2>7. ActiveIsKept'
      <3>1. \A p \in Claimed(pages') : p \in Claimed(pages) /\ pages'[p].id = pages[p].id
                                       /\ pages'[p].marker = pages[p].marker
        BY <1>3, <2>1, <2>6 DEF Claimed
      <3>2. \A p \in Marked(pages') : p \in Marked(pages) /\ pages'[p].id = pages[p].id
        BY <3>1 DEF Marked
      <3>3. /\ \A p \in Claimed(pages) : pages[p].id < nextId
            /\ active < nextId /\ 0 < nextId
            /\ \A p \in Marked(pages) : pages[p].id # active
        BY <1>3 DEF LogInv, LogTypeOK, ActiveIsKept, IsPendingEviction
      <3>4. \A p \in Claimed(pages') : pages'[p].id < nextId'
        BY <1>8, <3>1, <3>3
      <3>5. active' < nextId'
        BY <1>8, <3>3 DEF NoId
      <3>6. active' # NoId => \A p \in Marked(pages') : pages'[p].id # active'
        BY <1>8, <3>2, <3>3
      <3> QED
        BY <3>4, <3>5, <3>6 DEF ActiveIsKept, IsPendingEviction
    <2>8. CurrentPageIsTrue'
      <3>1. currentPage' \in {x, NoPage} /\ pc' = "idle"
        BY <1>2, <1>8
      <3>2. flash'[x].header = "whole" /\ Len(flash'[x].records) = pages'[x].used
            /\ flash'[x].tail = "clean"
        BY <1>5, <1>6, <2>1, <2>6
      <3> QED
        BY <3>1, <3>2 DEF CurrentPageIsTrue
    <2>9. OperationIsSound'
      BY <1>8 DEF OperationIsSound, Writing
    <2> QED
      BY <2>4, <2>5, <2>7, <2>8, <2>9 DEF LogInv
  <1>9. ASSUME flash' \in {committed, [flash EXCEPT ![currentPage].tail = "torn"]},
               currentPage' = NoPage, Unwritten(1), UNCHANGED pages
        PROVE  LogInv'
    <2>1. PICK k \in Sectors : /\ flash' = [flash EXCEPT ![x] = k]
                               /\ Shows(k, pages[x]) /\ ~IsTombstone(k)
      <3>1. CASE flash' = committed
        BY <1>5, <1>6, <1>7, <3>1
      <3>2. CASE flash' = [flash EXCEPT ![currentPage].tail = "torn"]
        <4>1. PICK k : k = [flash[x] EXCEPT !.tail = "torn"]
          OBVIOUS
        <4>2. /\ k \in Sectors /\ k.header = flash[x].header
              /\ k.generation = flash[x].generation /\ k.id = flash[x].id
              /\ k.marker = flash[x].marker /\ k.records = flash[x].records
          BY <1>3, <4>1, TailChanges
        <4>3. Shows(k, pages[x]) /\ ~IsTombstone(k)
          BY <1>3, <4>2 DEF Shows, IsTombstone
        <4>4. flash' = [flash EXCEPT ![x] = k]
          BY <1>1, <1>2, <3>2, <4>1
        <4> QED
          BY <4>2, <4>3, <4>4
      <3> QED
        BY <1>9, <3>1, <3>2
    <2> QED
      BY <1>1, <1>2, <1>9, <2>1, RecordFails
  <1> QED
    BY <1>8, <1>9 DEF CommitRecord, committed

----------------------------------------------------------------------------
(* Startup, and what HistoryTask begins.                                     *)

\* An erased partition, before the scan.
LEMMA InitLog == Init => LogInv
  <1> SUFFICES ASSUME Init PROVE LogInv
    OBVIOUS
  <1>1. Claimed(pages) = {} /\ Marked(pages) = {}
    BY ConstantsAreTyped DEF Init, Claimed, Marked
  <1>2. LogTypeOK
    BY ConstantsAreTyped DEF Init, LogTypeOK, NoId
  <1>3. PagesAreTrue /\ TombstonesAreKnown /\ ActiveIsKept
    BY <1>1 DEF Init, PagesAreTrue, TombstonesAreKnown, ActiveIsKept, NoId
  <1>4. CurrentPageIsTrue /\ OperationIsSound
    BY DEF Init, CurrentPageIsTrue, OperationIsSound, Writing, NoId
  <1>5. FlashIsBounded
    <2>1. \A p \in Pages : flash[p].id < 1 /\ flash[p].generation < 1
      BY DEF Init, Erased, NoId
    <2> QED
      BY <2>1 DEF FlashIsBounded
  <1> QED
    BY <1>2, <1>3, <1>4, <1>5 DEF LogInv

\* What the constructor starts from, over the same flash.
LEMMA ResetKeeps == LogInv /\ Reset => LogInv'
  <1> SUFFICES ASSUME LogInv, Reset PROVE LogInv'
    OBVIOUS
  <1>1. Claimed(pages') = {} /\ Marked(pages') = {}
    BY ConstantsAreTyped DEF Reset, Constructed, Claimed, Marked
  <1>2. LogTypeOK'
    BY ConstantsAreTyped DEF LogInv, LogTypeOK, Reset, Constructed, NoId
  <1>3. PagesAreTrue' /\ TombstonesAreKnown' /\ ActiveIsKept'
    BY <1>1 DEF Reset, Constructed, PagesAreTrue, TombstonesAreKnown, ActiveIsKept, NoId
  <1>4. CurrentPageIsTrue' /\ OperationIsSound'
    BY DEF Reset, Constructed, CurrentPageIsTrue, OperationIsSound, Writing, NoId
  <1>5. FlashIsBounded'
    BY DEF LogInv, FlashIsBounded, Reset
  <1> QED
    BY <1>2, <1>3, <1>4, <1>5 DEF LogInv

\* A scan that fails leaves RAM as it was; it is tried again, or the log stays unused.
LEMMA ScanFailsKeeps == LogInv /\ ScanFails => LogInv'
  <1> SUFFICES ASSUME LogInv, ScanFails PROVE LogInv'
    OBVIOUS
  <1>1. /\ pc = "scan" /\ pc' \in {"scan", "stopped"} /\ active = NoId
        /\ UNCHANGED <<flash, pages, currentPage, active, nextId, nextGeneration,
                       nextSequence, job, target>>
    BY DEF ScanFails, InitializeFails, LogInv, OperationIsSound
  <1>2. LogTypeOK' /\ FlashIsBounded' /\ ActiveIsKept' /\ CurrentPageIsTrue'
    BY <1>1 DEF LogInv, LogTypeOK, FlashIsBounded, ActiveIsKept, IsPendingEviction,
       CurrentPageIsTrue
  <1>3. PagesAreTrue' /\ TombstonesAreKnown'
    BY <1>1 DEF LogInv, PagesAreTrue, TombstonesAreKnown, IsPendingEviction, IsFresh
  <1>4. OperationIsSound'
    BY <1>1 DEF OperationIsSound, Writing
  <1> QED
    BY <1>2, <1>3, <1>4 DEF LogInv

\* The scan believes the flash, and goes on counting after what it found.
LEMMA InitializeKeeps == LogInv /\ Initialize => LogInv'
  <1> SUFFICES ASSUME LogInv, Initialize PROVE LogInv'
    OBVIOUS
  <1> DEFINE found == [p \in Pages |-> ScanPage(flash[p])]
             Ids == {found[p].id + 1 : p \in Claimed(found)}
             Generations == {found[p].generation + 1 : p \in Claimed(found)}
  <1>1. /\ pc = "scan" /\ active = NoId
        /\ pages' = found
        /\ nextId' = Max({nextId} \cup Ids)
        /\ nextGeneration' = Max({nextGeneration} \cup Generations)
        /\ pc' = IF Marked(found) = {} THEN "idle" ELSE "recover"
        /\ UNCHANGED <<flash, currentPage, active, nextSequence, job, target>>
    BY DEF Initialize, LogInv, OperationIsSound
  <1>2. ASSUME NEW p \in Pages
        PROVE  /\ found[p] = ScanPage(flash[p]) /\ found[p] \in PageInfos
               /\ found[p].valid =>
                     Shows(flash[p], found[p]) /\ found[p].marker = flash[p].marker
               /\ found[p].valid <=> flash[p].header = "whole"
    <2>1. flash[p] \in Sectors
      BY DEF LogInv, LogTypeOK
    <2>2. flash[p].records \in Seq(RecordsOfLog)
      BY <2>1 DEF Sectors
    <2>3. Len(flash[p].records) \in Nat
      BY <2>2
    <2>4. found[p] = ScanPage(flash[p])
      OBVIOUS
    <2> HIDE DEF found
    <2>5. CASE flash[p].header = "whole"
      <3>1. found[p] = [valid |-> TRUE, generation |-> flash[p].generation,
                        id |-> flash[p].id, marker |-> flash[p].marker,
                        used |-> Len(flash[p].records)]
        BY <2>4, <2>5 DEF ScanPage
      <3>2. found[p] \in PageInfos
        BY <2>1, <2>3, <3>1 DEF PageInfos, Sectors
      <3> QED
        BY <2>3, <2>4, <2>5, <3>1, <3>2 DEF Shows
    <2>6. CASE flash[p].header # "whole"
      BY <2>4, <2>6, ConstantsAreTyped DEF ScanPage
    <2> QED
      BY <2>5, <2>6
  <1>3. pages' \in [Pages -> PageInfos]
    BY <1>1, <1>2
  <1> HIDE DEF found
  <1>4. PICK b \in Nat : \A p \in Pages : flash[p].id < b /\ flash[p].generation < b
    BY DEF LogInv, FlashIsBounded
  <1>5. ASSUME NEW p \in Claimed(found)
        PROVE  /\ found[p].id \in Nat /\ found[p].generation \in Nat
               /\ found[p].id < b /\ found[p].generation < b
    <2>1. p \in Pages /\ found[p].valid
      BY DEF Claimed
    <2>2. found[p] \in PageInfos /\ Shows(flash[p], found[p])
      BY <1>2, <2>1
    <2> QED
      BY <1>4, <2>1, <2>2 DEF Shows, PageInfos
  <1>6. nextId' \in Nat \ {0} /\ \A p \in Claimed(found) : found[p].id < nextId'
    <2> DEFINE S == {nextId} \cup Ids
    <2>1. nextId \in Nat \ {0}
      BY DEF LogInv, LogTypeOK
    <2>2. /\ S \in SUBSET Nat /\ S # {} /\ nextId + b \in Nat
          /\ \A k \in S : k <= nextId + b
      BY <1>5, <2>1
    <2>3. Max(S) \in S /\ \A k \in S : Max(S) >= k
      <3> HIDE DEF S
      <3> QED
        BY <2>2, MaxIsGreatest
    <2>4. Max(S) >= nextId /\ \A p \in Claimed(found) : Max(S) >= found[p].id + 1
      BY <2>3
    <2>5. Max(S) \in Nat
      BY <2>2, <2>3
    <2>6. nextId' = Max(S)
      BY <1>1
    <2> HIDE DEF S
    <2> QED
      BY <1>5, <2>1, <2>4, <2>5, <2>6
  <1>7. nextGeneration' \in Nat
    <2> DEFINE S == {nextGeneration} \cup Generations
    <2>1. nextGeneration \in Nat
      BY DEF LogInv, LogTypeOK
    <2>2. /\ S \in SUBSET Nat /\ S # {} /\ nextGeneration + b \in Nat
          /\ \A k \in S : k <= nextGeneration + b
      BY <1>5, <2>1
    <2>3. Max(S) \in S
      <3> HIDE DEF S
      <3> QED
        BY <2>2, MaxIsGreatest
    <2> QED
      BY <1>1, <2>2, <2>3
  <1>8. LogTypeOK'
    BY <1>1, <1>3, <1>6, <1>7 DEF LogInv, LogTypeOK
  <1>9. PagesAreTrue'
    BY <1>1, <1>2 DEF PagesAreTrue, Claimed
  <1>10. TombstonesAreKnown'
    BY <1>1, <1>2 DEF TombstonesAreKnown, IsTombstone, Claimed, Marked, Shows
  <1>11. ActiveIsKept' /\ CurrentPageIsTrue' /\ FlashIsBounded'
    BY <1>1, <1>6 DEF LogInv, ActiveIsKept, CurrentPageIsTrue, FlashIsBounded, NoId
  <1>12. OperationIsSound'
    BY <1>1 DEF OperationIsSound, Writing
  <1> QED
    BY <1>8, <1>9, <1>10, <1>11, <1>12 DEF LogInv

\* A new session gets an id that no page has.
LEMMA BeginKeeps == LogInv /\ BeginSession => LogInv'
  <1> SUFFICES ASSUME LogInv, BeginSession PROVE LogInv'
    OBVIOUS
  <1>1. /\ pc = "idle" /\ pc' = "select" /\ active' = nextId /\ nextId' = nextId + 1
        /\ nextSequence' = 1 /\ job' = [kind |-> "START", id |-> nextId, sequence |-> 0]
        /\ nextId \in Nat \ {0}
        /\ UNCHANGED <<flash, pages, currentPage, nextGeneration, target>>
    BY DEF BeginSession, LogInv, LogTypeOK
  <1>2. /\ \A p \in Claimed(pages) : pages[p].id < nextId /\ pages[p].id \in Nat
        /\ \A p \in Claimed(pages) : pages[p].id # nextId
    BY DEF LogInv, LogTypeOK, ActiveIsKept, Claimed, PageInfos
  <1>3. job' \in RecordsOfLog /\ job'.id = nextId
    BY <1>1 DEF RecordsOfLog, Kinds, Lifecycle
  <1>4. LogTypeOK' /\ FlashIsBounded'
    BY <1>1, <1>3 DEF LogInv, LogTypeOK, FlashIsBounded
  <1>5. PagesAreTrue' /\ TombstonesAreKnown'
    BY <1>1 DEF LogInv, PagesAreTrue, TombstonesAreKnown, IsPendingEviction, IsFresh
  <1>6. ActiveIsKept'
    <2>1. \A p \in Claimed(pages) : pages[p].id < nextId + 1
      BY <1>1, <1>2
    <2> QED
      BY <1>1, <1>2, <2>1 DEF ActiveIsKept, IsPendingEviction, Marked
  <1>7. CurrentPageIsTrue'
    <2>1. currentPage # NoPage => currentPage \in Pages
      BY DEF LogInv, LogTypeOK
    <2> QED
      BY <1>1, <1>2, <2>1 DEF CurrentPageIsTrue, Claimed
  <1>8. OperationIsSound'
    BY <1>1, <1>3 DEF OperationIsSound, Writing, NoId
  <1> QED
    BY <1>4, <1>5, <1>6, <1>7, <1>8 DEF LogInv

\* Another record of the active session.
LEMMA AppendKeeps ==
    ASSUME LogInv, NEW kind \in {"ORDINARY", "END"}, AppendRecord(kind)
    PROVE  LogInv'
  <1>1. /\ pc = "idle" /\ active # NoId /\ active \in Nat /\ nextSequence \in Nat
        /\ job' = [kind |-> kind, id |-> active, sequence |-> nextSequence]
        /\ nextSequence' = nextSequence + 1
        /\ pc' = IF RoomInCurrentPage THEN "record" ELSE "select"
        /\ UNCHANGED <<flash, pages, currentPage, active, nextId, nextGeneration, target>>
    BY DEF AppendRecord, SequenceAfter, LogInv, LogTypeOK
  <1>2. job' \in RecordsOfLog /\ job'.id = active
    BY <1>1 DEF RecordsOfLog, Kinds, Lifecycle
  <1>3. LogTypeOK' /\ FlashIsBounded'
    BY <1>1, <1>2 DEF LogInv, LogTypeOK, FlashIsBounded
  <1>4. PagesAreTrue' /\ TombstonesAreKnown'
    BY <1>1 DEF LogInv, PagesAreTrue, TombstonesAreKnown, IsPendingEviction, IsFresh
  <1>5. ActiveIsKept' /\ CurrentPageIsTrue'
    BY <1>1 DEF LogInv, ActiveIsKept, CurrentPageIsTrue, IsPendingEviction, IsFresh
  <1>6. OperationIsSound'
    BY <1>1, <1>2 DEF OperationIsSound, Writing, RoomInCurrentPage
  <1> QED
    BY <1>3, <1>4, <1>5, <1>6 DEF LogInv

----------------------------------------------------------------------------
(* The choice of a sector.                                                   *)

\* The session to be given up has a page, and is another than the one that needs it.
LEMMA VictimIsClaimed ==
    ASSUME LogTypeOK, NEW id, Victim(id) # NoId
    PROVE  Victim(id) # id /\ \E p \in Claimed(pages) : pages[p].id = Victim(id)
  <1> DEFINE others == {pages[p].id : p \in Claimed(pages)} \ {id}
             completed == {s \in others : HasEnd(s)}
  <1>1. ASSUME NEW s \in others PROVE OldestGeneration(s) \in Nat
    <2> DEFINE S == {pages[p].generation : p \in {q \in Claimed(pages) : pages[q].id = s}}
    <2>1. S \in SUBSET Nat
      BY DEF LogTypeOK, Claimed, PageInfos
    <2>2. S # {}
      BY <1>1
    <2>3. Min(S) \in S
      <3> HIDE DEF S
      <3> QED
        BY <2>1, <2>2, MinIsLeast
    <2> QED
      BY <2>1, <2>3 DEF OldestGeneration
  <1>2. ASSUME NEW ids \in SUBSET others, ids # {} PROVE OldestOf(ids) \in ids
    <2> HIDE DEF others
    <2> DEFINE S == {OldestGeneration(s) : s \in ids}
    <2>1. S \in SUBSET Nat /\ S # {}
      BY <1>1, <1>2
    <2>2. PICK g \in S : \A h \in S : g <= h
      <3> HIDE DEF S
      <3> QED
        BY <2>1, LeastExists
    <2>3. \E s \in ids : \A other \in ids : OldestGeneration(s) <= OldestGeneration(other)
      BY <2>2
    <2> QED
      BY <2>3 DEF OldestOf
  <1>3. Victim(id) \in others
    <2>1. completed \in SUBSET others
      OBVIOUS
    <2>2. Victim(id) = IF completed # {} THEN OldestOf(completed)
                       ELSE IF others # {} THEN OldestOf(others) ELSE NoId
      BY DEF Victim
    <2> HIDE DEF others, completed
    <2> QED
      BY <1>2, <2>1, <2>2
  <1> QED
    BY <1>3

\* An eviction goes on, a free page is taken, the oldest session is given up, or the
\* active session's own oldest page.
LEMMA SelectKeeps == LogInv /\ SelectPage => LogInv'
  <1> SUFFICES ASSUME LogInv, SelectPage PROVE LogInv'
    OBVIOUS
  <1> DEFINE unclaimed == Pages \ Claimed(pages)
             victim == Victim(job.id)
             oldest == CHOOSE p \in Pages :
                           \A q \in Pages : pages[p].generation <= pages[q].generation
  <1>1. /\ flash \in [Pages -> Sectors] /\ pages \in [Pages -> PageInfos] /\ pc = "select"
        /\ job.id = active /\ active # NoId
        /\ UNCHANGED <<flash, currentPage, active, nextId, nextGeneration,
                       nextSequence, job>>
    BY DEF LogInv, LogTypeOK, SelectPage, OperationIsSound, Writing
  <1>2. ASSUME UNCHANGED pages, target' \in Pages, pc' \in {"mark", "evict", "erase"},
               pc' = "mark" => /\ target' \in Claimed(pages) /\ Marked(pages) = {}
                               /\ pages[target'].id # job.id,
               pc' = "evict" => target' \in Marked(pages),
               pc' = "erase" => \/ ~pages[target'].valid
                                \/ target' \in Marked(pages) /\ Others(pages, target') = {}
        PROVE  LogInv'
    <2>1. LogTypeOK' /\ FlashIsBounded'
      BY <1>1, <1>2 DEF LogInv, LogTypeOK, FlashIsBounded
    <2>2. PagesAreTrue' /\ TombstonesAreKnown'
      BY <1>1, <1>2 DEF LogInv, PagesAreTrue, TombstonesAreKnown, IsPendingEviction, IsFresh
    <2>3. ActiveIsKept' /\ CurrentPageIsTrue'
      BY <1>1, <1>2 DEF LogInv, ActiveIsKept, CurrentPageIsTrue, IsPendingEviction, IsFresh
    <2>4. OperationIsSound'
      BY <1>1, <1>2 DEF OperationIsSound, Writing
    <2> QED
      BY <2>1, <2>2, <2>3, <2>4 DEF LogInv
  <1>3. CASE /\ Marked(pages) # {}
             /\ target' = Min(Marked(pages))
             /\ pc' = EvictOrErase(pages, target')
             /\ UNCHANGED pages
    <2>1. Marked(pages) \in SUBSET Nat
      BY ConstantsAreTyped DEF Marked, Claimed
    <2>2. target' \in Marked(pages)
      BY <1>3, <2>1, MinIsLeast
    <2>3. pc' = IF Others(pages, target') = {} THEN "erase" ELSE "evict"
      BY <1>3 DEF EvictOrErase
    <2> QED
      BY <1>2, <1>3, <2>2, <2>3 DEF Marked, Claimed
  <1>4. CASE /\ Marked(pages) = {} /\ unclaimed # {}
             /\ target' = Min(unclaimed)
             /\ pc' = "erase"
             /\ UNCHANGED pages
    <2>1. unclaimed \in SUBSET Nat
      BY ConstantsAreTyped
    <2>2. target' \in unclaimed
      BY <1>4, <2>1, MinIsLeast
    <2> QED
      BY <1>2, <1>4, <2>2 DEF Claimed
  <1>5. CASE /\ Marked(pages) = {} /\ unclaimed = {} /\ victim # NoId
             /\ target' = Min({p \in Pages : pages[p].id = victim})
             /\ pc' = "mark"
             /\ UNCHANGED pages
    <2> DEFINE S == {p \in Pages : pages[p].id = victim}
    <2>1. victim # job.id /\ \E p \in Claimed(pages) : pages[p].id = victim
      BY <1>5, VictimIsClaimed DEF LogInv
    <2>2. S \in SUBSET Nat /\ S # {}
      BY <2>1, ConstantsAreTyped DEF Claimed
    <2>3. target' \in S
      <3>1. target' = Min(S)
        BY <1>5
      <3> HIDE DEF S
      <3> QED
        BY <2>2, <3>1, MinIsLeast
    <2>4. target' \in Pages /\ pages[target'].id # job.id /\ target' \in Claimed(pages)
      BY <1>5, <2>1, <2>3
    <2> QED
      BY <1>2, <1>5, <2>4
  <1>6. CASE /\ Marked(pages) = {} /\ unclaimed = {} /\ victim = NoId
             /\ target' = oldest
             /\ pages' = [pages EXCEPT ![oldest] = Unclaimed]
             /\ pc' = "erase"
    <2>1. oldest \in Pages
      <3> DEFINE S == {pages[p].generation : p \in Pages}
      <3>1. 1 \in Pages
        BY LogAssumption DEF Pages
      <3>2. S \in SUBSET Nat /\ S # {}
        BY <1>1, <3>1 DEF PageInfos
      <3>3. PICK g \in S : \A h \in S : g <= h
        <4> HIDE DEF S
        <4> QED
          BY <3>2, LeastExists
      <3>4. \E p \in Pages : \A q \in Pages : pages[p].generation <= pages[q].generation
        BY <3>3
      <3> QED
        BY <3>4
    <2>2. PICK x \in Pages : x = oldest
      BY <2>1
    <2> HIDE DEF oldest
    <2>3. /\ flash' = [flash EXCEPT ![x] = flash[x]] /\ pages' = [pages EXCEPT ![x] = Unclaimed]
          /\ flash[x] \in Sectors
      BY <1>1, <1>6, <2>2, FlashIsItself
    <2>4. x \notin Marked(pages) /\ ~IsTombstone(flash[x])
      BY <1>1, <1>6 DEF LogInv, TombstonesAreKnown
    <2>5. /\ flash' \in [Pages -> Sectors] /\ pages' \in [Pages -> PageInfos]
          /\ PagesAreTrue' /\ TombstonesAreKnown' /\ FlashIsBounded'
      BY <1>1, <2>3, <2>4, ConstantsAreTyped, SectorStep
    <2>6. LogTypeOK'
      BY <1>1, <1>6, <2>2, <2>5 DEF LogInv, LogTypeOK
    <2>7. /\ pages'[x] = Unclaimed
          /\ \A q \in Pages \ {x} : pages'[q] = pages[q]
      BY <1>1, <2>3
    <2>8. ActiveIsKept'
      <3>1. \A p \in Claimed(pages') : p \in Claimed(pages) /\ pages'[p] = pages[p]
        BY <2>7, ConstantsAreTyped DEF Claimed
      <3>2. Marked(pages') = {}
        BY <1>6, <3>1 DEF Marked
      <3> QED
        BY <1>1, <3>1, <3>2 DEF LogInv, ActiveIsKept, IsPendingEviction
    <2>9. CurrentPageIsTrue'
      <3> SUFFICES ASSUME currentPage # NoPage, active # NoId,
                          pages'[currentPage].valid, pages'[currentPage].id = active
                   PROVE  /\ flash'[currentPage].header = "whole"
                          /\ Len(flash'[currentPage].records) = pages'[currentPage].used
                          /\ flash'[currentPage].tail = "clean"
        BY <1>1, <1>6 DEF CurrentPageIsTrue
      <3>1. currentPage \in Pages \ {x} /\ ~IsFresh(currentPage)
        BY <1>1, <2>7, ConstantsAreTyped DEF LogInv, LogTypeOK, IsFresh
      <3> QED
        BY <1>1, <2>7, <3>1 DEF LogInv, CurrentPageIsTrue
    <2>10. OperationIsSound'
      BY <1>1, <1>6, <2>2, <2>7, ConstantsAreTyped DEF OperationIsSound, Writing
    <2> QED
      BY <2>5, <2>6, <2>8, <2>9, <2>10 DEF LogInv
  <1> QED
    BY <1>3, <1>4, <1>5, <1>6 DEF SelectPage

----------------------------------------------------------------------------
(* What holds at every step.                                                 *)

\* Every step keeps the invariant.
LEMMA NextLog == LogInv /\ [Next]_vars => LogInv'
  <1> SUFFICES ASSUME LogInv, [Next]_vars PROVE LogInv'
    OBVIOUS
  <1>1. CASE UNCHANGED vars
    BY <1>1 DEF vars, LogInv, LogTypeOK, PagesAreTrue, TombstonesAreKnown, ActiveIsKept,
       CurrentPageIsTrue, OperationIsSound, FlashIsBounded, IsPendingEviction, IsFresh,
       Writing, RoomInCurrentPage
  <1>2. CASE FlashStep
    BY <1>2, InitializeKeeps, ScanFailsKeeps, RecoverKeeps, SelectKeeps, MarkKeeps,
       EvictPageKeeps, EraseKeeps, WriteHeaderKeeps, CommitHeaderKeeps, WriteRecordKeeps,
       CommitRecordKeeps DEF FlashStep
  <1>3. CASE BeginSession
    BY <1>3, BeginKeeps
  <1>4. ASSUME NEW kind \in {"ORDINARY", "END"}, AppendRecord(kind) PROVE LogInv'
    BY <1>4, AppendKeeps
  <1>5. CASE Reset
    BY <1>5, ResetKeeps
  <1> QED
    BY <1>1, <1>2, <1>3, <1>4, <1>5 DEF Next

\* The invariant of the log, for any partition, however often flash operations fail and
\* power is cut.
LEMMA LogSafe == Spec => []LogInv
  BY InitLog, NextLog, PTL DEF Spec

\* Programming goes to erased flash only: headers of select_page_for_reuse()'s sectors, and
\* records of append_assigned() behind the last committed one.
THEOREM ProgrammingSafe == Spec => []NothingIsProgrammedTwice
  <1>1. LogInv => NothingIsProgrammedTwice
    <2> SUFFICES ASSUME LogInv PROVE NothingIsProgrammedTwice
      OBVIOUS
    <2>1. pc = "header" => flash[target] = Erased
      BY DEF LogInv, OperationIsSound
    <2>2. ASSUME pc = "record"
          PROVE  /\ flash[currentPage].header = "whole"
                 /\ flash[currentPage].tail = "clean"
                 /\ Len(flash[currentPage].records) = pages[currentPage].used
                 /\ pages[currentPage].used < PageRecords
      BY <2>2, CurrentPageFacts DEF Shows
    <2> QED
      BY <2>1, <2>2 DEF NothingIsProgrammedTwice
  <1> QED
    BY <1>1, LogSafe, PTL

\* What sessions() and samples() return between two operations, a reset does not take back.
THEOREM QueriesSafe == Spec => []QueriesAreDurable
  <1>1. LogInv => QueriesAreDurable
    <2> SUFFICES ASSUME LogInv, pc \in {"idle", "stopped"}, NEW p \in Claimed(pages),
                        ~IsPendingEviction(pages[p].id)
                 PROVE  /\ p \in Visible
                        /\ flash[p].id = pages[p].id
                        /\ flash[p].generation = pages[p].generation
                        /\ pages[p].used <= Len(flash[p].records)
      BY DEF QueriesAreDurable
    <2>1. Shows(flash[p], pages[p]) /\ p \in Pages
      BY DEF LogInv, PagesAreTrue, IsFresh, Claimed
    <2>2. \A q \in Pages : IsTombstone(flash[q]) =>
              q \in Marked(pages) /\ pages[q].id = flash[q].id
      BY DEF LogInv, TombstonesAreKnown
    <2>3. flash[p].id \notin Tombstoned
      BY <2>1, <2>2 DEF Tombstoned, Whole, IsTombstone, Shows, IsPendingEviction
    <2>4. p \in Visible
      BY <2>1, <2>3 DEF Visible, Whole, Shows
    <2> QED
      BY <2>1, <2>4 DEF Shows
  <1> QED
    BY <1>1, LogSafe, PTL

----------------------------------------------------------------------------
(* The archive: what the flash and RAM's numbers have in common.             *)

Kept(f) == {f.records[n] : n \in 1 .. Len(f.records)}

\* A sector holds records of one session, as many as fit, and one carries a tombstone.
SectorsAreSound ==
    /\ \A p \in Whole :
        /\ flash[p].id # NoId
        /\ Len(flash[p].records) <= PageRecords
        /\ \A r \in Kept(flash[p]) :
            /\ r.id = flash[p].id
            /\ r \in HistoryRecords
            /\ r.kind = "START" <=> r.sequence = 0
    /\ \A p, q \in Pages : IsTombstone(flash[p]) /\ IsTombstone(flash[q]) => p = q

\* Later sessions have later generations, and so do the later records of a session.
SectorsAreInOrder ==
    \A p, q \in Whole : p # q =>
        /\ flash[p].generation # flash[q].generation
        /\ flash[p].id < flash[q].id => flash[p].generation < flash[q].generation
        /\ flash[p].id = flash[q].id /\ flash[p].generation < flash[q].generation =>
            \A r \in Kept(flash[p]), s \in Kept(flash[q]) : r.sequence < s.sequence

\* The numbers of sessions and records are those of HistoryRecords.
NumbersAreBounded ==
    /\ failures \in 0 .. MaxFailures
    /\ pending \in Lifecycle \cup {NoKind}
    /\ pc \in {"scan", "recover"} => pending = NoKind
    /\ active # NoId => active <= MaxSessions + failures
    /\ pc = "idle" =>
        /\ pending = "START" => nextId <= MaxSessions + failures
        /\ active # NoId => nextSequence # 0
        /\ active # NoId /\ pending = NoKind => nextSequence <= MaxSequence + 1
        /\ active # NoId /\ pending = "END" => nextSequence <= MaxSequence + 1 + failures
    /\ Writing =>
        /\ job.kind # "END" => nextSequence <= MaxSequence + 1
        /\ job.kind = "END" => nextSequence <= MaxSequence + 2 + failures

\* What RAM gives out next was never given out.
NumbersAreNew ==
    /\ \A p \in Whole : flash[p].id < nextId /\ flash[p].generation < nextGeneration
    /\ active # NoId => active = nextId - 1
    /\ pc \in {"header", "headerCommit"} =>
        /\ pages[target].generation < nextGeneration
        /\ \A p \in Whole : flash[p].generation < pages[target].generation

\* A record is the next of the newest session, and only an END that failed is repeated.
JobIsNext ==
    /\ Writing =>
        /\ job \in HistoryRecords
        /\ job.kind = "START" <=> job.sequence = 0
        /\ job.sequence < nextSequence
        /\ \A p \in Whole : flash[p].id = active =>
            \A r \in Kept(flash[p]) :
                r.sequence < job.sequence /\ (r.kind = "END" => job.kind = "END")
    /\ pc = "idle" /\ active # NoId =>
        \A p \in Whole : flash[p].id = active =>
            \A r \in Kept(flash[p]) :
                r.sequence < nextSequence /\ (r.kind = "END" => pending = "END")

\* RAM knows which sessions are complete, except the active one.
EndIsKnown(p) ==
    \/ pages[p].id = active
    \/ IsPendingEviction(pages[p].id)
    \/ \A r \in Kept(flash[p]) : r.kind = "END" => HasEnd(pages[p].id)

EndsAreKnown == \A p \in Claimed(pages) \cap Whole : EndIsKnown(p)

IdsAgree == \A p \in Claimed(pages) \cap Whole : flash[p].id = pages[p].id

\* RAM's one tombstone is on the flash, until the session's last sector is erased.
TombstoneIsAlone ==
    \A m \in Marked(pages) :
        /\ Marked(pages) = {m}
        /\ flash[m].header = "whole" => flash[m].marker
        /\ Others(pages, m) # {} => flash[m].header = "whole"

\* Sector p holds records, which RAM may have forgotten.
HasRecords(p) == flash[p].header = "whole" /\ Kept(flash[p]) # {}

\* RAM forgets records only to make room for the only session, and erases them next.
LooseRecords ==
    \A p \in Pages \ Claimed(pages) : HasRecords(p) =>
        /\ Marked(pages) = {}
        /\ Pages \ Claimed(pages) = {p}
        /\ pc \in {"idle", "select", "erase"}
        /\ active # NoId => ~RoomInCurrentPage
        /\ \A q \in Pages \ {p} : HasRecords(q) =>
            flash[q].id = flash[p].id /\ flash[p].generation < flash[q].generation

\* Where there is room, no later record of the session was written elsewhere.
RoomIsNewest ==
    active # NoId /\ RoomInCurrentPage /\ ~IsFresh(currentPage) =>
        \A q \in Whole :
            flash[q].id = active => flash[q].generation <= flash[currentPage].generation

\* A sector is looked for where there is no room, and a victim where all are claimed.
SelectionIsForced ==
    /\ pc \in {"select", "mark", "evict", "erase"} => ~RoomInCurrentPage
    /\ pc \in {"header", "headerCommit"} /\ RoomInCurrentPage => currentPage = target
    /\ pc = "mark" => Claimed(pages) = Pages /\ pages[target].id = Victim(active)

RamIsExact ==
    /\ NumbersAreNew
    /\ JobIsNext
    /\ EndsAreKnown
    /\ IdsAgree
    /\ TombstoneIsAlone
    /\ LooseRecords
    /\ RoomIsNewest
    /\ SelectionIsForced

\* A failed erase does not take the tombstone alone (FailedErase).
ArchiveInv ==
    /\ EraseKeepsMarker
    /\ SectorsAreSound
    /\ SectorsAreInOrder
    /\ NumbersAreBounded
    /\ pc \notin {"scan", "stopped"} => RamIsExact

----------------------------------------------------------------------------
(* What a step takes from the flash.                                         *)

\* Sector g holds nothing that f did not.
Loses(f, g) ==
    g.header = "whole" =>
        /\ f.header = "whole"
        /\ g.id = f.id /\ g.generation = f.generation /\ g.marker = f.marker
        /\ Len(g.records) <= Len(f.records)
        /\ Kept(g) \subseteq Kept(f)

FlashLoses == \A p \in Pages : Loses(flash[p], flash'[p])

\* The flash as it is, erased or torn loses.
LEMMA LosesOrNot ==
    ASSUME NEW f \in Sectors
    PROVE  Loses(f, f) /\ Loses(f, Erased) /\ Loses(f, Torn)
  <1>1. Erased.header = "erased" /\ Torn.header = "torn"
    BY DEF Erased, Torn
  <1>2. Len(f.records) \in Nat
    <2>1. f.records \in Seq(RecordsOfLog)
      BY DEF Sectors
    <2> QED
      BY <2>1
  <1> QED
    BY <1>1, <1>2 DEF Loses

\* So does an erase that fails, as long as it leaves the tombstone.
LEMMA FailedEraseLoses ==
    ASSUME EraseKeepsMarker, NEW f \in Sectors, NEW g \in FailedErase(f)
    PROVE  Loses(f, g)
  <1>1. ASSUME f.header = "whole", NEW n \in 0 .. Len(f.records) - 1,
               g = [f EXCEPT !.records = SubSeq(@, 1, n), !.tail = "torn"]
        PROVE  Loses(f, g)
    <2>1. f.records \in Seq(RecordsOfLog)
      BY DEF Sectors
    <2> DEFINE s == f.records
    <2>2. s \in Seq(RecordsOfLog) /\ Len(s) \in Nat /\ n \in 0 .. Len(s) - 1
      BY <1>1, <2>1
    <2> HIDE DEF s
    <2>3. /\ Len(SubSeq(s, 1, n)) = n /\ n <= Len(s)
          /\ \A m \in 1 .. n : SubSeq(s, 1, n)[m] = s[m]
      BY <2>2
    <2>4. /\ g.records = SubSeq(s, 1, n) /\ g.header = f.header /\ g.id = f.id
          /\ g.generation = f.generation /\ g.marker = f.marker
      BY <1>1 DEF Sectors, s
    <2>5. \A m \in 1 .. n : m \in 1 .. Len(s)
      BY <2>2
    <2>6. Kept(g) \subseteq {s[m] : m \in 1 .. Len(s)}
      BY <2>3, <2>4, <2>5 DEF Kept
    <2> QED
      BY <1>1, <2>3, <2>4, <2>6 DEF Loses, Kept, s
  <1>2. \/ g \in {f, Erased, Torn}
        \/ f.header = "whole" /\ \E n \in 0 .. Len(f.records) - 1 :
               g = [f EXCEPT !.records = SubSeq(@, 1, n), !.tail = "torn"]
    <2> DEFINE Shortened == {[f EXCEPT !.records = SubSeq(@, 1, n), !.tail = "torn"] :
                                n \in 0 .. Len(f.records) - 1}
    <2>1. g \in {f, Erased, Torn} \/ (f.header = "whole" /\ g \in Shortened)
      BY DEF FailedErase
    <2> QED
      BY <2>1
  <1> QED
    BY <1>1, <1>2, LosesOrNot

\* One sector loses.
LEMMA SectorLoses ==
    ASSUME LogInv, NEW x \in Pages, NEW g, flash' = [flash EXCEPT ![x] = g],
           Loses(flash[x], g)
    PROVE  FlashLoses
  <1>1. \A p \in Pages : flash[p] \in Sectors /\ flash'[p] = IF p = x THEN g ELSE flash[p]
    BY DEF LogInv, LogTypeOK
  <1> QED
    BY <1>1, LosesOrNot DEF FlashLoses

\* Nothing that is lost makes the sectors unsound or puts them out of order.
LEMMA LosingKeepsSectors ==
    ASSUME LogInv, LogInv', SectorsAreSound, SectorsAreInOrder, FlashLoses
    PROVE  SectorsAreSound' /\ SectorsAreInOrder'
  <1>1. \A p \in Pages : p \in Whole' =>
            /\ p \in Whole /\ flash'[p].id = flash[p].id
            /\ flash'[p].generation = flash[p].generation
            /\ flash'[p].marker = flash[p].marker
            /\ Len(flash'[p].records) <= Len(flash[p].records)
            /\ Kept(flash'[p]) \subseteq Kept(flash[p])
    BY DEF FlashLoses, Loses, Whole
  <1>2. \A p \in Pages : IsTombstone(flash'[p]) => IsTombstone(flash[p])
    BY <1>1 DEF IsTombstone, Whole
  <1>3. \A p \in Pages : Len(flash[p].records) \in Nat /\ Len(flash'[p].records) \in Nat
    <2>1. \A p \in Pages : /\ flash[p].records \in Seq(RecordsOfLog)
                           /\ flash'[p].records \in Seq(RecordsOfLog)
      BY DEF LogInv, LogTypeOK, Sectors
    <2> QED
      BY <2>1
  <1>4. \A p \in Whole' : p \in Pages
    BY DEF Whole
  <1>5. SectorsAreSound'
    <2>1. ASSUME NEW p \in Whole' PROVE Len(flash'[p].records) <= PageRecords
      <3>1. Len(flash[p].records) <= PageRecords
        BY <1>1, <1>4 DEF SectorsAreSound
      <3> QED
        BY <1>1, <1>3, <1>4, <3>1, LogAssumption
    <2> QED
      BY <1>1, <1>2, <1>4, <2>1 DEF SectorsAreSound
  <1>6. SectorsAreInOrder'
    BY <1>1, <1>4 DEF SectorsAreInOrder
  <1> QED
    BY <1>5, <1>6

----------------------------------------------------------------------------
(* The numbers.                                                              *)

\* What the sectors hold are records.
LEMMA KeptType ==
    ASSUME NEW f \in Sectors
    PROVE  /\ f.records \in Seq(RecordsOfLog) /\ Len(f.records) \in Nat
           /\ Kept(f) \subseteq RecordsOfLog
           /\ \A r \in Kept(f) : r.sequence \in Nat /\ r.id \in Nat
  <1> DEFINE s == f.records
  <1>1. s \in Seq(RecordsOfLog)
    BY DEF Sectors
  <1> HIDE DEF s
  <1>2. Len(s) \in Nat /\ \A n \in 1 .. Len(s) : s[n] \in RecordsOfLog
    BY <1>1
  <1>3. Kept(f) \subseteq RecordsOfLog
    BY <1>2 DEF Kept, s
  <1> QED
    BY <1>1, <1>2, <1>3 DEF RecordsOfLog, s

\* Every sector is one.
LEMMA SectorTypes ==
    LogInv => \A p \in Pages : flash[p] \in Sectors /\ pages[p] \in PageInfos
  BY DEF LogInv, LogTypeOK

\* The bounds are numbers.
LEMMA BoundsType ==
    ASSUME LogInv, NumbersAreBounded
    PROVE  /\ MaxSessions \in Nat /\ MaxSequence \in Nat /\ MaxFailures \in Nat
           /\ failures \in Nat /\ failures <= MaxFailures
           /\ active \in Nat /\ nextId \in Nat /\ nextSequence \in Nat
           /\ nextGeneration \in Nat /\ job.sequence \in Nat /\ job.id \in Nat
  BY LogAssumption DEF LogInv, LogTypeOK, NumbersAreBounded, RecordsOfLog

\* A record that is given up leaves the numbers in order, if the flash holds none behind it.
LEMMA AbandonNumbers ==
    ASSUME LogInv, LogInv', ArchiveInv, Writing, Fail, NEW n \in Nat, Unwritten(n),
           \A p \in Whole' : flash'[p].id < nextId /\ flash'[p].generation < nextGeneration,
           \A p \in Whole' : flash'[p].id = active =>
               \A r \in Kept(flash'[p]) :
                   r.sequence <= job.sequence /\ (r.kind = "END" => job.kind = "END")
    PROVE  /\ NumbersAreBounded'
           /\ pc' # "stopped" => NumbersAreNew' /\ JobIsNext' /\ SelectionIsForced'
  <1>1. /\ failures < MaxFailures /\ failures' = failures + 1
        /\ active' = IF job.kind = "START" THEN NoId ELSE active
        /\ pending' = IF job.kind \in Lifecycle /\ errors' < FailedThreshold
                      THEN job.kind ELSE NoKind
        /\ pc' = IF errors' < FailedThreshold THEN "idle" ELSE "stopped"
        /\ nextId' = nextId /\ nextGeneration' = nextGeneration
        /\ nextSequence' = nextSequence
    BY DEF Fail, Unwritten
  <1>2. RamIsExact /\ NumbersAreBounded
    BY DEF ArchiveInv, Writing
  <1>3. /\ active = nextId - 1 /\ active # NoId /\ job \in HistoryRecords
        /\ job.kind = "START" <=> job.sequence = 0
        /\ job.sequence < nextSequence
    BY <1>2 DEF RamIsExact, NumbersAreNew, JobIsNext, LogInv, OperationIsSound
  <1>4. job.kind \in {"START", "END", "ORDINARY"}
    BY <1>3 DEF HistoryRecords, Kinds, Lifecycle
  <1>5. /\ MaxSessions \in Nat /\ MaxSequence \in Nat /\ MaxFailures \in Nat
        /\ failures \in Nat /\ failures <= MaxFailures
        /\ active \in Nat /\ nextId \in Nat /\ nextSequence \in Nat
        /\ nextGeneration \in Nat /\ job.sequence \in Nat
    BY <1>2, BoundsType
  <1>6. NumbersAreBounded'
    <2>1. failures' \in 0 .. MaxFailures /\ pending' \in Lifecycle \cup {NoKind}
      BY <1>1, <1>5
    <2>2. pc' \notin {"scan", "recover"} /\ ~Writing'
      BY <1>1 DEF Writing
    <2>3. active' # NoId => active' <= MaxSessions + failures'
      BY <1>1, <1>2, <1>5 DEF NumbersAreBounded
    <2>4. pending' = "START" => nextId' <= MaxSessions + failures'
      <3>1. active <= MaxSessions + failures
        BY <1>2, <1>3 DEF NumbersAreBounded
      <3> QED
        BY <1>1, <1>3, <1>5, <3>1
    <2>5. nextSequence' # 0
      BY <1>1, <1>3, <1>5
    <2>6. pc' = "idle" /\ active' # NoId /\ pending' = NoKind => nextSequence' <= MaxSequence + 1
      BY <1>1, <1>2, <1>4 DEF NumbersAreBounded, Lifecycle, NoKind
    <2>7. active' # NoId /\ pending' = "END" => nextSequence' <= MaxSequence + 1 + failures'
      <3>1. pending' = "END" => job.kind = "END"
        BY <1>1 DEF NoKind
      <3>2. job.kind = "END" => nextSequence <= MaxSequence + 2 + failures
        BY <1>2 DEF NumbersAreBounded
      <3> QED
        BY <1>1, <1>5, <3>1, <3>2
    <2> QED
      BY <2>1, <2>2, <2>3, <2>4, <2>5, <2>6, <2>7 DEF NumbersAreBounded
  <1>7. NumbersAreNew'
    BY <1>1, <1>3 DEF NumbersAreNew
  <1>8. pc' # "stopped" => JobIsNext'
    <2> SUFFICES ASSUME pc' = "idle", active' # NoId, NEW p \in Whole', flash'[p].id = active',
                        NEW r \in Kept(flash'[p])
                 PROVE  r.sequence < nextSequence' /\ (r.kind = "END" => pending' = "END")
      BY <1>1 DEF JobIsNext, Writing
    <2>1. active' = active /\ job.kind # "START"
      BY <1>1
    <2>2. r.sequence <= job.sequence /\ (r.kind = "END" => job.kind = "END")
      BY <2>1
    <2>3. r.sequence \in Nat
      <3>1. flash'[p] \in Sectors
        BY DEF LogInv, LogTypeOK, Whole
      <3> QED
        BY <3>1, KeptType
    <2>4. r.kind = "END" => pending' = "END"
      BY <1>1, <2>2 DEF Lifecycle
    <2> QED
      BY <1>1, <1>3, <1>5, <2>2, <2>3, <2>4
  <1>9. pc' # "stopped" => SelectionIsForced'
    BY <1>1 DEF SelectionIsForced
  <1> QED
    BY <1>6, <1>7, <1>8, <1>9

\* What is lost was no later than the record that is given up.
LEMMA LossAbandons ==
    ASSUME LogInv, LogInv', ArchiveInv, Writing, Fail, NEW n \in Nat, Unwritten(n), FlashLoses
    PROVE  /\ NumbersAreBounded'
           /\ pc' # "stopped" => NumbersAreNew' /\ JobIsNext' /\ SelectionIsForced'
  <1>1. NumbersAreNew /\ JobIsNext
    BY DEF ArchiveInv, Writing, RamIsExact
  <1>2. \A p \in Whole' : /\ p \in Whole /\ p \in Pages
                          /\ flash'[p].id = flash[p].id
                          /\ flash'[p].generation = flash[p].generation
                          /\ Kept(flash'[p]) \subseteq Kept(flash[p])
    BY DEF FlashLoses, Loses, Whole
  <1>3. \A p \in Whole' : flash'[p].id < nextId /\ flash'[p].generation < nextGeneration
    BY <1>1, <1>2 DEF NumbersAreNew
  <1>4. ASSUME NEW p \in Whole', flash'[p].id = active, NEW r \in Kept(flash'[p])
        PROVE  r.sequence <= job.sequence /\ (r.kind = "END" => job.kind = "END")
    <2>1. r \in Kept(flash[p]) /\ p \in Whole /\ flash[p].id = active /\ p \in Pages
      BY <1>2, <1>4
    <2>2. r.sequence < job.sequence /\ (r.kind = "END" => job.kind = "END")
      BY <1>1, <2>1 DEF JobIsNext
    <2>3. r.sequence \in Nat /\ job.sequence \in Nat
      BY <2>1, SectorTypes, KeptType, BoundsType DEF ArchiveInv
    <2> QED
      BY <2>2, <2>3
  <1> QED
    BY <1>3, <1>4, AbandonNumbers

----------------------------------------------------------------------------
(* What RAM knows, when one sector changes.                                  *)

OneSector(x) == \A p \in Pages \ {x} : flash'[p] = flash[p] /\ pages'[p] = pages[p]

\* The ends of other sessions stay known.
LEMMA EndsStay ==
    ASSUME LogInv, EndsAreKnown, NEW x \in Pages, OneSector(x), NEW id,
           pages[x].valid => pages[x].id = id,
           x \in Claimed(pages') \cap Whole' => EndIsKnown(x)',
           \A p \in (Claimed(pages) \cap Whole) \ {x} :
               pages[p].id \in {id, active} => EndIsKnown(p)',
           \A p \in Claimed(pages) \ {x} :
               IsPendingEviction(pages[p].id) => IsPendingEviction(pages[p].id)'
    PROVE  EndsAreKnown'
  <1> SUFFICES ASSUME NEW p \in Claimed(pages') \cap Whole', p # x PROVE EndIsKnown(p)'
    BY DEF EndsAreKnown
  <1>1. /\ p \in (Claimed(pages) \cap Whole) \ {x} /\ p \in Pages
        /\ flash'[p] = flash[p] /\ pages'[p] = pages[p]
    BY DEF OneSector, Claimed, Whole
  <1>2. CASE pages[p].id \in {id, active} \/ IsPendingEviction(pages[p].id)
    BY <1>1, <1>2 DEF EndIsKnown
  <1>3. CASE pages[p].id \notin {id, active} /\ ~IsPendingEviction(pages[p].id)
    <2>1. ASSUME HasEnd(pages[p].id) PROVE HasEnd(pages[p].id)'
      <3>1. PICK q \in Claimed(pages) : /\ pages[q].id = pages[p].id
                                        /\ \E n \in 1..pages[q].used :
                                               flash[q].records[n].kind = "END"
        BY <2>1 DEF HasEnd
      <3>2. q \in Pages /\ q # x
        BY <1>3, <3>1 DEF Claimed
      <3>3. flash'[q] = flash[q] /\ pages'[q] = pages[q] /\ q \in Claimed(pages')
        BY <3>1, <3>2 DEF OneSector, Claimed
      <3> QED
        BY <1>1, <3>1, <3>3 DEF HasEnd
    <2>2. \A r \in Kept(flash[p]) : r.kind = "END" => HasEnd(pages[p].id)
      BY <1>1, <1>3 DEF EndsAreKnown, EndIsKnown
    <2> QED
      BY <1>1, <2>1, <2>2 DEF EndIsKnown
  <1> QED
    BY <1>2, <1>3

\* So do all, if no sector changes, and the session that was active has none.
LEMMA EndsAlone ==
    ASSUME EndsAreKnown, UNCHANGED <<flash, pages>>,
           \/ active' = active
           \/ \A p \in Claimed(pages) \cap Whole : pages[p].id = active =>
                  \A r \in Kept(flash[p]) : r.kind # "END"
    PROVE  EndsAreKnown'
  <1> SUFFICES ASSUME NEW p \in Claimed(pages) \cap Whole PROVE EndIsKnown(p)'
    BY DEF EndsAreKnown, Whole
  <1>1. EndIsKnown(p)
    BY DEF EndsAreKnown
  <1> QED
    BY <1>1 DEF EndIsKnown, HasEnd, IsPendingEviction

\* The sessions that RAM and the flash name.
LEMMA IdsStay ==
    ASSUME IdsAgree, NEW x \in Pages, OneSector(x),
           x \in Claimed(pages') \cap Whole' => flash'[x].id = pages'[x].id
    PROVE  IdsAgree'
  BY DEF IdsAgree, OneSector, Claimed, Whole

\* No records are loose that were not before.
LEMMA NothingIsLoose ==
    ASSUME LooseRecords, NEW x \in Pages, OneSector(x),
           Marked(pages) # {} \/ pc \notin {"idle", "select", "erase"},
           x \in Claimed(pages') \/ ~HasRecords(x)'
    PROVE  LooseRecords'
  BY DEF LooseRecords, OneSector, Claimed, HasRecords

\* The newest sector with room stays it.
LEMMA RoomStays ==
    ASSUME LogInv, RoomIsNewest, FlashLoses, active' \in {active, NoId},
           RoomInCurrentPage' /\ active' # NoId =>
               \/ IsFresh(currentPage)'
               \/ /\ RoomInCurrentPage /\ ~IsFresh(currentPage)
                  /\ currentPage' = currentPage /\ flash'[currentPage] = flash[currentPage]
    PROVE  RoomIsNewest'
  <1> SUFFICES ASSUME active' # NoId, RoomInCurrentPage', ~IsFresh(currentPage)',
                      NEW q \in Whole', flash'[q].id = active'
               PROVE  flash'[q].generation <= flash'[currentPage'].generation
    BY DEF RoomIsNewest
  <1>1. q \in Whole /\ flash'[q].id = flash[q].id /\ flash'[q].generation = flash[q].generation
    BY DEF FlashLoses, Loses, Whole
  <1> QED
    BY <1>1 DEF RoomIsNewest

----------------------------------------------------------------------------
(* The archive at startup.                                                   *)

\* An erased flash is an empty archive.
LEMMA InitArchive == EraseKeepsMarker /\ Init => ArchiveInv
  <1> SUFFICES ASSUME EraseKeepsMarker, Init PROVE ArchiveInv
    OBVIOUS
  <1>1. Whole = {} /\ \A p \in Pages : ~IsTombstone(flash[p])
    BY DEF Init, Whole, Erased, IsTombstone
  <1>2. SectorsAreSound /\ SectorsAreInOrder
    BY <1>1 DEF SectorsAreSound, SectorsAreInOrder
  <1>3. NumbersAreBounded
    BY LogAssumption DEF Init, NumbersAreBounded, NoId, NoKind, Writing, Lifecycle
  <1> QED
    BY <1>2, <1>3 DEF ArchiveInv, Init

\* A power cut takes nothing from the flash.
LEMMA ResetArchive == LogInv /\ ArchiveInv /\ Reset => ArchiveInv'
  <1> SUFFICES ASSUME LogInv, ArchiveInv, Reset PROVE ArchiveInv'
    OBVIOUS
  <1>1. SectorsAreSound' /\ SectorsAreInOrder'
    BY DEF ArchiveInv, Reset, SectorsAreSound, SectorsAreInOrder, Whole
  <1>2. NumbersAreBounded'
    BY DEF ArchiveInv, Reset, Constructed, NumbersAreBounded, NoId, NoKind, Writing, Lifecycle
  <1> QED
    BY <1>1, <1>2 DEF ArchiveInv, Reset, Constructed

\* Neither does a scan that fails.
LEMMA ScanFailsArchive == LogInv /\ ArchiveInv /\ ScanFails => ArchiveInv'
  <1> SUFFICES ASSUME LogInv, ArchiveInv, ScanFails PROVE ArchiveInv'
    OBVIOUS
  <1>1. /\ pc' \in {"scan", "stopped"} /\ active = NoId /\ active' = NoId
        /\ flash' = flash /\ pending' = pending /\ pc = "scan"
        /\ failures < MaxFailures /\ failures' = failures + 1
    BY DEF ScanFails, InitializeFails, Fail, LogInv, OperationIsSound
  <1>2. SectorsAreSound' /\ SectorsAreInOrder'
    BY <1>1 DEF ArchiveInv, SectorsAreSound, SectorsAreInOrder, Whole
  <1>3. NumbersAreBounded'
    BY <1>1, LogAssumption DEF ArchiveInv, NumbersAreBounded, Writing
  <1> QED
    BY <1>1, <1>2, <1>3 DEF ArchiveInv

\* A scan that succeeds knows the flash.
LEMMA InitializeArchive == LogInv /\ LogInv' /\ ArchiveInv /\ Initialize => ArchiveInv'
  <1> SUFFICES ASSUME LogInv, LogInv', ArchiveInv, Initialize PROVE ArchiveInv'
    OBVIOUS
  <1> DEFINE found == [p \in Pages |-> ScanPage(flash[p])]
             Ids == {found[p].id + 1 : p \in Claimed(found)}
             Generations == {found[p].generation + 1 : p \in Claimed(found)}
  <1>1. /\ pc = "scan" /\ active = NoId
        /\ pages' = found
        /\ nextId' = Max({nextId} \cup Ids)
        /\ nextGeneration' = Max({nextGeneration} \cup Generations)
        /\ pc' \in {"idle", "recover"}
        /\ UNCHANGED <<flash, currentPage, active, nextSequence, job, target, pending, failures>>
    BY DEF Initialize, LogInv, OperationIsSound
  <1>2. ASSUME NEW p \in Pages
        PROVE  /\ found[p].valid <=> flash[p].header = "whole"
               /\ found[p].valid =>
                     /\ found[p].generation = flash[p].generation /\ found[p].id = flash[p].id
                     /\ found[p].marker = flash[p].marker
                     /\ found[p].used = Len(flash[p].records)
    <2>1. CASE flash[p].header = "whole"
      BY <2>1 DEF ScanPage
    <2>2. CASE flash[p].header # "whole"
      BY <2>2, ConstantsAreTyped DEF ScanPage
    <2> QED
      BY <2>1, <2>2
  <1>3. /\ Claimed(found) = Whole
        /\ Marked(found) = {p \in Pages : IsTombstone(flash[p])}
    BY <1>2 DEF Claimed, Whole, Marked, IsTombstone
  <1> HIDE DEF found
  <1>4. \A p \in Pages : /\ flash[p].id \in Nat /\ flash[p].generation \in Nat
                         /\ flash[p].records \in Seq(RecordsOfLog)
    BY DEF LogInv, LogTypeOK, Sectors
  <1>5. PICK b \in Nat : \A p \in Pages : flash[p].id < b /\ flash[p].generation < b
    BY DEF LogInv, FlashIsBounded
  <1>6. \A p \in Whole : /\ p \in Pages /\ found[p].id = flash[p].id
                         /\ found[p].generation = flash[p].generation
    BY <1>2 DEF Whole
  <1>7. \A p \in Whole : flash[p].id < nextId'
    <2> DEFINE S == {nextId} \cup Ids
    <2>1. nextId \in Nat
      BY DEF LogInv, LogTypeOK
    <2>2. /\ S \in SUBSET Nat /\ S # {} /\ nextId + b \in Nat
          /\ \A k \in S : k <= nextId + b
      BY <1>3, <1>4, <1>5, <1>6, <2>1
    <2>3. Max(S) \in S /\ \A k \in S : Max(S) >= k
      <3> HIDE DEF S
      <3> QED
        BY <2>2, MaxIsGreatest
    <2>4. \A p \in Whole : Max(S) >= found[p].id + 1
      BY <1>3, <2>3
    <2>5. Max(S) \in Nat
      BY <2>2, <2>3
    <2>6. nextId' = Max(S)
      BY <1>1
    <2> HIDE DEF S
    <2> QED
      BY <1>4, <1>6, <2>4, <2>5, <2>6
  <1>8. \A p \in Whole : flash[p].generation < nextGeneration'
    <2> DEFINE S == {nextGeneration} \cup Generations
    <2>1. nextGeneration \in Nat
      BY DEF LogInv, LogTypeOK
    <2>2. /\ S \in SUBSET Nat /\ S # {} /\ nextGeneration + b \in Nat
          /\ \A k \in S : k <= nextGeneration + b
      BY <1>3, <1>4, <1>5, <1>6, <2>1
    <2>3. Max(S) \in S /\ \A k \in S : Max(S) >= k
      <3> HIDE DEF S
      <3> QED
        BY <2>2, MaxIsGreatest
    <2>4. \A p \in Whole : Max(S) >= found[p].generation + 1
      BY <1>3, <2>3
    <2>5. Max(S) \in Nat
      BY <2>2, <2>3
    <2>6. nextGeneration' = Max(S)
      BY <1>1
    <2> HIDE DEF S
    <2> QED
      BY <1>4, <1>6, <2>4, <2>5, <2>6
  <1>9. SectorsAreSound' /\ SectorsAreInOrder'
    BY <1>1 DEF ArchiveInv, SectorsAreSound, SectorsAreInOrder, Whole
  <1>10. NumbersAreBounded'
    BY <1>1 DEF ArchiveInv, NumbersAreBounded, Writing, NoKind
  <1>11. NumbersAreNew' /\ JobIsNext' /\ RoomIsNewest' /\ SelectionIsForced'
    <2>1. Whole' = Whole
      BY <1>1 DEF Whole
    <2>2. NumbersAreNew'
      BY <1>1, <1>7, <1>8, <2>1 DEF NumbersAreNew
    <2> QED
      BY <1>1, <2>2 DEF JobIsNext, RoomIsNewest, SelectionIsForced, Writing
  <1>12. EndsAreKnown'
    <2> SUFFICES ASSUME NEW p \in Whole', p \in Claimed(pages'), NEW r \in Kept(flash'[p]),
                        r.kind = "END"
                 PROVE  HasEnd(pages[p].id)'
      BY DEF EndsAreKnown, EndIsKnown
    <2>1. p \in Pages /\ p \in Whole /\ flash' = flash /\ r \in Kept(flash[p])
      BY <1>1 DEF Whole
    <2>2. PICK n \in 1 .. Len(flash[p].records) : flash[p].records[n] = r
      BY <2>1 DEF Kept
    <2>3. pages'[p].used = Len(flash[p].records)
      BY <1>1, <1>2, <2>1 DEF Whole
    <2> QED
      BY <2>1, <2>2, <2>3 DEF HasEnd
  <1>13. IdsAgree'
    BY <1>1, <1>6 DEF IdsAgree, Whole
  <1>14. TombstoneIsAlone'
    <2>1. \A p, q \in Marked(found) : p = q
      BY <1>3 DEF ArchiveInv, SectorsAreSound
    <2> QED
      BY <1>1, <1>3, <2>1 DEF TombstoneIsAlone, IsTombstone
  <1>15. LooseRecords'
    BY <1>1, <1>3 DEF LooseRecords, HasRecords, Whole
  <1> QED
    BY <1>1, <1>9, <1>10, <1>11, <1>12, <1>13, <1>14, <1>15 DEF ArchiveInv, RamIsExact

----------------------------------------------------------------------------
(* The archive when a session or a record begins.                            *)

\* The session's id is one that no sector has.
LEMMA BeginArchive == LogInv /\ LogInv' /\ ArchiveInv /\ BeginSession => ArchiveInv'
  <1> SUFFICES ASSUME LogInv, LogInv', ArchiveInv, BeginSession PROVE ArchiveInv'
    OBVIOUS
  <1>1. /\ pc = "idle" /\ (pending = "START" \/ (pending = NoKind /\ nextId <= MaxSessions))
        /\ active' = nextId /\ nextId' = nextId + 1 /\ nextSequence' = 1
        /\ job' = [kind |-> "START", id |-> nextId, sequence |-> 0]
        /\ pc' = "select"
        /\ UNCHANGED <<flash, pages, currentPage, nextGeneration, errors, pending,
                       target, failures, resets>>
    BY DEF BeginSession
  <1>2. RamIsExact /\ NumbersAreBounded /\ SectorsAreSound /\ SectorsAreInOrder /\ EraseKeepsMarker
    BY <1>1 DEF ArchiveInv
  <1>3. nextId \in Nat \ {0} /\ Whole' = Whole
    BY <1>1 DEF LogInv, LogTypeOK, Whole
  <1>4. /\ MaxSessions \in Nat /\ MaxSequence \in Nat /\ MaxFailures \in Nat
        /\ failures \in Nat /\ failures <= MaxFailures
    BY <1>2, BoundsType
  <1>5. nextId <= MaxSessions + failures
    BY <1>1, <1>2, <1>3, <1>4 DEF NumbersAreBounded
  <1>6. SectorsAreSound' /\ SectorsAreInOrder'
    BY <1>1, <1>2 DEF SectorsAreSound, SectorsAreInOrder, Whole
  <1>7. NumbersAreBounded'
    BY <1>1, <1>2, <1>4, <1>5 DEF NumbersAreBounded
  <1>8. \A p \in Whole : flash[p].id \in Nat /\ flash[p].id < nextId /\ flash[p].generation < nextGeneration
    BY <1>2 DEF RamIsExact, NumbersAreNew, LogInv, LogTypeOK, Sectors, Whole
  <1>9. NumbersAreNew'
    BY <1>1, <1>3, <1>8 DEF NumbersAreNew
  <1>10. JobIsNext'
    <2>1. job' \in HistoryRecords
      BY <1>1, <1>3, <1>4, <1>5 DEF HistoryRecords, Kinds, Lifecycle
    <2>2. \A p \in Whole : flash[p].id # nextId
      BY <1>3, <1>8
    <2> QED
      BY <1>1, <1>3, <2>1, <2>2 DEF JobIsNext
  <1>11. EndsAreKnown'
    <2>1. \A p \in Claimed(pages) \cap Whole : pages[p].id = active =>
              \A r \in Kept(flash[p]) : r.kind # "END"
      <3> SUFFICES ASSUME NEW p \in Claimed(pages) \cap Whole, pages[p].id = active,
                          NEW r \in Kept(flash[p])
                   PROVE  r.kind # "END"
        OBVIOUS
      <3>1. flash[p].id = active /\ active # NoId
        BY <1>2 DEF RamIsExact, IdsAgree, SectorsAreSound
      <3>2. r.kind = "END" => pending = "END"
        BY <1>1, <1>2, <3>1 DEF RamIsExact, JobIsNext
      <3> QED
        BY <1>1, <3>2 DEF NoKind
    <2> QED
      BY <1>1, <1>2, <2>1, EndsAlone DEF RamIsExact
  <1>12. IdsAgree' /\ TombstoneIsAlone'
    BY <1>1, <1>2, <1>3 DEF RamIsExact, IdsAgree, TombstoneIsAlone
  <1>13. ~RoomInCurrentPage'
    <2>1. currentPage # NoPage /\ pages[currentPage].valid => currentPage \in Claimed(pages)
      BY DEF LogInv, LogTypeOK, Claimed
    <2>2. \A p \in Claimed(pages) : pages[p].id \in Nat /\ pages[p].id < nextId
      BY DEF LogInv, LogTypeOK, ActiveIsKept, PageInfos, Claimed
    <2> QED
      BY <1>1, <1>3, <2>1, <2>2 DEF RoomInCurrentPage
  <1>14. LooseRecords'
    BY <1>1, <1>2, <1>13 DEF RamIsExact, LooseRecords, HasRecords
  <1>15. RoomIsNewest' /\ SelectionIsForced'
    BY <1>1, <1>13 DEF RoomIsNewest, SelectionIsForced
  <1> QED
    BY <1>2, <1>6, <1>7, <1>9, <1>10, <1>11, <1>12, <1>14, <1>15 DEF ArchiveInv, RamIsExact

\* The record's number follows that of every record of the session.
LEMMA AppendArchive ==
    ASSUME LogInv, LogInv', ArchiveInv, NEW kind \in {"ORDINARY", "END"}, AppendRecord(kind)
    PROVE  ArchiveInv'
  <1>1. /\ pc = "idle" /\ active # NoId
        /\ \/ pending = kind
           \/ pending = NoKind /\ (kind = "END" \/ nextSequence <= MaxSequence)
        /\ job' = [kind |-> kind, id |-> active, sequence |-> nextSequence]
        /\ nextSequence' = nextSequence + 1
        /\ pc' = IF RoomInCurrentPage THEN "record" ELSE "select"
        /\ UNCHANGED <<flash, pages, currentPage, active, nextId, nextGeneration,
                       errors, pending, target, failures, resets>>
    BY DEF AppendRecord, SequenceAfter
  <1>2. RamIsExact /\ NumbersAreBounded /\ SectorsAreSound /\ SectorsAreInOrder /\ EraseKeepsMarker
    BY <1>1 DEF ArchiveInv
  <1>3. /\ MaxSessions \in Nat /\ MaxSequence \in Nat /\ MaxFailures \in Nat
        /\ failures \in Nat /\ failures <= MaxFailures /\ active \in Nat /\ nextSequence \in Nat
    BY <1>2, BoundsType
  <1>4. /\ Whole' = Whole /\ pc' \in {"record", "select"}
        /\ active <= MaxSessions + failures /\ nextSequence # 0
        /\ pending = NoKind => nextSequence <= MaxSequence + 1
        /\ pending = "END" => nextSequence <= MaxSequence + 1 + failures
        /\ pending \in Lifecycle \cup {NoKind}
    BY <1>1, <1>2 DEF Whole, NumbersAreBounded
  <1>5. \/ pending = "END" /\ kind = "END"
        \/ pending = NoKind /\ (kind = "END" \/ nextSequence <= MaxSequence)
    BY <1>1, <1>4 DEF Lifecycle, NoKind
  <1>6. SectorsAreSound' /\ SectorsAreInOrder'
    BY <1>1, <1>2 DEF SectorsAreSound, SectorsAreInOrder, Whole
  <1>7. NumbersAreBounded'
    <2>1. kind # "END" => nextSequence + 1 <= MaxSequence + 1
      BY <1>3, <1>5
    <2>2. kind = "END" => nextSequence + 1 <= MaxSequence + 2 + failures
      BY <1>3, <1>4, <1>5
    <2>3. job'.kind = kind
      BY <1>1
    <2> QED
      BY <1>1, <1>2, <1>4, <2>1, <2>2, <2>3 DEF NumbersAreBounded
  <1>8. NumbersAreNew'
    BY <1>1, <1>2, <1>4 DEF RamIsExact, NumbersAreNew
  <1>9. JobIsNext'
    <2>1. active \in 1 .. (MaxSessions + MaxFailures)
      BY <1>1, <1>3, <1>4 DEF NoId
    <2>2. nextSequence \in 0 .. (MaxSequence + MaxFailures + 1)
      BY <1>3, <1>4, <1>5
    <2>3. job' \in HistoryRecords
      BY <1>1, <2>1, <2>2 DEF HistoryRecords, Kinds, Lifecycle
    <2>4. /\ job'.kind = kind /\ job'.sequence = nextSequence
      BY <1>1
    <2>5. \A p \in Whole : flash[p].id = active =>
              \A r \in Kept(flash[p]) : r.sequence < nextSequence /\ (r.kind = "END" => kind = "END")
      BY <1>1, <1>2, <1>5 DEF RamIsExact, JobIsNext, NoKind
    <2> QED
      BY <1>1, <1>3, <1>4, <2>3, <2>4, <2>5 DEF JobIsNext
  <1>10. EndsAreKnown'
    BY <1>1, <1>2, EndsAlone DEF RamIsExact
  <1>11. IdsAgree' /\ TombstoneIsAlone'
    BY <1>1, <1>2, <1>4 DEF RamIsExact, IdsAgree, TombstoneIsAlone
  <1>12. RoomInCurrentPage' <=> RoomInCurrentPage
    BY <1>1 DEF RoomInCurrentPage
  <1>13. LooseRecords'
    BY <1>1, <1>2, <1>12 DEF RamIsExact, LooseRecords, HasRecords
  <1>14. RoomIsNewest' /\ SelectionIsForced'
    BY <1>1, <1>2, <1>4, <1>12 DEF RamIsExact, RoomIsNewest, SelectionIsForced, IsFresh
  <1> QED
    BY <1>2, <1>4, <1>6, <1>7, <1>8, <1>9, <1>10, <1>11, <1>13, <1>14 DEF ArchiveInv, RamIsExact

----------------------------------------------------------------------------
(* A record that is given up.                                                *)

\* The session of a START that fails has no records.
LEMMA StartIsFirst ==
    ASSUME LogInv, ArchiveInv, Writing, job.kind = "START", NEW p \in Whole, flash[p].id = active
    PROVE  Kept(flash[p]) = {}
  <1>1. JobIsNext /\ NumbersAreBounded
    BY DEF ArchiveInv, Writing, RamIsExact
  <1>2. job.sequence = 0
    BY <1>1 DEF JobIsNext
  <1>3. \A r \in Kept(flash[p]) : r.sequence < 0 /\ r.sequence \in Nat
    <2>1. flash[p] \in Sectors
      BY DEF LogInv, LogTypeOK, Whole
    <2> QED
      BY <1>1, <1>2, <2>1, KeptType DEF JobIsNext
  <1> QED
    BY <1>3

\* Records that were loose are so still, and no others are.
LEMMA LooseStay ==
    ASSUME LooseRecords, FlashLoses, UNCHANGED pages, pc' = "idle",
           active' # NoId => ~RoomInCurrentPage'
    PROVE  LooseRecords'
  <1> SUFFICES ASSUME NEW p \in Pages \ Claimed(pages), HasRecords(p)'
               PROVE  /\ Marked(pages) = {}
                      /\ Pages \ Claimed(pages) = {p}
                      /\ \A q \in Pages \ {p} : HasRecords(q)' =>
                            flash'[q].id = flash'[p].id /\ flash'[p].generation < flash'[q].generation
    BY DEF LooseRecords
  <1>1. \A q \in Pages : HasRecords(q)' => /\ HasRecords(q) /\ flash'[q].id = flash[q].id
                                           /\ flash'[q].generation = flash[q].generation
    BY DEF FlashLoses, Loses, HasRecords
  <1> QED
    BY <1>1 DEF LooseRecords

\* A step gives the record up, and the sector it was about loses.
LEMMA GiveUp ==
    ASSUME LogInv, LogInv', ArchiveInv, Writing, Fail, NEW n \in Nat, Unwritten(n),
           NEW x \in Pages, OneSector(x), FlashLoses,
           \/ UNCHANGED pages
           \/ /\ pc \in {"header", "headerCommit"} /\ pages' = [pages EXCEPT ![x] = Unclaimed]
              /\ pages[x].id = active /\ x \notin Marked(pages) /\ ~HasRecords(x)',
           \/ flash' = flash
           \/ x \notin Claimed(pages')
           \/ pages[x].id = active
           \/ IsPendingEviction(pages[x].id),
           x \in Marked(pages) => Others(pages, x) = {},
           active' # NoId => ~RoomInCurrentPage'
    PROVE  ArchiveInv'
  <1>1. /\ EraseKeepsMarker /\ SectorsAreSound /\ SectorsAreInOrder /\ NumbersAreBounded /\ RamIsExact
    BY DEF ArchiveInv, Writing
  <1>2. SectorsAreSound' /\ SectorsAreInOrder'
    BY <1>1, LosingKeepsSectors
  <1>3. /\ NumbersAreBounded'
        /\ pc' # "stopped" => NumbersAreNew' /\ JobIsNext' /\ SelectionIsForced'
    BY LossAbandons
  <1>4. /\ pc' \in {"idle", "stopped"}
        /\ active' = IF job.kind = "START" THEN NoId ELSE active
    BY DEF Unwritten
  <1>5. /\ pages \in [Pages -> PageInfos]
        /\ \A p \in Pages \ {x} : flash'[p] = flash[p] /\ pages'[p] = pages[p]
        /\ \A p \in Pages : pages'[p] = pages[p] \/ pages'[p] = Unclaimed
    BY DEF OneSector, LogInv, LogTypeOK
  <1>6. /\ Claimed(pages') \subseteq Claimed(pages) /\ Marked(pages') = Marked(pages)
        /\ \A p \in Claimed(pages') : pages'[p] = pages[p] /\ p \in Pages
    <2>1. \A p \in Pages : pages'[p].valid => pages'[p] = pages[p]
      BY <1>5, ConstantsAreTyped
    <2>2. \A p \in Marked(pages) : p \in Pages /\ pages'[p] = pages[p]
      <3>1. \A p \in Marked(pages) : p \in Pages
        BY DEF Marked, Claimed
      <3>2. x \in Marked(pages) => pages' = pages
        OBVIOUS
      <3> QED
        BY <1>5, <3>1, <3>2
    <2> QED
      BY <2>1, <2>2 DEF Claimed, Marked
  <1>7. \A p \in Marked(pages) : pages'[p] = pages[p]
    BY <1>6 DEF Marked
  <1>8. \A id : IsPendingEviction(id)' <=> IsPendingEviction(id)
    BY <1>6, <1>7 DEF IsPendingEviction
  <1>9. Whole' \subseteq Whole /\ \A p \in Whole' : /\ p \in Pages
                                                    /\ flash'[p].id = flash[p].id
                                                    /\ flash'[p].marker = flash[p].marker
                                                    /\ Kept(flash'[p]) \subseteq Kept(flash[p])
    BY DEF Whole, FlashLoses, Loses
  <1>10. ASSUME NEW p \in Claimed(pages') \cap Whole', pages[p].id = active
         PROVE  EndIsKnown(p)'
    <2>1. pages'[p] = pages[p] /\ p \in Claimed(pages) \cap Whole
      BY <1>6, <1>9
    <2>2. CASE active' = active
      BY <1>10, <2>1, <2>2 DEF EndIsKnown
    <2>3. CASE job.kind = "START"
      <3>1. flash[p].id = active
        BY <1>1, <1>10, <2>1 DEF RamIsExact, IdsAgree
      <3>2. Kept(flash'[p]) = {}
        BY <1>9, <2>1, <2>3, <3>1, StartIsFirst
      <3> QED
        BY <3>2 DEF EndIsKnown
    <2> QED
      BY <1>4, <2>2, <2>3
  <1>11. EndsAreKnown'
    <2>1. CASE flash' = flash /\ UNCHANGED pages
      <3> SUFFICES ASSUME NEW p \in Claimed(pages) \cap Whole, pages[p].id # active PROVE EndIsKnown(p)'
        BY <1>10, <2>1 DEF EndsAreKnown, Whole
      <3>1. EndIsKnown(p)
        BY <1>1 DEF RamIsExact, EndsAreKnown
      <3> QED
        BY <2>1, <3>1 DEF EndIsKnown, HasEnd, IsPendingEviction
    <2>2. ASSUME NEW id, pages[x].valid => pages[x].id = id,
                 id = active \/ IsPendingEviction(id)
          PROVE  EndsAreKnown'
      <3>1. ASSUME x \in Claimed(pages') \cap Whole' PROVE EndIsKnown(x)'
        <4>1. pages'[x] = pages[x] /\ x \in Claimed(pages) /\ pages[x].id = id
          BY <1>6, <2>2, <3>1 DEF Claimed
        <4> QED
          BY <1>8, <1>10, <2>2, <3>1, <4>1 DEF EndIsKnown
      <3>2. ASSUME NEW p \in (Claimed(pages) \cap Whole) \ {x}, pages[p].id \in {id, active}
            PROVE  EndIsKnown(p)'
        <4>1. p \in Claimed(pages') \cap Whole' /\ pages'[p] = pages[p]
          BY <1>5 DEF Claimed, Whole
        <4>2. pages[p].id = active \/ IsPendingEviction(pages[p].id)
          BY <2>2, <3>2
        <4> QED
          BY <1>8, <1>10, <4>1, <4>2 DEF EndIsKnown
      <3>3. \A p \in Claimed(pages) \ {x} :
                IsPendingEviction(pages[p].id) => IsPendingEviction(pages[p].id)'
        <4> SUFFICES ASSUME NEW p \in Claimed(pages) \ {x}, IsPendingEviction(pages[p].id)
                     PROVE  IsPendingEviction(pages[p].id)'
          OBVIOUS
        <4>1. pages'[p] = pages[p]
          BY <1>5 DEF Claimed
        <4> QED
          BY <1>8, <4>1
      <3> QED
        BY <1>1, <2>2, <3>1, <3>2, <3>3, EndsStay DEF RamIsExact
    <2>3. CASE x \in Claimed(pages)
      BY <2>1, <2>2, <2>3 DEF Claimed
    <2>4. CASE x \notin Claimed(pages)
      <3>1. pages[x].valid => pages[x].id = active
        BY <2>4 DEF Claimed
      <3> QED
        BY <2>2, <3>1
    <2> QED
      BY <2>3, <2>4
  <1>12. IdsAgree'
    BY <1>1, <1>6, <1>9 DEF RamIsExact, IdsAgree
  <1>13. TombstoneIsAlone'
    <2> SUFFICES ASSUME NEW m \in Marked(pages)
                 PROVE  /\ Marked(pages) = {m}
                        /\ flash'[m].header = "whole" => flash'[m].marker
                        /\ Others(pages', m) # {} => flash'[m].header = "whole"
      BY <1>6 DEF TombstoneIsAlone
    <2>1. /\ Marked(pages) = {m}
          /\ flash[m].header = "whole" => flash[m].marker
          /\ Others(pages, m) # {} => flash[m].header = "whole"
      BY <1>1 DEF RamIsExact, TombstoneIsAlone
    <2>2. m \in Pages
      BY DEF Marked, Claimed
    <2>3. Others(pages', m) \subseteq Others(pages, m)
      BY <1>6, <1>7 DEF Others
    <2> QED
      BY <1>5, <1>9, <2>1, <2>2, <2>3 DEF Whole
  <1>14. pc' # "stopped" => LooseRecords'
    <2>1. CASE UNCHANGED pages
      BY <1>1, <1>4, <2>1, LooseStay DEF RamIsExact
    <2>2. CASE pc \in {"header", "headerCommit"} /\ ~HasRecords(x)'
      BY <1>1, <2>2, NothingIsLoose DEF RamIsExact
    <2> QED
      BY <2>1, <2>2
  <1>15. RoomIsNewest'
    BY DEF RoomIsNewest
  <1> QED
    BY <1>1, <1>2, <1>3, <1>11, <1>12, <1>13, <1>14, <1>15 DEF ArchiveInv, RamIsExact

----------------------------------------------------------------------------
(* The session to give up.                                                   *)

\* A session that RAM knows has an oldest page.
LEMMA OldestIsThere ==
    ASSUME LogTypeOK, NEW id, NEW q \in Claimed(pages), pages[q].id = id
    PROVE  \E p \in Claimed(pages) : /\ pages[p].id = id
                                     /\ pages[p].generation = OldestGeneration(id)
                                     /\ OldestGeneration(id) \in Nat
                                     /\ OldestGeneration(id) <= pages[q].generation
  <1> DEFINE S == {pages[p].generation : p \in {k \in Claimed(pages) : pages[k].id = id}}
  <1>1. S \in SUBSET Nat
    BY DEF LogTypeOK, Claimed, PageInfos
  <1>2. pages[q].generation \in S
    OBVIOUS
  <1>3. Min(S) \in S /\ Min(S) <= pages[q].generation
    <2> HIDE DEF S
    <2> QED
      BY <1>1, <1>2, MinIsLeast
  <1>4. OldestGeneration(id) = Min(S)
    BY DEF OldestGeneration
  <1>5. Min(S) \in Nat
    BY <1>1, <1>3
  <1>6. \E p \in Claimed(pages) : pages[p].id = id /\ pages[p].generation = Min(S)
    BY <1>3
  <1> QED
    BY <1>3, <1>4, <1>5, <1>6

\* The victim is the oldest of the other sessions that are complete, or else of them all.
LEMMA VictimIsOldest ==
    ASSUME LogTypeOK, NEW id, NEW p \in Claimed(pages), pages[p].id # id
    PROVE  LET others == {pages[q].id : q \in Claimed(pages)} \ {id}
               completed == {s \in others : HasEnd(s)}
               v == Victim(id)
           IN  /\ v \in others
               /\ completed # {} => v \in completed
               /\ \A s \in completed : OldestGeneration(v) <= OldestGeneration(s)
               /\ completed = {} => \A s \in others : OldestGeneration(v) <= OldestGeneration(s)
  <1> DEFINE others == {pages[q].id : q \in Claimed(pages)} \ {id}
             completed == {s \in others : HasEnd(s)}
             v == Victim(id)
  <1>1. ASSUME NEW ids \in SUBSET others, ids # {}
        PROVE  /\ OldestOf(ids) \in ids
               /\ \A s \in ids : OldestGeneration(OldestOf(ids)) <= OldestGeneration(s)
    <2>1. ASSUME NEW s \in others PROVE OldestGeneration(s) \in Nat
      <3>1. PICK q \in Claimed(pages) : pages[q].id = s
        OBVIOUS
      <3> QED
        BY <3>1, OldestIsThere
    <2> HIDE DEF others
    <2> DEFINE S == {OldestGeneration(s) : s \in ids}
    <2>2. S \in SUBSET Nat /\ S # {}
      BY <1>1, <2>1
    <2>3. PICK g \in S : \A h \in S : g <= h
      <3> HIDE DEF S
      <3> QED
        BY <2>2, LeastExists
    <2>4. \E s \in ids : \A other \in ids : OldestGeneration(s) <= OldestGeneration(other)
      BY <2>3
    <2> QED
      BY <2>4 DEF OldestOf
  <1>2. others # {} /\ completed \in SUBSET others
    OBVIOUS
  <1>3. v = IF completed # {} THEN OldestOf(completed)
            ELSE IF others # {} THEN OldestOf(others) ELSE NoId
    BY DEF Victim
  <1> HIDE DEF others, completed, v
  <1>4. /\ v \in others
        /\ completed # {} => v \in completed
        /\ \A s \in completed : OldestGeneration(v) <= OldestGeneration(s)
        /\ completed = {} => \A s \in others : OldestGeneration(v) <= OldestGeneration(s)
    BY <1>1, <1>2, <1>3
  <1> QED
    BY <1>4 DEF others, completed, v

\* While no session is being evicted, RAM's sectors are on the flash.
LEMMA ClaimedAreWhole ==
    ASSUME LogInv, Marked(pages) = {}, pc \notin {"header", "headerCommit"}, NEW p \in Claimed(pages)
    PROVE  p \in Pages /\ p \in Whole /\ Shows(flash[p], pages[p])
  BY DEF LogInv, PagesAreTrue, IsPendingEviction, IsFresh, Claimed, Shows, Whole

\* The choice of a sector.
LEMMA SelectArchive == LogInv /\ LogInv' /\ ArchiveInv /\ SelectPage => ArchiveInv'
  <1> SUFFICES ASSUME LogInv, LogInv', ArchiveInv, SelectPage PROVE ArchiveInv'
    OBVIOUS
  <1> DEFINE unclaimed == Pages \ Claimed(pages)
             victim == Victim(job.id)
             oldest == CHOOSE p \in Pages :
                           \A q \in Pages : pages[p].generation <= pages[q].generation
  <1>1. /\ flash \in [Pages -> Sectors] /\ pages \in [Pages -> PageInfos] /\ pc = "select"
        /\ job.id = active /\ active # NoId
        /\ UNCHANGED <<flash, currentPage, active, nextId, nextGeneration,
                       nextSequence, job, pending, failures>>
    BY DEF LogInv, LogTypeOK, SelectPage, OperationIsSound, Writing
  <1>2. /\ EraseKeepsMarker /\ SectorsAreSound /\ SectorsAreInOrder /\ NumbersAreBounded /\ RamIsExact
    BY <1>1 DEF ArchiveInv
  <1>3. Whole' = Whole /\ SectorsAreSound' /\ SectorsAreInOrder'
    BY <1>1, <1>2 DEF Whole, SectorsAreSound, SectorsAreInOrder
  <1>4. ASSUME pc' \in {"mark", "evict", "erase"}
        PROVE  NumbersAreBounded' /\ NumbersAreNew' /\ JobIsNext'
    <2>1. Writing /\ Writing'
      BY <1>1, <1>4 DEF Writing
    <2>2. NumbersAreBounded'
      BY <1>1, <1>2, <1>4, <2>1 DEF NumbersAreBounded
    <2>3. NumbersAreNew'
      BY <1>1, <1>2, <1>3, <1>4 DEF RamIsExact, NumbersAreNew
    <2>4. JobIsNext'
      BY <1>1, <1>2, <1>3, <1>4, <2>1 DEF RamIsExact, JobIsNext
    <2> QED
      BY <2>2, <2>3, <2>4
  <1>5. ASSUME UNCHANGED pages, pc' \in {"mark", "evict", "erase"},
               pc' \in {"mark", "evict"} => unclaimed = {} \/ Marked(pages) # {},
               pc' = "mark" => Claimed(pages) = Pages /\ pages[target'].id = victim
        PROVE  ArchiveInv'
    <2>1. ~RoomInCurrentPage /\ ~RoomInCurrentPage'
      BY <1>1, <1>2, <1>5 DEF RamIsExact, SelectionIsForced, RoomInCurrentPage
    <2>2. EndsAreKnown'
      BY <1>1, <1>2, <1>5, EndsAlone DEF RamIsExact
    <2>3. IdsAgree' /\ TombstoneIsAlone'
      BY <1>1, <1>2, <1>3, <1>5 DEF RamIsExact, IdsAgree, TombstoneIsAlone
    <2>4. LooseRecords'
      <3> SUFFICES ASSUME NEW p \in unclaimed, HasRecords(p)
                   PROVE  /\ Marked(pages) = {}
                          /\ unclaimed = {p}
                          /\ \A q \in Pages \ {p} : HasRecords(q) =>
                                flash[q].id = flash[p].id /\ flash[p].generation < flash[q].generation
                          /\ pc' = "erase"
        BY <1>1, <1>5, <2>1 DEF LooseRecords, HasRecords
      <3> QED
        BY <1>2, <1>5 DEF RamIsExact, LooseRecords
    <2>5. RoomIsNewest'
      BY <2>1 DEF RoomIsNewest
    <2>6. SelectionIsForced'
      <3>1. Victim(active)' = Victim(active)
        BY <1>1, <1>5 DEF Victim, HasEnd, OldestOf, OldestGeneration
      <3> QED
        BY <1>1, <1>5, <2>1, <3>1 DEF SelectionIsForced
    <2> QED
      BY <1>2, <1>3, <1>4, <1>5, <2>2, <2>3, <2>4, <2>5, <2>6 DEF ArchiveInv, RamIsExact
  <1>6. CASE /\ Marked(pages) # {}
             /\ target' = Min(Marked(pages))
             /\ pc' = EvictOrErase(pages, target')
             /\ UNCHANGED pages
    BY <1>5, <1>6 DEF EvictOrErase
  <1>7. CASE /\ Marked(pages) = {} /\ unclaimed # {}
             /\ target' = Min(unclaimed)
             /\ pc' = "erase"
             /\ UNCHANGED pages
    BY <1>5, <1>7
  <1>8. CASE /\ Marked(pages) = {} /\ unclaimed = {} /\ victim # NoId
             /\ target' = Min({p \in Pages : pages[p].id = victim})
             /\ pc' = "mark"
             /\ UNCHANGED pages
    <2> DEFINE S == {p \in Pages : pages[p].id = victim}
    <2>1. \E p \in Claimed(pages) : pages[p].id = victim
      BY <1>8, VictimIsClaimed DEF LogInv
    <2>2. S \in SUBSET Nat /\ S # {}
      BY <2>1, ConstantsAreTyped DEF Claimed
    <2>3. target' \in S
      <3>1. target' = Min(S)
        BY <1>8
      <3> HIDE DEF S
      <3> QED
        BY <2>2, <3>1, MinIsLeast
    <2>4. Claimed(pages) = Pages
      BY <1>8 DEF Claimed
    <2> QED
      BY <1>5, <1>8, <2>3, <2>4
  <1>9. CASE /\ Marked(pages) = {} /\ unclaimed = {} /\ victim = NoId
             /\ target' = oldest
             /\ pages' = [pages EXCEPT ![oldest] = Unclaimed]
             /\ pc' = "erase"
    <2>1. oldest \in Pages /\ \A q \in Pages : pages[oldest].generation <= pages[q].generation
      <3> DEFINE S == {pages[p].generation : p \in Pages}
      <3>1. 1 \in Pages
        BY LogAssumption DEF Pages
      <3>2. S \in SUBSET Nat /\ S # {}
        BY <1>1, <3>1 DEF PageInfos
      <3>3. PICK g \in S : \A h \in S : g <= h
        <4> HIDE DEF S
        <4> QED
          BY <3>2, LeastExists
      <3>4. \E p \in Pages : \A q \in Pages : pages[p].generation <= pages[q].generation
        BY <3>3
      <3> QED
        BY <3>4
    <2>2. PICK x \in Pages : x = oldest /\ \A q \in Pages : pages[x].generation <= pages[q].generation
      BY <2>1
    <2> HIDE DEF oldest
    <2>3. /\ pages'[x] = Unclaimed
          /\ \A q \in Pages \ {x} : pages'[q] = pages[q]
          /\ OneSector(x)
      BY <1>1, <1>9, <2>2 DEF OneSector
    <2>4. \A p \in Pages : p \in Claimed(pages) /\ p \in Whole /\ Shows(flash[p], pages[p])
      BY <1>1, <1>9, ClaimedAreWhole
    <2>5. \A p \in Pages : pages[p].id = active
      <3> SUFFICES ASSUME NEW p \in Pages, pages[p].id # active PROVE FALSE
        OBVIOUS
      <3> DEFINE others == {pages[q].id : q \in Claimed(pages)} \ {active}
      <3>1. Victim(active) \in others
        BY <2>4, VictimIsOldest DEF LogInv
      <3>2. PICK q \in Claimed(pages) : pages[q].id = NoId
        BY <1>1, <1>9, <3>1
      <3>3. q \in Whole /\ flash[q].id = NoId
        BY <2>4, <3>2 DEF Claimed, Shows
      <3> QED
        BY <1>2, <3>3 DEF SectorsAreSound
    <2>6. \A p \in Pages : flash[p].id = active /\ flash[p].generation = pages[p].generation
      BY <2>4, <2>5 DEF Shows
    <2>7. /\ Claimed(pages') = Pages \ {x}
          /\ Marked(pages') = {}
      BY <1>9, <2>3, <2>4, ConstantsAreTyped DEF Claimed, Marked
    <2>8. ~RoomInCurrentPage /\ ~RoomInCurrentPage'
      <3>1. ~RoomInCurrentPage
        BY <1>1, <1>2 DEF RamIsExact, SelectionIsForced
      <3>2. currentPage # NoPage => currentPage \in Pages
        BY DEF LogInv, LogTypeOK
      <3> QED
        BY <1>1, <2>3, <3>1, <3>2, ConstantsAreTyped DEF RoomInCurrentPage
    <2>9. EndsAreKnown'
      BY <1>1, <2>3, <2>5, <2>7 DEF EndsAreKnown, EndIsKnown, Claimed
    <2>10. IdsAgree'
      BY <1>1, <2>3, <2>5, <2>6, <2>7 DEF IdsAgree, Claimed
    <2>11. TombstoneIsAlone'
      BY <2>7 DEF TombstoneIsAlone
    <2>12. LooseRecords'
      <3>1. Pages \ Claimed(pages') = {x}
        BY <2>7
      <3>2. ASSUME NEW q \in Pages \ {x} PROVE flash[q].id = flash[x].id /\ flash[x].generation < flash[q].generation
        <4>1. flash[x].generation <= flash[q].generation
          BY <2>2, <2>6
        <4>2. flash[x].generation # flash[q].generation
          BY <1>2, <2>4 DEF SectorsAreInOrder
        <4>3. flash[x].generation \in Nat /\ flash[q].generation \in Nat
          BY <1>1 DEF Sectors
        <4> QED
          BY <2>6, <4>1, <4>2, <4>3
      <3> QED
        BY <1>1, <1>9, <2>7, <2>8, <3>1, <3>2 DEF LooseRecords
    <2>13. RoomIsNewest' /\ SelectionIsForced'
      BY <1>9, <2>8 DEF RoomIsNewest, SelectionIsForced
    <2> QED
      BY <1>2, <1>3, <1>4, <1>9, <2>9, <2>10, <2>11, <2>12, <2>13 DEF ArchiveInv, RamIsExact
  <1> QED
    BY <1>6, <1>7, <1>8, <1>9 DEF SelectPage

----------------------------------------------------------------------------
(* The archive while a session is evicted.                                   *)

\* A larger number of failures allows more.
LEMMA Exceeds ==
    ASSUME NEW a \in Nat, NEW b \in Nat, NEW c \in Nat, NEW d \in Nat, c <= d
    PROVE  (a <= b + c => a <= b + d) /\ (a <= b + 2 + c => a <= b + 2 + d)
  OBVIOUS

\* A tombstone changes nothing else.
LEMMA MarkArchive == LogInv /\ LogInv' /\ ArchiveInv /\ MarkVictim => ArchiveInv'
  <1> SUFFICES ASSUME LogInv, LogInv', ArchiveInv, MarkVictim PROVE ArchiveInv'
    OBVIOUS
  <1>1. /\ flash \in [Pages -> Sectors] /\ pages \in [Pages -> PageInfos] /\ pc = "mark"
        /\ target \in Claimed(pages) /\ target \in Pages /\ pages[target].id # active
        /\ Marked(pages) = {} /\ job.id = active /\ active # NoId
        /\ currentPage' = currentPage /\ Writing
    BY DEF LogInv, LogTypeOK, MarkVictim, OperationIsSound, Writing, Claimed
  <1>2. /\ EraseKeepsMarker /\ SectorsAreSound /\ SectorsAreInOrder /\ NumbersAreBounded /\ RamIsExact
    BY <1>1 DEF ArchiveInv
  <1>3. PICK x \in Pages : x = target
    BY <1>1
  <1>4. ~RoomInCurrentPage
    BY <1>1, <1>2 DEF RamIsExact, SelectionIsForced
  <1>5. x \in Whole /\ Shows(flash[x], pages[x]) /\ Claimed(pages) = Pages
    BY <1>1, <1>2, <1>3, ClaimedAreWhole DEF RamIsExact, SelectionIsForced
  <1>6. CASE /\ flash' = [flash EXCEPT ![target].marker = TRUE]
             /\ pages' = [pages EXCEPT ![target].marker = TRUE]
             /\ pc' = EvictOrErase(pages', target)
             /\ UNCHANGED <<active, nextId, nextGeneration, nextSequence,
                            pending, job, target, resets>>
             /\ failures' = failures \/ Fail
    <2>1. /\ \A q \in Pages \ {x} : flash'[q] = flash[q] /\ pages'[q] = pages[q]
          /\ flash'[x] = [flash[x] EXCEPT !.marker = TRUE]
          /\ pages'[x] = [pages[x] EXCEPT !.marker = TRUE]
      BY <1>1, <1>3, <1>6
    <2>2. /\ flash[x] \in Sectors /\ pages[x] \in PageInfos
      BY <1>1
    <2>3. /\ flash'[x].header = flash[x].header /\ flash'[x].generation = flash[x].generation
          /\ flash'[x].id = flash[x].id /\ flash'[x].records = flash[x].records /\ flash'[x].marker
          /\ pages'[x].valid = pages[x].valid /\ pages'[x].generation = pages[x].generation
          /\ pages'[x].id = pages[x].id /\ pages'[x].used = pages[x].used /\ pages'[x].marker
      BY <2>1, <2>2 DEF Sectors, PageInfos
    <2>4. \A p \in Pages : /\ flash'[p].header = flash[p].header
                           /\ flash'[p].generation = flash[p].generation
                           /\ flash'[p].id = flash[p].id /\ flash'[p].records = flash[p].records
                           /\ pages'[p].valid = pages[p].valid /\ pages'[p].id = pages[p].id
                           /\ pages'[p].generation = pages[p].generation
                           /\ pages'[p].used = pages[p].used
      BY <2>1, <2>3
    <2>5. /\ Whole' = Whole /\ \A p \in Pages : Kept(flash'[p]) = Kept(flash[p])
          /\ Claimed(pages') = Pages
      BY <1>5, <2>4 DEF Whole, Kept, Claimed
    <2>6. \A p \in Pages \ {x} : ~IsTombstone(flash'[p])
      BY <1>1, <2>1 DEF LogInv, TombstonesAreKnown
    <2>7. Marked(pages') = {x}
      <3>1. \A q \in Pages \ {x} : ~(pages[q].valid /\ pages[q].marker)
        BY <1>1 DEF Marked, Claimed
      <3>2. pages[x].valid
        BY <1>5 DEF Claimed
      <3> QED
        BY <2>1, <2>3, <3>1, <3>2 DEF Marked, Claimed
    <2>8. pc' \in {"evict", "erase"} /\ Writing'
      BY <1>6 DEF EvictOrErase, Writing
    <2>9. SectorsAreSound'
      <3>1. \A p, q \in Pages : IsTombstone(flash'[p]) /\ IsTombstone(flash'[q]) => p = q
        BY <2>6
      <3>2. \A p \in Whole : p \in Pages
        BY DEF Whole
      <3> QED
        BY <1>2, <2>4, <2>5, <3>1, <3>2 DEF SectorsAreSound
    <2>10. SectorsAreInOrder'
      <3>1. \A p \in Whole : p \in Pages
        BY DEF Whole
      <3> QED
        BY <1>2, <2>4, <2>5, <3>1 DEF SectorsAreInOrder
    <2>11. NumbersAreBounded'
      <3>1. /\ failures \in Nat /\ failures' \in 0 .. MaxFailures /\ failures <= failures'
            /\ failures' \in Nat /\ MaxSessions \in Nat /\ MaxSequence \in Nat
            /\ active \in Nat /\ nextSequence \in Nat
        BY <1>2, <1>6, BoundsType DEF Fail, NumbersAreBounded
      <3>2. /\ active <= MaxSessions + failures
            /\ job.kind # "END" => nextSequence <= MaxSequence + 1
            /\ job.kind = "END" => nextSequence <= MaxSequence + 2 + failures
            /\ pending \in Lifecycle \cup {NoKind}
        BY <1>1, <1>2 DEF NumbersAreBounded
      <3>3. active <= MaxSessions + failures'
        BY <3>1, <3>2, Exceeds
      <3>4. job.kind = "END" => nextSequence <= MaxSequence + 2 + failures'
        BY <3>1, <3>2, Exceeds
      <3> QED
        BY <1>6, <2>8, <3>1, <3>2, <3>3, <3>4 DEF NumbersAreBounded
    <2>12. NumbersAreNew'
      <3>1. \A p \in Whole : flash'[p].id < nextId /\ flash'[p].generation < nextGeneration
        BY <1>2, <2>4 DEF RamIsExact, NumbersAreNew, Whole
      <3>2. active = nextId - 1
        BY <1>1, <1>2 DEF RamIsExact, NumbersAreNew
      <3> QED
        BY <1>6, <2>5, <2>8, <3>1, <3>2 DEF NumbersAreNew
    <2>13. JobIsNext'
      <3>1. \A p \in Whole : flash'[p].id = flash[p].id /\ Kept(flash'[p]) = Kept(flash[p])
        BY <2>4, <2>5 DEF Whole
      <3>2. JobIsNext
        BY <1>2 DEF RamIsExact
      <3>3. job' = job /\ nextSequence' = nextSequence /\ active' = active /\ pc' # "idle"
        BY <1>6, <2>8
      <3> QED
        BY <1>1, <2>5, <3>1, <3>2, <3>3 DEF JobIsNext
    <2>14. EndsAreKnown'
      <3>1. OneSector(x)
        BY <2>1 DEF OneSector
      <3>2. IsPendingEviction(pages[x].id)'
        BY <2>3, <2>7 DEF IsPendingEviction
      <3>3. EndIsKnown(x)'
        BY <2>3, <3>2 DEF EndIsKnown
      <3>4. ASSUME NEW p \in (Claimed(pages) \cap Whole) \ {x}, pages[p].id \in {pages[x].id, active}
            PROVE  EndIsKnown(p)'
        <4>1. pages'[p].id = pages[p].id
          BY <2>4 DEF Whole
        <4>2. pages[p].id = pages[x].id => IsPendingEviction(pages[p].id)'
          BY <2>3, <2>7, <4>1 DEF IsPendingEviction
        <4> QED
          BY <1>6, <3>4, <4>1, <4>2 DEF EndIsKnown
      <3>5. \A id : ~IsPendingEviction(id)
        BY <1>1 DEF IsPendingEviction
      <3> QED
        BY <1>2, <3>1, <3>3, <3>4, <3>5, EndsStay DEF RamIsExact
    <2>15. IdsAgree'
      <3>1. \A p \in Whole : p \in Pages
        BY DEF Whole
      <3> QED
        BY <1>2, <1>5, <2>4, <2>5, <3>1 DEF RamIsExact, IdsAgree
    <2>16. TombstoneIsAlone'
      BY <1>5, <2>3, <2>7 DEF TombstoneIsAlone, Whole
    <2>17. LooseRecords'
      BY <2>5 DEF LooseRecords
    <2>18. ~RoomInCurrentPage'
      <3>1. currentPage # NoPage => currentPage \in Pages
        BY DEF LogInv, LogTypeOK
      <3> QED
        BY <1>1, <1>4, <1>6, <2>4, <3>1 DEF RoomInCurrentPage
    <2>19. RoomIsNewest' /\ SelectionIsForced'
      BY <2>8, <2>18 DEF RoomIsNewest, SelectionIsForced
    <2> QED
      BY <1>2, <2>9, <2>10, <2>11, <2>12, <2>13, <2>14, <2>15, <2>16, <2>17, <2>19
      DEF ArchiveInv, RamIsExact
  <1>7. CASE Fail /\ Unwritten(2) /\ UNCHANGED <<flash, pages>>
    <2>1. OneSector(x) /\ FlashLoses
      BY <1>1, <1>7, LosesOrNot DEF OneSector, FlashLoses
    <2>2. x \notin Marked(pages)
      BY <1>1
    <2>3. active' # NoId => ~RoomInCurrentPage'
      BY <1>1, <1>4, <1>7 DEF RoomInCurrentPage, Unwritten
    <2> QED
      BY <1>1, <1>7, <2>1, <2>2, <2>3, GiveUp
  <1> QED
    BY <1>6, <1>7 DEF MarkVictim

\* One sector less of a session that is being evicted.
LEMMA ForgetArchive ==
    ASSUME LogInv, LogInv', ArchiveInv, pc \in {"recover", "evict"},
           NEW x \in Claimed(pages), IsPendingEviction(pages[x].id),
           x \in Marked(pages) => Others(pages, x) = {},
           flash' = [flash EXCEPT ![x] = Erased], pages' = [pages EXCEPT ![x] = Unclaimed],
           UNCHANGED <<currentPage, active, nextId, nextGeneration, nextSequence, pending, job,
                       failures>>,
           pc' \in IF pc = "recover" THEN {"idle", "recover"} ELSE {"evict", "erase"}
    PROVE  ArchiveInv'
  <1>1. /\ flash \in [Pages -> Sectors] /\ pages \in [Pages -> PageInfos] /\ x \in Pages
        /\ pc = "recover" => active = NoId
    BY DEF LogInv, LogTypeOK, OperationIsSound, Claimed
  <1>2. /\ EraseKeepsMarker /\ SectorsAreSound /\ SectorsAreInOrder /\ NumbersAreBounded /\ RamIsExact
    BY DEF ArchiveInv
  <1>3. /\ OneSector(x) /\ flash'[x] = Erased /\ pages'[x] = Unclaimed
        /\ \A q \in Pages \ {x} : flash'[q] = flash[q] /\ pages'[q] = pages[q]
    BY <1>1 DEF OneSector
  <1>4. FlashLoses
    BY <1>1, LosesOrNot, SectorLoses
  <1>5. SectorsAreSound' /\ SectorsAreInOrder'
    BY <1>2, <1>4, LosingKeepsSectors
  <1>6. \A p \in Whole' : /\ p \in Whole /\ p \in Pages /\ p # x /\ flash'[p] = flash[p]
    BY <1>3 DEF Whole, Erased
  <1>7. Writing' => Writing /\ pc \notin {"header", "headerCommit"}
    BY DEF Writing
  <1>8. NumbersAreBounded'
    <2>1. CASE pc = "recover"
      <3>1. pc' \in {"idle", "recover"} /\ active' = NoId /\ pending' = NoKind /\ ~Writing'
        BY <1>1, <1>2, <2>1 DEF NumbersAreBounded, Writing
      <3> QED
        BY <1>2, <3>1 DEF NumbersAreBounded, NoKind
    <2>2. CASE pc = "evict"
      <3>1. pc' \in {"evict", "erase"} /\ Writing
        BY <2>2 DEF Writing
      <3> QED
        BY <1>2, <3>1 DEF NumbersAreBounded
    <2> QED
      BY <2>1, <2>2
  <1>9. NumbersAreNew'
    BY <1>2, <1>6 DEF RamIsExact, NumbersAreNew
  <1>10. JobIsNext'
    <2>1. pc' = "idle" => active' = NoId
      BY <1>1
    <2> QED
      BY <1>2, <1>6, <1>7, <2>1 DEF RamIsExact, JobIsNext
  <1>11. /\ Claimed(pages') = Claimed(pages) \ {x}
         /\ Marked(pages') = Marked(pages) \ {x}
         /\ \A p \in Claimed(pages') : pages'[p] = pages[p] /\ p \in Pages /\ p # x
    <2>1. ~pages'[x].valid /\ ~pages'[x].marker
      BY <1>3, ConstantsAreTyped
    <2> QED
      BY <1>1, <1>3, <2>1 DEF Claimed, Marked
  <1>12. ASSUME NEW p \in Claimed(pages) \ {x}, IsPendingEviction(pages[p].id)
         PROVE  IsPendingEviction(pages[p].id)'
    <2>1. \/ x \notin Marked(pages)
          \/ Others(pages, x) = {}
      OBVIOUS
    <2> QED
      BY <1>1, <1>12, <2>1, ConstantsAreTyped, PendingPersists
  <1>13. EndsAreKnown'
    <2>1. ASSUME NEW p \in (Claimed(pages) \cap Whole) \ {x}, pages[p].id \in {pages[x].id, active}
          PROVE  EndIsKnown(p)'
      <3>1. pages'[p] = pages[p] /\ p \in Claimed(pages) \ {x}
        BY <1>3 DEF Claimed
      <3>2. pages[p].id = pages[x].id => IsPendingEviction(pages[p].id)'
        BY <1>12, <3>1
      <3> QED
        BY <2>1, <3>1, <3>2 DEF EndIsKnown
    <2> QED
      BY <1>1, <1>2, <1>3, <1>11, <1>12, <2>1, EndsStay DEF RamIsExact
  <1>14. IdsAgree'
    BY <1>1, <1>2, <1>3, <1>11, IdsStay DEF RamIsExact
  <1>15. TombstoneIsAlone'
    <2> SUFFICES ASSUME NEW m \in Marked(pages) \ {x}
                 PROVE  /\ Marked(pages') = {m}
                        /\ flash'[m].header = "whole" => flash'[m].marker
                        /\ Others(pages', m) # {} => flash'[m].header = "whole"
      BY <1>11 DEF TombstoneIsAlone
    <2>1. /\ Marked(pages) = {m}
          /\ flash[m].header = "whole" => flash[m].marker
          /\ Others(pages, m) # {} => flash[m].header = "whole"
      BY <1>2 DEF RamIsExact, TombstoneIsAlone
    <2>2. m \in Pages /\ m # x /\ pages'[m] = pages[m] /\ flash'[m] = flash[m]
      BY <1>3 DEF Marked, Claimed
    <2>3. Others(pages', m) \subseteq Others(pages, m)
      BY <1>11, <2>2 DEF Others
    <2> QED
      BY <1>11, <2>1, <2>2, <2>3
  <1>16. LooseRecords'
    <2>1. Marked(pages) # {}
      BY DEF IsPendingEviction
    <2>2. ~HasRecords(x)'
      BY <1>3 DEF HasRecords, Erased
    <2> QED
      BY <1>1, <1>2, <1>3, <2>1, <2>2, NothingIsLoose DEF RamIsExact
  <1>17. RoomInCurrentPage' => /\ RoomInCurrentPage /\ currentPage # x /\ currentPage \in Pages
                               /\ flash'[currentPage] = flash[currentPage]
    <2>1. currentPage # NoPage => currentPage \in Pages
      BY DEF LogInv, LogTypeOK
    <2> QED
      BY <1>3, <2>1, ConstantsAreTyped DEF RoomInCurrentPage
  <1>18. RoomIsNewest'
    <2>1. ~IsFresh(currentPage)
      BY DEF IsFresh
    <2> QED
      BY <1>2, <1>4, <1>17, <2>1, RoomStays DEF RamIsExact
  <1>19. SelectionIsForced'
    BY <1>2, <1>17 DEF RamIsExact, SelectionIsForced
  <1> QED
    BY <1>2, <1>5, <1>8, <1>9, <1>10, <1>13, <1>14, <1>15, <1>16, <1>18, <1>19
    DEF ArchiveInv, RamIsExact

\* The sector that recover_pending_evictions() takes next.
LEMMA EvictionOrderIs ==
    ASSUME LogInv, pc = "recover", NEW p, p = EvictionOrder(pages)
    PROVE  /\ p \in Claimed(pages) /\ p \in Pages /\ IsPendingEviction(pages[p].id)
           /\ \/ p \in Marked(pages) /\ Others(pages, p) = {}
              \/ \E m \in Marked(pages) : p \in Others(pages, m)
  <1> DEFINE m == Min(Marked(pages))
  <1>1. m \in Marked(pages) /\ m \in Pages
    <2>1. Marked(pages) # {} /\ Marked(pages) \in SUBSET Nat
      BY ConstantsAreTyped DEF LogInv, OperationIsSound, Marked, Claimed
    <2> QED
      BY <2>1, MinIsLeast DEF Marked, Claimed
  <1>2. CASE Others(pages, m) = {}
    BY <1>1, <1>2 DEF EvictionOrder, Marked, Claimed, IsPendingEviction
  <1>3. CASE Others(pages, m) # {}
    <2>1. Others(pages, m) \in SUBSET Nat
      BY ConstantsAreTyped DEF Others, Claimed
    <2>2. p \in Others(pages, m)
      BY <1>3, <2>1, MinIsLeast DEF EvictionOrder
    <2> QED
      BY <1>1, <2>2 DEF Others, Claimed, IsPendingEviction
  <1> QED
    BY <1>2, <1>3

\* RAM's one tombstone has no tombstone among the session's other sectors.
LEMMA OthersAreNotMarked ==
    ASSUME TombstoneIsAlone, NEW m \in Marked(pages), NEW p \in Others(pages, m)
    PROVE  /\ p \notin Marked(pages) /\ p \in Claimed(pages) /\ p # m /\ pages[p].id = pages[m].id
           /\ flash[m].header = "whole" /\ flash[m].marker
  BY DEF TombstoneIsAlone, Others

\* A pending eviction goes on at startup.
LEMMA RecoverArchive == LogInv /\ LogInv' /\ ArchiveInv /\ Recover => ArchiveInv'
  <1> SUFFICES ASSUME LogInv, LogInv', ArchiveInv, Recover PROVE ArchiveInv'
    OBVIOUS
  <1>1. flash \in [Pages -> Sectors] /\ pages \in [Pages -> PageInfos] /\ pc = "recover"
        /\ active = NoId
    BY DEF LogInv, LogTypeOK, Recover, OperationIsSound
  <1>2. /\ EraseKeepsMarker /\ SectorsAreSound /\ SectorsAreInOrder /\ NumbersAreBounded /\ RamIsExact
    BY <1>1 DEF ArchiveInv
  <1>3. PICK p : p = EvictionOrder(pages)
    OBVIOUS
  <1>4. /\ p \in Claimed(pages) /\ p \in Pages /\ IsPendingEviction(pages[p].id)
        /\ p \in Marked(pages) => Others(pages, p) = {}
    <2>1. \A m \in Marked(pages) : p \in Others(pages, m) => p \notin Marked(pages)
      BY <1>2, OthersAreNotMarked DEF RamIsExact
    <2> QED
      BY <1>1, <1>3, <2>1, EvictionOrderIs
  <1>5. CASE /\ flash' = [flash EXCEPT ![p] = Erased]
             /\ pages' = [pages EXCEPT ![p] = Unclaimed]
             /\ pc' = IF Marked(pages') = {} THEN "idle" ELSE "recover"
             /\ UNCHANGED <<currentPage, active, nextId, nextGeneration,
                            nextSequence, errors, pending, job, target, failures,
                            resets>>
    BY <1>1, <1>4, <1>5, ForgetArchive
  <1>6. ASSUME NEW g \in FailedErase(flash[p]), flash' = [flash EXCEPT ![p] = g],
               Fail, InitializeFails
        PROVE  ArchiveInv'
    <2>1. FlashLoses
      BY <1>1, <1>2, <1>4, <1>6, FailedEraseLoses, SectorLoses
    <2>2. SectorsAreSound' /\ SectorsAreInOrder'
      BY <1>2, <2>1, LosingKeepsSectors
    <2>3. /\ pc' \in {"scan", "stopped"} /\ active' = active /\ pending' = pending
          /\ failures < MaxFailures /\ failures' = failures + 1
      BY <1>6 DEF InitializeFails, Fail
    <2>4. NumbersAreBounded'
      BY <1>1, <1>2, <2>3, LogAssumption DEF NumbersAreBounded, Writing
    <2> QED
      BY <1>2, <2>2, <2>3, <2>4 DEF ArchiveInv
  <1> QED
    BY <1>3, <1>5, <1>6 DEF Recover

\* The victim's sectors go one by one.
LEMMA EvictArchive == LogInv /\ LogInv' /\ ArchiveInv /\ EvictPage => ArchiveInv'
  <1> SUFFICES ASSUME LogInv, LogInv', ArchiveInv, EvictPage PROVE ArchiveInv'
    OBVIOUS
  <1>1. /\ flash \in [Pages -> Sectors] /\ pages \in [Pages -> PageInfos] /\ pc = "evict"
        /\ target \in Marked(pages) /\ currentPage' = currentPage /\ Writing
    BY DEF LogInv, LogTypeOK, EvictPage, OperationIsSound, Writing
  <1>2. /\ EraseKeepsMarker /\ RamIsExact
    BY <1>1 DEF ArchiveInv
  <1>3. PICK p \in Others(pages, target) : p = Min(Others(pages, target))
    <2>1. Others(pages, target) # {} /\ Others(pages, target) \in SUBSET Nat
      BY ConstantsAreTyped DEF EvictPage, Others, Claimed
    <2> QED
      BY <2>1, MinIsLeast
  <1>4. /\ p \in Claimed(pages) /\ p \in Pages /\ p \notin Marked(pages)
        /\ IsPendingEviction(pages[p].id)
    BY <1>1, <1>2, <1>3, OthersAreNotMarked DEF RamIsExact, IsPendingEviction, Claimed
  <1>5. CASE /\ flash' = [flash EXCEPT ![p] = Erased]
             /\ pages' = [pages EXCEPT ![p] = Unclaimed]
             /\ pc' = EvictOrErase(pages', target)
             /\ UNCHANGED <<active, nextId, nextGeneration, nextSequence, errors,
                            pending, job, target, failures, resets>>
    <2>1. pc' \in {"evict", "erase"}
      BY <1>5 DEF EvictOrErase
    <2> QED
      BY <1>1, <1>4, <1>5, <2>1, ForgetArchive
  <1>6. ASSUME NEW g \in FailedErase(flash[p]), flash' = [flash EXCEPT ![p] = g],
               Fail, Unwritten(2), UNCHANGED pages
        PROVE  ArchiveInv'
    <2>1. FlashLoses
      BY <1>1, <1>2, <1>4, <1>6, FailedEraseLoses, SectorLoses
    <2>2. OneSector(p)
      BY <1>1, <1>6 DEF OneSector
    <2>3. active' # NoId => ~RoomInCurrentPage'
      BY <1>1, <1>2, <1>6 DEF RamIsExact, SelectionIsForced, RoomInCurrentPage, Unwritten
    <2> QED
      BY <1>1, <1>4, <1>6, <2>1, <2>2, <2>3, GiveUp
  <1> QED
    BY <1>3, <1>5, <1>6 DEF EvictPage

----------------------------------------------------------------------------
(* The archive when a sector is claimed.                                     *)

\* The sector that was chosen holds nothing any more, and is the newest.
LEMMA EraseArchive == LogInv /\ LogInv' /\ ArchiveInv /\ ErasePage => ArchiveInv'
  <1> SUFFICES ASSUME LogInv, LogInv', ArchiveInv, ErasePage PROVE ArchiveInv'
    OBVIOUS
  <1>1. /\ flash \in [Pages -> Sectors] /\ pages \in [Pages -> PageInfos] /\ pc = "erase"
        /\ target \in Pages /\ job.id = active /\ active # NoId
        /\ ~pages[target].valid \/ (target \in Marked(pages) /\ Others(pages, target) = {})
        /\ currentPage' = currentPage /\ nextGeneration \in Nat /\ job \in RecordsOfLog /\ Writing
    BY DEF LogInv, LogTypeOK, ErasePage, OperationIsSound, Writing
  <1>2. /\ EraseKeepsMarker /\ SectorsAreSound /\ SectorsAreInOrder /\ NumbersAreBounded /\ RamIsExact
    BY <1>1 DEF ArchiveInv
  <1>3. PICK x \in Pages : x = target
    BY <1>1
  <1>4. ~RoomInCurrentPage
    BY <1>1, <1>2 DEF RamIsExact, SelectionIsForced
  <1>5. x \notin Claimed(pages) \/ (x \in Marked(pages) /\ Others(pages, x) = {})
    BY <1>1, <1>3 DEF Claimed
  <1>6. x \in Marked(pages) => pages[x].valid
    BY DEF Marked, Claimed
  <1>7. CASE /\ flash' = [flash EXCEPT ![target] = Erased]
             /\ pages' = [pages EXCEPT ![target] =
                    [valid |-> TRUE, generation |-> nextGeneration,
                     id |-> job.id, marker |-> FALSE, used |-> 0]]
             /\ nextGeneration' = nextGeneration + 1
             /\ pc' = "header"
             /\ UNCHANGED <<active, nextId, nextSequence, errors, pending, job,
                            target, failures, resets>>
    <2>1. /\ OneSector(x) /\ flash'[x] = Erased
          /\ pages'[x].valid /\ pages'[x].generation = nextGeneration
          /\ pages'[x].id = active /\ ~pages'[x].marker
          /\ \A q \in Pages \ {x} : flash'[q] = flash[q] /\ pages'[q] = pages[q]
      BY <1>1, <1>3, <1>7 DEF OneSector
    <2>2. FlashLoses
      BY <1>1, <1>3, <1>7, LosesOrNot, SectorLoses
    <2>3. SectorsAreSound' /\ SectorsAreInOrder'
      BY <1>2, <2>2, LosingKeepsSectors
    <2>4. \A p \in Whole' : /\ p \in Whole /\ p \in Pages /\ p # x /\ flash'[p] = flash[p]
      BY <2>1 DEF Whole, Erased
    <2>5. Writing'
      BY <1>7 DEF Writing
    <2>6. NumbersAreBounded'
      BY <1>1, <1>2, <1>7, <2>5 DEF NumbersAreBounded
    <2>7. NumbersAreNew'
      <3>1. \A p \in Whole : /\ flash[p].id < nextId /\ flash[p].generation < nextGeneration
        BY <1>2 DEF RamIsExact, NumbersAreNew
      <3>2. \A p \in Whole' : flash'[p].generation < nextGeneration + 1
        <4> SUFFICES ASSUME NEW p \in Whole' PROVE flash'[p].generation < nextGeneration + 1
          OBVIOUS
        <4>1. flash[p].generation \in Nat /\ flash[p].generation < nextGeneration
          BY <1>1, <2>4, <3>1 DEF Sectors
        <4> QED
          BY <1>1, <2>4, <4>1
      <3>3. active = nextId - 1
        BY <1>1, <1>2 DEF RamIsExact, NumbersAreNew
      <3>4. target' = x /\ nextGeneration < nextGeneration'
        BY <1>1, <1>3, <1>7
      <3> QED
        BY <1>7, <2>1, <2>4, <3>1, <3>2, <3>3, <3>4 DEF NumbersAreNew
    <2>8. JobIsNext'
      BY <1>1, <1>2, <1>7, <2>4 DEF RamIsExact, JobIsNext
    <2>9. /\ Claimed(pages') = Claimed(pages) \cup {x}
          /\ Marked(pages') = Marked(pages) \ {x}
      BY <2>1 DEF Claimed, Marked
    <2>10. ASSUME NEW p \in Claimed(pages) \ {x}, IsPendingEviction(pages[p].id)
           PROVE  IsPendingEviction(pages[p].id)'
      <3>1. PICK m \in Marked(pages) : pages[m].id = pages[p].id
        BY <2>10 DEF IsPendingEviction
      <3>2. m # x
        BY <1>5, <3>1 DEF Others, Marked
      <3>3. m \in Pages \ {x} /\ p \in Pages \ {x} /\ m \in Marked(pages')
        BY <2>9, <3>2 DEF Marked, Claimed
      <3> QED
        BY <2>1, <3>1, <3>3 DEF IsPendingEviction
    <2>11. EndsAreKnown'
      <3> DEFINE id == IF pages[x].valid THEN pages[x].id ELSE active
      <3>1. x \notin Whole'
        BY <2>4
      <3>2. ASSUME NEW p \in (Claimed(pages) \cap Whole) \ {x}, pages[p].id \in {id, active}
            PROVE  EndIsKnown(p)'
        <4>1. pages'[p] = pages[p]
          BY <2>1 DEF Whole
        <4>2. pages[p].id = active
          BY <1>5, <1>6, <3>2 DEF Others, Claimed
        <4> QED
          BY <1>7, <4>1, <4>2 DEF EndIsKnown
      <3>3. pages[x].valid => pages[x].id = id
        OBVIOUS
      <3> HIDE DEF id
      <3> QED
        BY <1>2, <2>1, <2>10, <3>1, <3>2, <3>3, EndsStay DEF RamIsExact
    <2>12. IdsAgree'
      BY <1>2, <2>1, <2>4, IdsStay DEF RamIsExact
    <2>13. TombstoneIsAlone'
      <3> SUFFICES ASSUME NEW m \in Marked(pages) \ {x}
                   PROVE  /\ Marked(pages') = {m}
                          /\ flash'[m].header = "whole" => flash'[m].marker
                          /\ Others(pages', m) # {} => flash'[m].header = "whole"
        BY <2>9 DEF TombstoneIsAlone
      <3>1. /\ Marked(pages) = {m}
            /\ flash[m].header = "whole" => flash[m].marker
            /\ Others(pages, m) # {} => flash[m].header = "whole"
        BY <1>2 DEF RamIsExact, TombstoneIsAlone
      <3>2. m \in Pages /\ m # x /\ pages'[m] = pages[m] /\ flash'[m] = flash[m]
        BY <2>1 DEF Marked, Claimed
      <3>3. pages[m].id # active
        BY <1>1, MarkedIsNotActive
      <3>4. Others(pages', m) \subseteq Others(pages, m)
        <4> SUFFICES ASSUME NEW p \in Others(pages', m) PROVE p \in Others(pages, m)
          OBVIOUS
        <4>1. p \in Pages /\ p # m /\ pages'[p].valid /\ pages'[p].id = pages[m].id
          BY <3>2 DEF Others, Claimed
        <4>2. p # x
          BY <2>1, <3>3, <4>1
        <4> QED
          BY <2>1, <4>1, <4>2 DEF Others, Claimed
      <3> QED
        BY <2>9, <3>1, <3>2, <3>4
    <2>14. LooseRecords'
      <3> SUFFICES ASSUME NEW p \in Pages \ Claimed(pages'), HasRecords(p)' PROVE FALSE
        BY DEF LooseRecords
      <3>1. p \in Pages \ Claimed(pages) /\ p # x /\ HasRecords(p)
        BY <2>1, <2>9 DEF HasRecords
      <3>2. Marked(pages) = {} /\ Pages \ Claimed(pages) = {p}
        BY <1>2, <3>1 DEF RamIsExact, LooseRecords
      <3> QED
        BY <1>5, <3>1, <3>2
    <2>15. RoomInCurrentPage' => currentPage = x
      <3>1. currentPage # NoPage => currentPage \in Pages
        BY DEF LogInv, LogTypeOK
      <3> QED
        BY <1>1, <1>4, <1>7, <2>1, <3>1 DEF RoomInCurrentPage
    <2>16. RoomIsNewest' /\ SelectionIsForced'
      BY <1>1, <1>3, <1>7, <2>15 DEF RoomIsNewest, SelectionIsForced, IsFresh
    <2> QED
      BY <1>2, <2>3, <2>6, <2>7, <2>8, <2>11, <2>12, <2>13, <2>14, <2>16 DEF ArchiveInv, RamIsExact
  <1>8. ASSUME NEW g \in FailedErase(flash[x]), flash' = [flash EXCEPT ![x] = g],
               Fail, Unwritten(1), UNCHANGED pages
        PROVE  ArchiveInv'
    <2>1. FlashLoses
      BY <1>1, <1>2, <1>8, FailedEraseLoses, SectorLoses
    <2>2. OneSector(x)
      BY <1>1, <1>8 DEF OneSector
    <2>3. active' # NoId => ~RoomInCurrentPage'
      BY <1>1, <1>4, <1>8 DEF RoomInCurrentPage, Unwritten
    <2>4. x \in Marked(pages) => IsPendingEviction(pages[x].id)
      BY DEF IsPendingEviction
    <2>5. \/ x \notin Claimed(pages')
          \/ IsPendingEviction(pages[x].id)
      BY <1>5, <1>8, <2>4
    <2>6. x \in Marked(pages) => Others(pages, x) = {}
      BY <1>5 DEF Marked
    <2> QED
      BY <1>1, <1>8, <2>1, <2>2, <2>3, <2>5, <2>6, GiveUp
  <1> QED
    BY <1>3, <1>7, <1>8 DEF ErasePage

\* Neither an erased nor a torn sector is whole.
LEMMA EmptySectors == Erased.header = "erased" /\ Torn.header = "torn"
  BY DEF Erased, Torn

\* A header being written replaces nothing.
LEMMA HeaderFacts ==
    ASSUME LogInv, ArchiveInv, pc \in {"header", "headerCommit"}
    PROVE  /\ target \in Pages /\ target \in Claimed(pages) /\ target \notin Marked(pages)
           /\ pages[target].id = active /\ job.id = active /\ active # NoId
           /\ target \notin Whole /\ ~HasRecords(target) /\ Writing
           /\ RoomInCurrentPage => currentPage = target
  <1>1. /\ target \in Claimed(pages) /\ target \in Pages
        /\ pages[target].id = active /\ ~pages[target].marker
        /\ job.id = active /\ active # NoId /\ Writing
        /\ flash[target] \in {Erased, Torn}
    BY DEF LogInv, OperationIsSound, Writing, Claimed
  <1>2. flash[target].header # "whole"
    BY <1>1, EmptySectors
  <1> QED
    BY <1>1, <1>2 DEF ArchiveInv, RamIsExact, SelectionIsForced, Marked, Whole, HasRecords

\* Once RAM gives the sector up, no other has room.
LEMMA HeaderLeavesNoRoom ==
    ASSUME LogInv, ArchiveInv, pc \in {"header", "headerCommit"},
           pages' = [pages EXCEPT ![target] = Unclaimed], currentPage' = currentPage,
           active' \in {active, NoId}
    PROVE  active' # NoId => ~RoomInCurrentPage'
  <1> SUFFICES ASSUME active' = active, RoomInCurrentPage' PROVE FALSE
    OBVIOUS
  <1>1. /\ target \in Pages
        /\ RoomInCurrentPage => currentPage = target
    BY HeaderFacts
  <1>2. pages \in [Pages -> PageInfos] /\ (currentPage # NoPage => currentPage \in Pages)
    BY DEF LogInv, LogTypeOK
  <1>3. currentPage # target
    BY <1>1, <1>2, ConstantsAreTyped DEF RoomInCurrentPage
  <1>4. RoomInCurrentPage
    BY <1>1, <1>2, <1>3 DEF RoomInCurrentPage
  <1> QED
    BY <1>1, <1>3, <1>4

\* The body of a header.
LEMMA WriteHeaderArchive == LogInv /\ LogInv' /\ ArchiveInv /\ WriteHeader => ArchiveInv'
  <1> SUFFICES ASSUME LogInv, LogInv', ArchiveInv, WriteHeader PROVE ArchiveInv'
    OBVIOUS
  <1>1. /\ flash \in [Pages -> Sectors] /\ pages \in [Pages -> PageInfos] /\ pc = "header"
        /\ currentPage' = currentPage
    BY DEF LogInv, LogTypeOK, WriteHeader
  <1>2. /\ EraseKeepsMarker /\ SectorsAreSound /\ SectorsAreInOrder /\ NumbersAreBounded /\ RamIsExact
    BY <1>1 DEF ArchiveInv
  <1>3. PICK x \in Pages : x = target
    BY <1>1, HeaderFacts
  <1>4. /\ x \in Claimed(pages) /\ x \notin Marked(pages) /\ pages[x].id = active
        /\ x \notin Whole /\ ~HasRecords(x) /\ Writing
        /\ RoomInCurrentPage => currentPage = x
    BY <1>1, <1>3, HeaderFacts
  <1>5. CASE /\ flash' = [flash EXCEPT ![target] = Torn]
             /\ pc' = "headerCommit"
             /\ UNCHANGED <<pages, active, nextId, nextGeneration, nextSequence,
                            errors, pending, job, target, failures, resets>>
    <2>1. /\ OneSector(x) /\ flash'[x] = Torn
          /\ \A q \in Pages \ {x} : flash'[q] = flash[q]
      BY <1>1, <1>3, <1>5 DEF OneSector
    <2>2. FlashLoses
      BY <1>1, <1>3, <1>5, LosesOrNot, SectorLoses
    <2>3. SectorsAreSound' /\ SectorsAreInOrder'
      BY <1>2, <2>2, LosingKeepsSectors
    <2>4. x \notin Whole' /\ ~HasRecords(x)'
      BY <2>1, EmptySectors DEF Whole, HasRecords
    <2>5. \A p \in Whole' : p \in Whole /\ p \in Pages /\ p # x /\ flash'[p] = flash[p]
      BY <2>1, <2>4 DEF Whole
    <2>6. Writing'
      BY <1>5 DEF Writing
    <2>7. NumbersAreBounded'
      BY <1>2, <1>4, <1>5, <2>6 DEF NumbersAreBounded
    <2>8. NumbersAreNew'
      BY <1>1, <1>2, <1>3, <1>5, <2>5 DEF RamIsExact, NumbersAreNew
    <2>9. JobIsNext'
      BY <1>2, <1>4, <1>5, <2>5 DEF RamIsExact, JobIsNext
    <2>10. EndsAreKnown'
      <3>1. \A p : IsPendingEviction(pages[p].id) => IsPendingEviction(pages[p].id)'
        BY <1>5 DEF IsPendingEviction
      <3>2. \A p : pages[p].id = active => EndIsKnown(p)'
        BY <1>5 DEF EndIsKnown
      <3> QED
        BY <1>2, <1>4, <2>1, <2>4, <3>1, <3>2, EndsStay DEF RamIsExact
    <2>11. IdsAgree'
      BY <1>2, <2>1, <2>4, IdsStay DEF RamIsExact
    <2>12. TombstoneIsAlone'
      BY <1>2, <1>4, <1>5, <2>1 DEF RamIsExact, TombstoneIsAlone, Marked, Claimed
    <2>13. LooseRecords'
      BY <1>1, <1>2, <2>1, <2>4, NothingIsLoose DEF RamIsExact
    <2>14. RoomInCurrentPage' => RoomInCurrentPage
      BY <1>1, <1>5 DEF RoomInCurrentPage
    <2>15. RoomIsNewest' /\ SelectionIsForced'
      BY <1>1, <1>3, <1>4, <1>5, <2>14 DEF RoomIsNewest, SelectionIsForced, IsFresh
    <2> QED
      BY <1>2, <2>3, <2>7, <2>8, <2>9, <2>10, <2>11, <2>12, <2>13, <2>15 DEF ArchiveInv, RamIsExact
  <1>6. ASSUME flash' \in {flash, [flash EXCEPT ![target] = Torn]},
               pages' = [pages EXCEPT ![target] = Unclaimed], Fail, Unwritten(1)
        PROVE  ArchiveInv'
    <2>1. PICK g \in {flash[x], Torn} : flash' = [flash EXCEPT ![x] = g]
      BY <1>1, <1>3, <1>6, FlashIsItself
    <2>2. Loses(flash[x], g) /\ g \in Sectors
      BY <1>1, <2>1, LosesOrNot, ConstantsAreTyped
    <2>3. FlashLoses
      BY <2>1, <2>2, SectorLoses
    <2>4. OneSector(x) /\ flash'[x] = g /\ x \notin Claimed(pages')
      BY <1>1, <1>3, <1>6, <2>1, ConstantsAreTyped DEF OneSector, Claimed
    <2>5. ~HasRecords(x)'
      BY <1>4, <2>1, <2>4, EmptySectors DEF HasRecords
    <2>6. active' # NoId => ~RoomInCurrentPage'
      BY <1>1, <1>6, HeaderLeavesNoRoom DEF Unwritten
    <2> QED
      BY <1>1, <1>3, <1>4, <1>6, <2>3, <2>4, <2>5, <2>6, GiveUp
  <1> QED
    BY <1>5, <1>6 DEF WriteHeader

\* A header that has been committed is the newest sector's, and has no records yet.
LEMMA HeaderKeepsSectors ==
    ASSUME LogInv, ArchiveInv, pc = "headerCommit",
           flash' = [flash EXCEPT ![target] = WholeHeader(target)]
    PROVE  /\ SectorsAreSound' /\ SectorsAreInOrder'
           /\ Whole' = Whole \cup {target} /\ \A p \in Whole : p # target /\ flash'[p] = flash[p]
           /\ flash'[target].id = active /\ flash'[target].generation = pages[target].generation
           /\ flash'[target].id < nextId /\ flash'[target].generation < nextGeneration
           /\ \A p \in Whole : flash[p].generation < flash'[target].generation
           /\ Kept(flash'[target]) = {} /\ ~flash'[target].marker
  <1>1. /\ flash \in [Pages -> Sectors] /\ pages \in [Pages -> PageInfos]
        /\ SectorsAreSound /\ SectorsAreInOrder /\ NumbersAreNew
        /\ nextId \in Nat /\ nextGeneration \in Nat /\ active \in Nat
    BY DEF LogInv, LogTypeOK, ArchiveInv, RamIsExact
  <1>2. PICK x \in Pages : x = target
    BY HeaderFacts
  <1>3. x \notin Whole /\ pages[x].id = active /\ active # NoId
    BY <1>2, HeaderFacts
  <1>4. PICK h \in Sectors :
            /\ h = WholeHeader(x) /\ h.header = "whole" /\ h.id = pages[x].id
            /\ h.generation = pages[x].generation /\ ~h.marker
            /\ Len(h.records) = 0 /\ h.tail = "clean"
    BY <1>1, WholeHeaderIs
  <1>5. Kept(h) = {}
    BY <1>4 DEF Kept
  <1>6. flash'[x] = h /\ \A q \in Pages \ {x} : flash'[q] = flash[q]
    BY <1>1, <1>2, <1>4
  <1>7. Whole' = Whole \cup {x} /\ \A p \in Whole : p # x /\ p \in Pages /\ flash'[p] = flash[p]
    BY <1>3, <1>4, <1>6 DEF Whole
  <1>8. /\ active = nextId - 1 /\ pages[x].generation < nextGeneration
        /\ \A p \in Whole : flash[p].id < nextId /\ flash[p].generation < pages[x].generation
    BY <1>1, <1>2, <1>3 DEF NumbersAreNew
  <1>9. \A p \in Pages : /\ flash[p].id \in Nat /\ flash[p].generation \in Nat
                         /\ pages[p].generation \in Nat
    BY <1>1 DEF Sectors, PageInfos
  <1>10. \A p \in Whole : /\ flash[p].id <= active /\ flash[p].generation < h.generation
                          /\ ~(h.generation < flash[p].generation) /\ ~(active < flash[p].id)
                          /\ flash[p].generation # h.generation
    BY <1>1, <1>4, <1>7, <1>8, <1>9
  <1>11. SectorsAreSound'
    <2>1. 0 <= PageRecords
      BY LogAssumption
    <2>2. \A p \in Pages : IsTombstone(flash'[p]) => IsTombstone(flash[p])
      BY <1>4, <1>6 DEF IsTombstone
    <2> QED
      BY <1>1, <1>3, <1>4, <1>5, <1>6, <1>7, <2>1, <2>2 DEF SectorsAreSound
  <1>12. SectorsAreInOrder'
    <2>1. ASSUME NEW p \in Whole', NEW q \in Whole', p # q
          PROVE  /\ flash'[p].generation # flash'[q].generation
                 /\ flash'[p].id < flash'[q].id => flash'[p].generation < flash'[q].generation
                 /\ flash'[p].id = flash'[q].id /\ flash'[p].generation < flash'[q].generation =>
                       \A r \in Kept(flash'[p]), s \in Kept(flash'[q]) : r.sequence < s.sequence
      <3>1. CASE p = x
        <4>1. q \in Whole /\ flash'[q] = flash[q]
          BY <1>7, <2>1, <3>1
        <4> QED
          BY <1>3, <1>4, <1>5, <1>6, <1>10, <3>1, <4>1
      <3>2. CASE q = x
        <4>1. p \in Whole /\ flash'[p] = flash[p]
          BY <1>7, <2>1, <3>2
        <4> QED
          BY <1>3, <1>4, <1>5, <1>6, <1>10, <3>2, <4>1
      <3>3. CASE p # x /\ q # x
        <4>1. p \in Whole /\ q \in Whole /\ flash'[p] = flash[p] /\ flash'[q] = flash[q]
          BY <1>7, <3>3
        <4> QED
          BY <1>1, <2>1, <4>1 DEF SectorsAreInOrder
      <3> QED
        BY <3>1, <3>2, <3>3
    <2> QED
      BY <2>1 DEF SectorsAreInOrder
  <1>13. active < nextId
    BY <1>1, <1>8
  <1> QED
    BY <1>2, <1>3, <1>4, <1>5, <1>6, <1>7, <1>8, <1>10, <1>11, <1>12, <1>13

\* The commit word of a header.
LEMMA CommitHeaderArchive == LogInv /\ LogInv' /\ ArchiveInv /\ CommitHeader => ArchiveInv'
  <1> SUFFICES ASSUME LogInv, LogInv', ArchiveInv, CommitHeader PROVE ArchiveInv'
    OBVIOUS
  <1>1. /\ flash \in [Pages -> Sectors] /\ pages \in [Pages -> PageInfos] /\ pc = "headerCommit"
    BY DEF LogInv, LogTypeOK, CommitHeader
  <1>2. /\ EraseKeepsMarker /\ SectorsAreSound /\ SectorsAreInOrder /\ NumbersAreBounded /\ RamIsExact
    BY <1>1 DEF ArchiveInv
  <1>3. PICK x \in Pages : x = target
    BY <1>1, HeaderFacts
  <1>4. /\ x \in Claimed(pages) /\ x \notin Marked(pages) /\ pages[x].id = active
        /\ x \notin Whole /\ ~HasRecords(x) /\ Writing
        /\ RoomInCurrentPage => currentPage = x
    BY <1>1, <1>3, HeaderFacts
  <1> DEFINE committed == [flash EXCEPT ![target] = WholeHeader(target)]
  <1>5. ASSUME flash' = committed
        PROVE  /\ SectorsAreSound' /\ SectorsAreInOrder'
               /\ Whole' = Whole \cup {x}
               /\ \A p \in Whole : p # x /\ p \in Pages /\ flash'[p] = flash[p]
               /\ \A p \in Whole' : flash'[p].id < nextId /\ flash'[p].generation < nextGeneration
               /\ \A p \in Whole : flash[p].generation < flash'[x].generation
               /\ flash'[x].id = active
               /\ Kept(flash'[x]) = {} /\ ~flash'[x].marker
               /\ \A p \in Pages \ {x} : flash'[p] = flash[p]
    <2>1. /\ SectorsAreSound' /\ SectorsAreInOrder'
          /\ Whole' = Whole \cup {x} /\ \A p \in Whole : p # x /\ flash'[p] = flash[p]
          /\ flash'[x].id = active
          /\ flash'[x].id < nextId /\ flash'[x].generation < nextGeneration
          /\ \A p \in Whole : flash[p].generation < flash'[x].generation
          /\ Kept(flash'[x]) = {} /\ ~flash'[x].marker
      BY <1>1, <1>3, <1>5, HeaderKeepsSectors
    <2>2. \A p \in Whole : p \in Pages /\ flash[p].id < nextId /\ flash[p].generation < nextGeneration
      BY <1>2 DEF RamIsExact, NumbersAreNew, Whole
    <2>3. \A p \in Pages \ {x} : flash'[p] = flash[p]
      BY <1>1, <1>3, <1>5
    <2> HIDE DEF committed
    <2> QED
      BY <2>1, <2>2, <2>3
  <1>6. CASE /\ flash' = committed
             /\ currentPage' = target
             /\ pc' = "record"
             /\ target' = NoPage
             /\ UNCHANGED <<pages, active, nextId, nextGeneration, nextSequence,
                            errors, pending, job, failures, resets>>
    <2>1. /\ SectorsAreSound' /\ SectorsAreInOrder'
          /\ Whole' = Whole \cup {x}
          /\ \A p \in Whole : p # x /\ p \in Pages /\ flash'[p] = flash[p]
          /\ \A p \in Whole' : flash'[p].id < nextId /\ flash'[p].generation < nextGeneration
          /\ \A p \in Whole : flash[p].generation < flash'[x].generation
          /\ flash'[x].id = active
          /\ Kept(flash'[x]) = {} /\ ~flash'[x].marker
          /\ \A p \in Pages \ {x} : flash'[p] = flash[p]
      BY <1>5, <1>6
    <2> HIDE DEF committed
    <2>2. Writing' /\ pc' = "record" /\ currentPage' = x
      BY <1>3, <1>6 DEF Writing
    <2>3. NumbersAreBounded'
      BY <1>2, <1>4, <1>6, <2>2 DEF NumbersAreBounded
    <2>4. NumbersAreNew'
      BY <1>2, <1>6, <2>1 DEF RamIsExact, NumbersAreNew
    <2>5. JobIsNext'
      BY <1>2, <1>4, <1>6, <2>1 DEF RamIsExact, JobIsNext
    <2>6. OneSector(x)
      BY <1>6, <2>1 DEF OneSector
    <2>7. EndsAreKnown'
      <3>1. \A p : IsPendingEviction(pages[p].id) => IsPendingEviction(pages[p].id)'
        BY <1>6 DEF IsPendingEviction
      <3>2. \A p : pages[p].id = active => EndIsKnown(p)'
        BY <1>6 DEF EndIsKnown
      <3> QED
        BY <1>2, <1>4, <2>6, <3>1, <3>2, EndsStay DEF RamIsExact
    <2>8. IdsAgree'
      BY <1>2, <1>4, <1>6, <2>1, <2>6, IdsStay DEF RamIsExact
    <2>9. TombstoneIsAlone'
      BY <1>2, <1>4, <1>6, <2>1 DEF RamIsExact, TombstoneIsAlone, Marked, Claimed
    <2>10. LooseRecords'
      <3>1. x \in Claimed(pages')
        BY <1>4, <1>6
      <3> QED
        BY <1>1, <1>2, <2>6, <3>1, NothingIsLoose DEF RamIsExact
    <2>11. RoomIsNewest'
      <3>1. flash'[x].generation \in Nat
        BY DEF LogInv, LogTypeOK, Sectors
      <3>2. \A p \in Whole' : flash'[p].generation <= flash'[x].generation
        <4> SUFFICES ASSUME NEW p \in Whole' PROVE flash'[p].generation <= flash'[x].generation
          OBVIOUS
        <4>1. flash'[p].generation \in Nat
          BY DEF LogInv, LogTypeOK, Sectors, Whole
        <4> QED
          BY <2>1, <3>1, <4>1
      <3> QED
        BY <2>2, <3>2 DEF RoomIsNewest
    <2>12. SelectionIsForced'
      BY <2>2 DEF SelectionIsForced
    <2> QED
      BY <1>2, <2>1, <2>3, <2>4, <2>5, <2>7, <2>8, <2>9, <2>10, <2>11, <2>12
      DEF ArchiveInv, RamIsExact
  <1>7. CASE /\ flash' = committed
             /\ pages' = [pages EXCEPT ![target] = Unclaimed] /\ Fail /\ Unwritten(1)
             /\ UNCHANGED currentPage
    <2>1. /\ SectorsAreSound' /\ SectorsAreInOrder'
          /\ Whole' = Whole \cup {x}
          /\ \A p \in Whole : p # x /\ p \in Pages /\ flash'[p] = flash[p]
          /\ \A p \in Whole' : flash'[p].id < nextId /\ flash'[p].generation < nextGeneration
          /\ flash'[x].id = active
          /\ Kept(flash'[x]) = {} /\ ~flash'[x].marker
          /\ \A p \in Pages \ {x} : flash'[p] = flash[p]
      BY <1>5, <1>7
    <2> HIDE DEF committed
    <2>2. /\ pages'[x] = Unclaimed /\ \A p \in Pages \ {x} : pages'[p] = pages[p]
          /\ OneSector(x)
      BY <1>1, <1>3, <1>7, <2>1 DEF OneSector
    <2>3. /\ Claimed(pages') = Claimed(pages) \ {x} /\ Marked(pages') = Marked(pages)
          /\ \A p \in Claimed(pages') : pages'[p] = pages[p]
      <3>1. ~pages'[x].valid
        BY <2>2, ConstantsAreTyped
      <3>2. Claimed(pages') = Claimed(pages) \ {x} /\ \A p \in Claimed(pages') : pages'[p] = pages[p]
        BY <2>2, <3>1 DEF Claimed
      <3> QED
        BY <1>4, <3>2 DEF Marked
    <2>4. active' = IF job.kind = "START" THEN NoId ELSE active
      BY <1>7 DEF Unwritten
    <2>5. \A p \in Whole' : flash'[p].id = active =>
              \A r \in Kept(flash'[p]) :
                  r.sequence <= job.sequence /\ (r.kind = "END" => job.kind = "END")
      <3> SUFFICES ASSUME NEW p \in Whole, flash[p].id = active, NEW r \in Kept(flash[p])
                   PROVE  r.sequence <= job.sequence /\ (r.kind = "END" => job.kind = "END")
        BY <2>1
      <3>1. r.sequence < job.sequence /\ (r.kind = "END" => job.kind = "END")
        BY <1>2, <1>4 DEF RamIsExact, JobIsNext
      <3>2. r.sequence \in Nat /\ job.sequence \in Nat
        BY <1>2, <2>1, SectorTypes, KeptType, BoundsType
      <3> QED
        BY <3>1, <3>2
    <2>6. /\ NumbersAreBounded'
          /\ pc' # "stopped" => NumbersAreNew' /\ JobIsNext' /\ SelectionIsForced'
      BY <1>4, <1>7, <2>1, <2>5, AbandonNumbers
    <2>7. EndsAreKnown'
      <3>1. ASSUME NEW p \in (Claimed(pages) \cap Whole) \ {x}, pages[p].id = active
            PROVE  EndIsKnown(p)'
        <4>1. pages'[p] = pages[p] /\ flash'[p] = flash[p]
          BY <2>1, <2>2
        <4>2. flash[p].id = active
          BY <1>2, <3>1 DEF RamIsExact, IdsAgree
        <4>3. job.kind = "START" => Kept(flash[p]) = {}
          BY <1>4, <4>2, StartIsFirst
        <4> QED
          BY <2>4, <3>1, <4>1, <4>3 DEF EndIsKnown
      <3>2. \A p \in Claimed(pages) \ {x} :
                IsPendingEviction(pages[p].id) => IsPendingEviction(pages[p].id)'
        <4>1. \A m \in Marked(pages) : m \in Claimed(pages) /\ m # x
          BY <1>4 DEF Marked
        <4> QED
          BY <2>3, <4>1 DEF IsPendingEviction
      <3> QED
        BY <1>2, <1>4, <2>2, <2>3, <3>1, <3>2, EndsStay DEF RamIsExact
    <2>8. IdsAgree'
      BY <1>2, <2>2, <2>3, IdsStay DEF RamIsExact
    <2>9. TombstoneIsAlone'
      <3> SUFFICES ASSUME NEW m \in Marked(pages)
                   PROVE  /\ Marked(pages) = {m}
                          /\ flash'[m].header = "whole" => flash'[m].marker
                          /\ Others(pages', m) # {} => flash'[m].header = "whole"
        BY <2>3 DEF TombstoneIsAlone
      <3>1. /\ Marked(pages) = {m}
            /\ flash[m].header = "whole" => flash[m].marker
            /\ Others(pages, m) # {} => flash[m].header = "whole"
        BY <1>2 DEF RamIsExact, TombstoneIsAlone
      <3>2. m \in Pages /\ m # x /\ flash'[m] = flash[m] /\ pages'[m] = pages[m]
        BY <1>4, <2>1, <2>2 DEF Marked, Claimed
      <3>3. Others(pages', m) \subseteq Others(pages, m)
        BY <2>3, <3>2 DEF Others
      <3> QED
        BY <3>1, <3>2, <3>3
    <2>10. LooseRecords'
      <3>1. ~HasRecords(x)'
        BY <2>1 DEF HasRecords
      <3> QED
        BY <1>1, <1>2, <2>2, <3>1, NothingIsLoose DEF RamIsExact
    <2>11. RoomIsNewest'
      <3>1. active' # NoId => ~RoomInCurrentPage'
        BY <1>1, <1>7, <2>4, HeaderLeavesNoRoom
      <3> QED
        BY <3>1 DEF RoomIsNewest
    <2> QED
      BY <1>2, <2>1, <2>6, <2>7, <2>8, <2>9, <2>10, <2>11 DEF ArchiveInv, RamIsExact
  <1>8. CASE /\ flash' = flash
             /\ pages' = [pages EXCEPT ![target] = Unclaimed] /\ Fail /\ Unwritten(1)
             /\ UNCHANGED currentPage
    <2>1. FlashLoses
      BY <1>1, <1>8, LosesOrNot DEF FlashLoses
    <2>2. OneSector(x) /\ x \notin Claimed(pages')
      BY <1>1, <1>3, <1>8, ConstantsAreTyped DEF OneSector, Claimed
    <2>3. ~HasRecords(x)'
      BY <1>4, <1>8 DEF HasRecords
    <2>4. active' # NoId => ~RoomInCurrentPage'
      BY <1>1, <1>8, HeaderLeavesNoRoom DEF Unwritten
    <2> QED
      BY <1>1, <1>3, <1>4, <1>8, <2>1, <2>2, <2>3, <2>4, GiveUp
  <1> QED
    BY <1>6, <1>7, <1>8 DEF CommitHeader

----------------------------------------------------------------------------
(* The archive when a record is written.                                     *)

\* The body of a record.
LEMMA WriteRecordArchive == LogInv /\ LogInv' /\ ArchiveInv /\ WriteRecord => ArchiveInv'
  <1> SUFFICES ASSUME LogInv, LogInv', ArchiveInv, WriteRecord PROVE ArchiveInv'
    OBVIOUS
  <1>1. /\ flash \in [Pages -> Sectors] /\ pages \in [Pages -> PageInfos] /\ pc = "record"
        /\ pages' = pages /\ Writing
    BY DEF LogInv, LogTypeOK, WriteRecord, Writing
  <1>2. /\ EraseKeepsMarker /\ SectorsAreSound /\ SectorsAreInOrder /\ NumbersAreBounded /\ RamIsExact
    BY <1>1 DEF ArchiveInv
  <1>3. PICK x \in Pages : x = currentPage
    BY <1>1, CurrentPageFacts
  <1>4. x \in Claimed(pages) /\ x \notin Marked(pages) /\ pages[x].id = active
    BY <1>1, <1>3, CurrentPageFacts
  <1>5. ASSUME NEW tail \in {"clean", "torn", "body"},
               flash' = [flash EXCEPT ![currentPage].tail = tail]
        PROVE  /\ FlashLoses /\ OneSector(x)
               /\ \A p \in Pages : /\ flash'[p].header = flash[p].header
                                   /\ flash'[p].generation = flash[p].generation
                                   /\ flash'[p].id = flash[p].id /\ flash'[p].marker = flash[p].marker
                                   /\ flash'[p].records = flash[p].records
    <2>1. PICK g : g = [flash[x] EXCEPT !.tail = tail]
      OBVIOUS
    <2>2. /\ g \in Sectors /\ g.header = flash[x].header /\ g.generation = flash[x].generation
          /\ g.id = flash[x].id /\ g.marker = flash[x].marker
          /\ g.records = flash[x].records
      BY <1>1, <2>1, TailChanges
    <2>3. flash' = [flash EXCEPT ![x] = g]
      BY <1>1, <1>3, <1>5, <2>1
    <2>4. flash'[x] = g /\ \A p \in Pages \ {x} : flash'[p] = flash[p]
      BY <1>1, <2>3
    <2>5. Loses(flash[x], g)
      <3>1. Loses(flash[x], flash[x])
        BY <1>1, LosesOrNot
      <3> QED
        BY <2>2, <3>1 DEF Loses, Kept
    <2>6. FlashLoses
      BY <2>2, <2>3, <2>5, SectorLoses
    <2> QED
      BY <1>1, <2>2, <2>4, <2>6 DEF OneSector
  <1>6. CASE /\ flash' = [flash EXCEPT ![currentPage].tail = "body"]
             /\ pc' = "recordCommit"
             /\ UNCHANGED <<currentPage, active, nextId, nextGeneration,
                            nextSequence, errors, pending, job, target, failures,
                            resets>>
    <2>1. /\ FlashLoses /\ OneSector(x)
          /\ \A p \in Pages : /\ flash'[p].header = flash[p].header
                              /\ flash'[p].generation = flash[p].generation
                              /\ flash'[p].id = flash[p].id /\ flash'[p].marker = flash[p].marker
                              /\ flash'[p].records = flash[p].records
      BY <1>5, <1>6
    <2>2. /\ Whole' = Whole /\ \A p \in Pages : Kept(flash'[p]) = Kept(flash[p])
      BY <2>1 DEF Whole, Kept
    <2>3. Writing' /\ \A p \in Whole : p \in Pages
      BY <1>6 DEF Writing, Whole
    <2>4. SectorsAreSound' /\ SectorsAreInOrder'
      BY <1>2, <2>1, LosingKeepsSectors
    <2>5. NumbersAreBounded'
      BY <1>1, <1>2, <1>6, <2>3 DEF NumbersAreBounded
    <2>6. NumbersAreNew'
      <3>1. \A p \in Whole : flash'[p].id < nextId /\ flash'[p].generation < nextGeneration
        BY <1>2, <2>1, <2>3 DEF RamIsExact, NumbersAreNew
      <3>2. active # NoId => active = nextId - 1
        BY <1>2 DEF RamIsExact, NumbersAreNew
      <3> QED
        BY <1>6, <2>2, <3>1, <3>2 DEF NumbersAreNew
    <2>7. JobIsNext'
      <3>1. \A p \in Whole : flash'[p].id = flash[p].id /\ Kept(flash'[p]) = Kept(flash[p])
        BY <2>1, <2>2, <2>3
      <3>2. JobIsNext
        BY <1>2 DEF RamIsExact
      <3> QED
        BY <1>1, <1>6, <2>2, <3>1, <3>2 DEF JobIsNext
    <2>8. EndsAreKnown'
      <3>1. \A p : IsPendingEviction(pages[p].id) => IsPendingEviction(pages[p].id)'
        BY <1>1 DEF IsPendingEviction
      <3>2. \A p : pages[p].id = active => EndIsKnown(p)'
        BY <1>1, <1>6 DEF EndIsKnown
      <3> QED
        BY <1>2, <1>4, <2>1, <3>1, <3>2, EndsStay DEF RamIsExact
    <2>9. IdsAgree'
      <3>1. \A p \in Whole : flash'[p].id = flash[p].id
        BY <2>1, <2>3
      <3> QED
        BY <1>1, <1>2, <2>2, <3>1 DEF RamIsExact, IdsAgree
    <2>10. TombstoneIsAlone'
      <3>1. \A m \in Marked(pages) : flash'[m].header = flash[m].header /\ flash'[m].marker = flash[m].marker
        BY <2>1 DEF Marked, Claimed
      <3> QED
        BY <1>1, <1>2, <3>1 DEF RamIsExact, TombstoneIsAlone
    <2>11. LooseRecords'
      BY <1>1, <1>2, <1>4, <2>1, NothingIsLoose DEF RamIsExact
    <2>12. RoomIsNewest'
      <3>1. RoomIsNewest
        BY <1>2 DEF RamIsExact
      <3>2. \A p \in Whole : flash'[p].id = flash[p].id /\ flash'[p].generation = flash[p].generation
        BY <2>1, <2>3
      <3>3. flash'[x].generation = flash[x].generation
        BY <2>1
      <3> QED
        BY <1>1, <1>3, <1>6, <2>2, <3>1, <3>2, <3>3 DEF RoomIsNewest, RoomInCurrentPage, IsFresh
    <2>13. SelectionIsForced'
      BY <1>6 DEF SelectionIsForced
    <2> QED
      BY <1>2, <2>4, <2>5, <2>6, <2>7, <2>8, <2>9, <2>10, <2>11, <2>12, <2>13
      DEF ArchiveInv, RamIsExact
  <1>7. CASE /\ Fail
             /\ flash' \in {flash, [flash EXCEPT ![currentPage].tail = "torn"]}
             /\ currentPage' = NoPage
             /\ Unwritten(1)
    <2>1. FlashLoses /\ OneSector(x)
      <3>1. CASE flash' = flash
        BY <1>1, <3>1, LosesOrNot DEF FlashLoses, OneSector
      <3>2. CASE flash' = [flash EXCEPT ![currentPage].tail = "torn"]
        BY <1>5, <3>2
      <3> QED
        BY <1>7, <3>1, <3>2
    <2>2. ~RoomInCurrentPage'
      BY <1>7 DEF RoomInCurrentPage
    <2> QED
      BY <1>1, <1>4, <1>7, <2>1, <2>2, GiveUp
  <1> QED
    BY <1>6, <1>7 DEF WriteRecord

\* A committed record is the last of the newest session.
LEMMA RecordKeepsSectors ==
    ASSUME LogInv, ArchiveInv, pc = "recordCommit",
           flash' = [flash EXCEPT ![currentPage].records = Append(@, job),
                                  ![currentPage].tail = "clean"]
    PROVE  /\ SectorsAreSound' /\ SectorsAreInOrder' /\ Whole' = Whole /\ currentPage \in Whole
           /\ \A p \in Pages : /\ flash'[p].header = flash[p].header
                               /\ flash'[p].generation = flash[p].generation
                               /\ flash'[p].id = flash[p].id /\ flash'[p].marker = flash[p].marker
           /\ \A p \in Pages \ {currentPage} : flash'[p] = flash[p]
           /\ flash[currentPage].id = active
           /\ Kept(flash'[currentPage]) = Kept(flash[currentPage]) \cup {job}
           /\ Len(flash'[currentPage].records) = pages[currentPage].used + 1
           /\ flash'[currentPage].records[pages[currentPage].used + 1] = job
  <1>1. /\ flash \in [Pages -> Sectors] /\ pages \in [Pages -> PageInfos]
        /\ SectorsAreSound /\ SectorsAreInOrder /\ JobIsNext /\ RoomIsNewest /\ NumbersAreNew
        /\ job \in RecordsOfLog /\ Writing /\ RoomInCurrentPage
    BY DEF LogInv, LogTypeOK, ArchiveInv, RamIsExact, Writing, OperationIsSound
  <1>2. PICK x \in Pages : x = currentPage
    BY CurrentPageFacts
  <1>3. /\ x \in Claimed(pages) /\ pages[x].id = active /\ pages[x].used < PageRecords
        /\ Shows(flash[x], pages[x]) /\ Len(flash[x].records) = pages[x].used
        /\ ~IsTombstone(flash[x]) /\ job.id = active /\ active # NoId
    BY <1>2, CurrentPageFacts
  <1>4. x \in Whole /\ flash[x].id = active
    BY <1>3 DEF Shows, Whole
  <1>5. PICK g : g = [flash[x] EXCEPT !.records = Append(@, job), !.tail = "clean"]
    OBVIOUS
  <1>6. /\ g.header = flash[x].header /\ g.generation = flash[x].generation
        /\ g.id = flash[x].id /\ g.marker = flash[x].marker
        /\ Len(g.records) = Len(flash[x].records) + 1
        /\ g.records[Len(flash[x].records) + 1] = job
        /\ Kept(g) = Kept(flash[x]) \cup {job}
    <2> DEFINE s == flash[x].records
    <2>1. s \in Seq(RecordsOfLog)
      BY <1>1 DEF Sectors
    <2>2. /\ g.header = flash[x].header /\ g.generation = flash[x].generation
          /\ g.id = flash[x].id /\ g.marker = flash[x].marker
          /\ g.records = Append(s, job)
      BY <1>1, <1>5 DEF Sectors
    <2>3. Kept(flash[x]) = {s[n] : n \in 1 .. Len(s)}
      BY DEF Kept
    <2> HIDE DEF s
    <2>4. /\ Len(s) \in Nat /\ Len(Append(s, job)) = Len(s) + 1
          /\ Append(s, job)[Len(s) + 1] = job
          /\ \A n \in 1 .. Len(s) : Append(s, job)[n] = s[n]
      BY <1>1, <2>1
    <2>5. 1 .. (Len(s) + 1) = (1 .. Len(s)) \cup {Len(s) + 1}
      BY <2>4
    <2>6. Kept(g) = {Append(s, job)[n] : n \in 1 .. (Len(s) + 1)}
      BY <2>2, <2>4 DEF Kept
    <2>7. {Append(s, job)[n] : n \in 1 .. (Len(s) + 1)} = {s[n] : n \in 1 .. Len(s)} \cup {job}
      BY <2>4, <2>5
    <2> QED
      BY <2>2, <2>3, <2>4, <2>6, <2>7 DEF s
  <1>7. flash' = [flash EXCEPT ![x] = g]
    BY <1>1, <1>2, <1>5
  <1>8. flash'[x] = g /\ \A p \in Pages \ {x} : flash'[p] = flash[p]
    BY <1>1, <1>7
  <1>9. /\ Whole' = Whole
        /\ \A p \in Pages : /\ flash'[p].header = flash[p].header
                            /\ flash'[p].generation = flash[p].generation
                            /\ flash'[p].id = flash[p].id /\ flash'[p].marker = flash[p].marker
    BY <1>6, <1>8 DEF Whole
  <1>10. /\ job \in HistoryRecords /\ (job.kind = "START" <=> job.sequence = 0)
         /\ \A p \in Whole : flash[p].id = active =>
               \A r \in Kept(flash[p]) : r.sequence < job.sequence
    BY <1>1 DEF JobIsNext
  <1>11. SectorsAreSound'
    <2>1. ASSUME NEW p \in Whole
          PROVE  /\ flash'[p].id # NoId
                 /\ Len(flash'[p].records) <= PageRecords
                 /\ \A r \in Kept(flash'[p]) :
                     /\ r.id = flash'[p].id
                     /\ r \in HistoryRecords
                     /\ r.kind = "START" <=> r.sequence = 0
      <3>1. CASE p = x
        <4>1. Len(g.records) <= PageRecords
          <5>1. pages[x].used \in Nat /\ PageRecords \in Nat
            BY <1>1, LogAssumption DEF PageInfos
          <5> QED
            BY <1>3, <1>6, <5>1
        <4>2. Kept(g) = Kept(flash[x]) \cup {job}
          BY <1>6
        <4>3. \A r \in Kept(flash[x]) : /\ r.id = active
                                        /\ r \in HistoryRecords
                                        /\ r.kind = "START" <=> r.sequence = 0
          BY <1>1, <1>4 DEF SectorsAreSound
        <4>4. \A r \in Kept(g) : /\ r.id = active
                                 /\ r \in HistoryRecords
                                 /\ r.kind = "START" <=> r.sequence = 0
          <5> SUFFICES ASSUME NEW r \in Kept(g)
                       PROVE  /\ r.id = active /\ r \in HistoryRecords
                              /\ r.kind = "START" <=> r.sequence = 0
            OBVIOUS
          <5>1. r \in Kept(flash[x]) \/ r = job
            BY <4>2
          <5>2. CASE r \in Kept(flash[x])
            BY <4>3, <5>2
          <5>3. CASE r = job
            BY <1>3, <1>10, <5>3
          <5> QED
            BY <5>1, <5>2, <5>3
        <4>5. flash'[p] = g /\ g.id = active
          BY <1>4, <1>6, <1>8, <3>1
        <4> QED
          BY <1>3, <4>1, <4>4, <4>5
      <3>2. CASE p # x
        <4>1. flash'[p] = flash[p]
          BY <1>8, <3>2 DEF Whole
        <4> QED
          BY <1>1, <4>1 DEF SectorsAreSound
      <3> QED
        BY <3>1, <3>2
    <2>2. \A p \in Pages : IsTombstone(flash'[p]) <=> IsTombstone(flash[p])
      BY <1>9 DEF IsTombstone
    <2> QED
      BY <1>1, <1>9, <2>1, <2>2 DEF SectorsAreSound
  <1>12. \A q \in Whole : flash[q].id = active => ~(flash[x].generation < flash[q].generation)
    <2> SUFFICES ASSUME NEW q \in Whole, flash[q].id = active
                 PROVE  ~(flash[x].generation < flash[q].generation)
      OBVIOUS
    <2>1. flash[q].generation <= flash[x].generation
      BY <1>1, <1>2, <1>3 DEF RoomIsNewest, IsFresh
    <2>2. flash[q].generation \in Nat /\ flash[x].generation \in Nat
      BY <1>1 DEF Sectors, Whole
    <2> QED
      BY <2>1, <2>2
  <1>13. SectorsAreInOrder'
    <2>1. ASSUME NEW p \in Whole, NEW q \in Whole, p # q, flash[p].id = flash[q].id,
                 flash[p].generation < flash[q].generation,
                 NEW r \in Kept(flash'[p]), NEW s \in Kept(flash'[q])
          PROVE  r.sequence < s.sequence
      <3>1. CASE p = x
        BY <1>4, <1>12, <2>1, <3>1
      <3>2. CASE q = x /\ p # x
        <4>1. r \in Kept(flash[p])
          BY <1>8, <2>1, <3>2 DEF Whole
        <4>2. CASE s \in Kept(flash[x])
          BY <1>1, <2>1, <3>2, <4>1, <4>2 DEF SectorsAreInOrder
        <4>3. CASE s = job
          BY <1>4, <1>10, <2>1, <3>2, <4>1, <4>3
        <4> QED
          BY <1>6, <1>8, <2>1, <3>2, <4>2, <4>3
      <3>3. CASE q # x /\ p # x
        BY <1>1, <1>8, <2>1, <3>3 DEF SectorsAreInOrder, Whole
      <3> QED
        BY <3>1, <3>2, <3>3
    <2>2. \A p \in Whole : flash'[p].id = flash[p].id /\ flash'[p].generation = flash[p].generation
      BY <1>9 DEF Whole
    <2>3. ASSUME NEW p \in Whole, NEW q \in Whole, p # q
          PROVE  /\ flash'[p].generation # flash'[q].generation
                 /\ flash'[p].id < flash'[q].id => flash'[p].generation < flash'[q].generation
      BY <1>1, <2>2, <2>3 DEF SectorsAreInOrder
    <2>4. ASSUME NEW p \in Whole, NEW q \in Whole, p # q, flash'[p].id = flash'[q].id,
                 flash'[p].generation < flash'[q].generation
          PROVE  \A r \in Kept(flash'[p]), s \in Kept(flash'[q]) : r.sequence < s.sequence
      <3>1. flash[p].id = flash[q].id /\ flash[p].generation < flash[q].generation
        BY <2>2, <2>4
      <3> QED
        BY <2>1, <2>4, <3>1
    <2> SUFFICES ASSUME NEW p \in Whole', NEW q \in Whole', p # q
                 PROVE  /\ flash'[p].generation # flash'[q].generation
                        /\ flash'[p].id < flash'[q].id => flash'[p].generation < flash'[q].generation
                        /\ flash'[p].id = flash'[q].id /\ flash'[p].generation < flash'[q].generation =>
                              \A r \in Kept(flash'[p]), s \in Kept(flash'[q]) : r.sequence < s.sequence
      BY DEF SectorsAreInOrder
    <2>5. p \in Whole /\ q \in Whole
      BY <1>9
    <2> QED
      BY <2>3, <2>4, <2>5
  <1> QED
    BY <1>2, <1>3, <1>4, <1>6, <1>8, <1>9, <1>11, <1>13

\* The commit word of a record.
LEMMA CommitRecordArchive == LogInv /\ LogInv' /\ ArchiveInv /\ CommitRecord => ArchiveInv'
  <1> SUFFICES ASSUME LogInv, LogInv', ArchiveInv, CommitRecord PROVE ArchiveInv'
    OBVIOUS
  <1>1. /\ flash \in [Pages -> Sectors] /\ pages \in [Pages -> PageInfos]
        /\ pc = "recordCommit" /\ Writing /\ RoomInCurrentPage
    BY DEF LogInv, LogTypeOK, CommitRecord, Writing, OperationIsSound
  <1>2. /\ EraseKeepsMarker /\ SectorsAreSound /\ SectorsAreInOrder /\ NumbersAreBounded /\ RamIsExact
    BY <1>1 DEF ArchiveInv
  <1>3. PICK x \in Pages : x = currentPage
    BY <1>1, CurrentPageFacts
  <1>4. /\ x \in Claimed(pages) /\ x \notin Marked(pages) /\ pages[x].id = active
        /\ job.id = active /\ active # NoId /\ pages[x] \in PageInfos
    BY <1>1, <1>3, CurrentPageFacts
  <1>5. /\ MaxSequence \in Nat /\ MaxSessions \in Nat /\ nextSequence \in Nat
        /\ job.sequence \in Nat
        /\ job.sequence < nextSequence /\ job.kind \in {"START", "END", "ORDINARY"}
        /\ \A p \in Whole : flash[p].id = active =>
               \A r \in Kept(flash[p]) :
                   r.sequence < job.sequence /\ (r.kind = "END" => job.kind = "END")
    <2>1. job \in HistoryRecords /\ JobIsNext
      BY <1>1, <1>2 DEF RamIsExact, JobIsNext
    <2>2. job.kind \in {"START", "END", "ORDINARY"}
      BY <2>1 DEF HistoryRecords, Kinds, Lifecycle
    <2> QED
      BY <1>1, <1>2, <2>1, <2>2, BoundsType DEF JobIsNext
  <1> DEFINE committed == [flash EXCEPT ![currentPage].records = Append(@, job),
                                        ![currentPage].tail = "clean"]
  <1>6. ASSUME flash' = committed
        PROVE  /\ SectorsAreSound' /\ SectorsAreInOrder' /\ Whole' = Whole
               /\ \A p \in Pages : /\ flash'[p].header = flash[p].header
                                   /\ flash'[p].generation = flash[p].generation
                                   /\ flash'[p].id = flash[p].id /\ flash'[p].marker = flash[p].marker
               /\ \A p \in Pages \ {x} : flash'[p] = flash[p]
               /\ flash[x].id = active
               /\ Kept(flash'[x]) = Kept(flash[x]) \cup {job}
               /\ Len(flash'[x].records) = pages[x].used + 1
               /\ flash'[x].records[pages[x].used + 1] = job
               /\ \A p \in Whole' : p \in Pages /\ flash'[p].id < nextId
                                    /\ flash'[p].generation < nextGeneration
               /\ \A p \in Whole' : flash'[p].id = active =>
                     \A r \in Kept(flash'[p]) :
                         r.sequence <= job.sequence /\ (r.kind = "END" => job.kind = "END")
    <2>1. /\ SectorsAreSound' /\ SectorsAreInOrder' /\ Whole' = Whole /\ x \in Whole
          /\ \A p \in Pages : /\ flash'[p].header = flash[p].header
                              /\ flash'[p].generation = flash[p].generation
                              /\ flash'[p].id = flash[p].id /\ flash'[p].marker = flash[p].marker
          /\ \A p \in Pages \ {x} : flash'[p] = flash[p]
          /\ flash[x].id = active
          /\ Kept(flash'[x]) = Kept(flash[x]) \cup {job}
          /\ Len(flash'[x].records) = pages[x].used + 1
          /\ flash'[x].records[pages[x].used + 1] = job
      BY <1>1, <1>3, <1>6, RecordKeepsSectors
    <2> HIDE DEF committed
    <2>2. \A p \in Whole' : p \in Pages /\ flash'[p].id < nextId /\ flash'[p].generation < nextGeneration
      BY <1>2, <2>1 DEF RamIsExact, NumbersAreNew, Whole
    <2>3. ASSUME NEW p \in Whole', flash'[p].id = active, NEW r \in Kept(flash'[p])
          PROVE  r.sequence <= job.sequence /\ (r.kind = "END" => job.kind = "END")
      <3>1. r = job \/ (r \in Kept(flash[p]) /\ p \in Whole /\ flash[p].id = active)
        BY <2>1, <2>2, <2>3
      <3>2. r.sequence \in Nat
        BY <2>2, SectorTypes, KeptType, <3>1, <1>5
      <3> QED
        BY <1>5, <3>1, <3>2
    <2> QED
      BY <2>1, <2>2, <2>3
  <1>7. CASE /\ flash' = committed
             /\ pages' = [pages EXCEPT ![currentPage].used = @ + 1]
             /\ errors' = 0
             /\ pending' = NoKind
             /\ active' = IF job.kind = "END" THEN NoId ELSE active
             /\ currentPage' = IF job.kind = "END" THEN NoPage ELSE currentPage
             /\ pc' = "idle"
             /\ job' = NoJob
             /\ UNCHANGED <<nextId, nextGeneration, nextSequence, target,
                            failures, resets>>
    <2>1. /\ SectorsAreSound' /\ SectorsAreInOrder' /\ Whole' = Whole
          /\ \A p \in Pages : /\ flash'[p].header = flash[p].header
                              /\ flash'[p].generation = flash[p].generation
                              /\ flash'[p].id = flash[p].id /\ flash'[p].marker = flash[p].marker
          /\ \A p \in Pages \ {x} : flash'[p] = flash[p]
          /\ flash[x].id = active
          /\ Kept(flash'[x]) = Kept(flash[x]) \cup {job}
          /\ Len(flash'[x].records) = pages[x].used + 1
          /\ flash'[x].records[pages[x].used + 1] = job
          /\ \A p \in Whole' : p \in Pages /\ flash'[p].id < nextId
                               /\ flash'[p].generation < nextGeneration
          /\ \A p \in Whole' : flash'[p].id = active =>
                \A r \in Kept(flash'[p]) :
                    r.sequence <= job.sequence /\ (r.kind = "END" => job.kind = "END")
      BY <1>6, <1>7
    <2> HIDE DEF committed
    <2>2. /\ \A p \in Pages : /\ pages'[p].valid = pages[p].valid /\ pages'[p].id = pages[p].id
                              /\ pages'[p].marker = pages[p].marker
          /\ \A p \in Pages \ {x} : pages'[p] = pages[p]
          /\ pages'[x].used = pages[x].used + 1
      BY <1>1, <1>3, <1>4, <1>7 DEF PageInfos
    <2>3. Claimed(pages') = Claimed(pages) /\ Marked(pages') = Marked(pages)
      BY <2>2 DEF Claimed, Marked
    <2>4. \A id : IsPendingEviction(id)' <=> IsPendingEviction(id)
      BY <2>2, <2>3 DEF IsPendingEviction, Marked, Claimed
    <2>5. OneSector(x)
      BY <2>1, <2>2 DEF OneSector
    <2>6. ~Writing' /\ pc' = "idle" /\ NoKind \notin {"START", "END"}
      BY <1>7 DEF Writing, NoKind
    <2>7. NumbersAreBounded'
      <3>1. job.kind # "END" => nextSequence <= MaxSequence + 1
        BY <1>1, <1>2 DEF NumbersAreBounded
      <3>2. nextSequence # 0
        BY <1>5
      <3>3. failures \in 0 .. MaxFailures /\ active <= MaxSessions + failures
        BY <1>2, <1>4 DEF NumbersAreBounded
      <3> QED
        BY <1>7, <2>6, <3>1, <3>2, <3>3 DEF NumbersAreBounded
    <2>8. NumbersAreNew'
      <3>1. active = nextId - 1
        BY <1>2, <1>4 DEF RamIsExact, NumbersAreNew
      <3> QED
        BY <1>7, <2>1, <3>1 DEF NumbersAreNew
    <2>9. JobIsNext'
      <3> SUFFICES ASSUME job.kind # "END", active' = active,
                          NEW p \in Whole', flash'[p].id = active, NEW r \in Kept(flash'[p])
                   PROVE  r.sequence < nextSequence /\ r.kind # "END"
        BY <1>7, <2>6 DEF JobIsNext
      <3>1. r.sequence <= job.sequence /\ r.kind # "END"
        BY <2>1
      <3>2. r.sequence \in Nat
        <4>1. flash'[p] \in Sectors
          BY <2>1 DEF LogInv, LogTypeOK
        <4> QED
          BY <4>1, KeptType
      <3> QED
        BY <1>5, <3>1, <3>2
    <2>10. EndsAreKnown'
      <3>1. ASSUME NEW p \in Claimed(pages), pages[p].id = active PROVE EndIsKnown(p)'
        <4>1. p \in Pages /\ pages'[p].id = active
          BY <2>2, <3>1 DEF Claimed
        <4>2. CASE active' = active
          BY <4>1, <4>2 DEF EndIsKnown
        <4>3. CASE job.kind = "END"
          <5>1. x \in Claimed(pages') /\ pages'[x].id = active
            BY <1>4, <2>2, <2>3
          <5>2. pages'[x].used \in Nat /\ pages'[x].used \in 1 .. pages'[x].used
            BY <1>4, <2>2 DEF PageInfos
          <5>3. flash'[x].records[pages'[x].used].kind = "END"
            BY <2>1, <2>2, <4>3
          <5> QED
            BY <4>1, <5>1, <5>2, <5>3 DEF EndIsKnown, HasEnd
        <4> QED
          BY <1>7, <4>2, <4>3
      <3>2. \A p \in Claimed(pages) \ {x} :
                IsPendingEviction(pages[p].id) => IsPendingEviction(pages[p].id)'
        <4> SUFFICES ASSUME NEW p \in Claimed(pages) \ {x}, IsPendingEviction(pages[p].id)
                     PROVE  IsPendingEviction(pages[p].id)'
          OBVIOUS
        <4>1. pages'[p].id = pages[p].id
          BY <2>2 DEF Claimed
        <4> QED
          BY <2>4, <4>1
      <3>3. pages[x].valid => pages[x].id = active
        BY <1>4
      <3> QED
        BY <1>2, <1>4, <2>5, <3>1, <3>2, <3>3, EndsStay DEF RamIsExact
    <2>11. IdsAgree'
      <3>1. flash'[x].id = pages'[x].id
        BY <1>4, <2>1, <2>2
      <3> QED
        BY <1>2, <2>5, <3>1, IdsStay DEF RamIsExact
    <2>12. TombstoneIsAlone'
      <3> SUFFICES ASSUME NEW m \in Marked(pages)
                   PROVE  /\ Marked(pages) = {m}
                          /\ flash'[m].header = "whole" => flash'[m].marker
                          /\ Others(pages', m) # {} => flash'[m].header = "whole"
        BY <2>3 DEF TombstoneIsAlone
      <3>1. /\ Marked(pages) = {m}
            /\ flash[m].header = "whole" => flash[m].marker
            /\ Others(pages, m) # {} => flash[m].header = "whole"
        BY <1>2 DEF RamIsExact, TombstoneIsAlone
      <3>2. m \in Pages /\ \A p \in Claimed(pages) : p \in Pages
        BY DEF Marked, Claimed
      <3>3. Others(pages', m) = Others(pages, m)
        BY <2>2, <2>3, <3>2 DEF Others
      <3> QED
        BY <2>1, <3>1, <3>2, <3>3
    <2>13. LooseRecords'
      <3>1. x \in Claimed(pages')
        BY <1>4, <2>3
      <3> QED
        BY <1>1, <1>2, <2>5, <3>1, NothingIsLoose DEF RamIsExact
    <2>14. RoomIsNewest'
      <3> SUFFICES ASSUME active' # NoId, NEW q \in Whole', flash'[q].id = active'
                   PROVE  flash'[q].generation <= flash'[currentPage'].generation
        BY DEF RoomIsNewest
      <3>1. active' = active /\ currentPage' = x
        BY <1>3, <1>7
      <3>2. flash[q].generation <= flash[x].generation
        BY <1>1, <1>2, <1>3, <1>4, <2>1, <3>1 DEF RamIsExact, RoomIsNewest, IsFresh
      <3> QED
        BY <2>1, <3>1, <3>2
    <2>15. SelectionIsForced'
      BY <2>6 DEF SelectionIsForced
    <2> QED
      BY <1>2, <2>1, <2>7, <2>8, <2>9, <2>10, <2>11, <2>12, <2>13, <2>14, <2>15
      DEF ArchiveInv, RamIsExact
  <1>8. CASE /\ Fail /\ flash' = committed
             /\ currentPage' = NoPage
             /\ Unwritten(1)
             /\ UNCHANGED pages
    <2>1. /\ SectorsAreSound' /\ SectorsAreInOrder' /\ Whole' = Whole
          /\ \A p \in Pages : /\ flash'[p].header = flash[p].header
                              /\ flash'[p].generation = flash[p].generation
                              /\ flash'[p].id = flash[p].id /\ flash'[p].marker = flash[p].marker
          /\ \A p \in Pages \ {x} : flash'[p] = flash[p]
          /\ flash[x].id = active
          /\ Kept(flash'[x]) = Kept(flash[x]) \cup {job}
          /\ \A p \in Whole' : p \in Pages /\ flash'[p].id < nextId
                               /\ flash'[p].generation < nextGeneration
          /\ \A p \in Whole' : flash'[p].id = active =>
                \A r \in Kept(flash'[p]) :
                    r.sequence <= job.sequence /\ (r.kind = "END" => job.kind = "END")
      BY <1>6, <1>8
    <2> HIDE DEF committed
    <2>2. /\ NumbersAreBounded'
          /\ pc' # "stopped" => NumbersAreNew' /\ JobIsNext' /\ SelectionIsForced'
      BY <1>1, <1>8, <2>1, AbandonNumbers
    <2>3. /\ pc' \in {"idle", "stopped"}
          /\ active' = IF job.kind = "START" THEN NoId ELSE active
      BY <1>8 DEF Unwritten
    <2>4. OneSector(x)
      BY <1>8, <2>1 DEF OneSector
    <2>5. EndsAreKnown'
      <3>1. ASSUME NEW p \in Claimed(pages) \cap Whole, pages[p].id = active PROVE EndIsKnown(p)'
        <4>1. p \in Pages /\ p \in Whole' /\ flash'[p].id = active
          BY <1>2, <2>1, <3>1 DEF RamIsExact, IdsAgree
        <4>2. job.kind = "START" => \A r \in Kept(flash'[p]) : r.kind # "END"
          BY <2>1, <4>1
        <4> QED
          BY <1>8, <2>3, <3>1, <4>2 DEF EndIsKnown
      <3>2. \A p : IsPendingEviction(pages[p].id) => IsPendingEviction(pages[p].id)'
        BY <1>8 DEF IsPendingEviction
      <3>3. x \in Claimed(pages') \cap Whole' => EndIsKnown(x)'
        BY <1>4, <1>8, <2>1, <3>1
      <3> QED
        BY <1>2, <1>4, <2>4, <3>1, <3>2, <3>3, EndsStay DEF RamIsExact
    <2>6. IdsAgree'
      BY <1>2, <1>4, <1>8, <2>1, <2>4, IdsStay DEF RamIsExact
    <2>7. TombstoneIsAlone'
      <3>1. \A m \in Marked(pages) : flash'[m].header = flash[m].header /\ flash'[m].marker = flash[m].marker
        BY <2>1 DEF Marked, Claimed
      <3> QED
        BY <1>2, <1>8, <3>1 DEF RamIsExact, TombstoneIsAlone
    <2>8. LooseRecords'
      BY <1>1, <1>2, <1>4, <1>8, <2>4, NothingIsLoose DEF RamIsExact
    <2>9. RoomIsNewest'
      BY <1>8 DEF RoomIsNewest, RoomInCurrentPage
    <2> QED
      BY <1>2, <2>1, <2>2, <2>5, <2>6, <2>7, <2>8, <2>9 DEF ArchiveInv, RamIsExact
  <1>9. CASE /\ Fail /\ flash' = [flash EXCEPT ![currentPage].tail = "torn"]
             /\ currentPage' = NoPage
             /\ Unwritten(1)
             /\ UNCHANGED pages
    <2>1. PICK g : g = [flash[x] EXCEPT !.tail = "torn"]
      OBVIOUS
    <2>2. /\ g \in Sectors /\ g.header = flash[x].header /\ g.generation = flash[x].generation
          /\ g.id = flash[x].id /\ g.marker = flash[x].marker /\ g.records = flash[x].records
      BY <1>1, <2>1, TailChanges
    <2>3. flash' = [flash EXCEPT ![x] = g]
      BY <1>1, <1>3, <1>9, <2>1
    <2>4. Loses(flash[x], g)
      <3>1. Loses(flash[x], flash[x])
        BY <1>1, LosesOrNot
      <3> QED
        BY <2>2, <3>1 DEF Loses, Kept
    <2>5. FlashLoses
      BY <2>3, <2>4, SectorLoses
    <2>6. OneSector(x)
      BY <1>1, <1>9, <2>3 DEF OneSector
    <2>7. ~RoomInCurrentPage'
      BY <1>9 DEF RoomInCurrentPage
    <2> QED
      BY <1>1, <1>4, <1>9, <2>5, <2>6, <2>7, GiveUp
  <1> QED
    BY <1>7, <1>8, <1>9 DEF CommitRecord

\* Every step keeps what RAM and the flash have in common.
LEMMA NextArchive == LogInv /\ LogInv' /\ ArchiveInv /\ [Next]_vars => ArchiveInv'
  <1> SUFFICES ASSUME LogInv, LogInv', ArchiveInv, [Next]_vars PROVE ArchiveInv'
    OBVIOUS
  <1>1. CASE UNCHANGED vars
    <2>1. /\ UNCHANGED <<flash, pages, currentPage, active, nextId, nextGeneration, nextSequence>>
          /\ UNCHANGED <<pending, pc, job, target, failures>>
      BY <1>1 DEF vars
    <2>2. /\ SectorsAreSound' = SectorsAreSound /\ SectorsAreInOrder' = SectorsAreInOrder
          /\ NumbersAreBounded' = NumbersAreBounded
      BY <2>1 DEF SectorsAreSound, SectorsAreInOrder, NumbersAreBounded, Whole, Writing
    <2>3. /\ NumbersAreNew' = NumbersAreNew /\ JobIsNext' = JobIsNext /\ IdsAgree' = IdsAgree
          /\ TombstoneIsAlone' = TombstoneIsAlone /\ RoomInCurrentPage' = RoomInCurrentPage
      BY <2>1 DEF NumbersAreNew, JobIsNext, IdsAgree, TombstoneIsAlone, Whole, Writing,
                  RoomInCurrentPage
    <2>4. LooseRecords' = LooseRecords
      BY <2>1, <2>3 DEF LooseRecords, HasRecords
    <2>5. EndsAreKnown' = EndsAreKnown
      BY <2>1 DEF EndsAreKnown, EndIsKnown, HasEnd, IsPendingEviction, Whole
    <2>6. RoomIsNewest' = RoomIsNewest
      BY <2>1, <2>3 DEF RoomIsNewest, Whole, IsFresh
    <2>7. SelectionIsForced' = SelectionIsForced
      <3>1. Victim(active)' = Victim(active)
        BY <2>1 DEF Victim, HasEnd, OldestOf, OldestGeneration
      <3> QED
        BY <2>1, <2>3, <3>1 DEF SelectionIsForced
    <2> QED
      BY <2>1, <2>2, <2>3, <2>4, <2>5, <2>6, <2>7 DEF ArchiveInv, RamIsExact
  <1>2. CASE FlashStep
    BY <1>2, InitializeArchive, ScanFailsArchive, RecoverArchive, SelectArchive, MarkArchive,
       EvictArchive, EraseArchive, WriteHeaderArchive, CommitHeaderArchive, WriteRecordArchive,
       CommitRecordArchive DEF FlashStep
  <1>3. CASE BeginSession
    BY <1>3, BeginArchive
  <1>4. ASSUME NEW kind \in {"ORDINARY", "END"}, AppendRecord(kind) PROVE ArchiveInv'
    BY <1>4, AppendArchive
  <1>5. CASE Reset
    BY <1>5, ResetArchive
  <1> QED
    BY <1>1, <1>2, <1>3, <1>4, <1>5 DEF Next

----------------------------------------------------------------------------
(* What the next boot would find.                                            *)

\* The records of sector p that a boot would reconstruct.
Shown(p) == IF p \in Visible THEN Kept(flash[p]) ELSE {}

\* Two ways to list the records of a sector.
LEMMA KeptIsToSet ==
    ASSUME NEW f \in Sectors
    PROVE  ToSet(f.records) = Kept(f)
  <1> DEFINE s == f.records
  <1>1. s \in Seq(RecordsOfLog)
    BY DEF Sectors
  <1> HIDE DEF s
  <1>2. DOMAIN s = 1 .. Len(s)
    BY <1>1
  <1>3. ToSet(s) = {s[n] : n \in 1 .. Len(s)}
    BY <1>2 DEF ToSet
  <1> QED
    BY <1>3 DEF Kept, s

\* The archive is what the sectors show.
LEMMA DurableIsShown ==
    LogInv => \A r : r \in Durable <=> \E p \in Pages : r \in Shown(p)
  <1> SUFFICES ASSUME LogInv PROVE \A r : r \in Durable <=> \E p \in Pages : r \in Shown(p)
    OBVIOUS
  <1>1. \A p \in Visible : p \in Pages /\ ToSet(flash[p].records) = Kept(flash[p])
    BY KeptIsToSet DEF LogInv, LogTypeOK, Visible, Whole
  <1> QED
    BY <1>1 DEF Durable, Shown

\* And so is the next one.
LEMMA NextDurableIsShown ==
    LogInv' => \A r : r \in Durable' <=> \E p \in Pages : r \in Shown(p)'
  <1> SUFFICES ASSUME LogInv' PROVE \A r : r \in Durable' <=> \E p \in Pages : r \in Shown(p)'
    OBVIOUS
  <1>1. \A p \in Visible' : p \in Pages /\ ToSet(flash'[p].records) = Kept(flash'[p])
    BY KeptIsToSet DEF LogInv, LogTypeOK, Visible, Whole
  <1> QED
    BY <1>1 DEF Durable, Shown

\* Sectors that show the same make the same archive.
LEMMA ShownIsDurable ==
    ASSUME LogInv, LogInv', \A p \in Pages : Shown(p)' = Shown(p)
    PROVE  Durable' = Durable
  BY DurableIsShown, NextDurableIsShown

\* A sector that does not change shows what it did, while the tombstones stay.
LEMMA OneShown ==
    ASSUME NEW x \in Pages, \A p \in Pages \ {x} : flash'[p] = flash[p], Tombstoned' = Tombstoned
    PROVE  \A p \in Pages \ {x} : Shown(p)' = Shown(p)
  BY DEF Shown, Visible, Whole

\* They do, if the sector that changes is a tombstone before and after, or never.
LEMMA TombstonesStay ==
    ASSUME NEW x \in Pages, \A p \in Pages \ {x} : flash'[p] = flash[p],
           IsTombstone(flash'[x]) <=> IsTombstone(flash[x]),
           IsTombstone(flash[x]) => flash'[x].id = flash[x].id
    PROVE  Tombstoned' = Tombstoned
  <1>1. Tombstoned = {flash[p].id : p \in {q \in Pages : IsTombstone(flash[q])}}
    BY DEF Tombstoned, Whole, IsTombstone
  <1>2. Tombstoned' = {flash'[p].id : p \in {q \in Pages : IsTombstone(flash'[q])}}
    BY DEF Tombstoned, Whole, IsTombstone
  <1>3. {q \in Pages : IsTombstone(flash'[q])} = {q \in Pages : IsTombstone(flash[q])}
    OBVIOUS
  <1>4. \A p \in {q \in Pages : IsTombstone(flash[q])} : flash'[p].id = flash[p].id
    OBVIOUS
  <1> QED
    BY <1>1, <1>2, <1>3, <1>4

\* One sector changes, and shows what it did: the archive does not.
LEMMA OneSectorStutters ==
    ASSUME LogInv, LogInv', NEW x \in Pages, \A p \in Pages \ {x} : flash'[p] = flash[p],
           IsTombstone(flash'[x]) <=> IsTombstone(flash[x]),
           IsTombstone(flash[x]) => flash'[x].id = flash[x].id,
           Shown(x)' = Shown(x)
    PROVE  Durable' = Durable
  BY TombstonesStay, OneShown, ShownIsDurable

\* The tail of a sector is not shown.
LEMMA TailStutters ==
    ASSUME LogInv, LogInv', NEW x \in Pages, NEW tail \in {"clean", "torn", "body"},
           flash' = [flash EXCEPT ![x].tail = tail]
    PROVE  Durable' = Durable
  <1>1. flash \in [Pages -> Sectors]
    BY DEF LogInv, LogTypeOK
  <1>2. /\ flash'[x] = [flash[x] EXCEPT !.tail = tail]
        /\ \A p \in Pages \ {x} : flash'[p] = flash[p]
    BY <1>1
  <1>3. /\ flash'[x].header = flash[x].header /\ flash'[x].id = flash[x].id
        /\ flash'[x].marker = flash[x].marker /\ flash'[x].records = flash[x].records
    BY <1>1, <1>2, TailChanges
  <1>4. \A p \in Pages : /\ flash'[p].header = flash[p].header /\ flash'[p].id = flash[p].id
                         /\ flash'[p].marker = flash[p].marker
                         /\ flash'[p].records = flash[p].records
    BY <1>2, <1>3
  <1>5. IsTombstone(flash'[x]) <=> IsTombstone(flash[x])
    BY <1>3 DEF IsTombstone
  <1>6. Tombstoned' = Tombstoned
    BY <1>2, <1>3, <1>5, TombstonesStay
  <1>7. Shown(x)' = Shown(x)
    BY <1>3, <1>6 DEF Shown, Visible, Whole, Kept
  <1> QED
    BY <1>2, <1>3, <1>5, <1>7, OneSectorStutters

\* A header has no records.
LEMMA HeaderStutters ==
    ASSUME LogInv, LogInv', ArchiveInv, WriteHeader \/ CommitHeader
    PROVE  Durable' = Durable
  <1>1. flash \in [Pages -> Sectors] /\ pages \in [Pages -> PageInfos]
        /\ pc \in {"header", "headerCommit"}
    BY DEF LogInv, LogTypeOK, WriteHeader, CommitHeader
  <1>2. PICK x \in Pages : x = target
    BY <1>1, HeaderFacts
  <1>3. x \notin Whole
    BY <1>1, <1>2, HeaderFacts
  <1>4. PICK h \in Sectors : h = WholeHeader(x) /\ ~h.marker /\ Len(h.records) = 0
    BY <1>1, WholeHeaderIs
  <1>5. PICK g \in {flash[x], Torn, h} : flash' = [flash EXCEPT ![x] = g]
    <2>1. flash' = flash \/ flash' = [flash EXCEPT ![x] = Torn] \/ flash' = [flash EXCEPT ![x] = h]
      BY <1>2, <1>4 DEF WriteHeader, CommitHeader
    <2> QED
      BY <1>1, <2>1, FlashIsItself
  <1>6. flash'[x] = g /\ \A p \in Pages \ {x} : flash'[p] = flash[p]
    BY <1>1, <1>5
  <1>7. ~IsTombstone(flash[x])
    BY <1>3 DEF IsTombstone, Whole
  <1>8. ~IsTombstone(g)
    BY <1>4, <1>5, <1>7, ConstantsAreTyped DEF IsTombstone
  <1>9. Shown(x) = {}
    BY <1>3 DEF Shown, Visible
  <1>10. Shown(x)' = {}
    <2>1. Kept(h) = {}
      BY <1>4 DEF Kept
    <2>2. CASE g = h
      BY <1>6, <2>1, <2>2 DEF Shown
    <2>3. CASE g # h
      <3>1. x \notin Whole'
        BY <1>3, <1>5, <1>6, <2>3, EmptySectors DEF Whole
      <3> QED
        BY <3>1 DEF Shown, Visible
    <2> QED
      BY <2>2, <2>3
  <1> QED
    BY <1>6, <1>7, <1>8, <1>9, <1>10, OneSectorStutters

\* The sectors of a session with a tombstone are not shown, whatever is left of them.
LEMMA EvictedStutters ==
    ASSUME LogInv, LogInv', ArchiveInv, pc \notin {"scan", "stopped"},
           NEW m \in Marked(pages), NEW p \in Others(pages, m),
           NEW g \in Sectors, Loses(flash[p], g), flash' = [flash EXCEPT ![p] = g]
    PROVE  Durable' = Durable
  <1>1. /\ flash \in [Pages -> Sectors] /\ IdsAgree /\ TombstoneIsAlone
    BY DEF LogInv, LogTypeOK, ArchiveInv, RamIsExact
  <1>2. /\ p \notin Marked(pages) /\ p \in Claimed(pages) /\ p # m /\ pages[p].id = pages[m].id
        /\ flash[m].header = "whole" /\ flash[m].marker /\ p \in Pages
        /\ m \in Pages /\ m \in Claimed(pages)
    BY <1>1, OthersAreNotMarked DEF Claimed, Marked
  <1>3. flash'[p] = g /\ \A q \in Pages \ {p} : flash'[q] = flash[q]
    BY <1>1, <1>2
  <1>4. ~IsTombstone(flash[p])
    BY <1>2 DEF LogInv, TombstonesAreKnown
  <1>5. ~IsTombstone(g)
    BY <1>4 DEF Loses, IsTombstone
  <1>6. flash[m].id = pages[m].id
    BY <1>1, <1>2 DEF IdsAgree, Whole
  <1>7. Tombstoned' = Tombstoned
    BY <1>2, <1>3, <1>4, <1>5, TombstonesStay
  <1>8. pages[m].id \in Tombstoned
    BY <1>2, <1>6 DEF Tombstoned, Whole
  <1>9. Shown(p) = {}
    <2>1. p \in Whole => flash[p].id = pages[m].id
      BY <1>1, <1>2 DEF IdsAgree
    <2> QED
      BY <1>8, <2>1 DEF Shown, Visible
  <1>10. Shown(p)' = {}
    <2>1. p \in Whole' => flash'[p].id = pages[m].id
      BY <1>1, <1>2, <1>3 DEF IdsAgree, Whole, Loses
    <2> QED
      BY <1>7, <1>8, <2>1 DEF Shown, Visible
  <1> QED
    BY <1>2, <1>3, <1>4, <1>5, <1>9, <1>10, OneSectorStutters

\* The tombstone goes last: no record that it hid is left.
LEMMA TombstoneStutters ==
    ASSUME LogInv, LogInv', ArchiveInv, pc \notin {"scan", "stopped"},
           NEW m \in Marked(pages), Others(pages, m) = {},
           NEW g \in Sectors, Loses(flash[m], g), flash' = [flash EXCEPT ![m] = g]
    PROVE  Durable' = Durable
  <1>1. /\ flash \in [Pages -> Sectors] /\ IdsAgree /\ TombstoneIsAlone /\ LooseRecords
        /\ m \in Pages /\ m \in Claimed(pages)
    BY DEF LogInv, LogTypeOK, ArchiveInv, RamIsExact, Marked, Claimed
  <1>2. flash'[m] = g /\ \A q \in Pages \ {m} : flash'[q] = flash[q]
    BY <1>1
  <1>3. CASE m \notin Whole
    <2>1. g.header # "whole"
      BY <1>1, <1>3 DEF Loses, Whole
    <2>2. ~IsTombstone(g) /\ ~IsTombstone(flash[m])
      BY <1>1, <1>3, <2>1 DEF IsTombstone, Whole
    <2>3. Shown(m) = {} /\ Shown(m)' = {}
      BY <1>2, <1>3, <2>1 DEF Shown, Visible, Whole
    <2> QED
      BY <1>1, <1>2, <2>2, <2>3, OneSectorStutters
  <1>4. CASE m \in Whole /\ g.header = "whole"
    <2>1. flash[m].marker /\ g.marker /\ g.id = flash[m].id
      BY <1>1, <1>4 DEF TombstoneIsAlone, Loses, Whole
    <2>2. IsTombstone(flash[m]) /\ IsTombstone(g)
      BY <1>4, <2>1 DEF IsTombstone, Whole
    <2>3. flash[m].id \in Tombstoned /\ flash'[m].id \in Tombstoned'
      BY <1>1, <1>2, <1>4, <2>1 DEF Tombstoned, Whole
    <2>4. Shown(m) = {} /\ Shown(m)' = {}
      BY <2>3 DEF Shown, Visible
    <2> QED
      BY <1>1, <1>2, <2>1, <2>2, <2>4, OneSectorStutters
  <1>5. CASE m \in Whole /\ g.header # "whole"
    <2>1. IsTombstone(flash[m]) /\ ~IsTombstone(g)
      BY <1>1, <1>5 DEF TombstoneIsAlone, IsTombstone, Whole
    <2>2. \A p \in Pages \ {m} : ~IsTombstone(flash[p])
      BY <1>1, <2>1 DEF ArchiveInv, SectorsAreSound
    <2>3. /\ \A p \in Pages : IsTombstone(flash[p]) <=> p = m
          /\ \A p \in Pages : ~IsTombstone(flash'[p])
      BY <1>2, <2>1, <2>2
    <2>4. Tombstoned = {flash[m].id} /\ Tombstoned' = {}
      BY <1>1, <2>3 DEF Tombstoned, Whole, IsTombstone
    <2>5. Shown(m) = {} /\ Shown(m)' = {}
      BY <1>2, <1>5, <2>4 DEF Shown, Visible, Whole
    <2>6. ASSUME NEW p \in Pages \ {m} PROVE Shown(p)' = Shown(p)
      <3>1. CASE p \notin Whole
        BY <1>2, <3>1 DEF Shown, Visible, Whole
      <3>2. CASE p \in Whole /\ flash[p].id # flash[m].id
        BY <1>2, <2>4, <3>2 DEF Shown, Visible, Whole
      <3>3. CASE p \in Whole /\ flash[p].id = flash[m].id
        <4>1. p \notin Claimed(pages)
          BY <1>1, <1>5, <3>3 DEF IdsAgree, Others
        <4>2. Kept(flash[p]) = {}
          BY <1>1, <3>3, <4>1 DEF LooseRecords, HasRecords, Whole
        <4> QED
          BY <1>2, <4>2 DEF Shown
      <3> QED
        BY <3>1, <3>2, <3>3
    <2> QED
      BY <2>5, <2>6, ShownIsDurable
  <1> QED
    BY <1>3, <1>4, <1>5

\* A session is evicted before the archive notices.
LEMMA EvictStutters ==
    ASSUME LogInv, LogInv', ArchiveInv, EvictPage
    PROVE  Durable' = Durable
  <1>1. /\ flash \in [Pages -> Sectors] /\ pc = "evict" /\ target \in Marked(pages)
        /\ EraseKeepsMarker
    BY DEF LogInv, LogTypeOK, EvictPage, OperationIsSound, ArchiveInv
  <1>2. PICK p \in Others(pages, target) : p = Min(Others(pages, target))
    <2>1. Others(pages, target) # {} /\ Others(pages, target) \in SUBSET Nat
      BY ConstantsAreTyped DEF EvictPage, Others, Claimed
    <2> QED
      BY <2>1, MinIsLeast
  <1>3. flash[p] \in Sectors
    BY <1>1 DEF Others, Claimed
  <1>4. PICK g \in FailedErase(flash[p]) \cup {Erased} : flash' = [flash EXCEPT ![p] = g]
    BY <1>2 DEF EvictPage
  <1>5. g \in Sectors /\ Loses(flash[p], g)
    BY <1>1, <1>3, <1>4, FailedEraseLeaves, FailedEraseLoses, LosesOrNot, ConstantsAreTyped
  <1> QED
    BY <1>1, <1>2, <1>4, <1>5, EvictedStutters

\* And so is the one that startup finds.
LEMMA RecoverStutters ==
    ASSUME LogInv, LogInv', ArchiveInv, Recover
    PROVE  Durable' = Durable
  <1>1. /\ flash \in [Pages -> Sectors] /\ pc = "recover" /\ EraseKeepsMarker
    BY DEF LogInv, LogTypeOK, Recover, ArchiveInv
  <1>2. PICK p : p = EvictionOrder(pages)
    OBVIOUS
  <1>3. /\ p \in Pages
        /\ \/ p \in Marked(pages) /\ Others(pages, p) = {}
           \/ \E m \in Marked(pages) : p \in Others(pages, m)
    BY <1>1, <1>2, EvictionOrderIs
  <1>4. PICK g \in FailedErase(flash[p]) \cup {Erased} : flash' = [flash EXCEPT ![p] = g]
    BY <1>2 DEF Recover
  <1>5. g \in Sectors /\ Loses(flash[p], g)
    <2>1. flash[p] \in Sectors
      BY <1>1, <1>3
    <2> QED
      BY <1>1, <1>4, <2>1, FailedEraseLeaves, FailedEraseLoses, LosesOrNot, ConstantsAreTyped
  <1> QED
    BY <1>1, <1>3, <1>4, <1>5, EvictedStutters, TombstoneStutters

----------------------------------------------------------------------------
(* What a record adds.                                                       *)

\* The record that is committed joins the archive, behind everything it holds.
LEMMA RecordIsAdded ==
    ASSUME LogInv, LogInv', ArchiveInv, pc = "recordCommit",
           flash' = [flash EXCEPT ![currentPage].records = Append(@, job),
                                  ![currentPage].tail = "clean"]
    PROVE  job \in HistoryRecords /\ Archive!Add(job)
  <1>1. /\ SectorsAreSound /\ NumbersAreNew /\ JobIsNext /\ Writing
    BY DEF ArchiveInv, RamIsExact, Writing
  <1>2. PICK x \in Pages : x = currentPage
    BY CurrentPageFacts
  <1>3. /\ x \in Whole /\ Whole' = Whole /\ flash[x].id = active
        /\ \A p \in Pages : flash'[p].id = flash[p].id /\ flash'[p].marker = flash[p].marker
        /\ \A p \in Pages \ {x} : flash'[p] = flash[p]
        /\ Kept(flash'[x]) = Kept(flash[x]) \cup {job}
    BY <1>2, RecordKeepsSectors
  <1>4. Tombstoned' = Tombstoned
    <2>1. \A p \in Whole : p \in Pages
      BY DEF Whole
    <2>2. {q \in Whole' : flash'[q].marker} = {q \in Whole : flash[q].marker}
      BY <1>3, <2>1
    <2> QED
      BY <1>3, <2>1, <2>2 DEF Tombstoned
  <1>5. active \notin Tombstoned
    <2>1. \A q \in Whole : flash[q].marker => q \in Marked(pages) /\ pages[q].id = flash[q].id
      BY DEF LogInv, TombstonesAreKnown, IsTombstone, Whole
    <2>2. \A q \in Marked(pages) : pages[q].id # active
      BY MarkedIsNotActive, CurrentPageFacts
    <2> QED
      BY <2>1, <2>2 DEF Tombstoned
  <1>6. Shown(x) = Kept(flash[x]) /\ Shown(x)' = Kept(flash[x]) \cup {job}
    <2>1. x \in Visible
      BY <1>3, <1>5 DEF Visible
    <2>2. x \in Visible'
      <3>1. x \in Whole' /\ flash'[x].id = active /\ active \notin Tombstoned'
        BY <1>3, <1>4, <1>5
      <3> QED
        BY <3>1 DEF Visible
    <2> QED
      BY <1>3, <2>1, <2>2 DEF Shown
  <1>7. \A p \in Pages \ {x} : Shown(p)' = Shown(p)
    BY <1>3, <1>4, OneShown
  <1>8. Durable' = Durable \cup {job}
    BY <1>6, <1>7, DurableIsShown, NextDurableIsShown
  <1>9. ASSUME NEW q \in Durable
        PROVE  \/ q.id < job.id
               \/ /\ q.id = job.id
                  /\ q.sequence < job.sequence
                  /\ q.kind = "END" => job.kind = "END"
    <2>1. PICK p \in Pages : q \in Shown(p)
      BY DurableIsShown
    <2>2. p \in Whole /\ q \in Kept(flash[p])
      BY <2>1 DEF Shown, Visible
    <2>3. q.id = flash[p].id /\ flash[p].id < nextId
      BY <1>1, <2>2 DEF SectorsAreSound, NumbersAreNew
    <2>4. job.id = active /\ active = nextId - 1
      BY <1>1, CurrentPageFacts DEF NumbersAreNew
    <2>5. q.id \in Nat /\ nextId \in Nat
      BY <2>2, SectorTypes, KeptType, BoundsType DEF ArchiveInv
    <2>6. q.id < job.id \/ q.id = job.id
      BY <2>3, <2>4, <2>5
    <2>7. q.id = job.id => q.sequence < job.sequence /\ (q.kind = "END" => job.kind = "END")
      BY <1>1, <2>2, <2>3, <2>4 DEF JobIsNext
    <2> QED
      BY <2>6, <2>7
  <1>10. job \in HistoryRecords /\ (job.kind = "START" <=> job.sequence = 0)
    BY <1>1 DEF JobIsNext
  <1> QED
    BY <1>8, <1>9, <1>10 DEF Archive!Add

\* A record that was only half written is not read.
LEMMA RecordSteps ==
    ASSUME LogInv, LogInv', ArchiveInv, WriteRecord \/ CommitRecord
    PROVE  Durable' = Durable \/ \E r \in HistoryRecords : Archive!Add(r)
  <1>1. pc \in {"record", "recordCommit"}
    BY DEF WriteRecord, CommitRecord
  <1>2. PICK x \in Pages : x = currentPage
    BY <1>1, CurrentPageFacts
  <1>3. CASE flash' = flash
    BY <1>3 DEF Durable, Visible, Whole, Tombstoned
  <1>4. ASSUME NEW tail \in {"body", "torn"}, flash' = [flash EXCEPT ![x].tail = tail]
        PROVE  Durable' = Durable
    BY <1>4, TailStutters
  <1>5. CASE /\ pc = "recordCommit"
             /\ flash' = [flash EXCEPT ![currentPage].records = Append(@, job),
                                       ![currentPage].tail = "clean"]
    BY <1>5, RecordIsAdded
  <1> QED
    BY <1>2, <1>3, <1>4, <1>5 DEF WriteRecord, CommitRecord

----------------------------------------------------------------------------
(* What an erase takes.                                                      *)

\* Without a session that is being evicted, every record is shown.
LEMMA AllIsShown ==
    ASSUME LogInv, ArchiveInv, pc \notin {"scan", "stopped"}, Marked(pages) = {}
    PROVE  /\ Tombstoned = {}
           /\ \A p \in Pages : ~IsTombstone(flash[p])
           /\ \A p \in Pages : Shown(p) = IF p \in Whole THEN Kept(flash[p]) ELSE {}
  <1>1. \A p \in Pages : ~IsTombstone(flash[p])
    BY DEF LogInv, TombstonesAreKnown
  <1>2. Tombstoned = {}
    BY <1>1 DEF Tombstoned, Whole, IsTombstone
  <1> QED
    BY <1>1, <1>2 DEF Shown, Visible

\* A sector holds no more records than its length says.
LEMMA KeptIsSmall ==
    ASSUME NEW f \in Sectors, Len(f.records) <= PageRecords, NEW R \in SUBSET Kept(f)
    PROVE  Cardinality(R) <= PageRecords
  <1> DEFINE s == f.records
             N == 1 .. Len(s)
  <1>1. s \in Seq(RecordsOfLog) /\ Len(s) \in Nat /\ Len(s) <= PageRecords
    BY KeptType
  <1> HIDE DEF s
  <1>2. s \in Surjection(N, Kept(f))
    <2>1. DOMAIN s = N /\ s = [n \in N |-> s[n]]
      BY <1>1
    <2>2. Kept(f) = {s[n] : n \in N}
      BY DEF Kept, s
    <2>3. s \in [N -> Kept(f)]
      BY <2>1, <2>2
    <2> QED
      BY <2>2, <2>3 DEF Surjection
  <1>3. IsFiniteSet(N) /\ Cardinality(N) = Len(s)
    <2>1. ASSUME NEW n \in Nat PROVE IsFiniteSet(1 .. n) /\ Cardinality(1 .. n) = n
      <3>1. n \in Int /\ 1 \in Int
        OBVIOUS
      <3>2. /\ IsFiniteSet(1 .. n)
            /\ Cardinality(1 .. n) = IF 1 > n THEN 0 ELSE n - 1 + 1
        BY ONLY <3>1, FS_Interval
      <3> QED
        BY <3>2
    <2> QED
      BY <1>1, <2>1
  <1>4. IsFiniteSet(Kept(f)) /\ Cardinality(Kept(f)) <= Len(s)
    BY <1>2, <1>3, FS_Surjection
  <1>5. IsFiniteSet(R) /\ Cardinality(R) <= Cardinality(Kept(f))
    BY <1>4, FS_Subset
  <1>6. Cardinality(R) \in Nat /\ Cardinality(Kept(f)) \in Nat /\ PageRecords \in Nat
    BY <1>4, <1>5, FS_CardinalityType, LogAssumption
  <1> QED
    BY <1>1, <1>4, <1>5, <1>6

\* One of the records of a sector is the last.
LEMMA LastIsKept ==
    ASSUME NEW f \in Sectors, Kept(f) # {}, Kept(f) \subseteq HistoryRecords
    PROVE  \E last \in Kept(f) : \A r \in Kept(f) : r.sequence <= last.sequence
  <1> DEFINE S == {r.sequence : r \in Kept(f)}
             b == MaxSequence + MaxFailures + 1
  <1>1. S \in SUBSET Nat /\ S # {}
    BY KeptType
  <1>2. b \in Nat
    BY LogAssumption
  <1>3. \A r \in HistoryRecords : r.sequence <= b
    BY DEF HistoryRecords
  <1>4. \A n \in S : n <= b
    BY <1>3
  <1>5. Max(S) \in S /\ \A n \in S : Max(S) >= n
    <2> HIDE DEF S, b
    <2> QED
      BY <1>1, <1>2, <1>4, MaxIsGreatest
  <1>6. PICK last \in Kept(f) : last.sequence = Max(S)
    BY <1>5
  <1>7. ASSUME NEW r \in Kept(f) PROVE r.sequence <= last.sequence
    <2>1. Max(S) >= r.sequence
      BY <1>5
    <2>2. r.sequence \in Nat /\ last.sequence \in Nat
      BY KeptType
    <2> QED
      BY <1>6, <2>1, <2>2
  <1> QED
    BY <1>7

\* The archive counts as the log does.
LEMMA ArchiveCounts ==
    ASSUME NEW S
    PROVE  Archive!Cardinality(S) = Cardinality(S)
  BY DEF Archive!Cardinality, Cardinality

\* The oldest sector of the only session goes, and with it its oldest records.
LEMMA EraseTruncates ==
    ASSUME LogInv, LogInv', ArchiveInv, pc \notin {"scan", "stopped"},
           NEW x \in Pages \ Claimed(pages), HasRecords(x),
           NEW g \in Sectors, Loses(flash[x], g), flash' = [flash EXCEPT ![x] = g]
    PROVE  Durable' = Durable \/ \E s \in Archive!Retained : Archive!Truncate(s)
  <1> DEFINE s == flash[x].id
  <1>1. /\ flash \in [Pages -> Sectors] /\ SectorsAreSound /\ SectorsAreInOrder
        /\ Marked(pages) = {} /\ x \in Whole
        /\ \A q \in Pages \ {x} : HasRecords(q) =>
            flash[q].id = s /\ flash[x].generation < flash[q].generation
    BY DEF LogInv, LogTypeOK, ArchiveInv, RamIsExact, LooseRecords, HasRecords, Whole
  <1>2. flash'[x] = g /\ \A q \in Pages \ {x} : flash'[q] = flash[q]
    BY <1>1
  <1>3. /\ Tombstoned = {} /\ ~IsTombstone(flash[x])
        /\ \A p \in Pages : Shown(p) = IF p \in Whole THEN Kept(flash[p]) ELSE {}
    BY <1>1, AllIsShown
  <1>4. ~IsTombstone(g)
    BY <1>3 DEF Loses, IsTombstone
  <1>5. Tombstoned' = Tombstoned
    BY <1>2, <1>3, <1>4, TombstonesStay
  <1>6. \A p \in Pages \ {x} : Shown(p)' = Shown(p)
    BY <1>2, <1>5, OneShown
  <1>7. Shown(x)' \subseteq Shown(x)
    <2>1. Kept(flash'[x]) = Kept(g)
      BY <1>2
    <2>2. x \in Whole' => Kept(g) \subseteq Kept(flash[x])
      BY <1>2 DEF Whole, Loses
    <2> QED
      BY <1>1, <1>3, <2>1, <2>2 DEF Shown, Visible
  <1>8. Durable' \subseteq Durable /\ Durable \ Durable' \subseteq Kept(flash[x])
    BY <1>1, <1>3, <1>6, <1>7, DurableIsShown, NextDurableIsShown
  <1>9. \A r \in Durable : \E p \in Pages : p \in Whole /\ r \in Kept(flash[p]) /\ HasRecords(p)
    BY <1>3, DurableIsShown DEF HasRecords, Whole
  <1>10. Kept(flash[x]) \subseteq Durable
    BY <1>1, <1>3, DurableIsShown
  <1>11. Archive!Retained = {s}
    <2>1. \A r \in Durable : r.id = s
      BY <1>1, <1>9 DEF SectorsAreSound
    <2>2. Durable # {}
      BY <1>10 DEF HasRecords
    <2> QED
      BY <2>1, <2>2 DEF Archive!Retained
  <1>12. PICK last \in Kept(flash[x]) : \A r \in Kept(flash[x]) : r.sequence <= last.sequence
    <2>1. Kept(flash[x]) # {} /\ Kept(flash[x]) \subseteq HistoryRecords
      BY <1>1 DEF HasRecords, SectorsAreSound
    <2> QED
      BY <1>1, <2>1, LastIsKept
  <1> DEFINE cut == last.sequence
             oldest == {r \in Durable : r.sequence <= cut}
  <1>13. oldest \subseteq Kept(flash[x])
    <2> SUFFICES ASSUME NEW r \in Durable, r.sequence <= cut PROVE r \in Kept(flash[x])
      OBVIOUS
    <2>1. PICK p \in Pages : p \in Whole /\ r \in Kept(flash[p]) /\ HasRecords(p)
      BY <1>9
    <2>2. ASSUME p # x PROVE FALSE
      <3>1. flash[p].id = flash[x].id /\ flash[x].generation < flash[p].generation
        BY <1>1, <2>1, <2>2
      <3>2. last.sequence < r.sequence
        BY <1>1, <1>12, <2>1, <2>2, <3>1 DEF SectorsAreInOrder
      <3>3. last.sequence \in Nat /\ r.sequence \in Nat
        BY <1>1, <1>12, <2>1, KeptType
      <3> QED
        BY <3>2, <3>3
    <2> QED
      BY <2>1, <2>2
  <1>14. Cardinality(oldest) <= PageRecords
    <2>1. Len(flash[x].records) <= PageRecords
      BY <1>1 DEF SectorsAreSound
    <2> QED
      BY <1>1, <1>13, <2>1, KeptIsSmall
  <1>15. Durable \ Durable' \subseteq oldest
    BY <1>8, <1>12
  <1>16. cut \in {r.sequence : r \in Durable}
    BY <1>10, <1>12
  <1>17. CASE Durable' # Durable
    <2> DEFINE Cut(c) == /\ Archive!Cardinality({r \in Durable : r.sequence <= c}) <= PageRecords
                         /\ Durable' # Durable
                         /\ Durable' \subseteq Durable
                         /\ Durable \ Durable' \subseteq {r \in Durable : r.sequence <= c}
    <2>1. \E c \in {r.sequence : r \in Durable} : Cut(c)
      <3>1. Cut(last.sequence)
        BY <1>8, <1>14, <1>15, <1>17, ArchiveCounts
      <3> DEFINE S == {r.sequence : r \in Durable}
      <3>2. last.sequence \in S
        BY <1>16
      <3> HIDE DEF Cut, S
      <3>3. \E c \in S : Cut(c)
        BY <3>1, <3>2
      <3> QED
        BY <3>3 DEF S
    <2>2. Archive!Truncate(s)
      BY <1>11, <2>1 DEF Archive!Truncate
    <2> QED
      BY <1>11, <2>2
  <1> QED
    BY <1>17

\* An erase is noticed only when the only session makes room for itself.
LEMMA EraseSteps ==
    ASSUME LogInv, LogInv', ArchiveInv, ErasePage
    PROVE  Durable' = Durable \/ \E s \in Archive!Retained : Archive!Truncate(s)
  <1>1. /\ flash \in [Pages -> Sectors] /\ pc = "erase" /\ EraseKeepsMarker
    BY DEF LogInv, LogTypeOK, ErasePage, ArchiveInv
  <1>2. PICK x \in Pages : x = target
    BY <1>1 DEF LogInv, OperationIsSound
  <1>3. x \notin Claimed(pages) \/ (x \in Marked(pages) /\ Others(pages, x) = {})
    BY <1>1, <1>2 DEF LogInv, OperationIsSound, Claimed
  <1>4. PICK g \in FailedErase(flash[x]) \cup {Erased} : flash' = [flash EXCEPT ![x] = g]
    BY <1>2 DEF ErasePage
  <1>5. flash[x] \in Sectors
    BY <1>1
  <1>6. g \in Sectors /\ Loses(flash[x], g)
    BY <1>1, <1>4, <1>5, FailedEraseLeaves, FailedEraseLoses, LosesOrNot, ConstantsAreTyped
  <1>7. CASE x \in Marked(pages) /\ Others(pages, x) = {}
    BY <1>1, <1>4, <1>6, <1>7, TombstoneStutters
  <1>8. CASE x \notin Claimed(pages) /\ HasRecords(x)
    BY <1>1, <1>4, <1>6, <1>8, EraseTruncates
  <1>9. CASE x \notin Claimed(pages) /\ ~HasRecords(x)
    <2>1. flash'[x] = g /\ \A q \in Pages \ {x} : flash'[q] = flash[q]
      BY <1>1, <1>4
    <2>2. ~IsTombstone(flash[x])
      BY <1>1, <1>9 DEF LogInv, TombstonesAreKnown, Marked
    <2>3. ~IsTombstone(g)
      BY <1>6, <2>2 DEF IsTombstone, Loses
    <2>4. Shown(x) = {}
      BY <1>9 DEF Shown, Visible, Whole, HasRecords
    <2>5. Shown(x)' = {}
      <3>1. Kept(flash'[x]) = Kept(g)
        BY <2>1
      <3>2. x \in Whole' => Kept(g) = {}
        BY <1>6, <1>9, <2>1 DEF Whole, Loses, HasRecords
      <3> QED
        BY <3>1, <3>2 DEF Shown, Visible
    <2> QED
      BY <2>1, <2>2, <2>3, <2>4, <2>5, OneSectorStutters
  <1> QED
    BY <1>3, <1>7, <1>8, <1>9

----------------------------------------------------------------------------
(* What a tombstone takes.                                                   *)

\* Sessions whose oldest sectors are in order are in order.
LEMMA OldestComesFirst ==
    ASSUME LogInv, ArchiveInv, Marked(pages) = {}, pc \notin {"scan", "stopped", "header", "headerCommit"},
           NEW p \in Claimed(pages), NEW q \in Claimed(pages),
           OldestGeneration(pages[p].id) <= OldestGeneration(pages[q].id)
    PROVE  pages[p].id <= pages[q].id
  <1>1. LogTypeOK /\ SectorsAreInOrder
    BY DEF LogInv, ArchiveInv
  <1>2. PICK a \in Claimed(pages) : /\ pages[a].id = pages[p].id
                                    /\ pages[a].generation = OldestGeneration(pages[p].id)
    BY <1>1, OldestIsThere
  <1>3. PICK b \in Claimed(pages) : /\ pages[b].id = pages[q].id
                                    /\ pages[b].generation = OldestGeneration(pages[q].id)
    BY <1>1, OldestIsThere
  <1>4. /\ a \in Whole /\ flash[a].id = pages[a].id /\ flash[a].generation = pages[a].generation
        /\ b \in Whole /\ flash[b].id = pages[b].id /\ flash[b].generation = pages[b].generation
    BY ClaimedAreWhole DEF Shows
  <1>5. /\ pages[a].id \in Nat /\ pages[a].generation \in Nat
        /\ pages[b].id \in Nat /\ pages[b].generation \in Nat
    BY <1>1 DEF LogTypeOK, PageInfos, Claimed
  <1>6. ~(pages[b].id < pages[a].id)
    <2> SUFFICES ASSUME pages[b].id < pages[a].id PROVE FALSE
      OBVIOUS
    <2>1. a # b
      BY <1>5
    <2>2. pages[b].generation < pages[a].generation
      BY <1>1, <1>4, <2>1 DEF SectorsAreInOrder
    <2> QED
      BY <1>2, <1>3, <1>5, <2>2
  <1> QED
    BY <1>2, <1>3, <1>5, <1>6

\* RAM and the archive agree on which sessions are complete, except for the active one.
LEMMA CompletedHaveEnds ==
    ASSUME LogInv, ArchiveInv, Marked(pages) = {}, pc \notin {"scan", "stopped", "header", "headerCommit"},
           Claimed(pages) = Pages, NEW s, s # active
    PROVE  s \in Archive!Completed <=> HasEnd(s)
  <1>1. /\ EndsAreKnown /\ SectorsAreSound
        /\ \A p \in Pages : p \in Claimed(pages) /\ p \in Whole /\ Shows(flash[p], pages[p])
        /\ \A p \in Pages : flash[p] \in Sectors /\ pages[p].used \in Nat
    BY ClaimedAreWhole DEF ArchiveInv, RamIsExact, LogInv, LogTypeOK, PageInfos
  <1>2. \A p \in Pages : Shown(p) = Kept(flash[p])
    BY <1>1, AllIsShown
  <1>3. ASSUME s \in Archive!Completed PROVE HasEnd(s)
    <2>1. PICK r \in Durable : r.id = s /\ r.kind = "END"
      BY <1>3 DEF Archive!Completed
    <2>2. PICK p \in Pages : r \in Kept(flash[p])
      BY <1>2, DurableIsShown
    <2>3. pages[p].id = s
      BY <1>1, <2>1, <2>2 DEF SectorsAreSound, Shows
    <2>4. ~IsPendingEviction(pages[p].id)
      BY DEF IsPendingEviction
    <2> QED
      BY <1>1, <2>1, <2>2, <2>3, <2>4 DEF EndsAreKnown, EndIsKnown
  <1>4. ASSUME HasEnd(s) PROVE s \in Archive!Completed
    <2>1. PICK p \in Pages : \E n \in 1 .. pages[p].used :
              pages[p].id = s /\ flash[p].records[n].kind = "END"
      BY <1>4 DEF HasEnd, Claimed
    <2>2. PICK n \in 1 .. pages[p].used : pages[p].id = s /\ flash[p].records[n].kind = "END"
      BY <2>1
    <2>3. n \in 1 .. Len(flash[p].records)
      <3>1. pages[p].used <= Len(flash[p].records) /\ pages[p].used \in Nat
        BY <1>1 DEF Shows
      <3>2. Len(flash[p].records) \in Nat
        BY <1>1, KeptType
      <3> QED
        BY <3>1, <3>2
    <2>4. PICK r \in Kept(flash[p]) : r.kind = "END"
      BY <2>2, <2>3 DEF Kept
    <2>5. r \in Durable
      BY <1>2, DurableIsShown
    <2>6. r.id = s
      BY <1>1, <2>2 DEF SectorsAreSound, Shows
    <2> QED
      BY <2>4, <2>5, <2>6 DEF Archive!Completed
  <1> QED
    BY <1>3, <1>4

\* The victim goes as a whole: the oldest completed session, or the oldest of all.
LEMMA VictimIsEvicted ==
    ASSUME LogInv, LogInv', ArchiveInv, pc = "mark", flash' = [flash EXCEPT ![target].marker = TRUE]
    PROVE  Durable' = Durable \/ \E s \in Archive!Retained : Archive!Evict(s)
  <1>1. /\ flash \in [Pages -> Sectors] /\ LogTypeOK /\ SectorsAreSound /\ NumbersAreNew
        /\ Marked(pages) = {} /\ Claimed(pages) = Pages /\ target \in Pages
        /\ pages[target].id # active /\ pages[target].id = Victim(active) /\ active # NoId
    BY DEF LogInv, LogTypeOK, OperationIsSound, ArchiveInv, RamIsExact, SelectionIsForced,
           Writing, Claimed
  <1>2. PICK x \in Pages : x = target
    BY <1>1
  <1> DEFINE v == pages[x].id
  <1>3. \A p \in Pages : p \in Whole /\ flash[p].id = pages[p].id /\ pages[p].id \in Nat
    BY <1>1, ClaimedAreWhole DEF Shows, LogTypeOK, PageInfos
  <1>4. \A p \in Pages : Shown(p) = Kept(flash[p]) /\ ~IsTombstone(flash[p])
    BY <1>1, <1>3, AllIsShown
  <1>5. /\ flash'[x] = [flash[x] EXCEPT !.marker = TRUE]
        /\ \A p \in Pages \ {x} : flash'[p] = flash[p]
    BY <1>1, <1>2
  <1>6. /\ \A p \in Pages : /\ flash'[p].header = flash[p].header /\ flash'[p].id = flash[p].id
                            /\ flash'[p].records = flash[p].records
        /\ flash'[x].marker
    <2>1. flash[x] \in Sectors
      BY <1>1
    <2>2. /\ flash'[x].header = flash[x].header /\ flash'[x].id = flash[x].id
          /\ flash'[x].records = flash[x].records /\ flash'[x].marker
      BY <1>5, <2>1 DEF Sectors
    <2> QED
      BY <1>5, <2>2
  <1>7. Whole' = Pages /\ Tombstoned' = {v}
    <2>1. Whole' = Pages
      BY <1>3, <1>6 DEF Whole
    <2>2. {q \in Whole' : flash'[q].marker} = {x}
      BY <1>3, <1>4, <1>5, <1>6, <2>1 DEF IsTombstone, Whole
    <2>3. flash'[x].id = v
      BY <1>3, <1>6
    <2> QED
      BY <2>1, <2>2, <2>3 DEF Tombstoned
  <1>8. \A p \in Pages : Shown(p)' = IF pages[p].id = v THEN {} ELSE Kept(flash[p])
    <2> SUFFICES ASSUME NEW p \in Pages
                 PROVE  Shown(p)' = IF pages[p].id = v THEN {} ELSE Kept(flash[p])
      OBVIOUS
    <2>1. p \in Visible' <=> pages[p].id # v
      <3>1. p \in Whole' /\ flash'[p].id = pages[p].id
        BY <1>3, <1>6, <1>7
      <3> QED
        BY <1>7, <3>1 DEF Visible
    <2>2. Kept(flash'[p]) = Kept(flash[p])
      BY <1>6 DEF Kept
    <2> QED
      BY <2>1, <2>2 DEF Shown
  <1>9. \A p \in Pages : \A r \in Kept(flash[p]) : r.id = pages[p].id
    BY <1>3 DEF ArchiveInv, SectorsAreSound
  <1>10. Durable' = {r \in Durable : r.id # v}
    <2>1. ASSUME NEW r, r \in Durable' PROVE r \in Durable /\ r.id # v
      BY <1>4, <1>8, <1>9, <2>1, DurableIsShown, NextDurableIsShown
    <2>2. ASSUME NEW r \in Durable, r.id # v PROVE r \in Durable'
      BY <1>4, <1>8, <1>9, <2>2, DurableIsShown, NextDurableIsShown
    <2> QED
      BY <2>1, <2>2
  <1>11. \A s \in Archive!Retained : \E p \in Pages : s = pages[p].id
    BY <1>4, <1>9, DurableIsShown DEF Archive!Retained
  <1>12. Archive!Completed \subseteq Archive!Retained
    BY DEF Archive!Completed, Archive!Retained
  <1>13. \A s \in Archive!Retained : s \in Nat /\ s <= active
    <2>1. \A p \in Pages : pages[p].id < nextId
      BY <1>1, <1>3 DEF NumbersAreNew
    <2>2. active = nextId - 1 /\ nextId \in Nat /\ active \in Nat
      BY <1>1 DEF NumbersAreNew, LogTypeOK
    <2> QED
      BY <1>3, <1>11, <2>1, <2>2
  <1>14. \A s : s # active => (s \in Archive!Completed <=> HasEnd(s))
    BY <1>1, CompletedHaveEnds
  <1> DEFINE others == {pages[q].id : q \in Claimed(pages)} \ {active}
             completed == {s \in others : HasEnd(s)}
  <1>15. /\ v \in others
         /\ completed # {} => v \in completed
         /\ \A s \in completed : OldestGeneration(v) <= OldestGeneration(s)
         /\ completed = {} => \A s \in others : OldestGeneration(v) <= OldestGeneration(s)
    BY <1>1, <1>2, VictimIsOldest
  <1>16. ASSUME NEW s \in others, OldestGeneration(v) <= OldestGeneration(s) PROVE v <= s
    <2>1. PICK q \in Pages : s = pages[q].id
      BY <1>1
    <2> QED
      BY <1>1, <1>16, <2>1, OldestComesFirst
  <1>17. \A s \in Archive!Retained : s \in others \/ s = active
    BY <1>1, <1>11
  <1> HIDE DEF others, v
  <1>18. \A s \in Archive!Completed : s \in completed \/ s = active
    BY <1>12, <1>14, <1>17
  <1>19. CASE v \in Archive!Retained
    <2>1. v # active
      BY <1>1, <1>2 DEF v
    <2>2. v \in Archive!Completed => \A t \in Archive!Completed : v <= t
      BY <1>12, <1>13, <1>15, <1>16, <1>18, <1>19
    <2>3. ASSUME v \notin Archive!Completed PROVE completed = {}
      BY <1>14, <1>15, <2>1, <2>3
    <2>4. v \notin Archive!Completed =>
              \A t \in Archive!Retained : t \in Archive!Completed => \A u \in Archive!Retained : u <= t
      BY <1>13, <1>18, <2>3
    <2>5. v \notin Archive!Completed => \A t \in Archive!Retained : v <= t
      BY <1>13, <1>15, <1>16, <1>17, <1>19, <2>3
    <2>6. Archive!Evict(v)
      BY <1>10, <2>2, <2>4, <2>5 DEF Archive!Evict
    <2> QED
      BY <1>19, <2>6
  <1>20. CASE v \notin Archive!Retained
    <2>1. \A r \in Durable : r.id # v
      BY <1>20 DEF Archive!Retained
    <2> QED
      BY <1>10, <2>1
  <1> QED
    BY <1>19, <1>20

\* A victim that could not be marked stays.
LEMMA MarkSteps ==
    ASSUME LogInv, LogInv', ArchiveInv, MarkVictim
    PROVE  Durable' = Durable \/ \E s \in Archive!Retained : Archive!Evict(s)
  <1>1. CASE flash' = flash
    BY <1>1 DEF Durable, Visible, Whole, Tombstoned
  <1>2. CASE pc = "mark" /\ flash' = [flash EXCEPT ![target].marker = TRUE]
    BY <1>2, VictimIsEvicted
  <1> QED
    BY <1>1, <1>2 DEF MarkVictim

----------------------------------------------------------------------------
(* The promise.                                                              *)

\* Every step of the log is a step of the archive, or none.
LEMMA StepsAreArchived ==
    LogInv /\ LogInv' /\ ArchiveInv /\ [Next]_vars => [Archive!Next]_Durable
  <1> SUFFICES ASSUME LogInv, LogInv', ArchiveInv, [Next]_vars
               PROVE  Durable' = Durable \/ Archive!Next
    OBVIOUS
  <1>1. CASE flash' = flash
    BY <1>1 DEF Durable, Visible, Whole, Tombstoned
  <1>2. CASE WriteRecord \/ CommitRecord
    BY <1>2, RecordSteps DEF Archive!Next
  <1>3. CASE ErasePage
    BY <1>3, EraseSteps DEF Archive!Next
  <1>4. CASE MarkVictim
    BY <1>4, MarkSteps DEF Archive!Next
  <1>5. CASE EvictPage \/ Recover \/ WriteHeader \/ CommitHeader
    BY <1>5, EvictStutters, RecoverStutters, HeaderStutters
  <1>6. CASE Initialize \/ ScanFails \/ SelectPage \/ BeginSession \/ Reset
    BY <1>1, <1>6 DEF Initialize, ScanFails, SelectPage, BeginSession, Reset
  <1>7. ASSUME NEW kind \in {"ORDINARY", "END"}, AppendRecord(kind) PROVE flash' = flash
    BY <1>7 DEF AppendRecord
  <1>8. CASE UNCHANGED vars
    BY <1>1, <1>8 DEF vars
  <1> QED
    BY <1>1, <1>2, <1>3, <1>4, <1>5, <1>6, <1>7, <1>8 DEF Next, FlashStep

\* An erased flash is an empty archive.
LEMMA ArchiveStartsEmpty == Init => Archive!Init
  <1> SUFFICES ASSUME Init PROVE Durable = {}
    BY DEF Archive!Init
  <1>1. Whole = {}
    BY EmptySectors DEF Init, Whole
  <1> QED
    BY <1>1 DEF Durable, Visible

\* Whatever step power is lost at, and whichever flash operations fail, the next boot finds
\* an archive that was only added to at its newest end, lost whole sessions in order, or
\* reused the oldest sector of its only session: what D053 and HR-004 promise of
\* append(), mark_session_for_eviction() and complete_pending_eviction().
THEOREM ArchiveRefinement == EraseKeepsMarker => (Spec => ImplementsArchive)
  <1>1. ASSUME EraseKeepsMarker PROVE Spec => ImplementsArchive
    <2>1. Init => ArchiveInv
      BY <1>1, InitArchive
    <2>2. LogInv /\ LogInv' /\ ArchiveInv /\ [Next]_vars => ArchiveInv'
      BY NextArchive
    <2>3. LogInv /\ LogInv' /\ ArchiveInv /\ [Next]_vars => [Archive!Next]_Durable
      BY StepsAreArchived
    <2>4. Init => Archive!Init
      BY ArchiveStartsEmpty
    <2> QED
      BY <2>1, <2>2, <2>3, <2>4, LogSafe, PTL DEF Spec, ImplementsArchive, Archive!Spec
  <1> QED
    BY <1>1

----------------------------------------------------------------------------
(* Sequences in order.                                                       *)

\* A finite set whose elements have different ranks can be listed by rank.
LEMMA SetsCanBeSorted ==
    ASSUME NEW S, IsFiniteSet(S), NEW rank, \A p \in S : rank[p] \in Nat,
           \A p, q \in S : p # q => rank[p] # rank[q]
    PROVE  \E s \in [1 .. Cardinality(S) -> S] :
               \A m, n \in 1 .. Cardinality(S) : m < n => rank[s[m]] < rank[s[n]]
  <1> DEFINE Listed(T, k) == \E s \in [1 .. k -> T] :
                                 \A m, n \in 1 .. k : m < n => rank[s[m]] < rank[s[n]]
             Bad == {k \in Nat : \E T \in SUBSET S : Cardinality(T) = k /\ ~Listed(T, k)}
  <1>1. ASSUME Bad # {} PROVE FALSE
    <2>1. PICK k \in Bad : \A n \in Bad : k <= n
      <3>1. Bad \in SUBSET Nat
        OBVIOUS
      <3> HIDE DEF Bad
      <3> QED
        BY <1>1, <3>1, LeastExists
    <2>2. PICK T \in SUBSET S : Cardinality(T) = k /\ ~Listed(T, k)
      OBVIOUS
    <2>3. k \in Nat /\ IsFiniteSet(T)
      BY FS_Subset
    <2>4. k # 0
      <3> SUFFICES ASSUME k = 0 PROVE Listed(T, 0)
        BY <2>2
      <3>1. 1 .. 0 = {}
        OBVIOUS
      <3>2. [i \in {} |-> i] \in [{} -> T]
        OBVIOUS
      <3> QED
        BY <3>1, <3>2
    <2>5. T # {}
      BY <2>2, <2>4, FS_EmptySet
    <2>6. PICK first \in T : \A q \in T : rank[first] <= rank[q]
      <3> DEFINE Ranks == {rank[q] : q \in T}
      <3>1. Ranks \in SUBSET Nat /\ Ranks # {}
        BY <2>5
      <3>2. PICK r \in Ranks : \A x \in Ranks : r <= x
        <4> HIDE DEF Ranks
        <4> QED
          BY <3>1, LeastExists
      <3>3. PICK p \in T : rank[p] = r
        BY <3>2
      <3>4. \A q \in T : rank[p] <= rank[q]
        BY <3>2, <3>3
      <3> QED
        BY <3>4
    <2> DEFINE Rest == T \ {first}
    <2>7. Rest \in SUBSET S /\ Cardinality(Rest) = k - 1 /\ k - 1 \in Nat
      <3>1. first \in T
        OBVIOUS
      <3>2. IsFiniteSet(Rest) /\ Cardinality(Rest) = Cardinality(T) - 1
        BY <2>3, <3>1, FS_RemoveElement
      <3> QED
        BY <2>2, <2>3, <2>4, <3>2
    <2>8. Listed(Rest, k - 1)
      <3>1. k - 1 \notin Bad
        BY <2>1, <2>3, <2>7
      <3> QED
        BY <2>7, <3>1
    <2>9. PICK s \in [1 .. k - 1 -> Rest] :
              \A m, n \in 1 .. k - 1 : m < n => rank[s[m]] < rank[s[n]]
      BY <2>8
    <2> DEFINE t == [i \in 1 .. k |-> IF i = 1 THEN first ELSE s[i - 1]]
    <2>10. \A i \in 2 .. k : i - 1 \in 1 .. k - 1 /\ s[i - 1] \in Rest
      BY <2>3
    <2>11. t \in [1 .. k -> T]
      BY <2>3, <2>10
    <2>12. ASSUME NEW m \in 1 .. k, NEW n \in 1 .. k, m < n PROVE rank[t[m]] < rank[t[n]]
      <3>1. n \in 2 .. k /\ t[n] = s[n - 1] /\ t[n] \in T /\ t[n] # first
        BY <2>3, <2>10, <2>12
      <3>2. CASE m = 1
        <4>1. rank[first] <= rank[t[n]] /\ rank[first] # rank[t[n]]
          BY <2>6, <3>1
        <4>2. rank[first] \in Nat /\ rank[t[n]] \in Nat
          BY <3>1
        <4> QED
          BY <3>2, <4>1, <4>2
      <3>3. CASE m # 1
        <4>1. m \in 2 .. k /\ t[m] = s[m - 1] /\ m - 1 < n - 1
          BY <2>3, <2>12, <3>3
        <4> QED
          BY <2>9, <2>10, <3>1, <4>1
      <3> QED
        BY <3>2, <3>3
    <2> QED
      <3>1. Listed(T, k)
        <4> HIDE DEF t
        <4> QED
          BY <2>11, <2>12
      <3> QED
        BY <2>2, <3>1
  <1>2. Listed(S, Cardinality(S))
    BY <1>1, FS_CardinalityType
  <1> QED
    BY <1>2

\* The numbers of a sequence's records rise.
Rises(s) == \A m, n \in 1 .. Len(s) : m < n => s[m].sequence < s[n].sequence

\* The records behind one of them are those with greater numbers.
LEMMA LaterIsBehind ==
    ASSUME NEW s \in Seq(RecordsOfLog), Rises(s), NEW n \in 1 .. Len(s), NEW later,
           later = [k \in 0 .. Len(s) |->
                       IF k = 0 THEN <<>>
                       ELSE IF s[k].sequence <= s[n].sequence THEN later[k - 1]
                       ELSE Append(later[k - 1], s[k])]
    PROVE  later[Len(s)] = SubSeq(s, n + 1, Len(s))
  <1>1. Len(s) \in Nat /\ \A k \in 1 .. Len(s) : s[k].sequence \in Nat
    <2>1. Len(s) \in Nat /\ \A k \in 1 .. Len(s) : s[k] \in RecordsOfLog
      OBVIOUS
    <2> QED
      BY <2>1 DEF RecordsOfLog
  <1> DEFINE Bad == {k \in 0 .. Len(s) : later[k] # SubSeq(s, n + 1, k)}
  <1>2. ASSUME Bad # {} PROVE FALSE
    <2>1. PICK k \in Bad : \A j \in Bad : k <= j
      <3>1. Bad \in SUBSET Nat
        BY <1>1
      <3> HIDE DEF Bad
      <3> QED
        BY <1>2, <3>1, LeastExists
    <2>2. k \in 0 .. Len(s) /\ later[k] # SubSeq(s, n + 1, k)
      OBVIOUS
    <2>3. CASE k = 0
      <3>1. later[0] = <<>>
        BY <1>1
      <3>2. SubSeq(s, n + 1, 0) = <<>>
        BY <1>1
      <3> QED
        BY <2>2, <2>3, <3>1, <3>2
    <2>4. CASE k # 0
      <3>1. k - 1 \in 0 .. Len(s) /\ k \in 1 .. Len(s)
        BY <1>1, <2>2, <2>4
      <3>2. later[k - 1] = SubSeq(s, n + 1, k - 1)
        <4>1. ~(k <= k - 1)
          BY <1>1, <3>1
        <4>2. k - 1 \notin Bad
          BY <2>1, <4>1
        <4> QED
          BY <3>1, <4>2
      <3>3. later[k] = IF s[k].sequence <= s[n].sequence THEN later[k - 1]
                       ELSE Append(later[k - 1], s[k])
        BY <2>2, <2>4
      <3>4. CASE k <= n
        <4>1. s[k].sequence <= s[n].sequence
          <5>1. k = n \/ k < n
            BY <1>1, <3>1, <3>4
          <5>2. k < n => s[k].sequence < s[n].sequence
            BY <3>1 DEF Rises
          <5>3. s[k].sequence \in Nat /\ s[n].sequence \in Nat
            BY <1>1, <3>1
          <5> QED
            BY <5>1, <5>2, <5>3
        <4>2. SubSeq(s, n + 1, k - 1) = <<>> /\ SubSeq(s, n + 1, k) = <<>>
          BY <1>1, <3>1, <3>4
        <4> QED
          BY <2>2, <3>2, <3>3, <4>1, <4>2
      <3>5. CASE n < k
        <4>1. ~(s[k].sequence <= s[n].sequence)
          BY <1>1, <3>1, <3>5 DEF Rises
        <4>2. Append(SubSeq(s, n + 1, k - 1), s[k]) = SubSeq(s, n + 1, k)
          BY <1>1, <3>1, <3>5
        <4> QED
          BY <2>2, <3>2, <3>3, <4>1, <4>2
      <3> QED
        BY <1>1, <3>1, <3>4, <3>5
    <2> QED
      BY <2>3, <2>4
  <1>3. Len(s) \notin Bad
    BY <1>2
  <1>4. Len(s) \in 0 .. Len(s)
    BY <1>1
  <1> QED
    BY <1>3, <1>4

\* Sequences can be joined one after another.
LEMMA JoinExists ==
    ASSUME NEW ss, NEW N \in Nat
    PROVE  \E f : f = [i \in 1 .. N |-> IF i = 1 THEN ss[i] ELSE f[i - 1] \o ss[i]]
  <1> DEFINE Joined(k) == \E f : f = [i \in 1 .. k |-> IF i = 1 THEN ss[i] ELSE f[i - 1] \o ss[i]]
             Bad == {k \in Nat : ~Joined(k)}
  <1>1. ASSUME Bad # {} PROVE FALSE
    <2>1. PICK k \in Bad : \A j \in Bad : k <= j
      <3>1. Bad \in SUBSET Nat
        OBVIOUS
      <3> HIDE DEF Bad
      <3> QED
        BY <1>1, <3>1, LeastExists
    <2>2. k \in Nat /\ ~Joined(k)
      OBVIOUS
    <2>3. CASE k = 0
      <3> DEFINE f == [i \in 1 .. 0 |-> i]
      <3>1. f = [i \in 1 .. 0 |-> IF i = 1 THEN ss[i] ELSE f[i - 1] \o ss[i]]
        OBVIOUS
      <3> HIDE DEF f
      <3> QED
        BY <2>2, <2>3, <3>1
    <2>4. CASE k # 0
      <3>1. k - 1 \in Nat /\ k - 1 \notin Bad
        <4>1. ~(k <= k - 1) /\ k - 1 \in Nat
          BY <2>2, <2>4
        <4> QED
          BY <2>1, <4>1
      <3>2. Joined(k - 1)
        BY <3>1
      <3>3. PICK f : f = [i \in 1 .. k - 1 |-> IF i = 1 THEN ss[i] ELSE f[i - 1] \o ss[i]]
        BY <3>2
      <3> DEFINE g == [i \in 1 .. k |-> IF i = k THEN (IF k = 1 THEN ss[k] ELSE f[k - 1] \o ss[k])
                                        ELSE f[i]]
      <3>4. ASSUME NEW i \in 1 .. k
            PROVE  g[i] = IF i = 1 THEN ss[i] ELSE g[i - 1] \o ss[i]
        <4>1. CASE i = k
          <5>1. i # 1 => i - 1 \in 1 .. k /\ i - 1 # k
            BY <2>2, <4>1
          <5> QED
            BY <4>1, <5>1
        <4>2. CASE i # k
          <5>1. i \in 1 .. k - 1 /\ (i # 1 => i - 1 \in 1 .. k /\ i - 1 # k)
            BY <2>2, <4>2
          <5>2. f[i] = IF i = 1 THEN ss[i] ELSE f[i - 1] \o ss[i]
            BY <3>3, <5>1
          <5> QED
            BY <4>2, <5>1, <5>2
        <4> QED
          BY <4>1, <4>2
      <3>5. DOMAIN g = 1 .. k /\ g = [i \in 1 .. k |-> g[i]]
        OBVIOUS
      <3> HIDE DEF g
      <3>6. g = [i \in 1 .. k |-> IF i = 1 THEN ss[i] ELSE g[i - 1] \o ss[i]]
        BY <3>4, <3>5
      <3> QED
        BY <2>2, <3>6
    <2> QED
      BY <2>3, <2>4
  <1>2. Joined(N)
    BY <1>1
  <1> QED
    BY <1>2

\* Two sequences that rise rise together, if one is below the other.
LEMMA TogetherRise ==
    ASSUME NEW a \in Seq(RecordsOfLog), NEW b \in Seq(RecordsOfLog), Rises(a), Rises(b),
           \A m \in 1 .. Len(a), n \in 1 .. Len(b) : a[m].sequence < b[n].sequence
    PROVE  /\ a \o b \in Seq(RecordsOfLog) /\ Rises(a \o b)
           /\ \A n \in 1 .. Len(a \o b) : \/ \E m \in 1 .. Len(a) : (a \o b)[n] = a[m]
                                          \/ \E m \in 1 .. Len(b) : (a \o b)[n] = b[m]
  <1> DEFINE c == a \o b
  <1>1. /\ c \in Seq(RecordsOfLog) /\ Len(c) = Len(a) + Len(b)
        /\ Len(a) \in Nat /\ Len(b) \in Nat
        /\ \A n \in 1 .. Len(a) + Len(b) : c[n] = IF n <= Len(a) THEN a[n] ELSE b[n - Len(a)]
    OBVIOUS
  <1> HIDE DEF c
  <1>2. ASSUME NEW n \in 1 .. Len(c)
        PROVE  \/ n \in 1 .. Len(a) /\ c[n] = a[n]
               \/ n - Len(a) \in 1 .. Len(b) /\ c[n] = b[n - Len(a)]
    BY <1>1
  <1>3. ASSUME NEW m \in 1 .. Len(c), NEW n \in 1 .. Len(c), m < n
        PROVE  c[m].sequence < c[n].sequence
    <2>1. CASE n <= Len(a)
      <3>1. m \in 1 .. Len(a) /\ n \in 1 .. Len(a) /\ c[m] = a[m] /\ c[n] = a[n]
        BY <1>1, <1>3, <2>1
      <3> QED
        BY <1>3, <3>1 DEF Rises
    <2>2. CASE Len(a) < m
      <3>1. /\ m - Len(a) \in 1 .. Len(b) /\ n - Len(a) \in 1 .. Len(b) /\ m - Len(a) < n - Len(a)
            /\ c[m] = b[m - Len(a)] /\ c[n] = b[n - Len(a)]
        BY <1>1, <1>3, <2>2
      <3> QED
        BY <3>1 DEF Rises
    <2>3. CASE m <= Len(a) /\ Len(a) < n
      <3>1. /\ m \in 1 .. Len(a) /\ n - Len(a) \in 1 .. Len(b)
            /\ c[m] = a[m] /\ c[n] = b[n - Len(a)]
        BY <1>1, <1>3, <2>3
      <3> QED
        BY <3>1
    <2> QED
      BY <1>1, <2>1, <2>2, <2>3
  <1>4. Rises(c)
    BY <1>3 DEF Rises
  <1>5. \A n \in 1 .. Len(c) : \/ \E m \in 1 .. Len(a) : c[n] = a[m]
                               \/ \E m \in 1 .. Len(b) : c[n] = b[m]
    BY <1>2
  <1> QED
    BY <1>1, <1>4, <1>5 DEF c

\* And so do many.
LEMMA JoinRises ==
    ASSUME NEW ss, NEW N \in Nat, NEW f,
           f = [i \in 1 .. N |-> IF i = 1 THEN ss[i] ELSE f[i - 1] \o ss[i]],
           \A i \in 1 .. N : ss[i] \in Seq(RecordsOfLog) /\ Rises(ss[i]),
           \A i, j \in 1 .. N : i < j =>
               \A m \in 1 .. Len(ss[i]), n \in 1 .. Len(ss[j]) :
                   ss[i][m].sequence < ss[j][n].sequence
    PROVE  \A k \in 1 .. N : f[k] \in Seq(RecordsOfLog) /\ Rises(f[k])
  <1> DEFINE Good(k) == /\ f[k] \in Seq(RecordsOfLog) /\ Rises(f[k])
                        /\ \A n \in 1 .. Len(f[k]) :
                               \E i \in 1 .. k : \E m \in 1 .. Len(ss[i]) : f[k][n] = ss[i][m]
             Bad == {k \in 1 .. N : ~Good(k)}
  <1>1. ASSUME Bad # {} PROVE FALSE
    <2>1. PICK k \in Bad : \A j \in Bad : k <= j
      <3>1. Bad \in SUBSET Nat
        <4> HIDE DEF Good
        <4> QED
          OBVIOUS
      <3> HIDE DEF Bad
      <3> QED
        BY <1>1, <3>1, LeastExists
    <2>2. k \in 1 .. N /\ ~Good(k)
      OBVIOUS
    <2>3. CASE k = 1
      <3>1. f[1] = ss[1] /\ 1 \in 1 .. N
        BY <2>2, <2>3
      <3>2. Good(1)
        BY <3>1
      <3> QED
        BY <2>2, <2>3, <3>2
    <2>4. CASE k # 1
      <3>1. k - 1 \in 1 .. N /\ k - 1 \notin Bad
        <4>1. ~(k <= k - 1) /\ k - 1 \in 1 .. N
          BY <2>2, <2>4
        <4> QED
          BY <2>1, <4>1
      <3>2. Good(k - 1)
        BY <3>1
      <3>3. f[k] = f[k - 1] \o ss[k]
        BY <2>2, <2>4
      <3> DEFINE a == f[k - 1]
                 b == ss[k]
      <3>4. /\ a \in Seq(RecordsOfLog) /\ Rises(a) /\ b \in Seq(RecordsOfLog) /\ Rises(b)
            /\ \A n \in 1 .. Len(a) : \E i \in 1 .. k - 1 : \E m \in 1 .. Len(ss[i]) : a[n] = ss[i][m]
        BY <2>2, <3>2
      <3>5. ASSUME NEW m \in 1 .. Len(a), NEW n \in 1 .. Len(b) PROVE a[m].sequence < b[n].sequence
        <4>1. PICK i \in 1 .. k - 1 : \E o \in 1 .. Len(ss[i]) : a[m] = ss[i][o]
          BY <3>4
        <4>2. i \in 1 .. N /\ i < k
          BY <2>2, <3>1
        <4> QED
          BY <2>2, <4>1, <4>2
      <3> HIDE DEF a, b
      <3>6. /\ a \o b \in Seq(RecordsOfLog) /\ Rises(a \o b)
            /\ \A n \in 1 .. Len(a \o b) : \/ \E m \in 1 .. Len(a) : (a \o b)[n] = a[m]
                                           \/ \E m \in 1 .. Len(b) : (a \o b)[n] = b[m]
        BY <3>4, <3>5, TogetherRise
      <3>7. ASSUME NEW n \in 1 .. Len(a \o b)
            PROVE  \E i \in 1 .. k : \E m \in 1 .. Len(ss[i]) : (a \o b)[n] = ss[i][m]
        <4>1. \A i \in 1 .. k - 1 : i \in 1 .. k
          BY <2>2
        <4>2. k \in 1 .. k
          BY <2>2
        <4>3. CASE \E m \in 1 .. Len(a) : (a \o b)[n] = a[m]
          <5>1. PICK m \in 1 .. Len(a) : (a \o b)[n] = a[m]
            BY <4>3
          <5>2. PICK i \in 1 .. k - 1 : \E o \in 1 .. Len(ss[i]) : a[m] = ss[i][o]
            BY <3>4
          <5> QED
            BY <4>1, <5>1, <5>2
        <4>4. CASE \E m \in 1 .. Len(b) : (a \o b)[n] = b[m]
          BY <4>2, <4>4 DEF b
        <4> QED
          BY <3>6, <4>3, <4>4
      <3>8. f[k] = a \o b
        BY <3>3 DEF a, b
      <3>9. Good(k)
        <4> DEFINE c == a \o b
        <4>1. /\ c \in Seq(RecordsOfLog) /\ Rises(c)
              /\ \A n \in 1 .. Len(c) : \E i \in 1 .. k : \E m \in 1 .. Len(ss[i]) : c[n] = ss[i][m]
          BY <3>6, <3>7
        <4>2. f[k] = c
          BY <3>8
        <4> HIDE DEF c
        <4> QED
          BY <4>1, <4>2
      <3> QED
        BY <2>2, <3>9
    <2> QED
      BY <2>3, <2>4
  <1> QED
    BY <1>1

----------------------------------------------------------------------------
(* Queries: the records of a sector are in the order they were written.       *)

RecordsInOrder == \A p \in Pages : Rises(flash[p].records)

\* A sector without records is in order.
LEMMA NothingRises == ASSUME NEW s, Len(s) = 0 PROVE Rises(s)
  BY DEF Rises

\* A failed erase leaves the first records of a sector.
LEMMA FailedEraseRises ==
    ASSUME NEW f \in Sectors, Rises(f.records), NEW g \in FailedErase(f)
    PROVE  Rises(g.records)
  <1>1. Rises(Erased.records) /\ Rises(Torn.records)
    <2>1. Len(Erased.records) = 0 /\ Len(Torn.records) = 0
      BY DEF Erased, Torn
    <2> QED
      BY <2>1, NothingRises
  <1>2. f.records \in Seq(RecordsOfLog)
    BY KeptType
  <1>3. ASSUME NEW n \in 0 .. Len(f.records) - 1,
               g = [f EXCEPT !.records = SubSeq(@, 1, n), !.tail = "torn"]
        PROVE  Rises(g.records)
    <2> DEFINE s == f.records
    <2>1. g.records = SubSeq(s, 1, n)
      BY <1>3 DEF Sectors
    <2>2. s \in Seq(RecordsOfLog) /\ Len(s) \in Nat /\ n \in 0 .. Len(s) - 1
      BY <1>2
    <2> HIDE DEF s
    <2>3. Len(SubSeq(s, 1, n)) = n /\ \A m \in 1 .. n : m \in 1 .. Len(s) /\ SubSeq(s, 1, n)[m] = s[m]
      BY <2>2
    <2>4. Rises(s)
      BY DEF s
    <2>5. Rises(SubSeq(s, 1, n))
      BY <2>3, <2>4 DEF Rises
    <2> QED
      BY <2>1, <2>5
  <1>4. CASE g \in {f, Erased, Torn}
    BY <1>1, <1>4
  <1>5. CASE g \notin {f, Erased, Torn}
    <2>1. f.header = "whole"
      BY <1>5 DEF FailedErase
    <2> DEFINE Shortened == {[f EXCEPT !.records = SubSeq(@, 1, n), !.tail = "torn"] :
                                n \in 0 .. Len(f.records) - 1}
    <2>2. g \in Shortened \/ g \in IF EraseKeepsMarker THEN {} ELSE {[f EXCEPT !.marker = FALSE]}
      BY <1>5, <2>1 DEF FailedErase
    <2>3. CASE g \in Shortened
      BY <1>3, <2>3
    <2>4. CASE g = [f EXCEPT !.marker = FALSE]
      <3>1. g.records = f.records
        BY <2>4 DEF Sectors
      <3> QED
        BY <3>1
    <2> QED
      BY <2>2, <2>3, <2>4
  <1> QED
    BY <1>4, <1>5

\* The record that is committed is the last of its sector.
LEMMA RecordRises ==
    ASSUME LogInv, ArchiveInv, RecordsInOrder, pc = "recordCommit", NEW x \in Pages, x = currentPage,
           flash' = [flash EXCEPT ![currentPage].records = Append(@, job),
                                  ![currentPage].tail = "clean"]
    PROVE  Rises(flash'[x].records)
  <1>1. /\ flash[x] \in Sectors /\ x \in Whole /\ flash[x].id = active /\ JobIsNext /\ Writing
        /\ job \in RecordsOfLog
    BY RecordKeepsSectors DEF LogInv, LogTypeOK, ArchiveInv, RamIsExact, Writing
  <1>2. \A r \in Kept(flash[x]) : r.sequence < job.sequence
    BY <1>1 DEF JobIsNext
  <1> DEFINE s == flash[x].records
             t == Append(s, job)
  <1>3. flash'[x].records = t
    <2>1. flash'[x] = [flash[x] EXCEPT !.records = t, !.tail = "clean"]
      BY DEF LogInv, LogTypeOK
    <2> QED
      BY <1>1, <2>1 DEF Sectors
  <1>4. s \in Seq(RecordsOfLog) /\ Len(s) \in Nat /\ Rises(s)
    BY <1>1, KeptType DEF RecordsInOrder
  <1>5. \A m \in 1 .. Len(s) : s[m].sequence < job.sequence
    BY <1>2 DEF Kept
  <1> HIDE DEF s
  <1>6. /\ Len(t) = Len(s) + 1 /\ t[Len(s) + 1] = job
        /\ \A m \in 1 .. Len(s) : t[m] = s[m]
    BY <1>1, <1>4
  <1> HIDE DEF t
  <1>7. ASSUME NEW m \in 1 .. Len(t), NEW n \in 1 .. Len(t), m < n
        PROVE  t[m].sequence < t[n].sequence
    <2>1. m \in 1 .. Len(s)
      BY <1>4, <1>6, <1>7
    <2>2. n \in 1 .. Len(s) \/ n = Len(s) + 1
      BY <1>4, <1>6
    <2>3. CASE n \in 1 .. Len(s)
      BY <1>4, <1>6, <1>7, <2>1, <2>3 DEF Rises
    <2>4. CASE n = Len(s) + 1
      BY <1>5, <1>6, <2>1, <2>4
    <2> QED
      BY <2>2, <2>3, <2>4
  <1>8. Rises(t)
    BY <1>7 DEF Rises
  <1> QED
    BY <1>3, <1>8

\* One sector changes, and is in order.
LEMMA OneSectorRises ==
    ASSUME RecordsInOrder, NEW x \in Pages, \A p \in Pages \ {x} : flash'[p] = flash[p],
           Rises(flash'[x].records)
    PROVE  RecordsInOrder'
  BY DEF RecordsInOrder

\* An erase, done or failed, keeps the order.
LEMMA EraseRises ==
    ASSUME LogInv, RecordsInOrder, NEW x \in Pages, NEW g \in FailedErase(flash[x]) \cup {Erased},
           flash' = [flash EXCEPT ![x] = g]
    PROVE  RecordsInOrder'
  <1>1. flash \in [Pages -> Sectors] /\ flash[x] \in Sectors /\ Rises(flash[x].records)
    BY DEF LogInv, LogTypeOK, RecordsInOrder
  <1>2. flash'[x] = g /\ \A p \in Pages \ {x} : flash'[p] = flash[p]
    BY <1>1
  <1>3. Rises(Erased.records)
    <2>1. Len(Erased.records) = 0
      BY DEF Erased
    <2> QED
      BY <2>1, NothingRises
  <1>4. Rises(g.records)
    BY <1>1, <1>3, FailedEraseRises
  <1> QED
    BY <1>2, <1>4, OneSectorRises

\* So does a new header.
LEMMA HeaderRises ==
    ASSUME LogInv, ArchiveInv, RecordsInOrder, WriteHeader \/ CommitHeader
    PROVE  RecordsInOrder'
  <1>1. /\ flash \in [Pages -> Sectors] /\ pages \in [Pages -> PageInfos]
        /\ pc \in {"header", "headerCommit"}
    BY DEF LogInv, LogTypeOK, WriteHeader, CommitHeader
  <1>2. PICK x \in Pages : x = target
    BY <1>1, HeaderFacts
  <1>3. PICK g \in {flash[x], Torn, WholeHeader(x)} : flash' = [flash EXCEPT ![x] = g]
    <2>1. \/ flash' = flash \/ flash' = [flash EXCEPT ![x] = Torn]
          \/ flash' = [flash EXCEPT ![x] = WholeHeader(x)]
      BY <1>2 DEF WriteHeader, CommitHeader
    <2> QED
      BY <1>1, <2>1, FlashIsItself
  <1>4. flash'[x] = g /\ \A p \in Pages \ {x} : flash'[p] = flash[p]
    BY <1>1, <1>3
  <1>5. Rises(flash[x].records)
    BY DEF RecordsInOrder
  <1>6. Rises(Torn.records) /\ Rises(WholeHeader(x).records)
    <2>1. Len(Torn.records) = 0
      BY DEF Torn, Erased
    <2>2. Len(WholeHeader(x).records) = 0
      BY <1>1, WholeHeaderIs
    <2> QED
      BY <2>1, <2>2, NothingRises
  <1> QED
    BY <1>3, <1>4, <1>5, <1>6, OneSectorRises

\* And a tail or a tombstone.
LEMMA RecordsStay ==
    ASSUME RecordsInOrder, \A p \in Pages : flash'[p].records = flash[p].records
    PROVE  RecordsInOrder'
  BY DEF RecordsInOrder

\* Every step keeps the order of the records on the flash.
LEMMA NextInOrder ==
    ASSUME LogInv, ArchiveInv, RecordsInOrder, [Next]_vars
    PROVE  RecordsInOrder'
  <1>1. flash \in [Pages -> Sectors]
    BY DEF LogInv, LogTypeOK
  <1>2. CASE flash' = flash
    BY <1>2 DEF RecordsInOrder
  <1>3. CASE WriteRecord \/ CommitRecord
    <2>1. pc \in {"record", "recordCommit"}
      BY <1>3 DEF WriteRecord, CommitRecord
    <2>2. PICK x \in Pages : x = currentPage
      BY <2>1, CurrentPageFacts
    <2>3. ASSUME NEW tail, flash' = [flash EXCEPT ![x].tail = tail] PROVE RecordsInOrder'
      <3>1. \A p \in Pages : flash'[p].records = flash[p].records
        BY <1>1, <2>3 DEF Sectors
      <3> QED
        BY <3>1, RecordsStay
    <2>4. CASE /\ pc = "recordCommit"
               /\ flash' = [flash EXCEPT ![currentPage].records = Append(@, job),
                                         ![currentPage].tail = "clean"]
      <3>1. Rises(flash'[x].records)
        BY <2>2, <2>4, RecordRises
      <3>2. \A p \in Pages \ {x} : flash'[p] = flash[p]
        BY <1>1, <2>2, <2>4
      <3> QED
        BY <3>1, <3>2, OneSectorRises
    <2> QED
      BY <1>2, <1>3, <2>2, <2>3, <2>4 DEF WriteRecord, CommitRecord
  <1>4. CASE WriteHeader \/ CommitHeader
    BY <1>4, HeaderRises
  <1>5. CASE MarkVictim
    <2>1. ASSUME flash' = [flash EXCEPT ![target].marker = TRUE] PROVE RecordsInOrder'
      <3>1. \A p \in Pages : flash'[p].records = flash[p].records
        BY <1>1, <2>1 DEF Sectors
      <3> QED
        BY <3>1, RecordsStay
    <2> QED
      BY <1>2, <1>5, <2>1 DEF MarkVictim
  <1>6. ASSUME NEW x \in Pages, \/ flash' = [flash EXCEPT ![x] = Erased]
                                \/ \E left \in FailedErase(flash[x]) :
                                       flash' = [flash EXCEPT ![x] = left]
        PROVE  RecordsInOrder'
    BY <1>6, EraseRises
  <1>7. CASE ErasePage
    <2>1. PICK x \in Pages : x = target
      BY <1>7 DEF ErasePage, LogInv, OperationIsSound
    <2> QED
      BY <1>6, <1>7, <2>1 DEF ErasePage
  <1>8. CASE EvictPage
    <2>1. Others(pages, target) # {} /\ Others(pages, target) \in SUBSET Nat
      BY <1>8, ConstantsAreTyped DEF EvictPage, Others, Claimed
    <2>2. PICK x \in Pages : x = Min(Others(pages, target))
      <3>1. Min(Others(pages, target)) \in Others(pages, target)
        BY <2>1, MinIsLeast
      <3> QED
        BY <3>1 DEF Others, Claimed
    <2> QED
      BY <1>6, <1>8, <2>2 DEF EvictPage
  <1>9. CASE Recover
    <2>1. pc = "recover"
      BY <1>9 DEF Recover
    <2>2. PICK x \in Pages : x = EvictionOrder(pages)
      BY <2>1, EvictionOrderIs
    <2> QED
      BY <1>6, <1>9, <2>2 DEF Recover
  <1>10. CASE Initialize \/ ScanFails \/ SelectPage \/ BeginSession \/ Reset
    BY <1>2, <1>10 DEF Initialize, ScanFails, SelectPage, BeginSession, Reset
  <1>11. ASSUME NEW kind \in {"ORDINARY", "END"}, AppendRecord(kind) PROVE flash' = flash
    BY <1>11 DEF AppendRecord
  <1>12. CASE UNCHANGED vars
    BY <1>2, <1>12 DEF vars
  <1> QED
    BY <1>2, <1>3, <1>4, <1>5, <1>7, <1>8, <1>9, <1>10, <1>11, <1>12 DEF Next, FlashStep

----------------------------------------------------------------------------
(* What paging returns.                                                      *)

\* RAM's sectors of a session that is not being evicted can be told apart by their
\* generations, and hold later records in later ones.
LEMMA ShownAreInOrder ==
    ASSUME LogInv, ArchiveInv, pc = "idle", NEW id, ~IsPendingEviction(id),
           NEW S, S = {p \in Claimed(pages) : pages[p].id = id}
    PROVE  /\ S \subseteq Pages /\ IsFiniteSet(S)
           /\ \A p \in S : /\ pages[p].generation \in Nat /\ pages[p].used \in Nat
                           /\ p \in Whole /\ Shows(flash[p], pages[p])
           /\ \A p, q \in S : p # q => pages[p].generation # pages[q].generation
           /\ \A p, q \in S : pages[p].generation < pages[q].generation =>
                  \A r \in Kept(flash[p]), s \in Kept(flash[q]) : r.sequence < s.sequence
  <1>1. S \subseteq Pages /\ \A p \in S : pages[p] \in PageInfos
    BY DEF Claimed, LogInv, LogTypeOK
  <1>2. IsFiniteSet(S)
    <2>1. NumPages \in Int /\ 1 \in Int
      BY LogAssumption
    <2>2. IsFiniteSet(1 .. NumPages)
      BY ONLY <2>1, FS_Interval
    <2> QED
      BY <1>1, <2>2, FS_Subset DEF Pages
  <1>3. \A p \in S : Shows(flash[p], pages[p])
    BY DEF LogInv, PagesAreTrue, IsFresh
  <1>4. \A p \in S : p \in Whole /\ flash[p].id = id /\ flash[p].generation = pages[p].generation
    BY <1>1, <1>3 DEF Shows, Whole
  <1>5. SectorsAreInOrder
    BY DEF ArchiveInv
  <1>6. \A p \in S : pages[p].generation \in Nat /\ pages[p].used \in Nat
    BY <1>1 DEF PageInfos
  <1>7. \A p, q \in S : p # q => pages[p].generation # pages[q].generation
    BY <1>4, <1>5 DEF SectorsAreInOrder
  <1>8. ASSUME NEW p \in S, NEW q \in S, pages[p].generation < pages[q].generation,
               NEW r \in Kept(flash[p]), NEW s \in Kept(flash[q])
        PROVE  r.sequence < s.sequence
    <2>1. p # q
      BY <1>6, <1>8
    <2> QED
      BY <1>4, <1>5, <1>8, <2>1 DEF SectorsAreInOrder
  <1> QED
    BY <1>1, <1>2, <1>3, <1>4, <1>6, <1>7, <1>8

\* Sequences of records that rise one behind the other, joined by FlattenSeq.
LEMMA FlattenRises ==
    ASSUME NEW N \in Nat, NEW ss, DOMAIN ss = 1 .. N, ss = [i \in 1 .. N |-> ss[i]],
           \A i \in 1 .. N : ss[i] \in Seq(RecordsOfLog) /\ Rises(ss[i]),
           \A i, j \in 1 .. N : i < j =>
               \A m \in 1 .. Len(ss[i]), n \in 1 .. Len(ss[j]) :
                   ss[i][m].sequence < ss[j][n].sequence
    PROVE  FlattenSeq(ss) \in Seq(RecordsOfLog) /\ Rises(FlattenSeq(ss))
  <1>1. Len(ss) = N
    OBVIOUS
  <1>2. CASE N = 0
    <2>1. FlattenSeq(ss) = ss
      BY <1>1, <1>2 DEF FlattenSeq
    <2>2. ss \in Seq(RecordsOfLog)
      BY <1>2
    <2> QED
      BY <1>1, <1>2, <2>1, <2>2, NothingRises
  <1>3. CASE N # 0
    <2> DEFINE F == CHOOSE f : f = [i \in 1 .. N |-> IF i = 1 THEN ss[i] ELSE f[i - 1] \o ss[i]]
    <2>1. F = [i \in 1 .. N |-> IF i = 1 THEN ss[i] ELSE F[i - 1] \o ss[i]]
      BY JoinExists
    <2>2. FlattenSeq(ss) = F[N]
      <3>1. FlattenSeq(ss) = (CHOOSE f : f = [i \in 1 .. Len(ss) |->
                                 IF i = 1 THEN ss[i] ELSE f[i - 1] \o ss[i]])[Len(ss)]
        BY <1>1, <1>3 DEF FlattenSeq
      <3> QED
        BY <1>1, <3>1
    <2> HIDE DEF F
    <2>3. \A k \in 1 .. N : F[k] \in Seq(RecordsOfLog) /\ Rises(F[k])
      BY <2>1, JoinRises
    <2>4. N \in 1 .. N
      BY <1>3
    <2> QED
      BY <2>2, <2>3, <2>4
  <1> QED
    BY <1>2, <1>3

\* The first records of a sector rise, and are kept in it.
LEMMA PrefixRises ==
    ASSUME NEW f \in Sectors, Rises(f.records), NEW used \in Nat, used <= Len(f.records)
    PROVE  /\ SubSeq(f.records, 1, used) \in Seq(RecordsOfLog)
           /\ Rises(SubSeq(f.records, 1, used))
           /\ \A n \in 1 .. Len(SubSeq(f.records, 1, used)) :
                  SubSeq(f.records, 1, used)[n] \in Kept(f)
  <1> DEFINE s == f.records
  <1>1. s \in Seq(RecordsOfLog) /\ Len(s) \in Nat /\ Rises(s) /\ used <= Len(s)
    BY KeptType
  <1>2. \A n \in 1 .. Len(s) : s[n] \in Kept(f)
    BY DEF Kept
  <1> HIDE DEF s
  <1> DEFINE t == SubSeq(s, 1, used)
  <1>3. /\ t \in Seq(RecordsOfLog) /\ Len(t) = used
        /\ \A n \in 1 .. used : n \in 1 .. Len(s) /\ t[n] = s[n]
    BY <1>1
  <1> HIDE DEF t
  <1>4. Rises(t)
    BY <1>1, <1>3 DEF Rises
  <1>5. t \in Seq(RecordsOfLog) /\ Rises(t) /\ \A n \in 1 .. Len(t) : t[n] \in Kept(f)
    BY <1>2, <1>3, <1>4
  <1>6. t = SubSeq(f.records, 1, used)
    BY DEF s, t
  <1> QED
    BY <1>5, <1>6

\* Between two operations, whatever session is asked for, its records come in the order
\* they were numbered.
LEMMA SessionInOrder ==
    ASSUME LogInv, ArchiveInv, RecordsInOrder, pc = "idle", NEW id
    PROVE  SessionRecords(id) \in Seq(RecordsOfLog) /\ Rises(SessionRecords(id))
  <1> DEFINE shown == {p \in Claimed(pages) : pages[p].id = id /\ ~IsPendingEviction(id)}
             order == OrderedPages(id)
             N == Cardinality(shown)
             ss == [n \in DOMAIN order |-> PageRecordsOf(order[n])]
  <1>1. /\ shown \subseteq Pages /\ IsFiniteSet(shown)
        /\ \A p \in shown : /\ pages[p].generation \in Nat /\ pages[p].used \in Nat
                            /\ p \in Whole /\ Shows(flash[p], pages[p])
        /\ \A p, q \in shown : p # q => pages[p].generation # pages[q].generation
        /\ \A p, q \in shown : pages[p].generation < pages[q].generation =>
               \A r \in Kept(flash[p]), s \in Kept(flash[q]) : r.sequence < s.sequence
    <2>1. CASE IsPendingEviction(id)
      <3>1. shown = {}
        BY <2>1
      <3> HIDE DEF shown
      <3> QED
        BY <3>1, FS_EmptySet
    <2>2. CASE ~IsPendingEviction(id)
      <3>1. shown = {p \in Claimed(pages) : pages[p].id = id}
        BY <2>2
      <3> HIDE DEF shown
      <3> QED
        BY <2>2, <3>1, ShownAreInOrder
    <2> QED
      BY <2>1, <2>2
  <1>2. order = CHOOSE s \in [1 .. N -> shown] :
                    \A m, n \in DOMAIN s : m < n => pages[s[m]].generation < pages[s[n]].generation
    BY DEF OrderedPages
  <1>3. SessionRecords(id) = FlattenSeq(ss)
    BY DEF SessionRecords
  <1> HIDE DEF shown, order
  <1>4. N \in Nat
    BY <1>1, FS_CardinalityType
  <1>5. \E s \in [1 .. N -> shown] :
            \A m, n \in DOMAIN s : m < n => pages[s[m]].generation < pages[s[n]].generation
    <2> DEFINE rank == [p \in shown |-> pages[p].generation]
    <2>1. \A p \in shown : rank[p] = pages[p].generation
      OBVIOUS
    <2> HIDE DEF rank
    <2>2. \A p \in shown : rank[p] \in Nat
      BY <1>1, <2>1
    <2>3. \A p, q \in shown : p # q => rank[p] # rank[q]
      BY <1>1, <2>1
    <2>4. PICK s \in [1 .. N -> shown] : \A m, n \in 1 .. N : m < n => rank[s[m]] < rank[s[n]]
      BY <1>1, <2>2, <2>3, SetsCanBeSorted
    <2>5. \A m, n \in DOMAIN s : m < n => pages[s[m]].generation < pages[s[n]].generation
      BY <2>1, <2>4
    <2> QED
      BY <2>5
  <1> HIDE DEF N
  <1>6. /\ order \in [1 .. N -> shown]
        /\ \A m, n \in 1 .. N : m < n => pages[order[m]].generation < pages[order[n]].generation
    <2>1. /\ order \in [1 .. N -> shown]
          /\ \A m, n \in DOMAIN order : m < n => pages[order[m]].generation < pages[order[n]].generation
      BY <1>2, <1>5
    <2> QED
      BY <2>1
  <1>7. DOMAIN ss = 1 .. N /\ \A n \in 1 .. N : ss[n] = PageRecordsOf(order[n])
    BY <1>6
  <1>8. ss = [n \in 1 .. N |-> ss[n]]
    BY <1>7
  <1>9. ASSUME NEW i \in 1 .. N
        PROVE  /\ ss[i] \in Seq(RecordsOfLog) /\ Rises(ss[i])
               /\ \A n \in 1 .. Len(ss[i]) : ss[i][n] \in Kept(flash[order[i]])
    <2>1. PICK p \in shown : p = order[i]
      BY <1>6
    <2>2. /\ flash[p] \in Sectors /\ Rises(flash[p].records) /\ pages[p].used \in Nat
          /\ pages[p].used <= Len(flash[p].records)
      BY <1>1 DEF LogInv, LogTypeOK, RecordsInOrder, Shows
    <2>3. ss[i] = SubSeq(flash[p].records, 1, pages[p].used)
      BY <1>7, <2>1 DEF PageRecordsOf
    <2> HIDE DEF ss
    <2> QED
      BY <2>1, <2>2, <2>3, PrefixRises
  <1> HIDE DEF ss
  <1>10. ASSUME NEW i \in 1 .. N, NEW j \in 1 .. N, i < j,
                NEW m \in 1 .. Len(ss[i]), NEW n \in 1 .. Len(ss[j])
         PROVE  ss[i][m].sequence < ss[j][n].sequence
    <2>1. order[i] \in shown /\ order[j] \in shown
      BY <1>6
    <2>2. pages[order[i]].generation < pages[order[j]].generation
      BY <1>6, <1>10
    <2>3. ss[i][m] \in Kept(flash[order[i]]) /\ ss[j][n] \in Kept(flash[order[j]])
      BY <1>9
    <2> QED
      BY <1>1, <2>1, <2>2, <2>3
  <1>11. FlattenSeq(ss) \in Seq(RecordsOfLog) /\ Rises(FlattenSeq(ss))
    BY <1>4, <1>7, <1>8, <1>9, <1>10, FlattenRises
  <1> QED
    BY <1>3, <1>11

\* The loop of samples() can be run on any sequence.
LEMMA LaterExists ==
    ASSUME NEW s, Len(s) \in Nat, NEW after
    PROVE  \E later : later = [n \in 0 .. Len(s) |->
                                  IF n = 0 THEN <<>>
                                  ELSE IF s[n].sequence <= after THEN later[n - 1]
                                  ELSE Append(later[n - 1], s[n])]
  <1> DEFINE Step(f, n) == IF n = 0 THEN <<>>
                           ELSE IF s[n].sequence <= after THEN f[n - 1]
                           ELSE Append(f[n - 1], s[n])
             Runs(k) == \E f : f = [n \in 0 .. k |-> Step(f, n)]
             Bad == {k \in Nat : ~Runs(k)}
  <1>1. ASSUME Bad # {} PROVE FALSE
    <2>1. PICK k \in Bad : \A j \in Bad : k <= j
      <3>1. Bad \in SUBSET Nat
        OBVIOUS
      <3> HIDE DEF Bad
      <3> QED
        BY <1>1, <3>1, LeastExists
    <2>2. k \in Nat /\ ~Runs(k)
      OBVIOUS
    <2>3. CASE k = 0
      <3> DEFINE f == [n \in 0 .. 0 |-> <<>>]
      <3>1. f = [n \in 0 .. 0 |-> Step(f, n)]
        OBVIOUS
      <3> HIDE DEF f, Step
      <3> QED
        BY <2>2, <2>3, <3>1
    <2>4. CASE k # 0
      <3>1. k - 1 \in Nat /\ k - 1 \notin Bad
        <4>1. ~(k <= k - 1) /\ k - 1 \in Nat
          BY <2>2, <2>4
        <4> QED
          BY <2>1, <4>1
      <3>2. Runs(k - 1)
        BY <3>1
      <3>3. PICK f : f = [n \in 0 .. k - 1 |-> Step(f, n)]
        BY <3>2
      <3> DEFINE g == [n \in 0 .. k |-> IF n = k THEN Step(f, k) ELSE f[n]]
      <3>4. ASSUME NEW n \in 0 .. k PROVE g[n] = Step(g, n)
        <4>1. n # 0 => n - 1 \in 0 .. k - 1 /\ n - 1 \in 0 .. k /\ n - 1 # k
          BY <2>2
        <4>2. n # 0 => g[n - 1] = f[n - 1]
          BY <4>1
        <4>3. CASE n = k
          <5>1. g[n] = Step(f, n)
            BY <4>3
          <5> HIDE DEF g
          <5> QED
            BY <4>2, <5>1
        <4>4. CASE n # k
          <5>1. n \in 0 .. k - 1 /\ g[n] = f[n]
            BY <2>2, <4>4
          <5>2. f[n] = Step(f, n)
            BY <3>3, <5>1
          <5> HIDE DEF g
          <5> QED
            BY <4>2, <5>1, <5>2
        <4> QED
          BY <4>3, <4>4
      <3>5. g = [n \in 0 .. k |-> g[n]]
        OBVIOUS
      <3> HIDE DEF g, Step
      <3>6. g = [n \in 0 .. k |-> Step(g, n)]
        BY <3>4, <3>5
      <3> QED
        BY <2>2, <3>6
    <2> QED
      BY <2>3, <2>4
  <1>2. Runs(Len(s))
    BY <1>1
  <1> QED
    BY <1>2

\* The next page of samples() is what follows the record the last one ended with.
LEMMA NextPage ==
    ASSUME LogInv, ArchiveInv, RecordsInOrder, pc = "idle", NEW id,
           NEW n \in DOMAIN SessionRecords(id)
    PROVE  Samples(id, SessionRecords(id)[n].sequence)
               = SubSeq(SessionRecords(id), n + 1, Len(SessionRecords(id)))
  <1> DEFINE s == SessionRecords(id)
             after == s[n].sequence
             Step(f, k) == IF k = 0 THEN <<>>
                           ELSE IF s[k].sequence <= after THEN f[k - 1]
                           ELSE Append(f[k - 1], s[k])
             later == CHOOSE f : f = [k \in 0 .. Len(s) |-> Step(f, k)]
  <1>1. s \in Seq(RecordsOfLog) /\ Rises(s)
    BY SessionInOrder
  <1>2. Samples(id, after) = later[Len(s)]
    BY DEF Samples
  <1>3. n \in DOMAIN s
    OBVIOUS
  <1> HIDE DEF s
  <1>4. Len(s) \in Nat /\ n \in 1 .. Len(s)
    BY <1>1, <1>3
  <1>5. later = [k \in 0 .. Len(s) |-> Step(later, k)]
    <2>1. \E f : f = [k \in 0 .. Len(s) |-> Step(f, k)]
      BY <1>4, LaterExists
    <2> HIDE DEF Step
    <2> QED
      BY <2>1
  <1> HIDE DEF later
  <1>6. later[Len(s)] = SubSeq(s, n + 1, Len(s))
    BY <1>1, <1>4, <1>5, LaterIsBehind
  <1> QED
    BY <1>2, <1>6 DEF s

\* An erased flash is in order.
LEMMA StartsInOrder == Init => RecordsInOrder
  <1> SUFFICES ASSUME Init, NEW p \in Pages PROVE Rises(flash[p].records)
    BY DEF RecordsInOrder
  <1>1. Len(flash[p].records) = 0
    BY DEF Init, Erased
  <1> QED
    BY <1>1, NothingRises

\* Pages of samples() continue one another: whichever record a page ended with, the next
\* page begins with the one behind it, however sectors were reused in between.
THEOREM PagingSafe == EraseKeepsMarker => (Spec => []PagingLosesNothing)
  <1>1. ASSUME EraseKeepsMarker PROVE Spec => []PagingLosesNothing
    <2>1. Init => ArchiveInv
      BY <1>1, InitArchive
    <2>2. LogInv /\ LogInv' /\ ArchiveInv /\ [Next]_vars => ArchiveInv'
      BY NextArchive
    <2>3. LogInv /\ ArchiveInv /\ RecordsInOrder /\ [Next]_vars => RecordsInOrder'
      BY NextInOrder
    <2>4. LogInv /\ ArchiveInv /\ RecordsInOrder => PagingLosesNothing
      BY NextPage DEF PagingLosesNothing
    <2> QED
      BY <2>1, <2>2, <2>3, <2>4, StartsInOrder, LogSafe, PTL DEF Spec
  <1> QED
    BY <1>1

----------------------------------------------------------------------------
(* The end of every operation.                                               *)

\* How many flash operations HistoryTask may still do before it waits again: an eviction
\* erases each claimed sector once at most, and a failure at startup is one of three.
StepsLeft ==
    LET claimed == Cardinality(Claimed(pages))
        attempts == FailedThreshold - errors
    IN  CASE pc = "scan"         -> attempts * (NumPages + 2) + NumPages + 1
          [] pc = "recover"      -> attempts * (NumPages + 2) + claimed
          [] pc = "select"       -> NumPages + 7
          [] pc = "mark"         -> NumPages + 6
          [] pc = "evict"        -> claimed + 5
          [] pc = "erase"        -> 5
          [] pc = "header"       -> 4
          [] pc = "headerCommit" -> 3
          [] pc = "record"       -> 2
          [] pc = "recordCommit" -> 1
          [] pc \in {"idle", "stopped"} -> 0

\* Every flash operation, done or failed, brings the end nearer.
FlashStepsRunOut == [](StepsLeft \in Nat) /\ [][FlashStep => StepsLeft' < StepsLeft]_vars

\* Errors are counted up to the threshold, and no step waits: an eviction has a sector to
\* erase next.
StepInv ==
    /\ pc \in {"idle", "stopped", "scan", "recover"} \/ Writing
    /\ errors \in 0 .. FailedThreshold
    /\ pc \in {"scan", "recover"} => errors < FailedThreshold
    /\ pc = "evict" => Others(pages, target) # {}

\* The sectors that are claimed can be counted.
LEMMA ClaimedAreFinite ==
    ASSUME NEW info
    PROVE  /\ IsFiniteSet(Claimed(info)) /\ Cardinality(Claimed(info)) \in 0 .. NumPages
           /\ \A p \in Claimed(info) :
                  /\ IsFiniteSet(Claimed(info) \ {p})
                  /\ Cardinality(Claimed(info) \ {p}) = Cardinality(Claimed(info)) - 1
                  /\ Cardinality(Claimed(info)) > 0
  <1>1. NumPages \in Int /\ 1 \in Int /\ NumPages \in Nat
    BY LogAssumption
  <1>2. IsFiniteSet(1 .. NumPages) /\ Cardinality(1 .. NumPages) = NumPages
    <2>1. /\ IsFiniteSet(1 .. NumPages)
          /\ Cardinality(1 .. NumPages) = IF 1 > NumPages THEN 0 ELSE NumPages - 1 + 1
      BY ONLY <1>1, FS_Interval
    <2> QED
      BY <1>1, <2>1
  <1>3. Claimed(info) \subseteq 1 .. NumPages
    BY DEF Claimed, Pages
  <1> DEFINE S == Claimed(info)
  <1> HIDE DEF S
  <1>4. IsFiniteSet(S) /\ Cardinality(S) \in Nat /\ Cardinality(S) <= NumPages
    BY <1>2, <1>3, FS_Subset, FS_CardinalityType DEF S
  <1>5. ASSUME NEW p \in S
        PROVE  /\ IsFiniteSet(S \ {p}) /\ Cardinality(S \ {p}) = Cardinality(S) - 1
               /\ Cardinality(S) > 0
    <2>1. IsFiniteSet(S \ {p}) /\ Cardinality(S \ {p}) = Cardinality(S) - 1
      BY <1>4, <1>5, FS_RemoveElement
    <2>2. Cardinality(S \ {p}) \in Nat
      BY <2>1, FS_CardinalityType
    <2> QED
      BY <1>4, <2>1, <2>2
  <1> QED
    BY <1>1, <1>4, <1>5 DEF S

\* What is left to do can be counted.
LEMMA StepsAreCounted ==
    ASSUME StepInv
    PROVE  StepsLeft \in Nat
  <1>1. NumPages \in Nat /\ Cardinality(Claimed(pages)) \in Nat
    BY LogAssumption, ClaimedAreFinite
  <1>2. FailedThreshold - errors \in Nat
    BY DEF StepInv, FailedThreshold, Writing
  <1>3. (FailedThreshold - errors) * (NumPages + 2) \in Nat
    <2> DEFINE attempts == FailedThreshold - errors
    <2>1. attempts \in Nat
      BY <1>2
    <2> HIDE DEF attempts
    <2>2. attempts * (NumPages + 2) \in Nat
      BY <1>1, <2>1
    <2> QED
      BY <2>2 DEF attempts
  <1> DEFINE product == (FailedThreshold - errors) * (NumPages + 2)
  <1>4. /\ StepsLeft \in {product + NumPages + 1, product + Cardinality(Claimed(pages)),
                          NumPages + 7, NumPages + 6, Cardinality(Claimed(pages)) + 5,
                          5, 4, 3, 2, 1, 0}
    BY DEF StepInv, StepsLeft, Writing
  <1> HIDE DEF product
  <1> QED
    BY <1>1, <1>3, <1>4 DEF product

\* Erasing a claimed sector leaves one less.
LEMMA ErasedIsNotClaimed ==
    ASSUME LogInv, NEW p \in Claimed(pages), pages' = [pages EXCEPT ![p] = Unclaimed]
    PROVE  Cardinality(Claimed(pages')) = Cardinality(Claimed(pages)) - 1
  <1>1. Claimed(pages') = Claimed(pages) \ {p}
    <2>1. pages \in [Pages -> PageInfos] /\ p \in Pages
      BY DEF LogInv, LogTypeOK, Claimed
    <2> QED
      BY <2>1, ConstantsAreTyped DEF Claimed
  <1> QED
    BY <1>1, ClaimedAreFinite

\* What an attempt that ends unwritten leaves to do: nothing.
LEMMA UnwrittenEnds ==
    ASSUME StepInv, NEW n \in {1, 2}, Unwritten(n)
    PROVE  StepInv' /\ StepsLeft' = 0
  <1>1. pc' \in {"idle", "stopped"} /\ errors' \in 0 .. FailedThreshold
    BY DEF StepInv, Unwritten, CountErrors, FailedThreshold
  <1> QED
    BY <1>1 DEF StepInv, StepsLeft, Writing

\* Startup: the scan, the evictions it finds, and the failures of both.
LEMMA StartupRunsOut ==
    ASSUME LogInv, StepInv, Initialize \/ ScanFails \/ Recover
    PROVE  StepInv' /\ StepsLeft' < StepsLeft
  <1> DEFINE claimed == Cardinality(Claimed(pages))
             attempts == FailedThreshold - errors
  <1>1. NumPages \in Nat /\ claimed \in 0 .. NumPages /\ Cardinality(Claimed(pages')) \in 0 .. NumPages
    BY LogAssumption, ClaimedAreFinite
  <1>2. attempts \in 1 .. FailedThreshold /\ attempts \in {1, 2, 3}
    BY DEF StepInv, FailedThreshold, Initialize, ScanFails, Recover
  <1>3. CASE Initialize
    <2>1. pc = "scan" /\ pc' \in {"idle", "recover"} /\ errors' = errors
      BY <1>3 DEF Initialize
    <2>2. StepInv'
      BY <2>1 DEF StepInv, Writing
    <2>3. /\ StepsLeft = attempts * (NumPages + 2) + NumPages + 1
          /\ \/ StepsLeft' = 0
             \/ StepsLeft' = attempts * (NumPages + 2) + Cardinality(Claimed(pages'))
      BY <2>1 DEF StepsLeft
    <2> HIDE DEF attempts
    <2> QED
      BY <1>1, <1>2, <2>2, <2>3
  <1>4. ASSUME InitializeFails, StepsLeft >= attempts * (NumPages + 2)
        PROVE  StepInv' /\ StepsLeft' < StepsLeft
    <2>1. /\ errors' = errors + 1 /\ errors' \in 0 .. FailedThreshold
          /\ pc' = IF errors' < FailedThreshold THEN "scan" ELSE "stopped"
      BY <1>2, <1>4 DEF InitializeFails, CountErrors, StepInv, FailedThreshold
    <2>2. StepInv'
      BY <2>1 DEF StepInv, Writing
    <2>3. \/ StepsLeft' = 0
          \/ StepsLeft' = (attempts - 1) * (NumPages + 2) + NumPages + 1
      <3>1. CASE pc' = "stopped"
        BY <3>1 DEF StepsLeft
      <3>2. CASE pc' = "scan"
        <4>1. StepsLeft' = (FailedThreshold - errors') * (NumPages + 2) + NumPages + 1
          BY <3>2 DEF StepsLeft
        <4>2. FailedThreshold - errors' = attempts - 1
          BY <2>1 DEF FailedThreshold, StepInv
        <4> QED
          BY <4>1, <4>2
      <3> QED
        BY <2>1, <3>1, <3>2
    <2>4. attempts * (NumPages + 2) > 0
          /\ attempts * (NumPages + 2) > (attempts - 1) * (NumPages + 2) + NumPages + 1
      <3> HIDE DEF attempts
      <3> QED
        BY <1>1, <1>2
    <2> QED
      <3>1. StepsLeft' < StepsLeft
        <4> DEFINE a == attempts * (NumPages + 2)
                   b == (attempts - 1) * (NumPages + 2) + NumPages + 1
        <4>1. a \in Nat /\ b \in Nat /\ a > 0 /\ a > b /\ StepsLeft >= a
          <5>1. a \in Nat /\ b \in Nat
            <6> HIDE DEF attempts
            <6> QED
              BY <1>1, <1>2
          <5> QED
            BY <1>4, <2>4, <5>1
        <4>2. StepsLeft \in Nat
          BY StepsAreCounted
        <4> HIDE DEF a
        <4> QED
          BY <2>3, <4>1, <4>2
      <3> QED
        BY <2>2, <3>1
  <1>5. CASE ScanFails
    <2>1. StepsLeft = attempts * (NumPages + 2) + NumPages + 1 /\ InitializeFails
      BY <1>5 DEF ScanFails, StepsLeft
    <2> QED
      BY <1>1, <1>2, <1>4, <2>1
  <1>6. CASE Recover
    <2>1. pc = "recover" /\ StepsLeft = attempts * (NumPages + 2) + claimed
      BY <1>6 DEF Recover, StepsLeft
    <2>2. PICK p \in Claimed(pages) : p = EvictionOrder(pages)
      BY <2>1, EvictionOrderIs
    <2>3. CASE /\ pages' = [pages EXCEPT ![p] = Unclaimed]
               /\ pc' \in {"idle", "recover"} /\ errors' = errors
      <3>1. Cardinality(Claimed(pages')) = claimed - 1 /\ claimed > 0
        BY <2>2, <2>3, ErasedIsNotClaimed, ClaimedAreFinite
      <3>2. \/ StepsLeft' = 0
            \/ StepsLeft' = attempts * (NumPages + 2) + Cardinality(Claimed(pages'))
        BY <2>3 DEF StepsLeft
      <3>3. StepInv'
        BY <2>1, <2>3 DEF StepInv, Writing
      <3> HIDE DEF attempts
      <3> QED
        BY <1>1, <1>2, <2>1, <3>1, <3>2, <3>3
    <2>4. CASE InitializeFails
      <3>1. StepsLeft >= attempts * (NumPages + 2)
        <4> HIDE DEF attempts
        <4> QED
          BY <1>1, <1>2, <2>1
      <3> QED
        BY <1>4, <2>4, <3>1
    <2> QED
      BY <1>6, <2>2, <2>3, <2>4 DEF Recover
  <1> QED
    BY <1>3, <1>5, <1>6

\* The choice of a sector and the evictions for it.
LEMMA EvictionRunsOut ==
    ASSUME LogInv, StepInv, SelectPage \/ MarkVictim \/ EvictPage
    PROVE  StepInv' /\ StepsLeft' < StepsLeft
  <1>1. /\ NumPages \in Nat /\ Cardinality(Claimed(pages)) \in 0 .. NumPages
        /\ Cardinality(Claimed(pages')) \in 0 .. NumPages
    BY LogAssumption, ClaimedAreFinite
  <1>2. ASSUME pc' \in {"erase", "mark"}, errors' \in 0 .. FailedThreshold PROVE StepInv'
    BY <1>2 DEF StepInv, Writing
  <1>3. ASSUME pc' = EvictOrErase(pages', target'), errors' \in 0 .. FailedThreshold
        PROVE  StepInv' /\ StepsLeft' <= Cardinality(Claimed(pages')) + 5
               /\ StepsLeft' \in Nat
    <2>1. \/ pc' = "erase"
          \/ pc' = "evict" /\ Others(pages', target') # {}
      BY <1>3 DEF EvictOrErase
    <2>2. StepInv'
      BY <1>3, <2>1 DEF StepInv, Writing
    <2>3. StepsLeft' = 5 \/ StepsLeft' = Cardinality(Claimed(pages')) + 5
      BY <2>1 DEF StepsLeft
    <2> QED
      BY <1>1, <2>2, <2>3
  <1>4. CASE SelectPage
    <2>1. pc = "select" /\ errors' = errors /\ errors' \in 0 .. FailedThreshold
      BY <1>4 DEF SelectPage, StepInv
    <2>2. StepsLeft = NumPages + 7
      BY <2>1 DEF StepsLeft
    <2>3. CASE pc' = EvictOrErase(pages', target')
      BY <1>1, <1>3, <2>1, <2>2, <2>3
    <2>4. CASE pc' \in {"erase", "mark"}
      <3>1. StepsLeft' = 5 \/ StepsLeft' = NumPages + 6
        BY <2>4 DEF StepsLeft
      <3> QED
        BY <1>1, <1>2, <2>1, <2>2, <2>4, <3>1
    <2> QED
      BY <1>4, <2>3, <2>4 DEF SelectPage
  <1>5. CASE MarkVictim
    <2>1. StepsLeft = NumPages + 6
      BY <1>5 DEF MarkVictim, StepsLeft
    <2>2. CASE Unwritten(2)
      BY <1>1, <2>1, <2>2, UnwrittenEnds
    <2>3. CASE pc' = EvictOrErase(pages', target') /\ errors' \in 0 .. FailedThreshold
      BY <1>1, <1>3, <2>1, <2>3
    <2>4. errors \in 0 .. FailedThreshold /\ (CountErrors(1) => errors' \in 0 .. FailedThreshold)
      BY DEF StepInv, CountErrors, FailedThreshold
    <2> QED
      BY <1>5, <2>2, <2>3, <2>4 DEF MarkVictim
  <1>6. CASE EvictPage
    <2>1. StepsLeft = Cardinality(Claimed(pages)) + 5
      BY <1>6 DEF EvictPage, StepsLeft
    <2>2. CASE Unwritten(2)
      BY <1>1, <2>1, <2>2, UnwrittenEnds
    <2>3. CASE ~Unwritten(2)
      <3> DEFINE p == Min(Others(pages, target))
      <3>1. p \in Claimed(pages)
        <4>1. Others(pages, target) # {} /\ Others(pages, target) \in SUBSET Nat
          BY <1>6, ConstantsAreTyped DEF EvictPage, Others, Claimed
        <4>2. p \in Others(pages, target)
          BY <4>1, MinIsLeast
        <4> QED
          BY <4>2 DEF Others
      <3>2. /\ pages' = [pages EXCEPT ![p] = Unclaimed]
            /\ pc' = EvictOrErase(pages', target') /\ errors' \in 0 .. FailedThreshold
        BY <1>6, <2>3 DEF EvictPage, StepInv
      <3>3. Cardinality(Claimed(pages')) = Cardinality(Claimed(pages)) - 1
        <4> HIDE DEF p
        <4> QED
          BY <3>1, <3>2, ErasedIsNotClaimed
      <3> QED
        BY <1>1, <1>3, <2>1, <3>2, <3>3
    <2> QED
      BY <2>2, <2>3
  <1> QED
    BY <1>4, <1>5, <1>6

\* The writes to the sector that was found.
LEMMA WritesRunOut ==
    ASSUME LogInv, StepInv,
           ErasePage \/ WriteHeader \/ CommitHeader \/ WriteRecord \/ CommitRecord
    PROVE  StepInv' /\ StepsLeft' < StepsLeft
  <1>1. StepsLeft = IF pc = "erase" THEN 5 ELSE IF pc = "header" THEN 4
                    ELSE IF pc = "headerCommit" THEN 3 ELSE IF pc = "record" THEN 2 ELSE 1
    BY DEF StepsLeft, ErasePage, WriteHeader, CommitHeader, WriteRecord, CommitRecord
  <1>2. pc \in {"erase", "header", "headerCommit", "record", "recordCommit"}
    BY DEF ErasePage, WriteHeader, CommitHeader, WriteRecord, CommitRecord
  <1>3. CASE Unwritten(1)
    BY <1>1, <1>3, UnwrittenEnds
  <1>4. CASE ~Unwritten(1)
    <2>1. /\ errors' = errors \/ errors' = 0
          /\ \/ pc = "erase" /\ pc' = "header"
             \/ pc = "header" /\ pc' = "headerCommit"
             \/ pc = "headerCommit" /\ pc' = "record"
             \/ pc = "record" /\ pc' = "recordCommit"
             \/ pc = "recordCommit" /\ pc' = "idle"
      BY <1>4 DEF ErasePage, WriteHeader, CommitHeader, WriteRecord, CommitRecord
    <2>2. StepInv'
      BY <2>1 DEF StepInv, FailedThreshold, Writing
    <2>3. StepsLeft' = IF pc' = "header" THEN 4 ELSE IF pc' = "headerCommit" THEN 3
                       ELSE IF pc' = "record" THEN 2 ELSE IF pc' = "recordCommit" THEN 1 ELSE 0
      BY <2>1 DEF StepsLeft
    <2> QED
      BY <1>1, <2>1, <2>2, <2>3
  <1> QED
    BY <1>3, <1>4

\* A flash operation leaves less to do.
LEMMA FlashStepsRun ==
    ASSUME LogInv, StepInv, FlashStep
    PROVE  StepInv' /\ StepsLeft' < StepsLeft
  BY StartupRunsOut, EvictionRunsOut, WritesRunOut DEF FlashStep

\* The other steps begin an operation, or cut the power.
LEMMA StepsAreKept == LogInv /\ StepInv /\ [Next]_vars => StepInv'
  <1> SUFFICES ASSUME LogInv, StepInv, [Next]_vars PROVE StepInv'
    OBVIOUS
  <1>1. CASE FlashStep
    BY <1>1, FlashStepsRun
  <1>2. CASE BeginSession \/ \E kind \in {"ORDINARY", "END"} : AppendRecord(kind)
    <2>1. pc' \in {"select", "record"} /\ errors' = errors
      BY <1>2 DEF BeginSession, AppendRecord
    <2> QED
      BY <2>1 DEF StepInv, Writing
  <1>3. CASE Reset
    <2>1. pc' = "scan" /\ errors' = 0
      BY <1>3 DEF Reset, Constructed
    <2> QED
      BY <2>1 DEF StepInv, FailedThreshold
  <1>4. CASE UNCHANGED vars
    BY <1>4 DEF vars, StepInv, Writing
  <1> QED
    BY <1>1, <1>2, <1>3, <1>4 DEF Next

\* Startup, every append and every eviction come to an end after a number of flash operations
\* that the partition bounds, however many of them fail: complete_pending_eviction() and
\* select_page_for_reuse() never loop, whatever MaxFailures is.
THEOREM OperationsRunOut == Spec => FlashStepsRunOut /\ []StepInv
  <1>1. Init => StepInv
    BY DEF Init, StepInv, FailedThreshold
  <1>2. LogInv /\ StepInv /\ [Next]_vars => StepInv'
    BY StepsAreKept
  <1>3. StepInv => StepsLeft \in Nat
    BY StepsAreCounted
  <1>4. LogInv /\ StepInv /\ FlashStep => StepsLeft' < StepsLeft
    BY FlashStepsRun
  <1> QED
    BY <1>1, <1>2, <1>3, <1>4, LogSafe, PTL DEF Spec, FlashStepsRunOut

=============================================================================
