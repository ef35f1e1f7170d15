------------------------- MODULE CircularHistoryLog -------------------------
(***************************************************************************)
(* The circular session log of history_support.cpp with the write policy   *)
(* that drives it, one flash operation at a time.  A flash operation ends  *)
(* done or failed; a failed one may have taken effect in part or in full.   *)
(* Power may be lost between any two steps: a cut in the middle of an       *)
(* operation is the failed operation followed by Reset.                     *)
(*                                                                         *)
(* A record has the same size whatever it holds (PageRecords fill a page)  *)
(* and keeps only its kind, session and sequence.  Reads succeed once the   *)
(* scan has succeeded; page_index and the health counters other than the    *)
(* consecutive write errors are left out.                                   *)
(***************************************************************************)
EXTENDS Integers, Sequences, FiniteSets, SequencesExt

CONSTANTS
    NumPages,         \* sectors of the partition
    PageRecords,      \* records a sector holds after its header
    MaxSessions,      \* bound: sessions begun
    MaxSequence,      \* bound: ordinary records after this number
    MaxFailures,      \* bound: flash operations that fail
    MaxResets,        \* bound: power cuts
    EraseKeepsMarker  \* an interrupted erase that leaves the header readable
                      \* leaves its tombstone readable as well

ASSUME LogAssumption ==
    /\ NumPages \in Nat \ {0, 1}
    /\ PageRecords \in Nat \ {0}
    /\ {MaxSessions, MaxSequence, MaxFailures, MaxResets} \subseteq Nat
    /\ EraseKeepsMarker \in BOOLEAN

VARIABLES
    flash,            \* sector -> what it holds; the only state a cut leaves
    pages,            \* sector -> PageInfo, as RAM knows it
    currentPage, active, nextId, nextGeneration, nextSequence,
    errors,           \* consecutive_write_errors_, up to the threshold
    pending,          \* the START or END the policy retries first
    pc,               \* the flash operation HistoryTask is about to do
    job,              \* the record being written
    target,           \* the sector being allocated
    failures, resets

vars == <<flash, pages, currentPage, active, nextId, nextGeneration,
          nextSequence, errors, pending, pc, job, target, failures, resets>>

Pages == 1..NumPages
NoPage == 0
NoId == 0
NoKind == "NONE"
Lifecycle == {"START", "END"}
Kinds == Lifecycle \cup {"ORDINARY"}
FailedThreshold == 3
NoJob == [kind |-> NoKind, id |-> NoId, sequence |-> 0]

Erased == [header |-> "erased", generation |-> 0, id |-> NoId,
           marker |-> FALSE, records |-> <<>>, tail |-> "clean"]
Torn == [Erased EXCEPT !.header = "torn", !.tail = "torn"]
Unclaimed == [valid |-> FALSE, generation |-> 0, id |-> NoId,
              marker |-> FALSE, used |-> 0]

(***************************************************************************)
(* What a failed operation may leave behind.                               *)
(***************************************************************************)
FailedErase(f) ==
    {f, Erased, Torn} \cup
    IF f.header # "whole" THEN {}
    ELSE {[f EXCEPT !.records = SubSeq(@, 1, n), !.tail = "torn"] :
              n \in 0..(Len(f.records) - 1)}
         \cup IF EraseKeepsMarker THEN {} ELSE {[f EXCEPT !.marker = FALSE]}

Fail == failures < MaxFailures /\ failures' = failures + 1

CountErrors(n) ==
    errors' = IF errors + n > FailedThreshold THEN FailedThreshold
              ELSE errors + n

\* The record's attempt ends unwritten: a failed START forgets its session,
\* the policy keeps START and END for a retry, drops the rest, and stops for
\* good once the log reports Failed.
Unwritten(n) ==
    /\ CountErrors(n)
    /\ active' = IF job.kind = "START" THEN NoId ELSE active
    /\ pending' = IF job.kind \in Lifecycle /\ errors' < FailedThreshold
                  THEN job.kind ELSE NoKind
    /\ pc' = IF errors' < FailedThreshold THEN "idle" ELSE "stopped"
    /\ job' = NoJob
    /\ target' = NoPage
    /\ UNCHANGED <<nextId, nextGeneration, nextSequence, resets>>

(***************************************************************************)
(* Startup: scan every page, then finish every pending eviction.           *)
(***************************************************************************)
\* Mutant of ScanPage: startup does not look for tombstones.
ScanPageOnly(f) ==
    IF f.header = "whole"
    THEN [valid |-> TRUE, generation |-> f.generation, id |-> f.id,
          marker |-> FALSE, used |-> Len(f.records)]
    ELSE Unclaimed

ScanPage(f) ==
    IF f.header = "whole"
    THEN [valid |-> TRUE, generation |-> f.generation, id |-> f.id,
          marker |-> f.marker, used |-> Len(f.records)]
    ELSE Unclaimed

Claimed(p) == {q \in Pages : p[q].valid}
Marked(p) == {q \in Claimed(p) : p[q].marker}
\* The victim's pages other than the one that carries its tombstone.
Others(p, m) == {q \in Claimed(p) \ {m} : p[q].id = p[m].id}

Initialize ==
    LET found == [p \in Pages |-> ScanPage(flash[p])] IN
    /\ pc = "scan"
    /\ pages' = found
    /\ nextId' = Max({nextId} \cup {found[p].id + 1 : p \in Claimed(found)})
    /\ nextGeneration' = Max({nextGeneration} \cup
                             {found[p].generation + 1 : p \in Claimed(found)})
    /\ pc' = IF Marked(found) = {} THEN "idle" ELSE "recover"
    /\ UNCHANGED <<flash, currentPage, active, nextSequence, errors, pending,
                   job, target, failures, resets>>

InitializeFails ==
    /\ CountErrors(1)
    /\ pc' = IF errors' < FailedThreshold THEN "scan" ELSE "stopped"
    /\ UNCHANGED <<pages, currentPage, active, nextId, nextGeneration,
                   nextSequence, pending, job, target, resets>>

ScanFails == pc = "scan" /\ Fail /\ InitializeFails /\ UNCHANGED flash

\* complete_pending_eviction(): the tombstone's own sector goes last.
EvictionOrder(p) ==
    LET m == Min(Marked(p)) IN
    IF Others(p, m) = {} THEN m ELSE Min(Others(p, m))

Recover ==
    LET p == EvictionOrder(pages) IN
    /\ pc = "recover"
    /\ \/ /\ flash' = [flash EXCEPT ![p] = Erased]
          /\ pages' = [pages EXCEPT ![p] = Unclaimed]
          /\ pc' = IF Marked(pages') = {} THEN "idle" ELSE "recover"
          /\ UNCHANGED <<currentPage, active, nextId, nextGeneration,
                         nextSequence, errors, pending, job, target, failures,
                         resets>>
       \/ /\ Fail
          /\ \E left \in FailedErase(flash[p]) :
                 flash' = [flash EXCEPT ![p] = left]
          /\ InitializeFails

(***************************************************************************)
(* begin_session() and append(), as the policy calls them.                 *)
(***************************************************************************)
BeginSession ==
    /\ pc = "idle"
    /\ pending = "START" \/ (pending = NoKind /\ nextId <= MaxSessions)
    /\ active' = nextId
    /\ nextId' = nextId + 1
    /\ nextSequence' = 1
    /\ job' = [kind |-> "START", id |-> nextId, sequence |-> 0]
    /\ pc' = "select"
    /\ UNCHANGED <<flash, pages, currentPage, nextGeneration, errors, pending,
                   target, failures, resets>>

\* Mutant of RoomInCurrentPage: one record too many fits.
RoomForOneMore ==
    /\ currentPage # NoPage
    /\ pages[currentPage].valid
    /\ pages[currentPage].id = active
    /\ pages[currentPage].used <= PageRecords

RoomInCurrentPage ==
    /\ currentPage # NoPage
    /\ pages[currentPage].valid
    /\ pages[currentPage].id = active
    /\ pages[currentPage].used < PageRecords

\* Mutant of SequenceAfter: the number is taken and not advanced.
SameSequence == nextSequence

SequenceAfter == nextSequence + 1

\* Without an active session append() changes nothing, so it needs one here.
AppendRecord(kind) ==
    /\ pc = "idle"
    /\ active # NoId
    /\ \/ pending = kind
       \/ pending = NoKind /\ (kind = "END" \/ nextSequence <= MaxSequence)
    /\ job' = [kind |-> kind, id |-> active, sequence |-> nextSequence]
    /\ nextSequence' = SequenceAfter
    /\ pc' = IF RoomInCurrentPage THEN "record" ELSE "select"
    /\ UNCHANGED <<flash, pages, currentPage, active, nextId, nextGeneration,
                   errors, pending, target, failures, resets>>

(***************************************************************************)
(* select_page_for_reuse() and allocate_page().                            *)
(***************************************************************************)
OldestGeneration(id) ==
    Min({pages[p].generation : p \in {q \in Claimed(pages) : pages[q].id = id}})

HasEnd(id) ==
    \E p \in Claimed(pages) : /\ pages[p].id = id
                              /\ \E n \in 1..pages[p].used :
                                     flash[p].records[n].kind = "END"

OldestOf(ids) ==
    CHOOSE id \in ids : \A other \in ids :
        OldestGeneration(id) <= OldestGeneration(other)

\* Mutant of Victim: the oldest session goes, completed or not.
OldestVictim(id) ==
    LET others == {pages[p].id : p \in Claimed(pages)} \ {id}
    IN  IF others # {} THEN OldestOf(others) ELSE NoId

\* The session to give up for a page of session id; NoId if there is none.
Victim(id) ==
    LET others == {pages[p].id : p \in Claimed(pages)} \ {id}
        completed == {s \in others : HasEnd(s)}
    IN  IF completed # {} THEN OldestOf(completed)
        ELSE IF others # {} THEN OldestOf(others) ELSE NoId

\* Mutant of EvictOrErase: the last erase is looked for among the other sectors.
EvictOthersOnly(p, m) == "evict"

EvictOrErase(p, m) == IF Others(p, m) = {} THEN "erase" ELSE "evict"

SelectPage ==
    LET unclaimed == Pages \ Claimed(pages)
        victim == Victim(job.id)
        oldest == CHOOSE p \in Pages :
                      \A q \in Pages : pages[p].generation <= pages[q].generation
    IN
    /\ pc = "select"
    /\ \/ /\ Marked(pages) # {}
          /\ target' = Min(Marked(pages))
          /\ pc' = EvictOrErase(pages, target')
          /\ UNCHANGED pages
       \/ /\ Marked(pages) = {} /\ unclaimed # {}
          /\ target' = Min(unclaimed)
          /\ pc' = "erase"
          /\ UNCHANGED pages
       \/ /\ Marked(pages) = {} /\ unclaimed = {} /\ victim # NoId
          /\ target' = Min({p \in Pages : pages[p].id = victim})
          /\ pc' = "mark"
          /\ UNCHANGED pages
       \/ /\ Marked(pages) = {} /\ unclaimed = {} /\ victim = NoId
          /\ target' = oldest
          /\ pages' = [pages EXCEPT ![oldest] = Unclaimed]
          /\ pc' = "erase"
    /\ UNCHANGED <<flash, currentPage, active, nextId, nextGeneration,
                   nextSequence, errors, pending, job, failures, resets>>

\* mark_session_for_eviction(): the marker is read back, so a write that is
\* reported failed but left it behind goes on.  Programming only clears bits,
\* and every word between erased and the marker reads as a tombstone.
MarkVictim ==
    LET seen == /\ flash' = [flash EXCEPT ![target].marker = TRUE]
                /\ pages' = [pages EXCEPT ![target].marker = TRUE]
                /\ pc' = EvictOrErase(pages', target)
                /\ UNCHANGED <<active, nextId, nextGeneration, nextSequence,
                               pending, job, target, resets>>
    IN
    /\ pc = "mark"
    /\ \/ seen /\ UNCHANGED <<errors, failures>>
       \/ Fail /\ seen /\ CountErrors(1)
       \/ Fail /\ Unwritten(2) /\ UNCHANGED <<flash, pages>>
    /\ UNCHANGED currentPage

EvictPage ==
    LET p == Min(Others(pages, target)) IN
    /\ pc = "evict" /\ Others(pages, target) # {}
    /\ \/ /\ flash' = [flash EXCEPT ![p] = Erased]
          /\ pages' = [pages EXCEPT ![p] = Unclaimed]
          /\ pc' = EvictOrErase(pages', target)
          /\ UNCHANGED <<active, nextId, nextGeneration, nextSequence, errors,
                         pending, job, target, failures, resets>>
       \/ /\ Fail
          /\ \E left \in FailedErase(flash[p]) :
                 flash' = [flash EXCEPT ![p] = left]
          /\ Unwritten(2)
          /\ UNCHANGED pages
    /\ UNCHANGED currentPage

ErasePage ==
    /\ pc = "erase"
    /\ \/ /\ flash' = [flash EXCEPT ![target] = Erased]
          /\ pages' = [pages EXCEPT ![target] =
                 [valid |-> TRUE, generation |-> nextGeneration,
                  id |-> job.id, marker |-> FALSE, used |-> 0]]
          /\ nextGeneration' = nextGeneration + 1
          /\ pc' = "header"
          /\ UNCHANGED <<active, nextId, nextSequence, errors, pending, job,
                         target, failures, resets>>
       \/ /\ Fail
          /\ \E left \in FailedErase(flash[target]) :
                 flash' = [flash EXCEPT ![target] = left]
          /\ Unwritten(1)
          /\ UNCHANGED pages
    /\ UNCHANGED currentPage

WholeHeader(p) == [Erased EXCEPT !.header = "whole", !.id = pages[p].id,
                                 !.generation = pages[p].generation]

WriteHeader ==
    /\ pc = "header"
    /\ \/ /\ flash' = [flash EXCEPT ![target] = Torn]
          /\ pc' = "headerCommit"
          /\ UNCHANGED <<pages, active, nextId, nextGeneration, nextSequence,
                         errors, pending, job, target, failures, resets>>
       \/ /\ Fail
          /\ flash' \in {flash, [flash EXCEPT ![target] = Torn]}
          /\ pages' = [pages EXCEPT ![target] = Unclaimed]
          /\ Unwritten(1)
    /\ UNCHANGED currentPage

CommitHeader ==
    LET committed == [flash EXCEPT ![target] = WholeHeader(target)] IN
    /\ pc = "headerCommit"
    /\ \/ /\ flash' = committed
          /\ currentPage' = target
          /\ pc' = "record"
          /\ target' = NoPage
          /\ UNCHANGED <<pages, active, nextId, nextGeneration, nextSequence,
                         errors, pending, job, failures, resets>>
       \/ /\ Fail
          /\ flash' \in {flash, committed}
          /\ pages' = [pages EXCEPT ![target] = Unclaimed]
          /\ Unwritten(1)
          /\ UNCHANGED currentPage

(***************************************************************************)
(* append_assigned(): header and payload first, the commit word last.      *)
(***************************************************************************)
WriteRecord ==
    /\ pc = "record"
    /\ UNCHANGED pages
    /\ \/ /\ flash' = [flash EXCEPT ![currentPage].tail = "body"]
          /\ pc' = "recordCommit"
          /\ UNCHANGED <<currentPage, active, nextId, nextGeneration,
                         nextSequence, errors, pending, job, target, failures,
                         resets>>
       \/ /\ Fail
          /\ flash' \in {flash, [flash EXCEPT ![currentPage].tail = "torn"]}
          /\ currentPage' = NoPage
          /\ Unwritten(1)

CommitRecord ==
    LET committed == [flash EXCEPT ![currentPage].records = Append(@, job),
                                   ![currentPage].tail = "clean"] IN
    /\ pc = "recordCommit"
    /\ \/ /\ flash' = committed
          /\ pages' = [pages EXCEPT ![currentPage].used = @ + 1]
          /\ errors' = 0
          /\ pending' = NoKind
          /\ active' = IF job.kind = "END" THEN NoId ELSE active
          /\ currentPage' = IF job.kind = "END" THEN NoPage ELSE currentPage
          /\ pc' = "idle"
          /\ job' = NoJob
          /\ UNCHANGED <<nextId, nextGeneration, nextSequence, target,
                         failures, resets>>
       \/ /\ Fail
          /\ flash' \in {committed, [flash EXCEPT ![currentPage].tail = "torn"]}
          /\ currentPage' = NoPage
          /\ Unwritten(1)
          /\ UNCHANGED pages

(***************************************************************************)
(* A power cut, and what the constructor starts from.                      *)
(***************************************************************************)
Constructed ==
    /\ pages' = [p \in Pages |-> Unclaimed]
    /\ currentPage' = NoPage
    /\ active' = NoId
    /\ nextId' = 1
    /\ nextGeneration' = 1
    /\ nextSequence' = 0
    /\ errors' = 0
    /\ pending' = NoKind
    /\ pc' = "scan"
    /\ job' = NoJob
    /\ target' = NoPage

Reset ==
    /\ resets < MaxResets
    /\ resets' = resets + 1
    /\ Constructed
    /\ UNCHANGED <<flash, failures>>

Init ==
    /\ flash = [p \in Pages |-> Erased]
    /\ pages = [p \in Pages |-> Unclaimed]
    /\ currentPage = NoPage
    /\ active = NoId
    /\ nextId = 1
    /\ nextGeneration = 1
    /\ nextSequence = 0
    /\ errors = 0
    /\ pending = NoKind
    /\ pc = "scan"
    /\ job = NoJob
    /\ target = NoPage
    /\ failures = 0
    /\ resets = 0

FlashStep ==
    \/ Initialize \/ ScanFails \/ Recover
    \/ SelectPage \/ MarkVictim \/ EvictPage \/ ErasePage
    \/ WriteHeader \/ CommitHeader \/ WriteRecord \/ CommitRecord

Next ==
    \/ FlashStep
    \/ BeginSession
    \/ \E kind \in {"ORDINARY", "END"} : AppendRecord(kind)
    \/ Reset

\* HistoryTask finishes the operation it is in: every flash call returns.
Spec == Init /\ [][Next]_vars /\ WF_vars(FlashStep)

(***************************************************************************)
(* What a query returns: the records of a session, the oldest first; a     *)
(* session whose eviction is pending is not found.  samples() continues    *)
(* after the sequence it returned last.                                    *)
(***************************************************************************)
IsPendingEviction(id) == \E p \in Marked(pages) : pages[p].id = id

PageRecordsOf(p) == SubSeq(flash[p].records, 1, pages[p].used)

\* The sectors of session id that are shown, in the order of their generations.
OrderedPages(id) ==
    LET shown == {p \in Claimed(pages) : pages[p].id = id /\ ~IsPendingEviction(id)} IN
    CHOOSE s \in [1..Cardinality(shown) -> shown] :
        \A m, n \in DOMAIN s : m < n => pages[s[m]].generation < pages[s[n]].generation

SessionRecords(id) ==
    FlattenSeq([n \in DOMAIN OrderedPages(id) |-> PageRecordsOf(OrderedPages(id)[n])])

Samples(id, after) ==
    LET records == SessionRecords(id)
        later[n \in 0..Len(records)] ==
            IF n = 0 THEN <<>>
            ELSE IF records[n].sequence <= after THEN later[n - 1]
            ELSE Append(later[n - 1], records[n])
    IN  later[Len(records)]

(***************************************************************************)
(* Properties.                                                             *)
(***************************************************************************)
HistoryRecords == [kind : Kinds, id : 1..(MaxSessions + MaxFailures),
                   sequence : 0..(MaxSequence + MaxFailures + 1)]

Whole == {p \in Pages : flash[p].header = "whole"}
Tombstoned == {flash[p].id : p \in {q \in Whole : flash[q].marker}}
Visible == {p \in Whole : flash[p].id \notin Tombstoned}

\* What a boot at this moment would reconstruct.
Durable == UNION {ToSet(flash[p].records) : p \in Visible}

Archive == INSTANCE HistoryArchive WITH Records <- HistoryRecords,
                                        archive <- Durable

\* Whatever step power is lost at, the flash holds an archive the promise
\* allows: records are only added at the newest end, a session is evicted as
\* a whole and in order (completed ones first, oldest first), and only the
\* oldest sector of a session that owns them all is ever reused (D053, HR-004).
ImplementsArchive == Archive!Spec

\* What sessions() and samples() may return between two operations, they can
\* still return after a reset: every page RAM shows is on flash with the
\* records RAM counts, under the same identity, and without a tombstone.
QueriesAreDurable ==
    pc \in {"idle", "stopped"} =>
        \A p \in Claimed(pages) :
            ~IsPendingEviction(pages[p].id) =>
                /\ p \in Visible
                /\ flash[p].id = pages[p].id
                /\ flash[p].generation = pages[p].generation
                /\ pages[p].used <= Len(flash[p].records)

\* Flash is programmed only where it was erased: a header goes to an erased
\* sector, a record behind the last committed one, never over the tail a
\* failed write may have left (append_assigned() gives that page up).
NothingIsProgrammedTwice ==
    /\ pc = "header" => flash[target] = Erased
    /\ pc = "record" => /\ flash[currentPage].header = "whole"
                        /\ flash[currentPage].tail = "clean"
                        /\ Len(flash[currentPage].records)
                               = pages[currentPage].used
                        /\ pages[currentPage].used < PageRecords

\* Pages of samples() continue one another: whichever record a page ended with, the
\* next page begins with the one behind it, although records were written and sessions
\* evicted in between and sectors are reused in any order.
PagingLosesNothing ==
    pc = "idle" =>
        \A id \in {pages[p].id : p \in Claimed(pages)} :
            LET records == SessionRecords(id) IN
            \A n \in DOMAIN records :
                Samples(id, records[n].sequence) = SubSeq(records, n + 1, Len(records))

\* Startup, every append and every eviction come to an end, written or not,
\* however the flash fails: HistoryTask never loops on a pending eviction.
OperationsEnd == pc \notin {"idle", "stopped"} ~> pc \in {"idle", "stopped"}
=============================================================================
