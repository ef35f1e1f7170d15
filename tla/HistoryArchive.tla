--------------------------- MODULE HistoryArchive ---------------------------
(***************************************************************************)
(* What the session history promises its readers, without flash pages,     *)
(* tombstones or resets: a set of records that grows at its newest end and *)
(* loses either a whole old session or the oldest records of one session.  *)
(* CircularHistoryLog implements it: a power cut at any moment must leave   *)
(* one of these archives to the next boot.                                 *)
(***************************************************************************)
EXTENDS Integers, FiniteSets

CONSTANTS Records,       \* every record the instance can hold
          PageRecords    \* the most records one sector keeps

VARIABLE archive

Retained == {r.id : r \in archive}
Completed == {r.id : r \in {q \in archive : q.kind = "END"}}

Init == archive = {}

\* A record joins after everything retained: of the newest session, later in
\* it than its other records; a session opens with its START, and nothing but
\* a repeated END follows an END.
Add(r) ==
    /\ \A q \in archive : \/ q.id < r.id
                          \/ /\ q.id = r.id
                             /\ q.sequence < r.sequence
                             /\ q.kind = "END" => r.kind = "END"
    /\ r.kind = "START" <=> r.sequence = 0
    /\ archive' = archive \cup {r}

\* A session goes as a whole: the oldest completed one, or, when none but the
\* newest session is complete, the oldest of all.
Evict(s) ==
    /\ IF s \in Completed
       THEN \A t \in Completed : s <= t
       ELSE \A t \in Retained : t \in Completed => \A u \in Retained : u <= t
    /\ s \notin Completed => \A t \in Retained : s <= t
    /\ archive' = {r \in archive : r.id # s}

\* The only session loses some of its oldest records, at most a sector of them.
Truncate(s) ==
    /\ Retained = {s}
    /\ \E cut \in {r.sequence : r \in archive} :
           LET oldest == {r \in archive : r.sequence <= cut} IN
           /\ Cardinality(oldest) <= PageRecords
           /\ archive' # archive
           /\ archive' \subseteq archive
           /\ archive \ archive' \subseteq oldest

Next == \/ \E r \in Records : Add(r)
        \/ \E s \in Retained : Evict(s) \/ Truncate(s)

Spec == Init /\ [][Next]_archive
=============================================================================
