--------------------------- MODULE SnapshotExchange ---------------------------
(***************************************************************************)
(* The lock-free exchange that carries ControlTask's snapshots to the      *)
(* other tasks (smoker_app/src/snapshot_exchange.cpp).  Every load, store, *)
(* fetch_add and fetch_sub of an atomic is an action of its own; the copy  *)
(* into a slot takes two, for the fields written first (head) and last     *)
(* (tail), so that a torn snapshot can be told from a whole one.           *)
(*                                                                         *)
(* Atomics interleave sequentially consistently here.  publish() and       *)
(* acquire() each write one atomic and then read the other's, and the      *)
(* acquire/release orders of the code alone do not promise that; see the   *)
(* README.                                                                 *)
(***************************************************************************)
EXTENDS Integers, FiniteSets

CONSTANTS
    Readers,                    \* tasks that acquire leases, one lease each
    SlotCount,                  \* 3 in the code
    Contents,                   \* snapshots that ControlTask may publish
    None                        \* what a slot holds before its first copy

ASSUME ExchangeAssumption ==
    /\ IsFiniteSet(Readers)
    /\ SlotCount \in Nat
    /\ None \notin Contents

Slots == 0 .. SlotCount - 1

NoSlot == SlotCount

VARIABLES
    slots,                      \* the snapshot in each slot, part by part
    readerCounts,               \* readers_
    published,                  \* published_index_
    delivered,                  \* what the last call of publish() returned
    step,                       \* where the call of publish() is
    snapshot,                   \* the argument of that call
    index,                      \* slot the call looks at or copies into
    readerStep,                 \* where each reader's call of acquire() is
    readerIndex                 \* slot each reader loaded

writerVars == <<slots, published, delivered, step, snapshot, index>>
readerVars == <<readerCounts, readerStep, readerIndex>>
vars == <<writerVars, readerVars>>

----------------------------------------------------------------------------
(* publish(), called by ControlTask only.                                   *)

\* More probes, alarms or results than a slot has room for.
PublishTooMuch ==
    /\ step = "idle"
    /\ delivered' = FALSE
    /\ UNCHANGED <<slots, published, step, snapshot, index, readerVars>>

BeginPublish ==
    /\ step = "idle"
    /\ snapshot' \in Contents
    /\ step' = "scan"
    /\ index' = 0
    /\ UNCHANGED <<slots, published, delivered, readerVars>>

\* Only publish() stores published_index_: its own load cannot become stale.
IsFree(i) == i # published /\ readerCounts[i] = 0

ChooseSlot ==
    /\ step = "scan"
    /\ index \in Slots
    /\ IsFree(index)
    /\ step' = "head"
    /\ UNCHANGED <<slots, published, delivered, snapshot, index, readerVars>>

SkipSlot ==
    /\ step = "scan"
    /\ index \in Slots
    /\ ~IsFree(index)
    /\ index' = index + 1
    /\ UNCHANGED <<slots, published, delivered, step, snapshot, readerVars>>

\* Mutant of DropPublish: publish() waits for a lease to end.
WaitForSlot ==
    /\ step = "scan"
    /\ index = NoSlot
    /\ index' = 0
    /\ UNCHANGED <<slots, published, delivered, step, snapshot, readerVars>>

\* Every slot is published or counted: the snapshot is lost, ControlTask goes on.
DropPublish ==
    /\ step = "scan"
    /\ index = NoSlot
    /\ step' = "idle"
    /\ delivered' = FALSE
    /\ UNCHANGED <<slots, published, snapshot, index, readerVars>>

CopyHead ==
    /\ step = "head"
    /\ slots' = [slots EXCEPT ![index].head = snapshot]
    /\ step' = "tail"
    /\ UNCHANGED <<published, delivered, snapshot, index, readerVars>>

CopyTail ==
    /\ step = "tail"
    /\ slots' = [slots EXCEPT ![index].tail = snapshot]
    /\ step' = "store"
    /\ UNCHANGED <<published, delivered, snapshot, index, readerVars>>

StoreIndex ==
    /\ step = "store"
    /\ published' = index
    /\ delivered' = TRUE
    /\ step' = "idle"
    /\ UNCHANGED <<slots, snapshot, index, readerVars>>

Publisher ==
    \/ PublishTooMuch
    \/ BeginPublish
    \/ ChooseSlot
    \/ SkipSlot
    \/ DropPublish
    \/ CopyHead
    \/ CopyTail
    \/ StoreIndex

----------------------------------------------------------------------------
(* acquire() and the end of a lease, by any reader.                         *)

\* Nothing published yet: the call returns an empty lease at once.
LoadIndex(r) ==
    /\ readerStep[r] = "none"
    /\ published # NoSlot
    /\ readerIndex' = [readerIndex EXCEPT ![r] = published]
    /\ readerStep' = [readerStep EXCEPT ![r] = "loaded"]
    /\ UNCHANGED <<writerVars, readerCounts>>

CountIn(r) ==
    /\ readerStep[r] = "loaded"
    /\ readerCounts' = [readerCounts EXCEPT ![readerIndex[r]] = @ + 1]
    /\ readerStep' = [readerStep EXCEPT ![r] = "counted"]
    /\ UNCHANGED <<writerVars, readerIndex>>

\* Mutant of IsStillPublished: the first load is trusted.
TrustsFirstLoad(r) == TRUE

IsStillPublished(r) == published = readerIndex[r]

Confirm(r) ==
    /\ readerStep[r] = "counted"
    /\ readerStep' = [readerStep EXCEPT ![r] =
                         IF IsStillPublished(r) THEN "leased" ELSE "retry"]
    /\ UNCHANGED <<writerVars, readerCounts, readerIndex>>

CountOut(r) ==
    /\ readerCounts' = [readerCounts EXCEPT ![readerIndex[r]] = @ - 1]
    /\ readerStep' = [readerStep EXCEPT ![r] = "none"]
    /\ UNCHANGED <<writerVars, readerIndex>>

\* The loop of acquire() starts again.
Retry(r) == readerStep[r] = "retry" /\ CountOut(r)

\* The lease is destroyed or overwritten; moving it changes nothing here.
Release(r) == readerStep[r] = "leased" /\ CountOut(r)

Reader(r) == LoadIndex(r) \/ CountIn(r) \/ Confirm(r) \/ Retry(r) \/ Release(r)

----------------------------------------------------------------------------
(* The specification.                                                       *)

Init ==
    /\ slots = [i \in Slots |-> [head |-> None, tail |-> None]]
    /\ readerCounts = [i \in Slots |-> 0]
    /\ published = NoSlot
    /\ delivered = FALSE
    /\ step = "idle"
    /\ snapshot = None
    /\ index = NoSlot
    /\ readerStep = [r \in Readers |-> "none"]
    /\ readerIndex = [r \in Readers |-> NoSlot]

Next == Publisher \/ \E r \in Readers : Reader(r)

Spec == Init /\ [][Next]_vars

\* Only ControlTask is assumed to keep running: readers may hold a lease for good.
FairSpec == Spec /\ WF_vars(Publisher)

----------------------------------------------------------------------------
(* Properties.                                                              *)

\* Readers whose fetch_add on the slot has not been undone yet.
Counted(i) ==
    {r \in Readers : readerStep[r] \in {"counted", "leased", "retry"} /\ readerIndex[r] = i}

\* Every variable has its type.
TypeOK ==
    /\ slots \in [Slots -> [head : Contents \cup {None}, tail : Contents \cup {None}]]
    /\ readerCounts \in [Slots -> Nat]
    /\ published \in Slots \cup {NoSlot}
    /\ delivered \in BOOLEAN
    /\ step \in {"idle", "scan", "head", "tail", "store"}
    /\ snapshot \in Contents \cup {None}
    /\ index \in Slots \cup {NoSlot}
    /\ readerStep \in [Readers -> {"none", "loaded", "counted", "leased", "retry"}]
    /\ readerIndex \in [Readers -> Slots \cup {NoSlot}]

\* A count is exactly the number of readers inside acquire() or holding a lease:
\* neither a retry nor a release leaks one, or publish() would lose a slot for good.
CountsAreExact == \A i \in Slots : readerCounts[i] = Cardinality(Counted(i))

\* The slot publish() copies into is neither the published one nor leased, although
\* a reader may count itself in at any time after the scan.
WriterAvoidsLeases ==
    step \in {"head", "tail", "store"} =>
        /\ index # published
        /\ \A r \in Readers : ~(readerStep[r] = "leased" /\ readerIndex[r] = index)

\* publish() "never waits" (snapshot_exchange.hpp): it returns although readers hold
\* their leases for ever, or keep retrying.
PublishReturns == step # "idle" ~> step = "idle"

Whole(content) == [head |-> content, tail |-> content]

\* Readers see a register (SnapshotRegister): what they lease was current at one
\* instant of acquire(), is never torn, and does not change under the lease.
Register == INSTANCE SnapshotRegister WITH
    None      <- Whole(None),
    Snapshots <- {Whole(content) : content \in Contents},
    current   <- IF published = NoSlot THEN Whole(None) ELSE slots[published],
    leases    <- [r \in Readers |-> IF readerStep[r] = "leased"
                                    THEN slots[readerIndex[r]] ELSE Whole(None)]

ImplementsRegister == Register!Spec

=============================================================================
