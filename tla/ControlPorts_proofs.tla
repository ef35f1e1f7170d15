--------------------------- MODULE ControlPorts_proofs ---------------------------
(***************************************************************************)
(* The three components ControlTask exchanges data with, for any constants: *)
(* the snapshot exchange keeps exact counts, its writer keeps away from     *)
(* leased slots and its readers see a register; the history mailbox tells   *)
(* of each session in order; and every food-probe sample is its channel's.  *)
(***************************************************************************)
EXTENDS SnapshotExchange, HistoryObservations, FoodProbes,
        FiniteSetTheorems, TLAPS

----------------------------------------------------------------------------
(* The snapshot exchange.                                                   *)

Copying == step \in {"head", "tail", "store"}

\* Where the two kinds of calls can be.
Placed ==
    /\ Copying => index \in Slots
    /\ step # "idle" => snapshot \in Contents
    /\ \A r \in Readers : readerStep[r] # "none" => readerIndex[r] \in Slots

IsWhole(slot) == \E content \in Contents : slot = Whole(content)

\* What is published or leased is whole; the copy proceeds from head to tail.
Copied ==
    /\ published # NoSlot => IsWhole(slots[published])
    /\ \A r \in Readers : readerStep[r] = "leased" => IsWhole(slots[readerIndex[r]])
    /\ step = "tail" => slots[index].head = snapshot
    /\ step = "store" => slots[index] = Whole(snapshot)

ExchangeInv == TypeOK /\ Placed /\ CountsAreExact /\ WriterAvoidsLeases /\ Copied

----------------------------------------------------------------------------

\* The readers counted in a slot are a finite set.
LEMMA CountedIsFinite ==
    ASSUME NEW i \in Slots PROVE IsFiniteSet(Counted(i))
  <1>1. Counted(i) \subseteq Readers
    BY DEF Counted
  <1> QED BY <1>1, ExchangeAssumption, FS_Subset

\* A free slot has no reader in it.
LEMMA FreeSlotHasNoReader ==
    ASSUME ExchangeInv, NEW i \in Slots, IsFree(i) PROVE Counted(i) = {}
  <1>1. Cardinality(Counted(i)) = 0
    BY DEF ExchangeInv, CountsAreExact, IsFree
  <1> QED BY <1>1, CountedIsFinite, FS_EmptySet

\* fetch_add adds the reader to the readers of its slot and to no other.
LEMMA CountInIsExact ==
    ASSUME ExchangeInv, NEW r \in Readers, CountIn(r) PROVE CountsAreExact'
  <1> SUFFICES ASSUME NEW i \in Slots
               PROVE  readerCounts'[i] = Cardinality(Counted(i)')
    BY DEF CountsAreExact
  <1>0. /\ readerIndex[r] \in Slots
        /\ readerIndex' = readerIndex
        /\ readerCounts \in [Slots -> Nat]
        /\ readerCounts[i] = Cardinality(Counted(i))
        /\ readerStep \in [Readers -> {"none", "loaded", "counted", "leased", "retry"}]
    BY DEF ExchangeInv, Placed, CountIn, TypeOK, CountsAreExact
  <1>1. CASE i = readerIndex[r]
    <2>1. Counted(i)' = Counted(i) \cup {r}
      BY <1>0, <1>1 DEF Counted, CountIn
    <2>2. r \notin Counted(i)
      BY DEF Counted, CountIn
    <2>3. Cardinality(Counted(i) \cup {r}) = Cardinality(Counted(i)) + 1
      BY <2>2, CountedIsFinite, FS_AddElement
    <2>4. readerCounts'[i] = readerCounts[i] + 1
      BY <1>0, <1>1 DEF CountIn
    <2> QED BY <1>0, <2>1, <2>3, <2>4
  <1>2. CASE i # readerIndex[r]
    <2>1. Counted(i)' = Counted(i)
      BY <1>0, <1>2 DEF Counted, CountIn
    <2>2. readerCounts'[i] = readerCounts[i]
      BY <1>0, <1>2 DEF CountIn
    <2> QED BY <1>0, <2>1, <2>2
  <1> QED BY <1>1, <1>2

\* fetch_sub takes the reader away again; its count was at least one.
LEMMA CountOutIsExact ==
    ASSUME ExchangeInv, NEW r \in Readers, readerStep[r] \in {"leased", "retry"}, CountOut(r)
    PROVE  CountsAreExact' /\ readerCounts' \in [Slots -> Nat]
  <1>0. /\ readerIndex[r] \in Slots
        /\ readerIndex' = readerIndex
        /\ readerCounts \in [Slots -> Nat]
        /\ \A i \in Slots : readerCounts[i] = Cardinality(Counted(i))
        /\ readerStep \in [Readers -> {"none", "loaded", "counted", "leased", "retry"}]
    BY DEF ExchangeInv, Placed, CountOut, TypeOK, CountsAreExact
  <1> DEFINE slot == readerIndex[r]
  <1>1. r \in Counted(slot)
    BY DEF Counted
  <1>2. /\ Counted(slot)' = Counted(slot) \ {r}
        /\ \A i \in Slots : i # slot => Counted(i)' = Counted(i)
    BY <1>0 DEF Counted, CountOut
  <1>3. /\ IsFiniteSet(Counted(slot) \ {r})
        /\ Cardinality(Counted(slot) \ {r}) = Cardinality(Counted(slot)) - 1
    BY <1>0, <1>1, CountedIsFinite, FS_RemoveElement
  <1>4. Cardinality(Counted(slot) \ {r}) \in Nat
    BY <1>3, FS_CardinalityType
  <1>5. readerCounts' = [readerCounts EXCEPT ![slot] = @ - 1]
    BY DEF CountOut
  <1>6. \A i \in Slots : /\ readerCounts'[i] = Cardinality(Counted(i)')
                         /\ readerCounts'[i] \in Nat
    <2> TAKE i \in Slots
    <2>1. CASE i = slot
      BY <1>0, <1>2, <1>3, <1>4, <1>5, <2>1
    <2>2. CASE i # slot
      BY <1>0, <1>2, <1>5, <2>2
    <2> QED BY <2>1, <2>2
  <1> QED BY <1>0, <1>5, <1>6 DEF CountsAreExact

\* Steps of publish() move no reader.
LEMMA PublisherLeavesCounts ==
    ASSUME ExchangeInv, UNCHANGED readerVars PROVE CountsAreExact'
  BY DEF ExchangeInv, CountsAreExact, Counted, readerVars

----------------------------------------------------------------------------

\* A constructed exchange has no reader and nothing published.
LEMMA InitExchange == Init => ExchangeInv
  <1> SUFFICES ASSUME Init PROVE ExchangeInv
    OBVIOUS
  <1>1. TypeOK
    BY ExchangeAssumption DEF Init, TypeOK, Slots, NoSlot
  <1>2. CountsAreExact
    <2> SUFFICES ASSUME NEW i \in Slots PROVE readerCounts[i] = Cardinality(Counted(i))
      BY DEF CountsAreExact
    <2>1. Counted(i) = {}
      BY DEF Init, Counted
    <2> QED BY <2>1, FS_EmptySet DEF Init
  <1> QED BY <1>1, <1>2 DEF Init, ExchangeInv, Placed, Copying, Copied, WriterAvoidsLeases

\* publish() preserves the invariant: it copies only into a slot without readers.
LEMMA PublisherStep == ExchangeInv /\ Publisher => ExchangeInv'
  <1> SUFFICES ASSUME ExchangeInv, Publisher PROVE ExchangeInv'
    OBVIOUS
  <1> USE DEF ExchangeInv
  <1>1. /\ UNCHANGED readerVars
        /\ CountsAreExact'
    BY PublisherLeavesCounts DEF Publisher, PublishTooMuch, BeginPublish, ChooseSlot,
       SkipSlot, DropPublish, CopyHead, CopyTail, StoreIndex
  <1>2. CASE PublishTooMuch \/ BeginPublish \/ SkipSlot \/ DropPublish
    <2>1. index' \in Slots \cup {NoSlot}
      <3>1. CASE SkipSlot
        BY <3>1, ExchangeAssumption DEF SkipSlot, Slots, NoSlot
      <3>2. CASE BeginPublish
        BY <3>2, ExchangeAssumption DEF BeginPublish, Slots, NoSlot
      <3>3. CASE PublishTooMuch \/ DropPublish
        BY <3>3 DEF PublishTooMuch, DropPublish, TypeOK
      <3> QED BY <1>2, <3>1, <3>2, <3>3
    <2>3. TypeOK'
      BY <1>1, <1>2, <2>1 DEF PublishTooMuch, BeginPublish, SkipSlot, DropPublish, TypeOK,
         readerVars
    <2>2. Placed' /\ WriterAvoidsLeases' /\ Copied'
      BY <1>1, <1>2 DEF PublishTooMuch, BeginPublish, SkipSlot, DropPublish, Placed, Copying,
         WriterAvoidsLeases, Copied, readerVars
    <2> QED BY <1>1, <2>2, <2>3
  <1>3. CASE ChooseSlot
    <2>1. Counted(index) = {}
      BY <1>3, FreeSlotHasNoReader DEF ChooseSlot
    <2>2. \A r \in Readers : ~(readerStep[r] = "leased" /\ readerIndex[r] = index)
      BY <2>1 DEF Counted
    <2>3. TypeOK'
      BY <1>1, <1>3 DEF ChooseSlot, TypeOK, readerVars
    <2>4. Placed' /\ WriterAvoidsLeases' /\ Copied'
      BY <1>1, <1>3, <2>2 DEF ChooseSlot, IsFree, Placed, Copying, WriterAvoidsLeases, Copied,
         readerVars
    <2> QED BY <1>1, <2>3, <2>4
  <1>4. CASE CopyHead \/ CopyTail
    <2>1. /\ index \in Slots /\ index # published /\ index' = index
          /\ snapshot \in Contents /\ snapshot' = snapshot
          /\ published' = published
          /\ \A r \in Readers : ~(readerStep[r] = "leased" /\ readerIndex[r] = index)
      BY <1>4 DEF CopyHead, CopyTail, Placed, Copying, WriterAvoidsLeases
    <2>2. TypeOK'
      BY <1>1, <1>4, <2>1 DEF CopyHead, CopyTail, TypeOK, readerVars
    <2>3. \A i \in Slots : i # index => slots'[i] = slots[i]
      BY <1>4 DEF CopyHead, CopyTail, TypeOK
    <2>4. Placed' /\ WriterAvoidsLeases'
      BY <1>1, <1>4, <2>1 DEF CopyHead, CopyTail, Placed, Copying, WriterAvoidsLeases,
         readerVars
    <2>5. CASE CopyHead
      <3>1. slots'[index].head = snapshot
        BY <2>1, <2>5 DEF CopyHead, TypeOK
      <3> QED
        BY <1>1, <2>1, <2>2, <2>3, <2>4, <2>5, <3>1 DEF CopyHead, Copied, Placed, TypeOK,
           readerVars
    <2>6. CASE CopyTail
      <3>1. slots'[index] = Whole(snapshot)
        BY <2>1, <2>6 DEF CopyTail, TypeOK, Copied, Whole
      <3> QED
        BY <1>1, <2>1, <2>2, <2>3, <2>4, <2>6, <3>1 DEF CopyTail, Copied, Placed, TypeOK,
           readerVars
    <2> QED BY <1>4, <2>5, <2>6
  <1>5. CASE StoreIndex
    <2>1. index \in Slots /\ snapshot \in Contents /\ slots[index] = Whole(snapshot)
      BY <1>5 DEF StoreIndex, Placed, Copying, Copied
    <2>2. TypeOK' /\ Placed' /\ WriterAvoidsLeases' /\ Copied'
      BY <1>1, <1>5, <2>1 DEF StoreIndex, TypeOK, Placed, Copying, WriterAvoidsLeases,
         Copied, IsWhole, readerVars
    <2> QED BY <1>1, <2>2
  <1> QED BY <1>2, <1>3, <1>4, <1>5 DEF Publisher

\* acquire() and release() preserve it: a lease is confirmed only on the published slot.
LEMMA ReaderKeepsExchange ==
    ASSUME ExchangeInv, NEW r \in Readers, Reader(r) PROVE ExchangeInv'
  <1> USE DEF ExchangeInv
  <1>0. UNCHANGED writerVars
    BY DEF Reader, LoadIndex, CountIn, Confirm, Retry, Release, CountOut
  <1>1. CASE LoadIndex(r)
    <2>1. \A i \in Slots : Counted(i)' = Counted(i)
      BY <1>1 DEF LoadIndex, Counted, TypeOK
    <2>2. CountsAreExact'
      BY <1>1, <2>1 DEF LoadIndex, CountsAreExact
    <2>3. TypeOK' /\ Placed' /\ WriterAvoidsLeases' /\ Copied'
      BY <1>0, <1>1 DEF LoadIndex, TypeOK, Placed, Copying, WriterAvoidsLeases, Copied,
         writerVars
    <2> QED BY <2>2, <2>3
  <1>2. CASE CountIn(r)
    <2>1. CountsAreExact'
      BY <1>2, CountInIsExact
    <2>2. readerCounts' \in [Slots -> Nat]
      BY <1>2 DEF CountIn, TypeOK, Placed
    <2>3. TypeOK' /\ Placed' /\ WriterAvoidsLeases' /\ Copied'
      BY <1>0, <1>2, <2>2 DEF CountIn, TypeOK, Placed, Copying, WriterAvoidsLeases, Copied,
         writerVars
    <2> QED BY <2>1, <2>3
  <1>3. CASE Confirm(r)
    <2>1. \A i \in Slots : Counted(i)' = Counted(i)
      BY <1>3 DEF Confirm, Counted, TypeOK
    <2>2. CountsAreExact'
      BY <1>3, <2>1 DEF Confirm, CountsAreExact
    <2>3. TypeOK' /\ Placed'
      BY <1>0, <1>3 DEF Confirm, TypeOK, Placed, Copying, writerVars
    <2>4. readerStep'[r] = "leased" => readerIndex[r] = published /\ published # NoSlot
      BY <1>3, ExchangeAssumption DEF Confirm, IsStillPublished, TypeOK, Placed, Slots, NoSlot
    <2>5. WriterAvoidsLeases' /\ Copied'
      BY <1>0, <1>3, <2>4 DEF Confirm, TypeOK, WriterAvoidsLeases, Copied, writerVars
    <2> QED BY <2>2, <2>3, <2>5
  <1>4. CASE Retry(r) \/ Release(r)
    <2>1. readerStep[r] \in {"leased", "retry"} /\ CountOut(r)
      BY <1>4 DEF Retry, Release
    <2>2. CountsAreExact' /\ readerCounts' \in [Slots -> Nat]
      BY <2>1, CountOutIsExact
    <2>3. TypeOK' /\ Placed' /\ WriterAvoidsLeases' /\ Copied'
      BY <1>0, <2>1, <2>2 DEF CountOut, TypeOK, Placed, Copying, WriterAvoidsLeases, Copied,
         writerVars
    <2> QED BY <2>2, <2>3
  <1> QED BY <1>1, <1>2, <1>3, <1>4 DEF Reader

\* The invariant is inductive.
LEMMA ExchangeStep == ExchangeInv /\ [Next]_vars => ExchangeInv'
  <1> SUFFICES ASSUME ExchangeInv, [Next]_vars PROVE ExchangeInv'
    OBVIOUS
  <1>1. CASE Publisher
    BY <1>1, PublisherStep
  <1>2. CASE \E r \in Readers : Reader(r)
    BY <1>2, ReaderKeepsExchange
  <1>3. CASE UNCHANGED vars
    <2>1. UNCHANGED readerVars /\ CountsAreExact'
      BY <1>3, PublisherLeavesCounts DEF vars
    <2> QED
      BY <1>3, <2>1 DEF ExchangeInv, vars, writerVars, readerVars, TypeOK, Placed, Copying,
         WriterAvoidsLeases, Copied
  <1> QED BY <1>1, <1>2, <1>3 DEF Next

\* Every variable of the exchange keeps its type; in particular no count underflows.
THEOREM ExchangeTypeCorrect == Spec => []TypeOK
  <1>1. ExchangeInv => TypeOK
    BY DEF ExchangeInv
  <1> QED BY <1>1, InitExchange, ExchangeStep, PTL DEF Spec

\* readers_ counts exactly the calls and leases that are open.
THEOREM CountsExact == Spec => []CountsAreExact
  <1>1. ExchangeInv => CountsAreExact
    BY DEF ExchangeInv
  <1> QED BY <1>1, InitExchange, ExchangeStep, PTL DEF Spec

\* publish() never writes into the published slot or into a leased one.
THEOREM WriterSafe == Spec => []WriterAvoidsLeases
  <1>1. ExchangeInv => WriterAvoidsLeases
    BY DEF ExchangeInv
  <1> QED BY <1>1, InitExchange, ExchangeStep, PTL DEF Spec

----------------------------------------------------------------------------
(* The register.                                                            *)

Current == IF published = NoSlot THEN Whole(None) ELSE slots[published]

Leases == [r \in Readers |-> IF readerStep[r] = "leased"
                             THEN slots[readerIndex[r]] ELSE Whole(None)]

\* Nothing that was published is mistaken for the empty lease.
LEMMA WholeIsNotNone ==
    ASSUME NEW slot, IsWhole(slot) PROVE slot # Whole(None)
  BY ExchangeAssumption DEF IsWhole, Whole

\* publish() overwrites the register at its last step and is invisible before it.
LEMMA PublisherRefines ==
    ExchangeInv /\ Publisher => Register!Publish \/ UNCHANGED <<Current, Leases>>
  <1> SUFFICES ASSUME ExchangeInv, Publisher
               PROVE  Register!Publish \/ UNCHANGED <<Current, Leases>>
    OBVIOUS
  <1> USE DEF ExchangeInv
  <1>1. CASE PublishTooMuch \/ BeginPublish \/ ChooseSlot \/ SkipSlot \/ DropPublish
    BY <1>1 DEF PublishTooMuch, BeginPublish, ChooseSlot, SkipSlot, DropPublish, readerVars,
       Current, Leases
  <1>2. CASE CopyHead \/ CopyTail
    <2>1. /\ UNCHANGED <<published, readerVars>>
          /\ \A i \in Slots : i # index => slots'[i] = slots[i]
      BY <1>2 DEF CopyHead, CopyTail, TypeOK
    <2>2. /\ index # published
          /\ \A r \in Readers : readerStep[r] = "leased" =>
               readerIndex[r] \in Slots /\ readerIndex[r] # index
      BY <1>2 DEF CopyHead, CopyTail, WriterAvoidsLeases, Placed
    <2>3. Current' = Current
      BY <2>1, <2>2 DEF Current, TypeOK
    <2>4. Leases' = Leases
      BY <2>1, <2>2 DEF Leases, readerVars
    <2> QED BY <2>3, <2>4
  <1>3. CASE StoreIndex
    <2>1. /\ UNCHANGED <<slots, readerVars>>
          /\ published' = index
          /\ index # NoSlot
          /\ slots[index] \in {Whole(content) : content \in Contents}
      BY <1>3, ExchangeAssumption DEF StoreIndex, Placed, Copying, Copied, Slots, NoSlot
    <2>2. Register!Publish
      BY <2>1 DEF Register!Publish, readerVars
    <2> QED BY <2>2
  <1> QED BY <1>1, <1>2, <1>3 DEF Publisher

\* A reader acquires at its second load of the index and releases with its count.
LEMMA ReaderRefines ==
    ASSUME ExchangeInv, NEW r \in Readers, Reader(r)
    PROVE  Register!Acquire(r) \/ Register!Release(r) \/ UNCHANGED <<Current, Leases>>
  <1> USE DEF ExchangeInv
  <1>0. Current' = Current /\ slots' = slots /\ published' = published
    BY DEF Reader, LoadIndex, CountIn, Confirm, Retry, Release, CountOut, writerVars, Current
  <1>1. readerStep \in [Readers -> {"none", "loaded", "counted", "leased", "retry"}]
    BY DEF TypeOK
  <1>2. CASE LoadIndex(r) \/ CountIn(r) \/ Retry(r)
    <2>1. Leases' = Leases
      BY <1>0, <1>1, <1>2 DEF LoadIndex, CountIn, Retry, CountOut, Leases, TypeOK
    <2> QED BY <1>0, <2>1
  <1>3. CASE Confirm(r)
    <2>1. CASE ~IsStillPublished(r)
      <3>1. Leases' = Leases
        BY <1>0, <1>1, <1>3, <2>1 DEF Confirm, Leases
      <3> QED BY <1>0, <3>1
    <2>2. CASE IsStillPublished(r)
      <3>1. published # NoSlot /\ published = readerIndex[r]
        BY <1>3, <2>2, ExchangeAssumption
           DEF Confirm, IsStillPublished, Placed, Slots, NoSlot
      <3>2. /\ Leases[r] = Whole(None)
            /\ Current = slots[readerIndex[r]]
            /\ Current # Whole(None)
        BY <1>3, <3>1, WholeIsNotNone DEF Confirm, Leases, Current, Copied
      <3>3. Leases' = [Leases EXCEPT ![r] = Current]
        BY <1>0, <1>1, <1>3, <2>2, <3>2 DEF Confirm, Leases
      <3> QED BY <1>0, <3>2, <3>3 DEF Register!Acquire, Leases, Current
    <2> QED BY <2>1, <2>2
  <1>4. CASE Release(r)
    <2>1. Leases[r] # Whole(None)
      BY <1>4, WholeIsNotNone DEF Release, Leases, Copied
    <2>2. Leases' = [Leases EXCEPT ![r] = Whole(None)]
      BY <1>0, <1>1, <1>4 DEF Release, CountOut, Leases
    <2> QED BY <1>0, <2>1, <2>2 DEF Register!Release, Leases, Current
  <1> QED BY <1>2, <1>3, <1>4 DEF Reader

\* Readers of the exchange see an atomic register with leases.
THEOREM ExchangeRefinement == Spec => ImplementsRegister
  <1>1. Init => Register!Init
    BY DEF Init, Register!Init, NoSlot
  <1>2. ExchangeInv /\ [Next]_vars => [Register!Next]_<<Current, Leases>>
    <2> SUFFICES ASSUME ExchangeInv, [Next]_vars
                 PROVE  Register!Next \/ UNCHANGED <<Current, Leases>>
      OBVIOUS
    <2>1. CASE Publisher
      BY <2>1, PublisherRefines DEF Register!Next
    <2>2. CASE \E r \in Readers : Reader(r)
      BY <2>2, ReaderRefines DEF Register!Next
    <2>3. CASE UNCHANGED vars
      BY <2>3 DEF vars, writerVars, readerVars, Current, Leases
    <2> QED BY <2>1, <2>2, <2>3 DEF Next
  <1>3. Current = (IF published = NoSlot THEN Whole(None) ELSE slots[published])
    BY DEF Current
  <1> QED
    BY <1>1, <1>2, InitExchange, ExchangeStep, PTL
       DEF Spec, ImplementsRegister, Register!Spec, Current, Leases

----------------------------------------------------------------------------
(* publish() is wait-free.                                                   *)

\* How many statements of a call of publish() there are at most.
PublishStepsLeft ==
    CASE step = "idle"  -> 0
      [] step = "store" -> 1
      [] step = "tail"  -> 2
      [] step = "head"  -> 3
      [] step = "scan"  -> 4 + (NoSlot - index)

\* Each statement of publish() brings its end nearer, and no reader puts it off.
PublishIsWaitFree ==
    /\ [](PublishStepsLeft \in 0 .. SlotCount + 4)
    /\ [][IF Publisher
          THEN step # "idle" => PublishStepsLeft' < PublishStepsLeft
          ELSE PublishStepsLeft' = PublishStepsLeft]_vars

\* publish() "never waits" (snapshot_exchange.hpp): it returns after at most four statements
\* more than there are slots, whatever leases the readers hold and however often they retry.
THEOREM PublishNeverWaits == Spec => PublishIsWaitFree
  <1>1. TypeOK => PublishStepsLeft \in 0 .. SlotCount + 4
    <2> SUFFICES ASSUME TypeOK PROVE PublishStepsLeft \in 0 .. SlotCount + 4
      OBVIOUS
    <2>1. SlotCount \in Nat /\ NoSlot - index \in 0 .. SlotCount
      BY ExchangeAssumption DEF TypeOK, Slots, NoSlot
    <2> QED
      BY <2>1 DEF TypeOK, PublishStepsLeft
  <1>2. TypeOK /\ Next => IF Publisher
                          THEN step # "idle" => PublishStepsLeft' < PublishStepsLeft
                          ELSE PublishStepsLeft' = PublishStepsLeft
    <2> SUFFICES ASSUME TypeOK, Next
                 PROVE  IF Publisher
                        THEN step # "idle" => PublishStepsLeft' < PublishStepsLeft
                        ELSE PublishStepsLeft' = PublishStepsLeft
      OBVIOUS
    <2>1. SlotCount \in Nat /\ index \in 0 .. SlotCount /\ NoSlot = SlotCount
      BY ExchangeAssumption DEF TypeOK, Slots, NoSlot
    <2>2. ASSUME NEW r \in Readers, Reader(r) PROVE PublishStepsLeft' = PublishStepsLeft
      <3>1. UNCHANGED <<step, index>>
        BY <2>2 DEF Reader, LoadIndex, CountIn, Confirm, Retry, Release, CountOut, writerVars
      <3> QED
        BY <3>1 DEF PublishStepsLeft
    <2>3. ASSUME Publisher, step # "idle" PROVE PublishStepsLeft' < PublishStepsLeft
      <3>1. CASE SkipSlot
        <4>1. /\ step = "scan" /\ step' = "scan" /\ index' = index + 1
          BY <3>1 DEF SkipSlot
        <4>2. PublishStepsLeft = 4 + (NoSlot - index) /\ PublishStepsLeft' = 4 + (NoSlot - (index + 1))
          BY <4>1 DEF PublishStepsLeft
        <4> QED
          BY <2>1, <4>2
      <3>2. CASE ChooseSlot \/ DropPublish
        <4>1. step = "scan" /\ step' \in {"head", "idle"}
          BY <3>2 DEF ChooseSlot, DropPublish
        <4>2. PublishStepsLeft = 4 + (NoSlot - index) /\ PublishStepsLeft' \in {0, 3}
          BY <4>1 DEF PublishStepsLeft
        <4> QED
          BY <2>1, <4>2
      <3>3. CASE CopyHead \/ CopyTail \/ StoreIndex
        BY <3>3 DEF CopyHead, CopyTail, StoreIndex, PublishStepsLeft
      <3> QED
        BY <2>3, <3>1, <3>2, <3>3 DEF Publisher, PublishTooMuch, BeginPublish
    <2> QED
      BY <2>2, <2>3 DEF Next
  <1> QED
    BY <1>1, <1>2, ExchangeTypeCorrect, PTL DEF Spec, PublishIsWaitFree

----------------------------------------------------------------------------
(* The history mailbox: each session in order.                              *)

Statuses == {"Idle", "Running", "Stopped", "Fault"}

Entries == [kind : Lifecycle \cup {"CHANGE", "SAMPLE"}, session : Nat]

ObservationTypeOK ==
    /\ current \in [status : Statuses, session : Nat]
    /\ previous \in [status : Statuses, session : Nat]
    /\ initialized \in BOOLEAN
    /\ pushes \in {<<>>, <<"START">>, <<"END">>, <<"START", "END">>} \cup Ordinary
    /\ mailbox \in Seq(Entries)
    /\ recorded \in Seq(Entries)

\* SessionsAreInOrder, of any sequence of entries.
InOrder(s) ==
    \A j \in DOMAIN s :
        /\ \E i \in 1 .. j : s[i] = [kind |-> "START", session |-> s[j].session]
        /\ \A i \in 1 .. j - 1 :
              /\ s[i].session <= s[j].session
              /\ s[i].session = s[j].session => s[i].kind # "END" /\ s[j].kind # "START"

\* What a stream tells of a session: nothing, or that it has begun and not ended.
Untold(s, session) == \A i \in DOMAIN s : s[i].session < session

Open(s, session) ==
    /\ \E i \in DOMAIN s : s[i] = [kind |-> "START", session |-> session]
    /\ \A i \in DOMAIN s : s[i] # [kind |-> "END", session |-> session]

SessionsAreKnown(s, session) == \A i \in DOMAIN s : s[i].session <= session

\* The session of the snapshot is not the one that was remembered.
IsFresh == ~initialized \/ previous.session # current.session

\* What has been told of the session, by what was remembered and what is yet to push.
Told(s) ==
    /\ previous.session <= current.session
    /\ SessionsAreKnown(s, current.session)
    /\ pushes = <<>> =>
          /\ IsFresh => Untold(s, current.session)
          /\ ~IsFresh => IF IsRunning(previous) THEN Open(s, current.session)
                                                ELSE ~IsRunning(current)
    /\ pushes # <<>> /\ Head(pushes) = "START" =>
          IsFresh /\ Untold(s, current.session)
    /\ pushes = <<"START">> => IsRunning(current)
    /\ pushes = <<"START", "END">> => ~IsRunning(current) /\ HasCapacity(PairRoom)
    /\ pushes = <<"END">> =>
          /\ ~IsRunning(current) /\ Open(s, current.session)
          /\ HasCapacity(1) \/ (~IsFresh /\ IsRunning(previous))
    /\ pushes \in Ordinary \ {<<>>} =>
          /\ IsRunning(current) /\ Open(s, current.session)
          /\ ~IsFresh /\ IsRunning(previous)

\* One more entry at the end keeps the order if the session has not been told of, or
\* has begun and not ended.
LEMMA OrderOfPush ==
    ASSUME NEW s \in Seq(Entries), NEW t \in Seq(Entries), NEW e \in Entries,
           Len(t) = Len(s) + 1, \A i \in 1 .. Len(s) : t[i] = s[i], t[Len(t)] = e,
           InOrder(s), SessionsAreKnown(s, e.session),
           IF e.kind = "START" THEN Untold(s, e.session) ELSE Open(s, e.session)
    PROVE  InOrder(t)
  <1>1. Len(s) \in Nat /\ DOMAIN s = 1 .. Len(s) /\ DOMAIN t = 1 .. Len(s) + 1
    OBVIOUS
  <1>2. ASSUME NEW j \in 1 .. Len(s)
        PROVE  /\ \E i \in 1 .. j : t[i] = [kind |-> "START", session |-> t[j].session]
               /\ \A i \in 1 .. j - 1 :
                     /\ t[i].session <= t[j].session
                     /\ t[i].session = t[j].session => t[i].kind # "END" /\ t[j].kind # "START"
    <2>1. \A i \in 1 .. j : i \in 1 .. Len(s) /\ t[i] = s[i]
      BY <1>1
    <2>2. /\ \E i \in 1 .. j : s[i] = [kind |-> "START", session |-> s[j].session]
          /\ \A i \in 1 .. j - 1 :
                /\ s[i].session <= s[j].session
                /\ s[i].session = s[j].session => s[i].kind # "END" /\ s[j].kind # "START"
      BY <1>1 DEF InOrder
    <2>3. j \in 1 .. j /\ \A i \in 1 .. j - 1 : i \in 1 .. j
      BY <1>1
    <2> QED
      BY <2>1, <2>2, <2>3
  <1>3. /\ \E i \in 1 .. Len(t) : t[i] = [kind |-> "START", session |-> e.session]
        /\ \A i \in 1 .. Len(t) - 1 :
              /\ t[i].session <= e.session
              /\ t[i].session = e.session => t[i].kind # "END" /\ e.kind # "START"
    <2>1. \A i \in 1 .. Len(t) - 1 : i \in 1 .. Len(s) /\ t[i] = s[i] /\ s[i] \in Entries
      BY <1>1
    <2>2. \A i \in 1 .. Len(t) - 1 : t[i].session <= e.session
      BY <1>1, <2>1 DEF SessionsAreKnown
    <2>3. CASE e.kind = "START"
      <3>1. e = [kind |-> "START", session |-> e.session] /\ e.session \in Nat
        BY <2>3 DEF Entries
      <3>2. ASSUME NEW i \in 1 .. Len(t) - 1 PROVE t[i].session # e.session
        <4>1. Untold(s, e.session)
          BY <2>3
        <4>2. i \in DOMAIN s /\ t[i] = s[i] /\ s[i].session \in Nat
          BY <1>1, <2>1 DEF Entries
        <4>3. s[i].session < e.session
          BY <4>1, <4>2 DEF Untold
        <4> QED
          BY <3>1, <4>2, <4>3
      <3>3. Len(t) \in 1 .. Len(t)
        BY <1>1
      <3> QED
        BY <2>2, <3>1, <3>2, <3>3
    <2>4. CASE e.kind # "START"
      <3>1. Open(s, e.session)
        BY <2>4
      <3>2. \E i \in 1 .. Len(t) : t[i] = [kind |-> "START", session |-> e.session]
        BY <1>1, <3>1 DEF Open
      <3>3. ASSUME NEW i \in 1 .. Len(t) - 1, t[i].session = e.session PROVE t[i].kind # "END"
        <4>1. t[i] = s[i] /\ s[i] \in Entries /\ s[i] # [kind |-> "END", session |-> e.session]
          BY <1>1, <2>1, <3>1 DEF Open
        <4> QED
          BY <3>3, <4>1 DEF Entries
      <3> QED
        BY <2>2, <2>4, <3>2, <3>3
    <2> QED
      BY <2>3, <2>4
  <1>4. \A j \in DOMAIN t : j \in 1 .. Len(s) \/ j = Len(t)
    BY <1>1
  <1> QED
    BY <1>2, <1>3, <1>4 DEF InOrder

\* An ordinary entry may go.
LEMMA OrderOfLoss ==
    ASSUME NEW s \in Seq(Entries), NEW t \in Seq(Entries), NEW k \in 1 .. Len(s),
           Len(t) = Len(s) - 1, s[k].kind \notin Lifecycle,
           \A i \in 1 .. Len(t) : t[i] = IF i < k THEN s[i] ELSE s[i + 1],
           InOrder(s)
    PROVE  InOrder(t)
  <1> DEFINE old(i) == IF i < k THEN i ELSE i + 1
  <1>1. /\ Len(s) \in Nat /\ DOMAIN s = 1 .. Len(s) /\ DOMAIN t = 1 .. Len(t)
        /\ \A i \in 1 .. Len(t) : old(i) \in 1 .. Len(s) /\ t[i] = s[old(i)]
    OBVIOUS
  <1>2. ASSUME NEW j \in 1 .. Len(t)
        PROVE  /\ \E i \in 1 .. j : t[i] = [kind |-> "START", session |-> t[j].session]
               /\ \A i \in 1 .. j - 1 :
                     /\ t[i].session <= t[j].session
                     /\ t[i].session = t[j].session => t[i].kind # "END" /\ t[j].kind # "START"
    <2>1. PICK i \in 1 .. old(j) : s[i] = [kind |-> "START", session |-> s[old(j)].session]
      BY <1>1 DEF InOrder
    <2>2. i # k
      BY <2>1 DEF Lifecycle
    <2> DEFINE m == IF i < k THEN i ELSE i - 1
    <2>3. m \in 1 .. j /\ old(m) = i
      BY <1>1, <2>2
    <2>4. m \in 1 .. Len(t)
      BY <1>1, <2>3
    <2>5. t[m] = s[i] /\ t[j] = s[old(j)]
      BY <1>1, <2>3, <2>4
    <2>6. \E n \in 1 .. j : t[n] = [kind |-> "START", session |-> t[j].session]
      BY <2>1, <2>3, <2>5
    <2>7. ASSUME NEW n \in 1 .. j - 1
          PROVE  /\ t[n].session <= t[j].session
                 /\ t[n].session = t[j].session => t[n].kind # "END" /\ t[j].kind # "START"
      <3>1. n \in 1 .. Len(t) /\ old(n) \in 1 .. old(j) - 1
        BY <1>1
      <3>2. t[n] = s[old(n)]
        BY <1>1, <3>1
      <3> HIDE DEF old
      <3> QED
        BY <1>1, <2>5, <3>1, <3>2 DEF InOrder
    <2> QED
      BY <2>6, <2>7
  <1> QED
    BY <1>1, <1>2 DEF InOrder

\* What a call has yet to push.
Plan == {<<>>, <<"START">>, <<"END">>, <<"START", "END">>} \cup Ordinary

\* The shapes of a plan, its head and its tail.
LEMMA PlanShapes ==
    ASSUME NEW plan \in Plan, plan # <<>>
    PROVE  \/ plan = <<"START">> /\ Head(plan) = "START" /\ Tail(plan) = <<>>
           \/ plan = <<"END">> /\ Head(plan) = "END" /\ Tail(plan) = <<>>
           \/ plan = <<"START", "END">> /\ Head(plan) = "START" /\ Tail(plan) = <<"END">>
           \/ /\ plan \in Ordinary \ {<<>>}
              /\ Head(plan) \in {"CHANGE", "SAMPLE"}
              /\ Tail(plan) \in {<<>>, <<"SAMPLE">>}
  <1>1. Head(<<"START">>) = "START" /\ Tail(<<"START">>) = <<>>
    OBVIOUS
  <1>2. Head(<<"END">>) = "END" /\ Tail(<<"END">>) = <<>>
    OBVIOUS
  <1>3. Head(<<"START", "END">>) = "START" /\ Tail(<<"START", "END">>) = <<"END">>
    OBVIOUS
  <1>4. Head(<<"CHANGE">>) = "CHANGE" /\ Tail(<<"CHANGE">>) = <<>>
    OBVIOUS
  <1>5. Head(<<"SAMPLE">>) = "SAMPLE" /\ Tail(<<"SAMPLE">>) = <<>>
    OBVIOUS
  <1>6. Head(<<"CHANGE", "SAMPLE">>) = "CHANGE" /\ Tail(<<"CHANGE", "SAMPLE">>) = <<"SAMPLE">>
    OBVIOUS
  <1>7. \/ plan \in {<<"START">>, <<"END">>, <<"START", "END">>}
        \/ plan \in Ordinary \ {<<>>} /\ plan \in {<<"CHANGE">>, <<"SAMPLE">>, <<"CHANGE", "SAMPLE">>}
    BY DEF Plan, Ordinary
  <1> QED
    BY <1>1, <1>2, <1>3, <1>4, <1>5, <1>6, <1>7

\* No two plans are confused.
LEMMA PlansDiffer ==
    /\ <<"START">> # <<>> /\ <<"END">> # <<>> /\ <<"START", "END">> # <<>>
    /\ <<"START">> # <<"END">> /\ <<"START">> # <<"START", "END">>
    /\ <<"END">> # <<"START", "END">>
    /\ <<"START">> \notin Ordinary /\ <<"END">> \notin Ordinary
    /\ <<"START", "END">> \notin Ordinary
    /\ <<"SAMPLE">> \in Ordinary \ {<<>>}
    /\ Head(<<"START">>) = "START" /\ Head(<<"END">>) = "END"
    /\ Head(<<"START", "END">>) = "START"
    /\ \A plan \in Ordinary \ {<<>>} : Head(plan) \in {"CHANGE", "SAMPLE"}
  BY DEF Ordinary

\* The entries of a concatenation.
LEMMA Joined ==
    ASSUME NEW s \in Seq(Entries), NEW t \in Seq(Entries)
    PROVE  /\ s \o t \in Seq(Entries)
           /\ Len(s \o t) = Len(s) + Len(t)
           /\ \A i \in 1 .. Len(s) + Len(t) :
                 (s \o t)[i] = IF i <= Len(s) THEN s[i] ELSE t[i - Len(s)]
  OBVIOUS

\* The stream is a sequence, and a push extends it.
LEMMA StreamIsSeq == ObservationTypeOK => Stream \in Seq(Entries)
  BY DEF ObservationTypeOK, Stream

\* A push extends the stream by its entry.
LEMMA PushedStream ==
    ASSUME ObservationTypeOK, NEW e \in Entries,
           mailbox' = Append(mailbox, e), recorded' = recorded
    PROVE  /\ mailbox' \in Seq(Entries) /\ Len(mailbox') = Len(mailbox) + 1
           /\ Stream' \in Seq(Entries) /\ Len(Stream') = Len(Stream) + 1
           /\ \A i \in 1 .. Len(Stream) : Stream'[i] = Stream[i]
           /\ Stream'[Len(Stream')] = e
  <1>1. recorded \in Seq(Entries) /\ mailbox \in Seq(Entries)
    BY DEF ObservationTypeOK
  <1>2. /\ mailbox' \in Seq(Entries) /\ Len(mailbox') = Len(mailbox) + 1
        /\ \A i \in 1 .. Len(mailbox) : mailbox'[i] = mailbox[i]
        /\ mailbox'[Len(mailbox) + 1] = e
    BY <1>1
  <1>3. /\ Stream \in Seq(Entries) /\ Len(Stream) = Len(recorded) + Len(mailbox)
        /\ \A i \in 1 .. Len(Stream) :
              Stream[i] = IF i <= Len(recorded) THEN recorded[i]
                          ELSE mailbox[i - Len(recorded)]
    BY <1>1 DEF Stream
  <1>4. Stream' = recorded \o mailbox'
    BY DEF Stream
  <1>5. /\ Stream' \in Seq(Entries) /\ Len(Stream') = Len(recorded) + Len(mailbox')
        /\ \A i \in 1 .. Len(Stream') :
              Stream'[i] = IF i <= Len(recorded) THEN recorded[i]
                           ELSE mailbox'[i - Len(recorded)]
    <2>1. recorded \in Seq(Entries) /\ mailbox' \in Seq(Entries)
      BY <1>1, <1>2
    <2>2. /\ recorded \o mailbox' \in Seq(Entries)
          /\ Len(recorded \o mailbox') = Len(recorded) + Len(mailbox')
          /\ \A i \in 1 .. Len(recorded) + Len(mailbox') :
                (recorded \o mailbox')[i] = IF i <= Len(recorded) THEN recorded[i]
                                            ELSE mailbox'[i - Len(recorded)]
      BY <2>1, Joined
    <2> QED
      BY <1>4, <2>2
  <1>6. Len(recorded) \in Nat /\ Len(mailbox) \in Nat
    BY <1>1
  <1>7. ASSUME NEW i \in 1 .. Len(Stream) PROVE Stream'[i] = Stream[i]
    <2>1. i \in 1 .. Len(Stream')
      BY <1>2, <1>3, <1>5, <1>6
    <2>2. CASE i <= Len(recorded)
      BY <1>3, <1>5, <2>1, <2>2
    <2>3. CASE ~(i <= Len(recorded))
      <3>1. i - Len(recorded) \in 1 .. Len(mailbox)
        BY <1>3, <1>6, <2>3
      <3> QED
        BY <1>2, <1>3, <1>5, <2>1, <2>3, <3>1
    <2> QED
      BY <2>2, <2>3
  <1>8. Stream'[Len(Stream')] = e
    <2>1. /\ Len(Stream') \in 1 .. Len(Stream') /\ ~(Len(Stream') <= Len(recorded))
          /\ Len(Stream') - Len(recorded) = Len(mailbox) + 1
      BY <1>2, <1>5, <1>6
    <2> QED
      BY <1>2, <1>5, <2>1
  <1> QED
    BY <1>2, <1>3, <1>5, <1>6, <1>7, <1>8

\* A pop leaves the stream as it is, or takes an ordinary entry out of it.
LEMMA PoppedStream ==
    ASSUME ObservationTypeOK, Pop
    PROVE  /\ mailbox' \in Seq(Entries) /\ recorded' \in Seq(Entries)
           /\ Len(mailbox') = Len(mailbox) - 1
           /\ \/ Len(Stream') = Len(Stream) /\ \A i \in 1 .. Len(Stream) : Stream'[i] = Stream[i]
              \/ \E k \in 1 .. Len(Stream) :
                    /\ Len(Stream') = Len(Stream) - 1
                    /\ Stream[k].kind \notin Lifecycle
                    /\ \A i \in 1 .. Len(Stream') :
                          Stream'[i] = IF i < k THEN Stream[i] ELSE Stream[i + 1]
  <1>1. recorded \in Seq(Entries) /\ mailbox \in Seq(Entries) /\ mailbox # <<>>
    BY DEF ObservationTypeOK, Pop
  <1> DEFINE head == mailbox[1]
             r == Len(recorded)
  <1>2. /\ mailbox' \in Seq(Entries) /\ Len(mailbox') = Len(mailbox) - 1
        /\ \A i \in 1 .. Len(mailbox') : mailbox'[i] = mailbox[i + 1]
        /\ head \in Entries /\ Head(mailbox) = head
        /\ r \in Nat /\ Len(mailbox) \in Nat \ {0}
    BY <1>1 DEF Pop
  <1>3. /\ Stream \in Seq(Entries) /\ Len(Stream) = r + Len(mailbox)
        /\ \A i \in 1 .. Len(Stream) :
              Stream[i] = IF i <= r THEN recorded[i] ELSE mailbox[i - r]
    BY <1>1 DEF Stream
  <1>4. recorded' \in Seq(Entries)
        /\ \/ head.kind \in Lifecycle /\ recorded' = Append(recorded, head)
           \/ head.kind \notin Lifecycle /\ recorded' = recorded
    BY <1>1, <1>2 DEF Pop
  <1>5. /\ Len(Stream') = Len(recorded') + Len(mailbox')
        /\ \A i \in 1 .. Len(Stream') :
              Stream'[i] = IF i <= Len(recorded') THEN recorded'[i]
                           ELSE mailbox'[i - Len(recorded')]
    <2>1. Stream' = recorded' \o mailbox'
      BY DEF Stream
    <2> QED
      BY <1>2, <1>4, <2>1
  <1>6. CASE head.kind \in Lifecycle /\ recorded' = Append(recorded, head)
    <2>1. /\ Len(recorded') = r + 1 /\ recorded'[r + 1] = head
          /\ \A i \in 1 .. r : recorded'[i] = recorded[i]
      BY <1>1, <1>2, <1>6
    <2>2. Len(Stream') = Len(Stream)
      BY <1>2, <1>3, <1>5, <2>1
    <2>3. ASSUME NEW i \in 1 .. Len(Stream) PROVE Stream'[i] = Stream[i]
      <3>0. i \in 1 .. Len(Stream')
        BY <2>2
      <3>1. CASE i <= r
        <4>1. Stream[i] = recorded[i] /\ i \in 1 .. r
          BY <1>2, <1>3, <3>1
        <4>2. i <= Len(recorded')
          BY <1>2, <2>1, <3>1
        <4> QED
          BY <1>5, <2>1, <3>0, <4>1, <4>2
      <3>2. CASE i = r + 1
        <4>1. Stream'[i] = recorded'[i]
          BY <1>2, <1>5, <2>1, <2>2, <3>2
        <4>2. Stream[i] = mailbox[i - r] /\ i - r = 1
          BY <1>2, <1>3, <3>2
        <4> QED
          BY <2>1, <3>2, <4>1, <4>2
      <3>3. CASE i > r + 1
        <4>1. i - (r + 1) \in 1 .. Len(mailbox') /\ (i - (r + 1)) + 1 = i - r
          BY <1>2, <1>3, <3>3
        <4>2. Stream'[i] = mailbox'[i - (r + 1)]
          BY <1>2, <1>5, <2>1, <2>2, <3>3
        <4>3. Stream[i] = mailbox[i - r]
          BY <1>2, <1>3, <3>3
        <4> QED
          BY <1>2, <4>1, <4>2, <4>3
      <3> QED
        BY <1>2, <3>1, <3>2, <3>3
    <2> QED
      BY <1>2, <1>4, <2>2, <2>3
  <1>7. CASE head.kind \notin Lifecycle /\ recorded' = recorded
    <2> DEFINE k == r + 1
    <2>1. k \in 1 .. Len(Stream) /\ Len(Stream') = Len(Stream) - 1
      BY <1>2, <1>3, <1>5, <1>7
    <2>2. Stream[k] = head
      <3>1. ~(k <= r) /\ k - r = 1
        BY <1>2
      <3> QED
        BY <1>3, <2>1, <3>1
    <2>3. ASSUME NEW i \in 1 .. Len(Stream')
          PROVE  Stream'[i] = IF i < k THEN Stream[i] ELSE Stream[i + 1]
      <3>0. i \in 1 .. Len(Stream) /\ i + 1 \in 1 .. Len(Stream)
        BY <1>2, <1>3, <2>1
      <3>1. CASE i <= r
        <4>1. i < k
          BY <1>2, <3>1
        <4> QED
          BY <1>3, <1>5, <1>7, <3>0, <3>1, <4>1
      <3>2. CASE i > r
        <4>1. i - r \in 1 .. Len(mailbox') /\ (i - r) + 1 = (i + 1) - r
          BY <1>2, <1>5, <1>7, <3>2
        <4>2. Stream'[i] = mailbox'[i - r]
          <5>1. ~(i <= Len(recorded')) /\ Len(recorded') = r
            BY <1>2, <1>7, <3>2
          <5> QED
            BY <1>5, <5>1
        <4>3. Stream[i + 1] = mailbox[(i + 1) - r]
          BY <1>2, <1>3, <3>0, <3>2
        <4>4. ~(i < k)
          BY <1>2, <3>2
        <4> QED
          BY <1>2, <4>1, <4>2, <4>3, <4>4
      <3> QED
        BY <1>2, <3>1, <3>2
    <2>4. Stream[k].kind \notin Lifecycle
      BY <1>7, <2>2
    <2> HIDE DEF k
    <2> QED
      BY <1>2, <1>4, <2>1, <2>3, <2>4
  <1> QED
    BY <1>4, <1>6, <1>7

\* The next snapshot is of the same session, which does not run again, or of the next.
LEMMA NextView ==
    ASSUME ObservationTypeOK, NEW view \in SameSession \cup NewSession
    PROVE  /\ view \in [status : Statuses, session : Nat]
           /\ \/ view.session = current.session /\ (IsRunning(view) => IsRunning(current))
              \/ view.session = current.session + 1
  <1>1. current.session \in Nat /\ current.session + 1 \in Nat
    BY DEF ObservationTypeOK
  <1>2. CASE view \in SameSession
    <2>1. PICK status \in {"Idle", "Fault", "Stopped", "Running"} :
             /\ view = View(status, current.session)
             /\ status = "Running" => current.status = "Running"
      BY <1>2 DEF SameSession
    <2> QED
      BY <1>1, <2>1 DEF View, Statuses, IsRunning
  <1>3. CASE view \in NewSession
    <2>1. PICK status \in {"Running", "Stopped", "Fault"} :
             view = View(status, current.session + 1)
      BY <1>3 DEF NewSession
    <2> QED
      BY <1>1, <2>1 DEF View, Statuses
  <1> QED
    BY <1>2, <1>3

\* The plan of a call, and what it says of the session.
LEMMA PlanOfView ==
    ASSUME NEW view, NEW plan \in Plans(view)
    PROVE  /\ plan \in Plan
           /\ plan = <<"START">> => IsStarting(view)
           /\ plan = <<"END">> => IsEnding(view)
           /\ plan = <<"START", "END">> =>
                 IsTerminalFirstSeen(view) /\ ~IsRunning(view)
           /\ plan \in Ordinary \ {<<>>} => IsRunning(view) /\ ~IsStarting(view)
           /\ plan = <<>> => ~IsStarting(view) /\ ~IsEnding(view) /\ ~IsTerminalFirstSeen(view)
  <1>1. CASE IsStarting(view)
    BY <1>1, PlansDiffer DEF Plans, Plan
  <1>2. CASE ~IsStarting(view) /\ IsEnding(view)
    BY <1>2, PlansDiffer DEF Plans, Plan
  <1>3. CASE ~IsStarting(view) /\ ~IsEnding(view) /\ IsTerminalFirstSeen(view)
    BY <1>3, PlansDiffer DEF Plans, Plan, IsTerminalFirstSeen, IsTerminal, IsRunning
  <1>4. CASE ~IsStarting(view) /\ ~IsEnding(view) /\ ~IsTerminalFirstSeen(view)
    <2>1. IF IsRunning(view) THEN plan \in Ordinary ELSE plan = <<>>
      BY <1>4 DEF Plans
    <2> QED
      BY <1>4, <2>1, PlansDiffer DEF Plan
  <1> QED
    BY <1>1, <1>2, <1>3, <1>4

\* A new snapshot, planned or refused: what is told of its session still is.
LEMMA ObserveTells ==
    ObservationTypeOK /\ Told(Stream) /\ Observe => ObservationTypeOK' /\ Told(Stream)'
  <1> SUFFICES ASSUME ObservationTypeOK, Told(Stream), Observe
               PROVE  ObservationTypeOK' /\ Told(Stream)'
    OBVIOUS
  <1>1. PICK view \in SameSession \cup NewSession : \E plan \in Plans(view) :
         /\ current' = view
         /\ pushes' = IF IsRefused(view, plan) THEN <<>> ELSE plan
         /\ IF plan = <<>> THEN Remember(view) ELSE UNCHANGED <<previous, initialized>>
    BY DEF Observe
  <1>2. PICK plan \in Plans(view) :
         /\ current' = view
         /\ pushes' = IF IsRefused(view, plan) THEN <<>> ELSE plan
         /\ IF plan = <<>> THEN Remember(view) ELSE UNCHANGED <<previous, initialized>>
    BY <1>1
  <1>3. pushes = <<>> /\ mailbox' = mailbox /\ recorded' = recorded
    BY DEF Observe
  <1> DEFINE s == Stream
  <1>4. s \in Seq(Entries) /\ Stream' = s /\ \A i \in DOMAIN s : s[i].session \in Nat
    <2>1. s \in Seq(Entries)
      BY StreamIsSeq
    <2> HIDE DEF s
    <2>2. \A i \in DOMAIN s : s[i].session \in Nat
      <3>1. \A i \in DOMAIN s : s[i] \in Entries
        BY <2>1
      <3> QED
        BY <3>1 DEF Entries
    <2> QED
      BY <1>3, <2>1, <2>2 DEF Stream, s
  <1>k. SessionsAreKnown(s, current.session) /\ previous.session <= current.session
    BY DEF Told
  <1> HIDE DEF s
  <1>5. /\ view \in [status : Statuses, session : Nat]
        /\ \/ view.session = current.session /\ (IsRunning(view) => IsRunning(current))
           \/ view.session = current.session + 1
    BY NextView
  <1>t. /\ current.session \in Nat /\ previous.session \in Nat
        /\ current \in [status : Statuses, session : Nat]
        /\ previous \in [status : Statuses, session : Nat]
        /\ initialized \in BOOLEAN
        /\ view.session \in Nat
    BY <1>5 DEF ObservationTypeOK
  <1>6. /\ plan \in Plan
        /\ plan = <<"START">> => IsStarting(view)
        /\ plan = <<"END">> => IsEnding(view)
        /\ plan = <<"START", "END">> => IsTerminalFirstSeen(view) /\ ~IsRunning(view)
        /\ plan \in Ordinary \ {<<>>} => IsRunning(view) /\ ~IsStarting(view)
        /\ plan = <<>> => ~IsStarting(view) /\ ~IsEnding(view) /\ ~IsTerminalFirstSeen(view)
    BY PlanOfView
  <1> DEFINE fresh == ~initialized \/ previous.session # view.session
  <1>7. /\ fresh => Untold(s, view.session)
        /\ ~fresh /\ IsRunning(previous) => Open(s, view.session)
        /\ ~fresh /\ ~IsRunning(previous) => ~IsRunning(view)
        /\ SessionsAreKnown(s, view.session)
        /\ previous.session <= view.session
    <2>1. CASE view.session = current.session /\ (IsRunning(view) => IsRunning(current))
      <3>1. fresh <=> IsFresh
        BY <2>1 DEF IsFresh
      <3>2. /\ IsFresh => Untold(s, current.session)
            /\ ~IsFresh => IF IsRunning(previous) THEN Open(s, current.session)
                                                  ELSE ~IsRunning(current)
        BY <1>3 DEF Told, s
      <3> QED
        BY <1>k, <2>1, <3>1, <3>2
    <2>2. CASE view.session = current.session + 1
      <3>1. previous.session # view.session /\ previous.session <= view.session
        BY <1>k, <1>t, <2>2
      <3>2. Untold(s, view.session) /\ SessionsAreKnown(s, view.session)
        BY <1>4, <1>k, <1>t, <2>2 DEF SessionsAreKnown, Untold
      <3> QED
        BY <3>1, <3>2
    <2> QED
      BY <1>5, <2>1, <2>2
  <1>8. ObservationTypeOK'
    <2>1. pushes' \in Plan
      BY <1>2, <1>6 DEF Plan
    <2>2. previous' \in [status : Statuses, session : Nat] /\ initialized' \in BOOLEAN
      BY <1>2, <1>5, <1>t DEF Remember
    <2> QED
      BY <1>2, <1>3, <1>5, <2>1, <2>2 DEF ObservationTypeOK, Plan
  <1>9. Told(Stream)'
    <2>1. CASE plan = <<>>
      <3>1. /\ current' = view /\ pushes' = <<>> /\ previous' = view /\ initialized' = TRUE
        BY <1>2, <2>1 DEF Remember, IsRefused
      <3>2. IsRunning(view) => Open(s, view.session)
        BY <1>6, <1>7, <2>1 DEF IsStarting
      <3>3. ~IsFresh' /\ view.session <= view.session
        BY <1>t, <3>1 DEF IsFresh
      <3>4. SessionsAreKnown(s, view.session)
        BY <1>7
      <3> QED
        BY <1>4, <3>1, <3>2, <3>3, <3>4, PlansDiffer DEF Told
    <2>2. CASE plan # <<>>
      <3>1. current' = view /\ previous' = previous /\ initialized' = initialized
        BY <1>2, <2>2
      <3>2. IsFresh' <=> fresh
        BY <3>1 DEF IsFresh
      <3>3. CASE IsRefused(view, plan)
        <4>1. pushes' = <<>>
          BY <1>2, <3>3
        <4> QED
          BY <1>4, <1>7, <3>1, <3>2, <4>1, PlansDiffer DEF Told
      <3>4. CASE ~IsRefused(view, plan)
        <4>1. pushes' = plan
          BY <1>2, <3>4
        <4>2. CASE plan = <<"START">>
          <5>1. IsRunning(view) /\ fresh
            BY <1>6, <1>7, <4>2 DEF IsStarting
          <5> QED
            BY <1>4, <1>7, <3>1, <3>2, <4>1, <4>2, <5>1, PlansDiffer DEF Told
        <4>3. CASE plan = <<"END">>
          <5>1. ~IsRunning(view) /\ ~fresh /\ IsRunning(previous)
            BY <1>6, <4>3 DEF IsEnding
          <5> QED
            BY <1>4, <1>7, <3>1, <3>2, <4>1, <4>3, <5>1, PlansDiffer DEF Told
        <4>4. CASE plan = <<"START", "END">>
          <5>1. ~IsRunning(view) /\ fresh
            BY <1>6, <4>4 DEF IsTerminalFirstSeen
          <5>2. HasCapacity(PairRoom)
            BY <3>4, <4>4 DEF IsRefused
          <5>3. HasCapacity(PairRoom)'
            BY <1>3, <5>2 DEF HasCapacity, PairRoom
          <5> QED
            BY <1>4, <1>7, <3>1, <3>2, <4>1, <4>4, <5>1, <5>3, PlansDiffer DEF Told
        <4>5. CASE plan \in Ordinary \ {<<>>}
          <5>1. IsRunning(view) /\ ~fresh /\ IsRunning(previous)
            BY <1>6, <1>7, <4>5 DEF IsStarting
          <5>2. Head(plan) # "START"
            BY <4>5, PlansDiffer
          <5> QED
            BY <1>4, <1>7, <3>1, <3>2, <4>1, <4>5, <5>1, <5>2, PlansDiffer DEF Told
        <4> QED
          BY <1>6, <2>2, <4>2, <4>3, <4>4, <4>5 DEF Plan
      <3> QED
        BY <3>3, <3>4
    <2> QED
      BY <2>1, <2>2
  <1> QED
    BY <1>8, <1>9

\* What follows the last push, or the loss of an ordinary observation.
LEMMA EndOfPush ==
    ASSUME ObservationTypeOK, NEW rest \in {<<>>, <<"END">>, <<"SAMPLE">>}, EndsPushes(rest)
    PROVE  /\ pushes' = rest
           /\ rest = <<>> => previous' = current /\ initialized' = TRUE
           /\ rest # <<>> => previous' = previous /\ initialized' = initialized
  BY DEF EndsPushes, Remember

\* A push of the call's next entry.
LEMMA PushTells ==
    /\ ObservationTypeOK /\ Told(Stream) /\ InOrder(Stream) /\ Push
    => ObservationTypeOK' /\ Told(Stream)' /\ InOrder(Stream')
  <1> SUFFICES ASSUME ObservationTypeOK, Told(Stream), InOrder(Stream), Push
               PROVE  ObservationTypeOK' /\ Told(Stream)' /\ InOrder(Stream')
    OBVIOUS
  <1> DEFINE e == [kind |-> Head(pushes), session |-> current.session]
  <1>1. /\ pushes \in Plan /\ pushes # <<>>
        /\ mailbox' = Append(mailbox, e) /\ recorded' = recorded /\ current' = current
        /\ EndsPushes(Tail(pushes))
    BY DEF Push, ObservationTypeOK, Plan
  <1>2. \/ pushes = <<"START">> /\ Head(pushes) = "START" /\ Tail(pushes) = <<>>
        \/ pushes = <<"END">> /\ Head(pushes) = "END" /\ Tail(pushes) = <<>>
        \/ pushes = <<"START", "END">> /\ Head(pushes) = "START" /\ Tail(pushes) = <<"END">>
        \/ /\ pushes \in Ordinary \ {<<>>}
           /\ Head(pushes) \in {"CHANGE", "SAMPLE"}
           /\ Tail(pushes) \in {<<>>, <<"SAMPLE">>}
    BY <1>1, PlanShapes
  <1>t. /\ current \in [status : Statuses, session : Nat] /\ current.session \in Nat
        /\ previous \in [status : Statuses, session : Nat] /\ initialized \in BOOLEAN
        /\ mailbox \in Seq(Entries) /\ Len(mailbox) \in Nat /\ MailboxCapacity \in Nat
    BY ObservationAssumption DEF ObservationTypeOK
  <1>3. e \in Entries /\ e.kind = Head(pushes) /\ e.session = current.session
    BY <1>2, <1>t DEF Entries, Lifecycle
  <1> HIDE DEF e
  <1> DEFINE s == Stream
             t == Stream'
  <1>4. /\ mailbox' \in Seq(Entries) /\ Len(mailbox') = Len(mailbox) + 1
        /\ t \in Seq(Entries) /\ Len(t) = Len(s) + 1
        /\ \A i \in 1 .. Len(s) : t[i] = s[i]
        /\ t[Len(t)] = e
    BY <1>1, <1>3, PushedStream
  <1>5. s \in Seq(Entries)
    BY StreamIsSeq
  <1>k. SessionsAreKnown(s, current.session) /\ previous.session <= current.session
    BY DEF Told
  <1>6. IF e.kind = "START" THEN Untold(s, e.session) ELSE Open(s, e.session)
    BY <1>1, <1>2, <1>3 DEF Told
  <1>o. InOrder(s)
    OBVIOUS
  <1> HIDE DEF s, t
  <1>7. InOrder(t)
    BY <1>3, <1>4, <1>5, <1>6, <1>k, <1>o, OrderOfPush
  <1>8. /\ SessionsAreKnown(t, current.session)
        /\ e.kind = "START" => Open(t, current.session)
        /\ e.kind \notin {"START", "END"} => Open(t, current.session)
    <2>1. /\ DOMAIN s = 1 .. Len(s) /\ DOMAIN t = 1 .. Len(t) /\ Len(s) \in Nat
          /\ Len(t) \in DOMAIN t
          /\ \A i \in DOMAIN t : (i \in DOMAIN s /\ t[i] = s[i]) \/ i = Len(t)
          /\ \A i \in DOMAIN s : i \in DOMAIN t /\ t[i] = s[i]
      BY <1>4, <1>5
    <2>2. SessionsAreKnown(t, current.session)
      BY <1>3, <1>4, <1>k, <1>t, <2>1 DEF SessionsAreKnown
    <2>3. CASE e.kind = "START"
      <3>1. t[Len(t)] = [kind |-> "START", session |-> current.session]
        BY <1>3, <1>4, <2>3 DEF Entries
      <3>2. \A i \in DOMAIN s : s[i].session # current.session
        BY <1>3, <1>5, <1>6, <1>t, <2>3 DEF Untold, Entries
      <3>3. \A i \in DOMAIN t : t[i] # [kind |-> "END", session |-> current.session]
        BY <1>3, <1>4, <2>1, <2>3, <3>2
      <3> QED
        BY <2>1, <2>2, <3>1, <3>3, <2>3 DEF Open
    <2>4. CASE e.kind \notin {"START", "END"}
      <3>1. Open(s, current.session)
        BY <1>3, <1>6, <2>4
      <3>2. e # [kind |-> "END", session |-> current.session]
        BY <2>4
      <3> QED
        BY <1>4, <2>1, <2>2, <3>1, <3>2, <2>4 DEF Open
    <2> QED
      BY <2>2, <2>3, <2>4
  <1>9. /\ pushes' = Tail(pushes)
        /\ Tail(pushes) = <<>> => previous' = current /\ initialized' = TRUE
        /\ Tail(pushes) # <<>> => previous' = previous /\ initialized' = initialized
    <2>1. Tail(pushes) \in {<<>>, <<"END">>, <<"SAMPLE">>}
      BY <1>2
    <2> QED
      BY <1>1, <2>1, EndOfPush
  <1>10. ObservationTypeOK'
    <2>1. recorded \in Seq(Entries)
      BY DEF ObservationTypeOK
    <2>2. pushes' \in Plan
      BY <1>2, <1>9 DEF Plan, Ordinary
    <2>3. previous' \in [status : Statuses, session : Nat] /\ initialized' \in BOOLEAN
      BY <1>9, <1>t
    <2> QED
      BY <1>1, <1>4, <1>t, <2>1, <2>2, <2>3 DEF ObservationTypeOK, Plan
  <1>11. Told(Stream)'
    <2>1. CASE pushes = <<"START">>
      <3>1. pushes' = <<>> /\ previous' = current /\ initialized' = TRUE /\ e.kind = "START"
        BY <1>2, <1>3, <1>9, <2>1, PlansDiffer
      <3>2. IsRunning(current) /\ ~IsFresh' /\ current.session <= current.session
        BY <1>1, <1>t, <2>1, <3>1 DEF Told, IsFresh
      <3> QED
        BY <1>1, <1>8, <3>1, <3>2, PlansDiffer DEF Told, t
    <2>2. CASE pushes = <<"END">>
      <3>1. pushes' = <<>> /\ previous' = current /\ initialized' = TRUE
        BY <1>2, <1>3, <1>9, <2>2, PlansDiffer
      <3>2. ~IsRunning(current) /\ ~IsFresh' /\ current.session <= current.session
        BY <1>1, <1>t, <2>2, <3>1 DEF Told, IsFresh
      <3> QED
        BY <1>1, <1>8, <3>1, <3>2, PlansDiffer DEF Told, t
    <2>3. CASE pushes = <<"START", "END">>
      <3>1. pushes' = <<"END">> /\ previous' = previous /\ initialized' = initialized
            /\ e.kind = "START"
        BY <1>2, <1>3, <1>9, <2>3, PlansDiffer
      <3>2. ~IsRunning(current) /\ HasCapacity(PairRoom)
        BY <2>3 DEF Told
      <3>3. HasCapacity(1)'
        BY <1>4, <1>t, <3>2 DEF HasCapacity, PairRoom
      <3> QED
        BY <1>1, <1>8, <1>k, <3>1, <3>2, <3>3, PlansDiffer DEF Told, t
    <2>4. CASE pushes \in Ordinary \ {<<>>}
      <3>1. /\ IsRunning(current) /\ ~IsFresh /\ IsRunning(previous)
            /\ e.kind \notin {"START", "END"}
        BY <1>2, <1>3, <2>4, PlansDiffer DEF Told
      <3>2. CASE Tail(pushes) = <<>>
        <4>1. pushes' = <<>> /\ previous' = current /\ initialized' = TRUE
          BY <1>9, <3>2
        <4>2. ~IsFresh' /\ current.session <= current.session
          BY <1>1, <1>t, <4>1 DEF IsFresh
        <4> QED
          BY <1>1, <1>8, <3>1, <4>1, <4>2, PlansDiffer DEF Told, t
      <3>3. CASE Tail(pushes) = <<"SAMPLE">>
        <4>1. pushes' = <<"SAMPLE">> /\ previous' = previous /\ initialized' = initialized
          BY <1>9, <3>3, PlansDiffer
        <4>2. ~IsFresh'
          BY <1>1, <3>1, <4>1 DEF IsFresh
        <4>3. Head(pushes') # "START"
          BY <4>1, PlansDiffer
        <4> QED
          BY <1>1, <1>8, <1>k, <3>1, <4>1, <4>2, <4>3, PlansDiffer DEF Told, t
      <3>4. Tail(pushes) \in {<<>>, <<"SAMPLE">>}
        BY <1>2, <2>4, PlansDiffer
      <3> QED
        BY <3>2, <3>3, <3>4
    <2> QED
      BY <1>2, <2>1, <2>2, <2>3, <2>4
  <1> QED
    BY <1>7, <1>10, <1>11 DEF t

\* A push that is refused.
LEMMA RefuseTells ==
    ObservationTypeOK /\ Told(Stream) /\ Refuse => ObservationTypeOK' /\ Told(Stream)'
  <1> SUFFICES ASSUME ObservationTypeOK, Told(Stream), Refuse
               PROVE  ObservationTypeOK' /\ Told(Stream)'
    OBVIOUS
  <1>1. /\ pushes \in Plan /\ pushes # <<>>
        /\ UNCHANGED <<current, mailbox, recorded>>
        /\ ~IsAdmitted(Head(pushes))
    BY DEF Refuse, ObservationTypeOK, Plan
  <1>2. \/ pushes = <<"START">> /\ Head(pushes) = "START" /\ Tail(pushes) = <<>>
        \/ pushes = <<"END">> /\ Head(pushes) = "END" /\ Tail(pushes) = <<>>
        \/ pushes = <<"START", "END">> /\ Head(pushes) = "START" /\ Tail(pushes) = <<"END">>
        \/ /\ pushes \in Ordinary \ {<<>>}
           /\ Head(pushes) \in {"CHANGE", "SAMPLE"}
           /\ Tail(pushes) \in {<<>>, <<"SAMPLE">>}
    BY <1>1, PlanShapes
  <1>t. /\ current \in [status : Statuses, session : Nat] /\ current.session \in Nat
        /\ previous \in [status : Statuses, session : Nat] /\ initialized \in BOOLEAN
        /\ mailbox \in Seq(Entries) /\ Len(mailbox) \in Nat /\ MailboxCapacity \in Nat
    BY ObservationAssumption DEF ObservationTypeOK
  <1>s. Stream' = Stream
    BY <1>1 DEF Stream
  <1>k. SessionsAreKnown(Stream, current.session) /\ previous.session <= current.session
    BY DEF Told
  <1>3. CASE pushes \in {<<"START">>, <<"END">>, <<"START", "END">>}
    <2>1. Head(pushes) \in Lifecycle
      BY <1>3, PlansDiffer DEF Lifecycle
    <2>2. pushes' = <<>> /\ UNCHANGED <<previous, initialized>>
      BY <2>1 DEF Refuse, IsRetried
    <2>3. ObservationTypeOK'
      BY <1>1, <2>2 DEF ObservationTypeOK
    <2>4. ~HasCapacity(1)
      BY <1>1, <1>t, <2>1 DEF IsAdmitted, Limit, HasCapacity
    <2>5. CASE pushes = <<"START">>
      <3>1. IsFresh /\ Untold(Stream, current.session)
        BY <1>1, <2>5, PlansDiffer DEF Told
      <3>2. IsFresh'
        BY <1>1, <2>2, <3>1 DEF IsFresh
      <3> QED
        BY <1>1, <1>k, <1>s, <2>2, <2>3, <3>1, <3>2, PlansDiffer DEF Told
    <2>6. CASE pushes = <<"END">>
      <3>1. Open(Stream, current.session) /\ ~IsFresh /\ IsRunning(previous)
        BY <2>4, <2>6 DEF Told
      <3>2. ~IsFresh'
        BY <1>1, <2>2, <3>1 DEF IsFresh
      <3> QED
        BY <1>1, <1>k, <1>s, <2>2, <2>3, <3>1, <3>2, PlansDiffer DEF Told
    <2>7. CASE pushes = <<"START", "END">>
      <3>1. HasCapacity(PairRoom)
        BY <2>7 DEF Told
      <3> QED
        BY <1>t, <2>4, <3>1 DEF HasCapacity, PairRoom
    <2> QED
      BY <1>3, <2>5, <2>6, <2>7
  <1>4. CASE pushes \in Ordinary \ {<<>>}
    <2>1. Head(pushes) \in {"CHANGE", "SAMPLE"} /\ Tail(pushes) \in {<<>>, <<"SAMPLE">>}
      BY <1>2, <1>4, PlansDiffer
    <2>2. EndsPushes(Tail(pushes))
      BY <2>1 DEF Refuse, IsRetried, Lifecycle
    <2>3. /\ pushes' = Tail(pushes)
          /\ Tail(pushes) = <<>> => previous' = current /\ initialized' = TRUE
          /\ Tail(pushes) # <<>> => previous' = previous /\ initialized' = initialized
      BY <2>1, <2>2, EndOfPush
    <2>4. IsRunning(current) /\ ~IsFresh /\ IsRunning(previous) /\ Open(Stream, current.session)
      BY <1>4 DEF Told
    <2>5. CASE Tail(pushes) = <<>>
      <3>1. pushes' = <<>> /\ previous' = current /\ initialized' = TRUE
        BY <2>3, <2>5
      <3>2. ~IsFresh' /\ current.session <= current.session
        BY <1>1, <1>t, <3>1 DEF IsFresh
      <3>3. ObservationTypeOK'
        BY <1>1, <1>t, <3>1 DEF ObservationTypeOK
      <3> QED
        BY <1>1, <1>k, <1>s, <2>4, <3>1, <3>2, <3>3, PlansDiffer DEF Told
    <2>6. CASE Tail(pushes) = <<"SAMPLE">>
      <3>1. pushes' = <<"SAMPLE">> /\ previous' = previous /\ initialized' = initialized
        BY <2>3, <2>6, PlansDiffer
      <3>2. ~IsFresh' /\ Head(pushes') # "START"
        BY <1>1, <2>4, <3>1, PlansDiffer DEF IsFresh
      <3>3. ObservationTypeOK'
        BY <1>1, <1>t, <3>1, PlansDiffer DEF ObservationTypeOK
      <3> QED
        BY <1>1, <1>k, <1>s, <2>4, <3>1, <3>2, <3>3, PlansDiffer DEF Told
    <2> QED
      BY <2>1, <2>5, <2>6
  <1> QED
    BY <1>2, <1>3, <1>4

\* A pop by the recorder.
LEMMA PopTells ==
    /\ ObservationTypeOK /\ Told(Stream) /\ InOrder(Stream) /\ Pop
    => ObservationTypeOK' /\ Told(Stream)' /\ InOrder(Stream')
  <1> SUFFICES ASSUME ObservationTypeOK, Told(Stream), InOrder(Stream), Pop
               PROVE  ObservationTypeOK' /\ Told(Stream)' /\ InOrder(Stream')
    OBVIOUS
  <1> DEFINE s == Stream
             t == Stream'
  <1>1. /\ mailbox' \in Seq(Entries) /\ recorded' \in Seq(Entries)
        /\ Len(mailbox') = Len(mailbox) - 1
        /\ \/ Len(t) = Len(s) /\ \A i \in 1 .. Len(s) : t[i] = s[i]
           \/ \E k \in 1 .. Len(s) :
                 /\ Len(t) = Len(s) - 1
                 /\ s[k].kind \notin Lifecycle
                 /\ \A i \in 1 .. Len(t) : t[i] = IF i < k THEN s[i] ELSE s[i + 1]
    BY PoppedStream
  <1>2. UNCHANGED <<current, previous, initialized, pushes>>
    BY DEF Pop
  <1>3. s \in Seq(Entries)
    BY StreamIsSeq
  <1>4. ObservationTypeOK'
    BY <1>1, <1>2 DEF ObservationTypeOK
  <1>5. t \in Seq(Entries)
    BY <1>1 DEF Stream
  <1>o. InOrder(s) /\ SessionsAreKnown(s, current.session)
    BY DEF Told
  <1>c. Len(mailbox) \in Nat /\ MailboxCapacity \in Nat
    BY ObservationAssumption DEF ObservationTypeOK
  <1> HIDE DEF s, t
  <1>6. /\ InOrder(t) /\ SessionsAreKnown(t, current.session)
        /\ Untold(s, current.session) => Untold(t, current.session)
        /\ Open(s, current.session) => Open(t, current.session)
    <2>d. DOMAIN s = 1 .. Len(s) /\ DOMAIN t = 1 .. Len(t) /\ Len(s) \in Nat
      BY <1>3, <1>5
    <2>1. CASE Len(t) = Len(s) /\ \A i \in 1 .. Len(s) : t[i] = s[i]
      <3>1. t = s
        BY <1>3, <1>5, <2>1
      <3> QED
        BY <1>o, <3>1
    <2>2. ASSUME NEW k \in 1 .. Len(s), Len(t) = Len(s) - 1, s[k].kind \notin Lifecycle,
                 \A i \in 1 .. Len(t) : t[i] = IF i < k THEN s[i] ELSE s[i + 1]
          PROVE  /\ InOrder(t) /\ SessionsAreKnown(t, current.session)
                 /\ Untold(s, current.session) => Untold(t, current.session)
                 /\ Open(s, current.session) => Open(t, current.session)
      <3>1. InOrder(t)
        BY <1>3, <1>5, <1>o, <2>2, OrderOfLoss
      <3>2. \A i \in DOMAIN t : \E n \in DOMAIN s : t[i] = s[n]
        <4>1. \A i \in 1 .. Len(t) : i \in 1 .. Len(s) /\ i + 1 \in 1 .. Len(s)
          BY <2>2, <2>d
        <4> QED
          BY <2>2, <2>d, <4>1
      <3>3. \A i \in DOMAIN s : s[i].kind \in Lifecycle => \E n \in DOMAIN t : t[n] = s[i]
        <4> SUFFICES ASSUME NEW i \in DOMAIN s, s[i].kind \in Lifecycle
                     PROVE  \E n \in DOMAIN t : t[n] = s[i]
          OBVIOUS
        <4>1. i # k
          BY <2>2
        <4>2. CASE i < k
          <5>1. i \in 1 .. Len(t)
            BY <2>2, <2>d, <4>2
          <5> QED
            BY <2>2, <2>d, <4>2, <5>1
        <4>3. CASE i > k
          <5>1. i - 1 \in 1 .. Len(t) /\ ~(i - 1 < k) /\ (i - 1) + 1 = i
            BY <2>2, <2>d, <4>3
          <5>2. t[i - 1] = s[i]
            BY <2>2, <5>1
          <5> QED
            BY <2>d, <5>1, <5>2
        <4> QED
          BY <2>d, <4>1, <4>2, <4>3
      <3>4. SessionsAreKnown(t, current.session)
        BY <1>o, <3>2 DEF SessionsAreKnown
      <3>5. Untold(s, current.session) => Untold(t, current.session)
        BY <3>2 DEF Untold
      <3>6. Open(s, current.session) => Open(t, current.session)
        BY <3>2, <3>3 DEF Open, Lifecycle
      <3> QED
        BY <3>1, <3>4, <3>5, <3>6
    <2> QED
      BY <1>1, <2>1, <2>2
  <1>7. \A n \in {1, PairRoom} : HasCapacity(n) => HasCapacity(n)'
    BY <1>1, <1>c DEF HasCapacity, PairRoom
  <1>8. IsFresh' <=> IsFresh
    BY <1>2 DEF IsFresh
  <1>9. Told(s)
    BY DEF s
  <1>10. Told(Stream)'
    <2>1. /\ HasCapacity(1) => HasCapacity(1)'
          /\ HasCapacity(PairRoom) => HasCapacity(PairRoom)'
      BY <1>7
    <2> QED
      BY <1>2, <1>6, <1>8, <1>9, <2>1 DEF Told, t
  <1> QED
    BY <1>4, <1>6, <1>10 DEF t

\* Nothing is told at first.
LEMMA InitTells ==
    ObservationInit => ObservationTypeOK /\ Told(Stream) /\ InOrder(Stream)
  <1> SUFFICES ASSUME ObservationInit PROVE ObservationTypeOK /\ Told(Stream) /\ InOrder(Stream)
    OBVIOUS
  <1>1. /\ current = View("Idle", NoSession) /\ previous = View("Idle", NoSession)
        /\ initialized = FALSE /\ pushes = <<>> /\ mailbox = <<>> /\ recorded = <<>>
    BY DEF ObservationInit
  <1>2. ObservationTypeOK
    <2>1. current \in [status : Statuses, session : Nat]
      BY <1>1 DEF View, NoSession, Statuses
    <2>2. initialized \in BOOLEAN
      BY <1>1
    <2> QED
      BY <1>1, <2>1, <2>2 DEF ObservationTypeOK
  <1>3. Stream = <<>>
    BY <1>1 DEF Stream
  <1>4. DOMAIN Stream = {}
    BY <1>3
  <1>5. ~initialized /\ previous.session <= current.session
    BY <1>1 DEF View, NoSession
  <1> QED
    BY <1>1, <1>2, <1>4, <1>5, PlansDiffer DEF Told, InOrder, Untold, SessionsAreKnown, IsFresh

\* What is told of each session stays in order.
LEMMA ObservationStepTells ==
    ObservationTypeOK /\ Told(Stream) /\ InOrder(Stream) /\ [ObservationNext]_observationVars
        => ObservationTypeOK' /\ Told(Stream)' /\ InOrder(Stream)'
  <1> DEFINE Inv == ObservationTypeOK /\ Told(Stream) /\ InOrder(Stream)
  <1>1. ASSUME Inv, Observe PROVE Inv'
    <2>1. Stream' = Stream
      BY <1>1 DEF Observe, Stream
    <2> QED
      BY <1>1, <2>1, ObserveTells
  <1>2. ASSUME Inv, Refuse PROVE Inv'
    <2>1. Stream' = Stream
      BY <1>2 DEF Refuse, Stream
    <2> QED
      BY <1>2, <2>1, RefuseTells
  <1>3. ASSUME Inv, UNCHANGED observationVars PROVE Inv'
    <2>1. /\ UNCHANGED <<current, previous, initialized, pushes, mailbox, recorded>>
          /\ Stream' = Stream
      BY <1>3 DEF observationVars, Stream
    <2>2. IsFresh' <=> IsFresh
      BY <2>1 DEF IsFresh
    <2> QED
      BY <1>3, <2>1, <2>2 DEF ObservationTypeOK, Told, HasCapacity
  <1> QED
    BY <1>1, <1>2, <1>3, PushTells, PopTells DEF ObservationNext, ObserveTick

\* The stream that leaves the history mailbox tells of each session in order: its START
\* comes first and once, nothing of it follows its END, and no session is told of after
\* a later one (history_support.cpp, HistoryObservationBuilder::observe()).
THEOREM SessionsToldInOrder == ObservationSpec => []SessionsAreInOrder
  <1> DEFINE Inv == ObservationTypeOK /\ Told(Stream) /\ InOrder(Stream)
  <1>1. ObservationInit => Inv
    BY InitTells
  <1>2. Inv /\ [ObservationNext]_observationVars => Inv'
    BY ObservationStepTells
  <1>3. Inv => SessionsAreInOrder
    BY DEF InOrder, SessionsAreInOrder
  <1> QED
    BY <1>1, <1>2, <1>3, PTL DEF ObservationSpec

----------------------------------------------------------------------------
(* The history mailbox: no END is forgotten.                                 *)

IsTold(kind, s) ==
    \E i \in DOMAIN Stream : Stream[i] = [kind |-> kind, session |-> s]

\* The END of a session that is over has been told, or this call of observe() is about to
\* push it, or the next call with this snapshot plans it.
EndIsOwed ==
    IsTerminal(current) =>
        IF pushes = <<>>
        THEN \/ IsTold("END", current.session)
             \/ IsEnding(current)
             \/ IsTerminalFirstSeen(current)
        ELSE pushes \in {<<"END">>, <<"START", "END">>}

\* A session is never without a status.
EndInv == EndIsOwed /\ (current.session # NoSession => current.status # "Idle")

\* A new snapshot of a session that is over plans its END, or has been told of it.
LEMMA ObserveOwes ==
    ObservationTypeOK /\ Told(Stream) /\ EndInv /\ Observe => EndInv'
  <1> SUFFICES ASSUME ObservationTypeOK, Told(Stream), EndInv, Observe PROVE EndInv'
    OBVIOUS
  <1>1. PICK view \in SameSession \cup NewSession : \E plan \in Plans(view) :
         /\ current' = view
         /\ pushes' = IF IsRefused(view, plan) THEN <<>> ELSE plan
         /\ IF plan = <<>> THEN Remember(view) ELSE UNCHANGED <<previous, initialized>>
    BY DEF Observe
  <1>2. PICK plan \in Plans(view) :
         /\ current' = view
         /\ pushes' = IF IsRefused(view, plan) THEN <<>> ELSE plan
         /\ IF plan = <<>> THEN Remember(view) ELSE UNCHANGED <<previous, initialized>>
    BY <1>1
  <1>3. pushes = <<>> /\ Stream' = Stream
    BY DEF Observe, Stream
  <1>4. /\ view \in [status : Statuses, session : Nat]
        /\ \/ view.session = current.session /\ (IsRunning(view) => IsRunning(current))
           \/ view.session = current.session + 1
    BY NextView
  <1>5. view.session # NoSession => view.status # "Idle"
    <2>1. CASE view \in SameSession
      <3>1. PICK status \in (IF current.session = NoSession THEN {"Idle", "Fault"}
                             ELSE {"Stopped", "Fault"}
                                    \cup {s \in {"Running"} : current.status = "Running"}) :
               view = View(status, current.session)
        BY <2>1 DEF SameSession
      <3> QED
        BY <3>1 DEF View
    <2>2. CASE view \in NewSession
      BY <2>2 DEF NewSession, View
    <2> QED
      BY <2>1, <2>2
  <1>6. ASSUME IsTerminal(view)
        PROVE  IF pushes' = <<>>
               THEN \/ \E i \in DOMAIN Stream : Stream[i] = [kind |-> "END", session |-> view.session]
                    \/ IsEnding(view)'
                    \/ IsTerminalFirstSeen(view)'
               ELSE pushes' \in {<<"END">>, <<"START", "END">>}
    <2>1. ~IsRunning(view) /\ ~IsStarting(view) /\ view.session # NoSession
      BY <1>6 DEF IsTerminal, IsRunning, IsStarting
    <2>2. CASE IsEnding(view)
      <3>1. plan = <<"END">>
        BY <2>1, <2>2 DEF Plans
      <3>2. ~IsRefused(view, plan)
        BY <3>1 DEF IsRefused
      <3> QED
        BY <1>2, <3>1, <3>2, PlansDiffer
    <2>3. CASE ~IsEnding(view) /\ IsTerminalFirstSeen(view)
      <3>1. plan = <<"START", "END">>
        BY <2>1, <2>3 DEF Plans
      <3>2. UNCHANGED <<previous, initialized>>
        BY <1>2, <3>1, PlansDiffer
      <3>3. IsTerminalFirstSeen(view)'
        BY <1>2, <2>3, <3>2 DEF IsTerminalFirstSeen, IsTerminal
      <3> QED
        BY <1>2, <3>1, <3>3, PlansDiffer
    <2>4. CASE ~IsEnding(view) /\ ~IsTerminalFirstSeen(view)
      <3>1. plan = <<>>
        BY <2>1, <2>4 DEF Plans
      <3>2. initialized /\ previous.session = view.session /\ ~IsRunning(previous)
        BY <1>6, <2>1, <2>4 DEF IsTerminalFirstSeen, IsEnding
      <3>3. current.session = view.session
        <4>1. current.session \in Nat /\ previous.session <= current.session
          BY DEF Told, ObservationTypeOK
        <4> QED
          BY <1>4, <3>2, <4>1
      <3>4. ~IsFresh
        BY <3>2, <3>3 DEF IsFresh
      <3>5. ~IsRunning(current)
        BY <1>3, <3>2, <3>4 DEF Told
      <3>6. IsTerminal(current)
        BY <2>1, <3>3, <3>5 DEF EndInv, IsTerminal, IsRunning, ObservationTypeOK, Statuses
      <3>7. IsTold("END", current.session)
        BY <1>3, <3>2, <3>3, <3>6 DEF EndInv, EndIsOwed, IsEnding, IsTerminalFirstSeen
      <3>8. pushes' = <<>>
        BY <1>2, <3>1
      <3> QED
        BY <3>3, <3>7, <3>8 DEF IsTold
    <2> QED
      BY <2>2, <2>3, <2>4
  <1>7. EndIsOwed'
    BY <1>2, <1>3, <1>6 DEF EndIsOwed, IsTold, IsTerminal, IsEnding, IsTerminalFirstSeen
  <1> QED
    BY <1>2, <1>5, <1>7 DEF EndInv

\* A push tells the END, or leaves it for the next push.
LEMMA PushOwes ==
    ObservationTypeOK /\ Told(Stream) /\ EndInv /\ Push => EndInv'
  <1> SUFFICES ASSUME ObservationTypeOK, Told(Stream), EndInv, Push, IsTerminal(current)
               PROVE  EndIsOwed'
    BY DEF EndInv, EndIsOwed, Push, IsTerminal
  <1> DEFINE e == [kind |-> Head(pushes), session |-> current.session]
  <1>1. /\ pushes # <<>> /\ current' = current /\ recorded' = recorded
        /\ mailbox' = Append(mailbox, e) /\ EndsPushes(Tail(pushes))
        /\ pushes \in {<<"END">>, <<"START", "END">>}
    BY DEF Push, EndInv, EndIsOwed
  <1>2. pushes' = Tail(pushes)
    BY <1>1 DEF EndsPushes
  <1>3. e \in Entries
    BY <1>1, PlansDiffer DEF Entries, Lifecycle, ObservationTypeOK
  <1>4. CASE pushes = <<"END">>
    <2>1. pushes' = <<>>
      BY <1>2, <1>4
    <2>2. Stream' \in Seq(Entries) /\ Len(Stream') = Len(Stream) + 1 /\ Stream'[Len(Stream')] = e
      BY <1>1, <1>3, PushedStream
    <2>3. e = [kind |-> "END", session |-> current.session]
      BY <1>4, PlansDiffer
    <2> HIDE DEF e
    <2>4. Len(Stream') \in DOMAIN Stream'
      BY <2>2, StreamIsSeq
    <2> QED
      BY <1>1, <2>1, <2>2, <2>3, <2>4 DEF EndIsOwed, IsTold
  <1>5. CASE pushes = <<"START", "END">>
    <2>1. pushes' = <<"END">>
      BY <1>2, <1>5
    <2> QED
      BY <2>1, PlansDiffer DEF EndIsOwed
  <1> QED
    BY <1>1, <1>4, <1>5

\* A refused END, alone or with its START, is planned again with the next snapshot.
LEMMA RefuseOwes ==
    ObservationTypeOK /\ Told(Stream) /\ EndInv /\ Refuse => EndInv'
  <1> SUFFICES ASSUME ObservationTypeOK, Told(Stream), EndInv, Refuse, IsTerminal(current)
               PROVE  EndIsOwed'
    BY DEF EndInv, EndIsOwed, Refuse, IsTerminal
  <1>1. /\ pushes # <<>> /\ current' = current /\ ~IsAdmitted(Head(pushes))
        /\ pushes \in {<<"END">>, <<"START", "END">>}
    BY DEF Refuse, EndInv, EndIsOwed
  <1>2. IsRetried(Head(pushes))
    BY <1>1, PlansDiffer DEF IsRetried, Lifecycle
  <1>3. pushes' = <<>> /\ UNCHANGED <<previous, initialized>>
    BY <1>2 DEF Refuse
  <1>4. Len(mailbox) \in Nat /\ MailboxCapacity \in Nat /\ Len(mailbox) >= MailboxCapacity
    <2>1. Head(pushes) \in Lifecycle
      BY <1>1, PlansDiffer DEF Lifecycle
    <2> QED
      BY <1>1, <2>1, ObservationAssumption DEF IsAdmitted, Limit, ObservationTypeOK
  <1>5. ~HasCapacity(1) /\ ~HasCapacity(PairRoom)
    BY <1>4 DEF HasCapacity, PairRoom
  <1>6. ~IsRunning(current)
    BY DEF IsTerminal, IsRunning
  <1>7. CASE pushes = <<"END">>
    <2>1. ~IsFresh /\ IsRunning(previous)
      BY <1>5, <1>7 DEF Told
    <2>2. IsEnding(current)
      BY <1>6, <2>1 DEF IsFresh, IsEnding
    <2> QED
      BY <1>1, <1>3, <2>2 DEF EndIsOwed, IsEnding
  <1>8. CASE pushes = <<"START", "END">>
    BY <1>5, <1>8 DEF Told
  <1> QED
    BY <1>1, <1>7, <1>8

\* A pop keeps what has been told of lifecycles.
LEMMA PopOwes == ObservationTypeOK /\ EndInv /\ Pop => EndInv'
  <1> SUFFICES ASSUME ObservationTypeOK, EndInv, Pop PROVE EndInv'
    OBVIOUS
  <1>1. UNCHANGED <<current, previous, initialized, pushes>>
    BY DEF Pop
  <1>2. ASSUME IsTold("END", current.session)
        PROVE  \E j \in DOMAIN Stream' : Stream'[j] = [kind |-> "END", session |-> current.session]
    <2> DEFINE s == Stream
               t == Stream'
               told == [kind |-> "END", session |-> current.session]
    <2>1. /\ Len(mailbox') = Len(mailbox) - 1
          /\ mailbox' \in Seq(Entries) /\ recorded' \in Seq(Entries)
          /\ \/ Len(t) = Len(s) /\ \A i \in 1 .. Len(s) : t[i] = s[i]
             \/ \E k \in 1 .. Len(s) :
                   /\ Len(t) = Len(s) - 1
                   /\ s[k].kind \notin Lifecycle
                   /\ \A i \in 1 .. Len(t) : t[i] = IF i < k THEN s[i] ELSE s[i + 1]
      BY PoppedStream
    <2>2. t = recorded' \o mailbox'
      BY DEF Stream
    <2>3. s \in Seq(Entries) /\ t \in Seq(Entries)
      BY <2>1, <2>2, StreamIsSeq
    <2>4. PICK i \in DOMAIN s : s[i] = told
      BY <1>2 DEF IsTold
    <2>5. told.kind \in Lifecycle
      BY DEF Lifecycle
    <2> HIDE DEF s, t, told
    <2>6. Len(s) \in Nat /\ DOMAIN s = 1 .. Len(s) /\ DOMAIN t = 1 .. Len(t)
      BY <2>3
    <2>7. CASE Len(t) = Len(s) /\ \A n \in 1 .. Len(s) : t[n] = s[n]
      BY <2>4, <2>6, <2>7 DEF t, told
    <2>8. ASSUME NEW k \in 1 .. Len(s), Len(t) = Len(s) - 1, s[k].kind \notin Lifecycle,
                 \A n \in 1 .. Len(t) : t[n] = IF n < k THEN s[n] ELSE s[n + 1]
          PROVE  \E j \in DOMAIN t : t[j] = told
      <3>1. i # k
        BY <2>4, <2>5, <2>8
      <3>2. CASE i < k
        BY <2>4, <2>6, <2>8, <3>2
      <3>3. CASE i > k
        <4>1. i - 1 \in 1 .. Len(t) /\ ~(i - 1 < k) /\ (i - 1) + 1 = i
          BY <2>4, <2>6, <2>8, <3>3
        <4> QED
          BY <2>4, <2>6, <2>8, <4>1
      <3> QED
        BY <2>4, <2>6, <3>1, <3>2, <3>3
    <2> QED
      BY <2>1, <2>7, <2>8 DEF s, t, told
  <1> QED
    BY <1>1, <1>2 DEF EndInv, EndIsOwed, IsTold, IsTerminal, IsEnding, IsTerminalFirstSeen

\* The END of a session that is over is never forgotten, however often the mailbox refused it:
\* until it has been told, observe() is about to push it or plans it again with the next
\* snapshot (HistoryObservationBuilder::observe()); its START has then been told before it
\* (SessionsAreInOrder). What is left of EndsAreRecorded is that both tasks go on.
THEOREM EndsAreOwed == ObservationSpec => []EndIsOwed
  <1> DEFINE Inv == ObservationTypeOK /\ Told(Stream) /\ InOrder(Stream)
  <1>1. ObservationInit => Inv
    BY InitTells
  <1>2. ObservationInit => EndInv
    BY DEF ObservationInit, EndInv, EndIsOwed, IsTerminal, View, NoSession
  <1>3. Inv /\ [ObservationNext]_observationVars => Inv'
    BY ObservationStepTells
  <1>4. Inv /\ EndInv /\ [ObservationNext]_observationVars => EndInv'
    <2>1. ASSUME EndInv, UNCHANGED observationVars PROVE EndInv'
      BY <2>1 DEF observationVars, EndInv, EndIsOwed, IsTold, Stream, IsTerminal, IsEnding,
                  IsTerminalFirstSeen
    <2> QED
      BY <2>1, ObserveOwes, PushOwes, RefuseOwes, PopOwes DEF ObservationNext, ObserveTick
  <1>5. EndInv => EndIsOwed
    BY DEF EndInv
  <1> QED
    BY <1>1, <1>2, <1>3, <1>4, <1>5, PTL DEF ObservationSpec

----------------------------------------------------------------------------
(* The food probes.                                                         *)

DeviceStates == {"Unsynchronized", "Idle", "Converting"}

\* Every variable has its type.
FoodTypeOK ==
    /\ configured \in BOOLEAN
    /\ deviceState \in [Devices -> DeviceStates]
    /\ converting \in BOOLEAN
    /\ activeChannel \in Channels /\ nextChannel \in Channels
    /\ deadlineIsOver \in BOOLEAN
    /\ samples \in [Channels -> [of : 0 .. ChannelCount, isOld : BOOLEAN]]
    /\ adcIsBusy \in [Devices -> BOOLEAN]
    /\ adcChannel \in [Devices -> 0 .. ChannelCount]
    /\ troubled \in SUBSET Devices
    /\ reboots \in 0 .. MaxReboots

\* Only a converter that was seen to be ready is taken for idle.
IdleIsReady == \A d \in Devices : deviceState[d] = "Idle" => ~adcIsBusy[d]

\* A conversion that service() waits for is the active channel's.
ConversionIsActive ==
    converting => adcChannel[DeviceOf[activeChannel]] = activeChannel

SampleInvariant ==
    FoodTypeOK /\ IdleIsReady /\ ConversionIsActive /\ SamplesAreOfTheirChannel

\* The channels, their converters and the next of them.
LEMMA ChannelsLemma ==
    /\ 0 \in Channels
    /\ Channels \subseteq 0 .. ChannelCount
    /\ \A c \in Channels : DeviceOf[c] \in Devices /\ Following(c) \in Channels
    /\ Foreign \in 0 .. ChannelCount
<1>1. ChannelCount \in Nat /\ ChannelCount > 0
  BY FoodProbesAssumption
<1>2. ASSUME NEW c \in Channels PROVE Following(c) \in Channels
  <2>1. c \in Int /\ 0 <= c
    BY <1>1, <1>2 DEF Channels
  <2> QED
    BY <1>1, <2>1 DEF Channels, Following
<1>3. 0 \in Channels /\ Channels \subseteq 0 .. ChannelCount /\ Foreign \in 0 .. ChannelCount
  BY <1>1 DEF Channels, Foreign
<1>4. \A c \in Channels : DeviceOf[c] \in Devices
  BY FoodProbesAssumption
<1> QED
  BY <1>2, <1>3, <1>4

\* At boot no sample is there.
LEMMA FoodInitInvariant == FoodInit => SampleInvariant
<1> SUFFICES ASSUME FoodInit PROVE SampleInvariant
  OBVIOUS
<1>1. samples \in [Channels -> [of : 0 .. ChannelCount, isOld : BOOLEAN]]
  BY ChannelsLemma DEF FoodInit, NoSample
<1>2. FoodTypeOK
  <2>1. 0 \in 0 .. MaxReboots
    BY FoodProbesAssumption
  <2>2. deviceState \in [Devices -> DeviceStates]
    BY DEF FoodInit, DeviceStates, StateAtBoot
  <2>3. adcChannel \in [Devices -> 0 .. ChannelCount]
    BY ChannelsLemma DEF FoodInit
  <2> QED
    BY <1>1, <2>1, <2>2, <2>3, ChannelsLemma DEF FoodInit, FoodTypeOK
<1>3. IdleIsReady /\ ConversionIsActive
  BY DEF FoodInit, IdleIsReady, ConversionIsActive, StateAtBoot
<1>4. SamplesAreOfTheirChannel
  BY DEF FoodInit, SamplesAreOfTheirChannel, NoSample
<1> QED
  BY <1>2, <1>3, <1>4 DEF SampleInvariant

\* A sample that is taken away.
LEMMA InvalidateLemma ==
    ASSUME SampleInvariant, NEW c \in Channels, Invalidate(c)
    PROVE  /\ samples' \in [Channels -> [of : 0 .. ChannelCount, isOld : BOOLEAN]]
           /\ SamplesAreOfTheirChannel'
<1>1. samples \in [Channels -> [of : 0 .. ChannelCount, isOld : BOOLEAN]]
  BY DEF SampleInvariant, FoodTypeOK
<1>2. NoSample \in [of : 0 .. ChannelCount, isOld : BOOLEAN] /\ NoSample.isOld
  BY ChannelsLemma DEF NoSample
<1>3. \A d \in Channels : samples'[d] = IF d = c THEN NoSample ELSE samples[d]
  BY <1>1 DEF Invalidate
<1> QED
  BY <1>1, <1>2, <1>3 DEF Invalidate, SampleInvariant, SamplesAreOfTheirChannel

\* A call of service().
LEMMA ServiceInvariant == SampleInvariant /\ Service => SampleInvariant'
<1> SUFFICES ASSUME SampleInvariant, NEW c \in Channels,
                    \/ StaysUnsynchronized(c) \/ Synchronize(c)
                    \/ ConfigureFails(c) \/ StartFails(c) \/ StartConversion(c)
                    \/ Quarantine(c) \/ TakeSample(c) \/ ValueFails(c)
             PROVE  SampleInvariant'
  BY DEF Service
<1> USE DEF SampleInvariant
<1>c. DeviceOf[c] \in Devices /\ Following(c) \in Channels /\ c \in 0 .. ChannelCount
  BY ChannelsLemma
<1>1. CASE StaysUnsynchronized(c)
  BY <1>1, <1>c DEF StaysUnsynchronized, IsDue, AfterUnknown, FoodTypeOK, adcVars,
     IdleIsReady, ConversionIsActive, SamplesAreOfTheirChannel
<1>2. CASE Synchronize(c)
  BY <1>2, <1>c DEF Synchronize, IsDue, Becomes, FoodTypeOK, DeviceStates, adcVars,
     IdleIsReady, ConversionIsActive, SamplesAreOfTheirChannel
<1>3. CASE ConfigureFails(c)
  <2>1. Invalidate(c)
    BY <1>3 DEF ConfigureFails
  <2> QED
    BY <1>3, <1>c, <2>1, InvalidateLemma
    DEF ConfigureFails, IsDue, FoodTypeOK, adcVars, IdleIsReady, ConversionIsActive
<1>4. CASE StartFails(c)
  <2>1. Invalidate(c)
    BY <1>4 DEF StartFails
  <2>2. adcIsBusy' \in [Devices -> BOOLEAN] /\ adcChannel' \in [Devices -> 0 .. ChannelCount]
    BY <1>4, <1>c DEF StartFails, AdcStarts, adcVars, FoodTypeOK
  <2>3. FoodTypeOK'
    BY <1>4, <1>c, <2>1, <2>2, InvalidateLemma
    DEF StartFails, IsDue, FoodTypeOK, Becomes, DeviceStates, AfterFailedStart
  <2>4. IdleIsReady'
    BY <1>4, <1>c DEF StartFails, IdleIsReady, Becomes, AfterFailedStart, AdcStarts, adcVars,
       FoodTypeOK
  <2>5. ConversionIsActive'
    BY <1>4 DEF StartFails, IsDue, ConversionIsActive
  <2> QED
    BY <2>1, <2>3, <2>4, <2>5, InvalidateLemma
<1>5. CASE StartConversion(c)
  <2>1. FoodTypeOK'
    BY <1>5, <1>c DEF StartConversion, IsDue, FoodTypeOK, Becomes, DeviceStates, AdcStarts
  <2>2. IdleIsReady'
    BY <1>5, <1>c DEF StartConversion, IdleIsReady, Becomes, AdcStarts, FoodTypeOK
  <2>3. ~adcIsBusy[DeviceOf[c]]
    BY <1>5, <1>c DEF StartConversion, IdleIsReady
  <2>4. ConversionIsActive'
    BY <1>5, <1>c, <2>3 DEF StartConversion, IsDue, ConversionIsActive, AdcStarts, FoodTypeOK
  <2> QED
    BY <1>5, <2>1, <2>2, <2>4 DEF StartConversion, SamplesAreOfTheirChannel
<1>6. CASE Quarantine(c)
  <2>1. Invalidate(c)
    BY <1>6 DEF Quarantine
  <2> QED
    BY <1>6, <1>c, <2>1, InvalidateLemma
    DEF Quarantine, Advance, FoodTypeOK, Becomes, DeviceStates, adcVars, IdleIsReady,
        ConversionIsActive
<1>7. CASE TakeSample(c)
  <2>1. adcChannel[DeviceOf[c]] = c
    BY <1>7 DEF TakeSample, IsPolled, ConversionIsActive
  <2>2. /\ samples' \in [Channels -> [of : 0 .. ChannelCount, isOld : BOOLEAN]]
        /\ SamplesAreOfTheirChannel'
    BY <1>7, <1>c, <2>1 DEF TakeSample, Sample, FoodTypeOK, SamplesAreOfTheirChannel
  <2> QED
    BY <1>7, <1>c, <2>2
    DEF TakeSample, Advance, FoodTypeOK, Becomes, DeviceStates, adcVars, IdleIsReady,
        ConversionIsActive
<1>8. CASE ValueFails(c)
  <2>1. Invalidate(c)
    BY <1>8 DEF ValueFails
  <2> QED
    BY <1>8, <1>c, <2>1, InvalidateLemma
    DEF ValueFails, Advance, FoodTypeOK, Becomes, DeviceStates, adcVars, IdleIsReady,
        ConversionIsActive
<1> QED
  BY <1>1, <1>2, <1>3, <1>4, <1>5, <1>6, <1>7, <1>8

\* Every step: calls, converters that complete, samples that age, troubles, resets.
LEMMA FoodStepInvariant == SampleInvariant /\ [FoodNext]_foodVars => SampleInvariant'
<1> SUFFICES ASSUME SampleInvariant, [FoodNext]_foodVars PROVE SampleInvariant'
  OBVIOUS
<1> USE DEF SampleInvariant
<1>1. CASE Service
  BY <1>1, ServiceInvariant
<1>2. CASE DeadlinePasses
  BY <1>2 DEF DeadlinePasses, FoodTypeOK, adcVars, IdleIsReady, ConversionIsActive,
     SamplesAreOfTheirChannel
<1>3. ASSUME NEW c \in Channels, SampleAges(c) PROVE SampleInvariant'
  <2>1. /\ samples' \in [Channels -> [of : 0 .. ChannelCount, isOld : BOOLEAN]]
        /\ SamplesAreOfTheirChannel'
    <3>1. samples \in [Channels -> [of : 0 .. ChannelCount, isOld : BOOLEAN]]
      BY DEF FoodTypeOK
    <3>2. \A e \in Channels :
             samples'[e] = IF e = c THEN [samples[c] EXCEPT !.isOld = TRUE] ELSE samples[e]
      BY <1>3, <3>1 DEF SampleAges
    <3>3. [samples[c] EXCEPT !.isOld = TRUE] \in [of : 0 .. ChannelCount, isOld : BOOLEAN]
      BY <3>1
    <3>4. [samples[c] EXCEPT !.isOld = TRUE].isOld
      BY <3>1
    <3>5. samples' = [e \in Channels |-> samples'[e]]
      BY <1>3, <3>1 DEF SampleAges
    <3> QED
      BY <3>1, <3>2, <3>3, <3>4, <3>5 DEF SamplesAreOfTheirChannel
  <2> QED
    BY <1>3, <2>1 DEF SampleAges, FoodTypeOK, adcVars, IdleIsReady, ConversionIsActive
<1>4. ASSUME NEW d \in Devices, AdcCompletes(d) PROVE SampleInvariant'
  BY <1>4 DEF AdcCompletes, softwareVars, FoodTypeOK, IdleIsReady, ConversionIsActive,
     SamplesAreOfTheirChannel
<1>5. ASSUME NEW d \in Devices, TroubleChanges(d) PROVE SampleInvariant'
  BY <1>5 DEF TroubleChanges, softwareVars, adcVars, FoodTypeOK, IdleIsReady,
     ConversionIsActive, SamplesAreOfTheirChannel
<1>6. CASE Reboot
  <2>1. /\ samples' \in [Channels -> [of : 0 .. ChannelCount, isOld : BOOLEAN]]
        /\ SamplesAreOfTheirChannel'
    BY <1>6, ChannelsLemma DEF Reboot, NoSample, SamplesAreOfTheirChannel
  <2>2. FoodTypeOK'
    <3>1. reboots' \in 0 .. MaxReboots
      BY <1>6, FoodProbesAssumption DEF Reboot, FoodTypeOK
    <3>2. deviceState' \in [Devices -> DeviceStates]
      BY <1>6 DEF Reboot, DeviceStates, StateAtBoot
    <3>3. adcChannel' \in [Devices -> 0 .. ChannelCount]
      BY <1>6, ChannelsLemma DEF Reboot
    <3> QED
      BY <1>6, <2>1, <3>1, <3>2, <3>3, ChannelsLemma DEF Reboot, FoodTypeOK
  <2> QED
    BY <1>6, <2>1, <2>2 DEF Reboot, IdleIsReady, ConversionIsActive, StateAtBoot
<1>7. CASE UNCHANGED foodVars
  BY <1>7 DEF foodVars, softwareVars, adcVars, FoodTypeOK, IdleIsReady, ConversionIsActive,
     SamplesAreOfTheirChannel
<1> QED
  BY <1>1, <1>2, <1>3, <1>4, <1>5, <1>6, <1>7 DEF FoodNext

\* Whatever fails, and whenever the MCU is reset, no result of a conversion is taken for
\* another channel's, nor one that was started before the reset.
THEOREM SamplesSafe == FoodSpec => []SamplesAreOfTheirChannel
<1>1. SampleInvariant => SamplesAreOfTheirChannel
  BY DEF SampleInvariant
<1> QED
  BY <1>1, FoodInitInvariant, FoodStepInvariant, PTL DEF FoodSpec
=============================================================================
