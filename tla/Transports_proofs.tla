---------------------------- MODULE Transports_proofs ----------------------------
(***************************************************************************)
(* The two transports of commands, HTTP and Blynk, for any constants: the   *)
(* command mailbox is a bounded queue across the wrap of its sequences;     *)
(* HTTP's configuration in force is accounted for, a session ends with its  *)
(* password, and a peer is blocked only for failures of its own; and        *)
(* commands of Blynk and their results keep to the connection they belong   *)
(* to, and no connection that lasts is left without the status.             *)
(***************************************************************************)
EXTENDS CommandMailbox, HttpAccess, BlynkConnection, FiniteSetTheorems, TLAPS

----------------------------------------------------------------------------
(* Sequences that wrap.                                                      *)

\* The remainder near zero.
LEMMA Remainders ==
    ASSUME NEW m \in Nat \ {0}, NEW a \in Int
    PROVE  /\ a % m \in 0 .. m - 1
           /\ a \in 0 .. m - 1 => a % m = a
           /\ a \in m .. 2 * m - 1 => a % m = a - m
           /\ a \in -m .. -1 => a % m = a + m
  OBVIOUS

\* The remainder of a division, by its quotient,
LEMMA UniqueRemainder ==
    ASSUME NEW m \in Nat \ {0}, NEW q \in Int, NEW r \in 0 .. m - 1
    PROVE  (m * q + r) % m = r
  OBVIOUS

\* and the other way round.
LEMMA Quotient ==
    ASSUME NEW m \in Nat \ {0}, NEW a \in Int
    PROVE  a \div m \in Int /\ a = m * (a \div m) + (a % m) /\ a % m \in 0 .. m - 1
  OBVIOUS

\* The constants: the ring has places, and its sequences wrap with it.
LEMMA Assumed ==
    /\ Capacity \in Nat /\ Capacity > 1
    /\ Modulus \in Nat /\ Modulus > Capacity
  BY MailboxAssumption

\* The wrap of a sequence is a multiple of the capacity.
LEMMA CapacityDivides ==
    Modulus \div Capacity \in Int /\ Modulus = Capacity * (Modulus \div Capacity)
  <1>1. Capacity \in Nat \ {0} /\ Modulus \in Int /\ Modulus % Capacity = 0
    BY MailboxAssumption
  <1>2. /\ Modulus \div Capacity \in Int
        /\ Modulus = Capacity * (Modulus \div Capacity) + (Modulus % Capacity)
    BY <1>1, Quotient
  <1>3. Modulus = Capacity * (Modulus \div Capacity)
    BY <1>1, <1>2
  <1> QED
    BY <1>2, <1>3

Sequences == 0 .. Modulus - 1

\* A sum or a difference of two sequences, wrapped.
WrappedIs(a) ==
    a % Modulus = IF a < 0 THEN a + Modulus ELSE IF a < Modulus THEN a ELSE a - Modulus

\* A number less than a turn away wraps once at most.
LEMMA WrapLemma ==
    ASSUME NEW a \in Int, -Modulus <= a, a < 2 * Modulus
    PROVE  WrappedIs(a)
  <1>1. Modulus \in Nat \ {0}
    BY Assumed
  <1>2. /\ a \in 0 .. Modulus - 1 => a % Modulus = a
        /\ a \in Modulus .. 2 * Modulus - 1 => a % Modulus = a - Modulus
        /\ a \in -Modulus .. -1 => a % Modulus = a + Modulus
    BY <1>1, Remainders
  <1>3. a \in 0 .. Modulus - 1 \/ a \in Modulus .. 2 * Modulus - 1 \/ a \in -Modulus .. -1
    BY <1>1
  <1> QED
    BY <1>1, <1>2, <1>3 DEF WrappedIs

\* The sequence that is k after another.
After(sequence, k) == (sequence + k) % Modulus

\* A sequence wraps once at most within a capacity.
LEMMA AfterIs ==
    ASSUME NEW r \in Sequences, NEW k \in 0 .. Capacity
    PROVE  /\ After(r, k) \in Sequences
           /\ After(r, k) = IF r + k < Modulus THEN r + k ELSE r + k - Modulus
  <1>1. Modulus \in Nat \ {0} /\ r + k \in 0 .. 2 * Modulus - 1
    BY Assumed DEF Sequences
  <1>2. WrappedIs(r + k)
    BY <1>1, WrapLemma
  <1> QED
    BY <1>1, <1>2 DEF Sequences, After, WrappedIs

\* What is pending is the distance from the one to the other.
LEMMA PendingIs ==
    ASSUME NEW w \in Sequences, NEW r \in Sequences
    PROVE  /\ Pending(w, r) \in 0 .. Modulus - 1
           /\ Pending(w, r) = IF w >= r THEN w - r ELSE w - r + Modulus
  <1>1. Modulus \in Nat \ {0} /\ w - r \in -Modulus .. Modulus - 1
    BY Assumed DEF Sequences
  <1>2. WrappedIs(w - r)
    BY <1>1, WrapLemma
  <1> QED
    BY <1>1, <1>2 DEF Sequences, Pending, WrappedIs

\* The next sequence.
LEMMA SuccessorIs ==
    ASSUME NEW s \in Sequences
    PROVE  /\ Successor(s) \in Sequences
           /\ Successor(s) = IF s + 1 < Modulus THEN s + 1 ELSE 0
  <1>1. Modulus \in Nat \ {0} /\ s + 1 \in 0 .. 2 * Modulus - 1
    BY Assumed DEF Sequences
  <1>2. WrappedIs(s + 1)
    BY <1>1, WrapLemma
  <1> QED
    BY <1>1, <1>2 DEF Sequences, Successor, WrappedIs

\* How the distance changes with either sequence.
LEMMA Distances ==
    ASSUME NEW w \in Sequences, NEW r \in Sequences, Pending(w, r) \in 0 .. Capacity
    PROVE  /\ w = After(r, Pending(w, r))
           /\ w = r <=> Pending(w, r) = 0
           /\ Pending(w, r) < Capacity => Pending(Successor(w), r) = Pending(w, r) + 1
           /\ w # r => Pending(w, Successor(r)) = Pending(w, r) - 1
  <1>1. Pending(w, r) = IF w >= r THEN w - r ELSE w - r + Modulus
    BY PendingIs
  <1>2. /\ w \in 0 .. Modulus - 1 /\ r \in 0 .. Modulus - 1
        /\ Modulus \in Nat /\ Capacity \in Nat /\ Modulus > Capacity
    BY Assumed DEF Sequences
  <1>3. w = After(r, Pending(w, r))
    <2>1. After(r, Pending(w, r)) =
             IF r + Pending(w, r) < Modulus THEN r + Pending(w, r)
                                            ELSE r + Pending(w, r) - Modulus
      BY AfterIs
    <2> QED
      BY <1>1, <1>2, <2>1
  <1>4. w = r <=> Pending(w, r) = 0
    BY <1>1, <1>2
  <1>5. ASSUME Pending(w, r) < Capacity PROVE Pending(Successor(w), r) = Pending(w, r) + 1
    <2>1. /\ Successor(w) \in Sequences
          /\ Successor(w) = IF w + 1 < Modulus THEN w + 1 ELSE 0
      BY SuccessorIs
    <2>2. Pending(Successor(w), r) = IF Successor(w) >= r THEN Successor(w) - r
                                                         ELSE Successor(w) - r + Modulus
      BY <2>1, PendingIs
    <2> QED
      BY <1>1, <1>2, <1>5, <2>1, <2>2
  <1>6. ASSUME w # r PROVE Pending(w, Successor(r)) = Pending(w, r) - 1
    <2>1. /\ Successor(r) \in Sequences
          /\ Successor(r) = IF r + 1 < Modulus THEN r + 1 ELSE 0
      BY SuccessorIs
    <2>2. Pending(w, Successor(r)) = IF w >= Successor(r) THEN w - Successor(r)
                                                         ELSE w - Successor(r) + Modulus
      BY <2>1, PendingIs
    <2> QED
      BY <1>1, <1>2, <1>6, <2>1, <2>2
  <1> QED
    BY <1>3, <1>4, <1>5, <1>6

\* Counting from the next sequence.
LEMMA AfterSuccessor ==
    ASSUME NEW r \in Sequences, NEW k \in 0 .. Capacity - 1
    PROVE  After(Successor(r), k) = After(r, k + 1)
  <1>1. /\ Successor(r) \in Sequences
        /\ Successor(r) = IF r + 1 < Modulus THEN r + 1 ELSE 0
    BY SuccessorIs
  <1>2. /\ k \in 0 .. Capacity /\ k + 1 \in 0 .. Capacity /\ r \in 0 .. Modulus - 1
        /\ Modulus \in Nat /\ Capacity \in Nat /\ Modulus > Capacity
    BY Assumed DEF Sequences
  <1>3. After(Successor(r), k) = IF Successor(r) + k < Modulus THEN Successor(r) + k
                                                              ELSE Successor(r) + k - Modulus
    BY <1>1, <1>2, AfterIs
  <1>4. After(r, k + 1) = IF r + (k + 1) < Modulus THEN r + (k + 1)
                                                  ELSE r + (k + 1) - Modulus
    BY <1>2, AfterIs
  <1> QED
    BY <1>1, <1>2, <1>3, <1>4

\* The slot of a sequence does not depend on its wraps: the capacity divides the modulus.
LEMMA SlotOfWrapped ==
    ASSUME NEW x \in 0 .. 2 * Modulus - 1
    PROVE  (x % Modulus) % Capacity = x % Capacity
  <1> DEFINE p == Modulus \div Capacity
             q == x \div Capacity
             s == x % Capacity
  <1>0. Capacity \in Nat \ {0} /\ Modulus \in Nat \ {0} /\ x \in Int
    BY Assumed
  <1>1. p \in Int /\ Modulus = Capacity * p
    BY CapacityDivides
  <1>2. q \in Int /\ x = Capacity * q + s /\ s \in 0 .. Capacity - 1
    BY <1>0, Quotient
  <1>w. WrappedIs(x)
    BY <1>0, WrapLemma
  <1>3. CASE x < Modulus
    <2>1. x % Modulus = x
      BY <1>0, <1>w, <1>3 DEF WrappedIs
    <2> QED
      BY <2>1
  <1>4. CASE x >= Modulus
    <2>1. x % Modulus = x - Modulus
      BY <1>0, <1>w, <1>4 DEF WrappedIs
    <2>5. (x % Modulus) % Capacity = (x - Modulus) % Capacity
      BY <2>1
    <2> HIDE DEF p, q, s
    <2>2. q - p \in Int /\ x - Modulus = Capacity * (q - p) + s
      BY <1>0, <1>1, <1>2
    <2>3. (Capacity * (q - p) + s) % Capacity = s
      BY <1>0, <1>2, <2>2, UniqueRemainder
    <2>4. (x % Modulus) % Capacity = s
      BY <2>5, <2>2, <2>3
    <2> QED
      BY <2>4 DEF s
  <1> QED
    BY <1>0, <1>3, <1>4

\* Fewer sequences in a row than there are slots have each its own.
LEMMA SlotsDiffer ==
    ASSUME NEW r \in Sequences, NEW i \in 0 .. Capacity - 1, NEW j \in 0 .. Capacity - 1,
           i # j
    PROVE  Slot(After(r, i)) # Slot(After(r, j))
  <1>0. r + i \in 0 .. 2 * Modulus - 1 /\ r + j \in 0 .. 2 * Modulus - 1
    BY Assumed DEF Sequences
  <1>c. Capacity \in Nat \ {0} /\ r + i \in Int /\ r + j \in Int
    BY <1>0, Assumed
  <1>1. Slot(After(r, i)) = (r + i) % Capacity /\ Slot(After(r, j)) = (r + j) % Capacity
    BY <1>0, SlotOfWrapped DEF Slot, After
  <1> SUFFICES ASSUME (r + i) % Capacity = (r + j) % Capacity PROVE FALSE
    BY <1>1
  <1> DEFINE u == (r + i) \div Capacity
             v == (r + j) \div Capacity
             s == (r + i) % Capacity
  <1>2. u \in Int /\ r + i = Capacity * u + s /\ s \in 0 .. Capacity - 1
    BY <1>0, <1>c, Quotient
  <1>3. v \in Int /\ r + j = Capacity * v + s
    BY <1>0, <1>c, Quotient
  <1> HIDE DEF u, v, s
  <1>4. i - j = Capacity * (u - v)
    BY <1>2, <1>3, Assumed DEF Sequences
  <1>5. u - v # 0
    BY <1>2, <1>3, <1>4, Assumed
  <1>6. CASE u - v >= 1
    <2>1. Capacity * (u - v) >= Capacity
      BY <1>2, <1>3, <1>6, Assumed
    <2> QED
      BY <1>4, <2>1, Assumed
  <1>7. CASE u - v <= -1
    <2>1. Capacity * (u - v) <= -Capacity
      BY <1>2, <1>3, <1>7, Assumed
    <2> QED
      BY <1>4, <2>1, Assumed
  <1> QED
    BY <1>2, <1>3, <1>5, <1>6, <1>7

\* Every sequence has a slot.
LEMMA SlotIsOne ==
    ASSUME NEW s \in Sequences
    PROVE  Slot(s) \in 0 .. Capacity - 1
  BY Remainders, Assumed DEF Sequences, Slot

----------------------------------------------------------------------------
(* The ring, and the calls on its two sides.                                 *)

\* What a slot, or the consumer's copy of it, may hold.
Copies == [command : Commands \cup {None}, tag : Tags \cup {None}]

MailboxTypeOK ==
    /\ commands \in [0 .. Capacity - 1 -> Copies]
    /\ readSequence \in Sequences
    /\ writeSequence \in Sequences
    /\ producerStep \in {"idle", "admit", "command", "tag", "store"}
    /\ IF producerStep = "idle" THEN offered = None ELSE offered \in TransportCommands
    /\ consumerStep \in {"idle", "command", "tag", "store"}
    /\ popped \in Copies

Distance == Pending(writeSequence, readSequence)

\* The ring is never overfull, an admitted message still has its place, and a message
\* that is being taken is still there.
RoomIsKept ==
    /\ Distance <= Capacity
    /\ producerStep \in {"command", "tag", "store"} =>
          Distance < AdmissionLimit(offered.command)
    /\ consumerStep # "idle" => Distance > 0

\* What has been copied, on either side, is what it was copied from.
CopiesAreWhole ==
    /\ producerStep \in {"tag", "store"} =>
          commands[Slot(writeSequence)].command = offered.command
    /\ producerStep = "store" => commands[Slot(writeSequence)].tag = offered.tag
    /\ consumerStep \in {"tag", "store"} =>
          popped.command = commands[Slot(readSequence)].command
    /\ consumerStep = "store" => popped.tag = commands[Slot(readSequence)].tag

MailboxInv == MailboxTypeOK /\ RoomIsKept /\ CopiesAreWhole

\* A message is two halves.
LEMMA MessagesAreCopies ==
    /\ TransportCommands \subseteq Copies /\ None \notin TransportCommands
    /\ \A m \in TransportCommands : m.command \in Commands /\ m.tag \in Tags
                           /\ m = [command |-> m.command, tag |-> m.tag]
  BY MailboxAssumption DEF TransportCommands, Copies

\* The room a message may take is that of the queue.
LEMMA LimitIs ==
    ASSUME NEW m \in TransportCommands
    PROVE  /\ AdmissionLimit(m.command) \in {Capacity - 1, Capacity}
           /\ Queue!Limit(m) = AdmissionLimit(m.command)
  <1>1. m \in [command : {Stop}, tag : Tags] <=> m.command = Stop
    BY DEF TransportCommands
  <1> QED
    BY <1>1 DEF AdmissionLimit, Queue!Limit

\* An empty ring.
LEMMA InitMailbox == MailboxInit => MailboxInv
  <1> SUFFICES ASSUME MailboxInit PROVE MailboxInv
    OBVIOUS
  <1>1. 0 \in Sequences
    BY Assumed DEF Sequences
  <1>2. Pending(0, 0) = 0
    BY <1>1, PendingIs
  <1>3. [command |-> None, tag |-> None] \in Copies
    BY DEF Copies
  <1>4. MailboxTypeOK
    BY <1>1, <1>3 DEF MailboxInit, MailboxTypeOK
  <1>5. RoomIsKept
    BY <1>2, Assumed DEF MailboxInit, RoomIsKept, Distance
  <1> QED
    BY <1>4, <1>5 DEF MailboxInit, MailboxInv, CopiesAreWhole

\* The producer's slot is none of those that are pending.
LEMMA FreeSlot ==
    ASSUME MailboxInv, Distance < Capacity
    PROVE  /\ Distance \in 0 .. Capacity - 1
           /\ writeSequence = After(readSequence, Distance)
           /\ \A k \in 0 .. Distance - 1 :
                 Slot(After(readSequence, k)) # Slot(writeSequence)
           /\ Distance > 0 => Slot(readSequence) # Slot(writeSequence)
  <1>1. Distance \in 0 .. Capacity - 1
    BY PendingIs, Assumed DEF MailboxInv, MailboxTypeOK, RoomIsKept, Distance
  <1>2. writeSequence = After(readSequence, Distance)
    BY <1>1, Distances, Assumed DEF MailboxInv, MailboxTypeOK, Distance
  <1>3. \A k \in 0 .. Distance - 1 : Slot(After(readSequence, k)) # Slot(writeSequence)
    <2> SUFFICES ASSUME NEW k \in 0 .. Distance - 1
                 PROVE  Slot(After(readSequence, k)) # Slot(writeSequence)
      OBVIOUS
    <2>1. k \in 0 .. Capacity - 1 /\ k # Distance
      BY <1>1, Assumed
    <2>2. readSequence \in Sequences
      BY DEF MailboxInv, MailboxTypeOK
    <2> QED
      BY <1>1, <1>2, <2>1, <2>2, SlotsDiffer
  <1>4. After(readSequence, 0) = readSequence
    <2>1. readSequence \in Sequences /\ 0 \in 0 .. Capacity
      BY Assumed DEF MailboxInv, MailboxTypeOK
    <2>2. After(readSequence, 0) = IF readSequence + 0 < Modulus THEN readSequence + 0
                                   ELSE readSequence + 0 - Modulus
      BY <2>1, AfterIs
    <2> QED
      BY <2>1, <2>2, Assumed DEF Sequences
  <1>5. Distance > 0 => 0 \in 0 .. Distance - 1
    BY <1>1, Assumed
  <1> QED
    BY <1>1, <1>2, <1>3, <1>4, <1>5

\* The producer's steps that neither copy nor store.
LEMMA ProducerWaits ==
    ASSUME MailboxInv, BeginPush \/ LoadReadSequence \/ RefusePush
    PROVE  MailboxInv'
  <1>1. UNCHANGED <<commands, readSequence, writeSequence, consumerStep, popped>>
    BY DEF BeginPush, LoadReadSequence, RefusePush, consumerVars
  <1>2. Distance' = Distance /\ \A command : AdmissionLimit(command)' = AdmissionLimit(command)
    BY <1>1 DEF Distance, AdmissionLimit
  <1>3. MailboxTypeOK'
    BY <1>1 DEF MailboxInv, MailboxTypeOK, BeginPush, LoadReadSequence, RefusePush
  <1>4. RoomIsKept'
    BY <1>1, <1>2 DEF MailboxInv, RoomIsKept, BeginPush, LoadReadSequence, RefusePush, IsAdmitted,
       Distance
  <1>5. CopiesAreWhole'
    BY <1>1 DEF MailboxInv, CopiesAreWhole, BeginPush, LoadReadSequence, RefusePush
  <1> QED
    BY <1>3, <1>4, <1>5 DEF MailboxInv

\* A half is copied, into the slot that is free.
LEMMA ProducerCopies ==
    ASSUME MailboxInv, CopyCommand \/ CopyTag
    PROVE  /\ MailboxInv'
           /\ \A k \in 0 .. Distance - 1 :
                 commands'[Slot(After(readSequence, k))] = commands[Slot(After(readSequence, k))]
  <1>1. UNCHANGED <<readSequence, writeSequence, offered, consumerStep, popped>>
    BY DEF CopyCommand, CopyTag, consumerVars
  <1>2. offered \in TransportCommands /\ producerStep \in {"command", "tag"}
    BY DEF CopyCommand, CopyTag, MailboxInv, MailboxTypeOK
  <1>3. Distance < Capacity /\ Distance' = Distance
    <2>1. AdmissionLimit(offered.command) \in {Capacity - 1, Capacity}
      BY <1>2, LimitIs
    <2>2. Distance < AdmissionLimit(offered.command)
      BY <1>2 DEF MailboxInv, RoomIsKept
    <2>3. Distance \in Nat /\ Capacity \in Nat
      BY PendingIs, Assumed DEF MailboxInv, MailboxTypeOK, Distance
    <2> QED
      BY <1>1, <2>1, <2>2, <2>3 DEF Distance
  <1>4. /\ \A k \in 0 .. Distance - 1 : Slot(After(readSequence, k)) # Slot(writeSequence)
        /\ Distance > 0 => Slot(readSequence) # Slot(writeSequence)
    BY <1>3, FreeSlot
  <1>5. Slot(writeSequence) \in 0 .. Capacity - 1 /\ Slot(readSequence) \in 0 .. Capacity - 1
    BY SlotIsOne DEF MailboxInv, MailboxTypeOK
  <1>6. commands \in [0 .. Capacity - 1 -> Copies]
    BY DEF MailboxInv, MailboxTypeOK
  <1>7. /\ commands' \in [0 .. Capacity - 1 -> Copies]
        /\ \A slot \in 0 .. Capacity - 1 :
              slot # Slot(writeSequence) => commands'[slot] = commands[slot]
        /\ producerStep = "command" =>
              commands'[Slot(writeSequence)].command = offered.command
        /\ producerStep = "tag" =>
              /\ commands'[Slot(writeSequence)].tag = offered.tag
              /\ commands'[Slot(writeSequence)].command = commands[Slot(writeSequence)].command
    <2>1. offered.command \in Commands /\ offered.tag \in Tags
      BY <1>2, MessagesAreCopies
    <2>2. commands[Slot(writeSequence)] \in Copies
      BY <1>5, <1>6
    <2>3. CASE CopyCommand
      BY <1>5, <1>6, <2>1, <2>2, <2>3 DEF CopyCommand, Copies
    <2>4. CASE CopyTag
      BY <1>5, <1>6, <2>1, <2>2, <2>4 DEF CopyTag, Copies
    <2> QED
      BY <2>3, <2>4
  <1>8. MailboxTypeOK'
    BY <1>1, <1>7 DEF MailboxInv, MailboxTypeOK, CopyCommand, CopyTag
  <1>9. RoomIsKept'
    BY <1>1, <1>3 DEF MailboxInv, RoomIsKept, AdmissionLimit, CopyCommand, CopyTag
  <1>10. CopiesAreWhole'
    <2>1. Slot(writeSequence)' = Slot(writeSequence) /\ Slot(readSequence)' = Slot(readSequence)
      BY <1>1 DEF Slot
    <2>2. consumerStep # "idle" => commands'[Slot(readSequence)] = commands[Slot(readSequence)]
      BY <1>4, <1>5, <1>7 DEF MailboxInv, RoomIsKept
    <2> QED
      BY <1>1, <1>7, <2>1, <2>2 DEF MailboxInv, CopiesAreWhole, CopyCommand, CopyTag
  <1>11. \A k \in 0 .. Distance - 1 :
           commands'[Slot(After(readSequence, k))] = commands[Slot(After(readSequence, k))]
    <2> SUFFICES ASSUME NEW k \in 0 .. Distance - 1
                 PROVE  commands'[Slot(After(readSequence, k))]
                            = commands[Slot(After(readSequence, k))]
      OBVIOUS
    <2>0. Distance \in Nat /\ Capacity \in Nat
      BY PendingIs, Assumed DEF MailboxInv, MailboxTypeOK, Distance
    <2>1. readSequence \in Sequences /\ k \in 0 .. Capacity
      BY <1>3, <2>0 DEF MailboxInv, MailboxTypeOK
    <2>2. Slot(After(readSequence, k)) \in 0 .. Capacity - 1
      BY <2>1, AfterIs, SlotIsOne
    <2> QED
      BY <1>4, <1>7, <2>2
  <1> QED
    BY <1>8, <1>9, <1>10, <1>11 DEF MailboxInv

\* The message is counted.
LEMMA ProducerStores ==
    ASSUME MailboxInv, StoreWriteSequence
    PROVE  /\ MailboxInv'
           /\ Distance < AdmissionLimit(offered.command) /\ Distance < Capacity
           /\ Distance' = Distance + 1
           /\ commands[Slot(writeSequence)] = offered
  <1>1. /\ UNCHANGED <<commands, readSequence, consumerStep, popped>>
        /\ writeSequence' = Successor(writeSequence)
        /\ offered' = None /\ producerStep' = "idle" /\ producerStep = "store"
    BY DEF StoreWriteSequence, consumerVars
  <1>2. offered \in TransportCommands /\ Distance < AdmissionLimit(offered.command)
    BY <1>1 DEF MailboxInv, MailboxTypeOK, RoomIsKept
  <1>3. AdmissionLimit(offered.command) \in {Capacity - 1, Capacity}
    BY <1>2, LimitIs
  <1>4. /\ Distance \in Nat /\ Capacity \in Nat
        /\ writeSequence \in Sequences /\ readSequence \in Sequences
    BY PendingIs, Assumed DEF MailboxInv, MailboxTypeOK, Distance
  <1>5. Distance < Capacity
    BY <1>2, <1>3, <1>4
  <1>6. Distance' = Distance + 1
    <2>1. Pending(writeSequence, readSequence) \in 0 .. Capacity
      BY <1>4, <1>5 DEF Distance
    <2>2. Pending(Successor(writeSequence), readSequence)
             = Pending(writeSequence, readSequence) + 1
      BY <1>4, <1>5, <2>1, Distances DEF Distance
    <2> QED
      BY <1>1, <2>2 DEF Distance
  <1>7. commands[Slot(writeSequence)] = offered
    <2>1. commands[Slot(writeSequence)] \in Copies
      BY <1>4, SlotIsOne DEF MailboxInv, MailboxTypeOK
    <2>2. /\ commands[Slot(writeSequence)].command = offered.command
          /\ commands[Slot(writeSequence)].tag = offered.tag
      BY <1>1 DEF MailboxInv, CopiesAreWhole
    <2> QED
      BY <1>2, <2>1, <2>2 DEF Copies, TransportCommands
  <1>8. MailboxTypeOK'
    BY <1>1, <1>4, SuccessorIs DEF MailboxInv, MailboxTypeOK
  <1>9. RoomIsKept'
    <2>1. Distance' <= Capacity /\ Distance' > 0
      BY <1>4, <1>5, <1>6
    <2> QED
      BY <1>1, <2>1 DEF RoomIsKept
  <1>10. CopiesAreWhole'
    BY <1>1 DEF MailboxInv, CopiesAreWhole, Slot
  <1> QED
    BY <1>2, <1>5, <1>6, <1>7, <1>8, <1>9, <1>10 DEF MailboxInv

\* The consumer's steps before its store.
LEMMA ConsumerTakes ==
    ASSUME MailboxInv, LoadWriteSequence \/ FindEmpty \/ TakeCommand \/ TakeTag
    PROVE  MailboxInv' /\ Distance' = Distance
  <1>1. UNCHANGED <<commands, readSequence, writeSequence, producerStep, offered>>
    BY DEF LoadWriteSequence, FindEmpty, TakeCommand, TakeTag, producerVars
  <1>2. /\ Distance' = Distance /\ \A command : AdmissionLimit(command)' = AdmissionLimit(command)
        /\ Slot(writeSequence)' = Slot(writeSequence) /\ Slot(readSequence)' = Slot(readSequence)
    BY <1>1 DEF Distance, AdmissionLimit, Slot
  <1>3. commands[Slot(readSequence)] \in Copies /\ popped \in Copies
    BY SlotIsOne DEF MailboxInv, MailboxTypeOK
  <1>4. popped' \in Copies
    BY <1>3 DEF LoadWriteSequence, FindEmpty, TakeCommand, TakeTag, Copies
  <1>5. MailboxTypeOK'
    BY <1>1, <1>4 DEF MailboxInv, MailboxTypeOK, LoadWriteSequence, FindEmpty, TakeCommand,
       TakeTag
  <1>6. RoomIsKept'
    <2>1. readSequence # writeSequence => Distance > 0
      <3>1. Distance \in 0 .. Capacity
        BY PendingIs, Assumed DEF MailboxInv, MailboxTypeOK, RoomIsKept, Distance
      <3>2. writeSequence = readSequence <=> Distance = 0
        BY <3>1, Distances DEF MailboxInv, MailboxTypeOK, Distance
      <3> QED
        BY <3>1, <3>2, Assumed
    <2>2. consumerStep' # "idle" => consumerStep # "idle" \/ readSequence # writeSequence
      BY DEF LoadWriteSequence, FindEmpty, TakeCommand, TakeTag
    <2>3. consumerStep' # "idle" => Distance > 0
      BY <2>1, <2>2 DEF MailboxInv, RoomIsKept
    <2> QED
      BY <1>1, <1>2, <2>3 DEF MailboxInv, RoomIsKept
  <1>7. CopiesAreWhole'
    <2>1. consumerStep' \in {"tag", "store"} =>
             popped'.command = commands[Slot(readSequence)].command
      BY <1>3 DEF MailboxInv, CopiesAreWhole, LoadWriteSequence, FindEmpty, TakeCommand,
         TakeTag, Copies
    <2>2. consumerStep' = "store" => popped'.tag = commands[Slot(readSequence)].tag
      BY <1>3 DEF MailboxInv, CopiesAreWhole, LoadWriteSequence, FindEmpty, TakeCommand,
         TakeTag, Copies
    <2> QED
      BY <1>1, <1>2, <2>1, <2>2 DEF MailboxInv, CopiesAreWhole
  <1> QED
    BY <1>2, <1>5, <1>6, <1>7 DEF MailboxInv

\* The message is taken out.
LEMMA ConsumerStores ==
    ASSUME MailboxInv, StoreReadSequence
    PROVE  /\ MailboxInv'
           /\ Distance > 0 /\ Distance' = Distance - 1
           /\ popped = commands[Slot(readSequence)]
  <1>1. /\ UNCHANGED <<commands, writeSequence, producerStep, offered>>
        /\ readSequence' = Successor(readSequence)
        /\ consumerStep = "store" /\ consumerStep' = "idle"
        /\ popped' = [command |-> None, tag |-> None]
    BY DEF StoreReadSequence, producerVars
  <1>2. /\ Distance \in 0 .. Capacity /\ Distance > 0 /\ Capacity \in Nat
        /\ writeSequence \in Sequences /\ readSequence \in Sequences
    BY <1>1, PendingIs, Assumed DEF MailboxInv, MailboxTypeOK, RoomIsKept, Distance
  <1>3. Distance' = Distance - 1
    <2>1. Pending(writeSequence, readSequence) \in 0 .. Capacity
      BY <1>2 DEF Distance
    <2>2. writeSequence # readSequence
      BY <1>2, <2>1, Distances DEF Distance
    <2>3. Pending(writeSequence, Successor(readSequence))
             = Pending(writeSequence, readSequence) - 1
      BY <1>2, <2>1, <2>2, Distances
    <2> QED
      BY <1>1, <2>3 DEF Distance
  <1>4. popped = commands[Slot(readSequence)]
    <2>1. commands[Slot(readSequence)] \in Copies /\ popped \in Copies
      BY <1>2, SlotIsOne DEF MailboxInv, MailboxTypeOK
    <2>2. /\ popped.command = commands[Slot(readSequence)].command
          /\ popped.tag = commands[Slot(readSequence)].tag
      BY <1>1 DEF MailboxInv, CopiesAreWhole
    <2> QED
      BY <2>1, <2>2 DEF Copies
  <1>5. MailboxTypeOK'
    <2>1. popped' \in Copies
      BY <1>1 DEF Copies
    <2>2. readSequence' \in Sequences
      BY <1>1, <1>2, SuccessorIs
    <2> QED
      BY <1>1, <2>1, <2>2 DEF MailboxInv, MailboxTypeOK
  <1>6. RoomIsKept'
    <2>1. producerStep \in {"command", "tag", "store"} =>
             Distance' < AdmissionLimit(offered.command)
      <3> SUFFICES ASSUME producerStep \in {"command", "tag", "store"}
                   PROVE  Distance' < AdmissionLimit(offered.command)
        OBVIOUS
      <3>1. offered \in TransportCommands /\ Distance < AdmissionLimit(offered.command)
        BY DEF MailboxInv, MailboxTypeOK, RoomIsKept
      <3>2. AdmissionLimit(offered.command) \in {Capacity - 1, Capacity}
        BY <3>1, LimitIs
      <3> QED
        BY <1>2, <1>3, <3>1, <3>2
    <2>2. Distance' <= Capacity
      BY <1>2, <1>3
    <2> QED
      BY <1>1, <2>1, <2>2 DEF RoomIsKept, AdmissionLimit
  <1>7. CopiesAreWhole'
    <2>1. Slot(writeSequence)' = Slot(writeSequence)
      BY <1>1 DEF Slot
    <2> QED
      BY <1>1, <2>1 DEF MailboxInv, CopiesAreWhole
  <1> QED
    BY <1>2, <1>3, <1>4, <1>5, <1>6, <1>7 DEF MailboxInv

\* Every step keeps the ring.
LEMMA MailboxStep == MailboxInv /\ [MailboxNext]_mailboxVars => MailboxInv'
  <1>1. ASSUME MailboxInv, UNCHANGED mailboxVars PROVE MailboxInv'
    BY <1>1 DEF mailboxVars, producerVars, consumerVars, MailboxInv, MailboxTypeOK, RoomIsKept,
       CopiesAreWhole, Distance, AdmissionLimit, Slot
  <1> QED
    BY <1>1, ProducerWaits, ProducerCopies, ProducerStores, ConsumerTakes, ConsumerStores
       DEF MailboxNext, Producer, Consumer

----------------------------------------------------------------------------
(* The queue that the mailbox shows.                                         *)

\* What a ring holds between two sequences.
Held(ring, w, r) ==
    [i \in 1 .. Pending(w, r) |-> ring[Slot((r + i - 1) % Modulus)]]

\* Sequences are equal if their elements are.
LEMMA EqualSequences ==
    ASSUME NEW S, NEW s \in Seq(S), NEW t \in Seq(S), Len(s) = Len(t),
           \A i \in 1 .. Len(s) : s[i] = t[i]
    PROVE  s = t
  OBVIOUS

\* It is a sequence of copies.
LEMMA HeldIs ==
    ASSUME NEW ring \in [0 .. Capacity - 1 -> Copies],
           NEW w \in Sequences, NEW r \in Sequences, Pending(w, r) <= Capacity
    PROVE  /\ Held(ring, w, r) \in Seq(Copies)
           /\ Len(Held(ring, w, r)) = Pending(w, r)
           /\ \A i \in 1 .. Pending(w, r) :
                 Held(ring, w, r)[i] = ring[Slot(After(r, i - 1))]
  <1>1. Pending(w, r) \in 0 .. Capacity /\ Capacity \in Nat /\ r \in Nat
    BY PendingIs, Assumed DEF Sequences
  <1>2. ASSUME NEW i \in 1 .. Pending(w, r)
        PROVE  /\ ring[Slot((r + i - 1) % Modulus)] = ring[Slot(After(r, i - 1))]
               /\ ring[Slot(After(r, i - 1))] \in Copies
    <2>1. i - 1 \in 0 .. Capacity /\ r + i - 1 = r + (i - 1)
      BY <1>1
    <2>2. Slot(After(r, i - 1)) \in 0 .. Capacity - 1
      BY <2>1, AfterIs, SlotIsOne
    <2> QED
      BY <2>1, <2>2 DEF After
  <1> DEFINE n == Pending(w, r)
             f(i) == ring[Slot((r + i - 1) % Modulus)]
  <1>3. Held(ring, w, r) = [i \in 1 .. n |-> f(i)]
    BY DEF Held
  <1>4. n \in Nat /\ \A i \in 1 .. n : f(i) \in Copies /\ f(i) = ring[Slot(After(r, i - 1))]
    BY <1>1, <1>2
  <1> HIDE DEF n, f
  <1>5. /\ Held(ring, w, r) \in Seq(Copies) /\ Len(Held(ring, w, r)) = n
        /\ \A i \in 1 .. n : Held(ring, w, r)[i] = f(i)
    BY <1>3, <1>4
  <1> QED
    BY <1>4, <1>5 DEF n

\* Copying into the slot that is free changes nothing of it.
LEMMA HeldIsKept ==
    ASSUME NEW ring \in [0 .. Capacity - 1 -> Copies], NEW other \in [0 .. Capacity - 1 -> Copies],
           NEW w \in Sequences, NEW r \in Sequences, Pending(w, r) <= Capacity,
           \A k \in 0 .. Pending(w, r) - 1 : other[Slot(After(r, k))] = ring[Slot(After(r, k))]
    PROVE  Held(other, w, r) = Held(ring, w, r)
  <1>1. Pending(w, r) \in Nat
    BY PendingIs, Assumed
  <1>2. \A i \in 1 .. Pending(w, r) : i - 1 \in 0 .. Pending(w, r) - 1
    BY <1>1
  <1>3. /\ Held(ring, w, r) \in Seq(Copies) /\ Len(Held(ring, w, r)) = Pending(w, r)
        /\ \A i \in 1 .. Pending(w, r) : Held(ring, w, r)[i] = ring[Slot(After(r, i - 1))]
    BY HeldIs
  <1>4. /\ Held(other, w, r) \in Seq(Copies) /\ Len(Held(other, w, r)) = Pending(w, r)
        /\ \A i \in 1 .. Pending(w, r) : Held(other, w, r)[i] = other[Slot(After(r, i - 1))]
    BY HeldIs
  <1>5. \A i \in 1 .. Pending(w, r) : Held(other, w, r)[i] = Held(ring, w, r)[i]
    BY <1>2, <1>3, <1>4
  <1> QED
    BY <1>3, <1>4, <1>5, EqualSequences

\* The store of the producer appends the message in its slot,
LEMMA HeldGrows ==
    ASSUME NEW ring \in [0 .. Capacity - 1 -> Copies],
           NEW w \in Sequences, NEW r \in Sequences, Pending(w, r) < Capacity
    PROVE  Held(ring, Successor(w), r) = Append(Held(ring, w, r), ring[Slot(w)])
  <1>1. Pending(w, r) \in 0 .. Capacity /\ Capacity \in Nat
    BY PendingIs, Assumed
  <1>2. /\ w = After(r, Pending(w, r))
        /\ Pending(Successor(w), r) = Pending(w, r) + 1
        /\ Successor(w) \in Sequences
    BY <1>1, Distances, SuccessorIs
  <1> DEFINE n == Pending(w, r)
             s == Held(ring, w, r)
             t == Held(ring, Successor(w), r)
  <1>3. /\ s \in Seq(Copies) /\ Len(s) = n
        /\ \A i \in 1 .. n : s[i] = ring[Slot(After(r, i - 1))]
    BY <1>1, HeldIs
  <1>4. /\ t \in Seq(Copies) /\ Len(t) = n + 1
        /\ \A i \in 1 .. n + 1 : t[i] = ring[Slot(After(r, i - 1))]
    <2>1. Pending(Successor(w), r) <= Capacity
      BY <1>1, <1>2
    <2> QED
      BY <1>2, <2>1, HeldIs
  <1>5. ring[Slot(w)] \in Copies
    BY SlotIsOne
  <1>6. n \in Nat /\ w = After(r, n)
    BY <1>1, <1>2
  <1> HIDE DEF n, s, t
  <1>7. t[n + 1] = ring[Slot(w)] /\ \A i \in 1 .. n : t[i] = s[i]
    <2>1. (n + 1) - 1 = n /\ n + 1 \in 1 .. n + 1 /\ \A i \in 1 .. n : i \in 1 .. n + 1
      BY <1>6
    <2> QED
      BY <1>3, <1>4, <1>6, <2>1
  <1>8. /\ Append(s, ring[Slot(w)]) \in Seq(Copies) /\ Len(Append(s, ring[Slot(w)])) = n + 1
        /\ \A i \in 1 .. n : Append(s, ring[Slot(w)])[i] = s[i]
        /\ Append(s, ring[Slot(w)])[n + 1] = ring[Slot(w)]
    BY <1>3, <1>5
  <1>9. \A i \in 1 .. Len(t) : t[i] = Append(s, ring[Slot(w)])[i]
    <2>1. \A i \in 1 .. n + 1 : i \in 1 .. n \/ i = n + 1
      BY <1>6
    <2> QED
      BY <1>4, <1>7, <1>8, <2>1
  <1>10. t = Append(s, ring[Slot(w)])
    BY <1>4, <1>8, <1>9, EqualSequences
  <1> QED
    BY <1>10 DEF s, t

\* and that of the consumer takes the first away.
LEMMA HeldShrinks ==
    ASSUME NEW ring \in [0 .. Capacity - 1 -> Copies],
           NEW w \in Sequences, NEW r \in Sequences, Pending(w, r) <= Capacity,
           Pending(w, r) > 0
    PROVE  /\ Held(ring, w, r) # <<>> /\ Head(Held(ring, w, r)) = ring[Slot(r)]
           /\ Held(ring, w, Successor(r)) = Tail(Held(ring, w, r))
  <1>1. Pending(w, r) \in 1 .. Capacity /\ Capacity \in Nat
    BY PendingIs, Assumed
  <1>2. /\ w # r /\ Successor(r) \in Sequences
        /\ Pending(w, Successor(r)) = Pending(w, r) - 1
    <2>1. Pending(w, r) \in 0 .. Capacity /\ Pending(w, r) # 0
      BY <1>1
    <2>2. w # r
      BY <2>1, Distances
    <2> QED
      BY <2>1, <2>2, Distances, SuccessorIs
  <1> DEFINE n == Pending(w, r)
             s == Held(ring, w, r)
             t == Held(ring, w, Successor(r))
  <1>3. /\ s \in Seq(Copies) /\ Len(s) = n
        /\ \A i \in 1 .. n : s[i] = ring[Slot(After(r, i - 1))]
    BY <1>1, HeldIs
  <1>4. /\ t \in Seq(Copies) /\ Len(t) = n - 1
        /\ \A i \in 1 .. n - 1 : t[i] = ring[Slot(After(Successor(r), i - 1))]
    <2>1. Pending(w, Successor(r)) <= Capacity
      BY <1>1, <1>2
    <2> QED
      BY <1>2, <2>1, HeldIs
  <1>5. \A i \in 1 .. n - 1 : After(Successor(r), i - 1) = After(r, i)
    <2> SUFFICES ASSUME NEW i \in 1 .. n - 1 PROVE After(Successor(r), i - 1) = After(r, i)
      OBVIOUS
    <2>1. i - 1 \in 0 .. Capacity - 1 /\ (i - 1) + 1 = i
      BY <1>1
    <2> QED
      BY <2>1, AfterSuccessor
  <1>6. After(r, 0) = r
    <2>1. 0 \in 0 .. Capacity /\ r \in 0 .. Modulus - 1 /\ Modulus \in Nat
      BY Assumed DEF Sequences
    <2>2. After(r, 0) = IF r + 0 < Modulus THEN r + 0 ELSE r + 0 - Modulus
      BY <2>1, AfterIs
    <2> QED
      BY <2>1, <2>2
  <1>7. n \in Nat \ {0}
    BY <1>1
  <1> HIDE DEF n, s, t
  <1>8. /\ s # <<>> /\ Head(s) = s[1] /\ Tail(s) \in Seq(Copies) /\ Len(Tail(s)) = n - 1
        /\ \A i \in 1 .. n - 1 : Tail(s)[i] = s[i + 1]
    BY <1>3, <1>7
  <1>9. s[1] = ring[Slot(r)]
    <2>1. 1 \in 1 .. n /\ 1 - 1 = 0
      BY <1>7
    <2> QED
      BY <1>3, <1>6, <2>1
  <1>10. \A i \in 1 .. n - 1 : t[i] = Tail(s)[i]
    <2> SUFFICES ASSUME NEW i \in 1 .. n - 1 PROVE t[i] = Tail(s)[i]
      OBVIOUS
    <2>1. i + 1 \in 1 .. n /\ (i + 1) - 1 = i
      BY <1>7
    <2>2. s[i + 1] = ring[Slot(After(r, i))]
      BY <1>3, <2>1
    <2>3. t[i] = ring[Slot(After(r, i))]
      BY <1>4, <1>5
    <2>4. Tail(s)[i] = s[i + 1]
      BY <1>8
    <2> QED
      BY <2>2, <2>3, <2>4
  <1>11. t = Tail(s)
    BY <1>4, <1>8, <1>10, EqualSequences
  <1> QED
    BY <1>8, <1>9, <1>11 DEF s, t

----------------------------------------------------------------------------
\* The pending messages before and after a step,
LEMMA PendingMessagesAreHeld ==
    /\ PendingMessages = Held(commands, writeSequence, readSequence)
    /\ PendingMessages' = Held(commands', writeSequence', readSequence')
  BY DEF PendingMessages, Held

\* and what they are.
LEMMA PendingMessagesAre ==
    ASSUME MailboxInv
    PROVE  /\ PendingMessages \in Seq(Copies) /\ Len(PendingMessages) = Distance
           /\ Distance \in 0 .. Capacity
           /\ commands \in [0 .. Capacity - 1 -> Copies]
           /\ writeSequence \in Sequences /\ readSequence \in Sequences
  <1>1. /\ commands \in [0 .. Capacity - 1 -> Copies]
        /\ writeSequence \in Sequences /\ readSequence \in Sequences
        /\ Pending(writeSequence, readSequence) <= Capacity
    BY DEF MailboxInv, MailboxTypeOK, RoomIsKept, Distance
  <1>2. Distance \in 0 .. Capacity
    BY <1>1, PendingIs, Assumed DEF Distance
  <1> QED
    BY <1>1, <1>2, HeldIs, PendingMessagesAreHeld DEF Distance

QueueVars == <<PendingMessages, offered, admission, received>>

\* push(): the message is accepted when its sequence is stored, or refused for want of
\* room, and nothing is seen of it between.
LEMMA ProducerRefines ==
    ASSUME MailboxInv, Producer
    PROVE  Queue!Next \/ UNCHANGED QueueVars
  <1>1. CASE BeginPush
    <2>1. UNCHANGED <<PendingMessages, admission, received>>
      BY <1>1, PendingMessagesAreHeld DEF BeginPush, consumerVars
    <2>2. Queue!Offer
      BY <1>1, <2>1 DEF BeginPush, MailboxInv, MailboxTypeOK, Queue!Offer
    <2> QED
      BY <2>2 DEF Queue!Next
  <1>2. CASE LoadReadSequence
    BY <1>2, PendingMessagesAreHeld DEF LoadReadSequence, consumerVars, QueueVars
  <1>3. CASE RefusePush
    <2>1. UNCHANGED <<PendingMessages, received>> /\ offered' = None /\ admission' = "Full"
      BY <1>3, PendingMessagesAreHeld DEF RefusePush, consumerVars
    <2>2. offered \in TransportCommands /\ offered # None
      BY <1>3, MessagesAreCopies DEF RefusePush, MailboxInv, MailboxTypeOK
    <2>3. Len(PendingMessages) >= Queue!Limit(offered)
      <3>1. ~(Distance < AdmissionLimit(offered.command))
        BY <1>3 DEF RefusePush, IsAdmitted, Distance
      <3>2. /\ AdmissionLimit(offered.command) \in {Capacity - 1, Capacity}
            /\ Queue!Limit(offered) = AdmissionLimit(offered.command)
        BY <2>2, LimitIs
      <3>3. Len(PendingMessages) = Distance /\ Distance \in 0 .. Capacity /\ Capacity \in Nat
        BY PendingMessagesAre, Assumed
      <3> QED
        BY <3>1, <3>2, <3>3
    <2> QED
      BY <2>1, <2>2, <2>3 DEF Queue!Refuse, Queue!Next
  <1>4. CASE CopyCommand \/ CopyTag
    <2>1. /\ MailboxInv'
          /\ \A k \in 0 .. Distance - 1 :
                commands'[Slot(After(readSequence, k))] = commands[Slot(After(readSequence, k))]
      BY <1>4, ProducerCopies
    <2>2. UNCHANGED <<readSequence, writeSequence, offered, admission, received>>
      BY <1>4 DEF CopyCommand, CopyTag, consumerVars
    <2>3. commands' \in [0 .. Capacity - 1 -> Copies]
      BY <2>1 DEF MailboxInv, MailboxTypeOK
    <2>4. /\ commands \in [0 .. Capacity - 1 -> Copies] /\ Distance <= Capacity
          /\ writeSequence \in Sequences /\ readSequence \in Sequences
      BY DEF MailboxInv, MailboxTypeOK, RoomIsKept
    <2>5. Held(commands', writeSequence, readSequence)
             = Held(commands, writeSequence, readSequence)
      BY <2>1, <2>3, <2>4, HeldIsKept DEF Distance
    <2> QED
      BY <2>2, <2>5, PendingMessagesAreHeld DEF QueueVars
  <1>5. CASE StoreWriteSequence
    <2>1. /\ Distance < AdmissionLimit(offered.command) /\ Distance < Capacity
          /\ commands[Slot(writeSequence)] = offered
      BY <1>5, ProducerStores
    <2>2. /\ UNCHANGED <<commands, readSequence, received>>
          /\ writeSequence' = Successor(writeSequence)
          /\ offered' = None /\ admission' = "Accepted"
      BY <1>5 DEF StoreWriteSequence, consumerVars
    <2>3. offered \in TransportCommands /\ offered # None
      BY <1>5, MessagesAreCopies DEF StoreWriteSequence, MailboxInv, MailboxTypeOK
    <2>4. /\ Len(PendingMessages) = Distance
          /\ commands \in [0 .. Capacity - 1 -> Copies]
          /\ writeSequence \in Sequences /\ readSequence \in Sequences
      BY PendingMessagesAre
    <2>5. Len(PendingMessages) < Queue!Limit(offered)
      BY <2>1, <2>3, <2>4, LimitIs
    <2>6. Held(commands, Successor(writeSequence), readSequence)
             = Append(Held(commands, writeSequence, readSequence), offered)
      BY <2>1, <2>4, HeldGrows DEF Distance
    <2>7. PendingMessages' = Append(PendingMessages, offered)
      BY <2>2, <2>6, PendingMessagesAreHeld
    <2> QED
      BY <2>2, <2>3, <2>5, <2>7 DEF Queue!Accept, Queue!Next
  <1> QED
    BY <1>1, <1>2, <1>3, <1>4, <1>5 DEF Producer

\* try_pop(): the message is delivered when the other sequence is stored.
LEMMA ConsumerRefines ==
    ASSUME MailboxInv, Consumer
    PROVE  Queue!Next \/ UNCHANGED QueueVars
  <1>1. CASE LoadWriteSequence \/ TakeCommand \/ TakeTag
    BY <1>1, PendingMessagesAreHeld DEF LoadWriteSequence, TakeCommand, TakeTag, producerVars,
       QueueVars
  <1>2. CASE FindEmpty
    <2>1. UNCHANGED <<PendingMessages, offered, admission>> /\ received' = None
      BY <1>2, PendingMessagesAreHeld DEF FindEmpty, producerVars
    <2>2. /\ PendingMessages \in Seq(Copies) /\ Len(PendingMessages) = Distance
          /\ Distance \in 0 .. Capacity
          /\ writeSequence \in Sequences /\ readSequence \in Sequences
      BY PendingMessagesAre
    <2>3. Distance = 0
      BY <1>2, <2>2, Distances DEF FindEmpty, Distance
    <2>4. PendingMessages = <<>>
      BY <2>2, <2>3
    <2> QED
      BY <2>1, <2>4 DEF Queue!FindEmpty, Queue!Next
  <1>3. CASE StoreReadSequence
    <2>1. Distance > 0 /\ popped = commands[Slot(readSequence)]
      BY <1>3, ConsumerStores
    <2>2. /\ UNCHANGED <<commands, writeSequence, offered, admission>>
          /\ readSequence' = Successor(readSequence) /\ received' = popped
      BY <1>3 DEF StoreReadSequence, producerVars
    <2>3. /\ commands \in [0 .. Capacity - 1 -> Copies]
          /\ writeSequence \in Sequences /\ readSequence \in Sequences
          /\ Pending(writeSequence, readSequence) <= Capacity
          /\ Pending(writeSequence, readSequence) > 0
      BY <2>1 DEF MailboxInv, MailboxTypeOK, RoomIsKept, Distance
    <2>4. /\ PendingMessages # <<>> /\ Head(PendingMessages) = received'
          /\ PendingMessages' = Tail(PendingMessages)
      BY <2>1, <2>2, <2>3, HeldShrinks, PendingMessagesAreHeld
    <2> QED
      BY <2>2, <2>4 DEF Queue!Deliver, Queue!Next
  <1> QED
    BY <1>1, <1>2, <1>3 DEF Consumer

\* Nothing is pending at first.
LEMMA InitRefines == MailboxInit => Queue!Init
  <1> SUFFICES ASSUME MailboxInit PROVE Queue!Init
    OBVIOUS
  <1>1. /\ PendingMessages \in Seq(Copies) /\ Len(PendingMessages) = Distance
        /\ Distance \in 0 .. Capacity /\ writeSequence \in Sequences
    BY InitMailbox, PendingMessagesAre
  <1>2. Distance = 0
    BY <1>1, PendingIs, Assumed DEF MailboxInit, Distance, Sequences
  <1>3. PendingMessages = <<>>
    BY <1>1, <1>2
  <1> QED
    BY <1>3 DEF MailboxInit, Queue!Init

\* The ring of SpscCommandMailbox is a bounded queue that keeps its last place for Stop,
\* for any capacity and whatever the steps of push() and try_pop() come between.
THEOREM MailboxRefinement == MailboxSpec => ImplementsQueue
  <1>1. MailboxInv /\ [MailboxNext]_mailboxVars => [Queue!Next]_QueueVars
    <2> SUFFICES ASSUME MailboxInv, [MailboxNext]_mailboxVars
                 PROVE  Queue!Next \/ UNCHANGED QueueVars
      OBVIOUS
    <2>1. CASE UNCHANGED mailboxVars
      BY <2>1, PendingMessagesAreHeld DEF mailboxVars, producerVars, consumerVars, QueueVars
    <2> QED
      BY <2>1, ProducerRefines, ConsumerRefines DEF MailboxNext
  <1> QED
    BY <1>1, InitRefines, InitMailbox, MailboxStep, PTL
       DEF MailboxSpec, ImplementsQueue, Queue!Spec, QueueVars

----------------------------------------------------------------------------
(* The configuration and the sessions of HttpAccess.                        *)

Data == Networks \cup Passwords

Changes == [key : Keys, value : Data, isWritten : BOOLEAN]

ConfigurationTypeOK ==
    /\ stored \in [Keys -> Data \cup {Missing}]
    /\ legacy \in [network : Networks \cup {Missing},
                   password : Passwords \cup {Missing, Invalid}, claim : Claims]
    /\ server \in {"off", "failed", "serving"} \cup Keys
    /\ configuration \in [Keys -> Data]
    /\ change = NoChange \/ change \in Changes
    /\ expected \in [Keys -> SUBSET (Data \cup {Invalid})]

\* What the next boot will find.
StoredIsExpected ==
    /\ \A key \in Keys : stored[key] # Missing => stored[key] \in expected[key]
    /\ IsMigrated("wifi") => LegacyNetwork \in expected["wifi"]
    /\ IsMigrated("authentication") /\ ~MigrationIsRejected =>
          MigratedPassword \in expected["authentication"]

\* What has been loaded, already while it is being migrated.
LoadedIsExpected ==
    server \notin {"off", "failed"} =>
        \A key \in Keys : configuration[key] \in expected[key]

ChangeIsExpected ==
    change # NoChange =>
        /\ server = "serving"
        /\ change.value \in expected[change.key]
        /\ change.isWritten => stored[change.key] = change.value

ConfigurationInvariant ==
    ConfigurationTypeOK /\ StoredIsExpected /\ LoadedIsExpected /\ ChangeIsExpected

\* What the keys, and what is not one, are.
LEMMA KeysLemma ==
    /\ "wifi" \in Keys /\ "authentication" \in Keys
    /\ \A keys : NextToMigrate(keys) \in Keys \cup {"serving"}
    /\ "off" \notin Keys /\ "failed" \notin Keys /\ "serving" \notin Keys /\ "none" \notin Keys
    /\ Missing \notin Data
BY HttpAccessAssumption DEF Keys, NextToMigrate, Data

\* What older firmware left migrates to something a blob may hold.
LEMMA LegacyLemma ==
    ASSUME ConfigurationTypeOK
    PROVE  /\ LegacyNetwork \in Data
           /\ ~MigrationIsRejected => MigratedPassword \in Data
BY HttpAccessAssumption
DEF ConfigurationTypeOK, LegacyNetwork, MigrationIsRejected, MigratedPassword, Data

\* A device that is new, or had older firmware.
LEMMA AccessInitInvariant == AccessInit => ConfigurationInvariant
<1> SUFFICES ASSUME AccessInit PROVE ConfigurationInvariant
  OBVIOUS
<1>1. LegacyNetwork \in Networks
  BY HttpAccessAssumption DEF LegacyNetwork
<1>2. ExpectedPassword \in Passwords \cup {Invalid}
  BY HttpAccessAssumption DEF AccessInit, ExpectedPassword
<1>3. expected \in [Keys -> SUBSET (Data \cup {Invalid})]
  <2> DEFINE e(key) == IF key = "wifi" THEN {LegacyNetwork} ELSE {ExpectedPassword}
  <2>1. \A key \in Keys : e(key) \in SUBSET (Data \cup {Invalid})
    BY <1>1, <1>2 DEF Data
  <2>2. expected = [key \in Keys |-> e(key)]
    BY DEF AccessInit
  <2> QED
    BY <2>1, <2>2
<1>4. ConfigurationTypeOK
  <2>1. stored \in [Keys -> Data \cup {Missing}]
    BY DEF AccessInit
  <2>2. configuration \in [Keys -> Data]
    BY HttpAccessAssumption DEF AccessInit, NotLoaded, Data
  <2> QED
    BY <1>3, <2>1, <2>2 DEF AccessInit, ConfigurationTypeOK
<1>5. expected["wifi"] = {LegacyNetwork} /\ expected["authentication"] = {ExpectedPassword}
  BY KeysLemma DEF AccessInit
<1>6. ~MigrationIsRejected => MigratedPassword = ExpectedPassword
  BY DEF MigratedPassword, ExpectedPassword
<1>7. StoredIsExpected
  BY <1>5, <1>6 DEF StoredIsExpected, AccessInit
<1>8. LoadedIsExpected /\ ChangeIsExpected
  BY DEF AccessInit, LoadedIsExpected, ChangeIsExpected
<1> QED
  BY <1>4, <1>7, <1>8 DEF ConfigurationInvariant

\* What initialize_nvs() loads is expected.
LEMMA BootInvariant == ConfigurationInvariant /\ Boot => ConfigurationInvariant'
<1> SUFFICES ASSUME ConfigurationInvariant, Boot PROVE ConfigurationInvariant'
  OBVIOUS
<1> USE DEF ConfigurationInvariant
<1> DEFINE loaded(key) == IF key = "wifi" THEN LoadedNetwork ELSE LoadedPassword
<1>1. \A key \in Keys : loaded(key) \in expected[key] /\ loaded(key) \in Data
  <2>1. LoadedNetwork \in expected["wifi"] /\ LoadedNetwork \in Data
    BY KeysLemma, LegacyLemma
    DEF ConfigurationTypeOK, StoredIsExpected, LoadedNetwork, IsMigrated
  <2>2. LoadedPassword \in expected["authentication"] /\ LoadedPassword \in Data
    BY KeysLemma, LegacyLemma
    DEF Boot, ConfigurationTypeOK, StoredIsExpected, LoadedPassword, IsMigrated
  <2> QED
    BY <2>1, <2>2 DEF Keys
<1>2. configuration' = [key \in Keys |-> loaded(key)]
  BY DEF Boot
<1>3. configuration' \in [Keys -> Data] /\ \A key \in Keys : configuration'[key] \in expected[key]
  BY <1>1, <1>2
<1>4. ConfigurationTypeOK'
  BY <1>3, KeysLemma DEF Boot, ConfigurationTypeOK, nvsVars, requestVars, ghostVars
<1>5. StoredIsExpected'
  BY DEF Boot, StoredIsExpected, IsMigrated, LegacyNetwork, MigrationIsRejected,
     MigratedPassword, nvsVars, ghostVars
<1>6. LoadedIsExpected' /\ ChangeIsExpected'
  BY <1>3, KeysLemma
  DEF Boot, LoadedIsExpected, ChangeIsExpected, nvsVars, requestVars, ghostVars
<1> QED
  BY <1>4, <1>5, <1>6

\* A blob is replaced by a value that may be found in force.
LEMMA ReplacesLemma ==
    ASSUME ConfigurationInvariant, NEW key \in Keys, NEW value \in Data,
           value \in expected[key], Replaces(key, value), UNCHANGED expected
    PROVE  /\ stored' \in [Keys -> Data \cup {Missing}]
           /\ legacy' = legacy
           /\ StoredIsExpected'
           /\ stored'[key] = value /\ \A k \in Keys \ {key} : stored'[k] = stored[k]
<1> USE DEF ConfigurationInvariant
<1>1. stored \in [Keys -> Data \cup {Missing}]
  BY DEF ConfigurationTypeOK
<1>2. /\ stored' \in [Keys -> Data \cup {Missing}] /\ legacy' = legacy
      /\ stored'[key] = value /\ \A k \in Keys \ {key} : stored'[k] = stored[k]
  BY <1>1 DEF Replaces
<1>3. StoredIsExpected'
  BY <1>2, KeysLemma DEF StoredIsExpected, IsMigrated, LegacyNetwork, MigrationIsRejected,
     MigratedPassword
<1> QED
  BY <1>2, <1>3

\* A step of a migration, that fails or not, writes what has been loaded.
LEMMA MigrationInvariant ==
    ConfigurationInvariant /\ (Migrate \/ MigrationFails) => ConfigurationInvariant'
<1> SUFFICES ASSUME ConfigurationInvariant, Migrate \/ MigrationFails
             PROVE  ConfigurationInvariant'
  OBVIOUS
<1> USE DEF ConfigurationInvariant
<1>1. /\ server \in Keys /\ configuration[server] \in Data
      /\ configuration[server] \in expected[server]
  BY KeysLemma DEF Migrate, MigrationFails, ConfigurationTypeOK, LoadedIsExpected
<1>2. /\ UNCHANGED <<configuration, requestVars, ghostVars>>
      /\ server' \in {"failed", "serving"} \cup Keys
  BY KeysLemma DEF Migrate, MigrationFails
<1>3. UNCHANGED <<configuration, change, expected>>
  BY <1>2 DEF requestVars, ghostVars
<1>4. LoadedIsExpected'
  BY <1>1, <1>2, <1>3, KeysLemma DEF LoadedIsExpected
<1>5. CASE Replaces(server, configuration[server])
  <2> DEFINE key == server
             value == configuration[server]
  <2>1. /\ stored' \in [Keys -> Data \cup {Missing}] /\ legacy' = legacy
        /\ StoredIsExpected'
        /\ stored'[key] = value /\ \A k \in Keys \ {key} : stored'[k] = stored[k]
    BY <1>1, <1>3, <1>5, ReplacesLemma
  <2>2. change = NoChange
    BY <1>1, KeysLemma DEF ChangeIsExpected
  <2> QED
    BY <1>2, <1>3, <1>4, <2>1, <2>2 DEF ConfigurationTypeOK, ChangeIsExpected
<1>6. CASE UNCHANGED nvsVars
  BY <1>1, <1>2, <1>3, <1>4, <1>6, KeysLemma
  DEF ConfigurationTypeOK, ChangeIsExpected, StoredIsExpected, IsMigrated, LegacyNetwork,
      MigrationIsRejected, MigratedPassword, nvsVars
<1> QED
  BY <1>5, <1>6 DEF Migrate, MigrationFails

\* A PUT writes what its owner expects by then.
LEMMA ChangeInvariant ==
    ConfigurationInvariant /\ (WriteChange \/ ChangeFails \/ CompleteChange)
        => ConfigurationInvariant'
<1> SUFFICES ASSUME ConfigurationInvariant, WriteChange \/ ChangeFails \/ CompleteChange
             PROVE  ConfigurationInvariant'
  OBVIOUS
<1> USE DEF ConfigurationInvariant
<1> DEFINE key == change.key
           value == change.value
<1>1. change # NoChange
  BY DEF WriteChange, ChangeFails, CompleteChange, IsWriting
<1>2. /\ change \in Changes /\ key \in Keys /\ value \in Data
      /\ server = "serving" /\ value \in expected[key]
  BY <1>1 DEF ConfigurationTypeOK, ChangeIsExpected, Changes
<1>3. CASE WriteChange \/ ChangeFails
  <2>1. /\ UNCHANGED <<server, configuration, expected>>
        /\ change' = NoChange \/ change' = [change EXCEPT !.isWritten = TRUE]
    BY <1>3 DEF WriteChange, ChangeFails, ghostVars
  <2>2. LoadedIsExpected'
    BY <2>1 DEF LoadedIsExpected
  <2>3. change' = NoChange \/ change' \in Changes
    BY <1>2, <2>1 DEF Changes
  <2>4. CASE Replaces(key, value)
    <3>1. /\ stored' \in [Keys -> Data \cup {Missing}] /\ legacy' = legacy
          /\ StoredIsExpected'
          /\ stored'[key] = value
      BY <1>2, <2>1, <2>4, ReplacesLemma
    <3>2. change' # NoChange => change'.key = key /\ change'.value = value
      BY <1>2, <2>1 DEF Changes
    <3> QED
      BY <1>2, <2>1, <2>2, <2>3, <3>1, <3>2 DEF ConfigurationTypeOK, ChangeIsExpected
  <2>5. CASE UNCHANGED nvsVars /\ change' = NoChange
    BY <2>1, <2>2, <2>5
    DEF ConfigurationTypeOK, ChangeIsExpected, StoredIsExpected, IsMigrated, LegacyNetwork,
        MigrationIsRejected, MigratedPassword, nvsVars
  <2> QED
    BY <1>3, <2>4, <2>5 DEF WriteChange, ChangeFails
<1>4. CASE CompleteChange
  <2>1. /\ configuration' = [configuration EXCEPT ![key] = value]
        /\ expected' = [expected EXCEPT ![key] = {value}]
        /\ change' = NoChange /\ UNCHANGED <<stored, legacy, server>>
    BY <1>4 DEF CompleteChange, nvsVars
  <2>2. stored[key] = value /\ value # Missing
    BY <1>1, <1>2, <1>4, KeysLemma DEF CompleteChange, ChangeIsExpected
  <2>3. /\ configuration' \in [Keys -> Data]
        /\ expected' \in [Keys -> SUBSET (Data \cup {Invalid})]
        /\ configuration'[key] = value /\ expected'[key] = {value}
        /\ \A k \in Keys \ {key} : configuration'[k] = configuration[k]
                                   /\ expected'[k] = expected[k]
    BY <1>2, <2>1 DEF ConfigurationTypeOK
  <2>4. ConfigurationTypeOK'
    BY <2>1, <2>3 DEF ConfigurationTypeOK
  <2>5. StoredIsExpected'
    BY <1>2, <2>1, <2>2, <2>3, KeysLemma
    DEF StoredIsExpected, IsMigrated, LegacyNetwork, MigrationIsRejected, MigratedPassword
  <2>6. LoadedIsExpected' /\ ChangeIsExpected'
    BY <2>1, <2>3 DEF LoadedIsExpected, ChangeIsExpected
  <2> QED
    BY <2>4, <2>5, <2>6
<1> QED
  BY <1>3, <1>4

\* The value of a PUT is expected from when it begins.
LEMMA BeginInvariant ==
    ASSUME ConfigurationInvariant, NEW key \in Keys, NEW value \in Data,
           BeginChange(key, value), server = "serving"
    PROVE  ConfigurationInvariant'
<1> USE DEF ConfigurationInvariant
<1>1. /\ UNCHANGED <<stored, legacy, server, configuration>>
      /\ change' = [key |-> key, value |-> value, isWritten |-> FALSE]
      /\ expected' = [expected EXCEPT ![key] = @ \cup {value}]
  BY DEF BeginChange, nvsVars
<1>2. /\ expected' \in [Keys -> SUBSET (Data \cup {Invalid})]
      /\ value \in expected'[key]
      /\ \A k \in Keys : expected[k] \subseteq expected'[k]
  BY <1>1 DEF ConfigurationTypeOK
<1>3. change' \in Changes
  BY <1>1 DEF Changes
<1>4. ConfigurationTypeOK'
  BY <1>1, <1>2, <1>3 DEF ConfigurationTypeOK
<1>5. StoredIsExpected'
  BY <1>1, <1>2, KeysLemma
  DEF StoredIsExpected, IsMigrated, LegacyNetwork, MigrationIsRejected, MigratedPassword
<1>6. LoadedIsExpected' /\ ChangeIsExpected'
  BY <1>1, <1>2 DEF LoadedIsExpected, ChangeIsExpected
<1> QED
  BY <1>4, <1>5, <1>6

\* Every step keeps the configuration accounted for.
LEMMA AccessStepInvariant ==
    ConfigurationInvariant /\ [AccessNext]_accessVars => ConfigurationInvariant'
<1> SUFFICES ASSUME ConfigurationInvariant, [AccessNext]_accessVars
             PROVE  ConfigurationInvariant'
  OBVIOUS
<1>1. CASE Boot
  BY <1>1, BootInvariant
<1>2. CASE Migrate \/ MigrationFails
  BY <1>2, MigrationInvariant
<1>3. CASE WriteChange \/ ChangeFails \/ CompleteChange
  BY <1>3, ChangeInvariant
<1>4. ASSUME NEW peer \in Peers, NEW password \in Passwords, PutPassword(peer, password)
      PROVE  ConfigurationInvariant'
  <2>1. /\ BeginChange("authentication", password) /\ server = "serving"
        /\ password \in Data
    BY <1>4 DEF PutPassword, IsHandled, Data
  <2> QED
    BY <2>1, KeysLemma, BeginInvariant
<1>5. ASSUME NEW peer \in Peers, NEW network \in Networks, PutNetwork(peer, network)
      PROVE  ConfigurationInvariant'
  <2>1. BeginChange("wifi", network) /\ server = "serving" /\ network \in Data
    BY <1>5 DEF PutNetwork, IsHandled, Data
  <2> QED
    BY <2>1, KeysLemma, BeginInvariant
<1>6. ASSUME /\ UNCHANGED <<stored, legacy, expected>>
             /\ \/ UNCHANGED <<server, configuration, change>>
                \/ /\ server' \in {"off", "failed"} /\ configuration' \in [Keys -> Data]
                   /\ change' = NoChange
      PROVE  ConfigurationInvariant'
  BY <1>6
  DEF ConfigurationInvariant, ConfigurationTypeOK, ChangeIsExpected, StoredIsExpected,
      LoadedIsExpected, IsMigrated, LegacyNetwork, MigrationIsRejected, MigratedPassword
<1>7. CASE BootFails
  <2>1. change = NoChange /\ configuration \in [Keys -> Data]
    BY <1>7, KeysLemma DEF BootFails, ConfigurationInvariant, ChangeIsExpected,
       ConfigurationTypeOK
  <2> QED
    BY <1>6, <1>7, <2>1 DEF BootFails, nvsVars, requestVars, ghostVars
<1>8. CASE PowerCut
  <2>1. NotLoaded \in [Keys -> Data]
    BY HttpAccessAssumption DEF NotLoaded, Data
  <2> QED
    BY <1>6, <1>8, <2>1 DEF PowerCut, nvsVars
<1>9. ASSUME NEW peer \in Peers,
             Login(peer) \/ LoginFails(peer) \/ Visit(peer) \/ Logout(peer)
      PROVE  ConfigurationInvariant'
  BY <1>6, <1>9 DEF Login, LoginFails, Visit, Logout, nvsVars, requestVars, ghostVars
<1>10. CASE Tick \/ ReachChanges \/ UNCHANGED accessVars
  BY <1>6, <1>10 DEF Tick, ReachChanges, nvsVars, requestVars, ghostVars, accessVars
<1> QED
  BY <1>1, <1>2, <1>3, <1>4, <1>5, <1>7, <1>8, <1>9, <1>10 DEF AccessNext

\* Wherever the power is cut and whichever writes fail, the device serves with a network
\* and a password its owner knows of.
THEOREM ConfigurationSafe == AccessSpec => []ConfigurationIsAccountedFor
<1>1. ConfigurationInvariant => ConfigurationIsAccountedFor
  BY DEF ConfigurationInvariant, LoadedIsExpected, ConfigurationIsAccountedFor
<1> QED
  BY <1>1, AccessInitInvariant, AccessStepInvariant, PTL DEF AccessSpec

----------------------------------------------------------------------------
(* Failed logins.                                                          *)

\* No entry counts more failures than its peer has had, and none blocks without enough.
FailuresAreOwn ==
    /\ DOMAIN limits \subseteq Peers
    /\ ownFailures \in [Peers -> 0 .. FailuresBeforeBlock]
    /\ \A p \in DOMAIN limits :
          /\ limits[p].failures \in Nat
          /\ Least(limits[p].failures, FailuresBeforeBlock) <= ownFailures[p]
          /\ limits[p].blocked # 0 => ownFailures[p] = FailuresBeforeBlock

\* The limiter counts a failure on the entry of the peer that failed.
LEMMA RecordFailureLemma ==
    ASSUME FailuresAreOwn, NEW peer \in Peers, IsPermitted(peer), RecordFailure(peer),
           ownFailures' = [ownFailures EXCEPT ![peer] = Least(@ + 1, FailuresBeforeBlock)]
    PROVE  FailuresAreOwn'
<1>1. /\ FailuresBeforeBlock \in Nat /\ FailuresBeforeBlock > 0 /\ MaximumExponent \in Nat
  BY HttpAccessAssumption
<1>2. PICK allocation \in Allocation(peer) :
          limits' = [p \in allocation[1] \cup {peer} |->
                        IF p = peer THEN AfterFailure(allocation[2]) ELSE limits[p]]
  BY DEF RecordFailure
<1> DEFINE entry == allocation[2]
<1>3. /\ allocation[1] \subseteq DOMAIN limits
      /\ entry.failures \in Nat
      /\ Least(entry.failures, FailuresBeforeBlock) <= ownFailures[peer]
      /\ entry.blocked = 0
  <2>1. CASE peer \in DOMAIN limits
    <3>1. allocation = <<DOMAIN limits, limits[peer]>>
      BY <1>2, <2>1 DEF Allocation
    <3> QED
      BY <2>1, <3>1 DEF FailuresAreOwn, IsPermitted
  <2>2. CASE peer \notin DOMAIN limits
    <3>1. allocation[1] \subseteq DOMAIN limits /\ allocation[2] = NewEntry
      <4>1. CASE Cardinality(DOMAIN limits) < PeerCapacity
        BY <1>2, <2>2, <4>1 DEF Allocation
      <4>2. CASE ~(Cardinality(DOMAIN limits) < PeerCapacity)
        <5>1. PICK oldest \in DOMAIN limits :
                  allocation = <<DOMAIN limits \ {oldest}, Allocated(peer, oldest)>>
          BY <1>2, <2>2, <4>2 DEF Allocation
        <5> QED
          BY <5>1 DEF Allocated
      <4> QED
        BY <4>1, <4>2
    <3>2. ownFailures[peer] \in 0 .. FailuresBeforeBlock
      BY DEF FailuresAreOwn
    <3> QED
      BY <1>1, <3>1, <3>2 DEF NewEntry, Least
  <2> QED
    BY <2>1, <2>2
<1> DEFINE after == AfterFailure(entry)
<1>4. /\ after.failures \in Nat
      /\ after.failures <= entry.failures + 1
      /\ after.blocked # 0 => after.failures >= FailuresBeforeBlock
  <2> DEFINE count == IF entry.age >= ResetAfter THEN 1 ELSE entry.failures + 1
             failures == SaturatedFailures(count)
  <2>1. count \in Nat /\ count <= entry.failures + 1
    BY <1>3
  <2>2. failures \in Nat /\ failures <= count
    BY <1>1, <2>1 DEF SaturatedFailures, Least
  <2>3. /\ after.failures = failures
        /\ after.blocked = IF failures < FailuresBeforeBlock THEN entry.blocked
                           ELSE Block(failures)
    BY DEF AfterFailure
  <2> QED
    BY <1>1, <1>3, <2>1, <2>2, <2>3
<1>5. /\ ownFailures' \in [Peers -> 0 .. FailuresBeforeBlock]
      /\ ownFailures'[peer] = Least(ownFailures[peer] + 1, FailuresBeforeBlock)
      /\ \A p \in Peers \ {peer} : ownFailures'[p] = ownFailures[p]
  BY <1>1 DEF FailuresAreOwn, Least
<1>6. ownFailures[peer] \in 0 .. FailuresBeforeBlock
  BY DEF FailuresAreOwn
<1>7. /\ Least(after.failures, FailuresBeforeBlock) <= ownFailures'[peer]
      /\ after.blocked # 0 => ownFailures'[peer] = FailuresBeforeBlock
  BY <1>1, <1>3, <1>4, <1>5, <1>6 DEF Least
<1>8. /\ DOMAIN limits' = allocation[1] \cup {peer}
      /\ limits'[peer] = after
      /\ \A p \in DOMAIN limits' \ {peer} : p \in DOMAIN limits /\ limits'[p] = limits[p]
  BY <1>2, <1>3
<1> QED
  BY <1>3, <1>4, <1>5, <1>7, <1>8 DEF FailuresAreOwn

\* No step counts failures that its peer has not had.
LEMMA FailuresStep == FailuresAreOwn /\ [AccessNext]_accessVars => FailuresAreOwn'
<1> SUFFICES ASSUME FailuresAreOwn, [AccessNext]_accessVars PROVE FailuresAreOwn'
  OBVIOUS
<1>0. FailuresBeforeBlock \in Nat
  BY HttpAccessAssumption
<1>1. ASSUME NEW peer \in Peers, LoginFails(peer) PROVE FailuresAreOwn'
  BY <1>1, RecordFailureLemma DEF LoginFails
<1>2. ASSUME NEW peer \in Peers, Login(peer) PROVE FailuresAreOwn'
  <2>1. /\ limits' = [p \in DOMAIN limits \ {peer} |-> limits[p]]
        /\ ownFailures' = [ownFailures EXCEPT ![peer] = 0]
    BY <1>2 DEF Login, RecordSuccess
  <2>2. /\ ownFailures' \in [Peers -> 0 .. FailuresBeforeBlock]
        /\ \A p \in Peers \ {peer} : ownFailures'[p] = ownFailures[p]
    BY <1>0, <2>1 DEF FailuresAreOwn
  <2> QED
    BY <2>1, <2>2 DEF FailuresAreOwn
<1>3. CASE Tick
  <2>1. /\ DOMAIN limits' = DOMAIN limits
        /\ \A p \in DOMAIN limits : limits'[p] = Elapsed(limits[p])
        /\ UNCHANGED ownFailures
    BY <1>3 DEF Tick, ghostVars
  <2>2. \A p \in DOMAIN limits :
            /\ limits'[p].failures = limits[p].failures
            /\ limits'[p].blocked # 0 => limits[p].blocked # 0
    BY <2>1 DEF Elapsed
  <2> QED
    BY <2>1, <2>2 DEF FailuresAreOwn
<1>4. CASE PowerCut
  BY <1>0, <1>4 DEF PowerCut, NoEntries, NoFailures, FailuresAreOwn
<1>5. CASE UNCHANGED <<limits, ownFailures>>
  BY <1>5 DEF FailuresAreOwn
<1>6. ASSUME NEW peer \in Peers,
             \/ Visit(peer) \/ Logout(peer)
             \/ \E password \in Passwords : PutPassword(peer, password)
             \/ \E network \in Networks : PutNetwork(peer, network)
      PROVE  FailuresAreOwn'
  BY <1>5, <1>6 DEF Visit, Logout, PutPassword, PutNetwork, BeginChange, ghostVars
<1>7. CASE \/ Boot \/ BootFails \/ Migrate \/ MigrationFails
           \/ WriteChange \/ ChangeFails \/ CompleteChange \/ ReachChanges
           \/ UNCHANGED accessVars
  BY <1>5, <1>7 DEF Boot, BootFails, Migrate, MigrationFails, WriteChange, ChangeFails,
     CompleteChange, ReachChanges, accessVars, ghostVars
<1> QED
  BY <1>1, <1>2, <1>3, <1>4, <1>6, <1>7 DEF AccessNext

\* However many peers fail and share the table, a peer is turned away only for five
\* failures of its own.
THEOREM BlockedForOwnFailures == AccessSpec => []OnlyOwnFailuresBlock
<1>1. AccessInit => FailuresAreOwn
  BY HttpAccessAssumption DEF AccessInit, NoEntries, NoFailures, FailuresAreOwn
<1>2. FailuresAreOwn => OnlyOwnFailuresBlock
  BY DEF FailuresAreOwn, OnlyOwnFailuresBlock, IsPermitted
<1> QED
  BY <1>1, <1>2, FailuresStep, PTL DEF AccessSpec

(* Sessions.                                                               *)

\* A session exists only while the server runs, and is of the password in force.
SessionInvariant ==
    /\ server = "serving" \/ session = NoSession
    /\ session # NoSession =>
          session \in [holder : Peers, idle : Int,
                      password : {configuration["authentication"]}]

\* Every step keeps the session to the password in force.
LEMMA SessionStep ==
    ConfigurationInvariant /\ SessionInvariant /\ [AccessNext]_accessVars
        => SessionInvariant'
<1> SUFFICES ASSUME ConfigurationInvariant, SessionInvariant, [AccessNext]_accessVars
             PROVE  SessionInvariant'
  OBVIOUS
<1> USE DEF SessionInvariant
<1> DEFINE inForce == configuration["authentication"]
<1>0. \A peer \in Peers : peer # "none"
  BY HttpAccessAssumption
<1>1. ASSUME NEW peer \in Peers, IsAuthenticated(peer), session' = Touched,
             UNCHANGED configuration
      PROVE  /\ session' \in [holder : Peers, idle : Int, password : {inForce'}]
  <2>1. session # NoSession
    BY <1>0, <1>1 DEF IsAuthenticated, NoSession
  <2> QED
    BY <1>1, <2>1 DEF Touched
<1>2. ASSUME NEW peer \in Peers, Login(peer) PROVE SessionInvariant'
  <2>1. /\ UNCHANGED <<server, change, configuration>> /\ server = "serving"
        /\ session' = [holder |-> peer, idle |-> 0, password |-> inForce]
    BY <1>2 DEF Login, IsHandled
  <2> QED
    BY <2>1
<1>3. ASSUME NEW peer \in Peers, LoginFails(peer) \/ Visit(peer) \/ Logout(peer)
      PROVE  SessionInvariant'
  <2>1. UNCHANGED <<server, change, configuration>> /\ server = "serving"
    BY <1>3 DEF LoginFails, Visit, Logout, IsHandled, requestVars
  <2>2. \/ UNCHANGED session \/ session' = NoSession
        \/ IsAuthenticated(peer) /\ session' = Touched
    BY <1>3 DEF LoginFails, Visit, Logout, requestVars
  <2> QED
    BY <1>1, <2>1, <2>2
<1>4. ASSUME NEW peer \in Peers,
             \/ \E password \in Passwords : PutPassword(peer, password)
             \/ \E network \in Networks : PutNetwork(peer, network)
      PROVE  SessionInvariant'
  <2>1. UNCHANGED <<server, configuration>> /\ server = "serving"
    BY <1>4 DEF PutPassword, PutNetwork, BeginChange, IsHandled
  <2>2. \/ UNCHANGED session
        \/ IsAuthenticated(peer) /\ session' = Touched
    BY <1>4 DEF PutPassword, PutNetwork
  <2> QED
    BY <1>1, <2>1, <2>2
<1>5. CASE WriteChange \/ ChangeFails
  BY <1>5 DEF WriteChange, ChangeFails
<1>6. CASE CompleteChange
  <2>1. /\ UNCHANGED server /\ session' = SessionAfter(change.key)
        /\ configuration' = [configuration EXCEPT ![change.key] = change.value]
    BY <1>6 DEF CompleteChange
  <2>2. server = "serving" /\ configuration \in [Keys -> Data]
    BY <1>6 DEF CompleteChange, ConfigurationInvariant, ChangeIsExpected, ConfigurationTypeOK
  <2>3. CASE change.key = "authentication"
    BY <2>1, <2>3 DEF SessionAfter
  <2>4. CASE change.key # "authentication"
    BY <2>1, <2>2, <2>4, KeysLemma DEF SessionAfter
  <2> QED
    BY <2>3, <2>4
<1>7. CASE Tick
  <2>1. UNCHANGED <<server, change, configuration>> /\ server = "serving"
    BY <1>7 DEF Tick
  <2>2. CASE session = NoSession
    BY <1>7, <2>1, <2>2 DEF Tick
  <2>3. CASE session # NoSession
    <3>1. session' = [session EXCEPT !.idle = Least(session.idle + 1, IdleTimeout)]
      BY <1>7, <2>3 DEF Tick
    <3>2. Least(session.idle + 1, IdleTimeout) \in Int
      BY <2>3, HttpAccessAssumption DEF Least
    <3> QED
      BY <2>1, <2>3, <3>1, <3>2
  <2> QED
    BY <2>2, <2>3
<1>8. CASE PowerCut
  BY <1>8 DEF PowerCut
<1>9. CASE Boot \/ BootFails \/ Migrate \/ MigrationFails
  <2>1. server # "serving" /\ UNCHANGED <<change, session>>
    BY <1>9 DEF Boot, BootFails, Migrate, MigrationFails, Keys, requestVars
  <2> QED
    BY <2>1
<1>10. CASE ReachChanges \/ UNCHANGED accessVars
  BY <1>10 DEF ReachChanges, accessVars, requestVars
<1> QED
  BY <1>2, <1>3, <1>4, <1>5, <1>6, <1>7, <1>8, <1>9, <1>10 DEF AccessNext

\* A change of the password ends the session that was opened under the old one, whichever
\* peer made it and whatever happened between its write and its answer.
THEOREM SessionsSafe == AccessSpec => []SessionsAreOfThePassword
<1>1. AccessInit => SessionInvariant
  BY DEF AccessInit, SessionInvariant
<1>2. SessionInvariant => SessionsAreOfThePassword
  BY DEF SessionInvariant, SessionsAreOfThePassword
<1> QED
  BY <1>1, <1>2, AccessInitInvariant, AccessStepInvariant, SessionStep, PTL DEF AccessSpec

----------------------------------------------------------------------------
(* Blynk: commands and results keep to their connection.                     *)

InHand == step \in {"map", "check", "admit"}

\* Every variable that a command's connection is read from has its type.
ConnectionTypeOK ==
    /\ connected \in BOOLEAN
    /\ connection \in Nat
    /\ arrivals \in Seq(Nat)
    /\ inbound \in Seq(Nat)
    /\ poll \in [connected : BOOLEAN, connection : Nat, disconnect : Int]
    /\ disconnect \in Int
    /\ mailbox \in Seq([message : Nat, generation : Nat])

HasArrived(message) == message \in 1 .. Len(arrivals)

\* What the callback is about to push has arrived, and so has what is in the mailbox.
InboundHasArrived ==
    /\ callback = "push" => arrivals # <<>>
    /\ \A i \in 1 .. Len(inbound) : HasArrived(inbound[i])

\* The command in BlynkTask's hands came over the connection of the poll.
InHandIsOfThePoll == InHand => HasArrived(taken) /\ arrivals[taken] = poll.connection

\* Every translated command is stamped with the connection that it came over.
StampsAreTrue ==
    \A i \in 1 .. Len(mailbox) :
        /\ HasArrived(mailbox[i].message)
        /\ mailbox[i].generation = arrivals[mailbox[i].message]

StampInvariant ==
    ConnectionTypeOK /\ InboundHasArrived /\ InHandIsOfThePoll /\ StampsAreTrue

\* Appending to a sequence.
LEMMA AppendLemma ==
    ASSUME NEW S, NEW s \in Seq(S), NEW e \in S
    PROVE  /\ Append(s, e) \in Seq(S)
           /\ Len(Append(s, e)) = Len(s) + 1
           /\ \A i \in 1 .. Len(Append(s, e)) :
                 \/ i \in 1 .. Len(s) /\ Append(s, e)[i] = s[i]
                 \/ Append(s, e)[i] = e
  OBVIOUS

\* Nothing has arrived.
LEMMA InitStamps == Init => StampInvariant
<1> SUFFICES ASSUME Init PROVE StampInvariant
  OBVIOUS
<1>1. arrivals = <<>> /\ inbound = <<>> /\ mailbox = <<>>
  BY DEF Init
<1>2. Len(inbound) = 0 /\ Len(mailbox) = 0
  BY <1>1
<1>3. InboundHasArrived /\ InHandIsOfThePoll /\ StampsAreTrue
  BY <1>2 DEF Init, InboundHasArrived, InHandIsOfThePoll, StampsAreTrue, InHand
<1>4. arrivals \in Seq(Nat) /\ inbound \in Seq(Nat)
  BY <1>1
<1>5. mailbox \in Seq([message : Nat, generation : Nat])
  BY <1>1
<1>c. connected = FALSE /\ connection = 0 /\ disconnect = 0
  BY DEF Init
<1>6. connected \in BOOLEAN
  BY <1>c
<1>9. connection \in Nat /\ disconnect \in Int
  BY <1>c
<1>7. poll = [connected |-> FALSE, connection |-> 0, disconnect |-> 0]
  BY DEF Init
<1>8. poll \in [connected : BOOLEAN, connection : Nat, disconnect : Int]
  BY <1>7
<1> QED
  BY <1>3, <1>4, <1>5, <1>6, <1>8, <1>9 DEF StampInvariant, ConnectionTypeOK

(* Most steps leave the stamps, the poll and the arrivals alone.                   *)
LEMMA QuietStep ==
    ASSUME StampInvariant,
           UNCHANGED <<arrivals, inbound, mailbox, poll, taken>>,
           connected' \in BOOLEAN, connection' \in Nat, disconnect' \in Int,
           callback' = "push" => callback = "push",
           InHand' => InHand
    PROVE  StampInvariant'
  BY DEF StampInvariant, ConnectionTypeOK, InboundHasArrived, InHandIsOfThePoll,
         StampsAreTrue, InHand, HasArrived

\* The client's task only adds what arrives.
LEMMA MqttStamps == StampInvariant /\ MqttTask => StampInvariant'
<1> SUFFICES ASSUME StampInvariant, MqttTask PROVE StampInvariant'
  OBVIOUS
<1>t. connected \in BOOLEAN /\ connection \in Nat /\ disconnect \in Int
  BY DEF StampInvariant, ConnectionTypeOK
<1>1. CASE LinkComesUp
  BY <1>1, <1>t, QuietStep DEF LinkComesUp, CallbackVars, boundary, InHand
<1>2. CASE LinkIsLost
  BY <1>2, <1>t, QuietStep DEF LinkIsLost, CallbackVars, boundary, InHand
<1>3. CASE CallbackCountsConnection
  BY <1>3, <1>t, QuietStep DEF CallbackCountsConnection, CallbackVars, InHand
<1>4. CASE CallbackConnects
  BY <1>4, <1>t, QuietStep DEF CallbackConnects, CallbackVars, InHand
<1>5. CASE CallbackDisconnects
  BY <1>5, <1>t, QuietStep DEF CallbackDisconnects, CallbackVars, InHand
<1>6. CASE CallbackCountsDisconnect
  BY <1>6, <1>t, QuietStep DEF CallbackCountsDisconnect, CallbackVars, InHand
<1>7. CASE MessageArrives
  <2>1. /\ arrivals' \in Seq(Nat)
        /\ Len(arrivals') = Len(arrivals) + 1
        /\ \A i \in 1 .. Len(arrivals) : arrivals'[i] = arrivals[i]
    BY <1>7, <1>t DEF MessageArrives, StampInvariant, ConnectionTypeOK
  <2>2. Len(arrivals) \in Nat /\ arrivals' # <<>>
    BY <1>7, <2>1 DEF StampInvariant, ConnectionTypeOK
  <2>3. \A m : HasArrived(m) => HasArrived(m)' /\ arrivals'[m] = arrivals[m]
    BY <2>1, <2>2 DEF HasArrived
  <2> QED
    BY <1>7, <2>1, <2>2, <2>3
    DEF MessageArrives, CallbackVars, boundary, InHand, StampInvariant, ConnectionTypeOK,
        InboundHasArrived, InHandIsOfThePoll, StampsAreTrue, HasArrived
<1>8. CASE CallbackPushes
  <2>1. Len(arrivals) \in Nat \ {0}
    BY <1>8 DEF CallbackPushes, StampInvariant, InboundHasArrived, ConnectionTypeOK
  <2>2. \/ inbound' = inbound
        \/ inbound' = Append(inbound, Len(arrivals))
    BY <1>8 DEF CallbackPushes
  <2>3. inbound \in Seq(Nat) /\ \A i \in 1 .. Len(inbound) : HasArrived(inbound[i])
    BY DEF StampInvariant, InboundHasArrived, ConnectionTypeOK
  <2>4. HasArrived(Len(arrivals))
    BY <2>1 DEF HasArrived
  <2>5. inbound' \in Seq(Nat) /\ \A i \in 1 .. Len(inbound') : HasArrived(inbound'[i])
    <3>1. Len(arrivals) \in Nat
      BY <2>1
    <3> DEFINE pushed == Append(inbound, Len(arrivals))
    <3>2. /\ pushed \in Seq(Nat)
          /\ \A i \in 1 .. Len(pushed) :
                \/ i \in 1 .. Len(inbound) /\ pushed[i] = inbound[i]
                \/ pushed[i] = Len(arrivals)
      BY <2>3, <3>1, AppendLemma
    <3> HIDE DEF pushed
    <3>3. CASE inbound' = inbound
      BY <2>3, <3>3
    <3>4. CASE inbound' = pushed
      BY <2>3, <2>4, <3>2, <3>4
    <3> QED
      BY <2>2, <3>3, <3>4 DEF pushed
  <2> QED
    BY <1>8, <2>5
    DEF CallbackPushes, CallbackVars, boundary, InHand, StampInvariant, ConnectionTypeOK,
        InboundHasArrived, InHandIsOfThePoll, StampsAreTrue, HasArrived
<1> QED
  BY <1>1, <1>2, <1>3, <1>4, <1>5, <1>6, <1>7, <1>8 DEF MqttTask

\* BlynkTask stamps a command with the connection of its poll.
LEMMA BlynkStamps == StampInvariant /\ BlynkTask => StampInvariant'
<1> SUFFICES ASSUME StampInvariant, BlynkTask PROVE StampInvariant'
  OBVIOUS
<1>t. connected \in BOOLEAN /\ connection \in Nat /\ disconnect \in Int
  BY DEF StampInvariant, ConnectionTypeOK
<1>1. CASE Provision
  BY <1>1, <1>t, QuietStep DEF Provision, MqttVars, InHand
<1>2. CASE StopCountsDisconnect
  BY <1>2, <1>t, QuietStep DEF StopCountsDisconnect, MqttVars, InHand
<1>3. CASE StopClient
  BY <1>3, <1>t, QuietStep DEF StopClient, boundary, InHand
<1>4. CASE ReadDisconnect
  BY <1>4, <1>t DEF ReadDisconnect, PollVars, MqttVars, boundary, InHand, StampInvariant,
     ConnectionTypeOK, InboundHasArrived, InHandIsOfThePoll, StampsAreTrue, HasArrived
<1>5. CASE ReadConnected
  BY <1>5, <1>t DEF ReadConnected, PollVars, MqttVars, boundary, InHand, StampInvariant,
     ConnectionTypeOK, InboundHasArrived, InHandIsOfThePoll, StampsAreTrue, HasArrived
<1>6. CASE ReadConnection
  BY <1>6, <1>t DEF ReadConnection, PollVars, MqttVars, boundary, InHand, StampInvariant,
     ConnectionTypeOK, InboundHasArrived, InHandIsOfThePoll, StampsAreTrue, HasArrived
<1>7. CASE PollAgain
  BY <1>7, <1>t, QuietStep DEF PollAgain, PollVars, MqttVars, boundary, InHand
<1>8. CASE FinishPoll
  BY <1>8, <1>t, QuietStep DEF FinishPoll, PollVars, MqttVars, boundary, InHand
<1>9. CASE BeginTurn
  <2>1. step' \notin {"map", "check", "admit"}
    BY <1>9 DEF BeginTurn
  <2> QED
    BY <1>9, <1>t, <2>1, QuietStep DEF BeginTurn, InboundVars, boundary, InHand
<1>10. CASE TakeInbound
  <2>1. CASE inbound' = inbound /\ taken' = taken /\ step' = "observe"
    BY <1>10, <1>t, <2>1, QuietStep DEF TakeInbound, InboundVars, boundary, InHand
  <2>2. CASE /\ inbound # <<>> /\ inbound' = Tail(inbound)
             /\ \/ step' = "inbound" /\ taken' = taken
                \/ /\ step' = "map" /\ taken' = Head(inbound)
                   /\ ~IsStale(arrivals[Head(inbound)])
    <3>1. inbound \in Seq(Nat) /\ \A i \in 1 .. Len(inbound) : HasArrived(inbound[i])
      BY DEF StampInvariant, ConnectionTypeOK, InboundHasArrived
    <3>2. /\ inbound' \in Seq(Nat)
          /\ HasArrived(Head(inbound))
          /\ \A i \in 1 .. Len(inbound') : HasArrived(inbound'[i])
      BY <2>2, <3>1
    <3>3. UNCHANGED <<boundary, callback, arrivals, poll, mailbox>>
      BY <1>10 DEF TakeInbound, InboundVars
    <3> QED
      BY <1>t, <2>2, <3>2, <3>3
      DEF boundary, InHand, StampInvariant, ConnectionTypeOK, InboundHasArrived,
          InHandIsOfThePoll, StampsAreTrue, HasArrived, IsStale
  <2> QED
    BY <1>10, <2>1, <2>2 DEF TakeInbound
<1>11. CASE MapCommand
  <2>1. \/ step' = "check" /\ taken' = taken
        \/ step' \in {"observe", "inbound"}
    BY <1>11 DEF MapCommand
  <2>2. InHand /\ UNCHANGED <<boundary, callback, arrivals, inbound, poll, mailbox>>
    BY <1>11 DEF MapCommand, InboundVars, InHand
  <2> QED
    BY <1>t, <2>1, <2>2
    DEF boundary, InHand, StampInvariant, ConnectionTypeOK, InboundHasArrived,
        InHandIsOfThePoll, StampsAreTrue, HasArrived
<1>12. CASE CheckConnection
  <2>1. \/ step' = "admit" /\ taken' = taken
        \/ step' = "observe"
    BY <1>12 DEF CheckConnection
  <2>2. InHand /\ UNCHANGED <<boundary, callback, arrivals, inbound, poll, mailbox>>
    BY <1>12 DEF CheckConnection, InboundVars, InHand
  <2> QED
    BY <1>t, <2>1, <2>2
    DEF boundary, InHand, StampInvariant, ConnectionTypeOK, InboundHasArrived,
        InHandIsOfThePoll, StampsAreTrue, HasArrived
<1>13. CASE AdmitCommand
  <2> DEFINE entry == [message |-> taken, generation |-> poll.connection]
  <2>1. HasArrived(taken) /\ arrivals[taken] = poll.connection
    BY <1>13 DEF AdmitCommand, InHand, StampInvariant, InHandIsOfThePoll
  <2>2. taken \in Nat /\ poll.connection \in Nat
    BY <2>1 DEF HasArrived, StampInvariant, ConnectionTypeOK
  <2>3. entry \in [message : Nat, generation : Nat]
    BY <2>2
  <2>4. mailbox' = mailbox \/ mailbox' = Append(mailbox, entry)
    BY <1>13 DEF AdmitCommand
  <2>5. entry.message = taken /\ entry.generation = poll.connection
    OBVIOUS
  <2>6. /\ mailbox \in Seq([message : Nat, generation : Nat])
        /\ StampsAreTrue
    BY DEF StampInvariant, ConnectionTypeOK
  <2> DEFINE admitted == Append(mailbox, entry)
  <2> HIDE DEF entry
  <2>7. /\ admitted \in Seq([message : Nat, generation : Nat])
        /\ \A i \in 1 .. Len(admitted) :
              \/ i \in 1 .. Len(mailbox) /\ admitted[i] = mailbox[i]
              \/ admitted[i] = entry
    BY <2>3, <2>6, AppendLemma
  <2>a. mailbox' = mailbox \/ mailbox' = admitted
    BY <2>4
  <2> HIDE DEF admitted
  <2>8. /\ mailbox' \in Seq([message : Nat, generation : Nat])
        /\ \A i \in 1 .. Len(mailbox') :
              \/ i \in 1 .. Len(mailbox) /\ mailbox'[i] = mailbox[i]
              \/ mailbox'[i] = entry
    <3>1. CASE mailbox' = mailbox
      BY <3>1, <2>6
    <3>2. CASE mailbox' = admitted
      BY <3>2, <2>7
    <3> QED
      BY <2>a, <3>1, <3>2
  <2>9. UNCHANGED <<boundary, callback, arrivals, inbound, poll>> /\ step' = "inbound"
    BY <1>13 DEF AdmitCommand, InboundVars
  <2>10. StampsAreTrue'
    <3> SUFFICES ASSUME NEW i \in 1 .. Len(mailbox')
                 PROVE  /\ mailbox'[i].message \in 1 .. Len(arrivals')
                        /\ mailbox'[i].generation = arrivals'[mailbox'[i].message]
      BY DEF StampsAreTrue, HasArrived
    <3>1. CASE mailbox'[i] = entry
      BY <3>1, <2>1, <2>5, <2>9 DEF HasArrived
    <3>2. CASE i \in 1 .. Len(mailbox) /\ mailbox'[i] = mailbox[i]
      BY <3>2, <2>6, <2>9 DEF StampsAreTrue, HasArrived
    <3> QED
      BY <2>8, <3>1, <3>2
  <2> QED
    BY <1>t, <2>8, <2>9, <2>10
    DEF boundary, InHand, StampInvariant, ConnectionTypeOK, InboundHasArrived,
        InHandIsOfThePoll, HasArrived
<1>14. CASE ObserveSnapshot
  BY <1>14, <1>t, QuietStep DEF ObserveSnapshot, OutboundVars, MqttVars, boundary, InHand
<1>15. CASE SkipObserving
  BY <1>15, <1>t, QuietStep DEF SkipObserving, OutboundVars, MqttVars, boundary, InHand
<1>16. CASE SkipPublishing
  BY <1>16, <1>t, QuietStep DEF SkipPublishing, OutboundVars, MqttVars, boundary, InHand
<1>17. CASE \E sentResult, sentStatus \in BOOLEAN : PublishOutbound(sentResult, sentStatus)
  BY <1>17, <1>t, QuietStep DEF PublishOutbound, OutboundVars, MqttVars, boundary, InHand
<1> QED
  BY <1>1, <1>2, <1>3, <1>4, <1>5, <1>6, <1>7, <1>8, <1>9, <1>10, <1>11, <1>12, <1>13,
     <1>14, <1>15, <1>16, <1>17 DEF BlynkTask

\* ControlTask takes the head of the mailbox.
LEMMA DrainStamps == StampInvariant /\ Drain => StampInvariant'
<1> SUFFICES ASSUME StampInvariant, Drain PROVE StampInvariant'
  OBVIOUS
<1>1. /\ mailbox \in Seq([message : Nat, generation : Nat])
      /\ mailbox # <<>> /\ mailbox' = Tail(mailbox)
  BY DEF Drain, StampInvariant, ConnectionTypeOK
<1>2. /\ mailbox' \in Seq([message : Nat, generation : Nat])
      /\ \A i \in 1 .. Len(mailbox') :
            i + 1 \in 1 .. Len(mailbox) /\ mailbox'[i] = mailbox[i + 1]
  BY <1>1
<1>3. UNCHANGED <<boundary, callback, arrivals, inbound, poll, step, taken>>
  BY DEF Drain, MqttVars
<1>4. StampsAreTrue'
  BY <1>2, <1>3 DEF StampInvariant, StampsAreTrue, HasArrived
<1> QED
  BY <1>2, <1>3, <1>4
  DEF boundary, InHand, StampInvariant, ConnectionTypeOK, InboundHasArrived,
      InHandIsOfThePoll, HasArrived

\* Every step keeps the stamps true.
LEMMA NextStamps == StampInvariant /\ [Next]_vars => StampInvariant'
<1>1. StampInvariant /\ UNCHANGED vars => StampInvariant'
  BY DEF vars, boundary, StampInvariant, ConnectionTypeOK, InboundHasArrived,
         InHandIsOfThePoll, StampsAreTrue, InHand, HasArrived
<1> QED
  BY <1>1, MqttStamps, BlynkStamps, DrainStamps DEF Next

(* Only Drain executes, and it looks at the stamp of what it executes.             *)
LEMMA ExecutedStep ==
    StampInvariant /\ [Next]_vars =>
        \A message \in executed' \ executed : connected /\ connection = arrivals[message]
<1> SUFFICES ASSUME StampInvariant, [Next]_vars, NEW message \in executed' \ executed
             PROVE  connected /\ connection = arrivals[message]
  OBVIOUS
<1>1. CASE Drain
  <2>1. /\ message = Head(mailbox).message
        /\ Accepts(Head(mailbox).generation)
        /\ mailbox # <<>>
    BY <1>1 DEF Drain, Executes
  <2>2. Head(mailbox) = mailbox[1] /\ 1 \in 1 .. Len(mailbox)
    BY <2>1 DEF StampInvariant, ConnectionTypeOK
  <2> QED
    BY <2>1, <2>2 DEF Accepts, StampInvariant, StampsAreTrue
<1>2. CASE MqttTask
  BY <1>2 DEF MqttTask, LinkComesUp, LinkIsLost, CallbackCountsConnection,
     CallbackConnects, CallbackDisconnects, CallbackCountsDisconnect, MessageArrives,
     CallbackPushes, CallbackVars
<1>3. CASE BlynkTask
  <2>1. ASSUME NEW sentResult \in BOOLEAN, NEW sentStatus \in BOOLEAN,
               PublishOutbound(sentResult, sentStatus)
        PROVE  executed' = executed
    BY <2>1 DEF PublishOutbound, OutboundVars
  <2> QED
    BY <1>3, <2>1 DEF BlynkTask, Provision, StopCountsDisconnect, StopClient,
       ReadDisconnect, ReadConnected, ReadConnection, PollAgain, FinishPoll, BeginTurn,
       TakeInbound, MapCommand, CheckConnection, AdmitCommand, ObserveSnapshot,
       SkipObserving, SkipPublishing, PollVars, InboundVars, OutboundVars
<1>4. CASE UNCHANGED vars
  BY <1>4 DEF vars
<1> QED
  BY <1>1, <1>2, <1>3, <1>4 DEF Next

\* ControlTask executes a command of Blynk only in the connection that the command came
\* over (the generation check of runtime_transport_support.cpp), whatever links come and
\* go while it passes the inbound mailbox, BlynkTask and the application's mailbox.
THEOREM ExecutionSafe == Spec => ExecutedInItsConnection
<1>1. Spec => []StampInvariant
  BY InitStamps, NextStamps, PTL DEF Spec
<1> QED
  BY <1>1, ExecutedStep, PTL DEF Spec, ExecutedInItsConnection

----------------------------------------------------------------------------
(* The results that BlynkTask awaits and publishes.                         *)

\* BlynkTask has a command in its hands, or is about to take one.
Handling == step \in {"front", "map", "check", "admit"}

PollIsFinished == Handling \/ step \in {"inbound", "observe", "publish"}

\* What the client's task is at while a connection is up, and what the polls have seen.
LinkInv ==
    /\ overlapped \in BOOLEAN
    /\ observed \in [connection : Nat, disconnect : Int]
    /\ callback \in {"count", "connect", "push"} => client = "up"
    /\ connected /\ ~overlapped =>
          /\ ~BeingStopped
          /\ callback = "disconnect" \/ (client = "up" /\ callback \in {"idle", "push"})
    /\ observed.disconnect <= disconnect
    /\ observed.connection <= poll.connection /\ poll.connection <= connection
    /\ PollIsFinished => /\ observed.disconnect = poll.disconnect
                         /\ poll.connected => observed.connection = poll.connection
    /\ Handling => poll.connected

\* The sequence of a finite set has its elements and its length.
LEMMA SequenceOfSet ==
    ASSUME NEW S, IsFiniteSet(S)
    PROVE  /\ SetToSeq(S) \in Seq(S)
           /\ Len(SetToSeq(S)) = Cardinality(S)
           /\ ToSet(SetToSeq(S)) \subseteq S
  <1>1. Cardinality(S) \in Nat /\ ExistsBijection(1 .. Cardinality(S), S)
    BY FS_CardinalityType
  <1>2. \E f \in [1 .. Cardinality(S) -> S] : IsInjective(f)
    BY <1>1 DEF ExistsBijection, Bijection, Injection, IsInjective
  <1>3. SetToSeq(S) \in [1 .. Cardinality(S) -> S]
    BY <1>2 DEF SetToSeq
  <1> QED
    BY <1>1, <1>3 DEF ToSet

\* At first no link is up and no poll has seen one.
LEMMA InitLink == Init => LinkInv
  <1> SUFFICES ASSUME Init PROVE LinkInv
    OBVIOUS
  <1>1. /\ connected = FALSE /\ connection = 0 /\ disconnect = 0
        /\ callback = "idle" /\ step = "uart" /\ overlapped = FALSE
        /\ poll = [connected |-> FALSE, connection |-> 0, disconnect |-> 0]
        /\ observed = [connection |-> 0, disconnect |-> 0]
    BY DEF Init
  <1>2. /\ poll.connection = 0 /\ observed.connection = 0 /\ observed.disconnect = 0
        /\ observed \in [connection : Nat, disconnect : Int]
    BY <1>1
  <1>3. overlapped \in BOOLEAN
    BY <1>1
  <1>4. ~connected /\ callback = "idle" /\ step = "uart"
    BY <1>1
  <1>5. poll.connection = 0 /\ connection = 0 /\ disconnect = 0
    BY <1>1
  <1> QED
    BY <1>2, <1>3, <1>4, <1>5 DEF LinkInv, PollIsFinished, Handling
 
\* The callbacks keep the link and the generations in step.
LEMMA MqttLink == StampInvariant /\ LinkInv /\ MqttTask => LinkInv'
  <1> SUFFICES ASSUME StampInvariant, LinkInv, MqttTask PROVE LinkInv'
    OBVIOUS
  <1> USE DEF LinkInv, PollIsFinished, Handling, BeingStopped
  <1>t. connected \in BOOLEAN /\ connection \in Nat /\ disconnect \in Int
        /\ poll \in [connected : BOOLEAN, connection : Nat, disconnect : Int]
    BY DEF StampInvariant, ConnectionTypeOK
  <1>1. CASE LinkComesUp \/ LinkIsLost \/ MessageArrives \/ CallbackPushes
    BY <1>1, <1>t DEF LinkComesUp, LinkIsLost, MessageArrives, CallbackPushes, CallbackVars,
       boundary
  <1>2. CASE CallbackCountsConnection
    BY <1>2, <1>t DEF CallbackCountsConnection, CallbackVars
  <1>3. CASE CallbackConnects
    BY <1>3, <1>t DEF CallbackConnects, CallbackVars
  <1>4. CASE CallbackDisconnects
    BY <1>4, <1>t DEF CallbackDisconnects, CallbackVars
  <1>5. CASE CallbackCountsDisconnect
    BY <1>5, <1>t DEF CallbackCountsDisconnect, CallbackVars
  <1> QED
    BY <1>1, <1>2, <1>3, <1>4, <1>5 DEF MqttTask

\* So does BlynkTask: a poll never sees more than there is.
LEMMA BlynkLink == StampInvariant /\ LinkInv /\ BlynkTask => LinkInv'
  <1> SUFFICES ASSUME StampInvariant, LinkInv, BlynkTask PROVE LinkInv'
    OBVIOUS
  <1> USE DEF LinkInv, PollIsFinished, Handling, BeingStopped
  <1>t. connected \in BOOLEAN /\ connection \in Nat /\ disconnect \in Int
        /\ poll \in [connected : BOOLEAN, connection : Nat, disconnect : Int]
    BY DEF StampInvariant, ConnectionTypeOK
  <1>1. CASE Provision
    BY <1>1, <1>t DEF Provision, MqttVars
  <1>2. CASE StopCountsDisconnect
    BY <1>2, <1>t DEF StopCountsDisconnect, MqttVars
  <1>3. CASE StopClient
    BY <1>3, <1>t DEF StopClient, boundary
  <1>4. CASE ReadDisconnect \/ ReadConnected \/ ReadConnection \/ PollAgain
    <2>1. /\ UNCHANGED <<boundary, client, callback, overlapped, observed>>
          /\ step' \in {"before", "connected", "connection", "after"}
          /\ ~BeingStopped /\ poll' \in [connected : BOOLEAN, connection : Nat, disconnect : Int]
          /\ poll'.connection \in {poll.connection, connection}
      BY <1>4, <1>t DEF ReadDisconnect, ReadConnected, ReadConnection, PollAgain, PollVars,
         MqttVars
    <2> QED
      BY <1>t, <2>1 DEF boundary
  <1>5. CASE FinishPoll
    <2>1. /\ UNCHANGED <<boundary, client, callback, overlapped, poll>>
          /\ step' = "inbound" /\ ~BeingStopped
          /\ disconnect = poll.disconnect
          /\ observed' = [disconnect |-> disconnect, connection |-> ObservedConnection]
      BY <1>5 DEF FinishPoll, PollVars, MqttVars
    <2>2. /\ ObservedConnection \in Nat
          /\ ObservedConnection <= poll.connection
          /\ poll.connected => ObservedConnection = poll.connection
      BY <1>t DEF ObservedConnection
    <2> QED
      BY <1>t, <2>1, <2>2 DEF boundary
  <1>6. CASE BeginTurn
    BY <1>6, <1>t DEF BeginTurn, InboundVars, boundary, Usable
  <1>7. CASE TakeInbound \/ MapCommand \/ CheckConnection \/ AdmitCommand
    <2>1. /\ UNCHANGED <<boundary, client, callback, overlapped, observed, poll>>
          /\ Handling
          /\ step' \in {"inbound", "front", "map", "check", "admit", "observe"}
      BY <1>7 DEF TakeInbound, MapCommand, CheckConnection, AdmitCommand, InboundVars
    <2> QED
      BY <1>t, <2>1 DEF boundary
  <1>8. CASE \/ ObserveSnapshot \/ SkipObserving \/ SkipPublishing
             \/ \E sentResult, sentStatus \in BOOLEAN : PublishOutbound(sentResult, sentStatus)
    <2>1. /\ UNCHANGED <<boundary, client, callback, overlapped, observed, poll>>
          /\ step \in {"observe", "publish"}
          /\ step' \in {"publish", "uart"}
      BY <1>8 DEF ObserveSnapshot, SkipObserving, SkipPublishing, PublishOutbound,
         OutboundVars, MqttVars
    <2> QED
      BY <1>t, <2>1 DEF boundary
  <1> QED
    BY <1>1, <1>2, <1>3, <1>4, <1>5, <1>6, <1>7, <1>8 DEF BlynkTask

\* And so does every step.
LEMMA NextLink == StampInvariant /\ LinkInv /\ [Next]_vars => LinkInv'
  <1>1. StampInvariant /\ LinkInv /\ Drain => LinkInv'
    BY DEF Drain, MqttVars, boundary, LinkInv, PollIsFinished, Handling, BeingStopped
  <1>2. StampInvariant /\ LinkInv /\ UNCHANGED vars => LinkInv'
    BY DEF vars, boundary, LinkInv, PollIsFinished, Handling, BeingStopped
  <1> QED
    BY <1>1, <1>2, MqttLink, BlynkLink DEF Next

\* No message comes over connection 0: it arrives while its connection is accepted.
ArrivalsAreOfConnections == \A i \in 1 .. Len(arrivals) : arrivals[i] # 0

Awaited == pending \cup ToSet(feedback) \cup ({candidate} \ {0})

\* The connection that the last poll observed is up, or BlynkTask will see that it ended.
Live ==
    \/ disconnect # observed.disconnect
    \/ BeingStopped
    \/ connection = observed.connection /\ (connected \/ callback = "countDisconnect")

ResultsTypeOK ==
    /\ pending \subseteq Nat /\ IsFiniteSet(pending)
    /\ feedback \in Seq(Nat)
    /\ candidate \in Nat

\* What is awaited is of the connection that the last poll observed.
ResultsAreLive ==
    ~overlapped => /\ \A message \in Awaited :
                         HasArrived(message) /\ arrivals[message] = observed.connection
                   /\ Awaited # {} \/ Handling => Live

\* A disconnect that BlynkTask will clean up after.
EndIsNear ==
    \/ disconnect # observed.disconnect
    \/ callback = "countDisconnect" \/ BeingStopped
    \/ overlapped

\* Why each reservation is held.
ReservationsHaveCause ==
    \A message \in pending :
        \/ message = taken /\ step \in {"check", "admit"}
        \/ \E entry \in ToSet(mailbox) : entry.message = message
        \/ message \in executed
        \/ EndIsNear

RoomIsReserved == Cardinality(pending) + Len(feedback) <= ResultCapacity

ResultsInvariant ==
    /\ ArrivalsAreOfConnections
    /\ ResultsTypeOK
    /\ ResultsAreLive
    /\ ReservationsHaveCause
    /\ RoomIsReserved

ResultsContext == StampInvariant /\ LinkInv /\ ResultsInvariant

\* At first nothing is awaited.
LEMMA InitResults == Init => ResultsInvariant
  <1> SUFFICES ASSUME Init PROVE ResultsInvariant
    OBVIOUS
  <1>1. /\ pending = {} /\ feedback = <<>> /\ candidate = 0 /\ arrivals = <<>>
        /\ step = "uart"
    BY DEF Init
  <1>2. Len(arrivals) = 0 /\ Len(feedback) = 0 /\ Cardinality(pending) = 0
        /\ IsFiniteSet(pending) /\ feedback \in Seq(Nat)
    BY <1>1, FS_EmptySet
  <1>3. ToSet(feedback) = {}
    BY <1>2 DEF ToSet
  <1>4. ResultCapacity \in Nat
    BY BlynkAssumption
  <1> QED
    BY <1>1, <1>2, <1>3, <1>4 DEF ResultsInvariant, ArrivalsAreOfConnections, ResultsTypeOK,
       ResultsAreLive, ReservationsHaveCause, RoomIsReserved, Awaited, Handling

\* A callback ends the connection of what is awaited only where BlynkTask will see it.
LEMMA MqttResults == ResultsContext /\ MqttTask => ResultsInvariant'
  <1> SUFFICES ASSUME ResultsContext, MqttTask PROVE ResultsInvariant'
    OBVIOUS
  <1>t. /\ connected \in BOOLEAN /\ connection \in Nat /\ disconnect \in Int
        /\ overlapped \in BOOLEAN
        /\ observed \in [connection : Nat, disconnect : Int]
        /\ arrivals \in Seq(Nat) /\ observed.disconnect <= disconnect
    BY DEF ResultsContext, StampInvariant, ConnectionTypeOK, LinkInv
  <1>1. UNCHANGED <<pending, feedback, candidate, observed, step, taken, mailbox, executed>>
    BY DEF MqttTask, LinkComesUp, LinkIsLost, MessageArrives, CallbackPushes,
       CallbackCountsConnection, CallbackConnects, CallbackDisconnects,
       CallbackCountsDisconnect, CallbackVars, results
  <1>2. /\ arrivals' \in Seq(Nat)
        /\ \A m : HasArrived(m) => HasArrived(m)' /\ arrivals'[m] = arrivals[m]
        /\ ArrivalsAreOfConnections'
    <2>1. CASE MessageArrives
      <3>1. /\ arrivals' = Append(arrivals, connection) /\ connection # 0
        BY <2>1 DEF MessageArrives, Accepts
      <3>2. /\ arrivals' \in Seq(Nat)
            /\ Len(arrivals') = Len(arrivals) + 1
            /\ \A i \in 1 .. Len(arrivals) : arrivals'[i] = arrivals[i]
            /\ arrivals'[Len(arrivals) + 1] = connection
        BY <1>t, <3>1
      <3>3. Len(arrivals) \in Nat
        BY <1>t
      <3> QED
        BY <3>1, <3>2, <3>3 DEF HasArrived, ArrivalsAreOfConnections, ResultsContext,
           ResultsInvariant
    <2>2. CASE ~MessageArrives
      <3>1. arrivals' = arrivals
        BY <2>2 DEF MqttTask, LinkComesUp, LinkIsLost, CallbackPushes,
           CallbackCountsConnection, CallbackConnects, CallbackDisconnects,
           CallbackCountsDisconnect, CallbackVars
      <3> QED
        BY <1>t, <3>1 DEF HasArrived, ArrivalsAreOfConnections, ResultsContext,
           ResultsInvariant
    <2> QED
      BY <2>1, <2>2
  <1>3. overlapped => overlapped'
    BY DEF MqttTask, LinkComesUp, LinkIsLost, MessageArrives, CallbackPushes,
       CallbackCountsConnection, CallbackConnects, CallbackDisconnects,
       CallbackCountsDisconnect, CallbackVars
  <1>4. ~overlapped' /\ Live => Live'
    <2> SUFFICES ASSUME ~overlapped', Live PROVE Live'
      OBVIOUS
    <2>1. /\ connected => /\ ~BeingStopped
                          /\ callback = "disconnect"
                             \/ (client = "up" /\ callback \in {"idle", "push"})
      BY <1>3 DEF ResultsContext, LinkInv
    <2>2. CASE LinkComesUp \/ LinkIsLost \/ MessageArrives \/ CallbackPushes
      BY <1>1, <1>t, <2>2 DEF LinkComesUp, LinkIsLost, MessageArrives, CallbackPushes, Live,
         BeingStopped, boundary
    <2>3. CASE CallbackCountsConnection \/ CallbackConnects
      BY <1>1, <1>t, <2>1, <2>3 DEF CallbackCountsConnection, CallbackConnects, Live,
         BeingStopped
    <2>4. CASE CallbackDisconnects
      BY <1>1, <1>t, <2>1, <2>4 DEF CallbackDisconnects, Live, BeingStopped
    <2>5. CASE CallbackCountsDisconnect
      BY <1>1, <1>t, <2>1, <2>5 DEF CallbackCountsDisconnect, Live, BeingStopped
    <2> QED
      BY <2>2, <2>3, <2>4, <2>5 DEF MqttTask
  <1>5. EndIsNear => EndIsNear'
    <2>1. CASE CallbackCountsDisconnect
      BY <1>1, <1>t, <2>1 DEF CallbackCountsDisconnect, EndIsNear, BeingStopped
    <2>2. CASE ~CallbackCountsDisconnect
      <3>1. disconnect' = disconnect /\ callback # "countDisconnect"
        BY <2>2 DEF MqttTask, LinkComesUp, LinkIsLost, MessageArrives, CallbackPushes,
           CallbackCountsConnection, CallbackConnects, CallbackDisconnects, boundary,
           CallbackCountsDisconnect
      <3> QED
        BY <1>1, <1>3, <3>1 DEF EndIsNear, BeingStopped
    <2> QED
      BY <2>1, <2>2
  <1>6. ResultsAreLive'
    BY <1>1, <1>2, <1>3, <1>4 DEF ResultsContext, ResultsInvariant, ResultsAreLive, Awaited,
       Handling
  <1>7. ReservationsHaveCause'
    BY <1>1, <1>5 DEF ResultsContext, ResultsInvariant, ReservationsHaveCause
  <1> QED
    BY <1>1, <1>2, <1>6, <1>7 DEF ResultsContext, ResultsInvariant, ResultsTypeOK,
       RoomIsReserved

\* A command that ControlTask discards is of a connection that has ended.
LEMMA DrainResults == ResultsContext /\ Drain => ResultsInvariant'
  <1> SUFFICES ASSUME ResultsContext, Drain PROVE ResultsInvariant'
    OBVIOUS
  <1>t. /\ mailbox \in Seq([message : Nat, generation : Nat]) /\ mailbox # <<>>
        /\ mailbox' = Tail(mailbox)
    BY DEF ResultsContext, StampInvariant, ConnectionTypeOK, Drain
  <1>1. /\ UNCHANGED <<pending, feedback, candidate, observed, step, taken, arrivals,
                       overlapped, connected, connection, disconnect, callback>>
        /\ executed \subseteq executed'
    BY DEF Drain, MqttVars, boundary, results
  <1>2. ASSUME NEW message \in pending,
               NEW entry \in ToSet(mailbox), entry.message = message
        PROVE  \/ \E left \in ToSet(mailbox') : left.message = message
               \/ message \in executed'
               \/ EndIsNear
    <2>1. PICK i \in 1 .. Len(mailbox) : entry = mailbox[i]
      BY DEF ToSet
    <2>2. CASE i # 1
      <3>1. i - 1 \in 1 .. Len(mailbox') /\ mailbox'[i - 1] = mailbox[i]
        BY <1>t, <2>1, <2>2
      <3> QED
        BY <1>2, <2>1, <3>1 DEF ToSet
    <2>3. CASE i = 1
      <3>1. Head(mailbox) = entry
        BY <1>t, <2>1, <2>3
      <3>2. CASE Executes(entry.generation)
        BY <1>2, <3>1, <3>2 DEF Drain
      <3>3. CASE ~Executes(entry.generation) /\ ~overlapped
        <4>1. /\ HasArrived(message) /\ entry.generation = arrivals[message]
          BY <1>2, <2>1 DEF ResultsContext, StampInvariant, StampsAreTrue
        <4>2. arrivals[message] # 0
          BY <4>1 DEF ResultsContext, ResultsInvariant, ArrivalsAreOfConnections, HasArrived
        <4>3. arrivals[message] = observed.connection /\ Live
          BY <3>3 DEF ResultsContext, ResultsInvariant, ResultsAreLive, Awaited
        <4> QED
          BY <3>3, <4>1, <4>2, <4>3 DEF Executes, Accepts, Live, EndIsNear
      <3> QED
        BY <3>2, <3>3 DEF EndIsNear
    <2> QED
      BY <2>2, <2>3
  <1>3. ReservationsHaveCause'
    BY <1>1, <1>2 DEF ResultsContext, ResultsInvariant, ReservationsHaveCause, EndIsNear,
       BeingStopped
  <1> QED
    BY <1>1, <1>3 DEF ResultsContext, ResultsInvariant, ArrivalsAreOfConnections,
       ResultsTypeOK, ResultsAreLive, RoomIsReserved, Awaited, Handling, Live, BeingStopped,
       HasArrived

(* Steps of BlynkTask, one lemma for each part of its loop.                        *)

\* A step that leaves the results, what the poll observed and the commands alone.
LEMMA QuietResults ==
    ASSUME ResultsContext,
           UNCHANGED <<pending, feedback, candidate, observed, taken, arrivals, overlapped,
                       mailbox, executed, connection>>,
           Handling' => Handling \/ (Usable /\ step = "inbound"),
           \/ connected' = connected /\ disconnect' = disconnect
              /\ callback' = callback /\ ~BeingStopped
           \/ BeingStopped',
           step' # step => step \notin {"check", "admit"}
    PROVE  ResultsInvariant'
  <1>1. Live => Live'
    BY DEF Live, BeingStopped
  <1>3. Usable /\ step = "inbound" => Live
    BY DEF Usable, Live, ResultsContext, LinkInv, PollIsFinished, BeingStopped,
       StampInvariant, ConnectionTypeOK
  <1>4. EndIsNear => EndIsNear'
    BY DEF EndIsNear, BeingStopped
  <1>5. ResultsAreLive'
    BY <1>1, <1>3 DEF ResultsContext, ResultsInvariant, ResultsAreLive, Awaited, HasArrived
  <1>6. ReservationsHaveCause'
    BY <1>4 DEF ResultsContext, ResultsInvariant, ReservationsHaveCause
  <1> QED
    BY <1>5, <1>6 DEF ResultsContext, ResultsInvariant, ArrivalsAreOfConnections,
       ResultsTypeOK, RoomIsReserved

\* A poll that finds no disconnect finds the connection it had found before.
LEMMA PollResults ==
    /\ ResultsContext
    /\ ReadDisconnect \/ ReadConnected \/ ReadConnection \/ PollAgain \/ FinishPoll
    => ResultsInvariant'
  <1> SUFFICES ASSUME ResultsContext,
                      \/ ReadDisconnect \/ ReadConnected \/ ReadConnection \/ PollAgain
                      \/ FinishPoll
               PROVE  ResultsInvariant'
    OBVIOUS
  <1>1. CASE ReadDisconnect \/ ReadConnected \/ ReadConnection \/ PollAgain
    <2>1. /\ UNCHANGED <<pending, feedback, candidate, observed, taken, arrivals, overlapped,
                         mailbox, executed, boundary, callback>>
          /\ step' \in {"before", "connected", "connection", "after"}
          /\ step \in {"uart", "before", "connected", "connection", "after"}
      BY <1>1 DEF ReadDisconnect, ReadConnected, ReadConnection, PollAgain, PollVars,
         MqttVars, results
    <2> QED
      BY <2>1, QuietResults DEF Handling, BeingStopped, boundary
  <1>2. CASE FinishPoll
    <2>1. /\ UNCHANGED <<taken, arrivals, overlapped, mailbox, executed, boundary, callback,
                         poll>>
          /\ step' = "inbound" /\ step = "after"
          /\ observed' = [disconnect |-> disconnect, connection |-> ObservedConnection]
      BY <1>2 DEF FinishPoll, PollVars, MqttVars
    <2>2. CASE CleanupIsRequired
      <3>1. pending' = {} /\ feedback' = <<>> /\ candidate' = 0
        BY <1>2, <2>2 DEF FinishPoll, Cleanup
      <3>2. /\ Len(feedback') = 0 /\ Cardinality(pending') = 0 /\ IsFiniteSet(pending')
            /\ feedback' \in Seq(Nat)
        BY <3>1, FS_EmptySet
      <3>3. Awaited' = {}
        BY <3>1, <3>2 DEF Awaited, ToSet
      <3>4. ResultCapacity \in Nat
        BY BlynkAssumption
      <3> QED
        BY <2>1, <3>1, <3>2, <3>3, <3>4 DEF ResultsContext, ResultsInvariant,
           ArrivalsAreOfConnections, ResultsTypeOK, ResultsAreLive, ReservationsHaveCause,
           RoomIsReserved, Handling
    <2>3. CASE ~CleanupIsRequired
      <3>1. UNCHANGED <<pending, feedback, candidate>>
        BY <1>2, <2>3 DEF FinishPoll, Activate, results
      <3>2. observed'.disconnect = observed.disconnect /\ disconnect = observed.disconnect
        BY <2>1, <2>3 DEF CleanupIsRequired
      <3>3. Live => observed'.connection = observed.connection
        <4>1. Live => connection = observed.connection
          BY <3>2, <2>1 DEF Live, BeingStopped
        <4>2. /\ observed.connection \in Nat /\ poll.connection \in Nat /\ connection \in Nat
              /\ observed.connection <= poll.connection /\ poll.connection <= connection
          BY DEF ResultsContext, LinkInv, StampInvariant, ConnectionTypeOK
        <4> QED
          BY <2>1, <4>1, <4>2 DEF ObservedConnection
      <3>4. Live /\ ~overlapped => Live'
        BY <2>1, <3>2, <3>3 DEF Live, BeingStopped, boundary
      <3>5. ResultsAreLive'
        BY <2>1, <3>1, <3>3, <3>4 DEF ResultsContext, ResultsInvariant, ResultsAreLive,
           Awaited, HasArrived, Handling
      <3>6. EndIsNear => EndIsNear'
        BY <2>1, <3>2 DEF EndIsNear, BeingStopped, boundary
      <3>7. ReservationsHaveCause'
        BY <2>1, <3>1, <3>6 DEF ResultsContext, ResultsInvariant, ReservationsHaveCause
      <3> QED
        BY <2>1, <3>1, <3>5, <3>7 DEF ResultsContext, ResultsInvariant,
           ArrivalsAreOfConnections, ResultsTypeOK, RoomIsReserved
    <2> QED
      BY <2>2, <2>3
  <1> QED
    BY <1>1, <1>2

\* Stopping the client gives up every result.
LEMMA StopResults ==
    ResultsContext /\ (Provision \/ StopCountsDisconnect \/ StopClient) => ResultsInvariant'
  <1> SUFFICES ASSUME ResultsContext, Provision \/ StopCountsDisconnect \/ StopClient
               PROVE  ResultsInvariant'
    OBVIOUS
  <1>1. CASE Provision \/ StopCountsDisconnect
    <2>1. /\ UNCHANGED <<pending, feedback, candidate, observed, taken, arrivals, overlapped,
                         mailbox, executed, connection>>
          /\ step \in {"uart", "stopDisconnect"}
          /\ step' \in {"stopDisconnect", "stopClient"}
      BY <1>1 DEF Provision, StopCountsDisconnect, MqttVars, results
    <2> QED
      BY <2>1, QuietResults DEF Handling, BeingStopped
  <1>2. CASE StopClient
    <2>1. /\ UNCHANGED <<arrivals, taken, mailbox, executed>>
          /\ pending' = {} /\ feedback' = <<>> /\ candidate' = 0
          /\ step' = "before"
      BY <1>2 DEF StopClient, Cleanup
    <2>2. /\ Len(feedback') = 0 /\ Cardinality(pending') = 0 /\ IsFiniteSet(pending')
          /\ feedback' \in Seq(Nat)
      BY <2>1, FS_EmptySet
    <2>3. Awaited' = {}
      BY <2>1, <2>2 DEF Awaited, ToSet
    <2>4. ResultCapacity \in Nat
      BY BlynkAssumption
    <2> QED
      BY <2>1, <2>2, <2>3, <2>4 DEF ResultsContext, ResultsInvariant,
         ArrivalsAreOfConnections, ResultsTypeOK, ResultsAreLive, ReservationsHaveCause,
         RoomIsReserved, Handling
  <1> QED
    BY <1>1, <1>2

\* Taking a command changes no result.
LEMMA InboundResults ==
    ResultsContext /\ (BeginTurn \/ TakeInbound) => ResultsInvariant'
  <1> SUFFICES ASSUME ResultsContext, BeginTurn \/ TakeInbound PROVE ResultsInvariant'
    OBVIOUS
  <1>1. CASE BeginTurn
    <2>1. /\ UNCHANGED <<pending, feedback, candidate, observed, taken, arrivals, overlapped,
                         mailbox, executed, boundary, callback>>
          /\ step = "inbound" /\ step' \in {"front", "observe"}
          /\ step' = "front" => Usable
      BY <1>1 DEF BeginTurn, InboundVars, results
    <2> QED
      BY <2>1, QuietResults DEF Handling, BeingStopped, boundary
  <1>2. CASE TakeInbound
    <2>1. /\ UNCHANGED <<pending, feedback, candidate, observed, arrivals, overlapped,
                         mailbox, executed, boundary, callback>>
          /\ step = "front" /\ step' \in {"observe", "inbound", "map"}
      BY <1>2 DEF TakeInbound, InboundVars, results
    <2>2. Live => Live'
      BY <2>1 DEF Live, BeingStopped, boundary
    <2>3. EndIsNear => EndIsNear'
      BY <2>1 DEF EndIsNear, BeingStopped, boundary
    <2>4. ResultsAreLive'
      BY <2>1, <2>2 DEF ResultsContext, ResultsInvariant, ResultsAreLive, Awaited,
         HasArrived, Handling
    <2>5. ReservationsHaveCause'
      BY <2>1, <2>3 DEF ResultsContext, ResultsInvariant, ReservationsHaveCause
    <2> QED
      BY <2>1, <2>4, <2>5 DEF ResultsContext, ResultsInvariant, ArrivalsAreOfConnections,
         ResultsTypeOK, RoomIsReserved
  <1> QED
    BY <1>1, <1>2

\* A command in hand is of the connection that the last poll observed.
LEMMA TakenIsOfTheConnection ==
    ResultsContext /\ InHand =>
        /\ taken \in Nat /\ HasArrived(taken)
        /\ arrivals[taken] = observed.connection
        /\ ~overlapped => Live
  <1> SUFFICES ASSUME ResultsContext, InHand
               PROVE  /\ taken \in Nat /\ HasArrived(taken)
                      /\ arrivals[taken] = observed.connection
                      /\ ~overlapped => Live
    OBVIOUS
  <1>1. Handling /\ PollIsFinished
    BY DEF InHand, Handling, PollIsFinished
  <1>2. HasArrived(taken) /\ arrivals[taken] = poll.connection
    BY DEF ResultsContext, StampInvariant, InHandIsOfThePoll
  <1>3. observed.connection = poll.connection
    BY <1>1 DEF ResultsContext, LinkInv
  <1>4. taken \in Nat
    BY <1>2 DEF HasArrived, ResultsContext, StampInvariant, ConnectionTypeOK
  <1> QED
    BY <1>1, <1>2, <1>3, <1>4 DEF ResultsContext, ResultsInvariant, ResultsAreLive

(* A command in hand is dealt with: what is awaited grows by that command at most. *)
LEMMA HandledResults ==
    ASSUME ResultsContext, InHand,
           UNCHANGED <<boundary, callback, arrivals, overlapped, observed, executed>>,
           Awaited' \subseteq Awaited \cup {taken}, ~BeingStopped',
           ResultsTypeOK', ReservationsHaveCause', RoomIsReserved'
    PROVE  ResultsInvariant'
  <1>1. ~BeingStopped
    BY DEF BeingStopped, InHand
  <1>2. ~overlapped => Live'
    BY <1>1, TakenIsOfTheConnection DEF Live, BeingStopped, boundary
  <1>3. ResultsAreLive'
    BY <1>2, TakenIsOfTheConnection DEF ResultsContext, ResultsInvariant, ResultsAreLive,
       HasArrived
  <1> QED
    BY <1>3 DEF ResultsContext, ResultsInvariant, ArrivalsAreOfConnections

\* What one more and one less reservation counts.
LEMMA CountsOfPending ==
    ASSUME IsFiniteSet(pending)
    PROVE  /\ Cardinality(pending) \in Nat
           /\ \A m : /\ IsFiniteSet(pending \cup {m}) /\ IsFiniteSet(pending \ {m})
                     /\ Cardinality(pending \cup {m}) \in Nat
                     /\ Cardinality(pending \cup {m}) <= Cardinality(pending) + 1
                     /\ Cardinality(pending \ {m}) \in Nat
                     /\ Cardinality(pending \ {m}) <= Cardinality(pending)
                     /\ m \in pending =>
                           Cardinality(pending \ {m}) = Cardinality(pending) - 1
  <1>1. Cardinality(pending) \in Nat
    BY FS_CardinalityType
  <1>2. ASSUME NEW m
        PROVE  /\ IsFiniteSet(pending \cup {m})
               /\ Cardinality(pending \cup {m}) =
                     IF m \in pending THEN Cardinality(pending) ELSE Cardinality(pending) + 1
    BY FS_AddElement
  <1>3. ASSUME NEW m
        PROVE  /\ IsFiniteSet(pending \ {m})
               /\ Cardinality(pending \ {m}) =
                     IF m \in pending THEN Cardinality(pending) - 1 ELSE Cardinality(pending)
    BY FS_RemoveElement
  <1>4. \A m : Cardinality(pending \ {m}) \in Nat
    BY <1>3, FS_CardinalityType
  <1>5. ASSUME NEW m
        PROVE  /\ Cardinality(pending \cup {m}) \in Nat
               /\ Cardinality(pending \cup {m}) <= Cardinality(pending) + 1
               /\ Cardinality(pending \ {m}) \in Nat
               /\ Cardinality(pending \ {m}) <= Cardinality(pending)
               /\ m \in pending =>
                     Cardinality(pending \ {m}) = Cardinality(pending) - 1
    <2>1. Cardinality(pending \cup {m}) =
             IF m \in pending THEN Cardinality(pending) ELSE Cardinality(pending) + 1
      BY <1>2
    <2>2. Cardinality(pending \ {m}) =
             IF m \in pending THEN Cardinality(pending) - 1 ELSE Cardinality(pending)
      BY <1>3
    <2>3. Cardinality(pending \ {m}) \in Nat
      BY <1>4
    <2> QED
      BY <1>1, <2>1, <2>2, <2>3
  <1>6. \A m : IsFiniteSet(pending \cup {m}) /\ IsFiniteSet(pending \ {m})
    BY <1>2, <1>3
  <1> QED
    BY <1>1, <1>5, <1>6

(* The elements of one set are those of a larger one.                              *)
LEMMA WiderSequence ==
    ASSUME NEW S, NEW T, S \subseteq T, NEW s \in Seq(S)
    PROVE  s \in Seq(T)
  OBVIOUS

\* A reservation is made where there is room, for the command in hand.
LEMMA MapResults == ResultsContext /\ MapCommand => ResultsInvariant'
  <1> SUFFICES ASSUME ResultsContext, MapCommand PROVE ResultsInvariant'
    OBVIOUS
  <1>1. /\ UNCHANGED <<boundary, callback, arrivals, overlapped, observed, executed, feedback,
                       candidate, mailbox>>
        /\ step = "map" /\ step' \in {"observe", "check", "inbound"}
        /\ \/ pending' = pending
           \/ /\ ResultsHaveRoom /\ pending' = pending \cup {taken}
              /\ step' = "check" /\ taken' = taken
    BY DEF MapCommand, InboundVars
  <1>2. InHand /\ ~BeingStopped'
    BY <1>1 DEF InHand, BeingStopped
  <1>t. /\ ResultsTypeOK /\ RoomIsReserved /\ taken \in Nat
        /\ Len(feedback) \in Nat /\ ResultCapacity \in Nat
    BY <1>2, TakenIsOfTheConnection, BlynkAssumption DEF ResultsContext, ResultsInvariant,
       ResultsTypeOK
  <1>3. ResultsTypeOK' /\ RoomIsReserved'
    <2>1. CASE pending' = pending
      BY <1>1, <1>t, <2>1 DEF ResultsTypeOK, RoomIsReserved
    <2>2. CASE ResultsHaveRoom /\ pending' = pending \cup {taken}
      <3>1. ResultsTypeOK'
        BY <1>1, <1>t, <2>2, CountsOfPending DEF ResultsTypeOK
      <3>2. Cardinality(pending') \in Nat /\ Cardinality(pending) \in Nat
            /\ Cardinality(pending') <= Cardinality(pending) + 1
        BY <1>t, <2>2, CountsOfPending DEF ResultsTypeOK
      <3>3. Cardinality(pending) + Len(feedback) < ResultCapacity
        BY <2>2 DEF ResultsHaveRoom
      <3>4. RoomIsReserved'
        BY <1>1, <1>t, <3>2, <3>3 DEF RoomIsReserved
      <3> QED
        BY <3>1, <3>4
    <2> QED
      BY <1>1, <2>1, <2>2
  <1>4. EndIsNear => EndIsNear'
    BY <1>1 DEF EndIsNear, BeingStopped, boundary
  <1>5. ReservationsHaveCause'
    BY <1>1, <1>4 DEF ResultsContext, ResultsInvariant, ReservationsHaveCause
  <1>6. Awaited' \subseteq Awaited \cup {taken}
    BY <1>1 DEF Awaited
  <1> QED
    BY <1>1, <1>2, <1>3, <1>5, <1>6, HandledResults

\* A command given up takes its reservation with it.
LEMMA CheckResults == ResultsContext /\ CheckConnection => ResultsInvariant'
  <1> SUFFICES ASSUME ResultsContext, CheckConnection PROVE ResultsInvariant'
    OBVIOUS
  <1>1. /\ UNCHANGED <<boundary, callback, arrivals, overlapped, observed, executed, feedback,
                       candidate, mailbox>>
        /\ step = "check"
        /\ \/ pending' = pending /\ step' = "admit" /\ taken' = taken
           \/ pending' = pending \ {taken} /\ step' = "observe"
    BY DEF CheckConnection, InboundVars
  <1>2. InHand /\ ~BeingStopped'
    BY <1>1 DEF InHand, BeingStopped
  <1>t. ResultsTypeOK /\ RoomIsReserved /\ Len(feedback) \in Nat /\ ResultCapacity \in Nat
    BY BlynkAssumption DEF ResultsContext, ResultsInvariant, ResultsTypeOK
  <1>3. /\ Cardinality(pending) \in Nat /\ Cardinality(pending') \in Nat
        /\ Cardinality(pending') <= Cardinality(pending)
        /\ IsFiniteSet(pending') /\ pending' \subseteq pending
    <2>1. /\ Cardinality(pending) \in Nat /\ IsFiniteSet(pending)
          /\ Cardinality(pending \ {taken}) \in Nat /\ IsFiniteSet(pending \ {taken})
          /\ Cardinality(pending \ {taken}) <= Cardinality(pending)
      BY <1>t, CountsOfPending DEF ResultsTypeOK
    <2>2. CASE pending' = pending
      BY <2>1, <2>2
    <2>3. CASE pending' = pending \ {taken}
      BY <2>1, <2>3
    <2> QED
      BY <1>1, <2>2, <2>3
  <1>4. ResultsTypeOK'
    BY <1>1, <1>t, <1>3 DEF ResultsTypeOK
  <1>5. RoomIsReserved'
    BY <1>1, <1>t, <1>3 DEF RoomIsReserved
  <1>6. EndIsNear => EndIsNear'
    BY <1>1 DEF EndIsNear, BeingStopped, boundary
  <1>7. ReservationsHaveCause'
    BY <1>1, <1>6 DEF ResultsContext, ResultsInvariant, ReservationsHaveCause
  <1>8. Awaited' \subseteq Awaited \cup {taken}
    BY <1>1, <1>3 DEF Awaited
  <1> QED
    BY <1>1, <1>2, <1>4, <1>5, <1>7, <1>8, HandledResults

\* A refused command turns its reservation into a result, an admitted one keeps it.
LEMMA AdmitResults == ResultsContext /\ AdmitCommand => ResultsInvariant'
  <1> SUFFICES ASSUME ResultsContext, AdmitCommand PROVE ResultsInvariant'
    OBVIOUS
  <1> DEFINE entry == [message |-> taken, generation |-> poll.connection]
  <1>1. /\ UNCHANGED <<boundary, callback, arrivals, overlapped, observed, executed,
                       candidate>>
        /\ step = "admit" /\ step' = "inbound"
    BY DEF AdmitCommand, InboundVars
  <1>2. InHand /\ ~BeingStopped'
    BY <1>1 DEF InHand, BeingStopped
  <1>t. /\ ResultsTypeOK /\ RoomIsReserved /\ taken \in Nat
        /\ feedback \in Seq(Nat) /\ Len(feedback) \in Nat /\ ResultCapacity \in Nat
        /\ mailbox \in Seq([message : Nat, generation : Nat])
        /\ poll.connection \in Nat
    BY <1>2, TakenIsOfTheConnection, BlynkAssumption DEF ResultsContext, ResultsInvariant,
       ResultsTypeOK, StampInvariant, ConnectionTypeOK
  <1>6. EndIsNear => EndIsNear'
    BY <1>1 DEF EndIsNear, BeingStopped, boundary
  <1>3. CASE mailbox' = Append(mailbox, entry) /\ UNCHANGED <<pending, feedback>>
    <2>1. /\ ToSet(mailbox) \subseteq ToSet(mailbox')
          /\ \E admitted \in ToSet(mailbox') : admitted.message = taken
      <3>1. entry \in [message : Nat, generation : Nat] /\ entry.message = taken
        BY <1>t
      <3> HIDE DEF entry
      <3>2. Len(mailbox') = Len(mailbox) + 1 /\ Len(mailbox) \in Nat
        BY <1>3, <1>t, <3>1
      <3>3. \A i \in 1 .. Len(mailbox) : mailbox'[i] = mailbox[i]
        BY <1>3, <1>t, <3>1
      <3>4. mailbox'[Len(mailbox')] = entry
        BY <1>3, <1>t, <3>1
      <3>5. Len(mailbox') \in 1 .. Len(mailbox') /\ 1 .. Len(mailbox) \subseteq 1 .. Len(mailbox')
        BY <3>2
      <3>6. DOMAIN mailbox = 1 .. Len(mailbox) /\ DOMAIN mailbox' = 1 .. Len(mailbox')
        BY <1>3, <1>t, <3>1
      <3> QED
        BY <3>1, <3>3, <3>4, <3>5, <3>6 DEF ToSet
    <2>2. ReservationsHaveCause'
      BY <1>1, <1>3, <1>6, <2>1 DEF ResultsContext, ResultsInvariant, ReservationsHaveCause
    <2>3. Awaited' \subseteq Awaited \cup {taken}
      BY <1>1, <1>3 DEF Awaited
    <2>4. ResultsTypeOK' /\ RoomIsReserved'
      BY <1>1, <1>3, <1>t DEF ResultsTypeOK, RoomIsReserved
    <2> QED
      BY <1>1, <1>2, <2>2, <2>3, <2>4, HandledResults
  <1>4. CASE /\ UNCHANGED mailbox /\ pending' = pending \ {taken}
             /\ feedback' = IF taken \in pending \/ ResultsHaveRoom
                            THEN Append(feedback, taken) ELSE feedback
    <2>1. /\ feedback' \in Seq(Nat)
          /\ ToSet(feedback') \subseteq ToSet(feedback) \cup {taken}
          /\ Len(feedback') = IF taken \in pending \/ ResultsHaveRoom
                              THEN Len(feedback) + 1 ELSE Len(feedback)
      <3>1. /\ Append(feedback, taken) \in Seq(Nat)
            /\ Len(Append(feedback, taken)) = Len(feedback) + 1
            /\ \A i \in 1 .. Len(Append(feedback, taken)) :
                  \/ i \in 1 .. Len(feedback) /\ Append(feedback, taken)[i] = feedback[i]
                  \/ Append(feedback, taken)[i] = taken
        BY <1>t, AppendLemma
      <3> QED
        BY <1>4, <1>t, <3>1 DEF ToSet
    <2>2. /\ Cardinality(pending) \in Nat /\ Cardinality(pending') \in Nat
          /\ Cardinality(pending') <= Cardinality(pending)
          /\ taken \in pending => Cardinality(pending') = Cardinality(pending) - 1
          /\ IsFiniteSet(pending')
      BY <1>4, <1>t, CountsOfPending DEF ResultsTypeOK
    <2>3. ResultsTypeOK'
      BY <1>1, <1>4, <1>t, <2>1, <2>2 DEF ResultsTypeOK
    <2>4. RoomIsReserved'
      BY <1>t, <2>1, <2>2 DEF RoomIsReserved, ResultsHaveRoom
    <2>5. ReservationsHaveCause'
      BY <1>1, <1>4, <1>6 DEF ResultsContext, ResultsInvariant, ReservationsHaveCause
    <2>6. Awaited' \subseteq Awaited \cup {taken}
      BY <1>1, <1>4, <2>1 DEF Awaited
    <2> QED
      BY <1>1, <1>2, <2>3, <2>4, <2>5, <2>6, HandledResults
  <1> QED
    BY <1>3, <1>4 DEF AdmitCommand

(* Results are observed and published: what is awaited does not grow.              *)
LEMMA SettledResults ==
    ASSUME ResultsContext, ~Handling',
           UNCHANGED <<boundary, callback, arrivals, overlapped, observed, executed, mailbox>>,
           ~BeingStopped, ~BeingStopped', step \notin {"check", "admit"},
           Awaited' \subseteq Awaited, pending' \subseteq pending,
           ResultsTypeOK', RoomIsReserved'
    PROVE  ResultsInvariant'
  <1>1. Live => Live'
    BY DEF Live, boundary, BeingStopped
  <1>2. ResultsAreLive'
    BY <1>1 DEF ResultsContext, ResultsInvariant, ResultsAreLive, HasArrived
  <1>3. EndIsNear => EndIsNear'
    BY DEF EndIsNear, boundary
  <1>4. ReservationsHaveCause'
    BY <1>3 DEF ResultsContext, ResultsInvariant, ReservationsHaveCause
  <1> QED
    BY <1>2, <1>4 DEF ResultsContext, ResultsInvariant, ArrivalsAreOfConnections

\* Results that have come take the places that were reserved for them.
LEMMA ObserveResults == ResultsContext /\ ObserveSnapshot => ResultsInvariant'
  <1> SUFFICES ASSUME ResultsContext, ObserveSnapshot PROVE ResultsInvariant'
    OBVIOUS
  <1> DEFINE seen == pending \cap executed
  <1>1. /\ UNCHANGED <<boundary, callback, arrivals, overlapped, observed, executed, mailbox,
                       candidate>>
        /\ step = "observe" /\ step' = "publish"
        /\ feedback' = feedback \o SetToSeq(seen) /\ pending' = pending \ seen
    BY DEF ObserveSnapshot, OutboundVars, MqttVars
  <1>t. /\ ResultsTypeOK /\ RoomIsReserved /\ IsFiniteSet(pending) /\ pending \subseteq Nat
        /\ feedback \in Seq(Nat) /\ ResultCapacity \in Nat
    BY BlynkAssumption DEF ResultsContext, ResultsInvariant, ResultsTypeOK
  <1>2. /\ seen \subseteq pending /\ IsFiniteSet(seen) /\ IsFiniteSet(pending \ seen)
        /\ Cardinality(seen) \in Nat /\ Cardinality(pending) \in Nat
        /\ Cardinality(pending \ seen) = Cardinality(pending) - Cardinality(seen)
    <2>1. seen \subseteq pending /\ pending \cap seen = seen
      OBVIOUS
    <2>2. IsFiniteSet(seen) /\ Cardinality(seen) \in Nat /\ Cardinality(pending) \in Nat
      BY <1>t, <2>1, FS_Subset, FS_CardinalityType
    <2> HIDE DEF seen
    <2>3. /\ IsFiniteSet(pending \ seen)
          /\ Cardinality(pending \ seen) = Cardinality(pending) - Cardinality(pending \cap seen)
      BY <1>t, <2>2, FS_Difference
    <2> QED
      BY <2>1, <2>2, <2>3
  <1> HIDE DEF seen
  <1>3. /\ SetToSeq(seen) \in Seq(Nat) /\ Len(SetToSeq(seen)) = Cardinality(seen)
        /\ ToSet(SetToSeq(seen)) \subseteq seen
    <2>1. /\ SetToSeq(seen) \in Seq(seen) /\ Len(SetToSeq(seen)) = Cardinality(seen)
          /\ ToSet(SetToSeq(seen)) \subseteq seen
      BY <1>2, SequenceOfSet
    <2>2. seen \subseteq Nat
      BY <1>t, <1>2
    <2>3. SetToSeq(seen) \in Seq(Nat)
      BY <2>1, <2>2, WiderSequence
    <2> QED
      BY <2>1, <2>3
  <1> DEFINE settled == SetToSeq(seen)
  <1>4. settled \in Seq(Nat) /\ Len(settled) = Cardinality(seen) /\ ToSet(settled) \subseteq seen
    BY <1>3
  <1>5. feedback' = feedback \o settled
    BY <1>1
  <1> HIDE DEF settled
  <1>6. /\ feedback' \in Seq(Nat) /\ Len(feedback') = Len(feedback) + Len(settled)
        /\ ToSet(feedback') \subseteq ToSet(feedback) \cup ToSet(settled)
    <2>1. /\ feedback' \in Seq(Nat) /\ Len(feedback') = Len(feedback) + Len(settled)
          /\ \A i \in 1 .. Len(feedback') :
                feedback'[i] = IF i <= Len(feedback) THEN feedback[i]
                               ELSE settled[i - Len(feedback)]
      <3>1. feedback \in Seq(Nat) /\ settled \in Seq(Nat)
        BY <1>t, <1>4
      <3>2. /\ feedback \o settled \in Seq(Nat)
            /\ Len(feedback \o settled) = Len(feedback) + Len(settled)
            /\ \A i \in 1 .. Len(feedback) + Len(settled) :
                  (feedback \o settled)[i] = IF i <= Len(feedback) THEN feedback[i]
                                             ELSE settled[i - Len(feedback)]
        BY <3>1
      <3> QED
        BY <1>5, <3>2
    <2>2. Len(feedback) \in Nat /\ Len(settled) \in Nat
      BY <1>t, <1>4
    <2>3. ASSUME NEW i \in 1 .. Len(feedback')
          PROVE  feedback'[i] \in ToSet(feedback) \cup ToSet(settled)
      <3>1. CASE i <= Len(feedback)
        BY <2>1, <2>2, <3>1 DEF ToSet
      <3>2. CASE ~(i <= Len(feedback))
        <4>1. i - Len(feedback) \in 1 .. Len(settled)
          BY <2>1, <2>2, <3>2
        <4>2. feedback'[i] = settled[i - Len(feedback)]
          BY <2>1, <3>2
        <4>3. DOMAIN settled = 1 .. Len(settled)
          BY <1>4
        <4> QED
          BY <4>1, <4>2, <4>3 DEF ToSet
      <3> QED
        BY <3>1, <3>2
    <2>4. DOMAIN feedback' = 1 .. Len(feedback')
      BY <2>1
    <2> QED
      BY <2>1, <2>3, <2>4 DEF ToSet
  <1>7. ResultsTypeOK'
    BY <1>1, <1>2, <1>6, <1>t DEF ResultsTypeOK
  <1>8. RoomIsReserved'
    <2>1. Len(feedback) \in Nat /\ Len(feedback') = Len(feedback) + Cardinality(seen)
      BY <1>t, <1>4, <1>6
    <2> QED
      BY <1>1, <1>2, <1>t, <2>1 DEF RoomIsReserved
  <1>9. Awaited' \subseteq Awaited /\ pending' \subseteq pending
    BY <1>1, <1>2, <1>4, <1>6 DEF Awaited
  <1> QED
    BY <1>1, <1>7, <1>8, <1>9, SettledResults DEF Handling, BeingStopped

\* What is published, or kept for another try, was awaited.
LEMMA PublishResults ==
    ASSUME NEW sentResult \in BOOLEAN, NEW sentStatus \in BOOLEAN,
           ResultsContext, PublishOutbound(sentResult, sentStatus)
    PROVE  ResultsInvariant'
  <1>1. /\ UNCHANGED <<boundary, callback, arrivals, overlapped, observed, executed, mailbox,
                       pending>>
        /\ step = "publish" /\ step' = "uart"
        /\ feedback' = IF candidate = 0 /\ feedback # <<>> THEN Tail(feedback) ELSE feedback
        /\ candidate' \in {0, candidate}
           \/ (feedback # <<>> /\ candidate' = Head(feedback))
    BY DEF PublishOutbound, OutboundVars, MqttVars
  <1>t. /\ ResultsTypeOK /\ RoomIsReserved /\ feedback \in Seq(Nat) /\ ResultCapacity \in Nat
        /\ IsFiniteSet(pending) /\ candidate \in Nat
    BY BlynkAssumption DEF ResultsContext, ResultsInvariant, ResultsTypeOK
  <1>2. /\ feedback' \in Seq(Nat) /\ Len(feedback') <= Len(feedback)
        /\ Len(feedback) \in Nat /\ Len(feedback') \in Nat
        /\ ToSet(feedback') \subseteq ToSet(feedback)
        /\ feedback # <<>> => Head(feedback) \in ToSet(feedback)
    <2>1. CASE feedback = <<>>
      BY <1>1, <1>t, <2>1
    <2>2. CASE feedback # <<>>
      <3>1. /\ Tail(feedback) \in Seq(Nat) /\ Len(Tail(feedback)) = Len(feedback) - 1
            /\ Len(feedback) \in Nat \ {0} /\ Head(feedback) = feedback[1]
            /\ \A i \in 1 .. Len(Tail(feedback)) : Tail(feedback)[i] = feedback[i + 1]
        BY <1>t, <2>2
      <3>2. \A i \in 1 .. Len(Tail(feedback)) : i + 1 \in 1 .. Len(feedback)
        BY <3>1
      <3>3. ToSet(Tail(feedback)) \subseteq ToSet(feedback) /\ Head(feedback) \in ToSet(feedback)
        BY <3>1, <3>2 DEF ToSet
      <3> QED
        BY <1>1, <1>t, <3>1, <3>3
    <2> QED
      BY <2>1, <2>2
  <1>3. Head(feedback) \in Nat \/ feedback = <<>>
    BY <1>t
  <1>4. ResultsTypeOK'
    BY <1>1, <1>2, <1>3, <1>t DEF ResultsTypeOK
  <1>5. RoomIsReserved'
    <2>1. Cardinality(pending) \in Nat
      BY <1>t, FS_CardinalityType
    <2> QED
      BY <1>1, <1>2, <1>t, <2>1 DEF RoomIsReserved
  <1>6. Awaited' \subseteq Awaited
    BY <1>1, <1>2 DEF Awaited
  <1> QED
    BY <1>1, <1>4, <1>5, <1>6, SettledResults DEF Handling, BeingStopped

\* Every step keeps the invariant.
LEMMA NextResults == ResultsContext /\ [Next]_vars => ResultsInvariant'
  <1> SUFFICES ASSUME ResultsContext, [Next]_vars PROVE ResultsInvariant'
    OBVIOUS
  <1>1. CASE UNCHANGED vars
    BY <1>1 DEF vars, boundary, results, ResultsContext, ResultsInvariant,
       ArrivalsAreOfConnections, ResultsTypeOK, ResultsAreLive, ReservationsHaveCause,
       RoomIsReserved, EndIsNear, Awaited, Live, Handling, BeingStopped, HasArrived
  <1>2. CASE SkipObserving \/ SkipPublishing
    <2>1. /\ UNCHANGED <<boundary, callback, arrivals, overlapped, observed, executed, mailbox,
                         pending, feedback, candidate>>
          /\ step \in {"observe", "publish"} /\ step' \in {"publish", "uart"}
      BY <1>2 DEF SkipObserving, SkipPublishing, OutboundVars, MqttVars, results
    <2> QED
      BY <2>1, SettledResults DEF Handling, BeingStopped, Awaited, ResultsContext,
         ResultsInvariant, ResultsTypeOK, RoomIsReserved
  <1>3. CASE BlynkTask /\ ~(SkipObserving \/ SkipPublishing)
    BY <1>3, StopResults, PollResults, InboundResults, MapResults, CheckResults, AdmitResults,
       ObserveResults, PublishResults DEF BlynkTask
  <1> QED
    BY <1>1, <1>2, <1>3, MqttResults, DrainResults DEF Next

\* The invariant, in every state of the specification.
LEMMA ContextSafe == Spec => []ResultsContext
  <1>1. Init => ResultsContext
    BY InitStamps, InitLink, InitResults DEF ResultsContext
  <1>2. ResultsContext /\ [Next]_vars => ResultsContext'
    BY NextStamps, NextLink, NextResults DEF ResultsContext
  <1> QED
    BY <1>1, <1>2, PTL DEF Spec

\* What BlynkTask is about to publish as results answers commands of the connection it
\* publishes them to (process_inbound() and publish_outbound() of blynk_service.cpp), however
\* links come and go, save for a connection that came up while it stopped its client.
THEOREM FeedbackSafe == Spec => []FeedbackIsForItsConnection
  <1>1. ResultsContext => FeedbackIsForItsConnection
    <2> SUFFICES ASSUME ResultsContext, step = "publish", Usable, ~overlapped,
                        NEW message \in ToSet(feedback) \cup ({candidate} \ {0})
                 PROVE  arrivals[message] = connection
      BY DEF FeedbackIsForItsConnection
    <2>1. arrivals[message] = observed.connection
      BY DEF ResultsContext, ResultsInvariant, ResultsAreLive, Awaited
    <2>2. observed.connection = poll.connection /\ connection = poll.connection
      BY DEF ResultsContext, LinkInv, PollIsFinished, Usable
    <2> QED
      BY <2>1, <2>2
  <1> QED
    BY <1>1, ContextSafe, PTL

\* No reservation is lost with a command that ControlTask discards, and every result that
\* comes has a place, for every capacity of results, mailbox and inbound mailbox
\* (BlynkCommandResults of blynk_remote_support.cpp).
THEOREM ReservationsSafe == Spec => []ReservationsAreKept
  <1>1. ResultsContext => ReservationsAreKept
    BY DEF ResultsContext, ResultsInvariant, ReservationsHaveCause, RoomIsReserved, EndIsNear,
       ReservationsAreKept
  <1> QED
    BY <1>1, ContextSafe, PTL

\* Only BlynkTask takes from the inbound mailbox, and a command of the connection that is
\* up only into its hands.
LEMMA InboundStep ==
    ResultsContext /\ [Next]_vars =>
        \A message \in ToSet(inbound) \ ToSet(inbound') :
            connected /\ connection = arrivals[message] => taken' = message
  <1> SUFFICES ASSUME ResultsContext, [Next]_vars,
                      NEW message \in ToSet(inbound) \ ToSet(inbound'),
                      connected, connection = arrivals[message]
               PROVE  taken' = message
    OBVIOUS
  <1>t. inbound \in Seq(Nat) /\ Len(arrivals) \in Nat
    BY DEF ResultsContext, StampInvariant, ConnectionTypeOK
  <1>1. CASE TakeInbound
    <2>1. /\ inbound' = Tail(inbound)
          /\ ~(inbound # <<>> => LeftForNextPoll(arrivals[Head(inbound)]))
          /\ IsStale(arrivals[Head(inbound)]) \/ taken' = Head(inbound)
      BY <1>1 DEF TakeInbound
    <2>2. message = Head(inbound)
      <3>1. PICK i \in 1 .. Len(inbound) : message = inbound[i]
        BY DEF ToSet
      <3>2. CASE i # 1
        <4>1. i - 1 \in 1 .. Len(inbound') /\ inbound'[i - 1] = inbound[i]
          BY <1>t, <2>1, <3>1, <3>2
        <4> QED
          BY <3>1, <4>1 DEF ToSet
      <3>3. CASE i = 1
        BY <1>t, <2>1, <3>1, <3>3
      <3> QED
        BY <3>2, <3>3
    <2>3. arrivals[message] # 0
      <3>1. HasArrived(message)
        BY DEF ResultsContext, StampInvariant, InboundHasArrived, ToSet
      <3> QED
        BY <3>1 DEF ResultsContext, ResultsInvariant, ArrivalsAreOfConnections, HasArrived
    <2> QED
      BY <2>1, <2>2, <2>3 DEF LeftForNextPoll, IsStale, Accepts
  <1>2. CASE CallbackPushes
    <2>1. inbound' = inbound \/ inbound' = Append(inbound, Len(arrivals))
      BY <1>2 DEF CallbackPushes
    <2>2. ToSet(inbound) \subseteq ToSet(inbound')
      <3>1. /\ Len(Append(inbound, Len(arrivals))) = Len(inbound) + 1
            /\ Len(inbound) \in Nat
            /\ DOMAIN inbound = 1 .. Len(inbound)
            /\ DOMAIN Append(inbound, Len(arrivals)) = 1 .. Len(inbound) + 1
            /\ \A i \in 1 .. Len(inbound) : Append(inbound, Len(arrivals))[i] = inbound[i]
        BY <1>t
      <3> QED
        BY <2>1, <3>1 DEF ToSet
    <2> QED
      BY <2>2
  <1>3. CASE \E sentResult, sentStatus \in BOOLEAN : PublishOutbound(sentResult, sentStatus)
    BY <1>3 DEF PublishOutbound, OutboundVars, MqttVars
  <1>4. CASE ~TakeInbound /\ ~CallbackPushes
             /\ ~(\E sentResult, sentStatus \in BOOLEAN : PublishOutbound(sentResult, sentStatus))
    <2>1. inbound' = inbound
      BY <1>4 DEF Next, MqttTask, BlynkTask, Drain, vars, LinkComesUp, LinkIsLost,
         MessageArrives, CallbackCountsConnection, CallbackConnects, CallbackDisconnects,
         CallbackCountsDisconnect, Provision, StopCountsDisconnect, StopClient,
         ReadDisconnect, ReadConnected, ReadConnection, PollAgain, FinishPoll, BeginTurn,
         MapCommand, CheckConnection, AdmitCommand, ObserveSnapshot, SkipObserving,
         SkipPublishing, PollVars, InboundVars, OutboundVars, MqttVars
    <2> QED
      BY <2>1
  <1> QED
    BY <1>1, <1>2, <1>3, <1>4

\* A command of the connection that is up is never discarded as one of an earlier
\* connection, whatever the poll had seen (process_inbound() of blynk_service.cpp).
THEOREM LiveCommandsSafe == Spec => LiveCommandIsNotDiscarded
  BY ContextSafe, InboundStep, PTL DEF Spec, LiveCommandIsNotDiscarded

----------------------------------------------------------------------------
(* The announcements of the status.                                          *)

\* The status goes out with the next message that can be published, or once a snapshot has
\* been observed.
AnnouncementIsDue ==
    projection.connected /\ projection.announce /\ (projection.known => projection.dirty)

\* No poll has seen this connection yet; one that now ends with a connection has.
ConnectionIsUnseen ==
    /\ connection # observed.connection
    /\ step = "after" /\ disconnect = poll.disconnect /\ poll.connected =>
          poll.connection = connection

\* A connection that lasts and was not told the status is going to be.
AnnouncementIsOwed ==
    connected /\ ~overlapped =>
        announced = connection \/ ConnectionIsUnseen \/ AnnouncementIsDue

StatusTypeOK ==
    /\ projection \in [connected : BOOLEAN, announce : BOOLEAN, dirty : BOOLEAN, known : BOOLEAN]
    /\ published \in BOOLEAN
    /\ published \/ projection.dirty => projection.known

\* While a connection that a poll has seen lasts, nothing looks as if it had ended.
LinkIsSeen ==
    connected /\ ~overlapped /\ connection = observed.connection =>
        /\ disconnect = observed.disconnect
        /\ poll.connected
        /\ projection.connected

\* A poll that finds a connection, with no end counted since it began, finds that one
\* connection.
PollIsConsistent ==
    /\ poll.disconnect <= disconnect
    /\ ~overlapped /\ poll.connected /\ poll.disconnect = disconnect =>
          /\ step \in {"connection", "after"} => connected \/ callback = "countDisconnect"
          /\ step = "after" => poll.connection = connection

NewConnectionIsNew == ~overlapped /\ callback = "connect" => observed.connection # connection

AnnounceInv ==
    /\ connected /\ ~overlapped =>
          announced = connection \/ connection # observed.connection \/ AnnouncementIsDue
    /\ StatusTypeOK /\ LinkIsSeen /\ PollIsConsistent /\ NewConnectionIsNew

\* Most steps leave alone what an announcement depends on.
LEMMA AnnounceUntouched ==
    ASSUME AnnounceInv, UNCHANGED <<boundary, overlapped, observed, poll, status>>,
           step' \in {"connection", "after"} => step' = step,
           callback' = "connect" => callback' = callback,
           callback = "countDisconnect" => callback' = callback
    PROVE  AnnounceInv'
  BY DEF AnnounceInv, StatusTypeOK, LinkIsSeen, PollIsConsistent, NewConnectionIsNew,
     AnnouncementIsDue, boundary, status

\* The callbacks publish a new connection with a new generation, and count its end after it.
LEMMA MqttAnnounces == StampInvariant /\ LinkInv /\ AnnounceInv /\ MqttTask => AnnounceInv'
  <1> SUFFICES ASSUME StampInvariant, LinkInv, AnnounceInv, MqttTask PROVE AnnounceInv'
    OBVIOUS
  <1> USE DEF AnnounceInv, StatusTypeOK, LinkIsSeen, PollIsConsistent, NewConnectionIsNew,
              AnnouncementIsDue
  <1>t. /\ connected \in BOOLEAN /\ connection \in Nat /\ disconnect \in Int
        /\ poll \in [connected : BOOLEAN, connection : Nat, disconnect : Int]
        /\ observed \in [connection : Nat, disconnect : Int]
        /\ observed.connection <= connection
        /\ connected /\ ~overlapped => callback \in {"disconnect", "idle", "push"}
    BY DEF StampInvariant, ConnectionTypeOK, LinkInv
  <1>1. CASE LinkComesUp \/ LinkIsLost \/ MessageArrives \/ CallbackPushes
    <2>1. /\ UNCHANGED <<boundary, overlapped, observed, poll, status, step>>
          /\ callback \in {"idle", "push"} /\ callback' # "connect"
      BY <1>1 DEF LinkComesUp, LinkIsLost, MessageArrives, CallbackPushes, CallbackVars
    <2> QED
      BY <2>1, AnnounceUntouched DEF boundary, status
  <1>2. CASE CallbackCountsConnection
    <2>1. /\ callback = "count" /\ connection' = connection + 1 /\ callback' = "connect"
          /\ UNCHANGED <<connected, disconnect, overlapped, observed, poll, status, step>>
      BY <1>2 DEF CallbackCountsConnection, CallbackVars
    <2> QED
      BY <1>t, <2>1 DEF status
  <1>3. CASE CallbackConnects
    <2>1. /\ callback = "connect" /\ connected' = TRUE /\ callback' = "idle"
          /\ overlapped' = (overlapped \/ BeingStopped)
          /\ UNCHANGED <<connection, disconnect, observed, poll, status, step>>
      BY <1>3 DEF CallbackConnects, CallbackVars
    <2> QED
      BY <1>t, <2>1 DEF status
  <1>4. CASE CallbackDisconnects
    <2>1. /\ callback = "disconnect" /\ connected' = FALSE /\ callback' = "countDisconnect"
          /\ UNCHANGED <<connection, disconnect, overlapped, observed, poll, status, step>>
      BY <1>4 DEF CallbackDisconnects, CallbackVars
    <2> QED
      BY <1>t, <2>1 DEF status
  <1>5. CASE CallbackCountsDisconnect
    <2>1. /\ callback = "countDisconnect" /\ disconnect' = disconnect + 1 /\ callback' = "idle"
          /\ UNCHANGED <<connected, connection, overlapped, observed, poll, status, step>>
      BY <1>5 DEF CallbackCountsDisconnect, CallbackVars
    <2> QED
      BY <1>t, <2>1 DEF status
  <1> QED
    BY <1>1, <1>2, <1>3, <1>4, <1>5 DEF MqttTask

\* stop_mqtt(): no connection lasts that it cleans up after.
LEMMA StopAnnounces ==
    ASSUME StampInvariant, LinkInv, AnnounceInv,
           Provision \/ StopCountsDisconnect \/ StopClient
    PROVE  AnnounceInv'
  <1> USE DEF AnnounceInv, StatusTypeOK, LinkIsSeen, PollIsConsistent, NewConnectionIsNew,
              AnnouncementIsDue
  <1>t. /\ connected \in BOOLEAN /\ connection \in Nat /\ disconnect \in Int
        /\ poll \in [connected : BOOLEAN, connection : Nat, disconnect : Int]
        /\ step \in {"stopDisconnect", "stopClient"} => ~connected \/ overlapped
    BY DEF StampInvariant, ConnectionTypeOK, LinkInv, BeingStopped
  <1>1. CASE Provision
    <2>1. /\ connected' = FALSE /\ step' = "stopDisconnect"
          /\ UNCHANGED <<connection, disconnect, callback, overlapped, observed, poll, status>>
      BY <1>1 DEF Provision, MqttVars
    <2> QED
      BY <1>t, <2>1 DEF status
  <1>2. CASE StopCountsDisconnect
    <2>1. /\ step = "stopDisconnect" /\ disconnect' = disconnect + 1 /\ step' = "stopClient"
          /\ UNCHANGED <<connected, connection, callback, overlapped, observed, poll, status>>
      BY <1>2 DEF StopCountsDisconnect, MqttVars
    <2> QED
      BY <1>t, <2>1 DEF status
  <1>3. CASE StopClient
    <2>1. /\ step = "stopClient" /\ step' = "before"
          /\ UNCHANGED <<boundary, callback, overlapped, observed, poll, published, announced>>
          /\ projection' = [projection EXCEPT !.connected = FALSE, !.announce = FALSE,
                                              !.dirty = projection.dirty]
      BY <1>3 DEF StopClient, Cleanup
    <2>2. StatusTypeOK'
      BY <2>1
    <2> QED
      BY <1>t, <2>1, <2>2 DEF boundary
  <1> QED
    BY <1>1, <1>2, <1>3

\* poll() reads the counters until no end came in between.
LEMMA ReadsAnnounce ==
    ASSUME StampInvariant, LinkInv, AnnounceInv,
           ReadDisconnect \/ ReadConnected \/ ReadConnection \/ PollAgain
    PROVE  AnnounceInv'
  <1> USE DEF AnnounceInv, StatusTypeOK, LinkIsSeen, PollIsConsistent, NewConnectionIsNew,
              AnnouncementIsDue
  <1>t. /\ connected \in BOOLEAN /\ connection \in Nat /\ disconnect \in Int
        /\ poll \in [connected : BOOLEAN, connection : Nat, disconnect : Int]
    BY DEF StampInvariant, ConnectionTypeOK
  <1>u. UNCHANGED <<connected, connection, disconnect, callback, overlapped, observed, status>>
    BY DEF ReadDisconnect, ReadConnected, ReadConnection, PollAgain, PollVars, MqttVars,
       boundary
  <1>1. CASE ReadDisconnect
    BY <1>1, <1>t, <1>u DEF ReadDisconnect, status
  <1>2. CASE ReadConnected
    BY <1>2, <1>t, <1>u DEF ReadConnected, status
  <1>3. CASE ReadConnection
    BY <1>3, <1>t, <1>u DEF ReadConnection, status
  <1>4. CASE PollAgain
    BY <1>4, <1>t, <1>u DEF PollAgain, status
  <1> QED
    BY <1>1, <1>2, <1>3, <1>4

\* A poll that ends with a new connection plans its announcement; with the one of the last
\* poll it finds nothing to clean up after.
LEMMA PollAnnounces ==
    ASSUME StampInvariant, LinkInv, AnnounceInv, FinishPoll
    PROVE  AnnounceInv'
  <1> DEFINE started == poll.connected /\ poll.connection # observed.connection
  <1>1. /\ step = "after" /\ disconnect = poll.disconnect /\ step' = "inbound"
        /\ UNCHANGED <<connected, connection, disconnect, callback, overlapped, poll, published,
                       announced>>
        /\ observed' = [disconnect |-> disconnect, connection |-> ObservedConnection]
    BY DEF FinishPoll, PollVars, MqttVars, boundary
  <1>2. \/ /\ CleanupIsRequired
           /\ projection' = [projection EXCEPT !.connected = started, !.announce = started,
                                !.dirty = IF started THEN projection.known ELSE @]
        \/ ~CleanupIsRequired /\ started /\ Activate
        \/ ~CleanupIsRequired /\ ~started /\ projection' = projection
    BY DEF FinishPoll, Cleanup, status
  <1>3. /\ connected \in BOOLEAN /\ connection \in Nat /\ disconnect \in Int
        /\ poll \in [connected : BOOLEAN, connection : Nat, disconnect : Int]
        /\ connected /\ ~overlapped => callback \in {"disconnect", "idle", "push"}
    BY DEF StampInvariant, ConnectionTypeOK, LinkInv
  <1>4. StatusTypeOK
    BY DEF AnnounceInv
  <1>5. started => projection'.connected /\ AnnouncementIsDue'
    BY <1>2, <1>4 DEF Activate, AnnouncementIsDue, StatusTypeOK
  <1>6. StatusTypeOK'
    <2>1. started \in BOOLEAN
      BY <1>3
    <2>2. /\ projection' \in [connected : BOOLEAN, announce : BOOLEAN, dirty : BOOLEAN,
                              known : BOOLEAN]
          /\ projection'.known = projection.known
          /\ projection'.dirty => projection.dirty \/ projection.known
      BY <1>2, <1>4, <2>1 DEF Activate, StatusTypeOK
    <2> QED
      BY <1>1, <1>4, <2>2 DEF StatusTypeOK
  <1>7. ~started => observed'.connection = observed.connection
    BY <1>1, <1>3 DEF ObservedConnection
  <1>8. ~overlapped /\ poll.connected =>
            poll.connection = connection /\ (connected \/ callback = "countDisconnect")
    BY <1>1 DEF AnnounceInv, PollIsConsistent
  <1>9. observed'.connection = IF poll.connected THEN poll.connection ELSE observed.connection
    BY <1>1 DEF ObservedConnection
  <1>10. ASSUME connected, ~overlapped, ~started, connection = observed'.connection
         PROVE  /\ connection = observed.connection /\ disconnect = observed.disconnect
                /\ poll.connected /\ projection' = projection /\ projection.connected
    <2>1. connection = observed.connection
      BY <1>7, <1>10
    <2>2. disconnect = observed.disconnect /\ poll.connected /\ projection.connected
      BY <1>10, <2>1 DEF AnnounceInv, LinkIsSeen
    <2> QED
      BY <1>2, <1>10, <2>1, <2>2 DEF CleanupIsRequired
  <1>11. LinkIsSeen'
    BY <1>1, <1>5, <1>10 DEF LinkIsSeen
  <1>12. PollIsConsistent' /\ NewConnectionIsNew'
    BY <1>1, <1>3, <1>8, <1>9 DEF AnnounceInv, PollIsConsistent, NewConnectionIsNew
  <1>13. (connected /\ ~overlapped =>
            announced = connection \/ connection # observed.connection \/ AnnouncementIsDue)'
    BY <1>1, <1>5, <1>10 DEF AnnounceInv, AnnouncementIsDue
  <1> QED
    BY <1>6, <1>11, <1>12, <1>13 DEF AnnounceInv

\* What is observed equals what this connection was told, or is still to be published to it.
LEMMA ObserveAnnounces ==
    ASSUME StampInvariant, LinkInv, AnnounceInv, ObserveSnapshot
    PROVE  AnnounceInv'
  <1>1. PICK changed \in BOOLEAN :
          /\ projection' = [projection EXCEPT !.known = TRUE, !.dirty = ~published \/ changed]
          /\ announced' = IF projection.connected /\ published /\ ~changed
                          THEN poll.connection ELSE announced
    BY DEF ObserveSnapshot
  <1>2. /\ step = "observe" /\ step' = "publish"
        /\ UNCHANGED <<connected, connection, disconnect, callback, overlapped, observed, poll,
                       published>>
    BY DEF ObserveSnapshot, OutboundVars, MqttVars, boundary
  <1>3. StatusTypeOK' /\ projection'.connected = projection.connected
        /\ projection'.announce = projection.announce /\ projection'.known
        /\ projection'.dirty = (~published \/ changed)
    BY <1>1, <1>2 DEF AnnounceInv, StatusTypeOK
  <1>4. LinkIsSeen' /\ PollIsConsistent' /\ NewConnectionIsNew'
    BY <1>2, <1>3 DEF AnnounceInv, LinkIsSeen, PollIsConsistent, NewConnectionIsNew
  <1>5. ASSUME connected, ~overlapped, connection = observed.connection
        PROVE  announced' = connection \/ AnnouncementIsDue'
    <2>1. projection.connected /\ poll.connected
      BY <1>5 DEF AnnounceInv, LinkIsSeen
    <2>2. poll.connection = connection
      BY <1>2, <1>5, <2>1 DEF LinkInv, PollIsFinished
    <2>3. announced = connection \/ AnnouncementIsDue
      BY <1>5 DEF AnnounceInv
    <2>4. CASE published /\ ~changed
      BY <1>1, <2>1, <2>2, <2>4
    <2>5. CASE ~(published /\ ~changed)
      <3>1. announced' = announced /\ projection'.dirty
        BY <1>1, <1>3, <2>5
      <3> QED
        BY <1>3, <2>3, <3>1 DEF AnnouncementIsDue
    <2> QED
      BY <2>4, <2>5
  <1> QED
    BY <1>2, <1>3, <1>4, <1>5 DEF AnnounceInv

\* A status that was sent went to the connection that is up.
LEMMA PublishAnnounces ==
    ASSUME StampInvariant, LinkInv, AnnounceInv,
           NEW sentResult \in BOOLEAN, NEW sentStatus \in BOOLEAN,
           PublishOutbound(sentResult, sentStatus)
    PROVE  AnnounceInv'
  <1>1. /\ step = "publish" /\ step' = "uart" /\ poll.connection = connection
        /\ UNCHANGED <<connected, connection, disconnect, callback, overlapped, observed, poll>>
    BY DEF PublishOutbound, OutboundVars, MqttVars, boundary, Usable
  <1>2. CASE UNCHANGED status
    BY <1>1, <1>2, AnnounceUntouched DEF boundary
  <1>3. CASE /\ projection' = [projection EXCEPT !.dirty = FALSE, !.announce = FALSE]
             /\ published' = TRUE /\ announced' = poll.connection /\ projection.dirty
    <2>1. StatusTypeOK' /\ projection'.connected = projection.connected
      BY <1>3 DEF AnnounceInv, StatusTypeOK
    <2> QED
      BY <1>1, <1>3, <2>1
         DEF AnnounceInv, LinkIsSeen, PollIsConsistent, NewConnectionIsNew
  <1> QED
    BY <1>2, <1>3 DEF PublishOutbound, StatusIsDue

\* Every step keeps the invariant.
LEMMA NextAnnounces == StampInvariant /\ LinkInv /\ AnnounceInv /\ [Next]_vars => AnnounceInv'
  <1> SUFFICES ASSUME StampInvariant, LinkInv, AnnounceInv, [Next]_vars PROVE AnnounceInv'
    OBVIOUS
  <1>1. CASE UNCHANGED vars
    BY <1>1, AnnounceUntouched DEF vars, boundary, status
  <1>2. CASE Drain
    BY <1>2, AnnounceUntouched DEF Drain, MqttVars, boundary, status
  <1>3. CASE BeginTurn \/ TakeInbound \/ MapCommand \/ CheckConnection \/ AdmitCommand
    <2>1. /\ UNCHANGED <<boundary, callback, overlapped, observed, poll, status>>
          /\ step' \in {"inbound", "front", "map", "check", "admit", "observe"}
      BY <1>3 DEF BeginTurn, TakeInbound, MapCommand, CheckConnection, AdmitCommand,
         InboundVars
    <2> QED
      BY <2>1, AnnounceUntouched
  <1>4. CASE SkipObserving \/ SkipPublishing
    <2>1. /\ UNCHANGED <<boundary, callback, overlapped, observed, poll, status>>
          /\ step' \in {"publish", "uart"}
      BY <1>4 DEF SkipObserving, SkipPublishing, OutboundVars, MqttVars
    <2> QED
      BY <2>1, AnnounceUntouched
  <1> QED
    BY <1>1, <1>2, <1>3, <1>4, MqttAnnounces, StopAnnounces, ReadsAnnounce, PollAnnounces,
       ObserveAnnounces, PublishAnnounces DEF Next, BlynkTask

\* The announcement of a connection is never dropped, wherever in a poll, a stop of the
\* client or a turn it came up: as long as the connection lasts and was not told the status,
\* it is one that the next whole poll sees, or its announcement stays due, with no minimum
\* interval to wait for (poll() and publish_outbound() of blynk_service.cpp). What is left of
\* EveryConnectionIsAnnounced is that polls, observations and publications go on.
THEOREM AnnouncementsAreOwed == Spec => []AnnouncementIsOwed
  <1>1. ASSUME Init PROVE AnnounceInv
    <2>1. /\ connected = FALSE /\ disconnect = 0 /\ callback = "idle" /\ step = "uart"
          /\ poll.disconnect = 0 /\ published = FALSE
          /\ projection = [connected |-> FALSE, announce |-> FALSE, dirty |-> FALSE,
                            known |-> FALSE]
      BY <1>1 DEF Init
    <2>2. StatusTypeOK
      BY <2>1 DEF StatusTypeOK
    <2>3. poll.disconnect <= disconnect /\ ~connected
      BY <2>1
    <2> QED
      BY <2>1, <2>2, <2>3 DEF AnnounceInv, LinkIsSeen, PollIsConsistent, NewConnectionIsNew
  <1>2. LinkInv /\ AnnounceInv => AnnouncementIsOwed
    <2> SUFFICES ASSUME LinkInv, AnnounceInv, connected, ~overlapped
                 PROVE  announced = connection \/ ConnectionIsUnseen \/ AnnouncementIsDue
      BY DEF AnnouncementIsOwed
    <2> QED
      BY DEF AnnounceInv, PollIsConsistent, ConnectionIsUnseen
  <1>3. ResultsContext => StampInvariant /\ LinkInv
    BY DEF ResultsContext
  <1> QED
    BY <1>1, <1>2, <1>3, NextAnnounces, ContextSafe, PTL DEF Spec

==============================================================================
