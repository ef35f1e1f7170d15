---------------------------- MODULE CommandMailbox ----------------------------
(***************************************************************************)
(* SpscCommandMailbox (smoker_app/src/command_mailbox.cpp): the ring that  *)
(* takes one transport's commands to ControlTask.  The transport calls     *)
(* push() and ControlTask try_pop(); each load and store of a sequence is  *)
(* a step, and so is each half of a message that is copied: the command    *)
(* and its correlation id and generation.  Every sequence is stored by one *)
(* task with release and loaded by the other with acquire, so steps may be *)
(* interleaved as they are.  The count of refused pushes is left out.      *)
(***************************************************************************)
EXTENDS Integers, Sequences

CONSTANTS
    Regular,                    \* commands other than Stop
    Stop,
    Tags,                       \* correlation ids and generations
    Capacity,                   \* 16 in the code
    Modulus,                    \* 2^32: the sequences are uint32_t
    None

Commands == Regular \cup {Stop}
TransportCommands == [command : Commands, tag : Tags]

ASSUME MailboxAssumption ==
    /\ Capacity \in Nat \ {0, 1}
    /\ Modulus \in Nat
    /\ Modulus > Capacity
    /\ Modulus % Capacity = 0
    /\ Stop \notin Regular
    /\ None \notin TransportCommands \cup Commands \cup Tags

VARIABLES
    commands,                   \* commands_, None in a slot never used
    readSequence,
    writeSequence,
    producerStep,
    offered,                    \* the arguments of push()
    admission,                  \* what the last push() returned
    consumerStep,
    popped,                     \* the message try_pop() moves out
    received                    \* what the last try_pop() gave its caller or None

producerVars == <<producerStep, offered, admission>>
consumerVars == <<consumerStep, popped, received>>
mailboxVars == <<commands, readSequence, writeSequence, producerVars, consumerVars>>

Successor(sequence) == (sequence + 1) % Modulus

\* Mutant of Pending: a signed difference.
SignedPending(write, read) == write - read

Pending(write, read) == (write - read) % Modulus

Slot(sequence) == sequence % Capacity

----------------------------------------------------------------------------
(* push(), called by the mailbox's transport.                               *)

BeginPush ==
    /\ producerStep = "idle"
    /\ producerStep' = "admit"
    /\ offered' \in TransportCommands
    /\ UNCHANGED <<commands, readSequence, writeSequence, admission, consumerVars>>

AdmissionLimit(command) == IF command = Stop THEN Capacity ELSE Capacity - 1

IsAdmitted == Pending(writeSequence, readSequence) < AdmissionLimit(offered.command)

\* The producer's own sequence cannot change between its load and this one.
LoadReadSequence ==
    /\ producerStep = "admit"
    /\ IsAdmitted
    /\ producerStep' = "command"
    /\ UNCHANGED <<commands, readSequence, writeSequence, offered, admission,
                   consumerVars>>

RefusePush ==
    /\ producerStep = "admit"
    /\ ~IsAdmitted
    /\ producerStep' = "idle"
    /\ offered' = None
    /\ admission' = "Full"
    /\ UNCHANGED <<commands, readSequence, writeSequence, consumerVars>>

CopyCommand ==
    /\ producerStep = "command"
    /\ producerStep' = "tag"
    /\ commands' = [commands EXCEPT ![Slot(writeSequence)].command = offered.command]
    /\ UNCHANGED <<readSequence, writeSequence, offered, admission, consumerVars>>

CopyTag ==
    /\ producerStep = "tag"
    /\ producerStep' = "store"
    /\ commands' = [commands EXCEPT ![Slot(writeSequence)].tag = offered.tag]
    /\ UNCHANGED <<readSequence, writeSequence, offered, admission, consumerVars>>

StoreWriteSequence ==
    /\ producerStep = "store"
    /\ producerStep' = "idle"
    /\ writeSequence' = Successor(writeSequence)
    /\ offered' = None
    /\ admission' = "Accepted"
    /\ UNCHANGED <<commands, readSequence, consumerVars>>

Producer ==
    \/ BeginPush
    \/ LoadReadSequence
    \/ RefusePush
    \/ CopyCommand
    \/ CopyTag
    \/ StoreWriteSequence

----------------------------------------------------------------------------
(* try_pop(), called by ControlTask.                                        *)

LoadWriteSequence ==
    /\ consumerStep = "idle"
    /\ readSequence # writeSequence
    /\ consumerStep' = "command"
    /\ UNCHANGED <<commands, readSequence, writeSequence, producerVars, popped, received>>

FindEmpty ==
    /\ consumerStep = "idle"
    /\ readSequence = writeSequence
    /\ received' = None
    /\ UNCHANGED <<commands, readSequence, writeSequence, producerVars,
                   consumerStep, popped>>

TakeCommand ==
    /\ consumerStep = "command"
    /\ consumerStep' = "tag"
    /\ popped' = [popped EXCEPT !.command = commands[Slot(readSequence)].command]
    /\ UNCHANGED <<commands, readSequence, writeSequence, producerVars, received>>

TakeTag ==
    /\ consumerStep = "tag"
    /\ consumerStep' = "store"
    /\ popped' = [popped EXCEPT !.tag = commands[Slot(readSequence)].tag]
    /\ UNCHANGED <<commands, readSequence, writeSequence, producerVars, received>>

StoreReadSequence ==
    /\ consumerStep = "store"
    /\ consumerStep' = "idle"
    /\ readSequence' = Successor(readSequence)
    /\ received' = popped
    /\ popped' = [command |-> None, tag |-> None]
    /\ UNCHANGED <<commands, writeSequence, producerVars>>

Consumer ==
    \/ LoadWriteSequence
    \/ FindEmpty
    \/ TakeCommand
    \/ TakeTag
    \/ StoreReadSequence

----------------------------------------------------------------------------
(* The specification.                                                       *)

MailboxInit ==
    /\ commands = [i \in 0 .. Capacity - 1 |-> [command |-> None, tag |-> None]]
    /\ readSequence = 0
    /\ writeSequence = 0
    /\ producerStep = "idle"
    /\ offered = None
    /\ admission = "Accepted"
    /\ consumerStep = "idle"
    /\ popped = [command |-> None, tag |-> None]
    /\ received = None

MailboxNext == Producer \/ Consumer

MailboxSpec == MailboxInit /\ [][MailboxNext]_mailboxVars

----------------------------------------------------------------------------
(* Properties.                                                              *)

PendingMessages ==
    [i \in 1 .. Pending(writeSequence, readSequence) |->
        commands[Slot((readSequence + i - 1) % Modulus)]]

\* The mailbox is a bounded queue with a place reserved for Stop, across the wrap
\* of its sequences: nothing is lost, duplicated, reordered or mixed up, and a
\* command is refused only when the queue is full.
Queue == INSTANCE CommandQueue WITH
    Messages <- TransportCommands,
    Urgent <- [command : {Stop}, tag : Tags],
    pending <- PendingMessages,
    answer <- admission

ImplementsQueue == Queue!Spec

=============================================================================
