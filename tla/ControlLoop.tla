------------------------------ MODULE ControlLoop ------------------------------
(***************************************************************************)
(* One cycle of ControlTask (smoker_platform/src/ordinary_runtime.cpp): it *)
(* passes OTA's intents and then a bounded number of external commands to  *)
(* the application, and ticks it.  Between any two of its steps the HTTP   *)
(* and Blynk tasks may push commands into their mailboxes, OtaTask may     *)
(* signal, and Blynk's connection may be replaced.                         *)
(*                                                                         *)
(* The application is SmokerApplication, step by step.  A mailbox is a     *)
(* queue, which is what CommandMailbox refines; OtaTask is any task that   *)
(* signals.  Publishing, logging and the watchdog reset follow the tick    *)
(* and do not feed back into the loop.                                     *)
(***************************************************************************)
EXTENDS SmokerApplication

CONSTANTS
    MailboxCapacity,            \* 16 in the code
    ExternalBudget,             \* external_budget_per_cycle, 13 in the code
    MaxGeneration               \* Blynk connections; 2^32 - 1 generations in the code

ASSUME LoopAssumption ==
    /\ MailboxCapacity \in Nat \ {0, 1}
    /\ ExternalBudget \in Nat \ {0}
    /\ ExternalBudget + 2 = CommandCapacity - 1
    /\ MaxGeneration \in Nat
    /\ InternalOtaCorrelationId \in CorrelationIds

Transports == {"http", "blynk"}

Prepare == [type |-> "PrepareFirmwareUpdate"]
Finish == [type |-> "FinishFirmwareUpdate"]

ASSUME IntentAssumption == {Prepare, Finish} \subseteq Commands

\* What a transport may push: the two intents are OTA's own.
ExternalCommands == Commands \ {Prepare, Finish}

VARIABLES
    cycleStep,                  \* next statement of control_task's loop
    mailboxes,                  \* commands pushed and not drained
    blynkFirst,                 \* blynk_first_
    drained,                    \* commands taken in this cycle
    prepareCorrelation,         \* OTA's Prepare signal, 0 if there is none
    finishRequested,            \* OTA's Finish signal
    blynkGeneration,            \* connection_generation_; 0 before the first connection
    blynkConnected              \* connected_

signalVars == <<prepareCorrelation, finishRequested>>
blynkVars == <<blynkGeneration, blynkConnected>>
loopVars == <<cycleStep, mailboxes, blynkFirst, drained, signalVars, blynkVars>>
allVars == <<vars, loopVars>>

----------------------------------------------------------------------------
(* The other tasks.                                                         *)

\* RuntimeIdGenerator numbers sessions afresh for both transports.
IsFreshStart(command) ==
    command.type = "Start" =>
        /\ FreshIds(command, 0)
        /\ \A t \in Transports : \A i \in DOMAIN mailboxes[t] :
             mailboxes[t][i].command.type = "Start"
                 => mailboxes[t][i].command.session # command.session

\* HTTP commands carry no connection.
Generation(t) == IF t = "blynk" THEN blynkGeneration ELSE 0

\* Full is answered to the producer; nothing changes.
Push(t, command) ==
    /\ t = "blynk" => blynkGeneration > 0
    /\ Len(mailboxes[t]) < IF IsStop(command) THEN MailboxCapacity ELSE MailboxCapacity - 1
    /\ IsFreshStart(command)
    /\ mailboxes' = [mailboxes EXCEPT ![t] =
                        Append(@, [command |-> command, generation |-> Generation(t)])]
    /\ UNCHANGED <<vars, cycleStep, blynkFirst, drained, signalVars, blynkVars>>

\* The generation is published before the connection is.
Connect ==
    /\ blynkGeneration < MaxGeneration
    /\ blynkGeneration' = blynkGeneration + 1
    /\ blynkConnected' = TRUE
    /\ UNCHANGED <<vars, cycleStep, mailboxes, blynkFirst, drained, signalVars>>

Disconnect ==
    /\ blynkConnected
    /\ blynkConnected' = FALSE
    /\ UNCHANGED <<vars, cycleStep, mailboxes, blynkFirst, drained, signalVars,
                   blynkGeneration>>

RequestPrepare ==
    /\ prepareCorrelation = 0
    /\ prepareCorrelation' = InternalOtaCorrelationId
    /\ UNCHANGED <<vars, cycleStep, mailboxes, blynkFirst, drained, finishRequested,
                   blynkVars>>

RequestFinish ==
    /\ ~finishRequested
    /\ finishRequested' = TRUE
    /\ UNCHANGED <<vars, cycleStep, mailboxes, blynkFirst, drained, prepareCorrelation,
                   blynkVars>>

\* What they do during a tick is as if done after it: the tick reads none of it.
OtherTasks ==
    /\ phase = "idle"
    /\ \/ \E t \in Transports, command \in ExternalCommands : Push(t, command)
       \/ Connect
       \/ Disconnect
       \/ RequestPrepare
       \/ RequestFinish

----------------------------------------------------------------------------
(* ControlTask.                                                             *)

Admits(command) == Len(queue) < AdmissionLimit(command)

\* A refused Prepare is signalled again and keeps Finish from overtaking it.
ConsumePrepare ==
    /\ cycleStep = "prepare"
    /\ IF prepareCorrelation = 0
       THEN cycleStep' = "finish" /\ UNCHANGED <<vars, prepareCorrelation>>
       ELSE /\ Submit(Prepare, prepareCorrelation)
            /\ cycleStep' = IF Admits(Prepare) THEN "finish" ELSE "drain"
            /\ prepareCorrelation' = IF Admits(Prepare) THEN 0 ELSE prepareCorrelation
    /\ UNCHANGED <<mailboxes, blynkFirst, drained, finishRequested, blynkVars>>

ConsumeFinish ==
    /\ cycleStep = "finish"
    /\ cycleStep' = "drain"
    /\ IF finishRequested
       THEN /\ Submit(Finish, 0)
            /\ finishRequested' = ~Admits(Finish)
       ELSE UNCHANGED <<vars, finishRequested>>
    /\ UNCHANGED <<mailboxes, blynkFirst, drained, prepareCorrelation, blynkVars>>

\* Mutant of Source: one transport always goes first.
BlynkGoesFirst == IF mailboxes["blynk"] # <<>> THEN "blynk" ELSE "http"

\* The transport to take from: the one whose turn it is, unless it has nothing.
Source ==
    LET preferred == IF blynkFirst THEN "blynk" ELSE "http"
        alternate == IF blynkFirst THEN "http" ELSE "blynk"
    IN  IF mailboxes[preferred] # <<>> THEN preferred ELSE alternate

\* A Blynk command of a connection that is gone is discarded; it still costs budget.
IsStale(message) ==
    /\ Source = "blynk"
    /\ ~(blynkConnected /\ message.generation = blynkGeneration)

\* Mutant of EndsDrain: only the budget ends the drain.
BudgetEndsDrain(message) == drained + 1 = ExternalBudget

\* Stop ends the drain, and so does the budget.
EndsDrain(message) ==
    \/ drained + 1 = ExternalBudget
    \/ IsStop(message.command) /\ ~IsStale(message)

DrainCommand ==
    /\ cycleStep = "drain"
    /\ mailboxes[Source] # <<>>
    /\ LET message == Head(mailboxes[Source])
       IN  /\ IF IsStale(message) THEN UNCHANGED vars ELSE Submit(message.command, 0)
           /\ cycleStep' = IF EndsDrain(message) THEN "tick" ELSE "drain"
           /\ drained' = IF EndsDrain(message) THEN 0 ELSE drained + 1
    /\ mailboxes' = [mailboxes EXCEPT ![Source] = Tail(@)]
    /\ blynkFirst' = ~blynkFirst
    /\ UNCHANGED <<signalVars, blynkVars>>

MailboxesAreEmpty ==
    /\ cycleStep = "drain"
    /\ mailboxes[Source] = <<>>
    /\ cycleStep' = "tick"
    /\ drained' = 0
    /\ UNCHANGED <<vars, mailboxes, blynkFirst, signalVars, blynkVars>>

TickApplication ==
    /\ cycleStep = "tick"
    /\ Tick
    /\ cycleStep' = IF phase' = "idle" THEN "prepare" ELSE "tick"
    /\ UNCHANGED <<mailboxes, blynkFirst, drained, signalVars, blynkVars>>

ControlTask ==
    \/ ConsumePrepare
    \/ ConsumeFinish
    \/ DrainCommand
    \/ MailboxesAreEmpty
    \/ TickApplication

----------------------------------------------------------------------------
(* The specification.                                                       *)

LoopInit ==
    /\ Init
    /\ cycleStep = "prepare"
    /\ mailboxes = [t \in Transports |-> <<>>]
    /\ blynkFirst = FALSE
    /\ drained = 0
    /\ prepareCorrelation = 0
    /\ finishRequested = FALSE
    /\ blynkGeneration = 0
    /\ blynkConnected = FALSE

LoopNext == ControlTask \/ OtherTasks

LoopSpec == LoopInit /\ [][LoopNext]_allVars

\* ControlTask is woken every second at the highest priority; nobody else is
\* assumed to run.
FairLoopSpec == LoopSpec /\ WF_allVars(ControlTask)

----------------------------------------------------------------------------
(* Properties.                                                              *)

\* "Each cycle drains at most thirteen external commands so both internal OTA
\* intents can still be admitted" (runtime_transport_support.hpp): no command that
\* reaches the application is ever refused for lack of room, because the Stop
\* barriers of the drain and of the tick leave no command behind.
NothingIsRefused ==
    /\ cycleStep = "prepare" => queue = <<>>
    /\ cycleStep \in {"prepare", "finish", "drain"} =>
         \A command \in Commands : Admits(command)

\* A Stop that waits in the HTTP mailbox while the heater is on turns it OFF, however
\* many commands the other transport pushes (SR-003).
StopFromMailboxTurnsHeaterOff ==
    heaterDemand > 0 /\ (\E i \in DOMAIN mailboxes["http"] :
                            IsStop(mailboxes["http"][i].command))
        ~> heaterDemand = 0

=============================================================================
