--------------------------- MODULE ControlLoop_proofs ---------------------------
(***************************************************************************)
(* ControlTask's loop between its transports implements SmokerApplication, *)
(* and SmokerApplication implements SessionLifecycle, for every set of     *)
(* commands and every capacity and budget that LoopAssumption allows.      *)
(***************************************************************************)
EXTENDS ControlLoop, SmokerApplication_proofs, WellFoundedInduction

----------------------------------------------------------------------------
(* SmokerApplication implements SessionLifecycle, with the last published   *)
(* snapshot as the view.                                                    *)

\* A queued command that starts a session.
StartAt(i) == queue[i].command.type = "Start"

\* Queued starts carry ids that neither the current session nor the last
\* snapshot has, and no two carry the same.
FreshStarts ==
    \A i \in 1 .. Len(queue) : StartAt(i) =>
        /\ queue[i].command.session \notin {session.id, published.session}
        /\ \A j \in 1 .. Len(queue) :
             StartAt(j) /\ i # j => queue[j].command.session # queue[i].command.session

\* What a tick may have done since the snapshot was published: a session that
\* was published as running is still the current one, and it runs until the
\* command loop is left; a session that runs although none was published is new.
ViewInv ==
    /\ published.status = "Running" =>
         /\ session.id = published.session
         /\ ~firmwareUpdateActive
         /\ phase \in {"idle", "commands"} => IsRunning
    /\ published.status # "Running" /\ IsRunning => session.id # published.session
    /\ phase = "idle" => /\ published.session = session.id
                         /\ published.status = CurrentSessionStatus
    /\ published.session # None => session.id # None
    /\ session.id # None => session.status # "Idle"
    /\ session.status = "Fault" => activeFault # None
    /\ published.fault = "ConfigurationInvalid" => activeFault = "ConfigurationInvalid"
    /\ FreshStarts

Strengthening == TypeOK /\ InterlocksExcludeRunning

----------------------------------------------------------------------------

\* Steps that touch neither the lifecycle, nor the queue, nor the snapshot.
LEMMA QuietStep ==
    ASSUME ViewInv, UNCHANGED <<queue, lifecycleVars, published>>,
           phase' = "idle" => phase = "idle",
           phase' = "commands" => phase \in {"idle", "commands"}
    PROVE  ViewInv'
  BY DEF ViewInv, FreshStarts, StartAt, IsRunning, CurrentSessionStatus, lifecycleVars

\* The constructor publishes a snapshot of the state it leaves behind.
LEMMA InitView == Init => ViewInv
  BY DEF Init, ViewInv, FreshStarts, SnapshotView, CurrentSessionStatus, IsRunning, NoSession

\* Submitting a command leaves the snapshot and the session alone; a queued Start
\* keeps its id fresh.
LEMMA SubmitView ==
    ASSUME Strengthening, ViewInv, NEW command \in Commands,
           NEW id \in CorrelationIds \cup {0}, Submit(command, id)
    PROVE  ViewInv'
  <1>1. FreshStarts'
    <2>1. CASE CoalesceStop(command, id)
      <3>1. /\ queue \in Seq(QueueEntries) /\ queue' \in Seq(QueueEntries)
            /\ Len(queue') = Len(queue)
            /\ \A i \in 1 .. Len(queue) : queue'[i].command = queue[i].command
        <4>1. CASE id = 0
          BY <2>1, <4>1 DEF CoalesceStop, Strengthening, TypeOK
        <4>2. CASE id # 0
          <5> DEFINE coalesced == Window(Append(queue[Len(queue)].coalesced, id),
                                         CommandResultCapacity)
          <5>1. queue' = [queue EXCEPT ![Len(queue)].coalesced = coalesced]
            BY <2>1, <4>2 DEF CoalesceStop
          <5> HIDE DEF coalesced
          <5>2. queue \in Seq(QueueEntries) /\ queue' \in Seq(QueueEntries)
            BY SubmitTypeOK DEF Strengthening, TypeOK
          <5>3. \A i \in 1 .. Len(queue) : queue[i] \in QueueEntries
            BY <5>2
          <5> QED
            BY <5>1, <5>2, <5>3 DEF QueueEntries
        <4> QED
          BY <4>1, <4>2
      <3> QED
        BY <3>1 DEF ViewInv, FreshStarts, StartAt, Submit, lifecycleVars, outputVars
    <2>2. CASE AdmitCommand(command, id)
      <3>1. /\ queue \in Seq(QueueEntries)
            /\ phase = "idle" /\ published.session = session.id
            /\ UNCHANGED <<session, published>>
        BY DEF Submit, ViewInv, Strengthening, TypeOK, lifecycleVars, outputVars
      <3>2. command.type = "Start" =>
              /\ command.session # session.id
              /\ \A i \in 1 .. Len(queue) : StartAt(i)
                    => queue[i].command.session # command.session
        BY <3>1 DEF Submit, FreshIds, StartAt
      <3>3. /\ Len(queue') = Len(queue) + 1
            /\ \A i \in 1 .. Len(queue) : queue'[i] = queue[i]
            /\ queue'[Len(queue) + 1].command = command
        BY <2>2, <3>1 DEF AdmitCommand
      <3> QED
        BY <3>1, <3>2, <3>3 DEF ViewInv, FreshStarts, StartAt
    <2>3. CASE RejectFullQueue(command, id)
      BY <2>3 DEF RejectFullQueue, Submit, ViewInv, FreshStarts, StartAt, lifecycleVars,
                  outputVars
    <2> QED
      BY <2>1, <2>2, <2>3 DEF Submit
  <1> QED
    BY <1>1 DEF Submit, ViewInv, IsRunning, CurrentSessionStatus, lifecycleVars, outputVars

\* Taking the head of the queue leaves a queue of fresh starts, and if the head is
\* a start its id is fresh as well.
LEMMA TailIsFresh ==
    ASSUME Strengthening, ViewInv, queue # <<>>, queue' = Tail(queue), UNCHANGED published,
           \/ session'.id = session.id
           \/ Head(queue).command.type = "Start" /\ session'.id = Head(queue).command.session
    PROVE  FreshStarts'
  <1>1. /\ queue \in Seq(QueueEntries)
        /\ Len(queue') = Len(queue) - 1
        /\ \A i \in 1 .. Len(queue') : queue'[i] = queue[i + 1]
        /\ Head(queue) = queue[1]
        /\ Len(queue) \in Nat \ {0}
    BY DEF Strengthening, TypeOK
  <1> QED
    BY <1>1 DEF ViewInv, FreshStarts, StartAt

\* No command of the drain loop breaks the relation to the last snapshot.
LEMMA ProcessCommandView ==
    ASSUME Strengthening, ViewInv, ProcessCommand
    PROVE  ViewInv'
  <1>1. /\ phase = "commands"
        /\ phase' \in {"probes", "commands"}
        /\ queue # <<>> /\ queue' = Tail(queue)
        /\ UNCHANGED published
    BY DEF ProcessCommand, RejectCommand, AcceptStart, AcceptStop,
           AcceptSetChamberTarget, AcceptSetProbeTarget, AcceptSetProbeEnabled,
           AcceptSetProbeAlarmEnabled, AcceptAcknowledgeAlarm, AcceptClearResolvedFault,
           AcceptFirmwareInterlock, Accepting, Consume, outputVars
  <1>2. CASE AcceptStart
    <2>1. /\ ~IsRunning /\ activeFault = None /\ ~firmwareUpdateActive
          /\ Head(queue).command.type = "Start"
          /\ UNCHANGED <<activeFault, firmwareUpdateActive>>
          /\ session'.id = Head(queue).command.session
          /\ session'.status = "Running"
      BY <1>2 DEF AcceptStart, Accepting, Accepts, StartIsAccepted
    <2>2. FreshStarts'
      BY <1>1, <2>1, TailIsFresh
    <2>3. session'.id \notin {session.id, published.session}
      <3>1. Len(queue) \in Nat \ {0} /\ Head(queue) = queue[1]
        BY <1>1 DEF Strengthening, TypeOK
      <3> QED
        BY <2>1, <3>1 DEF ViewInv, FreshStarts, StartAt
    <2>4. session'.id # None
      <3>1. Head(queue).command \in Commands
        <4>1. Head(queue) \in QueueEntries
          BY <1>1 DEF Strengthening, TypeOK
        <4> QED
          BY <4>1 DEF QueueEntries
      <3> QED
        BY <2>1, <3>1, CommandFields, ConfigurationAssumption
    <2> QED
      BY <1>1, <2>1, <2>2, <2>3, <2>4 DEF ViewInv, IsRunning
  <1>3. CASE AcceptStop
    <2>1. /\ phase' = "probes"
          /\ UNCHANGED <<activeFault, firmwareUpdateActive>>
          /\ session'.id = session.id
          /\ session'.status = "Stopped"
      BY <1>3 DEF AcceptStop, Accepting, Accepts, Consume, IsManualStopBarrier, IsStop,
                  StopRunningSession, StoppedSession, Strengthening, TypeOK, SessionType
    <2>2. FreshStarts'
      BY <1>1, <2>1, TailIsFresh
    <2> QED
      BY <1>1, <2>1, <2>2 DEF ViewInv, IsRunning
  <1>4. CASE AcceptSetChamberTarget
    <2>1. /\ UNCHANGED <<activeFault, firmwareUpdateActive>>
          /\ session'.id = session.id
          /\ session'.status = session.status
      BY <1>4 DEF AcceptSetChamberTarget, Strengthening, TypeOK, SessionType
    <2>2. FreshStarts'
      BY <1>1, <2>1, TailIsFresh
    <2> QED
      BY <1>1, <2>1, <2>2 DEF ViewInv, IsRunning
  <1>5. CASE AcceptClearResolvedFault
    <2>1. /\ activeFault # None /\ activeFault # "ConfigurationInvalid"
          /\ UNCHANGED firmwareUpdateActive
          /\ session'.id = session.id
          /\ session'.status = IF session.status = "Fault" THEN "Stopped" ELSE session.status
      BY <1>5 DEF AcceptClearResolvedFault, Accepting, Accepts, ClearIsAccepted,
                  FaultConditionIsResolved, Strengthening, TypeOK, SessionType
    <2>2. FreshStarts'
      BY <1>1, <2>1, TailIsFresh
    <2>3. ~IsRunning /\ published.status # "Running"
      BY <1>1, <2>1 DEF ViewInv, Strengthening, InterlocksExcludeRunning
    <2> QED
      BY <1>1, <2>1, <2>2, <2>3 DEF ViewInv, IsRunning
  <1>6. CASE AcceptFirmwareInterlock
    <2>1. UNCHANGED <<session, activeFault>>
      BY <1>6 DEF AcceptFirmwareInterlock
    <2>2. FreshStarts'
      BY <1>1, <2>1, TailIsFresh
    <2>3. CASE published.status = "Running"
      <3>1. IsRunning /\ ~firmwareUpdateActive /\ activeFault = None
        BY <1>1, <2>3 DEF ViewInv, Strengthening, InterlocksExcludeRunning
      <3> QED
        BY <1>6, <3>1 DEF AcceptFirmwareInterlock, Accepting, Accepts, PrepareIsAccepted,
                          CurrentSessionStatus, IsRunning
    <2>4. CASE published.status # "Running"
      BY <1>1, <2>1, <2>2, <2>4 DEF ViewInv, IsRunning
    <2> QED
      BY <2>3, <2>4
  <1>7. CASE \/ RejectCommand \/ AcceptSetProbeTarget \/ AcceptSetProbeEnabled
             \/ AcceptSetProbeAlarmEnabled \/ AcceptAcknowledgeAlarm
    <2>1. UNCHANGED <<session, activeFault, firmwareUpdateActive>>
      BY <1>7 DEF RejectCommand, AcceptSetProbeTarget, AcceptSetProbeEnabled,
           AcceptSetProbeAlarmEnabled, AcceptAcknowledgeAlarm, lifecycleVars
    <2>2. FreshStarts'
      BY <1>1, <2>1, TailIsFresh
    <2> QED
      BY <1>1, <2>1, <2>2 DEF ViewInv, IsRunning
  <1> QED
    BY <1>2, <1>3, <1>4, <1>5, <1>6, <1>7 DEF ProcessCommand

\* A phase after the commands may end the session or latch a fault, nothing else.
LEMMA LaterPhaseView ==
    ASSUME Strengthening, ViewInv,
           phase \notin {"idle", "commands"}, phase' \notin {"idle", "commands"},
           UNCHANGED <<queue, published, firmwareUpdateActive>>,
           session'.id = session.id,
           session'.status \in {session.status, "Stopped", "Fault"},
           session'.status = "Fault" => activeFault' # None,
           activeFault # None => activeFault' = activeFault
    PROVE  ViewInv'
  <1>1. FreshStarts'
    BY DEF ViewInv, FreshStarts, StartAt
  <1>2. activeFault = "ConfigurationInvalid" => activeFault' = "ConfigurationInvalid"
    BY ConfigurationAssumption DEF FaultCodes
  <1> QED
    BY <1>1, <1>2 DEF ViewInv, IsRunning

\* Every step of the program keeps the relation to the last snapshot.
LEMMA ViewStep ==
    ASSUME Strengthening, ViewInv, [Next]_vars
    PROVE  ViewInv'
  <1> USE DEF lifecycleVars, outputVars
  <1>1. CASE BeginTick
    <2>1. /\ phase = "idle" /\ phase' = "commands"
          /\ UNCHANGED <<queue, activeFault, firmwareUpdateActive, published>>
          /\ session'.id = session.id /\ session'.status = session.status
      BY <1>1 DEF BeginTick, Strengthening, TypeOK, SessionType, commandVars
    <2> QED
      BY <2>1 DEF ViewInv, FreshStarts, StartAt, IsRunning, CurrentSessionStatus
  <1>2. CASE CommandsDone \/ EvaluateProbeStates \/ RetryControllerReset \/ RequestDemand
             \/ RequestFails \/ QuiesceIneligible \/ QuiesceAfterSafety
    BY <1>2, QuietStep DEF CommandsDone, EvaluateProbeStates, RetryControllerReset,
       RequestDemand, RequestFails, QuiesceIneligible, QuiesceAfterSafety, commandVars
  <1>3. CASE UpdateActiveTimer
    <2>1. /\ phase = "timer" /\ phase' = "reset"
          /\ UNCHANGED <<queue, activeFault, firmwareUpdateActive, published>>
      BY <1>3 DEF UpdateActiveTimer, commandVars
    <2>2. /\ session'.id = session.id
          /\ session'.status \in {session.status, "Stopped"}
      BY <1>3 DEF UpdateActiveTimer, ApplyTimer, StopRunningSession, StoppedSession,
                  Strengthening, TypeOK, SessionType
    <2> QED
      BY <2>1, <2>2, LaterPhaseView DEF ViewInv
  <1>4. CASE EvaluateSafety
    <2>1. /\ phase = "safety" /\ phase' = "quiesce"
          /\ UNCHANGED <<queue, firmwareUpdateActive, published>>
      BY <1>4 DEF EvaluateSafety, commandVars
    <2>2. /\ session'.id = session.id
          /\ session'.status \in {session.status, "Fault"}
          /\ activeFault # None => activeFault' = activeFault
          /\ session'.status = "Fault" => activeFault' # None
      BY <1>4 DEF EvaluateSafety, RaiseFault, Strengthening, TypeOK, SessionType, ViewInv
    <2> QED
      BY <2>1, <2>2, LaterPhaseView
  <1>5. CASE LatchControllerFailure
    <2>1. /\ phase = "latch" /\ phase' = "output"
          /\ UNCHANGED <<queue, firmwareUpdateActive, published>>
      BY <1>5 DEF LatchControllerFailure, commandVars
    <2>2. /\ session'.id = session.id
          /\ session'.status \in {session.status, "Fault"}
          /\ activeFault # None => activeFault' = activeFault
          /\ session'.status = "Fault" => activeFault' # None
      BY <1>5, ConfigurationAssumption
         DEF LatchControllerFailure, RaiseFault, Strengthening, TypeOK, SessionType, ViewInv,
             FaultCodes
    <2> QED
      BY <2>1, <2>2, LaterPhaseView
  <1>6. CASE WriteHeater
    <2>1. /\ UNCHANGED <<queue, session, activeFault, firmwareUpdateActive>>
          /\ published'.session = session.id
          /\ published'.status = CurrentSessionStatus
          /\ published'.fault = activeFault
      BY <1>6 DEF WriteHeater, SnapshotView, commandVars
    <2>2. published'.status = "Running" => IsRunning /\ ~firmwareUpdateActive
      BY <2>1 DEF CurrentSessionStatus, IsRunning, Strengthening, InterlocksExcludeRunning
    <2>3. IsRunning => published'.status = "Running"
      BY <2>1 DEF CurrentSessionStatus, IsRunning, Strengthening, InterlocksExcludeRunning
    <2>4. FreshStarts'
      BY <2>1 DEF ViewInv, FreshStarts, StartAt
    <2> QED
      BY <2>1, <2>2, <2>3, <2>4 DEF ViewInv, IsRunning, CurrentSessionStatus
  <1>7. CASE \E command \in Commands, id \in CorrelationIds \cup {0} : Submit(command, id)
    BY <1>7, SubmitView
  <1>8. CASE UNCHANGED vars
    BY <1>8, QuietStep DEF vars, commandVars
  <1> QED
    BY <1>1, <1>2, <1>3, <1>4, <1>5, <1>6, <1>7, <1>8, ProcessCommandView DEF Next, Tick

----------------------------------------------------------------------------
(* The refinement.                                                          *)

\* One snapshot is coherent as soon as it is written.
LEMMA CoherentSnapshot ==
    ASSUME Strengthening, ViewInv, HeaterInterlock', WriteHeater
    PROVE  Lifecycle!Coherent(published')
  <1>1. /\ UNCHANGED <<session, activeFault, firmwareUpdateActive, chamberTemperature>>
        /\ phase' = "idle"
        /\ published' = SnapshotView(heaterDemand')
    BY DEF WriteHeater, lifecycleVars, inputVars
  <1>2. /\ published'.status = CurrentSessionStatus /\ published'.fault = activeFault
        /\ published'.firmware = firmwareUpdateActive /\ published'.heater = heaterDemand'
        /\ published'.target = session.target /\ published'.chamber = chamberTemperature
    BY <1>1 DEF SnapshotView
  <1>3. published'.status = "Fault" <=> published'.fault # None
    BY <1>2 DEF CurrentSessionStatus, ViewInv
  <1>4. published'.firmware => published'.status # "Running"
    BY <1>2 DEF CurrentSessionStatus, Strengthening, InterlocksExcludeRunning, IsRunning
  <1>5. published'.heater > 0 =>
          /\ published'.status = "Running"
          /\ published'.target # None
          /\ published'.chamber # None
          /\ published'.chamber <= MaximumChamberTemperature
    BY <1>1, <1>2 DEF HeaterInterlock, CurrentSessionStatus
  <1> QED
    BY <1>3, <1>4, <1>5 DEF Lifecycle!Coherent

\* Every step that writes a snapshot is a step of the abstract life cycle, and
\* every other step leaves the view alone.
LEMMA LifecycleStep ==
    ASSUME Strengthening, ViewInv, HeaterInterlock', [Next]_vars
    PROVE  [Lifecycle!Next]_published
  <1>1. CASE WriteHeater
    <2>1. Lifecycle!Coherent(published')
      BY <1>1, CoherentSnapshot
    <2>2. /\ published'.status = CurrentSessionStatus /\ published'.fault = activeFault
          /\ published'.firmware = firmwareUpdateActive /\ published'.session = session.id
      BY <1>1 DEF WriteHeater, SnapshotView, lifecycleVars
    <2>3. Lifecycle!EndIsSeen(published, published')
      BY <2>2 DEF Lifecycle!EndIsSeen, ViewInv
    <2>4. Lifecycle!EndIsFinal(published, published')
      BY <2>2 DEF Lifecycle!EndIsFinal, ViewInv, CurrentSessionStatus, IsRunning
    <2>5. Lifecycle!Remembers(published, published')
      BY <2>2, ConfigurationAssumption DEF Lifecycle!Remembers, ViewInv, CurrentSessionStatus
    <2> QED
      BY <2>1, <2>3, <2>4, <2>5 DEF Lifecycle!Next
  <1>2. CASE ~WriteHeater
    <2>1. UNCHANGED published
      <3>1. CASE ProcessCommand
        BY <3>1 DEF ProcessCommand, RejectCommand, AcceptStart, AcceptStop,
           AcceptSetChamberTarget, AcceptSetProbeTarget, AcceptSetProbeEnabled,
           AcceptSetProbeAlarmEnabled, AcceptAcknowledgeAlarm, AcceptClearResolvedFault,
           AcceptFirmwareInterlock, Accepting, Consume, outputVars
      <3>2. CASE \/ BeginTick \/ CommandsDone \/ EvaluateProbeStates \/ UpdateActiveTimer
                 \/ RetryControllerReset \/ RequestDemand \/ RequestFails
                 \/ QuiesceIneligible \/ EvaluateSafety \/ QuiesceAfterSafety
                 \/ LatchControllerFailure
        BY <3>2 DEF BeginTick, CommandsDone, EvaluateProbeStates, UpdateActiveTimer,
           RetryControllerReset, RequestDemand, RequestFails, QuiesceIneligible,
           EvaluateSafety, QuiesceAfterSafety, LatchControllerFailure, outputVars
      <3>3. CASE \E command \in Commands, id \in CorrelationIds \cup {0} : Submit(command, id)
        BY <3>3 DEF Submit, outputVars
      <3>4. CASE UNCHANGED vars
        BY <3>4 DEF vars, outputVars
      <3> QED
        BY <1>2, <3>1, <3>2, <3>3, <3>4 DEF Next, Tick
    <2> QED
      BY <2>1
  <1> QED
    BY <1>1, <1>2

\* The snapshots of successive ticks obey the abstract session life cycle.
THEOREM Refinement == Spec => ImplementsLifecycle
  <1>1. Init => Lifecycle!Init
    BY DEF Init, Lifecycle!Init, Lifecycle!Coherent, SnapshotView, CurrentSessionStatus,
           NoSession
  <1>2. Spec => []ViewInv
    <2>1. TypeOK /\ InterlocksExcludeRunning /\ ViewInv /\ [Next]_vars => ViewInv'
      BY ViewStep DEF Strengthening
    <2> QED
      BY <2>1, InitView, TypeCorrect, InterlocksSafe, PTL DEF Spec
  <1>3. TypeOK /\ InterlocksExcludeRunning /\ ViewInv /\ HeaterInterlock' /\ [Next]_vars
          => [Lifecycle!Next]_published
    BY LifecycleStep DEF Strengthening
  <1> QED
    BY <1>1, <1>2, <1>3, TypeCorrect, InterlocksSafe, HeaterSafe, PTL
       DEF Spec, ImplementsLifecycle, Lifecycle!Spec

----------------------------------------------------------------------------
(* The loop is one of the callers SmokerApplication allows.                 *)

MailboxMessages == [command : ExternalCommands, generation : Nat]

LoopTypeOK ==
    /\ mailboxes \in [Transports -> Seq(MailboxMessages)]
    /\ blynkFirst \in BOOLEAN
    /\ blynkGeneration \in Nat
    /\ prepareCorrelation \in {0, InternalOtaCorrelationId}

\* The transport whose turn it is.
LEMMA SourceIsTransport == Source \in Transports
  BY DEF Source, Transports

\* The message a drain takes is one the transport pushed.
LEMMA DrainedMessage ==
    ASSUME LoopTypeOK, mailboxes[Source] # <<>>
    PROVE  /\ Head(mailboxes[Source]) \in MailboxMessages
           /\ Tail(mailboxes[Source]) \in Seq(MailboxMessages)
  <1>1. mailboxes[Source] \in Seq(MailboxMessages)
    BY SourceIsTransport DEF LoopTypeOK
  <1> QED
    BY <1>1

\* Mailboxes hold external commands with generations; the turn is a Boolean.
LEMMA LoopTypeStep == LoopTypeOK /\ [LoopNext]_allVars => LoopTypeOK'
  <1> SUFFICES ASSUME LoopTypeOK, [LoopNext]_allVars PROVE LoopTypeOK'
    OBVIOUS
  <1>1. ASSUME NEW t \in Transports, NEW command \in ExternalCommands, Push(t, command)
        PROVE  LoopTypeOK'
    <2> DEFINE message == [command |-> command, generation |-> Generation(t)]
    <2>1. message \in MailboxMessages
      BY DEF MailboxMessages, Generation, LoopTypeOK
    <2>2. mailboxes[t] \in Seq(MailboxMessages)
      BY DEF LoopTypeOK
    <2>3. mailboxes' = [mailboxes EXCEPT ![t] = Append(mailboxes[t], message)]
      BY <1>1 DEF Push
    <2> HIDE DEF message
    <2>4. Append(mailboxes[t], message) \in Seq(MailboxMessages)
      BY <2>1, <2>2
    <2> QED
      BY <1>1, <2>3, <2>4 DEF Push, LoopTypeOK, signalVars, blynkVars
  <1>2. CASE Connect \/ Disconnect \/ RequestPrepare \/ RequestFinish
    BY <1>2 DEF Connect, Disconnect, RequestPrepare, RequestFinish, LoopTypeOK, signalVars,
                blynkVars
  <1>3. CASE ConsumePrepare \/ ConsumeFinish \/ MailboxesAreEmpty \/ TickApplication
    BY <1>3 DEF ConsumePrepare, ConsumeFinish, MailboxesAreEmpty, TickApplication,
                LoopTypeOK, signalVars, blynkVars
  <1>4. CASE DrainCommand
    <2>1. /\ mailboxes[Source] # <<>>
          /\ mailboxes' = [mailboxes EXCEPT ![Source] = Tail(mailboxes[Source])]
      BY <1>4 DEF DrainCommand
    <2>2. mailboxes' \in [Transports -> Seq(MailboxMessages)]
      BY <2>1, DrainedMessage, SourceIsTransport DEF LoopTypeOK
    <2> QED
      BY <1>4, <2>2 DEF DrainCommand, LoopTypeOK, signalVars, blynkVars
  <1>5. CASE UNCHANGED allVars
    BY <1>5 DEF allVars, loopVars, LoopTypeOK, signalVars, blynkVars
  <1> QED
    BY <1>1, <1>2, <1>3, <1>4, <1>5 DEF LoopNext, ControlTask, OtherTasks

\* The types of the loop, in every state of its specification.
LEMMA LoopTypeCorrect == LoopSpec => []LoopTypeOK
  <1>1. LoopInit => LoopTypeOK
    <2> SUFFICES ASSUME LoopInit PROVE LoopTypeOK
      OBVIOUS
    <2>1. /\ mailboxes \in [Transports -> Seq(MailboxMessages)]
          /\ blynkGeneration \in Nat /\ prepareCorrelation = 0
      BY DEF LoopInit
    <2>2. blynkFirst \in BOOLEAN
      BY DEF LoopInit
    <2> QED
      BY <2>1, <2>2 DEF LoopTypeOK
  <1> QED
    BY <1>1, LoopTypeStep, PTL DEF LoopSpec

\* Every step of ControlTask and of the other tasks is a submission, a step of a tick, or
\* leaves the application alone.
LEMMA LoopStepIsApplicationStep == LoopTypeOK /\ [LoopNext]_allVars => [Next]_vars
  <1> SUFFICES ASSUME LoopTypeOK, [LoopNext]_allVars PROVE [Next]_vars
    OBVIOUS
  <1>1. CASE ConsumePrepare
    <2>1. Prepare \in Commands /\ prepareCorrelation \in CorrelationIds \cup {0}
      BY IntentAssumption, LoopAssumption DEF LoopTypeOK
    <2> QED
      BY <1>1, <2>1 DEF ConsumePrepare, Next
  <1>2. CASE ConsumeFinish
    <2>1. Finish \in Commands
      BY IntentAssumption
    <2> QED
      BY <1>2, <2>1 DEF ConsumeFinish, Next
  <1>3. CASE DrainCommand
    <2>1. Head(mailboxes[Source]).command \in Commands
      BY <1>3, DrainedMessage DEF DrainCommand, MailboxMessages, ExternalCommands
    <2> QED
      BY <1>3, <2>1 DEF DrainCommand, Next
  <1>4. CASE TickApplication
    BY <1>4 DEF TickApplication, Next
  <1>5. CASE MailboxesAreEmpty \/ OtherTasks
    BY <1>5 DEF MailboxesAreEmpty, OtherTasks, Push, Connect, Disconnect, RequestPrepare,
                RequestFinish
  <1>6. CASE UNCHANGED allVars
    BY <1>6 DEF allVars
  <1> QED
    BY <1>1, <1>2, <1>3, <1>4, <1>5, <1>6 DEF LoopNext, ControlTask

\* ControlTask's loop, between the transports, OtaTask and Blynk's connections, is a
\* behaviour of the application's specification: what is proved of the application for
\* every caller holds in the loop.
THEOREM LoopImplementsApplication == LoopSpec => Spec
  <1>1. LoopInit => Init
    BY DEF LoopInit
  <1> QED
    BY <1>1, LoopTypeCorrect, LoopStepIsApplicationStep, PTL DEF LoopSpec, Spec

----------------------------------------------------------------------------
(* A cycle never fills the queue.                                           *)

NoStopIsQueued == \A i \in DOMAIN queue : ~IsStop(queue[i].command)

\* A Stop ends the drain, so that nothing is queued behind it.
StopIsLast == \A i \in DOMAIN queue : IsStop(queue[i].command) => i = Len(queue)

CycleInv ==
    /\ cycleStep \in {"prepare", "finish", "drain", "tick"}
    /\ drained \in Nat
    /\ cycleStep # "drain" => drained = 0
    /\ cycleStep # "tick" => phase = "idle"
    /\ cycleStep = "prepare" => queue = <<>>
    /\ cycleStep = "finish" => Len(queue) <= 1 /\ NoStopIsQueued
    /\ cycleStep = "drain" => /\ Len(queue) <= 2 + drained
                              /\ drained < ExternalBudget
                              /\ NoStopIsQueued
    /\ cycleStep = "tick" => /\ StopIsLast
                             /\ phase \notin {"idle", "commands"} => queue = <<>>

\* The budget, its two places and the reserved one fit into the queue.
LEMMA CycleBounds ==
    /\ CommandCapacity \in Nat /\ ExternalBudget \in Nat \ {0}
    /\ ExternalBudget + 2 = CommandCapacity - 1
    /\ \A command : AdmissionLimit(command) >= CommandCapacity - 1
  BY BoundAssumption, LoopAssumption DEF AdmissionLimit

\* A command submitted while no Stop is queued and there is room joins the queue's end.
LEMMA SubmissionAppends ==
    ASSUME TypeOK, NEW command, NEW id, Submit(command, id),
           NoStopIsQueued, Len(queue) < CommandCapacity - 1
    PROVE  /\ Len(queue') = Len(queue) + 1
           /\ UNCHANGED phase
           /\ ~IsStop(command) => NoStopIsQueued'
           /\ StopIsLast'
  <1>1. queue \in Seq(QueueEntries) /\ Len(queue) \in Nat /\ DOMAIN queue = 1 .. Len(queue)
    BY DEF TypeOK
  <1>2. ~TrailingStopIsPending
    <2>1. queue # <<>> => Len(queue) \in DOMAIN queue
      BY <1>1
    <2> QED
      BY <2>1 DEF TrailingStopIsPending, NoStopIsQueued, Last
  <1>3. Len(queue) < AdmissionLimit(command)
    BY <1>1, CycleBounds DEF AdmissionLimit
  <1>4. ~(Len(queue) >= AdmissionLimit(command))
    BY <1>1, <1>3, CycleBounds DEF AdmissionLimit
  <1> DEFINE entry == [command |-> command, id |-> id, coalesced |-> <<>>]
  <1>5. queue' = Append(queue, entry) /\ UNCHANGED phase
    BY <1>2, <1>4 DEF Submit, CoalesceStop, AdmitCommand, RejectFullQueue
  <1>6. entry.command = command
    OBVIOUS
  <1> HIDE DEF entry
  <1>7. /\ Len(queue') = Len(queue) + 1
        /\ DOMAIN queue' = 1 .. Len(queue) + 1
        /\ queue'[Len(queue) + 1] = entry
        /\ \A i \in 1 .. Len(queue) : queue'[i] = queue[i]
    BY <1>1, <1>5
  <1>8. \A i \in DOMAIN queue' : i \in DOMAIN queue \/ i = Len(queue')
    BY <1>1, <1>7
  <1> QED
    BY <1>1, <1>5, <1>6, <1>7, <1>8 DEF NoStopIsQueued, StopIsLast

\* A tick takes commands from the queue and puts none into it.
LEMMA CycleTick == TypeOK /\ CycleInv /\ TickApplication => CycleInv'
  <1> SUFFICES ASSUME TypeOK, CycleInv, TickApplication PROVE CycleInv'
    OBVIOUS
  <1>0. /\ cycleStep = "tick" /\ drained' = drained /\ drained = 0
        /\ cycleStep' = IF phase' = "idle" THEN "prepare" ELSE "tick"
        /\ StopIsLast
        /\ phase \notin {"idle", "commands"} => queue = <<>>
        /\ queue \in Seq(QueueEntries)
    BY DEF TickApplication, CycleInv, TypeOK
  <1>1. CASE BeginTick
    BY <1>0, <1>1 DEF BeginTick, CycleInv, commandVars, StopIsLast
  <1>2. CASE ProcessCommand
    <2>1. /\ queue # <<>> /\ queue' = Tail(queue)
          /\ phase' = IF IsManualStopBarrier(Head(queue).command) THEN "probes"
                      ELSE "commands"
      <3>1. CASE RejectCommand
        BY <3>1 DEF RejectCommand, Consume
      <3>2. ASSUME NEW types, Accepting(types)
            PROVE  /\ queue # <<>> /\ queue' = Tail(queue)
                   /\ phase' = IF IsManualStopBarrier(Head(queue).command) THEN "probes"
                               ELSE "commands"
        BY <3>2 DEF Accepting, Consume
      <3> QED
        BY <1>2, <3>1, <3>2 DEF ProcessCommand, AcceptStart, AcceptStop,
           AcceptSetChamberTarget, AcceptSetProbeTarget, AcceptSetProbeEnabled,
           AcceptSetProbeAlarmEnabled, AcceptAcknowledgeAlarm, AcceptClearResolvedFault,
           AcceptFirmwareInterlock
    <2>2. /\ Len(queue) \in Nat \ {0} /\ DOMAIN queue = 1 .. Len(queue)
          /\ Head(queue) = queue[1]
          /\ Len(queue') = Len(queue) - 1 /\ DOMAIN queue' = 1 .. Len(queue) - 1
          /\ \A i \in DOMAIN queue' : queue'[i] = queue[i + 1]
      BY <1>0, <2>1
    <2>3. StopIsLast'
      <3> SUFFICES ASSUME NEW i \in DOMAIN queue', IsStop(queue'[i].command)
                   PROVE  i = Len(queue')
        BY DEF StopIsLast
      <3>1. i + 1 \in DOMAIN queue /\ IsStop(queue[i + 1].command)
        BY <2>2
      <3>2. i + 1 = Len(queue)
        BY <1>0, <3>1 DEF StopIsLast
      <3> QED
        BY <2>2, <3>2
    <2>4. phase' = "probes" => queue' = <<>>
      <3> SUFFICES ASSUME phase' = "probes" PROVE queue' = <<>>
        OBVIOUS
      <3>1. IsStop(queue[1].command) /\ 1 \in DOMAIN queue
        BY <2>1, <2>2 DEF IsManualStopBarrier
      <3>2. Len(queue) = 1
        BY <1>0, <3>1 DEF StopIsLast
      <3> QED
        BY <1>0, <2>1, <3>2
    <2>5. phase' \in {"probes", "commands"}
      BY <2>1
    <2> QED
      BY <1>0, <2>3, <2>4, <2>5 DEF CycleInv
  <1>3. CASE Tick /\ ~BeginTick /\ ~ProcessCommand
    <2>1. UNCHANGED queue /\ queue = <<>> /\ phase' # "commands"
      BY <1>0, <1>3 DEF Tick, CommandsDone, EvaluateProbeStates, UpdateActiveTimer,
         RetryControllerReset, RequestDemand, RequestFails, QuiesceIneligible,
         EvaluateSafety, QuiesceAfterSafety, LatchControllerFailure, WriteHeater, commandVars
    <2> QED
      BY <1>0, <2>1 DEF CycleInv, StopIsLast
  <1> QED
    BY <1>1, <1>2, <1>3 DEF TickApplication

\* Every step keeps room for what the cycle may still submit.
LEMMA CycleStep ==
    TypeOK /\ LoopTypeOK /\ CycleInv /\ [LoopNext]_allVars => CycleInv'
  <1> SUFFICES ASSUME TypeOK, LoopTypeOK, CycleInv, [LoopNext]_allVars PROVE CycleInv'
    OBVIOUS
  <1>0. queue \in Seq(QueueEntries) /\ Len(queue) \in Nat
    BY DEF TypeOK
  <1>1. ASSUME UNCHANGED <<vars, cycleStep, drained>> PROVE CycleInv'
    BY <1>1 DEF vars, commandVars, CycleInv, NoStopIsQueued, StopIsLast
  <1>2. CASE ConsumePrepare
    <2>1. cycleStep = "prepare" /\ queue = <<>> /\ phase = "idle" /\ drained' = drained
          /\ drained = 0 /\ Len(queue) = 0 /\ NoStopIsQueued
      BY <1>2 DEF ConsumePrepare, CycleInv, NoStopIsQueued
    <2>2. CASE prepareCorrelation = 0
      BY <1>2, <2>1, <2>2 DEF ConsumePrepare, CycleInv, vars, commandVars, NoStopIsQueued
    <2>3. CASE prepareCorrelation # 0
      <3>1. Submit(Prepare, prepareCorrelation) /\ ~IsStop(Prepare)
        BY <1>2, <2>3 DEF ConsumePrepare, IsStop, Prepare
      <3>2. Admits(Prepare) /\ Len(queue) < CommandCapacity - 1
        BY <2>1, CycleBounds DEF Admits, AdmissionLimit
      <3>3. Len(queue') = 1 /\ NoStopIsQueued' /\ UNCHANGED phase
        BY <2>1, <3>1, <3>2, SubmissionAppends
      <3>4. cycleStep' = "finish"
        BY <1>2, <2>3, <3>2 DEF ConsumePrepare
      <3> QED
        BY <2>1, <3>3, <3>4 DEF CycleInv
    <2> QED
      BY <2>2, <2>3
  <1>3. CASE ConsumeFinish
    <2>1. cycleStep = "finish" /\ Len(queue) <= 1 /\ NoStopIsQueued /\ phase = "idle"
          /\ drained' = drained /\ drained = 0 /\ cycleStep' = "drain"
          /\ drained < ExternalBudget
      BY <1>3, CycleBounds DEF ConsumeFinish, CycleInv
    <2>2. CASE finishRequested
      <3>1. Submit(Finish, 0) /\ ~IsStop(Finish)
        BY <1>3, <2>2 DEF ConsumeFinish, IsStop, Finish
      <3>2. Len(queue) < CommandCapacity - 1
        BY <1>0, <2>1, CycleBounds
      <3>3. Len(queue') = Len(queue) + 1 /\ NoStopIsQueued' /\ UNCHANGED phase
        BY <2>1, <3>1, <3>2, SubmissionAppends
      <3>4. Len(queue') <= 2
        BY <1>0, <2>1, <3>3
      <3> QED
        BY <2>1, <3>3, <3>4 DEF CycleInv
    <2>3. CASE ~finishRequested
      <3>1. UNCHANGED <<queue, phase>>
        BY <1>3, <2>3 DEF ConsumeFinish, vars, commandVars
      <3>2. Len(queue) <= 2
        BY <1>0, <2>1
      <3> QED
        BY <2>1, <3>1, <3>2 DEF CycleInv, NoStopIsQueued
    <2> QED
      BY <2>2, <2>3
  <1>4. CASE DrainCommand
    <2> DEFINE message == Head(mailboxes[Source])
    <2>1. /\ cycleStep = "drain" /\ phase = "idle" /\ NoStopIsQueued
          /\ Len(queue) <= 2 + drained /\ drained < ExternalBudget /\ drained \in Nat
          /\ IF IsStale(message) THEN UNCHANGED vars ELSE Submit(message.command, 0)
          /\ cycleStep' = IF EndsDrain(message) THEN "tick" ELSE "drain"
          /\ drained' = IF EndsDrain(message) THEN 0 ELSE drained + 1
      BY <1>4 DEF DrainCommand, CycleInv
    <2> HIDE DEF message
    <2>2. Len(queue) < CommandCapacity - 1
      BY <1>0, <2>1, CycleBounds
    <2>3. /\ Len(queue') <= Len(queue) + 1 /\ Len(queue') \in Nat
          /\ UNCHANGED phase
          /\ StopIsLast'
          /\ ~EndsDrain(message) => NoStopIsQueued'
      <3>1. CASE IsStale(message)
        <4>1. UNCHANGED <<queue, phase>>
          BY <2>1, <3>1 DEF vars, commandVars
        <4> QED
          BY <1>0, <2>1, <4>1 DEF NoStopIsQueued, StopIsLast
      <3>2. CASE ~IsStale(message)
        <4>1. Submit(message.command, 0)
          BY <2>1, <3>2
        <4>2. ~EndsDrain(message) => ~IsStop(message.command)
          BY <3>2 DEF EndsDrain
        <4> QED
          BY <1>0, <2>1, <2>2, <4>1, <4>2, SubmissionAppends
      <3> QED
        BY <3>1, <3>2
    <2>4. ~EndsDrain(message) => drained + 1 < ExternalBudget
      BY <2>1, CycleBounds DEF EndsDrain
    <2>5. CASE EndsDrain(message)
      BY <2>1, <2>3, <2>5 DEF CycleInv
    <2>6. CASE ~EndsDrain(message)
      <3>1. Len(queue') <= 2 + (drained + 1) /\ drained + 1 \in Nat
        BY <1>0, <2>1, <2>3
      <3> QED
        BY <2>1, <2>3, <2>4, <2>6, <3>1 DEF CycleInv
    <2> QED
      BY <2>5, <2>6
  <1>5. CASE MailboxesAreEmpty
    <2>1. UNCHANGED <<queue, phase>> /\ cycleStep = "drain" /\ phase = "idle"
          /\ cycleStep' = "tick" /\ drained' = 0 /\ NoStopIsQueued
      BY <1>5 DEF MailboxesAreEmpty, CycleInv, vars, commandVars
    <2> QED
      BY <2>1 DEF CycleInv, NoStopIsQueued, StopIsLast
  <1>6. CASE OtherTasks
    BY <1>1, <1>6 DEF OtherTasks, Push, Connect, Disconnect, RequestPrepare, RequestFinish
  <1>7. CASE UNCHANGED allVars
    BY <1>1, <1>7 DEF allVars, loopVars
  <1> QED
    BY <1>2, <1>3, <1>4, <1>5, <1>6, <1>7, CycleTick DEF LoopNext, ControlTask

\* "Each cycle drains at most thirteen external commands so both internal OTA intents can
\* still be admitted": for every budget that leaves the queue those two places and its
\* reserved one, no command that reaches the application is refused for lack of room.
THEOREM NeverRefused == LoopSpec => []NothingIsRefused
  <1>1. LoopInit => CycleInv
    BY DEF LoopInit, Init, CycleInv
  <1>2. ASSUME TypeOK, CycleInv PROVE NothingIsRefused
    <2>1. queue \in Seq(QueueEntries) /\ Len(queue) \in Nat
      BY <1>2 DEF TypeOK
    <2>2. cycleStep \in {"prepare", "finish", "drain"} => Len(queue) < CommandCapacity - 1
      BY <1>2, <2>1, CycleBounds DEF CycleInv
    <2>3. cycleStep \in {"prepare", "finish", "drain"} =>
             \A command \in Commands : Admits(command)
      BY <2>1, <2>2, CycleBounds DEF Admits, AdmissionLimit
    <2> QED
      BY <1>2, <2>3 DEF NothingIsRefused, CycleInv
  <1>3. LoopSpec => []TypeOK
    BY LoopImplementsApplication, TypeCorrect, PTL
  <1> QED
    BY <1>1, <1>2, <1>3, LoopTypeCorrect, CycleStep, PTL DEF LoopSpec

----------------------------------------------------------------------------
(* A Stop from the HTTP mailbox turns the heater off.                        *)

StopsIn(messages) == {i \in DOMAIN messages : IsStop(messages[i].command)}

\* A Stop waits in the HTTP mailbox while the heater is on, or it is pending in the
\* application.
StopOnItsWay == heaterDemand > 0 /\ (StopPending \/ StopsIn(mailboxes["http"]) # {})

\* How many commands the drain takes up to the first Stop at most: two for each of the HTTP
\* mailbox, since the transports take turns.
TakesToStop(messages, afterBlynk) ==
    2 * Min(StopsIn(messages)) + IF afterBlynk THEN 1 ELSE 0

\* How many statements of the loop there are before the drain takes its first command.
StepsToDrain ==
    CASE cycleStep = "drain"   -> 0
      [] cycleStep = "finish"  -> 1
      [] cycleStep = "prepare" -> 2
      [] cycleStep = "tick"    -> 2 + StepsToOff

\* How many statements of the loop there are before the heater is OFF at most, if each cycle
\* takes no more than one command.
LoopStepsToOff ==
    IF StopPending THEN StepsToOff
    ELSE TakesToStop(mailboxes["http"], blynkFirst) * (CommandCapacity + 13) + StepsToDrain

\* A Stop on its way is not lost, and every statement of the loop brings the OFF nearer.
MailboxStopIsObeyed ==
    /\ [](StopOnItsWay => LoopStepsToOff \in Nat)
    /\ [][StopOnItsWay =>
             \/ heaterDemand' = 0
             \/ StopOnItsWay' /\ IF ControlTask THEN LoopStepsToOff' < LoopStepsToOff
                                 ELSE LoopStepsToOff' = LoopStepsToOff]_allVars

\* What the application has to do in the rest of a tick.
LEMMA StepsAreFew ==
    ASSUME TypeOK, StopIsNeverShutOut
    PROVE  StepsToOff \in 1 .. CommandCapacity + 10
  <1>1. CommandCapacity \in Nat /\ Len(queue) \in Nat /\ Len(queue) <= CommandCapacity
    BY BoundAssumption DEF TypeOK, StopIsNeverShutOut
  <1>2. StepsToOff \in {CommandCapacity + 10, Len(queue) + 9, 8, 7, 6, 5, 4, 3, 2, 1}
    BY DEF TypeOK, StepsToOff
  <1> QED
    BY <1>1, <1>2

\* The first Stop of a mailbox that has one.
LEMMA FirstStopIs ==
    ASSUME NEW messages \in Seq(MailboxMessages), StopsIn(messages) # {}
    PROVE  /\ Min(StopsIn(messages)) \in StopsIn(messages)
           /\ Min(StopsIn(messages)) \in 1 .. Len(messages)
           /\ \A j \in StopsIn(messages) : Min(StopsIn(messages)) <= j
  <1> DEFINE S == StopsIn(messages)
             R == OpToRel(<, Nat)
  <1>1. S \in SUBSET Nat /\ S \subseteq 1 .. Len(messages)
    BY DEF StopsIn
  <1>2. \A x, y \in Nat : x < y => <<x, y>> \in R
    BY DEF OpToRel
  <1>3. IsWellFoundedOn(R, Nat)
    BY NatLessThanWellFounded
  <1>0. S # {}
    OBVIOUS
  <1> HIDE DEF R, S
  <1>4. PICK x \in S : \A y \in S : ~(<<y, x>> \in R)
    BY <1>0, <1>1, <1>3, WFMin
  <1>5. ASSUME NEW y \in S PROVE x <= y
    <2>1. x \in Nat /\ y \in Nat /\ ~(<<y, x>> \in R)
      BY <1>1, <1>4
    <2>2. ~(y < x)
      BY <1>2, <2>1
    <2> QED
      BY <2>1, <2>2
  <1>6. Min(S) \in S /\ \A y \in S : Min(S) <= y
    BY <1>5 DEF Min
  <1> QED
    BY <1>1, <1>6 DEF S

\* The least of a set of numbers is the only one.
LEMMA FirstStopIsUnique ==
    ASSUME NEW messages \in Seq(MailboxMessages), NEW i \in StopsIn(messages),
           \A j \in StopsIn(messages) : i <= j
    PROVE  Min(StopsIn(messages)) = i
  <1>1. /\ Min(StopsIn(messages)) \in StopsIn(messages)
        /\ Min(StopsIn(messages)) <= i /\ i <= Min(StopsIn(messages))
    BY FirstStopIs
  <1>2. StopsIn(messages) \subseteq Nat
    BY DEF StopsIn
  <1> QED
    BY <1>1, <1>2

\* What is pushed goes behind the first Stop.
LEMMA PushedBehindStop ==
    ASSUME NEW messages \in Seq(MailboxMessages), NEW message \in MailboxMessages,
           StopsIn(messages) # {}
    PROVE  /\ StopsIn(Append(messages, message)) # {}
           /\ Min(StopsIn(Append(messages, message))) = Min(StopsIn(messages))
  <1> DEFINE first == Min(StopsIn(messages))
             longer == Append(messages, message)
  <1>1. /\ first \in StopsIn(messages) /\ first \in 1 .. Len(messages)
        /\ \A j \in StopsIn(messages) : first <= j
    BY FirstStopIs
  <1>2. /\ longer \in Seq(MailboxMessages) /\ Len(messages) \in Nat
        /\ DOMAIN longer = 1 .. Len(messages) + 1 /\ DOMAIN messages = 1 .. Len(messages)
        /\ \A j \in 1 .. Len(messages) : longer[j] = messages[j]
    OBVIOUS
  <1> HIDE DEF longer, first
  <1>3. first \in StopsIn(longer)
    BY <1>1, <1>2 DEF StopsIn
  <1>4. ASSUME NEW j \in StopsIn(longer) PROVE first <= j
    <2>1. CASE j \in 1 .. Len(messages)
      <3>1. j \in StopsIn(messages)
        BY <1>2, <2>1 DEF StopsIn
      <3> QED
        BY <1>1, <3>1
    <2>2. CASE j = Len(messages) + 1
      BY <1>1, <1>2, <2>2
    <2> QED
      BY <1>2, <2>1, <2>2 DEF StopsIn
  <1>5. Min(StopsIn(longer)) = first
    BY <1>2, <1>3, <1>4, FirstStopIsUnique
  <1> QED
    BY <1>3, <1>5 DEF longer, first

\* When a command before it is taken, the first Stop is one place nearer.
LEMMA StopComesNearer ==
    ASSUME NEW messages \in Seq(MailboxMessages), messages # <<>>,
           StopsIn(messages) # {}, ~IsStop(Head(messages).command)
    PROVE  /\ StopsIn(Tail(messages)) # {}
           /\ Min(StopsIn(Tail(messages))) = Min(StopsIn(messages)) - 1
  <1> DEFINE first == Min(StopsIn(messages))
             shorter == Tail(messages)
  <1>1. /\ first \in StopsIn(messages) /\ first \in 1 .. Len(messages)
        /\ \A j \in StopsIn(messages) : first <= j
    BY FirstStopIs
  <1>2. /\ shorter \in Seq(MailboxMessages) /\ Len(messages) \in Nat /\ Len(messages) > 0
        /\ DOMAIN shorter = 1 .. Len(messages) - 1 /\ DOMAIN messages = 1 .. Len(messages)
        /\ \A j \in 1 .. Len(messages) - 1 : shorter[j] = messages[j + 1]
    OBVIOUS
  <1>3. first # 1
    BY <1>1 DEF StopsIn
  <1> HIDE DEF shorter, first
  <1>4. first - 1 \in StopsIn(shorter)
    <2>1. first - 1 \in 1 .. Len(messages) - 1 /\ (first - 1) + 1 = first
      BY <1>1, <1>2, <1>3
    <2> QED
      BY <1>1, <1>2, <2>1 DEF StopsIn
  <1>5. ASSUME NEW j \in StopsIn(shorter) PROVE first - 1 <= j
    <2>1. j \in 1 .. Len(messages) - 1 /\ j + 1 \in StopsIn(messages)
      BY <1>2 DEF StopsIn
    <2> QED
      BY <1>1, <1>2, <2>1
  <1>6. Min(StopsIn(shorter)) = first - 1
    BY <1>2, <1>4, <1>5, FirstStopIsUnique
  <1> QED
    BY <1>4, <1>6 DEF shorter, first

\* A Stop that is submitted while there is room is queued.
LEMMA SubmittedStopIsQueued ==
    ASSUME TypeOK, NEW command, NEW id, Submit(command, id), IsStop(command),
           Len(queue) < CommandCapacity
    PROVE  \E j \in DOMAIN queue' : IsStop(queue'[j].command)
  <1>0. queue \in Seq(QueueEntries) /\ Len(queue) \in Nat /\ CommandCapacity \in Nat
    BY BoundAssumption DEF TypeOK
  <1>1. CASE CoalesceStop(command, id)
    <2> DEFINE ids == Window(Append(queue[Len(queue)].coalesced, id), CommandResultCapacity)
               entry == [queue[Len(queue)] EXCEPT !.coalesced = ids]
    <2>1. Len(queue) \in 1 .. Len(queue) /\ IsStop(queue[Len(queue)].command)
      BY <1>0, <1>1 DEF CoalesceStop, TrailingStopIsPending, Last
    <2>2. queue' = queue \/ queue' = [queue EXCEPT ![Len(queue)] = entry]
      BY <1>1 DEF CoalesceStop
    <2>3. entry.command = queue[Len(queue)].command
      BY <1>0, <2>1 DEF QueueEntries
    <2> HIDE DEF entry
    <2>4. Len(queue) \in DOMAIN queue' /\ queue'[Len(queue)].command = queue[Len(queue)].command
      BY <1>0, <2>1, <2>2, <2>3
    <2> QED
      BY <2>1, <2>4
  <1>2. CASE AdmitCommand(command, id)
    <2> DEFINE entry == [command |-> command, id |-> id, coalesced |-> <<>>]
    <2>1. queue' = Append(queue, entry)
      BY <1>2 DEF AdmitCommand
    <2>2. entry.command = command
      OBVIOUS
    <2> HIDE DEF entry
    <2>3. Len(queue) + 1 \in DOMAIN queue' /\ queue'[Len(queue) + 1] = entry
      BY <1>0, <2>1
    <2> QED
      BY <2>2, <2>3
  <1>3. CASE RejectFullQueue(command, id)
    BY <1>0, <1>3 DEF RejectFullQueue, AdmissionLimit
  <1> QED
    BY <1>1, <1>2, <1>3 DEF Submit

\* One command taken outweighs what is left of the cycle.
LEMMA TakeOutweighsCycle ==
    ASSUME NEW takes \in Nat, NEW fewer \in Nat, fewer < takes, NEW cycle \in Nat
    PROVE  fewer * cycle + cycle <= takes * cycle
  <1>1. PICK more \in Nat : takes = fewer + 1 + more
    <2>1. takes - fewer - 1 \in Nat /\ takes = fewer + 1 + (takes - fewer - 1)
      OBVIOUS
    <2> QED
      BY <2>1
  <1>2. (fewer + 1 + more) * cycle = fewer * cycle + cycle + more * cycle
    OBVIOUS
  <1>3. more * cycle \in Nat /\ fewer * cycle \in Nat
    OBVIOUS
  <1> QED
    BY <1>1, <1>2, <1>3

\* What the invariants give where the HTTP mailbox has a Stop.
LEMMA StopInMailbox ==
    ASSUME TypeOK, LoopTypeOK, CycleInv, StopIsNeverShutOut, StopsIn(mailboxes["http"]) # {}
    PROVE  /\ mailboxes["http"] \in Seq(MailboxMessages) /\ mailboxes["http"] # <<>>
           /\ TakesToStop(mailboxes["http"], blynkFirst) \in Nat \ {0}
           /\ StepsToDrain \in 0 .. CommandCapacity + 12
           /\ CommandCapacity \in Nat
           /\ mailboxes[Source] # <<>>
  <1>1. mailboxes["http"] \in Seq(MailboxMessages) /\ blynkFirst \in BOOLEAN
    BY DEF LoopTypeOK, Transports
  <1>2. mailboxes["http"] # <<>>
    <2>1. PICK i \in DOMAIN mailboxes["http"] : TRUE
      BY DEF StopsIn
    <2> QED
      BY <2>1
  <1>3. Min(StopsIn(mailboxes["http"])) \in Nat \ {0}
    BY <1>1, FirstStopIs
  <1>4. TakesToStop(mailboxes["http"], blynkFirst) \in Nat \ {0}
    BY <1>1, <1>3 DEF TakesToStop
  <1>5. StepsToOff \in 1 .. CommandCapacity + 10 /\ CommandCapacity \in Nat
    BY StepsAreFew, BoundAssumption
  <1>6. StepsToDrain \in 0 .. CommandCapacity + 12
    BY <1>5 DEF StepsToDrain, CycleInv
  <1>7. mailboxes[Source] # <<>>
    BY <1>2 DEF Source
  <1> QED
    BY <1>1, <1>2, <1>4, <1>5, <1>6, <1>7

\* The drain takes the Stop or comes nearer to it.
LEMMA DrainedMailbox ==
    ASSUME TypeOK, LoopTypeOK, CycleInv, StopIsNeverShutOut, DrainCommand,
           heaterDemand > 0, StopsIn(mailboxes["http"]) # {}
    PROVE  /\ heaterDemand' > 0 /\ phase' = "idle"
           /\ \/ StopPending'
              \/ /\ StopsIn(mailboxes'["http"]) # {}
                 /\ TakesToStop(mailboxes'["http"], blynkFirst') \in Nat
                 /\ TakesToStop(mailboxes'["http"], blynkFirst')
                        < TakesToStop(mailboxes["http"], blynkFirst)
  <1> DEFINE http == mailboxes["http"]
             message == Head(mailboxes[Source])
  <1>1. /\ http \in Seq(MailboxMessages) /\ http # <<>> /\ StopsIn(http) # {}
        /\ blynkFirst \in BOOLEAN /\ DOMAIN mailboxes = Transports
    BY StopInMailbox DEF LoopTypeOK
  <1>2. /\ cycleStep = "drain" /\ phase = "idle" /\ blynkFirst' = ~blynkFirst
        /\ IF IsStale(message) THEN UNCHANGED vars ELSE Submit(message.command, 0)
        /\ mailboxes' = [mailboxes EXCEPT ![Source] = Tail(@)]
    BY DEF DrainCommand, CycleInv
  <1>3. heaterDemand' = heaterDemand /\ phase' = "idle"
    BY <1>2 DEF vars, outputVars, Submit
  <1>4. Min(StopsIn(http)) \in Nat
    BY <1>1, FirstStopIs
  <1>5. CASE Source = "http"
    <2>1. mailboxes'["http"] = Tail(http) /\ message = Head(http) /\ ~IsStale(message)
      BY <1>1, <1>2, <1>5 DEF IsStale, Transports
    <2>2. CASE IsStop(Head(http).command)
      <3>1. Len(queue) < CommandCapacity
        <4>1. Len(queue) \in Nat /\ Len(queue) <= 2 + drained /\ drained < ExternalBudget
              /\ drained \in Nat
          BY <1>2 DEF CycleInv, TypeOK
        <4> QED
          BY <4>1, CycleBounds
      <3>2. Submit(Head(http).command, 0)
        BY <1>2, <2>1
      <3>3. \E j \in DOMAIN queue' : IsStop(queue'[j].command)
        BY <2>2, <3>1, <3>2, SubmittedStopIsQueued
      <3> QED
        BY <1>3, <3>3 DEF StopPending
    <2>3. CASE ~IsStop(Head(http).command)
      <3>1. /\ StopsIn(Tail(http)) # {}
            /\ Min(StopsIn(Tail(http))) = Min(StopsIn(http)) - 1
        BY <1>1, <2>3, StopComesNearer
      <3>2. Tail(http) \in Seq(MailboxMessages)
        BY <1>1
      <3>3. Min(StopsIn(Tail(http))) \in Nat
        BY <3>1, <3>2, FirstStopIs
      <3>4. TakesToStop(Tail(http), blynkFirst') < TakesToStop(http, blynkFirst)
        BY <1>1, <1>2, <1>4, <3>1, <3>3 DEF TakesToStop
      <3>5. TakesToStop(Tail(http), blynkFirst') \in Nat
        BY <1>1, <1>2, <3>3 DEF TakesToStop
      <3> QED
        BY <1>3, <2>1, <3>1, <3>4, <3>5
    <2> QED
      BY <2>2, <2>3
  <1>6. CASE Source = "blynk"
    <2>1. blynkFirst = TRUE
      BY <1>1, <1>6 DEF Source
    <2>2. mailboxes'["http"] = http
      BY <1>1, <1>2, <1>6 DEF Transports
    <2>3. /\ TakesToStop(http, blynkFirst') = 2 * Min(StopsIn(http))
          /\ TakesToStop(http, blynkFirst) = 2 * Min(StopsIn(http)) + 1
      <3>1. blynkFirst /\ ~blynkFirst'
        BY <1>2, <2>1
      <3> QED
        BY <1>4, <3>1 DEF TakesToStop
    <2>4. /\ TakesToStop(http, blynkFirst') < TakesToStop(http, blynkFirst)
          /\ TakesToStop(http, blynkFirst') \in Nat
      BY <1>4, <2>3
    <2> QED
      BY <1>1, <1>3, <2>2, <2>4
  <1> QED
    BY <1>5, <1>6 DEF Source

\* A statement of the loop while a Stop waits in the HTTP mailbox and none is pending.
LEMMA LoopComesNearer ==
    ASSUME TypeOK, LoopTypeOK, CycleInv, StopIsNeverShutOut, ControlTask,
           heaterDemand > 0, ~StopPending, StopsIn(mailboxes["http"]) # {}
    PROVE  \/ heaterDemand' = 0
           \/ StopOnItsWay' /\ LoopStepsToOff' < LoopStepsToOff
  <1> DEFINE http == mailboxes["http"]
             takes == TakesToStop(http, blynkFirst)
             cycle == CommandCapacity + 13
  <1>1. /\ takes \in Nat \ {0} /\ cycle \in Nat /\ CommandCapacity \in Nat
        /\ StepsToDrain \in 0 .. CommandCapacity + 12 /\ mailboxes[Source] # <<>>
    BY StopInMailbox
  <1>2. LoopStepsToOff = takes * cycle + StepsToDrain
    BY DEF LoopStepsToOff
  <1>3. takes * cycle \in Nat /\ takes * cycle >= cycle
    <2>1. 0 * cycle + cycle <= takes * cycle
      BY <1>1, TakeOutweighsCycle
    <2>2. 0 * cycle = 0 /\ takes * cycle \in Nat
      BY <1>1
    <2> QED
      BY <1>1, <2>1, <2>2
  \* Statements that leave the mailboxes alone.
  <1>4. ASSUME UNCHANGED <<mailboxes, blynkFirst>>, heaterDemand' > 0,
               StepsToDrain' \in Nat, StepsToDrain' < StepsToDrain,
               StopPending' => StepsToOff' \in Nat /\ StepsToOff' <= CommandCapacity + 10
        PROVE  StopOnItsWay' /\ LoopStepsToOff' < LoopStepsToOff
    <2>1. StopOnItsWay'
      BY <1>4 DEF StopOnItsWay
    <2>2. CASE StopPending'
      <3>1. LoopStepsToOff' = StepsToOff'
        BY <2>2 DEF LoopStepsToOff
      <3>2. StepsToOff' \in Nat /\ StepsToOff' <= CommandCapacity + 10
        BY <1>4, <2>2
      <3> HIDE DEF takes
      <3> QED
        BY <1>1, <1>2, <1>3, <2>1, <3>1, <3>2
    <2>3. CASE ~StopPending'
      <3>1. LoopStepsToOff' = takes * cycle + StepsToDrain'
        BY <1>4, <2>3 DEF LoopStepsToOff, TakesToStop
      <3> DEFINE product == takes * cycle
      <3>2. /\ product \in Nat /\ LoopStepsToOff' = product + StepsToDrain'
            /\ LoopStepsToOff = product + StepsToDrain /\ StepsToDrain \in Nat
        BY <1>1, <1>2, <1>3, <3>1
      <3> HIDE DEF product
      <3>3. StepsToDrain' \in Nat /\ StepsToDrain' < StepsToDrain
        BY <1>4
      <3>4. PICK left \in Nat : left = StepsToDrain'
        BY <3>3
      <3>5. LoopStepsToOff' = product + left /\ left < StepsToDrain
        BY <3>2, <3>3, <3>4
      <3>6. LoopStepsToOff' < LoopStepsToOff
        BY <3>2, <3>5
      <3> QED
        BY <2>1, <3>6
    <2> QED
      BY <2>2, <2>3
  <1>5. CASE ConsumePrepare
    <2>1. /\ cycleStep = "prepare" /\ cycleStep' \in {"finish", "drain"} /\ phase = "idle"
          /\ UNCHANGED <<mailboxes, blynkFirst>>
          /\ Submit(Prepare, prepareCorrelation) \/ UNCHANGED vars
      BY <1>5 DEF ConsumePrepare, CycleInv
    <2>2. heaterDemand' = heaterDemand /\ phase' = "idle"
      BY <2>1 DEF vars, outputVars, Submit
    <2>3. StepsToDrain = 2 /\ StepsToDrain' \in {0, 1} /\ StepsToOff' = CommandCapacity + 10
      BY <2>1, <2>2 DEF StepsToDrain, StepsToOff
    <2> QED
      BY <1>1, <1>4, <2>1, <2>2, <2>3
  <1>6. CASE ConsumeFinish
    <2>1. /\ cycleStep = "finish" /\ cycleStep' = "drain" /\ phase = "idle"
          /\ UNCHANGED <<mailboxes, blynkFirst>>
          /\ Submit(Finish, 0) \/ UNCHANGED vars
      BY <1>6 DEF ConsumeFinish, CycleInv
    <2>2. heaterDemand' = heaterDemand /\ phase' = "idle"
      BY <2>1 DEF vars, outputVars, Submit
    <2>3. StepsToDrain = 1 /\ StepsToDrain' = 0 /\ StepsToOff' = CommandCapacity + 10
      BY <2>1, <2>2 DEF StepsToDrain, StepsToOff
    <2> QED
      BY <1>1, <1>4, <2>1, <2>2, <2>3
  <1>7. CASE DrainCommand
    <2>1. /\ heaterDemand' > 0 /\ phase' = "idle"
          /\ \/ StopPending'
             \/ /\ StopsIn(mailboxes'["http"]) # {}
                /\ TakesToStop(mailboxes'["http"], blynkFirst') \in Nat
                /\ TakesToStop(mailboxes'["http"], blynkFirst') < takes
      BY <1>7, DrainedMailbox
    <2>2. StopOnItsWay'
      BY <2>1 DEF StopOnItsWay
    <2>3. StepsToOff' = CommandCapacity + 10
      BY <2>1 DEF StepsToOff
    <2>4. CASE StopPending'
      <3>1. LoopStepsToOff' = CommandCapacity + 10
        BY <2>3, <2>4 DEF LoopStepsToOff
      <3> HIDE DEF takes
      <3> QED
        BY <1>1, <1>2, <1>3, <2>2, <3>1
    <2>5. CASE ~StopPending'
      <3> DEFINE fewer == TakesToStop(mailboxes'["http"], blynkFirst')
      <3>1. LoopStepsToOff' = fewer * cycle + StepsToDrain'
        BY <2>5 DEF LoopStepsToOff
      <3>2. cycleStep' \in {"drain", "tick"}
        BY <1>7 DEF DrainCommand
      <3>3. StepsToDrain' \in {0, CommandCapacity + 12}
        BY <2>3, <3>2, <1>1 DEF StepsToDrain
      <3>4. fewer \in Nat /\ fewer < takes
        BY <2>1, <2>5
      <3> HIDE DEF fewer, takes
      <3>5. fewer * cycle + cycle <= takes * cycle
        BY <1>1, <3>4, TakeOutweighsCycle
      <3>6. fewer * cycle \in Nat
        BY <1>1, <3>4
      <3>7. fewer * cycle + StepsToDrain' < takes * cycle + StepsToDrain
        <4>1. StepsToDrain' \in Nat /\ StepsToDrain' < cycle /\ StepsToDrain \in Nat
          BY <1>1, <3>3
        <4> HIDE DEF cycle
        <4> QED
          BY <1>3, <3>5, <3>6, <4>1, <1>1
      <3> QED
        BY <1>2, <2>2, <3>1, <3>7
    <2> QED
      BY <2>4, <2>5
  <1>8. CASE MailboxesAreEmpty
    BY <1>1, <1>8 DEF MailboxesAreEmpty
  <1>9. CASE TickApplication
    <2>1. /\ cycleStep = "tick" /\ Tick /\ UNCHANGED <<mailboxes, blynkFirst>>
          /\ cycleStep' = IF phase' = "idle" THEN "prepare" ELSE "tick"
      BY <1>9 DEF TickApplication
    <2>2. StepsToDrain = 2 + StepsToOff /\ StepsToOff \in 1 .. CommandCapacity + 10
      BY <2>1, StepsAreFew DEF StepsToDrain
    <2>3. CASE WriteHeater
      <3>1. phase' = "idle" /\ cycleStep' = "prepare" /\ heaterDemand' \in Nat
        <4>1. TypeOK'
          BY NextTypeOK, <2>1 DEF Next
        <4>2. heaterDemand' \in Nat
          BY <4>1, ConfigurationAssumption DEF TypeOK
        <4> QED
          BY <2>1, <2>3, <4>2 DEF WriteHeater
      <3>2. StepsToDrain' = 2 /\ StepsToOff' = CommandCapacity + 10
        BY <3>1 DEF StepsToDrain, StepsToOff
      <3> QED
        BY <1>1, <1>4, <2>1, <2>2, <3>1, <3>2
    <2>4. CASE ~WriteHeater
      <3>1. StepsToOff' < StepsToOff /\ phase' # "idle" /\ heaterDemand' = heaterDemand
        BY <2>1, <2>4, TickRunsOn
      <3>2. StepsToDrain' = 2 + StepsToOff'
        BY <2>1, <3>1 DEF StepsToDrain
      <3>3. StepsToOff' \in Nat
        <4>1. TypeOK'
          BY NextTypeOK, <2>1 DEF Next
        <4>2. Len(queue') \in Nat /\ CommandCapacity \in Nat
          BY <4>1, BoundAssumption DEF TypeOK
        <4> QED
          BY <4>1, <4>2 DEF StepsToOff, TypeOK
      <3>4. StepsToOff \in Nat
        BY <1>1, <2>2
      <3>5. PICK left \in Nat : left = StepsToOff'
        BY <3>3
      <3>7. left < StepsToOff /\ StepsToDrain' = 2 + left
        BY <3>1, <3>2, <3>5
      <3>8. 2 + left \in Nat /\ 2 + left < 2 + StepsToOff
        BY <3>4, <3>7
      <3>9. StepsToDrain' \in Nat /\ StepsToDrain' < StepsToDrain
        BY <2>2, <3>7, <3>8
      <3>6. StepsToOff' <= CommandCapacity + 10
        BY <1>1, <2>2, <3>1, <3>3
      <3> QED
        BY <1>4, <2>1, <3>1, <3>3, <3>6, <3>9
    <2> QED
      BY <2>3, <2>4
  <1> QED
    BY <1>5, <1>6, <1>7, <1>8, <1>9 DEF ControlTask

\* The other tasks move nothing ahead of a Stop.
LEMMA OthersDoNotDelay ==
    ASSUME TypeOK, LoopTypeOK, OtherTasks, StopOnItsWay
    PROVE  StopOnItsWay' /\ LoopStepsToOff' = LoopStepsToOff
  <1> DEFINE http == mailboxes["http"]
  <1>1. UNCHANGED <<vars, cycleStep, blynkFirst>>
    BY DEF OtherTasks, Push, Connect, Disconnect, RequestPrepare, RequestFinish
  <1>2. UNCHANGED <<heaterDemand, phase, queue, session>>
    BY <1>1 DEF vars, commandVars, lifecycleVars, outputVars
  <1>3. /\ StopPending' <=> StopPending
        /\ StepsToOff' = StepsToOff /\ StepsToDrain' = StepsToDrain
    BY <1>1, <1>2 DEF StopPending, StepsToOff, StepsToDrain, IsRunning
  <1>4. ASSUME StopsIn(http) # {}
        PROVE  /\ StopsIn(mailboxes'["http"]) # {}
               /\ Min(StopsIn(mailboxes'["http"])) = Min(StopsIn(http))
    <2>1. http \in Seq(MailboxMessages) /\ DOMAIN mailboxes = Transports
      BY DEF LoopTypeOK, Transports
    <2>2. \/ mailboxes'["http"] = http
          \/ \E message \in MailboxMessages : mailboxes'["http"] = Append(http, message)
      <3>1. CASE mailboxes' = mailboxes
        BY <3>1
      <3>2. ASSUME NEW t \in Transports, NEW command \in ExternalCommands, Push(t, command)
            PROVE  \/ mailboxes'["http"] = http
                   \/ \E message \in MailboxMessages :
                         mailboxes'["http"] = Append(http, message)
        <4>1. [command |-> command, generation |-> Generation(t)] \in MailboxMessages
          BY DEF MailboxMessages, Generation, LoopTypeOK, ExternalCommands
        <4> DEFINE message == [command |-> command, generation |-> Generation(t)]
        <4>2. mailboxes' = [mailboxes EXCEPT ![t] = Append(@, message)]
          BY <3>2 DEF Push
        <4> HIDE DEF message
        <4> QED
          BY <2>1, <4>1, <4>2 DEF Transports, message
      <3> QED
        BY <3>1, <3>2 DEF OtherTasks, Connect, Disconnect, RequestPrepare, RequestFinish
    <2> QED
      BY <1>4, <2>1, <2>2, PushedBehindStop
  <1>5. CASE StopPending
    BY <1>2, <1>3, <1>5 DEF StopOnItsWay, LoopStepsToOff
  <1>6. CASE ~StopPending
    <2>1. StopsIn(http) # {} /\ heaterDemand > 0
      BY <1>6 DEF StopOnItsWay
    <2>2. StopOnItsWay'
      BY <1>2, <1>4, <2>1 DEF StopOnItsWay
    <2>3. TakesToStop(mailboxes'["http"], blynkFirst') = TakesToStop(http, blynkFirst)
      BY <1>1, <1>4, <2>1 DEF TakesToStop
    <2> QED
      BY <1>3, <1>6, <2>2, <2>3 DEF LoopStepsToOff
  <1> QED
    BY <1>5, <1>6

\* A step of the loop or of the others while a Stop is on its way.
LEMMA OnItsWayStep ==
    ASSUME TypeOK, LoopTypeOK, CycleInv, DrainInv, StopIsNeverShutOut, LoopNext, StopOnItsWay
    PROVE  \/ heaterDemand' = 0
           \/ StopOnItsWay' /\ IF ControlTask THEN LoopStepsToOff' < LoopStepsToOff
                               ELSE LoopStepsToOff' = LoopStepsToOff
  <1>1. CASE ControlTask /\ StopPending
    <2>1. cycleStep = "tick"
      <3>1. ASSUME cycleStep # "tick" PROVE FALSE
        <4>1. phase = "idle" /\ \A i \in DOMAIN queue : ~IsStop(queue[i].command)
          BY <3>1 DEF CycleInv, NoStopIsQueued
        <4> QED
          BY <1>1, <4>1 DEF StopPending
      <3> QED
        BY <3>1
    <2>2. Tick
      BY <1>1, <2>1 DEF ControlTask, ConsumePrepare, ConsumeFinish, DrainCommand,
         MailboxesAreEmpty, TickApplication
    <2>3. heaterDemand' = 0 \/ (StopPending' /\ StepsToOff' < StepsToOff)
      BY <1>1, <2>2, PendingStep DEF Next
    <2> QED
      BY <1>1, <2>3 DEF StopOnItsWay, LoopStepsToOff, StopPending
  <1>2. CASE ControlTask /\ ~StopPending
    BY <1>2, LoopComesNearer DEF StopOnItsWay
  <1>3. CASE OtherTasks /\ ~ControlTask
    BY <1>3, OthersDoNotDelay
  <1> QED
    BY <1>1, <1>2, <1>3 DEF LoopNext

\* A Stop that waits in the HTTP mailbox while the heater is on is never lost, whatever the
\* other transport and OTA send, and the heater is OFF after at most as many statements of
\* the loop as LoopStepsToOff says (SR-003): what is left of StopFromMailboxTurnsHeaterOff
\* is that ControlTask goes on.
THEOREM MailboxStopsAreObeyed == LoopSpec => MailboxStopIsObeyed
  <1>1. LoopInit => CycleInv /\ DrainInv
    BY DEF LoopInit, Init, CycleInv, DrainInv
  <1>2. LoopSpec => [](TypeOK /\ LoopTypeOK /\ StopIsNeverShutOut)
    BY LoopImplementsApplication, TypeCorrect, LoopTypeCorrect, StopAdmitted, PTL
  <1>3. TypeOK /\ LoopTypeOK /\ DrainInv /\ [LoopNext]_allVars => DrainInv'
    BY LoopStepIsApplicationStep, DrainStep
  <1>4. LoopSpec => [](CycleInv /\ DrainInv)
    BY <1>1, <1>2, <1>3, CycleStep, PTL DEF LoopSpec
  <1>5. TypeOK /\ LoopTypeOK /\ CycleInv /\ StopIsNeverShutOut
            => (StopOnItsWay => LoopStepsToOff \in Nat)
    <2> SUFFICES ASSUME TypeOK, LoopTypeOK, CycleInv, StopIsNeverShutOut, StopOnItsWay
                 PROVE  LoopStepsToOff \in Nat
      OBVIOUS
    <2>1. CASE StopPending
      BY <2>1, StepsAreFew, BoundAssumption DEF LoopStepsToOff
    <2>2. CASE ~StopPending
      BY <2>2, StopInMailbox DEF LoopStepsToOff, StopOnItsWay
    <2> QED
      BY <2>1, <2>2
  <1>6. TypeOK /\ LoopTypeOK /\ CycleInv /\ DrainInv /\ StopIsNeverShutOut /\ LoopNext
            => (StopOnItsWay =>
                  \/ heaterDemand' = 0
                  \/ StopOnItsWay' /\ IF ControlTask THEN LoopStepsToOff' < LoopStepsToOff
                                      ELSE LoopStepsToOff' = LoopStepsToOff)
    BY OnItsWayStep
  <1> QED
    BY <1>2, <1>4, <1>5, <1>6, PTL DEF LoopSpec, MailboxStopIsObeyed

=================================================================================
