------------------------ MODULE SmokerApplication_proofs ------------------------
(***************************************************************************)
(* Invariance theorems about SmokerApplication, for every set of commands, *)
(* probes, temperatures and demands and every capacity of the queue.       *)
(***************************************************************************)
EXTENDS SmokerApplication, SequenceTheorems, TLAPS

----------------------------------------------------------------------------
(* Lemmas about the operators the actions are built from.                   *)

\* The fields of a command have the types its C++ struct gives them.
LEMMA CommandFields ==
    ASSUME NEW command \in Commands
    PROVE  /\ command.type = "Start" =>
                /\ command.session \in SessionIds
                /\ command.recipe \in Recipes
           /\ command.type \in {"SetChamberTarget", "SetProbeTarget"}
                => command.target \in Readings
           /\ command.type \in {"SetProbeEnabled", "SetProbeAlarmEnabled"}
                => command.enabled \in BOOLEAN
           /\ command.type = "AcknowledgeAlarm" => command.alarm \in AlarmKeys
  BY CommandAssumption DEF CommandType

\* The window of the last elements of a sequence is a sequence over the same set.
LEMMA WindowType ==
    ASSUME NEW S, NEW sequence \in Seq(S), NEW capacity \in Nat \ {0}
    PROVE  Window(sequence, capacity) \in Seq(S)
  <1>1. CASE Len(sequence) > capacity
    <2>1. /\ Len(sequence) - capacity + 1 \in 1 .. Len(sequence) + 1
          /\ Len(sequence) \in Nat
      BY <1>1
    <2>2. SubSeq(sequence, Len(sequence) - capacity + 1, Len(sequence)) \in Seq(S)
      BY <2>1
    <2> QED
      BY <1>1, <2>2 DEF Window
  <1>2. CASE ~(Len(sequence) > capacity)
    BY <1>2 DEF Window
  <1> QED
    BY <1>1, <1>2

\* Recording verdicts for a sequence of ids keeps the type of the result window.
LEMMA RecordResultsType ==
    ASSUME results \in Seq([id : CorrelationIds, accepted : BOOLEAN]),
           NEW ids \in Seq(CorrelationIds), NEW accepted \in BOOLEAN,
           RecordResults(ids, accepted)
    PROVE  results' \in Seq([id : CorrelationIds, accepted : BOOLEAN])
  <1> DEFINE R == [id : CorrelationIds, accepted : BOOLEAN]
             verdicts == [i \in 1 .. Len(ids) |-> [id |-> ids[i], accepted |-> accepted]]
  <1>1. verdicts \in Seq(R)
    OBVIOUS
  <1>2. results \o verdicts \in Seq(R)
    BY <1>1
  <1> HIDE DEF verdicts
  <1>3. Window(results \o verdicts, CommandResultCapacity) \in Seq(R)
    BY <1>2, WindowType, BoundAssumption
  <1> QED
    BY <1>3 DEF RecordResults, verdicts

\* An update keeps the type of a timer record.
LEMMA TimerUpdateType ==
    ASSUME NEW config \in ValidTimers, NEW timer \in TimerType,
           NEW chamber, NEW readings
    PROVE  UpdateStageTimer(config, timer, chamber, readings) \in TimerType
  <1> DEFINE begun == IF timer.started THEN timer ELSE [NoTimer EXCEPT !.started = TRUE]
             elapsed == AtMost(begun.sinceStart, config.duration)
             updated == [begun EXCEPT !.elapsed = elapsed,
                                      !.completed = elapsed >= config.duration]
  <1>1. begun \in TimerType
    BY DEF NoTimer, TimerType
  <1>2. elapsed \in Nat /\ config.duration \in Int
    BY <1>1 DEF AtMost, TimerType, ValidTimers, IsValidTimerConfiguration, Timers
  <1>3. updated \in TimerType
    <2> HIDE DEF begun, elapsed
    <2>1. (elapsed >= config.duration) \in BOOLEAN
      BY <1>2
    <2> QED
      BY <1>1, <1>2, <2>1 DEF TimerType
  <1>4. UpdateStageTimer(config, timer, chamber, readings) \in {timer, updated}
    BY DEF UpdateStageTimer
  <1> QED
    BY <1>3, <1>4

\* Freezing and clamping keep the type of a timer record.
LEMMA FrozenTimerType ==
    ASSUME NEW config \in ValidTimers \cup {None}, NEW timer \in TimerType
    PROVE  /\ FreezeStageTimer(timer) \in TimerType
           /\ ClampFrozenTimer(FreezeStageTimer(timer), config) \in TimerType
  <1>1. FreezeStageTimer(timer) \in TimerType
    BY DEF FreezeStageTimer, TimerType
  <1>2. ClampFrozenTimer(FreezeStageTimer(timer), config) \in TimerType
    BY <1>1 DEF ClampFrozenTimer, ValidTimers, IsValidTimerConfiguration, Timers,
                TimerType, AtMost
  <1> QED
    BY <1>1, <1>2

\* Raising, resolving and acknowledging keep the types of the alarm slots.
LEMMA AlarmOperatorsType ==
    ASSUME NEW alarm \in AlarmType
    PROVE  /\ Raised(alarm) \in AlarmType
           /\ Resolved(alarm) \in AlarmType
           /\ [alarm EXCEPT !.acknowledged = TRUE] \in AlarmType
  <1>1. (alarm.generation + 1) % AlarmGenerations \in Nat
    <2>1. alarm.generation + 1 \in Int /\ AlarmGenerations \in Int /\ AlarmGenerations > 0
      BY BoundAssumption DEF AlarmType
    <2> QED
      BY <2>1
  <1> QED
    BY <1>1 DEF Raised, Resolved, AlarmType

\* Resolving the alarms of one probe keeps the type of the alarm slots.
LEMMA ResolveProbeAlarmsType ==
    ASSUME alarms \in [AlarmKeys -> AlarmType], NEW codes, NEW p,
           ResolveProbeAlarms(codes, p)
    PROVE  alarms' \in [AlarmKeys -> AlarmType]
  <1> SUFFICES ASSUME NEW k \in AlarmKeys
               PROVE  (IF k \in codes \X {p} THEN Resolved(alarms[k]) ELSE alarms[k])
                        \in AlarmType
    BY DEF ResolveProbeAlarms
  <1>1. alarms[k] \in AlarmType /\ Resolved(alarms[k]) \in AlarmType
    BY AlarmOperatorsType
  <1> QED
    BY <1>1

\* Stopping a session and raising a fault keep the types of what they change.
LEMMA StopRunningSessionType ==
    ASSUME alarms \in [AlarmKeys -> AlarmType],
           NEW running \in SessionType, NEW reason \in {"User", "TimerCompleted"},
           StopRunningSession(running, reason)
    PROVE  /\ session' \in SessionType
           /\ alarms' \in [AlarmKeys -> AlarmType]
  <1>1. ClampFrozenTimer(FreezeStageTimer(running.timer), running.timerConfig) \in TimerType
    BY FrozenTimerType DEF SessionType
  <1>2. session' \in SessionType
    BY <1>1 DEF StopRunningSession, StoppedSession, SessionType
  <1>3. alarms' \in [AlarmKeys -> AlarmType]
    BY DEF StopRunningSession, ResolveAllAlarms, Resolved, AlarmType
  <1> QED
    BY <1>2, <1>3

\* Latching a fault keeps the types of the session, the fault and the alarms.
LEMMA RaiseFaultType ==
    ASSUME alarms \in [AlarmKeys -> AlarmType], session \in SessionType,
           NEW code \in FaultCodes, RaiseFault(code)
    PROVE  /\ session' \in SessionType
           /\ alarms' \in [AlarmKeys -> AlarmType]
           /\ activeFault' \in FaultCodes
  <1>1. FreezeStageTimer(session.timer) \in TimerType
    BY FrozenTimerType DEF SessionType
  <1>2. session' \in SessionType
    BY <1>1 DEF RaiseFault, SessionType
  <1>3. alarms' \in [AlarmKeys -> AlarmType]
    BY DEF RaiseFault, ResolveAllAlarms, Resolved, AlarmType
  <1> QED
    BY <1>2, <1>3 DEF RaiseFault

\* Taking the head of the queue keeps the types of the queue and the results.
LEMMA ConsumeType ==
    ASSUME TypeOK, queue # <<>>, NEW accepted \in BOOLEAN, Consume(accepted)
    PROVE  /\ Head(queue) \in QueueEntries
           /\ queue' \in Seq(QueueEntries)
           /\ results' \in Seq([id : CorrelationIds, accepted : BOOLEAN])
           /\ phase' \in {"probes", "commands"}
  <1>1. Head(queue) \in QueueEntries /\ queue' \in Seq(QueueEntries)
    BY DEF TypeOK, Consume
  <1> DEFINE ids == Correlated(Head(queue).id) \o Head(queue).coalesced
  <1>2. ids \in Seq(CorrelationIds)
    <2>1. Head(queue).id \in CorrelationIds \cup {0}
      BY <1>1 DEF QueueEntries
    <2>2. Head(queue).coalesced \in Seq(CorrelationIds)
      BY <1>1 DEF QueueEntries
    <2>3. Correlated(Head(queue).id) \in Seq(CorrelationIds)
      BY <2>1 DEF Correlated
    <2> QED
      BY <2>2, <2>3
  <1>3. RecordResults(ids, accepted)
    BY DEF Consume
  <1> HIDE DEF ids
  <1>4. results' \in Seq([id : CorrelationIds, accepted : BOOLEAN])
    BY <1>2, <1>3, RecordResultsType DEF TypeOK
  <1> QED
    BY <1>1, <1>4 DEF Consume

----------------------------------------------------------------------------
(* Type correctness.                                                        *)

\* The constructor leaves every member with its type.
LEMMA InitTypeOK == Init => TypeOK
  <1> SUFFICES ASSUME Init PROVE TypeOK
    OBVIOUS
  <1> USE DEF Init
  <1>1. queue \in Seq(QueueEntries) /\ results \in Seq([id : CorrelationIds, accepted : BOOLEAN])
    OBVIOUS
  <1>2. session \in SessionType
    BY DEF NoSession, NoTimer, SessionType, TimerType, Readings
  <1>3. probes \in [Probes -> ProbeType]
    BY ConfigurationAssumption DEF ProbeAtBoot, ProbeType, Readings
  <1>4. alarms \in [AlarmKeys -> AlarmType]
    BY DEF AlarmType
  <1>5. published \in SnapshotViews
    BY <1>2, ConfigurationAssumption
       DEF SnapshotView, SnapshotViews, CurrentSessionStatus, SessionType, Readings, NoSession
  <1>6. requestedDemand \in Demands /\ heaterDemand \in Demands
    BY ConfigurationAssumption
  <1> QED
    BY <1>1, <1>2, <1>3, <1>4, <1>5, <1>6 DEF TypeOK, Readings

\* submit() keeps the types; a coalesced Stop only ever stores correlation ids.
LEMMA SubmitTypeOK ==
    ASSUME TypeOK, NEW command \in Commands, NEW id \in CorrelationIds \cup {0},
           Submit(command, id)
    PROVE  TypeOK'
  <1> USE DEF Submit
  <1>1. /\ queue' \in Seq(QueueEntries)
        /\ results' \in Seq([id : CorrelationIds, accepted : BOOLEAN])
    <2>1. CASE CoalesceStop(command, id)
      <3>1. CASE id = 0
        BY <2>1, <3>1 DEF CoalesceStop, TypeOK
      <3>2. CASE id # 0
        <4>1. /\ Len(queue) \in 1 .. Len(queue)
              /\ queue \in Seq(QueueEntries)
          BY <2>1 DEF CoalesceStop, TrailingStopIsPending, TypeOK
        <4>2. queue[Len(queue)] \in QueueEntries
          BY <4>1
        <4>3. Append(queue[Len(queue)].coalesced, id) \in Seq(CorrelationIds)
          BY <4>2, <3>2 DEF QueueEntries
        <4>4. Window(Append(queue[Len(queue)].coalesced, id), CommandResultCapacity)
                \in Seq(CorrelationIds)
          BY <4>3, WindowType, BoundAssumption
        <4> DEFINE entry ==
                [queue[Len(queue)] EXCEPT !.coalesced =
                    Window(Append(queue[Len(queue)].coalesced, id), CommandResultCapacity)]
        <4>5. entry \in QueueEntries
          BY <4>2, <4>4 DEF QueueEntries
        <4>6. queue' = [queue EXCEPT ![Len(queue)] = entry]
          BY <2>1, <3>2 DEF CoalesceStop
        <4> HIDE DEF entry
        <4>7. queue' \in Seq(QueueEntries)
          BY <4>1, <4>5, <4>6
        <4> QED
          BY <2>1, <4>7 DEF CoalesceStop, TypeOK
      <3> QED
        BY <3>1, <3>2
    <2>2. CASE AdmitCommand(command, id)
      <3>1. [command |-> command, id |-> id, coalesced |-> <<>>] \in QueueEntries
        BY DEF QueueEntries
      <3> QED
        BY <2>2, <3>1 DEF AdmitCommand, TypeOK
    <2>3. CASE RejectFullQueue(command, id)
      <3>1. Correlated(id) \in Seq(CorrelationIds)
        BY DEF Correlated
      <3>2. results' \in Seq([id : CorrelationIds, accepted : BOOLEAN])
        BY <2>3, <3>1, RecordResultsType DEF RejectFullQueue, TypeOK
      <3> QED
        BY <2>3, <3>2 DEF RejectFullQueue, TypeOK
    <2> QED
      BY <2>1, <2>2, <2>3
  <1> QED
    BY <1>1 DEF TypeOK, lifecycleVars, inputVars, probeVars, controllerVars, outputVars

\* The clock moving keeps the type of a session.
LEMMA TimerAgeType ==
    ASSUME NEW timer \in TimerType, NEW elapse \in Elapses
    PROVE  Aged(timer, elapse) \in TimerType
  BY TimerAssumption, BoundAssumption DEF Aged, AtMost, TimerType

\* Acquiring the inputs keeps the types.
LEMMA BeginTickTypeOK == TypeOK /\ BeginTick => TypeOK'
  <1> SUFFICES ASSUME TypeOK, BeginTick PROVE TypeOK'
    OBVIOUS
  <1> USE DEF BeginTick
  <1>1. probes' \in [Probes -> ProbeType]
    <2>1. PICK readings \in [Probes -> Readings] :
              probes' = [p \in Probes |-> AcquireProbe(probes[p], readings[p])]
      OBVIOUS
    <2> SUFFICES ASSUME NEW p \in Probes
                 PROVE  AcquireProbe(probes[p], readings[p]) \in ProbeType
      BY <2>1
    <2>2. probes[p] \in ProbeType /\ readings[p] \in Readings
      BY DEF TypeOK
    <2> QED
      BY <2>2 DEF AcquireProbe, ProbeType, Readings
  <1>2. session' \in SessionType
    <2>1. PICK elapse \in Elapses :
              session' = IF IsRunning
                         THEN [session EXCEPT !.timer = Aged(session.timer, elapse)]
                         ELSE session
      OBVIOUS
    <2>2. session \in SessionType /\ Aged(session.timer, elapse) \in TimerType
      BY TimerAgeType DEF TypeOK, SessionType
    <2> QED
      BY <2>1, <2>2 DEF SessionType
  <1> QED
    BY <1>1, <1>2 DEF TypeOK, commandVars, controllerVars, outputVars

\* A probe with a new target and a cleared latch is a probe.
LEMMA RetargetedType ==
    ASSUME NEW probe \in ProbeType, NEW target \in Readings
    PROVE  [probe EXCEPT !.target = target, !.targetAlarmEmitted = FALSE] \in ProbeType
  <1> DEFINE retargeted == [probe EXCEPT !.target = target]
  <1>1. retargeted \in ProbeType
    BY DEF ProbeType
  <1>2. [probe EXCEPT !.target = target, !.targetAlarmEmitted = FALSE]
          = [retargeted EXCEPT !.targetAlarmEmitted = FALSE]
    OBVIOUS
  <1> HIDE DEF retargeted
  <1>3. [retargeted EXCEPT !.targetAlarmEmitted = FALSE] \in ProbeType
    BY <1>1 DEF ProbeType
  <1> QED
    BY <1>2, <1>3

\* Every command of the drain loop keeps the types.
LEMMA ProcessCommandTypeOK == TypeOK /\ ProcessCommand => TypeOK'
  <1> SUFFICES ASSUME TypeOK, ProcessCommand PROVE TypeOK'
    OBVIOUS
  <1> DEFINE command == Head(queue).command
  <1>1. PICK accepted \in BOOLEAN : phase = "commands" /\ queue # <<>> /\ Consume(accepted)
    BY DEF ProcessCommand, RejectCommand, AcceptStart, AcceptStop, AcceptSetChamberTarget,
           AcceptSetProbeTarget, AcceptSetProbeEnabled, AcceptSetProbeAlarmEnabled,
           AcceptAcknowledgeAlarm, AcceptClearResolvedFault, AcceptFirmwareInterlock, Accepting
  <1>2. /\ Head(queue) \in QueueEntries
        /\ queue' \in Seq(QueueEntries)
        /\ results' \in Seq([id : CorrelationIds, accepted : BOOLEAN])
        /\ phase' \in {"probes", "commands"}
    BY <1>1, ConsumeType
  <1>3. command \in Commands
    BY <1>2 DEF QueueEntries
  <1>4. /\ chamberTemperature' \in Readings
        /\ controllerActive' \in BOOLEAN
        /\ controllerFaultResolved' \in BOOLEAN
        /\ controllerFailurePending' \in BOOLEAN
        /\ controllerMemory' \in SessionIds \cup {None}
        /\ requestedDemand' \in Demands
        /\ heaterDemand' \in Demands
        /\ configurationValid' \in BOOLEAN
        /\ published' \in SnapshotViews
    BY <1>1 DEF Consume, TypeOK, inputVars, controllerVars, outputVars
  <1> DEFINE Rest == /\ session' \in SessionType
                     /\ activeFault' \in FaultCodes \cup {None}
                     /\ firmwareUpdateActive' \in BOOLEAN
                     /\ probes' \in [Probes -> ProbeType]
                     /\ alarms' \in [AlarmKeys -> AlarmType]
  <1> SUFFICES Rest
    BY <1>2, <1>4 DEF TypeOK
  <1>5. CASE RejectCommand
    BY <1>5 DEF RejectCommand, TypeOK, probeVars, lifecycleVars
  <1>6. CASE AcceptStart
    <2>1. /\ command.session \in SessionIds
          /\ command.recipe \in Recipes
          /\ RecipeIsValid(command.recipe)
      BY <1>3, <1>6, CommandFields DEF AcceptStart, Accepting, Accepts, StartIsAccepted
    <2>2. session' \in SessionType
      BY <1>6, <2>1 DEF AcceptStart, SessionType, NoTimer, TimerType, Recipes,
                        RecipeIsValid, ValidTimers
    <2>3. probes' \in [Probes -> ProbeType]
      <3> SUFFICES ASSUME NEW p \in Probes PROVE ProbeAtStart(p) \in ProbeType
        BY <1>6 DEF AcceptStart
      <3>1. /\ probes[p] \in ProbeType
            /\ ProbeDefaults[p] \in [target : Readings, enabled : BOOLEAN,
                                     alarmEnabled : BOOLEAN]
        BY ConfigurationAssumption DEF TypeOK
      <3> QED
        <4> DEFINE default == ProbeDefaults[p]
                   probe == probes[p]
                   sampled == probe.sampled /\ default.enabled
                   temperature == IF default.enabled THEN probe.temperature ELSE None
                   reading == IF default.enabled THEN probe.reading ELSE None
        <4>1. /\ probe \in ProbeType
              /\ default.target \in Readings
              /\ default.enabled \in BOOLEAN
              /\ default.alarmEnabled \in BOOLEAN
          BY <3>1
        <4>2. sampled \in BOOLEAN /\ temperature \in Readings /\ reading \in Readings
          BY <3>1 DEF ProbeType, Readings
        <4>3. ProbeAtStart(p) =
                [probe EXCEPT !.target = default.target, !.enabled = default.enabled,
                              !.alarmEnabled = default.alarmEnabled,
                              !.temperature = temperature, !.reading = reading,
                              !.sampled = sampled, !.targetAlarmEmitted = FALSE,
                              !.disconnectedAlarmEmitted = FALSE]
          BY <3>1 DEF ProbeAtStart, ProbeType
        <4> HIDE DEF default, probe, sampled, temperature, reading
        <4> QED
          BY <4>1, <4>2, <4>3 DEF ProbeType
    <2>4. alarms' \in [AlarmKeys -> AlarmType]
      BY <1>6 DEF AcceptStart, ResolveAllAlarms, Resolved, AlarmType, TypeOK
    <2> QED
      BY <1>6, <2>2, <2>3, <2>4 DEF AcceptStart, TypeOK
  <1>7. CASE AcceptStop
    BY <1>7, StopRunningSessionType DEF AcceptStop, TypeOK
  <1>8. CASE AcceptSetChamberTarget
    <2>1. command.target \in Readings
      BY <1>3, <1>8, CommandFields DEF AcceptSetChamberTarget, Accepting
    <2> QED
      BY <1>8, <2>1 DEF AcceptSetChamberTarget, TypeOK, SessionType, probeVars
  <1>9. CASE AcceptSetProbeTarget
    <2>1. command.target \in Readings
      BY <1>3, <1>9, CommandFields DEF AcceptSetProbeTarget, Accepting
    <2>2. probes' \in [Probes -> ProbeType]
      <3>1. probes \in [Probes -> ProbeType]
        BY DEF TypeOK
      <3>2. \A p \in Probes : [probes[p] EXCEPT !.target = command.target,
                                              !.targetAlarmEmitted = FALSE] \in ProbeType
        <4> TAKE p \in Probes
        <4>1. probes[p] \in ProbeType
          BY <3>1
        <4> HIDE DEF command
        <4> QED
          BY <2>1, <4>1, RetargetedType
      <3>3. probes' = [probes EXCEPT ![command.probe] =
                         [probes[command.probe] EXCEPT !.target = command.target,
                                                       !.targetAlarmEmitted = FALSE]]
        BY <1>9, <3>1 DEF AcceptSetProbeTarget
      <3> HIDE DEF command
      <3> QED
        BY <3>1, <3>2, <3>3
    <2>3. alarms' \in [AlarmKeys -> AlarmType]
      BY <1>9, ResolveProbeAlarmsType DEF AcceptSetProbeTarget, TypeOK
    <2> QED
      BY <1>9, <2>2, <2>3 DEF AcceptSetProbeTarget, TypeOK, lifecycleVars
  <1>10. CASE AcceptSetProbeEnabled
    <2>1. command.enabled \in BOOLEAN
      BY <1>3, <1>10, CommandFields DEF AcceptSetProbeEnabled, Accepting
    <2>2. probes' \in [Probes -> ProbeType]
      <3>1. \A p \in Probes : ProbeWithEnabled(probes[p], command.enabled) \in ProbeType
        BY <2>1 DEF ProbeWithEnabled, TypeOK, ProbeType, Readings
      <3> QED
        BY <1>10, <3>1 DEF AcceptSetProbeEnabled, TypeOK
    <2>3. alarms' \in [AlarmKeys -> AlarmType]
      BY <1>10, ResolveProbeAlarmsType DEF AcceptSetProbeEnabled, ResolveOnDisable, TypeOK
    <2> QED
      BY <1>10, <2>2, <2>3 DEF AcceptSetProbeEnabled, TypeOK, lifecycleVars
  <1>11. CASE AcceptSetProbeAlarmEnabled
    <2>1. command.enabled \in BOOLEAN
      BY <1>3, <1>11, CommandFields DEF AcceptSetProbeAlarmEnabled, Accepting
    <2>2. probes' \in [Probes -> ProbeType]
      BY <1>11, <2>1 DEF AcceptSetProbeAlarmEnabled, ProbeWithAlarmEnabled, TypeOK, ProbeType
    <2>3. alarms' \in [AlarmKeys -> AlarmType]
      BY <1>11, ResolveProbeAlarmsType DEF AcceptSetProbeAlarmEnabled, ResolveOnDisable, TypeOK
    <2> QED
      BY <1>11, <2>2, <2>3 DEF AcceptSetProbeAlarmEnabled, TypeOK, lifecycleVars
  <1>12. CASE AcceptAcknowledgeAlarm
    <2>1. command.alarm \in AlarmKeys
      BY <1>3, <1>12, CommandFields DEF AcceptAcknowledgeAlarm, Accepting
    <2> QED
      <3>1. [alarms[command.alarm] EXCEPT !.acknowledged = TRUE] \in AlarmType
        BY <2>1, AlarmOperatorsType DEF TypeOK
      <3>2. alarms' \in [AlarmKeys -> AlarmType]
        BY <1>12, <3>1 DEF AcceptAcknowledgeAlarm, TypeOK
      <3> QED
        BY <1>12, <3>2 DEF AcceptAcknowledgeAlarm, TypeOK, lifecycleVars
  <1>13. CASE AcceptClearResolvedFault
    BY <1>13 DEF AcceptClearResolvedFault, TypeOK, SessionType, probeVars
  <1>14. CASE AcceptFirmwareInterlock
    BY <1>14 DEF AcceptFirmwareInterlock, TypeOK, probeVars
  <1> QED
    BY <1>5, <1>6, <1>7, <1>8, <1>9, <1>10, <1>11, <1>12, <1>13, <1>14 DEF ProcessCommand

\* Evaluating the probes keeps the types.
LEMMA EvaluateProbeStatesTypeOK == TypeOK /\ EvaluateProbeStates => TypeOK'
  <1> SUFFICES ASSUME TypeOK, EvaluateProbeStates PROVE TypeOK'
    OBVIOUS
  <1>1. probes' \in [Probes -> ProbeType]
    <2> SUFFICES ASSUME NEW p \in Probes PROVE EvaluatedProbe(probes[p]) \in ProbeType
      BY DEF EvaluateProbeStates
    <2>1. probes[p] \in ProbeType
      BY DEF TypeOK
    <2>2. /\ IsReconnected(probes[p]) \in BOOLEAN
          /\ ReportsDisconnected(probes[p]) \in BOOLEAN
          /\ ReportsTargetReached(probes[p]) \in BOOLEAN
      BY DEF IsReconnected, ReportsDisconnected, ReportsTargetReached
    <2> QED
      BY <2>1, <2>2 DEF EvaluatedProbe, ProbeType
  <1>2. alarms' \in [AlarmKeys -> AlarmType]
    <2> SUFFICES ASSUME NEW k \in AlarmKeys PROVE EvaluatedAlarm(k) \in AlarmType
      BY DEF EvaluateProbeStates
    <2>1. alarms[k] \in AlarmType
      BY DEF TypeOK
    <2>2. Resolved(alarms[k]) \in AlarmType /\ Raised(alarms[k]) \in AlarmType
      BY <2>1, AlarmOperatorsType
    <2> QED
      BY <2>1, <2>2 DEF EvaluatedAlarm
  <1> QED
    BY <1>1, <1>2 DEF EvaluateProbeStates, TypeOK, commandVars, lifecycleVars, inputVars,
                      controllerVars, outputVars

\* Updating the stage timer keeps the types, also when it stops the session.
LEMMA UpdateActiveTimerTypeOK == TypeOK /\ UpdateActiveTimer => TypeOK'
  <1> SUFFICES ASSUME TypeOK, UpdateActiveTimer PROVE TypeOK'
    OBVIOUS
  <1> DEFINE timer == UpdateStageTimer(session.timerConfig, session.timer,
                                       chamberTemperature, ProbeReadings)
  <1>1. session' \in SessionType /\ alarms' \in [AlarmKeys -> AlarmType]
    <2>1. CASE IsRunning /\ session.timerConfig # None
      <3>1. timer \in TimerType
        BY <2>1, TimerUpdateType DEF TypeOK, SessionType
      <3>2. ApplyTimer(timer)
        BY <2>1 DEF UpdateActiveTimer
      <3> HIDE DEF timer
      <3>3. [session EXCEPT !.timer = timer] \in SessionType
        BY <3>1 DEF TypeOK, SessionType
      <3>4. CASE StopRunningSession([session EXCEPT !.timer = timer], "TimerCompleted")
        BY <3>3, <3>4, StopRunningSessionType DEF TypeOK
      <3>5. CASE /\ session' = [session EXCEPT !.timer = timer]
                 /\ alarms' \in {alarms,
                        [alarms EXCEPT ![<<"TimerCompleted", None>>] = Raised(@)]}
        <4>1. <<"TimerCompleted", None>> \in AlarmKeys
          BY DEF AlarmKeys
        <4>2. Raised(alarms[<<"TimerCompleted", None>>]) \in AlarmType
          BY <4>1, AlarmOperatorsType DEF TypeOK
        <4> QED
          BY <3>3, <3>5, <4>2 DEF TypeOK
      <3> QED
        BY <3>2, <3>4, <3>5 DEF ApplyTimer
    <2>2. CASE ~(IsRunning /\ session.timerConfig # None)
      BY <2>2 DEF UpdateActiveTimer, TypeOK
    <2> QED
      BY <2>1, <2>2
  <1> QED
    BY <1>1 DEF UpdateActiveTimer, TypeOK, commandVars, inputVars, controllerVars, outputVars

\* The phases in which only the controller or only the fault latch may change.
LEMMA ControllerTypeOK ==
    TypeOK /\ (RetryControllerReset \/ RequestDemand \/ RequestFails
               \/ QuiesceIneligible \/ QuiesceAfterSafety) => TypeOK'
  <1> SUFFICES ASSUME TypeOK,
                      RetryControllerReset \/ RequestDemand \/ RequestFails
                      \/ QuiesceIneligible \/ QuiesceAfterSafety
               PROVE  TypeOK'
    OBVIOUS
  <1> USE DEF TypeOK, commandVars, lifecycleVars, inputVars, probeVars
  <1>1. CASE RetryControllerReset
    BY <1>1 DEF RetryControllerReset, ResetChamberController, outputVars
  <1>2. CASE RequestDemand
    BY <1>2 DEF RequestDemand, SessionType
  <1>3. CASE RequestFails
    BY <1>3 DEF RequestFails, SessionType, outputVars
  <1>4. CASE QuiesceIneligible
    BY <1>4 DEF QuiesceIneligible, Quiesce, ResetChamberController, controllerVars, outputVars
  <1>5. CASE QuiesceAfterSafety
    BY <1>5 DEF QuiesceAfterSafety, Quiesce, ResetChamberController, controllerVars, outputVars
  <1> QED
    BY <1>1, <1>2, <1>3, <1>4, <1>5

\* Both places that latch a fault keep the types.
LEMMA FaultTypeOK == TypeOK /\ (EvaluateSafety \/ LatchControllerFailure) => TypeOK'
  <1> SUFFICES ASSUME TypeOK, EvaluateSafety \/ LatchControllerFailure PROVE TypeOK'
    OBVIOUS
  <1>1. SafetyFault \in FaultCodes \cup {None} /\ "ControlLoopFailure" \in FaultCodes
    BY DEF SafetyFault, FaultCodes
  <1>2. /\ session' \in SessionType
        /\ alarms' \in [AlarmKeys -> AlarmType]
        /\ activeFault' \in FaultCodes \cup {None}
        /\ controllerFailurePending' \in BOOLEAN
    BY <1>1, RaiseFaultType DEF EvaluateSafety, LatchControllerFailure, TypeOK, controllerVars
  <1> QED
    BY <1>2 DEF EvaluateSafety, LatchControllerFailure, TypeOK, commandVars, inputVars,
                controllerVars, outputVars

\* The gate writes a demand and publishes a snapshot of the right types.
LEMMA WriteHeaterTypeOK == TypeOK /\ WriteHeater => TypeOK'
  <1> SUFFICES ASSUME TypeOK, WriteHeater PROVE TypeOK'
    OBVIOUS
  <1>1. heaterDemand' \in Demands /\ requestedDemand' \in Demands
    BY ConfigurationAssumption DEF WriteHeater, ApplySafetyGate, TypeOK
  <1>2. published' \in SnapshotViews
    BY <1>1 DEF WriteHeater, SnapshotView, SnapshotViews, CurrentSessionStatus, TypeOK,
                SessionType
  <1> QED
    BY <1>1, <1>2 DEF WriteHeater, TypeOK, commandVars, lifecycleVars, inputVars, probeVars,
                      controllerVars

\* Type correctness is inductive.
LEMMA NextTypeOK == TypeOK /\ [Next]_vars => TypeOK'
  <1> SUFFICES ASSUME TypeOK, [Next]_vars PROVE TypeOK'
    OBVIOUS
  <1>1. CASE Tick
    <2>1. CASE CommandsDone
      BY <2>1 DEF CommandsDone, TypeOK, commandVars, lifecycleVars, inputVars, probeVars,
                  controllerVars, outputVars
    <2> QED
      BY <1>1, <2>1, BeginTickTypeOK, ProcessCommandTypeOK, EvaluateProbeStatesTypeOK,
         UpdateActiveTimerTypeOK, ControllerTypeOK, FaultTypeOK, WriteHeaterTypeOK DEF Tick
  <1>2. CASE \E command \in Commands, id \in CorrelationIds \cup {0} : Submit(command, id)
    BY <1>2, SubmitTypeOK
  <1>3. CASE UNCHANGED vars
    BY <1>3 DEF TypeOK, vars, commandVars, lifecycleVars, inputVars, probeVars,
                controllerVars, outputVars
  <1> QED
    BY <1>1, <1>2, <1>3 DEF Next

\* Every variable keeps the type its C++ member has, whatever the application is
\* asked to do and whatever the sensors and the controller answer.
THEOREM TypeCorrect == Spec => []TypeOK
  BY InitTypeOK, NextTypeOK, PTL DEF Spec

----------------------------------------------------------------------------
(* Faults and the firmware interlock exclude a running session.             *)

\* InterlocksExcludeRunning is inductive: Start checks both interlocks, and the
\* actions that set one find the session not running or stop it.
LEMMA InterlocksStep ==
    TypeOK /\ InterlocksExcludeRunning /\ [Next]_vars => InterlocksExcludeRunning'
  <1> SUFFICES ASSUME TypeOK, InterlocksExcludeRunning, [Next]_vars
               PROVE  InterlocksExcludeRunning'
    OBVIOUS
  <1> USE DEF InterlocksExcludeRunning, IsRunning
  <1>1. ASSUME UNCHANGED lifecycleVars PROVE InterlocksExcludeRunning'
    BY <1>1 DEF lifecycleVars
  <1>2. ASSUME NEW code, RaiseFault(code), UNCHANGED firmwareUpdateActive
        PROVE  InterlocksExcludeRunning'
    BY <1>2 DEF RaiseFault, TypeOK, SessionType
  <1>3. CASE BeginTick
    BY <1>3 DEF BeginTick, TypeOK, SessionType
  <1>4. CASE ProcessCommand
    <2>1. CASE AcceptStart
      BY <2>1 DEF AcceptStart, Accepting, Accepts, StartIsAccepted
    <2>2. CASE AcceptStop
      BY <2>2 DEF AcceptStop, StopRunningSession, StoppedSession, TypeOK, SessionType
    <2>3. CASE AcceptSetChamberTarget
      BY <2>3 DEF AcceptSetChamberTarget, TypeOK, SessionType
    <2>4. CASE AcceptClearResolvedFault
      BY <2>4 DEF AcceptClearResolvedFault, Accepting, Accepts, ClearIsAccepted, TypeOK,
                  SessionType
    <2>5. CASE AcceptFirmwareInterlock
      BY <2>5 DEF AcceptFirmwareInterlock, Accepting, Accepts, PrepareIsAccepted,
                  CurrentSessionStatus
    <2>6. CASE AcceptSetProbeTarget \/ AcceptSetProbeEnabled \/ AcceptSetProbeAlarmEnabled
      BY <2>6, <1>1 DEF AcceptSetProbeTarget, AcceptSetProbeEnabled,
                        AcceptSetProbeAlarmEnabled, lifecycleVars
    <2>7. CASE RejectCommand \/ AcceptAcknowledgeAlarm
      BY <2>7, <1>1 DEF RejectCommand, AcceptAcknowledgeAlarm, lifecycleVars
    <2> QED
      BY <1>4, <2>1, <2>2, <2>3, <2>4, <2>5, <2>6, <2>7 DEF ProcessCommand
  <1>5. CASE UpdateActiveTimer
    BY <1>5 DEF UpdateActiveTimer, ApplyTimer, StopRunningSession, StoppedSession, TypeOK,
                SessionType
  <1>6. CASE EvaluateSafety
    BY <1>6, <1>1, <1>2 DEF EvaluateSafety, lifecycleVars
  <1>7. CASE LatchControllerFailure
    BY <1>7, <1>1, <1>2 DEF LatchControllerFailure, lifecycleVars
  <1>8. CASE \/ CommandsDone \/ EvaluateProbeStates \/ RetryControllerReset
             \/ RequestDemand \/ RequestFails \/ QuiesceIneligible
             \/ QuiesceAfterSafety \/ WriteHeater
    BY <1>8, <1>1 DEF CommandsDone, EvaluateProbeStates, RetryControllerReset, RequestDemand,
                      RequestFails, QuiesceIneligible, QuiesceAfterSafety, WriteHeater
  <1>9. CASE \E command \in Commands, id \in CorrelationIds \cup {0} : Submit(command, id)
    BY <1>9, <1>1 DEF Submit
  <1>10. CASE UNCHANGED vars
    BY <1>10, <1>1 DEF vars
  <1> QED
    BY <1>3, <1>4, <1>5, <1>6, <1>7, <1>8, <1>9, <1>10 DEF Next, Tick

\* Neither a latched fault nor the firmware interlock ever coexists with a running
\* session: whatever order Prepare, Finish, Start, Stop, faults and their clearing
\* come in.
THEOREM InterlocksSafe == Spec => []InterlocksExcludeRunning
  <1>1. Init => InterlocksExcludeRunning
    BY DEF Init, InterlocksExcludeRunning, IsRunning, NoSession
  <1> QED
    BY <1>1, InterlocksStep, TypeCorrect, PTL DEF Spec

----------------------------------------------------------------------------
(* A failed controller reset is never forgotten.                            *)

\* FailedResetIsAccountedFor is inductive: each action that can make a reset fail
\* records the failure in the same step.
LEMMA FailedResetStep ==
    TypeOK /\ FailedResetIsAccountedFor /\ [Next]_vars => FailedResetIsAccountedFor'
  <1> SUFFICES ASSUME TypeOK, FailedResetIsAccountedFor, [Next]_vars
               PROVE  FailedResetIsAccountedFor'
    OBVIOUS
  <1> USE DEF FailedResetIsAccountedFor
  <1>1. ASSUME UNCHANGED <<controllerVars, activeFault>> PROVE FailedResetIsAccountedFor'
    BY <1>1 DEF controllerVars
  <1>2. CASE ProcessCommand
    <2>1. CASE AcceptClearResolvedFault
      BY <2>1 DEF AcceptClearResolvedFault, Accepting, Accepts, ClearIsAccepted,
                  FaultConditionIsResolved, Consume, controllerVars
    <2>2. CASE ~AcceptClearResolvedFault
      <3>1. UNCHANGED <<controllerVars, activeFault>>
        BY <1>2, <2>2 DEF ProcessCommand, RejectCommand, AcceptStart, AcceptStop,
           AcceptSetChamberTarget, AcceptSetProbeTarget, AcceptSetProbeEnabled,
           AcceptSetProbeAlarmEnabled, AcceptAcknowledgeAlarm, AcceptFirmwareInterlock,
           Accepting, Consume, lifecycleVars
      <3> QED
        BY <3>1, <1>1
    <2> QED
      BY <2>1, <2>2
  <1>3. CASE RetryControllerReset
    BY <1>3 DEF RetryControllerReset, ResetChamberController, lifecycleVars
  <1>4. CASE RequestDemand
    BY <1>4 DEF RequestDemand
  <1>5. CASE RequestFails
    BY <1>5 DEF RequestFails
  <1>6. ASSUME Quiesce, UNCHANGED activeFault PROVE FailedResetIsAccountedFor'
    BY <1>6 DEF Quiesce, ResetChamberController, controllerVars, TypeOK
  <1>7. CASE QuiesceIneligible \/ QuiesceAfterSafety
    BY <1>7, <1>6 DEF QuiesceIneligible, QuiesceAfterSafety, lifecycleVars
  <1>8. CASE EvaluateSafety
    BY <1>8, ConfigurationAssumption DEF EvaluateSafety, RaiseFault, controllerVars, FaultCodes
  <1>9. CASE LatchControllerFailure
    BY <1>9 DEF LatchControllerFailure, RaiseFault
  <1>10. CASE BeginTick \/ CommandsDone \/ EvaluateProbeStates \/ UpdateActiveTimer \/ WriteHeater
    BY <1>10, <1>1 DEF BeginTick, CommandsDone, EvaluateProbeStates, UpdateActiveTimer,
                       WriteHeater, lifecycleVars
  <1>11. CASE \E command \in Commands, id \in CorrelationIds \cup {0} : Submit(command, id)
    BY <1>11, <1>1 DEF Submit, lifecycleVars
  <1>12. CASE UNCHANGED vars
    BY <1>12, <1>1 DEF vars, lifecycleVars
  <1> QED
    BY <1>2, <1>3, <1>4, <1>5, <1>7, <1>8, <1>9, <1>10, <1>11, <1>12 DEF Next, Tick

\* A controller whose reset failed is working for a session, waits to be latched or
\* is latched, also when another fault masks it and is cleared first.
THEOREM FailedResetSafe == Spec => []FailedResetIsAccountedFor
  <1>1. Init => FailedResetIsAccountedFor
    BY DEF Init, FailedResetIsAccountedFor
  <1> QED
    BY <1>1, FailedResetStep, TypeCorrect, PTL DEF Spec

----------------------------------------------------------------------------
(* The heater.                                                              *)

\* What the interlock needs to know inside a tick: a request exists only between
\* the controller and the output, it was made for an eligible session, and once
\* safety has been evaluated without a fault the inputs are safe.
HeaterInv ==
    /\ phase \notin {"safety", "quiesce", "latch", "output"} => requestedDemand = 0
    /\ requestedDemand > 0 =>
         /\ ~firmwareUpdateActive
         /\ session.target # None
    /\ phase \in {"quiesce", "latch", "output"} /\ activeFault = None => SafetyFault = None
    /\ HeaterInterlock

\* HeaterInv is inductive; only WriteHeater can switch the heater on.
LEMMA HeaterStep == TypeOK /\ HeaterInv /\ [Next]_vars => HeaterInv'
  <1> SUFFICES ASSUME TypeOK, HeaterInv, [Next]_vars PROVE HeaterInv'
    OBVIOUS
  <1> USE DEF HeaterInv, HeaterInterlock
  <1>0. /\ requestedDemand \in 0 .. 100
        /\ heaterDemand \in 0 .. 100
        /\ \A demand \in Demands : demand \in 0 .. 100
    BY ConfigurationAssumption DEF TypeOK
  <1>1. ASSUME phase \notin {"safety", "quiesce", "latch", "output"},
               phase' \notin {"idle", "quiesce", "latch", "output"},
               UNCHANGED requestedDemand
        PROVE  HeaterInv'
    BY <1>1
  <1>2. CASE BeginTick \/ CommandsDone \/ EvaluateProbeStates \/ UpdateActiveTimer
             \/ RetryControllerReset
    BY <1>1, <1>2 DEF BeginTick, CommandsDone, EvaluateProbeStates, UpdateActiveTimer,
                      RetryControllerReset, outputVars
  <1>3. CASE ProcessCommand
    <2>1. /\ phase = "commands"
          /\ phase' \in {"probes", "commands"}
          /\ UNCHANGED requestedDemand
      BY <1>3 DEF ProcessCommand, RejectCommand, AcceptStart, AcceptStop,
           AcceptSetChamberTarget, AcceptSetProbeTarget, AcceptSetProbeEnabled,
           AcceptSetProbeAlarmEnabled, AcceptAcknowledgeAlarm, AcceptClearResolvedFault,
           AcceptFirmwareInterlock, Accepting, Consume, outputVars
    <2> QED
      BY <2>1, <1>1
  <1>4. CASE RequestDemand
    BY <1>4 DEF RequestDemand, ControllerIsEligible, lifecycleVars
  <1>5. CASE RequestFails \/ QuiesceIneligible
    BY <1>1, <1>5 DEF RequestFails, QuiesceIneligible, outputVars
  <1>6. CASE EvaluateSafety
    <2>1. /\ phase' = "quiesce"
          /\ UNCHANGED <<requestedDemand, firmwareUpdateActive, SafetyFault>>
          /\ session'.target = session.target
      BY <1>6 DEF EvaluateSafety, RaiseFault, TypeOK, SessionType, outputVars, inputVars,
                  SafetyFault
    <2>2. activeFault' = None => SafetyFault' = None
      BY <1>6, <2>1, ConfigurationAssumption DEF EvaluateSafety, RaiseFault, SafetyFault, FaultCodes
    <2> QED
      BY <2>1, <2>2
  <1>7. CASE QuiesceAfterSafety
    BY <1>7 DEF QuiesceAfterSafety, lifecycleVars, inputVars, outputVars, SafetyFault
  <1>8. CASE LatchControllerFailure
    <2>1. /\ phase = "latch" /\ phase' = "output"
          /\ UNCHANGED <<requestedDemand, firmwareUpdateActive, SafetyFault>>
          /\ session'.target = session.target
      BY <1>8 DEF LatchControllerFailure, RaiseFault, TypeOK, SessionType, outputVars,
                  inputVars, SafetyFault
    <2>2. activeFault' = None => activeFault = None
      BY <1>8 DEF LatchControllerFailure, RaiseFault
    <2> QED
      BY <2>1, <2>2
  <1>9. CASE WriteHeater
    <2>1. /\ phase = "output" /\ phase' = "idle" /\ requestedDemand' = 0
          /\ UNCHANGED <<session, activeFault, firmwareUpdateActive, chamberTemperature,
                         configurationValid>>
          /\ heaterDemand' = ApplySafetyGate(requestedDemand, CurrentSessionStatus, activeFault)
      BY <1>9 DEF WriteHeater, lifecycleVars, inputVars
    <2>2. ASSUME heaterDemand' > 0
          PROVE  /\ CurrentSessionStatus = "Running" /\ activeFault = None
                 /\ requestedDemand > 0
      BY <2>1, <2>2 DEF ApplySafetyGate
    <2>3. ASSUME SafetyFault = None
          PROVE  /\ configurationValid
                 /\ chamberTemperature # None
                 /\ chamberTemperature <= MaximumChamberTemperature
      <3>1. configurationValid /\ chamberTemperature # None
        BY <2>3, ConfigurationAssumption DEF SafetyFault, FaultCodes
      <3>2. chamberTemperature \in Int /\ MaximumChamberTemperature \in Int
        BY <3>1, TemperatureAssumption DEF TypeOK, Readings
      <3> QED
        BY <2>3, <3>1, <3>2, ConfigurationAssumption DEF SafetyFault, FaultCodes
    <2>4. CurrentSessionStatus' = CurrentSessionStatus
      BY <2>1 DEF CurrentSessionStatus
    <2> QED
      BY <2>1, <2>2, <2>3, <2>4
  <1>10. CASE \E command \in Commands, id \in CorrelationIds \cup {0} : Submit(command, id)
    BY <1>10 DEF Submit, lifecycleVars, inputVars, outputVars, SafetyFault, CurrentSessionStatus
  <1>11. CASE UNCHANGED vars
    BY <1>11 DEF vars, lifecycleVars, inputVars, outputVars, SafetyFault, CurrentSessionStatus
  <1> QED
    BY <1>2, <1>3, <1>4, <1>5, <1>6, <1>7, <1>8, <1>9, <1>10, <1>11 DEF Next, Tick

\* Between two ticks heat implies a running session with a target, no latched fault,
\* no firmware interlock and a valid chamber reading within the limit.
THEOREM HeaterSafe == Spec => []HeaterInterlock
  <1>1. Init => HeaterInv
    BY DEF Init, HeaterInv, HeaterInterlock
  <1>2. HeaterInv => HeaterInterlock
    BY DEF HeaterInv
  <1> QED
    BY <1>1, <1>2, HeaterStep, TypeCorrect, PTL DEF Spec

----------------------------------------------------------------------------
(* The controller serves one session.                                       *)

\* A resolved reset means an empty memory; a working controller remembers at
\* most the current session, which has been running since before the commands, and is
\* eligible once it has been quiesced.
ControllerInv ==
    /\ controllerFaultResolved => controllerMemory = None
    /\ controllerActive => controllerMemory \in {None, session.id}
    /\ phase \in {"idle", "commands"} /\ controllerActive => IsRunning
    /\ phase \in {"latch", "output"} /\ controllerActive => ControllerIsEligible

\* ControllerInv is inductive: a Start is only reached with the controller inactive
\* or its reset accounted for, because a Stop ends the command loop.
LEMMA ControllerStep ==
    TypeOK /\ ControllerInv /\ [Next]_vars => ControllerInv'
  <1> SUFFICES ASSUME TypeOK, ControllerInv, [Next]_vars PROVE ControllerInv'
    OBVIOUS
  <1> USE DEF ControllerInv
  <1>1. ASSUME phase \notin {"idle", "commands", "latch", "output"},
               phase' \notin {"idle", "commands", "latch", "output"},
               session'.id = session.id, UNCHANGED controllerVars
        PROVE  ControllerInv'
    BY <1>1 DEF controllerVars
  <1>2. CASE BeginTick
    BY <1>2 DEF BeginTick, controllerVars, IsRunning, TypeOK, SessionType
  <1>3. CASE ProcessCommand
    <2>1. /\ phase = "commands"
          /\ phase' \in {"probes", "commands"}
          /\ UNCHANGED controllerVars
      BY <1>3 DEF ProcessCommand, RejectCommand, AcceptStart, AcceptStop,
           AcceptSetChamberTarget, AcceptSetProbeTarget, AcceptSetProbeEnabled,
           AcceptSetProbeAlarmEnabled, AcceptAcknowledgeAlarm, AcceptClearResolvedFault,
           AcceptFirmwareInterlock, Accepting, Consume
    <2>2. CASE AcceptStart
      <3>1. ~controllerActive
        BY <2>1, <2>2 DEF AcceptStart, Accepting, Accepts, StartIsAccepted
      <3> QED
        BY <2>1, <3>1 DEF controllerVars
    <2>3. CASE AcceptStop
      <3>1. phase' = "probes" /\ session'.id = session.id
        BY <2>3 DEF AcceptStop, Accepting, Accepts, Consume, IsManualStopBarrier, IsStop,
                    StopRunningSession, StoppedSession, TypeOK, SessionType
      <3> QED
        BY <2>1, <3>1 DEF controllerVars
    <2>4. CASE AcceptSetChamberTarget \/ AcceptClearResolvedFault
      <3>1. session'.id = session.id /\ (IsRunning => IsRunning')
        BY <2>4 DEF AcceptSetChamberTarget, AcceptClearResolvedFault, IsRunning, TypeOK,
                    SessionType
      <3> QED
        BY <2>1, <3>1 DEF controllerVars
    <2>5. CASE \/ RejectCommand \/ AcceptSetProbeTarget \/ AcceptSetProbeEnabled
               \/ AcceptSetProbeAlarmEnabled \/ AcceptAcknowledgeAlarm
               \/ AcceptFirmwareInterlock
      <3>1. UNCHANGED session
        BY <2>5 DEF RejectCommand, AcceptSetProbeTarget, AcceptSetProbeEnabled,
           AcceptSetProbeAlarmEnabled, AcceptAcknowledgeAlarm, AcceptFirmwareInterlock,
           lifecycleVars
      <3> QED
        BY <2>1, <3>1 DEF controllerVars, IsRunning
    <2> QED
      BY <1>3, <2>2, <2>3, <2>4, <2>5 DEF ProcessCommand
  <1>4. CASE CommandsDone
    BY <1>4 DEF CommandsDone, lifecycleVars, controllerVars
  <1>5. CASE EvaluateProbeStates \/ UpdateActiveTimer
    <2>1. session'.id = session.id
      BY <1>5 DEF EvaluateProbeStates, UpdateActiveTimer, ApplyTimer, StopRunningSession,
                  StoppedSession, TypeOK, SessionType, lifecycleVars
    <2> QED
      BY <1>1, <1>5, <2>1 DEF EvaluateProbeStates, UpdateActiveTimer
  <1>6. CASE RetryControllerReset
    BY <1>6 DEF RetryControllerReset, ResetChamberController, lifecycleVars
  <1>7. CASE RequestDemand
    BY <1>7 DEF RequestDemand, lifecycleVars
  <1>8. CASE RequestFails
    BY <1>8 DEF RequestFails, lifecycleVars
  <1>9. CASE QuiesceIneligible
    BY <1>9 DEF QuiesceIneligible, Quiesce, ResetChamberController, lifecycleVars,
                controllerVars, TypeOK
  <1>10. CASE EvaluateSafety
    <2>1. session'.id = session.id
      BY <1>10 DEF EvaluateSafety, RaiseFault, TypeOK, SessionType
    <2> QED
      BY <1>1, <1>10, <2>1 DEF EvaluateSafety
  <1>11. CASE QuiesceAfterSafety
    BY <1>11 DEF QuiesceAfterSafety, Quiesce, ResetChamberController, ControllerIsEligible,
                 IsRunning, lifecycleVars, inputVars, controllerVars, TypeOK
  <1>12. CASE LatchControllerFailure
    <2>1. session'.id = session.id
      BY <1>12 DEF LatchControllerFailure, RaiseFault, TypeOK, SessionType
    <2>2. controllerActive => UNCHANGED <<lifecycleVars, inputVars, controllerVars>>
      BY <1>12 DEF LatchControllerFailure, ControllerIsEligible, lifecycleVars, controllerVars
    <2>3. UNCHANGED <<controllerActive, controllerFaultResolved, controllerMemory>>
      BY <1>12 DEF LatchControllerFailure, controllerVars
    <2>4. phase = "latch" /\ phase' = "output"
      BY <1>12 DEF LatchControllerFailure
    <2> QED
      BY <2>1, <2>2, <2>3, <2>4 DEF ControllerIsEligible, IsRunning, lifecycleVars, inputVars,
                                    controllerVars
  <1>13. CASE WriteHeater
    BY <1>13 DEF WriteHeater, ControllerIsEligible, IsRunning, lifecycleVars, controllerVars
  <1>14. CASE \E command \in Commands, id \in CorrelationIds \cup {0} : Submit(command, id)
    BY <1>14 DEF Submit, IsRunning, lifecycleVars, controllerVars
  <1>15. CASE UNCHANGED vars
    BY <1>15 DEF vars, IsRunning, ControllerIsEligible, lifecycleVars, inputVars, controllerVars
  <1> QED
    BY <1>2, <1>3, <1>4, <1>5, <1>6, <1>7, <1>8, <1>9, <1>10, <1>11, <1>12, <1>13, <1>14, <1>15
       DEF Next, Tick

\* The controller is never asked for a session while it holds the state of another.
THEOREM ControllerSafe == Spec => []ControllerServesOneSession
  <1>1. Init => ControllerInv
    BY DEF Init, ControllerInv
  <1>2. ControllerInv /\ FailedResetIsAccountedFor => ControllerServesOneSession
    <2> SUFFICES ASSUME ControllerInv, FailedResetIsAccountedFor, ControllerIsEligible
                 PROVE  controllerMemory \in {None, session.id}
      BY DEF ControllerServesOneSession
    <2>1. ~controllerFailurePending /\ activeFault # "ControlLoopFailure"
      BY ConfigurationAssumption DEF ControllerIsEligible, FaultCodes
    <2> QED
      BY <2>1 DEF ControllerInv, FailedResetIsAccountedFor
  <1> QED
    BY <1>1, <1>2, ControllerStep, FailedResetSafe, TypeCorrect, PTL DEF Spec

----------------------------------------------------------------------------
(* A Stop always finds room.                                                *)

\* Every step leaves the queue alone, takes its head, or is an admission.
LEMMA QueueStep ==
    TypeOK /\ StopIsNeverShutOut /\ [Next]_vars => StopIsNeverShutOut'
  <1> SUFFICES ASSUME TypeOK, StopIsNeverShutOut, [Next]_vars PROVE StopIsNeverShutOut'
    OBVIOUS
  <1> USE DEF StopIsNeverShutOut
  <1>0. queue \in Seq(QueueEntries) /\ CommandCapacity \in Nat \ {0, 1}
    BY BoundAssumption DEF TypeOK
  <1>1. ASSUME UNCHANGED queue PROVE StopIsNeverShutOut'
    BY <1>1
  <1>2. CASE ProcessCommand
    <2>1. queue # <<>> /\ queue' = Tail(queue)
      <3>1. CASE RejectCommand
        BY <3>1 DEF RejectCommand, Consume
      <3>2. ASSUME NEW types, Accepting(types) PROVE queue # <<>> /\ queue' = Tail(queue)
        BY <3>2 DEF Accepting, Consume
      <3> QED
        BY <1>2, <3>1, <3>2 DEF ProcessCommand, AcceptStart, AcceptStop,
           AcceptSetChamberTarget, AcceptSetProbeTarget, AcceptSetProbeEnabled,
           AcceptSetProbeAlarmEnabled, AcceptAcknowledgeAlarm, AcceptClearResolvedFault,
           AcceptFirmwareInterlock
    <2>2. /\ Len(queue') = Len(queue) - 1
          /\ \A i \in 1 .. Len(queue') : queue'[i] = queue[i + 1]
      BY <1>0, <2>1
    <2>3. Len(queue') < CommandCapacity
      BY <1>0, <2>2
    <2>4. \A i \in 1 .. Len(queue') - 1 :
              ~(IsStop(queue'[i].command) /\ IsStop(queue'[i + 1].command))
      <3> SUFFICES ASSUME NEW i \in 1 .. Len(queue') - 1
                   PROVE  ~(IsStop(queue'[i].command) /\ IsStop(queue'[i + 1].command))
        OBVIOUS
      <3>1. /\ i + 1 \in 1 .. Len(queue) - 1
            /\ queue'[i] = queue[i + 1] /\ queue'[i + 1] = queue[i + 1 + 1]
        BY <1>0, <2>2
      <3> QED
        BY <3>1
    <2> QED
      BY <1>0, <2>3, <2>4, <2>2
  <1>3. ASSUME NEW command \in Commands, NEW id \in CorrelationIds \cup {0},
               Submit(command, id)
        PROVE  StopIsNeverShutOut'
    <2>1. CASE CoalesceStop(command, id)
      <3>1. /\ Len(queue') = Len(queue)
            /\ \A i \in 1 .. Len(queue) : queue'[i].command = queue[i].command
        <4>1. CASE id = 0
          BY <2>1, <4>1 DEF CoalesceStop
        <4>2. CASE id # 0
          <5> DEFINE ids == Window(Append(queue[Len(queue)].coalesced, id),
                                   CommandResultCapacity)
                     entry == [queue[Len(queue)] EXCEPT !.coalesced = ids]
          <5>1. Len(queue) \in 1 .. Len(queue)
            BY <1>0, <2>1 DEF CoalesceStop, TrailingStopIsPending
          <5>2. queue' = [queue EXCEPT ![Len(queue)] = entry]
            BY <2>1, <4>2 DEF CoalesceStop
          <5>3. queue[Len(queue)] \in QueueEntries
            BY <1>0, <5>1
          <5>4. entry.command = queue[Len(queue)].command
            BY <5>3 DEF QueueEntries
          <5> HIDE DEF entry
          <5> QED
            BY <1>0, <5>1, <5>2, <5>4
        <4> QED
          BY <4>1, <4>2
      <3>2. Len(queue) \in Nat
        BY <1>0
      <3>3. Len(queue') = CommandCapacity => IsStop(Last(queue').command)
        BY <1>0, <3>1, <3>2 DEF Last
      <3>4. \A i \in 1 .. Len(queue') - 1 :
                ~(IsStop(queue'[i].command) /\ IsStop(queue'[i + 1].command))
        BY <3>1, <3>2
      <3> QED
        BY <1>0, <3>1, <3>3, <3>4
    <2>2. CASE AdmitCommand(command, id)
      <3> DEFINE entry == [command |-> command, id |-> id, coalesced |-> <<>>]
      <3>1. /\ queue' = Append(queue, entry)
            /\ Len(queue) < AdmissionLimit(command)
            /\ ~(IsStop(command) /\ TrailingStopIsPending)
        BY <2>2 DEF AdmitCommand
      <3>2. entry.command = command
        OBVIOUS
      <3> HIDE DEF entry
      <3>3. /\ Len(queue') = Len(queue) + 1 /\ Len(queue) \in Nat
            /\ queue'[Len(queue')] = entry
            /\ \A i \in 1 .. Len(queue) : queue'[i] = queue[i]
        BY <1>0, <3>1
      <3>4. /\ Len(queue') <= CommandCapacity
            /\ Len(queue') = CommandCapacity => IsStop(command)
        BY <1>0, <3>1, <3>3 DEF AdmissionLimit
      <3>5. Last(queue') = entry
        BY <3>3 DEF Last
      <3>6. \A i \in 1 .. Len(queue') - 1 :
                ~(IsStop(queue'[i].command) /\ IsStop(queue'[i + 1].command))
        <4> SUFFICES ASSUME NEW i \in 1 .. Len(queue),
                            IsStop(queue'[i].command), IsStop(queue'[i + 1].command)
                     PROVE  FALSE
          BY <3>3
        <4>1. CASE i = Len(queue)
          <5>1. queue # <<>> /\ IsStop(Last(queue).command) /\ IsStop(command)
            BY <1>0, <3>2, <3>3, <4>1 DEF Last
          <5> QED
            BY <3>1, <5>1 DEF TrailingStopIsPending, Last
        <4>2. CASE i # Len(queue)
          <5>1. i \in 1 .. Len(queue) - 1 /\ i + 1 \in 1 .. Len(queue)
            BY <3>3, <4>2
          <5> QED
            BY <3>3, <5>1
        <4> QED
          BY <4>1, <4>2
      <3> QED
        BY <3>2, <3>4, <3>5, <3>6
    <2>3. CASE RejectFullQueue(command, id)
      BY <1>1, <2>3 DEF RejectFullQueue
    <2> QED
      BY <1>3, <2>1, <2>2, <2>3 DEF Submit
  <1>4. CASE Tick /\ ~ProcessCommand
    <2>1. UNCHANGED queue
      BY <1>4 DEF Tick, BeginTick, CommandsDone, EvaluateProbeStates, UpdateActiveTimer,
         RetryControllerReset, RequestDemand, RequestFails, QuiesceIneligible,
         EvaluateSafety, QuiesceAfterSafety, LatchControllerFailure, WriteHeater, commandVars
    <2> QED
      BY <1>1, <2>1
  <1>5. CASE UNCHANGED vars
    BY <1>1, <1>5 DEF vars, commandVars
  <1> QED
    BY <1>2, <1>3, <1>4, <1>5 DEF Next

\* However many commands the transports have sent and however often Stop was repeated,
\* only a queue whose last command is a Stop already has no place for another.
THEOREM StopAdmitted == Spec => []StopIsNeverShutOut
  <1>1. Init => StopIsNeverShutOut
    BY BoundAssumption DEF Init, StopIsNeverShutOut
  <1> QED
    BY <1>1, QueueStep, TypeCorrect, PTL DEF Spec

----------------------------------------------------------------------------
(* A Stop turns the heater off.                                              *)

\* A Stop waits while the heater is on, or the tick that took it is not over.
StopPending ==
    /\ heaterDemand > 0
    /\ \/ \E i \in DOMAIN queue : IsStop(queue[i].command)
       \/ phase \notin {"idle", "commands"} /\ ~IsRunning

\* How many statements of tick() there are before the heater is OFF.
StepsToOff ==
    CASE phase = "idle"     -> CommandCapacity + 10
      [] phase = "commands" -> Len(queue) + 9
      [] phase = "probes"   -> 8
      [] phase = "timer"    -> 7
      [] phase = "reset"    -> 6
      [] phase = "control"  -> 5
      [] phase = "safety"   -> 4
      [] phase = "quiesce"  -> 3
      [] phase = "latch"    -> 2
      [] phase = "output"   -> 1

\* A pending Stop is not lost, and every statement of tick() brings the OFF nearer.
StopIsObeyed ==
    /\ [](StepsToOff \in Nat)
    /\ [][StopPending => \/ heaterDemand' = 0
                         \/ StopPending' /\ IF Tick THEN StepsToOff' < StepsToOff
                                            ELSE StepsToOff' = StepsToOff]_vars

\* Heat means a running session as long as commands are drained, and what a drain leaves
\* behind waits for a session that has ended.
DrainInv ==
    /\ phase \in {"idle", "commands"} /\ heaterDemand > 0 => IsRunning
    /\ phase \notin {"idle", "commands"} /\ queue # <<>> => ~IsRunning

\* One command of the drain: the session goes on, or begins, or the drain ends with it.
LEMMA DrainedCommand ==
    ASSUME TypeOK, ProcessCommand
    PROVE  /\ phase = "commands" /\ queue # <<>> /\ queue' = Tail(queue)
           /\ heaterDemand' = heaterDemand
           /\ \/ phase' = "commands" /\ (IsRunning => IsRunning')
                                     /\ (IsRunning => ~IsStop(Head(queue).command))
              \/ phase' = "probes" /\ ~IsRunning'
  <1>1. Consume(TRUE) \/ Consume(FALSE)
    BY DEF ProcessCommand, RejectCommand, Accepting, AcceptStart, AcceptStop,
           AcceptSetChamberTarget, AcceptSetProbeTarget, AcceptSetProbeEnabled,
           AcceptSetProbeAlarmEnabled, AcceptAcknowledgeAlarm, AcceptClearResolvedFault,
           AcceptFirmwareInterlock
  <1>2. phase = "commands" /\ queue # <<>>
    BY DEF ProcessCommand, RejectCommand, Accepting, AcceptStart, AcceptStop,
           AcceptSetChamberTarget, AcceptSetProbeTarget, AcceptSetProbeEnabled,
           AcceptSetProbeAlarmEnabled, AcceptAcknowledgeAlarm, AcceptClearResolvedFault,
           AcceptFirmwareInterlock
  <1>3. /\ queue' = Tail(queue) /\ heaterDemand' = heaterDemand
        /\ phase' = IF IsManualStopBarrier(Head(queue).command) THEN "probes" ELSE "commands"
    BY <1>1 DEF Consume, outputVars
  <1>4. CASE AcceptStop
    <2>1. IsStop(Head(queue).command) /\ IsRunning
      BY <1>4 DEF AcceptStop, Accepting, Accepts, IsStop
    <2>2. session' = StoppedSession(session, "User")
      BY <1>4 DEF AcceptStop, StopRunningSession
    <2>3. session'.status = "Stopped"
      BY <2>2 DEF StoppedSession, TypeOK, SessionType
    <2> QED
      BY <1>2, <1>3, <2>1, <2>3 DEF IsManualStopBarrier, IsRunning
  <1>5. CASE RejectCommand
    <2>1. session' = session /\ ~Accepts(Head(queue).command)
      BY <1>5 DEF RejectCommand, lifecycleVars
    <2>2. IsRunning => ~IsStop(Head(queue).command)
      BY <2>1 DEF Accepts, IsStop
    <2> QED
      BY <1>2, <1>3, <2>1, <2>2 DEF IsManualStopBarrier, IsRunning
  <1>6. ASSUME Head(queue).command.type # "Stop", IsRunning => IsRunning'
        PROVE  phase' = "commands" /\ (IsRunning => ~IsStop(Head(queue).command))
    BY <1>3, <1>6 DEF IsManualStopBarrier, IsStop
  <1>7. CASE AcceptStart
    <2>1. Head(queue).command.type = "Start" /\ session'.status = "Running"
      BY <1>7 DEF AcceptStart, Accepting
    <2> QED
      BY <1>2, <1>3, <1>6, <2>1 DEF IsRunning
  <1>8. CASE AcceptSetChamberTarget
    <2>1. Head(queue).command.type # "Stop" /\ session'.status = session.status
      BY <1>8 DEF AcceptSetChamberTarget, Accepting, TypeOK, SessionType
    <2> QED
      BY <1>2, <1>3, <1>6, <2>1 DEF IsRunning
  <1>9. CASE AcceptClearResolvedFault
    <2>1. Head(queue).command.type # "Stop"
      BY <1>9 DEF AcceptClearResolvedFault, Accepting
    <2>2. session.status = "Running" => session' = session
      BY <1>9 DEF AcceptClearResolvedFault
    <2> QED
      BY <1>2, <1>3, <1>6, <2>1, <2>2 DEF IsRunning
  <1>10. CASE \/ AcceptSetProbeTarget \/ AcceptSetProbeEnabled \/ AcceptSetProbeAlarmEnabled
              \/ AcceptAcknowledgeAlarm \/ AcceptFirmwareInterlock
    <2>1. Head(queue).command.type # "Stop" /\ session' = session
      BY <1>10 DEF AcceptSetProbeTarget, AcceptSetProbeEnabled, AcceptSetProbeAlarmEnabled,
         AcceptAcknowledgeAlarm, AcceptFirmwareInterlock, Accepting, lifecycleVars
    <2> QED
      BY <1>2, <1>3, <1>6, <2>1 DEF IsRunning
  <1> QED
    BY <1>4, <1>5, <1>7, <1>8, <1>9, <1>10 DEF ProcessCommand

\* After the drain no statement of tick() takes a command or starts a session.
LEMMA RestOfTick ==
    ASSUME TypeOK, Tick, ~ProcessCommand, ~BeginTick
    PROVE  /\ queue' = queue /\ phase' # "commands"
           /\ phase = "commands" => queue = <<>>
           /\ ~IsRunning => ~IsRunning'
           /\ phase # "output" => heaterDemand' = heaterDemand /\ phase' # "idle"
           /\ phase # "idle"
  <1>1. CASE CommandsDone
    BY <1>1 DEF CommandsDone, commandVars, lifecycleVars, outputVars, IsRunning
  <1>2. CASE EvaluateProbeStates
    BY <1>2 DEF EvaluateProbeStates, commandVars, lifecycleVars, outputVars, IsRunning
  <1>3. CASE UpdateActiveTimer
    BY <1>3 DEF UpdateActiveTimer, commandVars, outputVars, IsRunning
  <1>4. CASE RetryControllerReset \/ RequestDemand \/ RequestFails \/ QuiesceIneligible
    BY <1>4 DEF RetryControllerReset, RequestDemand, RequestFails, QuiesceIneligible,
                commandVars, lifecycleVars, outputVars, IsRunning
  <1>5. CASE EvaluateSafety \/ LatchControllerFailure
    BY <1>5 DEF EvaluateSafety, LatchControllerFailure, RaiseFault, commandVars, outputVars,
                IsRunning
  <1>6. CASE QuiesceAfterSafety \/ WriteHeater
    BY <1>6 DEF QuiesceAfterSafety, WriteHeater, commandVars, lifecycleVars, outputVars,
                IsRunning
  <1> QED
    BY <1>1, <1>2, <1>3, <1>4, <1>5, <1>6 DEF Tick

\* The heater is written OFF unless a session runs.
LEMMA WrittenOff == WriteHeater /\ ~IsRunning => heaterDemand' = 0
  BY DEF WriteHeater, ApplySafetyGate, CurrentSessionStatus, IsRunning

\* DrainInv is inductive.
LEMMA DrainStep == TypeOK /\ DrainInv /\ [Next]_vars => DrainInv'
  <1> SUFFICES ASSUME TypeOK, DrainInv, [Next]_vars PROVE DrainInv'
    OBVIOUS
  <1> USE DEF DrainInv
  <1>0. heaterDemand \in 0 .. 100 /\ queue \in Seq(QueueEntries)
    BY ConfigurationAssumption DEF TypeOK
  <1>1. CASE BeginTick
    <2>1. /\ phase = "idle" /\ phase' = "commands" /\ heaterDemand' = heaterDemand
          /\ IsRunning => IsRunning'
      BY <1>1 DEF BeginTick, outputVars, IsRunning, TypeOK, SessionType
    <2> QED
      BY <2>1
  <1>2. CASE ProcessCommand
    BY <1>2, DrainedCommand
  <1>3. CASE Tick /\ ~ProcessCommand /\ ~BeginTick
    <2>1. CASE WriteHeater
      <3>1. phase' = "idle" /\ session' = session
        BY <2>1 DEF WriteHeater, lifecycleVars
      <3>2. heaterDemand' > 0 => IsRunning
        BY <2>1, WrittenOff
      <3> QED
        BY <3>1, <3>2 DEF IsRunning
    <2>2. CASE ~WriteHeater
      <3>1. phase # "output"
        BY <1>3, <2>2 DEF Tick, CommandsDone, EvaluateProbeStates, UpdateActiveTimer,
           RetryControllerReset, RequestDemand, RequestFails, QuiesceIneligible,
           EvaluateSafety, QuiesceAfterSafety, LatchControllerFailure
      <3> QED
        BY <1>3, <3>1, RestOfTick
    <2> QED
      BY <2>1, <2>2
  <1>4. ASSUME NEW command \in Commands, NEW id \in CorrelationIds \cup {0},
               Submit(command, id)
        PROVE  DrainInv'
    BY <1>4 DEF Submit, lifecycleVars, outputVars, IsRunning
  <1>5. CASE UNCHANGED vars
    BY <1>5 DEF vars, commandVars, lifecycleVars, outputVars, IsRunning
  <1> QED
    BY <1>1, <1>2, <1>3, <1>4, <1>5 DEF Next

\* A Stop that waits stays in the queue while others are taken before it or added behind it.
LEMMA WaitingStopStays ==
    ASSUME TypeOK, NEW i \in DOMAIN queue, IsStop(queue[i].command),
           \/ queue # <<>> /\ queue' = Tail(queue) /\ ~IsStop(Head(queue).command)
           \/ \E command \in Commands, id \in CorrelationIds \cup {0} : Submit(command, id)
           \/ queue' = queue
    PROVE  \E j \in DOMAIN queue' : IsStop(queue'[j].command)
  <1>0. queue \in Seq(QueueEntries) /\ Len(queue) \in Nat /\ i \in 1 .. Len(queue)
    BY DEF TypeOK
  <1>1. CASE queue # <<>> /\ queue' = Tail(queue) /\ ~IsStop(Head(queue).command)
    <2>1. i # 1
      BY <1>0, <1>1
    <2>2. i - 1 \in DOMAIN queue' /\ queue'[i - 1] = queue[i]
      BY <1>0, <1>1, <2>1
    <2> QED
      BY <2>2
  <1>2. ASSUME NEW command \in Commands, NEW id \in CorrelationIds \cup {0},
               Submit(command, id)
        PROVE  \E j \in DOMAIN queue' : IsStop(queue'[j].command)
    <2>1. CASE CoalesceStop(command, id)
      <3>1. CASE id = 0
        BY <2>1, <3>1 DEF CoalesceStop
      <3>2. CASE id # 0
        <4> DEFINE ids == Window(Append(queue[Len(queue)].coalesced, id), CommandResultCapacity)
                   entry == [queue[Len(queue)] EXCEPT !.coalesced = ids]
        <4>1. Len(queue) \in 1 .. Len(queue)
          BY <1>0
        <4>2. queue' = [queue EXCEPT ![Len(queue)] = entry]
          BY <2>1, <3>2 DEF CoalesceStop
        <4>3. queue[Len(queue)] \in QueueEntries
          BY <1>0, <4>1
        <4>4. entry.command = queue[Len(queue)].command
          BY <4>3 DEF QueueEntries
        <4> HIDE DEF entry
        <4>5. i \in DOMAIN queue' /\ queue'[i].command = queue[i].command
          BY <1>0, <4>2, <4>4
        <4> QED
          BY <4>5
      <3> QED
        BY <3>1, <3>2
    <2>2. CASE AdmitCommand(command, id)
      <3> DEFINE entry == [command |-> command, id |-> id, coalesced |-> <<>>]
      <3>1. queue' = Append(queue, entry)
        BY <2>2 DEF AdmitCommand
      <3> HIDE DEF entry
      <3>2. i \in DOMAIN queue' /\ queue'[i] = queue[i]
        BY <1>0, <3>1
      <3> QED
        BY <3>2
    <2>3. CASE RejectFullQueue(command, id)
      BY <2>3 DEF RejectFullQueue
    <2> QED
      BY <1>2, <2>1, <2>2, <2>3 DEF Submit
  <1> QED
    BY <1>1, <1>2

\* Every statement of tick() but the last brings its end nearer.
LEMMA TickRunsOn ==
    ASSUME TypeOK, StopIsNeverShutOut, Tick, ~WriteHeater
    PROVE  StepsToOff' < StepsToOff /\ phase' # "idle" /\ heaterDemand' = heaterDemand
  <1>0. /\ queue \in Seq(QueueEntries) /\ Len(queue) \in Nat /\ Len(queue) <= CommandCapacity
        /\ CommandCapacity \in Nat
    BY BoundAssumption DEF TypeOK, StopIsNeverShutOut
  <1>1. CASE BeginTick
    <2>1. phase = "idle" /\ phase' = "commands" /\ UNCHANGED <<queue, heaterDemand>>
      BY <1>1 DEF BeginTick, outputVars, commandVars
    <2>2. StepsToOff' = Len(queue) + 9 /\ StepsToOff = CommandCapacity + 10
      BY <2>1 DEF StepsToOff
    <2> QED
      BY <1>0, <2>1, <2>2
  <1>2. CASE ProcessCommand
    <2>1. /\ phase = "commands" /\ queue # <<>> /\ queue' = Tail(queue)
          /\ heaterDemand' = heaterDemand /\ phase' \in {"commands", "probes"}
      BY <1>2, DrainedCommand
    <2>2. Len(queue') = Len(queue) - 1 /\ Len(queue) > 0
      BY <1>0, <2>1
    <2>3. StepsToOff = Len(queue) + 9 /\ (StepsToOff' = Len(queue') + 9 \/ StepsToOff' = 8)
      BY <2>1 DEF StepsToOff
    <2> QED
      BY <1>0, <2>1, <2>2, <2>3
  <1>3. CASE CommandsDone
    <2>1. /\ phase = "commands" /\ phase' = "probes" /\ heaterDemand' = heaterDemand
      BY <1>3 DEF CommandsDone, outputVars
    <2>2. StepsToOff = Len(queue) + 9 /\ StepsToOff' = 8
      BY <2>1 DEF StepsToOff
    <2> QED
      BY <1>0, <2>1, <2>2
  <1>4. CASE ~BeginTick /\ ~ProcessCommand /\ ~CommandsDone
    <2>1. phase # "output" /\ StepsToOff' < StepsToOff
      BY <1>4 DEF Tick, EvaluateProbeStates, UpdateActiveTimer,
         RetryControllerReset, RequestDemand, RequestFails, QuiesceIneligible,
         EvaluateSafety, QuiesceAfterSafety, LatchControllerFailure, StepsToOff
    <2> QED
      BY <1>4, <2>1, RestOfTick
  <1> QED
    BY <1>1, <1>2, <1>3, <1>4

\* A step with a pending Stop.
LEMMA PendingStep ==
    ASSUME TypeOK, DrainInv, StopIsNeverShutOut, StopPending, [Next]_vars
    PROVE  \/ heaterDemand' = 0
           \/ StopPending' /\ IF Tick THEN StepsToOff' < StepsToOff
                              ELSE StepsToOff' = StepsToOff
  <1>0. /\ queue \in Seq(QueueEntries) /\ Len(queue) \in Nat /\ Len(queue) <= CommandCapacity
        /\ CommandCapacity \in Nat
    BY BoundAssumption DEF TypeOK, StopIsNeverShutOut
  <1>1. ASSUME phase \in {"idle", "commands"}
        PROVE  IsRunning /\ \E i \in DOMAIN queue : IsStop(queue[i].command)
    BY <1>1 DEF StopPending, DrainInv
  <1>2. ASSUME phase \notin {"idle", "commands"} PROVE ~IsRunning
    <2>1. ASSUME NEW i \in DOMAIN queue PROVE queue # <<>>
      BY <2>1
    <2> QED
      BY <1>2, <2>1 DEF StopPending, DrainInv
  <1>3. CASE WriteHeater
    <2>1. ~IsRunning
      BY <1>2, <1>3 DEF WriteHeater
    <2> QED
      BY <1>3, <2>1, WrittenOff
  <1>4. CASE Tick /\ ~WriteHeater
    <2>1. StepsToOff' < StepsToOff /\ phase' # "idle" /\ heaterDemand' = heaterDemand
      BY <1>4, TickRunsOn
    <2>2. StopPending'
      <3>1. CASE BeginTick
        <4>1. phase = "idle" /\ UNCHANGED <<queue, heaterDemand>>
          BY <3>1 DEF BeginTick, outputVars, commandVars
        <4> QED
          BY <1>1, <4>1 DEF StopPending
      <3>2. CASE ProcessCommand
        <4>1. PICK i \in DOMAIN queue : IsStop(queue[i].command)
          BY <1>1, <3>2, DrainedCommand
        <4>2. /\ phase = "commands" /\ queue # <<>> /\ queue' = Tail(queue)
          BY <3>2, DrainedCommand
        <4>3. CASE phase' = "probes" /\ ~IsRunning'
          BY <2>1, <4>3 DEF StopPending
        <4>4. CASE phase' = "commands" /\ ~IsStop(Head(queue).command)
          <5>1. \E j \in DOMAIN queue' : IsStop(queue'[j].command)
            BY <4>1, <4>2, <4>4, WaitingStopStays
          <5> QED
            BY <2>1, <5>1 DEF StopPending
        <4> QED
          BY <1>1, <3>2, <4>2, <4>3, <4>4, DrainedCommand
      <3>3. CASE ~ProcessCommand /\ ~BeginTick
        <4>1. phase \notin {"idle", "commands"}
          BY <1>1, <1>4, <3>3, RestOfTick
        <4> QED
          BY <1>2, <1>4, <2>1, <3>3, <4>1, RestOfTick DEF StopPending
      <3> QED
        BY <3>1, <3>2, <3>3
    <2> QED
      BY <1>4, <2>1, <2>2
  <1>5. CASE ~Tick
    <2>1. CASE UNCHANGED vars
      <3>1. UNCHANGED <<phase, queue, heaterDemand, session>>
        BY <2>1 DEF vars, commandVars, lifecycleVars, outputVars
      <3>2. StepsToOff' = StepsToOff /\ StopPending'
        BY <3>1 DEF StepsToOff, StopPending, IsRunning
      <3> QED
        BY <1>5, <3>2
    <2>2. ASSUME NEW command \in Commands, NEW id \in CorrelationIds \cup {0},
                 Submit(command, id)
          PROVE  StopPending' /\ StepsToOff' = StepsToOff
      <3>1. phase = "idle" /\ phase' = "idle" /\ heaterDemand' = heaterDemand
        BY <2>2 DEF Submit, outputVars
      <3>2. PICK i \in DOMAIN queue : IsStop(queue[i].command)
        BY <1>1, <3>1
      <3>3. \E j \in DOMAIN queue' : IsStop(queue'[j].command)
        BY <2>2, <3>2, WaitingStopStays
      <3> QED
        BY <3>1, <3>3 DEF StopPending, StepsToOff
    <2> QED
      BY <1>5, <2>1, <2>2 DEF Next
  <1> QED
    BY <1>3, <1>4, <1>5

\* A Stop that waits while the heater is on is never lost, and the heater is OFF after at most
\* as many statements of tick() as StepsToOff says, whatever is queued before or behind it
\* (SR-003): what is left of StopTurnsHeaterOff is that ControlTask goes on ticking.
THEOREM StopsAreObeyed == Spec => StopIsObeyed
  <1>1. Init => DrainInv
    BY DEF Init, DrainInv
  <1>2. TypeOK /\ DrainInv /\ StopIsNeverShutOut /\ [Next]_vars =>
            (StopPending => \/ heaterDemand' = 0
                            \/ StopPending' /\ IF Tick THEN StepsToOff' < StepsToOff
                                               ELSE StepsToOff' = StepsToOff)
    BY PendingStep
  <1>3. TypeOK => StepsToOff \in Nat
    <2> SUFFICES ASSUME TypeOK PROVE StepsToOff \in Nat
      OBVIOUS
    <2>1. Len(queue) + 9 \in Nat /\ CommandCapacity + 10 \in Nat
      BY BoundAssumption DEF TypeOK
    <2> QED
      BY <2>1 DEF TypeOK, StepsToOff
  <1> QED
    BY <1>1, <1>2, <1>3, DrainStep, TypeCorrect, StopAdmitted, PTL DEF Spec, StopIsObeyed

----------------------------------------------------------------------------
(* The stage timer.                                                         *)

CompletionAlarm == <<"TimerCompleted", None>>

\* A completed timer of a running session has raised its alarm, at any point of a
\* tick: what resolves that alarm also ends the session or starts another.
CompletionIsRaised ==
    IsRunning /\ session.timer.completed =>
        /\ session.timerConfig # None
        /\ session.timerConfig.action = "Notify"
        /\ ~alarms[CompletionAlarm].resolved

\* From the timer's update to the end of the tick, a timer that goes on is short of its
\* duration, so that a fault may freeze it without clamping.
RunsShortOfDuration ==
    phase \in {"reset", "control", "safety", "quiesce", "latch"} /\ IsRunning
      /\ session.timerConfig # None /\ session.timer.started /\ ~session.timer.completed
        => session.timer.sinceStart < session.timerConfig.duration

ElapsedWithinDuration ==
    session.timerConfig # None => session.timer.elapsed <= session.timerConfig.duration

TimerInv == CompletionIsRaised /\ RunsShortOfDuration /\ ElapsedWithinDuration

\* The duration of a session's timer is a positive number.
LEMMA SessionDuration ==
    ASSUME TypeOK, session.timerConfig # None
    PROVE  /\ session.timerConfig \in ValidTimers
           /\ session.timerConfig.duration \in Nat \ {0}
           /\ session.timer \in TimerType
  <1>1. session.timerConfig \in ValidTimers /\ session.timer \in TimerType
    BY DEF TypeOK, SessionType
  <1> QED
    BY <1>1 DEF ValidTimers, IsValidTimerConfiguration, Timers

\* What an update returns: the timer as it was, or a started one whose elapsed time is
\* within the duration and that is completed when it is not short of it.
LEMMA UpdatedTimer ==
    ASSUME NEW config \in ValidTimers, NEW timer \in TimerType, NEW chamber, NEW readings,
           NEW updated, updated = UpdateStageTimer(config, timer, chamber, readings)
    PROVE  /\ timer.completed => updated = timer
           /\ timer.elapsed <= config.duration => updated.elapsed <= config.duration
           /\ updated.started /\ ~updated.completed => updated.sinceStart < config.duration
  <1>1. /\ IsValidTimerConfiguration(config)
        /\ config.duration \in Nat \ {0}
    BY DEF ValidTimers, IsValidTimerConfiguration, Timers
  <1> DEFINE begun == IF timer.started THEN timer ELSE [NoTimer EXCEPT !.started = TRUE]
             elapsed == AtMost(begun.sinceStart, config.duration)
             next == [begun EXCEPT !.elapsed = elapsed,
                                   !.completed = elapsed >= config.duration]
  <1>2. begun \in TimerType
    BY DEF NoTimer, TimerType
  <1>3. begun.sinceStart \in Nat
    BY <1>2 DEF TimerType
  <1>4. /\ elapsed <= config.duration
        /\ ~(elapsed >= config.duration) => begun.sinceStart < config.duration
    BY <1>1, <1>3 DEF AtMost
  <1> HIDE DEF begun, elapsed
  <1>5. /\ next.elapsed = elapsed
        /\ next.completed = (elapsed >= config.duration)
        /\ next.sinceStart = begun.sinceStart
    BY <1>2 DEF TimerType
  <1>6. \/ /\ updated = timer
           /\ timer.completed \/ ~timer.started
        \/ /\ updated = next
           /\ ~timer.completed
    BY <1>1 DEF UpdateStageTimer, begun, elapsed
  <1> HIDE DEF next
  <1> QED
    BY <1>4, <1>5, <1>6

\* Stopping a running session leaves it with an elapsed time within the duration.
LEMMA StoppedTimer ==
    ASSUME NEW running \in SessionType, NEW reason, StopRunningSession(running, reason)
    PROVE  /\ ~IsRunning'
           /\ ElapsedWithinDuration'
  <1> DEFINE frozen == FreezeStageTimer(running.timer)
             clamped == ClampFrozenTimer(frozen, running.timerConfig)
  <1>1. frozen \in TimerType
    BY FrozenTimerType DEF SessionType
  <1>2. /\ session'.status = "Stopped"
        /\ session'.timer = clamped
        /\ session'.timerConfig = running.timerConfig
    BY DEF StopRunningSession, StoppedSession, SessionType
  <1>3. ASSUME running.timerConfig # None
        PROVE  clamped.elapsed <= running.timerConfig.duration
    <2>1. running.timerConfig.duration \in Nat
      BY <1>3 DEF SessionType, ValidTimers, IsValidTimerConfiguration, Timers
    <2>2. clamped.elapsed = AtMost(frozen.elapsed, running.timerConfig.duration)
      BY <1>1, <1>3 DEF ClampFrozenTimer, TimerType
    <2>3. frozen.elapsed \in Nat
      BY <1>1 DEF TimerType
    <2> QED
      BY <2>1, <2>2, <2>3 DEF AtMost
  <1> QED
    BY <1>2, <1>3 DEF IsRunning, ElapsedWithinDuration

\* A step that leaves the session, the phase's part of the tick and the completion alarm.
LEMMA TimerInvFrame ==
    ASSUME TimerInv, UNCHANGED session,
           alarms'[CompletionAlarm].resolved = alarms[CompletionAlarm].resolved,
           phase' \in {"reset", "control", "safety", "quiesce", "latch"}
               => phase \in {"reset", "control", "safety", "quiesce", "latch"}
    PROVE  TimerInv'
  BY DEF TimerInv, CompletionIsRaised, RunsShortOfDuration, ElapsedWithinDuration, IsRunning,
         CompletionAlarm

\* A fault stops the session, and with it the timer, before it can complete.
LEMMA TimerFault ==
    ASSUME TypeOK, TimerInv, NEW code, RaiseFault(code), phase \in {"safety", "latch"}
    PROVE  TimerInv'
  <1>0. session \in SessionType /\ session.timer \in TimerType
    BY DEF TypeOK, SessionType
  <1>1. CASE IsRunning
    <2>1. /\ session'.status = "Fault"
          /\ session'.timer = FreezeStageTimer(session.timer)
          /\ session'.timerConfig = session.timerConfig
      BY <1>0, <1>1 DEF RaiseFault, SessionType
    <2>2. ASSUME session.timerConfig # None
          PROVE  FreezeStageTimer(session.timer).elapsed <= session.timerConfig.duration
      <3>1. /\ session.timerConfig.duration \in Nat
            /\ session.timer.elapsed \in Nat
            /\ session.timer.sinceStart \in Nat
        BY <2>2, SessionDuration DEF TimerType
      <3>2. session.timer.elapsed <= session.timerConfig.duration
        BY <2>2 DEF TimerInv, ElapsedWithinDuration
      <3>3. session.timer.started /\ ~session.timer.completed
              => session.timer.sinceStart < session.timerConfig.duration
        BY <1>1, <2>2 DEF TimerInv, RunsShortOfDuration
      <3>4. FreezeStageTimer(session.timer).elapsed =
              IF session.timer.started /\ ~session.timer.completed
              THEN session.timer.sinceStart ELSE session.timer.elapsed
        BY <1>0 DEF FreezeStageTimer, TimerType
      <3> QED
        BY <3>1, <3>2, <3>3, <3>4
    <2> QED
      BY <2>1, <2>2 DEF TimerInv, CompletionIsRaised, RunsShortOfDuration,
                        ElapsedWithinDuration, IsRunning
  <1>2. CASE ~IsRunning
    <2>1. UNCHANGED session
      BY <1>2 DEF RaiseFault
    <2> QED
      BY <1>2, <2>1 DEF TimerInv, CompletionIsRaised, RunsShortOfDuration,
                        ElapsedWithinDuration, IsRunning
  <1> QED
    BY <1>1, <1>2

\* A command starts a session with a timer that is not completed, stops one, or leaves the
\* timer alone.
LEMMA TimerCommand ==
    TypeOK /\ TimerInv /\ ProcessCommand => TimerInv'
  <1> SUFFICES ASSUME TypeOK, TimerInv, ProcessCommand PROVE TimerInv'
    OBVIOUS
  <1>0. session \in SessionType /\ alarms \in [AlarmKeys -> AlarmType]
        /\ CompletionAlarm \in AlarmKeys
    BY DEF TypeOK, CompletionAlarm, AlarmKeys
  <1>1. phase' \in {"probes", "commands"}
    BY DEF ProcessCommand, RejectCommand, AcceptStart, AcceptStop,
           AcceptSetChamberTarget, AcceptSetProbeTarget, AcceptSetProbeEnabled,
           AcceptSetProbeAlarmEnabled, AcceptAcknowledgeAlarm, AcceptClearResolvedFault,
           AcceptFirmwareInterlock, Accepting, Consume
  <1>2. ASSUME NEW codes, NEW p, CompletionAlarm \notin codes \X {p},
               ResolveProbeAlarms(codes, p)
        PROVE  alarms'[CompletionAlarm] = alarms[CompletionAlarm]
    BY <1>0, <1>2 DEF ResolveProbeAlarms
  <1>3. \A p : CompletionAlarm \notin {"ProbeTargetReached"} \X {p}
               /\ CompletionAlarm \notin {"ProbeTargetReached", "ProbeDisconnected"} \X {p}
    BY DEF CompletionAlarm
  <1>4. CASE AcceptStart
    <2>1. /\ session'.timer = NoTimer
          /\ session'.timerConfig = Head(queue).command.recipe.timer
      BY <1>4 DEF AcceptStart
    <2>2. session' \in SessionType
      BY ProcessCommandTypeOK DEF TypeOK
    <2>3. session'.timerConfig # None => session'.timerConfig.duration \in Nat \ {0}
      BY <2>2 DEF SessionType, ValidTimers, IsValidTimerConfiguration, Timers
    <2>4. ~session'.timer.completed /\ session'.timer.elapsed = 0
      BY <2>1 DEF NoTimer
    <2> QED
      BY <1>1, <2>3, <2>4 DEF TimerInv, CompletionIsRaised, RunsShortOfDuration,
                              ElapsedWithinDuration
  <1>5. CASE AcceptStop
    BY <1>0, <1>1, <1>5, StoppedTimer DEF AcceptStop, TimerInv, CompletionIsRaised,
       RunsShortOfDuration
  <1>6. CASE AcceptSetChamberTarget
    <2>1. /\ session'.status = session.status
          /\ session'.timer = session.timer
          /\ session'.timerConfig = session.timerConfig
          /\ UNCHANGED alarms
      BY <1>0, <1>6 DEF AcceptSetChamberTarget, SessionType, probeVars
    <2> QED
      BY <1>1, <2>1 DEF TimerInv, CompletionIsRaised, RunsShortOfDuration,
                        ElapsedWithinDuration, IsRunning
  <1>7. CASE AcceptClearResolvedFault
    <2>1. /\ session'.timer = session.timer
          /\ session'.timerConfig = session.timerConfig
          /\ UNCHANGED alarms
          /\ IsRunning' => IsRunning
      BY <1>0, <1>7 DEF AcceptClearResolvedFault, SessionType, probeVars, IsRunning
    <2> QED
      BY <1>1, <2>1 DEF TimerInv, CompletionIsRaised, RunsShortOfDuration,
                        ElapsedWithinDuration
  <1>8. CASE RejectCommand \/ AcceptFirmwareInterlock
    BY <1>1, <1>8, TimerInvFrame DEF RejectCommand, AcceptFirmwareInterlock, lifecycleVars,
       probeVars
  <1>9. CASE AcceptSetProbeTarget \/ AcceptSetProbeEnabled \/ AcceptSetProbeAlarmEnabled
    <2>1. UNCHANGED session /\ alarms'[CompletionAlarm] = alarms[CompletionAlarm]
      BY <1>2, <1>3, <1>9 DEF AcceptSetProbeTarget, AcceptSetProbeEnabled,
         AcceptSetProbeAlarmEnabled, ResolveOnDisable, lifecycleVars
    <2> QED
      BY <1>1, <2>1, TimerInvFrame
  <1>10. CASE AcceptAcknowledgeAlarm
    <2>1. \A k \in AlarmKeys : alarms'[k].resolved = alarms[k].resolved
      BY <1>0, <1>10 DEF AcceptAcknowledgeAlarm, AlarmType
    <2> QED
      BY <1>0, <1>1, <1>10, <2>1, TimerInvFrame DEF AcceptAcknowledgeAlarm, lifecycleVars
  <1> QED
    BY <1>4, <1>5, <1>6, <1>7, <1>8, <1>9, <1>10 DEF ProcessCommand

\* The update completes a timer, raises its alarm or ends its session, all in one step.
LEMMA TimerUpdate ==
    TypeOK /\ TimerInv /\ UpdateActiveTimer => TimerInv'
  <1> SUFFICES ASSUME TypeOK, TimerInv, UpdateActiveTimer PROVE TimerInv'
    OBVIOUS
  <1>0. session \in SessionType /\ alarms \in [AlarmKeys -> AlarmType]
        /\ CompletionAlarm \in AlarmKeys
    BY DEF TypeOK, CompletionAlarm, AlarmKeys
  <1>p. phase' = "reset"
    BY DEF UpdateActiveTimer
  <1>1. CASE ~(IsRunning /\ session.timerConfig # None)
    <2>1. UNCHANGED <<session, alarms>>
      BY <1>1 DEF UpdateActiveTimer
    <2> QED
      BY <1>1, <2>1 DEF TimerInv, CompletionIsRaised, RunsShortOfDuration,
                        ElapsedWithinDuration, IsRunning, CompletionAlarm
  <1>2. CASE IsRunning /\ session.timerConfig # None
    <2> DEFINE timer == UpdateStageTimer(session.timerConfig, session.timer,
                                         chamberTemperature, ProbeReadings)
               updated == [session EXCEPT !.timer = timer]
    <2>1. ApplyTimer(timer)
      BY <1>2 DEF UpdateActiveTimer
    <2>2. timer \in TimerType
      BY <1>2, SessionDuration, TimerUpdateType
    <2>3. /\ session.timer.completed => timer = session.timer
          /\ timer.elapsed <= session.timerConfig.duration
          /\ timer.started /\ ~timer.completed
               => timer.sinceStart < session.timerConfig.duration
      BY <1>2, SessionDuration, UpdatedTimer DEF TimerInv, ElapsedWithinDuration
    <2> HIDE DEF timer
    <2>4. /\ updated \in SessionType /\ updated.timer = timer
          /\ updated.timerConfig = session.timerConfig
          /\ updated.status = session.status
      BY <1>0, <2>2 DEF SessionType
    <2> HIDE DEF updated
    <2>5. CASE timer.completed /\ ~session.timer.completed
               /\ session.timerConfig.action = "StopSession"
      <3>1. StopRunningSession(updated, "TimerCompleted")
        BY <2>1, <2>5 DEF ApplyTimer, updated
      <3> QED
        BY <2>4, <3>1, StoppedTimer DEF TimerInv, CompletionIsRaised, RunsShortOfDuration
    <2>6. CASE timer.completed /\ ~session.timer.completed
               /\ session.timerConfig.action # "StopSession"
      <3>1. /\ session' = updated
            /\ alarms' = [alarms EXCEPT ![CompletionAlarm] = Raised(@)]
        BY <2>1, <2>6 DEF ApplyTimer, CompletionAlarm, updated
      <3>2. ~alarms'[CompletionAlarm].resolved
        BY <1>0, <3>1 DEF Raised
      <3>3. session.timerConfig.action = "Notify"
        BY <1>2, <2>6, SessionDuration DEF ValidTimers, Timers
      <3> QED
        BY <1>2, <2>3, <2>4, <2>6, <3>1, <3>2, <3>3
        DEF TimerInv, CompletionIsRaised, RunsShortOfDuration, ElapsedWithinDuration
    <2>7. CASE timer.completed => session.timer.completed
      <3>1. session' = updated /\ alarms' = alarms
        BY <2>1, <2>7 DEF ApplyTimer, updated
      <3>2. timer.completed => CompletionIsRaised /\ session.timer.completed
        BY <2>7 DEF TimerInv
      <3> QED
        BY <1>2, <2>3, <2>4, <3>1, <3>2
        DEF TimerInv, CompletionIsRaised, RunsShortOfDuration, ElapsedWithinDuration,
            CompletionAlarm, IsRunning
    <2> QED
      BY <2>5, <2>6, <2>7
  <1> QED
    BY <1>1, <1>2

\* Every step keeps what the timer shows true.
LEMMA TimerStep ==
    TypeOK /\ TimerInv /\ [Next]_vars => TimerInv'
  <1> SUFFICES ASSUME TypeOK, TimerInv, [Next]_vars PROVE TimerInv'
    OBVIOUS
  <1>0. session \in SessionType /\ alarms \in [AlarmKeys -> AlarmType]
        /\ CompletionAlarm \in AlarmKeys
    BY DEF TypeOK, CompletionAlarm, AlarmKeys
  <1>1. CASE BeginTick
    <2>1. PICK elapse \in Elapses :
              session' = IF IsRunning
                         THEN [session EXCEPT !.timer = Aged(session.timer, elapse)]
                         ELSE session
      BY <1>1 DEF BeginTick
    <2>2. /\ Aged(session.timer, elapse).elapsed = session.timer.elapsed
          /\ Aged(session.timer, elapse).completed = session.timer.completed
      BY <1>0 DEF Aged, SessionType, TimerType
    <2>3. /\ session'.timer.elapsed = session.timer.elapsed
          /\ session'.timer.completed = session.timer.completed
          /\ session'.timerConfig = session.timerConfig
          /\ session'.status = session.status
      BY <1>0, <2>1, <2>2 DEF SessionType
    <2> QED
      BY <1>1, <2>3 DEF BeginTick, TimerInv, CompletionIsRaised, RunsShortOfDuration,
                        ElapsedWithinDuration, IsRunning, CompletionAlarm
  <1>2. CASE EvaluateProbeStates
    <2>1. EvaluatedAlarm(CompletionAlarm) = alarms[CompletionAlarm]
      BY DEF EvaluatedAlarm, CompletionAlarm
    <2> QED
      BY <1>0, <1>2, <2>1, TimerInvFrame DEF EvaluateProbeStates, lifecycleVars
  <1>3. CASE EvaluateSafety
    BY <1>3, TimerFault, TimerInvFrame DEF EvaluateSafety
  <1>4. CASE LatchControllerFailure
    BY <1>4, TimerFault, TimerInvFrame DEF LatchControllerFailure
  <1>5. CASE \/ RetryControllerReset \/ RequestDemand \/ RequestFails \/ QuiesceIneligible
             \/ QuiesceAfterSafety \/ WriteHeater \/ CommandsDone
    BY <1>5, TimerInvFrame DEF RetryControllerReset, RequestDemand, RequestFails,
       QuiesceIneligible, QuiesceAfterSafety, WriteHeater, CommandsDone, lifecycleVars,
       probeVars
  <1>6. CASE \E command \in Commands, id \in CorrelationIds \cup {0} : Submit(command, id)
    BY <1>6, TimerInvFrame DEF Submit, lifecycleVars, probeVars
  <1>7. CASE UNCHANGED vars
    BY <1>7, TimerInvFrame DEF vars, lifecycleVars, probeVars
  <1> QED
    BY <1>1, <1>2, <1>3, <1>4, <1>5, <1>6, <1>7, TimerCommand, TimerUpdate DEF Next, Tick

\* A timer that completed in a running session has its alarm and never one that stops
\* the session, and its elapsed time never exceeds the duration, whichever of Stop,
\* fault and completion come in one tick.
THEOREM TimerSafe == Spec => []TimerCompletionTakesEffect
  <1>1. Init => TimerInv
    BY DEF Init, TimerInv, CompletionIsRaised, RunsShortOfDuration, ElapsedWithinDuration,
           IsRunning, NoSession, NoTimer
  <1>2. TimerInv => TimerCompletionTakesEffect
    BY DEF TimerInv, TimerCompletionTakesEffect, CompletionIsRaised, ElapsedWithinDuration,
           CompletionAlarm
  <1> QED
    BY <1>1, <1>2, TimerStep, TypeCorrect, PTL DEF Spec

----------------------------------------------------------------------------
(* Probe alarms.                                                            *)

TargetAlarm(p) == <<"ProbeTargetReached", p>>
DisconnectAlarm(p) == <<"ProbeDisconnected", p>>

\* The probes have been evaluated in this tick, and nothing has changed them since.
ProbesAreEvaluated == phase \notin {"commands", "probes"}

\* A raised alarm belongs to a running session and to the settings of its probe.
RaisedAlarmsAreOfSettings ==
    \A k \in AlarmKeys : ~alarms[k].resolved =>
        /\ IsRunning
        /\ k[1] # "TimerCompleted" => probes[k[2]].enabled /\ probes[k[2]].alarmEnabled
        /\ k[1] = "ProbeTargetReached" => probes[k[2]].target # None

\* After the evaluation a sampled probe whose disconnection alarm is raised has no
\* temperature.
RaisedAlarmsAreOfSamples ==
    ProbesAreEvaluated =>
        \A p \in Probes : ~alarms[DisconnectAlarm(p)].resolved /\ probes[p].sampled
            => probes[p].temperature = None

DisabledProbesHaveNoSample ==
    \A p \in Probes : ~probes[p].enabled =>
        probes[p].temperature = None /\ probes[p].reading = None

\* A latch that keeps an alarm from being raised again is set only while that alarm is
\* raised, or no session runs.
LatchesAreOfRaisedAlarms ==
    IsRunning => \A p \in Probes :
        /\ probes[p].targetAlarmEmitted => ~alarms[TargetAlarm(p)].resolved
        /\ probes[p].disconnectedAlarmEmitted => ~alarms[DisconnectAlarm(p)].resolved

\* After the evaluation a probe that calls for an alarm has it.
AlarmsAreRaised ==
    ProbesAreEvaluated /\ IsRunning => \A p \in Probes :
        IsEvaluated(probes[p]) /\ probes[p].alarmEnabled =>
            /\ probes[p].temperature = None => ~alarms[DisconnectAlarm(p)].resolved
            /\ probes[p].temperature # None /\ probes[p].target # None
                 /\ probes[p].temperature >= probes[p].target
                 => ~alarms[TargetAlarm(p)].resolved

AlarmInv ==
    /\ RaisedAlarmsAreOfSettings
    /\ RaisedAlarmsAreOfSamples
    /\ DisabledProbesHaveNoSample
    /\ LatchesAreOfRaisedAlarms
    /\ AlarmsAreRaised

\* An alarm is of a probe or of none.
LEMMA AlarmKeyCases ==
    /\ \A p \in Probes : TargetAlarm(p) \in AlarmKeys /\ DisconnectAlarm(p) \in AlarmKeys
    /\ \A k \in AlarmKeys :
          \/ k = <<"TimerCompleted", None>>
          \/ \E p \in Probes : k = TargetAlarm(p) \/ k = DisconnectAlarm(p)
    /\ \A p \in Probes : /\ TargetAlarm(p)[1] = "ProbeTargetReached"
                         /\ TargetAlarm(p)[2] = p
                         /\ DisconnectAlarm(p)[1] = "ProbeDisconnected"
                         /\ DisconnectAlarm(p)[2] = p
  BY DEF AlarmKeys, TargetAlarm, DisconnectAlarm

\* A step that ends the session, or finds none, resolves every alarm.
LEMMA SessionEnds ==
    ASSUME TypeOK, AlarmInv, ResolveAllAlarms, ~IsRunning', UNCHANGED probes
    PROVE  AlarmInv'
  <1>1. \A k \in AlarmKeys : alarms'[k].resolved
    BY DEF ResolveAllAlarms, Resolved, TypeOK, AlarmType
  <1>2. DisabledProbesHaveNoSample'
    BY DEF AlarmInv, DisabledProbesHaveNoSample
  <1> QED
    BY <1>1, <1>2, AlarmKeyCases DEF AlarmInv, RaisedAlarmsAreOfSettings,
       RaisedAlarmsAreOfSamples, LatchesAreOfRaisedAlarms, AlarmsAreRaised

\* A step that leaves the probes and their alarms alone.
LEMMA AlarmFrame ==
    ASSUME AlarmInv, UNCHANGED probes, IsRunning' = IsRunning,
           ProbesAreEvaluated' => ProbesAreEvaluated,
           \A p \in Probes :
              /\ alarms'[TargetAlarm(p)].resolved = alarms[TargetAlarm(p)].resolved
              /\ alarms'[DisconnectAlarm(p)].resolved = alarms[DisconnectAlarm(p)].resolved,
           ~alarms'[<<"TimerCompleted", None>>].resolved => IsRunning
    PROVE  AlarmInv'
  <1>1. RaisedAlarmsAreOfSettings'
    <2> SUFFICES ASSUME NEW k \in AlarmKeys, ~alarms'[k].resolved
                 PROVE  /\ IsRunning
                        /\ k[1] # "TimerCompleted"
                             => probes[k[2]].enabled /\ probes[k[2]].alarmEnabled
                        /\ k[1] = "ProbeTargetReached" => probes[k[2]].target # None
      BY DEF RaisedAlarmsAreOfSettings
    <2>1. CASE k = <<"TimerCompleted", None>>
      BY <2>1
    <2>2. CASE \E p \in Probes : k = TargetAlarm(p) \/ k = DisconnectAlarm(p)
      BY <2>2 DEF AlarmInv, RaisedAlarmsAreOfSettings
    <2> QED
      BY <2>1, <2>2, AlarmKeyCases
  <1> QED
    BY <1>1 DEF AlarmInv, RaisedAlarmsAreOfSamples, DisabledProbesHaveNoSample,
       LatchesAreOfRaisedAlarms, AlarmsAreRaised, IsEvaluated

\* A step that leaves the probes and the alarms alone.
LEMMA AlarmStutter ==
    ASSUME AlarmInv, UNCHANGED <<probes, alarms>>, IsRunning' = IsRunning,
           ProbesAreEvaluated' => ProbesAreEvaluated
    PROVE  AlarmInv'
  <1>1. <<"TimerCompleted", None>> \in AlarmKeys
    BY DEF AlarmKeys
  <1> QED
    BY <1>1, AlarmFrame DEF AlarmInv, RaisedAlarmsAreOfSettings

\* Before the evaluation a command may change the settings of a probe as long as it
\* keeps or resolves the alarms, resolves what the settings rule out, and clears the
\* latch of what it resolves.
LEMMA SettingsChange ==
    ASSUME AlarmInv, UNCHANGED session, phase' \in {"commands", "probes"},
           DisabledProbesHaveNoSample',
           \A k \in AlarmKeys : ~alarms'[k].resolved => ~alarms[k].resolved,
           \A p \in Probes :
              /\ ~alarms'[TargetAlarm(p)].resolved =>
                    probes'[p].enabled /\ probes'[p].alarmEnabled /\ probes'[p].target # None
              /\ ~alarms'[DisconnectAlarm(p)].resolved =>
                    probes'[p].enabled /\ probes'[p].alarmEnabled
              /\ probes'[p].targetAlarmEmitted =>
                    /\ probes[p].targetAlarmEmitted
                    /\ alarms'[TargetAlarm(p)].resolved = alarms[TargetAlarm(p)].resolved
              /\ probes'[p].disconnectedAlarmEmitted =>
                    /\ probes[p].disconnectedAlarmEmitted
                    /\ alarms'[DisconnectAlarm(p)].resolved
                         = alarms[DisconnectAlarm(p)].resolved
    PROVE  AlarmInv'
  <1>1. RaisedAlarmsAreOfSettings'
    <2> SUFFICES ASSUME NEW k \in AlarmKeys, ~alarms'[k].resolved
                 PROVE  /\ IsRunning
                        /\ k[1] # "TimerCompleted"
                             => probes'[k[2]].enabled /\ probes'[k[2]].alarmEnabled
                        /\ k[1] = "ProbeTargetReached" => probes'[k[2]].target # None
      BY DEF RaisedAlarmsAreOfSettings, IsRunning
    <2>1. IsRunning
      BY DEF AlarmInv, RaisedAlarmsAreOfSettings
    <2> QED
      BY <2>1, AlarmKeyCases
  <1>2. RaisedAlarmsAreOfSamples' /\ AlarmsAreRaised'
    BY DEF RaisedAlarmsAreOfSamples, AlarmsAreRaised, ProbesAreEvaluated
  <1>3. LatchesAreOfRaisedAlarms'
    BY DEF AlarmInv, LatchesAreOfRaisedAlarms, IsRunning
  <1> QED
    BY <1>1, <1>2, <1>3 DEF AlarmInv

\* Resolving some alarms of one probe leaves the others as they are.
LEMMA ResolvedOfProbe ==
    ASSUME TypeOK, NEW codes, NEW q, ResolveProbeAlarms(codes, q), NEW k \in AlarmKeys
    PROVE  /\ k \in codes \X {q} => alarms'[k].resolved
           /\ k \notin codes \X {q} => alarms'[k] = alarms[k]
           /\ ~alarms'[k].resolved => ~alarms[k].resolved
  BY DEF ResolveProbeAlarms, Resolved, TypeOK, AlarmType

\* One probe's evaluation: what its alarms and latches are afterwards.
LEMMA EvaluationOfProbe ==
    ASSUME TypeOK, AlarmInv, EvaluateProbeStates, NEW p \in Probes
    PROVE  LET probe == probes[p]
               next == probes'[p]
               target == alarms'[TargetAlarm(p)]
               disconnect == alarms'[DisconnectAlarm(p)]
           IN  /\ next.enabled = probe.enabled /\ next.alarmEnabled = probe.alarmEnabled
               /\ next.target = probe.target /\ next.temperature = probe.temperature
               /\ next.reading = probe.reading /\ next.sampled = probe.sampled
               /\ next.targetAlarmEmitted
                    = (probe.targetAlarmEmitted \/ ReportsTargetReached(probe))
               /\ next.disconnectedAlarmEmitted
                    = ((probe.disconnectedAlarmEmitted /\ ~IsReconnected(probe))
                          \/ ReportsDisconnected(probe))
               /\ target.resolved = (alarms[TargetAlarm(p)].resolved
                                       /\ ~ReportsTargetReached(probe))
               /\ disconnect.resolved =
                     IF IsReconnected(probe) THEN TRUE
                     ELSE alarms[DisconnectAlarm(p)].resolved /\ ~ReportsDisconnected(probe)
  <1> DEFINE probe == probes[p]
  <1>1. /\ probe \in ProbeType
        /\ probes'[p] = EvaluatedProbe(probe)
        /\ IsReconnected(probe) \in BOOLEAN
        /\ ReportsDisconnected(probe) \in BOOLEAN
        /\ ReportsTargetReached(probe) \in BOOLEAN
    BY DEF EvaluateProbeStates, TypeOK, IsReconnected, ReportsDisconnected,
           ReportsTargetReached
  <1>2. /\ probes'[p].targetAlarmEmitted
             = (probe.targetAlarmEmitted \/ ReportsTargetReached(probe))
        /\ probes'[p].disconnectedAlarmEmitted
             = ((probe.disconnectedAlarmEmitted /\ ~IsReconnected(probe))
                          \/ ReportsDisconnected(probe))
        /\ probes'[p].enabled = probe.enabled /\ probes'[p].alarmEnabled = probe.alarmEnabled
        /\ probes'[p].target = probe.target /\ probes'[p].temperature = probe.temperature
        /\ probes'[p].reading = probe.reading /\ probes'[p].sampled = probe.sampled
    <2> DEFINE disconnected == (probe.disconnectedAlarmEmitted /\ ~IsReconnected(probe))
                                  \/ ReportsDisconnected(probe)
               targeted == probe.targetAlarmEmitted \/ ReportsTargetReached(probe)
    <2>1. EvaluatedProbe(probe) = [probe EXCEPT !.disconnectedAlarmEmitted = disconnected,
                                                !.targetAlarmEmitted = targeted]
      BY DEF EvaluatedProbe
    <2> HIDE DEF probe, disconnected, targeted
    <2>2. LET next == EvaluatedProbe(probe)
          IN  /\ next.targetAlarmEmitted = targeted
              /\ next.disconnectedAlarmEmitted = disconnected
              /\ next.enabled = probe.enabled /\ next.alarmEnabled = probe.alarmEnabled
              /\ next.target = probe.target /\ next.temperature = probe.temperature
              /\ next.reading = probe.reading /\ next.sampled = probe.sampled
      BY <1>1, <2>1 DEF ProbeType
    <2> QED BY <1>1, <2>2 DEF disconnected, targeted
  <1>3. /\ TargetAlarm(p) \in AlarmKeys /\ DisconnectAlarm(p) \in AlarmKeys
        /\ alarms[TargetAlarm(p)] \in AlarmType /\ alarms[DisconnectAlarm(p)] \in AlarmType
    BY AlarmKeyCases DEF TypeOK
  <1>4. alarms'[TargetAlarm(p)] = EvaluatedAlarm(TargetAlarm(p))
        /\ alarms'[DisconnectAlarm(p)] = EvaluatedAlarm(DisconnectAlarm(p))
    BY <1>3 DEF EvaluateProbeStates
  <1>5. EvaluatedAlarm(TargetAlarm(p))
          = IF ReportsTargetReached(probe) THEN Raised(alarms[TargetAlarm(p)])
            ELSE alarms[TargetAlarm(p)]
    <2> DEFINE k == TargetAlarm(p)
    <2>1. k[1] = "ProbeTargetReached" /\ k[1] # "ProbeDisconnected" /\ k[2] = p
      BY AlarmKeyCases
    <2> HIDE DEF k
    <2>2. EvaluatedAlarm(k)
            = IF ReportsTargetReached(probes[k[2]]) THEN Raised(alarms[k]) ELSE alarms[k]
      BY <2>1, Zenon DEF EvaluatedAlarm
    <2> QED BY <2>1, <2>2 DEF k
  <1>6. EvaluatedAlarm(DisconnectAlarm(p))
          = IF IsReconnected(probe) THEN Resolved(alarms[DisconnectAlarm(p)])
            ELSE IF ReportsDisconnected(probe) THEN Raised(alarms[DisconnectAlarm(p)])
            ELSE alarms[DisconnectAlarm(p)]
    <2> DEFINE k == DisconnectAlarm(p)
    <2>1. k[1] = "ProbeDisconnected" /\ k[1] # "ProbeTargetReached" /\ k[2] = p
      BY AlarmKeyCases
    <2> HIDE DEF k
    <2>2. EvaluatedAlarm(k)
            = IF IsReconnected(probes[k[2]]) THEN Resolved(alarms[k])
              ELSE IF ReportsDisconnected(probes[k[2]]) THEN Raised(alarms[k])
              ELSE alarms[k]
      <3>1. ~(IsReconnected(probes[k[2]]) /\ ReportsDisconnected(probes[k[2]]))
        BY DEF IsReconnected, ReportsDisconnected
      <3>2. CASE IsReconnected(probes[k[2]])
        BY <2>1, <3>1, <3>2 DEF EvaluatedAlarm
      <3>3. CASE ~IsReconnected(probes[k[2]]) /\ ReportsDisconnected(probes[k[2]])
        BY <2>1, <3>3 DEF EvaluatedAlarm
      <3>4. CASE ~IsReconnected(probes[k[2]]) /\ ~ReportsDisconnected(probes[k[2]])
        BY <2>1, <3>4 DEF EvaluatedAlarm
      <3> QED BY <3>2, <3>3, <3>4
    <2> QED BY <2>1, <2>2 DEF k
  <1>7. /\ Raised(alarms[TargetAlarm(p)]).resolved = FALSE
        /\ Raised(alarms[DisconnectAlarm(p)]).resolved = FALSE
        /\ Resolved(alarms[DisconnectAlarm(p)]).resolved = TRUE
    BY <1>3 DEF Raised, Resolved, AlarmType
  <1>8. alarms[TargetAlarm(p)].resolved \in BOOLEAN
        /\ alarms[DisconnectAlarm(p)].resolved \in BOOLEAN
    BY <1>3 DEF AlarmType
  <1>9. alarms'[TargetAlarm(p)].resolved = (alarms[TargetAlarm(p)].resolved
                                       /\ ~ReportsTargetReached(probe))
    <2>1. CASE ReportsTargetReached(probe)
      BY <1>4, <1>5, <1>7, <2>1
    <2>2. CASE ~ReportsTargetReached(probe)
      BY <1>4, <1>5, <1>8, <2>2
    <2> QED BY <2>1, <2>2
  <1>10. alarms'[DisconnectAlarm(p)].resolved =
                     IF IsReconnected(probe) THEN TRUE
                     ELSE alarms[DisconnectAlarm(p)].resolved /\ ~ReportsDisconnected(probe)
    <2>1. CASE IsReconnected(probe)
      BY <1>3, <1>4, <1>6, <2>1 DEF Resolved, AlarmType
    <2>2. CASE ~IsReconnected(probe) /\ ReportsDisconnected(probe)
      BY <1>4, <1>6, <1>7, <2>2
    <2>3. CASE ~IsReconnected(probe) /\ ~ReportsDisconnected(probe)
      BY <1>4, <1>6, <1>8, <2>3
    <2> QED BY <2>1, <2>2, <2>3
  <1> QED
    BY <1>2, <1>9, <1>10

\* The evaluation raises what calls for an alarm and resolves what no longer does.
LEMMA EvaluationStep ==
    TypeOK /\ AlarmInv /\ EvaluateProbeStates => AlarmInv'
  <1> SUFFICES ASSUME TypeOK, AlarmInv, EvaluateProbeStates PROVE AlarmInv'
    OBVIOUS
  <1>1. /\ UNCHANGED session
        /\ IsRunning' = IsRunning
    BY DEF EvaluateProbeStates, lifecycleVars, IsRunning
  <1>2. ASSUME NEW p \in Probes
        PROVE  /\ \/ probes'[p].enabled
                  \/ probes'[p].temperature = None /\ probes'[p].reading = None
               /\ ~alarms'[TargetAlarm(p)].resolved =>
                     /\ IsRunning /\ probes'[p].enabled /\ probes'[p].alarmEnabled
                     /\ probes'[p].target # None
               /\ ~alarms'[DisconnectAlarm(p)].resolved =>
                     /\ IsRunning /\ probes'[p].enabled /\ probes'[p].alarmEnabled
                     /\ probes'[p].sampled => probes'[p].temperature = None
               /\ IsRunning =>
                     /\ probes'[p].targetAlarmEmitted => ~alarms'[TargetAlarm(p)].resolved
                     /\ probes'[p].disconnectedAlarmEmitted
                          => ~alarms'[DisconnectAlarm(p)].resolved
               /\ IsRunning /\ IsEvaluated(probes'[p]) /\ probes'[p].alarmEnabled =>
                     /\ probes'[p].temperature = None
                          => ~alarms'[DisconnectAlarm(p)].resolved
                     /\ probes'[p].temperature # None /\ probes'[p].target # None
                          /\ probes'[p].temperature >= probes'[p].target
                          => ~alarms'[TargetAlarm(p)].resolved
    <2> DEFINE probe == probes[p]
               before(k) == alarms[k].resolved
               t == TargetAlarm(p)
               d == DisconnectAlarm(p)
    <2>1. /\ t \in AlarmKeys /\ d \in AlarmKeys
          /\ t[1] = "ProbeTargetReached" /\ t[2] = p
          /\ d[1] = "ProbeDisconnected" /\ d[2] = p
      BY AlarmKeyCases
    <2>2. /\ ~alarms[t].resolved => /\ IsRunning /\ probe.enabled /\ probe.alarmEnabled
                                    /\ probe.target # None
          /\ ~alarms[d].resolved => IsRunning /\ probe.enabled /\ probe.alarmEnabled
      BY <2>1 DEF AlarmInv, RaisedAlarmsAreOfSettings
    <2>3. /\ \/ probe.enabled
             \/ probe.temperature = None /\ probe.reading = None
          /\ IsRunning => /\ probe.targetAlarmEmitted => ~alarms[t].resolved
                          /\ probe.disconnectedAlarmEmitted => ~alarms[d].resolved
      BY DEF AlarmInv, DisabledProbesHaveNoSample, LatchesAreOfRaisedAlarms
    <2>4. /\ probes'[p].enabled = probe.enabled
          /\ probes'[p].alarmEnabled = probe.alarmEnabled
          /\ probes'[p].target = probe.target
          /\ probes'[p].temperature = probe.temperature
          /\ probes'[p].reading = probe.reading
          /\ probes'[p].sampled = probe.sampled
          /\ probes'[p].targetAlarmEmitted
               = (probe.targetAlarmEmitted \/ ReportsTargetReached(probe))
          /\ probes'[p].disconnectedAlarmEmitted
               = ((probe.disconnectedAlarmEmitted /\ ~IsReconnected(probe))
                     \/ ReportsDisconnected(probe))
          /\ alarms'[t].resolved = (alarms[t].resolved /\ ~ReportsTargetReached(probe))
          /\ alarms'[d].resolved =
                IF IsReconnected(probe) THEN TRUE
                ELSE alarms[d].resolved /\ ~ReportsDisconnected(probe)
      BY EvaluationOfProbe
    <2> HIDE DEF probe, t, d
    <2>5. /\ ~alarms'[t].resolved => ~alarms[t].resolved \/ ReportsTargetReached(probe)
          /\ ~alarms'[d].resolved => /\ ~IsReconnected(probe)
                                     /\ ~alarms[d].resolved \/ ReportsDisconnected(probe)
          /\ ReportsTargetReached(probe) => ~alarms'[t].resolved
          /\ ReportsDisconnected(probe) /\ ~IsReconnected(probe) => ~alarms'[d].resolved
          /\ ~alarms[t].resolved => ~alarms'[t].resolved
          /\ ~alarms[d].resolved /\ ~IsReconnected(probe) => ~alarms'[d].resolved
          /\ probes'[p].targetAlarmEmitted =>
                probe.targetAlarmEmitted \/ ReportsTargetReached(probe)
          /\ probes'[p].disconnectedAlarmEmitted =>
                \/ probe.disconnectedAlarmEmitted /\ ~IsReconnected(probe)
                \/ ReportsDisconnected(probe)
      BY <2>4
    <2>6. IsEvaluated(probes'[p]) = IsEvaluated(probe)
      BY <2>4 DEF IsEvaluated
    <2> QED
      BY <2>2, <2>3, <2>4, <2>5, <2>6 DEF ReportsTargetReached, ReportsDisconnected,
         IsReconnected, IsEvaluated, t, d
  <1>3. alarms'[<<"TimerCompleted", None>>] = alarms[<<"TimerCompleted", None>>]
        /\ <<"TimerCompleted", None>> \in AlarmKeys
    BY DEF EvaluateProbeStates, EvaluatedAlarm, AlarmKeys
  <1>4. RaisedAlarmsAreOfSettings'
    <2> SUFFICES ASSUME NEW k \in AlarmKeys, ~alarms'[k].resolved
                 PROVE  /\ IsRunning
                        /\ k[1] # "TimerCompleted"
                             => probes'[k[2]].enabled /\ probes'[k[2]].alarmEnabled
                        /\ k[1] = "ProbeTargetReached" => probes'[k[2]].target # None
      BY <1>1 DEF RaisedAlarmsAreOfSettings
    <2>1. CASE k = <<"TimerCompleted", None>>
      BY <1>3, <2>1 DEF AlarmInv, RaisedAlarmsAreOfSettings
    <2>2. ASSUME NEW p \in Probes, k = TargetAlarm(p) \/ k = DisconnectAlarm(p)
          PROVE  /\ IsRunning
                 /\ probes'[k[2]].enabled /\ probes'[k[2]].alarmEnabled
                 /\ k[1] = "ProbeTargetReached" => probes'[k[2]].target # None
      BY <1>2, <2>2, AlarmKeyCases
    <2> QED
      BY <2>1, <2>2, AlarmKeyCases
  <1>5. LatchesAreOfRaisedAlarms' /\ DisabledProbesHaveNoSample'
    BY <1>1, <1>2 DEF LatchesAreOfRaisedAlarms, DisabledProbesHaveNoSample
  <1>6. RaisedAlarmsAreOfSamples'
    BY <1>2 DEF RaisedAlarmsAreOfSamples
  <1>7. AlarmsAreRaised'
    BY <1>1, <1>2 DEF AlarmsAreRaised
  <1> QED
    BY <1>4, <1>5, <1>6, <1>7 DEF AlarmInv

\* A new acquisition: the alarms and what they depend on stay, the samples change.
LEMMA AcquisitionStep ==
    TypeOK /\ AlarmInv /\ BeginTick => AlarmInv'
  <1> SUFFICES ASSUME TypeOK, AlarmInv, BeginTick PROVE AlarmInv'
    OBVIOUS
  <1>1. phase' = "commands" /\ UNCHANGED alarms /\ IsRunning' = IsRunning
    <2>1. session \in SessionType
      BY DEF TypeOK
    <2> QED
      BY <2>1 DEF BeginTick, IsRunning, SessionType
  <1>2. PICK readings \in [Probes -> Readings] :
           probes' = [p \in Probes |-> AcquireProbe(probes[p], readings[p])]
    BY DEF BeginTick
  <1>3. ASSUME NEW p \in Probes
        PROVE  /\ probes'[p].enabled = probes[p].enabled
               /\ probes'[p].alarmEnabled = probes[p].alarmEnabled
               /\ probes'[p].target = probes[p].target
               /\ probes'[p].targetAlarmEmitted = probes[p].targetAlarmEmitted
               /\ probes'[p].disconnectedAlarmEmitted = probes[p].disconnectedAlarmEmitted
               /\ ~probes'[p].enabled
                    => probes'[p].temperature = None /\ probes'[p].reading = None
    <2>1. probes'[p] = AcquireProbe(probes[p], readings[p]) /\ probes[p] \in ProbeType
      BY <1>2 DEF TypeOK
    <2> QED
      BY <2>1 DEF AcquireProbe, ProbeType
  <1>4. RaisedAlarmsAreOfSettings'
    <2> SUFFICES ASSUME NEW k \in AlarmKeys, ~alarms[k].resolved
                 PROVE  /\ IsRunning
                        /\ k[1] # "TimerCompleted"
                             => probes'[k[2]].enabled /\ probes'[k[2]].alarmEnabled
                        /\ k[1] = "ProbeTargetReached" => probes'[k[2]].target # None
      BY <1>1 DEF RaisedAlarmsAreOfSettings
    <2>1. k[1] # "TimerCompleted" => k[2] \in Probes
      BY DEF AlarmKeys
    <2>2. k[1] = "ProbeTargetReached" => k[1] # "TimerCompleted"
      OBVIOUS
    <2> QED
      BY <1>3, <2>1, <2>2 DEF AlarmInv, RaisedAlarmsAreOfSettings
  <1>5. LatchesAreOfRaisedAlarms'
    BY <1>1, <1>3 DEF AlarmInv, LatchesAreOfRaisedAlarms
  <1>6. DisabledProbesHaveNoSample'
    BY <1>3 DEF DisabledProbesHaveNoSample
  <1> QED
    BY <1>1, <1>4, <1>5, <1>6 DEF AlarmInv, RaisedAlarmsAreOfSamples, AlarmsAreRaised,
       ProbesAreEvaluated

\* What a command does to the alarms and to what they depend on.
LEMMA AlarmCommand ==
    TypeOK /\ AlarmInv /\ ProcessCommand => AlarmInv'
  <1> SUFFICES ASSUME TypeOK, AlarmInv, ProcessCommand PROVE AlarmInv'
    OBVIOUS
  <1> DEFINE command == Head(queue).command
  <1>0. /\ session \in SessionType
        /\ alarms \in [AlarmKeys -> AlarmType]
        /\ probes \in [Probes -> ProbeType]
    BY DEF TypeOK
  <1>1. phase' \in {"probes", "commands"} /\ phase = "commands" /\ queue # <<>>
    BY DEF ProcessCommand, RejectCommand, AcceptStart, AcceptStop,
           AcceptSetChamberTarget, AcceptSetProbeTarget, AcceptSetProbeEnabled,
           AcceptSetProbeAlarmEnabled, AcceptAcknowledgeAlarm, AcceptClearResolvedFault,
           AcceptFirmwareInterlock, Accepting, Consume
  <1>2. command \in Commands
    <2>1. queue \in Seq(QueueEntries)
      BY DEF TypeOK
    <2>2. Head(queue) \in QueueEntries
      BY <1>1, <2>1
    <2> QED
      BY <2>2 DEF QueueEntries
  <1>3. CASE AcceptStart
    <2>1. \A k \in AlarmKeys : alarms'[k].resolved
      BY <1>0, <1>3 DEF AcceptStart, ResolveAllAlarms, Resolved, AlarmType
    <2>2. ASSUME NEW p \in Probes
          PROVE  /\ ~probes'[p].targetAlarmEmitted /\ ~probes'[p].disconnectedAlarmEmitted
                 /\ ~probes'[p].enabled
                      => probes'[p].temperature = None /\ probes'[p].reading = None
      <3>1. probes'[p] = ProbeAtStart(p)
        BY <1>3 DEF AcceptStart
      <3> QED
        BY <1>0, <3>1, ConfigurationAssumption DEF ProbeAtStart, ProbeType
    <2> QED
      BY <1>1, <2>1, <2>2, AlarmKeyCases DEF AlarmInv, RaisedAlarmsAreOfSettings,
         RaisedAlarmsAreOfSamples, DisabledProbesHaveNoSample, LatchesAreOfRaisedAlarms,
         AlarmsAreRaised, ProbesAreEvaluated
  <1>4. CASE AcceptStop
    <2>1. ~IsRunning'
      BY <1>0, <1>4 DEF AcceptStop, StopRunningSession, StoppedSession, IsRunning, SessionType
    <2> QED
      BY <1>4, <2>1, SessionEnds DEF AcceptStop, StopRunningSession
  <1>5. CASE AcceptSetProbeTarget
    <2>0. command.probe \in Probes /\ UNCHANGED session
      BY <1>5 DEF AcceptSetProbeTarget, Accepting, Accepts, ProbeCommandIsAccepted,
                  lifecycleVars
    <2>1. ResolveProbeAlarms({"ProbeTargetReached"}, command.probe)
      BY <1>5 DEF AcceptSetProbeTarget
    <2>2. \A k \in AlarmKeys : ~alarms'[k].resolved => ~alarms[k].resolved
      BY <2>1, ResolvedOfProbe
    <2>3. ASSUME NEW p \in Probes
          PROVE  /\ p # command.probe => alarms'[TargetAlarm(p)] = alarms[TargetAlarm(p)]
                 /\ p = command.probe => alarms'[TargetAlarm(p)].resolved
                 /\ alarms'[DisconnectAlarm(p)] = alarms[DisconnectAlarm(p)]
      BY <2>1, AlarmKeyCases, ResolvedOfProbe DEF TargetAlarm, DisconnectAlarm
    <2>4. ASSUME NEW p \in Probes
          PROVE  /\ p # command.probe => probes'[p] = probes[p]
                 /\ p = command.probe => ~probes'[p].targetAlarmEmitted
                 /\ probes'[p].disconnectedAlarmEmitted = probes[p].disconnectedAlarmEmitted
                 /\ probes'[p].enabled = probes[p].enabled
                 /\ probes'[p].alarmEnabled = probes[p].alarmEnabled
                 /\ probes'[p].temperature = probes[p].temperature
                 /\ probes'[p].reading = probes[p].reading
      BY <1>0, <1>5 DEF AcceptSetProbeTarget, ProbeType
    <2>5. DisabledProbesHaveNoSample'
      BY <2>4 DEF AlarmInv, DisabledProbesHaveNoSample
    <2>6. ASSUME NEW p \in Probes
          PROVE  /\ ~alarms[TargetAlarm(p)].resolved =>
                       probes[p].enabled /\ probes[p].alarmEnabled /\ probes[p].target # None
                 /\ ~alarms[DisconnectAlarm(p)].resolved =>
                       probes[p].enabled /\ probes[p].alarmEnabled
      BY AlarmKeyCases DEF AlarmInv, RaisedAlarmsAreOfSettings
    <2> HIDE DEF command
    <2> QED
      BY <1>1, <2>0, <2>2, <2>3, <2>4, <2>5, <2>6, SettingsChange
  <1>6. ASSUME AcceptSetProbeEnabled \/ AcceptSetProbeAlarmEnabled
        PROVE  AlarmInv'
    <2>0. command.probe \in Probes /\ UNCHANGED session /\ command.enabled \in BOOLEAN
      BY <1>2, <1>6, CommandFields DEF AcceptSetProbeEnabled, AcceptSetProbeAlarmEnabled,
         Accepting, Accepts, ProbeCommandIsAccepted, lifecycleVars
    <2>1. ResolveOnDisable(command)
      BY <1>6 DEF AcceptSetProbeEnabled, AcceptSetProbeAlarmEnabled
    <2>2. \A k \in AlarmKeys : ~alarms'[k].resolved => ~alarms[k].resolved
      BY <2>1, ResolvedOfProbe DEF ResolveOnDisable
    <2>3. ASSUME NEW p \in Probes
          PROVE  /\ p # command.probe \/ command.enabled =>
                       /\ alarms'[TargetAlarm(p)] = alarms[TargetAlarm(p)]
                       /\ alarms'[DisconnectAlarm(p)] = alarms[DisconnectAlarm(p)]
                 /\ p = command.probe /\ ~command.enabled =>
                       /\ alarms'[TargetAlarm(p)].resolved
                       /\ alarms'[DisconnectAlarm(p)].resolved
      BY <2>1, AlarmKeyCases, ResolvedOfProbe DEF ResolveOnDisable, TargetAlarm,
         DisconnectAlarm
    <2>4. ASSUME NEW p \in Probes
          PROVE  /\ ~alarms[TargetAlarm(p)].resolved =>
                       probes[p].enabled /\ probes[p].alarmEnabled /\ probes[p].target # None
                 /\ ~alarms[DisconnectAlarm(p)].resolved =>
                       probes[p].enabled /\ probes[p].alarmEnabled
      BY AlarmKeyCases DEF AlarmInv, RaisedAlarmsAreOfSettings
    <2>5. \A p \in Probes : p # command.probe => probes'[p] = probes[p]
      BY <1>0, <1>6 DEF AcceptSetProbeEnabled, AcceptSetProbeAlarmEnabled
    <2>6. LET q == command.probe
          IN  /\ ~probes'[q].targetAlarmEmitted /\ ~probes'[q].disconnectedAlarmEmitted
              /\ probes'[q].target = probes[q].target
              /\ command.enabled => /\ probes[q].enabled => probes'[q].enabled
                                    /\ probes[q].alarmEnabled => probes'[q].alarmEnabled
              /\ ~probes'[q].enabled
                   => probes'[q].temperature = None /\ probes'[q].reading = None
      <3>0. probes[command.probe] \in ProbeType
        BY <1>0, <2>0
      <3>1. CASE AcceptSetProbeEnabled
        <4>1. probes'[command.probe] = ProbeWithEnabled(probes[command.probe], command.enabled)
          BY <1>0, <2>0, <3>1 DEF AcceptSetProbeEnabled
        <4> QED
          BY <2>0, <3>0, <4>1 DEF ProbeWithEnabled, ProbeType
      <3>2. CASE AcceptSetProbeAlarmEnabled
        <4>1. probes'[command.probe]
                = ProbeWithAlarmEnabled(probes[command.probe], command.enabled)
          BY <1>0, <2>0, <3>2 DEF AcceptSetProbeAlarmEnabled
        <4>2. ~probes[command.probe].enabled
                => /\ probes[command.probe].temperature = None
                   /\ probes[command.probe].reading = None
          BY <2>0 DEF AlarmInv, DisabledProbesHaveNoSample
        <4> QED
          BY <2>0, <3>0, <4>1, <4>2 DEF ProbeWithAlarmEnabled, ProbeType
      <3> QED
        BY <1>6, <3>1, <3>2
    <2>7. DisabledProbesHaveNoSample'
      BY <2>5, <2>6 DEF AlarmInv, DisabledProbesHaveNoSample
    <2> HIDE DEF command
    <2> QED
      BY <1>1, <2>0, <2>2, <2>3, <2>4, <2>5, <2>6, <2>7, SettingsChange
  <1>7. CASE AcceptSetChamberTarget \/ RejectCommand \/ AcceptFirmwareInterlock
    <2>1. UNCHANGED <<probes, alarms>> /\ IsRunning' = IsRunning
      BY <1>0, <1>7 DEF AcceptSetChamberTarget, RejectCommand, AcceptFirmwareInterlock,
         IsRunning, SessionType, lifecycleVars, probeVars
    <2> QED
      BY <1>1, <2>1, AlarmStutter DEF ProbesAreEvaluated
  <1>8. CASE AcceptClearResolvedFault
    <2>1. UNCHANGED <<probes, alarms>> /\ IsRunning' = IsRunning
      BY <1>0, <1>8 DEF AcceptClearResolvedFault, IsRunning, SessionType, probeVars
    <2> QED
      BY <1>1, <2>1, AlarmStutter DEF ProbesAreEvaluated
  <1>9. CASE AcceptAcknowledgeAlarm
    <2>1. \A k \in AlarmKeys : alarms'[k].resolved = alarms[k].resolved
      BY <1>0, <1>9 DEF AcceptAcknowledgeAlarm, AlarmType
    <2>2. UNCHANGED probes /\ IsRunning' = IsRunning
      BY <1>9 DEF AcceptAcknowledgeAlarm, lifecycleVars, IsRunning
    <2>3. ~alarms[<<"TimerCompleted", None>>].resolved => IsRunning
      BY DEF AlarmInv, RaisedAlarmsAreOfSettings, AlarmKeys
    <2>4. <<"TimerCompleted", None>> \in AlarmKeys
      BY DEF AlarmKeys
    <2> QED
      BY <1>1, <2>1, <2>2, <2>3, <2>4, AlarmKeyCases, AlarmFrame DEF ProbesAreEvaluated
  <1> QED
    BY <1>3, <1>4, <1>5, <1>6, <1>7, <1>8, <1>9 DEF ProcessCommand

\* The timer's update raises an alarm of its own, or ends the session.
LEMMA AlarmTimer ==
    TypeOK /\ AlarmInv /\ UpdateActiveTimer => AlarmInv'
  <1> SUFFICES ASSUME TypeOK, AlarmInv, UpdateActiveTimer PROVE AlarmInv'
    OBVIOUS
  <1>0. /\ session \in SessionType
        /\ alarms \in [AlarmKeys -> AlarmType]
        /\ UNCHANGED probes
        /\ ProbesAreEvaluated' => ProbesAreEvaluated
    BY DEF TypeOK, UpdateActiveTimer, ProbesAreEvaluated
  <1> DEFINE timer == UpdateStageTimer(session.timerConfig, session.timer,
                                       chamberTemperature, ProbeReadings)
             updated == [session EXCEPT !.timer = timer]
  <1>1. CASE UNCHANGED <<session, alarms>>
    BY <1>0, <1>1, AlarmStutter DEF IsRunning
  <1>2. ASSUME StopRunningSession(updated, "TimerCompleted")
        PROVE  AlarmInv'
    <2>1. ~IsRunning'
      BY <1>0, <1>2 DEF StopRunningSession, StoppedSession, IsRunning, SessionType
    <2> QED
      BY <1>0, <1>2, <2>1, SessionEnds DEF StopRunningSession
  <1>3. ASSUME IsRunning, session' = updated,
               \/ UNCHANGED alarms
               \/ alarms' = [alarms EXCEPT ![<<"TimerCompleted", None>>] = Raised(@)]
        PROVE  AlarmInv'
    <2>1. IsRunning'
      BY <1>0, <1>3 DEF IsRunning, SessionType
    <2>2. \A k \in AlarmKeys : k # <<"TimerCompleted", None>> => alarms'[k] = alarms[k]
      BY <1>0, <1>3
    <2>3. \A p \in Probes : /\ alarms'[TargetAlarm(p)] = alarms[TargetAlarm(p)]
                            /\ alarms'[DisconnectAlarm(p)] = alarms[DisconnectAlarm(p)]
      BY <2>2, AlarmKeyCases
    <2> HIDE DEF updated
    <2> QED
      BY <1>0, <1>3, <2>1, <2>3, AlarmFrame
  <1> QED
    BY <1>1, <1>2, <1>3 DEF UpdateActiveTimer, ApplyTimer

\* Every step keeps the alarms of the probes true.
LEMMA AlarmStep ==
    TypeOK /\ AlarmInv /\ [Next]_vars => AlarmInv'
  <1> SUFFICES ASSUME TypeOK, AlarmInv, [Next]_vars PROVE AlarmInv'
    OBVIOUS
  <1>1. ASSUME NEW code, RaiseFault(code), UNCHANGED probes, ProbesAreEvaluated
        PROVE  AlarmInv'
    <2>1. ~IsRunning'
      <3>1. session \in SessionType
        BY DEF TypeOK
      <3> QED
        BY <1>1, <3>1 DEF RaiseFault, IsRunning, SessionType
    <2> QED
      BY <1>1, <2>1, SessionEnds DEF RaiseFault
  <1>2. CASE EvaluateSafety
    BY <1>1, <1>2, AlarmStutter DEF EvaluateSafety, ProbesAreEvaluated, IsRunning
  <1>3. CASE LatchControllerFailure
    BY <1>1, <1>3, AlarmStutter DEF LatchControllerFailure, ProbesAreEvaluated, IsRunning
  <1>4. CASE \/ RetryControllerReset \/ RequestDemand \/ RequestFails \/ QuiesceIneligible
             \/ QuiesceAfterSafety \/ WriteHeater \/ CommandsDone
    BY <1>4, AlarmStutter DEF RetryControllerReset, RequestDemand, RequestFails,
       QuiesceIneligible, QuiesceAfterSafety, WriteHeater, CommandsDone, lifecycleVars,
       probeVars, ProbesAreEvaluated, IsRunning
  <1>5. CASE \E command \in Commands, id \in CorrelationIds \cup {0} : Submit(command, id)
    BY <1>5, AlarmStutter DEF Submit, lifecycleVars, probeVars, ProbesAreEvaluated, IsRunning
  <1>6. CASE UNCHANGED vars
    BY <1>6, AlarmStutter DEF vars, lifecycleVars, probeVars, ProbesAreEvaluated, IsRunning
  <1> QED
    BY <1>2, <1>3, <1>4, <1>5, <1>6, EvaluationStep, AcquisitionStep, AlarmCommand,
       AlarmTimer DEF Next, Tick

\* At first there is no session, no sample and no alarm.
LEMMA InitAlarm == Init => AlarmInv
  <1> SUFFICES ASSUME Init PROVE AlarmInv
    OBVIOUS
  <1>1. ~IsRunning /\ \A k \in AlarmKeys : alarms[k].resolved
    BY DEF Init, IsRunning, NoSession
  <1>2. \A p \in Probes : probes[p].temperature = None /\ probes[p].reading = None
    BY DEF Init, ProbeAtBoot
  <1> QED
    BY <1>1, <1>2, AlarmKeyCases DEF AlarmInv, RaisedAlarmsAreOfSettings,
       RaisedAlarmsAreOfSamples, DisabledProbesHaveNoSample, LatchesAreOfRaisedAlarms,
       AlarmsAreRaised

\* What the snapshot shows of alarms and samples belongs to the settings of the probes,
\* whatever commands, samples and faults come in whatever order.
THEOREM AlarmsSafe == Spec => []AlarmsAreCurrent
  <1>1. ASSUME AlarmInv PROVE AlarmsAreCurrent
    <2>1. ASSUME NEW k \in AlarmKeys, ~alarms[k].resolved, k[1] = "ProbeDisconnected"
          PROVE  k[2] \in Probes /\ k = DisconnectAlarm(k[2])
      BY <2>1 DEF AlarmKeys, DisconnectAlarm
    <2> QED
      BY <1>1, <2>1 DEF AlarmInv, AlarmsAreCurrent, RaisedAlarmsAreOfSettings,
         RaisedAlarmsAreOfSamples, DisabledProbesHaveNoSample, ProbesAreEvaluated
  <1> QED
    BY <1>1, InitAlarm, AlarmStep, TypeCorrect, PTL DEF Spec

\* No probe alarm is missed, whatever commands went before the latch that suppresses a
\* second one.
THEOREM ProbeAlarmsSafe == Spec => []ProbeAlarmsAreRaised
  <1>1. AlarmInv => ProbeAlarmsAreRaised
    BY DEF AlarmInv, ProbeAlarmsAreRaised, AlarmsAreRaised, ProbesAreEvaluated, TargetAlarm,
           DisconnectAlarm
  <1> QED
    BY <1>1, InitAlarm, AlarmStep, TypeCorrect, PTL DEF Spec

----------------------------------------------------------------------------
(* One verdict per command.                                                 *)

\* The ids a queued command answers for, with 0 when its sender wants no answer.
Named(entry) == {entry.id} \cup ToSet(entry.coalesced)

\* No id is waited for twice, neither in one entry nor in two.
PendingIdsAreDistinct ==
    /\ \A i \in DOMAIN queue : /\ IsInjective(queue[i].coalesced)
                               /\ queue[i].id \notin ToSet(queue[i].coalesced)
    /\ \A i, j \in DOMAIN queue : i # j => Named(queue[i]) \cap Named(queue[j]) \subseteq {0}

VerdictInv == OneVerdictPerCommand /\ PendingIdsAreDistinct

\* The window is the end of the sequence.
LEMMA WindowIsSuffix ==
    ASSUME NEW S, NEW sequence \in Seq(S), NEW capacity \in Nat \ {0}
    PROVE  \E off \in Nat : \A i \in DOMAIN Window(sequence, capacity) :
              /\ i \in Nat /\ i + off \in DOMAIN sequence
              /\ Window(sequence, capacity)[i] = sequence[i + off]
  <1>1. CASE Len(sequence) > capacity
    <2> DEFINE off == Len(sequence) - capacity
    <2>1. /\ Len(sequence) \in Nat
          /\ off \in Nat
          /\ off + 1 \in 1 .. Len(sequence) + 1
      BY <1>1
    <2>2. Window(sequence, capacity) = SubSeq(sequence, off + 1, Len(sequence))
      BY <1>1 DEF Window
    <2>3. /\ DOMAIN SubSeq(sequence, off + 1, Len(sequence)) = 1 .. capacity
          /\ \A i \in 1 .. capacity :
                SubSeq(sequence, off + 1, Len(sequence))[i] = sequence[i + off]
      BY <1>1, <2>1
    <2> HIDE DEF off
    <2>4. \A i \in DOMAIN Window(sequence, capacity) :
              /\ i \in Nat /\ i + off \in DOMAIN sequence
              /\ Window(sequence, capacity)[i] = sequence[i + off]
      <3>1. off = Len(sequence) - capacity /\ DOMAIN sequence = 1 .. Len(sequence)
        BY DEF off
      <3>2. \A i \in 1 .. capacity : i \in Nat /\ i + off \in DOMAIN sequence
        BY <2>1, <3>1
      <3> QED
        BY <2>2, <2>3, <3>2
    <2> QED
      BY <2>1, <2>4
  <1>2. CASE ~(Len(sequence) > capacity)
    <2>1. Window(sequence, capacity) = sequence
      BY <1>2 DEF Window
    <2>2. \A i \in DOMAIN sequence : i \in Nat /\ i + 0 = i
      OBVIOUS
    <2> QED
      BY <2>1, <2>2
  <1> QED
    BY <1>1, <1>2

\* The ids one entry answers for, in the order in which the verdicts are recorded.
LEMMA AnswersOfEntry ==
    ASSUME NEW entry \in QueueEntries, IsInjective(entry.coalesced),
           entry.id \notin ToSet(entry.coalesced),
           NEW ids, ids = Correlated(entry.id) \o entry.coalesced
    PROVE  /\ ids \in Seq(CorrelationIds)
           /\ IsInjective(ids)
           /\ \A j \in DOMAIN ids : ids[j] \in Named(entry) \ {0}
  <1>1. entry.id \in CorrelationIds \cup {0} /\ entry.coalesced \in Seq(CorrelationIds)
    BY DEF QueueEntries
  <1> DEFINE c == entry.coalesced
  <1>2. \A j \in DOMAIN c : c[j] \in ToSet(c) /\ c[j] # 0 /\ c[j] # entry.id
    BY <1>1, CommandAssumption DEF ToSet
  <1>3. CASE entry.id = 0
    <2>1. ids = c
      BY <1>1, <1>3 DEF Correlated
    <2> QED
      BY <1>1, <1>2, <2>1 DEF Named
  <1>4. CASE entry.id # 0
    <2>1. ids = <<entry.id>> \o c
      BY <1>4 DEF Correlated
    <2> HIDE DEF c
    <2>2. c \in Seq(CorrelationIds) /\ IsInjective(c)
      BY <1>1 DEF c
    <2>3. /\ ids \in Seq(CorrelationIds)
          /\ DOMAIN ids = 1 .. Len(c) + 1
          /\ ids[1] = entry.id
          /\ \A j \in DOMAIN ids : j # 1 => j - 1 \in DOMAIN c /\ ids[j] = c[j - 1]
      BY <1>1, <1>4, <2>1, <2>2
    <2>4. IsInjective(ids)
      <3> SUFFICES ASSUME NEW i \in DOMAIN ids, NEW j \in DOMAIN ids, ids[i] = ids[j]
                   PROVE  i = j
        BY DEF IsInjective
      <3>1. CASE i = 1 \/ j = 1
        BY <1>2, <2>3, <3>1
      <3>2. CASE i # 1 /\ j # 1
        <4>1. i - 1 \in DOMAIN c /\ j - 1 \in DOMAIN c /\ c[i - 1] = c[j - 1]
          BY <2>3, <3>2
        <4>2. i - 1 = j - 1
          BY <2>2, <4>1 DEF IsInjective
        <4>3. i \in Int /\ j \in Int
          BY <2>2, <2>3
        <4> QED
          BY <4>2, <4>3
      <3> QED
        BY <3>1, <3>2
    <2> QED
      BY <1>2, <1>4, <2>3, <2>4 DEF Named, c
  <1> QED
    BY <1>3, <1>4

\* Recording the verdicts of distinct ids that have none keeps the results distinct, and
\* every recorded verdict is an earlier one or one of these.
LEMMA RecordedVerdicts ==
    ASSUME TypeOK, NEW ids \in Seq(CorrelationIds), IsInjective(ids),
           NEW accepted \in BOOLEAN, RecordResults(ids, accepted),
           \A i, j \in DOMAIN results :
              results[i].id = results[j].id /\ i # j => results[i].id = InternalOtaCorrelationId,
           \A i \in DOMAIN results, j \in DOMAIN ids :
              results[i].id = ids[j] => ids[j] = InternalOtaCorrelationId
    PROVE  /\ \A i, j \in DOMAIN results' :
                 results'[i].id = results'[j].id /\ i # j
                    => results'[i].id = InternalOtaCorrelationId
           /\ \A i \in DOMAIN results' :
                 \/ \E j \in DOMAIN results : results'[i].id = results[j].id
                 \/ \E j \in DOMAIN ids : results'[i].id = ids[j]
  <1> DEFINE R == [id : CorrelationIds, accepted : BOOLEAN]
             verdicts == [i \in 1 .. Len(ids) |-> [id |-> ids[i], accepted |-> accepted]]
             both == results \o verdicts
  <1>1. /\ verdicts \in Seq(R) /\ Len(verdicts) = Len(ids)
        /\ \A j \in 1 .. Len(ids) : verdicts[j].id = ids[j]
    OBVIOUS
  <1>2. results \in Seq(R)
    BY DEF TypeOK
  <1> HIDE DEF verdicts
  <1>3. /\ both \in Seq(R) /\ DOMAIN both = 1 .. Len(results) + Len(ids)
        /\ \A i \in DOMAIN both :
              /\ i \in DOMAIN results => both[i] = results[i]
              /\ i \notin DOMAIN results => /\ i - Len(results) \in DOMAIN ids
                                            /\ both[i].id = ids[i - Len(results)]
    <2> HIDE DEF R
    <2>1. /\ Len(results) \in Nat /\ Len(ids) \in Nat
          /\ DOMAIN results = 1 .. Len(results) /\ DOMAIN ids = 1 .. Len(ids)
      BY <1>2
    <2>2. /\ both \in Seq(R) /\ DOMAIN both = 1 .. Len(results) + Len(ids)
          /\ \A i \in 1 .. Len(results) + Len(ids) :
                both[i] = IF i <= Len(results) THEN results[i] ELSE verdicts[i - Len(results)]
      <3>0. verdicts \in Seq(R)
        BY <1>1
      <3>1. /\ both \in Seq(R)
            /\ Len(both) = Len(results) + Len(verdicts)
            /\ \A i \in 1 .. Len(results) + Len(verdicts) : both[i] =
                  IF i <= Len(results) THEN results[i] ELSE verdicts[i - Len(results)]
        BY <1>2, <3>0, ConcatProperties, Zenon
      <3> HIDE DEF both
      <3> QED
        BY <1>1, <3>1
    <2> HIDE DEF both
    <2> QED
      BY <1>1, <2>1, <2>2
  <1> HIDE DEF both, R
  <1>4. ASSUME NEW i \in DOMAIN both, NEW j \in DOMAIN both, i # j, both[i].id = both[j].id
        PROVE  both[i].id = InternalOtaCorrelationId
    <2>1. CASE i \in DOMAIN results /\ j \in DOMAIN results
      BY <1>3, <1>4, <2>1
    <2>2. CASE i \notin DOMAIN results /\ j \notin DOMAIN results
      <3>1. i - Len(results) = j - Len(results)
        BY <1>3, <1>4, <2>2 DEF IsInjective
      <3>2. i \in Nat /\ j \in Nat /\ Len(results) \in Nat
        BY <1>2, <1>3
      <3> QED
        BY <1>4, <3>1, <3>2
    <2>3. CASE i \in DOMAIN results /\ j \notin DOMAIN results
      BY <1>3, <1>4, <2>3
    <2>4. CASE i \notin DOMAIN results /\ j \in DOMAIN results
      BY <1>3, <1>4, <2>4
    <2> QED
      BY <2>1, <2>2, <2>3, <2>4
  <1>5. results' = Window(both, CommandResultCapacity)
    BY DEF RecordResults, both, verdicts
  <1>6. PICK off \in Nat : \A i \in DOMAIN Window(both, CommandResultCapacity) :
              /\ i \in Nat /\ i + off \in DOMAIN both
              /\ Window(both, CommandResultCapacity)[i] = both[i + off]
    <2>1. both \in Seq(R) /\ CommandResultCapacity \in Nat \ {0}
      BY <1>3, BoundAssumption
    <2> QED
      BY <2>1, WindowIsSuffix, Zenon
  <1>7. ASSUME NEW i \in DOMAIN results', NEW j \in DOMAIN results', i # j,
               results'[i].id = results'[j].id
        PROVE  results'[i].id = InternalOtaCorrelationId
    <2>1. /\ i + off \in DOMAIN both /\ j + off \in DOMAIN both /\ i + off # j + off
          /\ results'[i] = both[i + off] /\ results'[j] = both[j + off]
      BY <1>5, <1>6, <1>7
    <2> QED
      BY <1>4, <1>7, <2>1
  <1> QED
    BY <1>3, <1>5, <1>6, <1>7

\* An id that is pending is not free, and the ids of an entry are pending.
LEMMA NamedIsQueued ==
    ASSUME NEW i \in DOMAIN queue
    PROVE  Named(queue[i]) \subseteq QueuedIds
  BY DEF Named, QueuedIds

\* The head's verdicts are recorded and its ids are no longer pending.
LEMMA ConsumeVerdicts ==
    ASSUME TypeOK, VerdictInv, queue # <<>>, NEW accepted \in BOOLEAN, Consume(accepted)
    PROVE  VerdictInv'
  <1> DEFINE head == queue[1]
             ids == Correlated(Head(queue).id) \o Head(queue).coalesced
  <1>1. /\ queue \in Seq(QueueEntries) /\ 1 \in DOMAIN queue /\ Head(queue) = head
        /\ head \in QueueEntries
        /\ DOMAIN queue = 1 .. Len(queue) /\ Len(queue) \in Nat
    BY DEF TypeOK
  <1>2. /\ \A i \in DOMAIN queue' : /\ i + 1 \in DOMAIN queue /\ i + 1 # 1 /\ i \in Nat
                                    /\ queue'[i] = queue[i + 1]
    <2>1. queue' = Tail(queue)
      BY DEF Consume
    <2>2. /\ DOMAIN queue' = 1 .. Len(queue) - 1
          /\ \A i \in 1 .. Len(queue) - 1 : queue'[i] = queue[i + 1]
      BY <1>1, <2>1
    <2> QED
      BY <1>1, <2>2
  <1>3. IsInjective(head.coalesced) /\ head.id \notin ToSet(head.coalesced)
    BY <1>1 DEF VerdictInv, PendingIdsAreDistinct
  <1> HIDE DEF head
  <1>4. /\ ids \in Seq(CorrelationIds)
        /\ IsInjective(ids)
        /\ \A j \in DOMAIN ids : ids[j] \in Named(head) \ {0}
    BY <1>1, <1>3, AnswersOfEntry
  <1>5. RecordResults(ids, accepted)
    BY DEF Consume
  <1> HIDE DEF ids
  <1>6. \A i \in DOMAIN results, j \in DOMAIN ids :
              results[i].id = ids[j] => ids[j] = InternalOtaCorrelationId
    BY <1>1, <1>4, NamedIsQueued DEF VerdictInv, OneVerdictPerCommand, head
  <1>7. \A i, j \in DOMAIN results :
              results[i].id = results[j].id /\ i # j => results[i].id = InternalOtaCorrelationId
    BY DEF VerdictInv, OneVerdictPerCommand
  <1>8. /\ \A i, j \in DOMAIN results' :
                 results'[i].id = results'[j].id /\ i # j
                    => results'[i].id = InternalOtaCorrelationId
        /\ \A i \in DOMAIN results' :
                 \/ \E j \in DOMAIN results : results'[i].id = results[j].id
                 \/ \E j \in DOMAIN ids : results'[i].id = ids[j]
    BY <1>4, <1>5, <1>6, <1>7, RecordedVerdicts
  <1>9. PendingIdsAreDistinct'
    <2>1. ASSUME NEW i \in DOMAIN queue', NEW j \in DOMAIN queue', i # j
          PROVE  Named(queue'[i]) \cap Named(queue'[j]) \subseteq {0}
      <3>1. i + 1 # j + 1
        BY <1>2, <2>1
      <3> QED
        BY <1>2, <3>1 DEF VerdictInv, PendingIdsAreDistinct
    <2> QED
      BY <1>2, <2>1 DEF VerdictInv, PendingIdsAreDistinct
  <1>10. ASSUME NEW id \in QueuedIds'
         PROVE  \E i \in DOMAIN queue' : id \in Named(queue'[i])
    BY <1>10 DEF QueuedIds, Named
  <1>11. ASSUME NEW i \in DOMAIN results', results'[i].id # InternalOtaCorrelationId,
                results'[i].id \in QueuedIds'
         PROVE  FALSE
    <2>1. PICK k \in DOMAIN queue' : results'[i].id \in Named(queue'[k])
      BY <1>10, <1>11
    <2>2. /\ k + 1 \in DOMAIN queue /\ k + 1 # 1
          /\ results'[i].id \in Named(queue[k + 1])
      BY <1>2, <2>1
    <2>3. CASE \E j \in DOMAIN results : results'[i].id = results[j].id
      <3>1. results'[i].id \in QueuedIds
        BY <2>2, NamedIsQueued
      <3> QED
        BY <1>11, <2>3, <3>1 DEF VerdictInv, OneVerdictPerCommand
    <2>4. CASE \E j \in DOMAIN ids : results'[i].id = ids[j]
      <3>1. results'[i].id \in Named(queue[1]) \ {0}
        BY <1>4, <2>4 DEF head
      <3> QED
        BY <1>1, <2>2, <3>1 DEF VerdictInv, PendingIdsAreDistinct
    <2> QED
      BY <1>8, <2>3, <2>4
  <1> QED
    BY <1>8, <1>9, <1>11 DEF VerdictInv, OneVerdictPerCommand

\* A command that joins the queue, or a Stop that joins the trailing one, brings an id
\* that is neither pending nor answered; a refused one has no pending id.
LEMMA SubmitVerdicts ==
    ASSUME TypeOK, VerdictInv, NEW command \in Commands,
           NEW id \in CorrelationIds \cup {0}, Submit(command, id)
    PROVE  VerdictInv'
  <1>1. /\ queue \in Seq(QueueEntries)
        /\ DOMAIN queue = 1 .. Len(queue) /\ Len(queue) \in Nat
        /\ results \in Seq([id : CorrelationIds, accepted : BOOLEAN])
    BY DEF TypeOK
  <1>2. /\ id # 0 => id \notin QueuedIds
        /\ id \notin {0, InternalOtaCorrelationId}
             => \A i \in DOMAIN results : results[i].id # id
        /\ IsStop(command) => id # InternalOtaCorrelationId
    BY DEF Submit, FreshIds, IsStop
  <1>3. \A i \in DOMAIN results : results[i].id # 0
    <2> DEFINE R == [id : CorrelationIds, accepted : BOOLEAN]
    <2>1. results \in Seq(R)
      BY <1>1
    <2> HIDE DEF R
    <2>2. \A i \in DOMAIN results : results[i] \in R
      BY <2>1
    <2> QED
      BY <2>2, CommandAssumption DEF R
  \* A queue whose entries name what they named, and one of them also the new id.
  <1>4. ASSUME UNCHANGED results,
               \A i, j \in DOMAIN queue' :
                  i # j => Named(queue'[i]) \cap Named(queue'[j]) \subseteq {0},
               \A i \in DOMAIN queue' : /\ IsInjective(queue'[i].coalesced)
                                        /\ queue'[i].id \notin ToSet(queue'[i].coalesced),
               \A i \in DOMAIN queue' : \/ Named(queue'[i]) \subseteq {id}
                                        \/ /\ i \in DOMAIN queue
                                           /\ Named(queue'[i]) \subseteq Named(queue[i]) \cup {id}
        PROVE  VerdictInv'
    <2>1. PendingIdsAreDistinct'
      BY <1>4 DEF PendingIdsAreDistinct
    <2>2. ASSUME NEW i \in DOMAIN results, results[i].id # InternalOtaCorrelationId,
                 results[i].id \in QueuedIds'
          PROVE  FALSE
      <3>1. PICK k \in DOMAIN queue' : results[i].id \in Named(queue'[k])
        BY <2>2 DEF QueuedIds, Named
      <3>2. results[i].id # id
        BY <1>2, <1>3, <2>2
      <3>3. k \in DOMAIN queue /\ results[i].id \in Named(queue[k])
        BY <1>4, <3>1, <3>2
      <3>4. results[i].id \in QueuedIds
        BY <3>3, NamedIsQueued
      <3> QED
        BY <2>2, <3>4 DEF VerdictInv, OneVerdictPerCommand
    <2> QED
      BY <1>4, <2>1, <2>2 DEF VerdictInv, OneVerdictPerCommand
  <1>5. CASE AdmitCommand(command, id)
    <2> DEFINE entry == [command |-> command, id |-> id, coalesced |-> <<>>]
    <2>1. queue' = Append(queue, entry) /\ UNCHANGED results
      BY <1>5 DEF AdmitCommand
    <2>2. /\ Named(entry) = {id}
          /\ IsInjective(entry.coalesced) /\ entry.id \notin ToSet(entry.coalesced)
      BY DEF Named, ToSet, IsInjective
    <2> HIDE DEF entry
    <2>3. /\ DOMAIN queue' = 1 .. Len(queue) + 1
          /\ queue'[Len(queue) + 1] = entry
          /\ \A i \in DOMAIN queue : queue'[i] = queue[i]
      BY <1>1, <2>1
    <2>4. \A i \in DOMAIN queue' : i \in DOMAIN queue \/ i = Len(queue) + 1
      BY <1>1, <2>3
    <2>5. \A i \in DOMAIN queue : Named(queue[i]) \cap {id} \subseteq {0}
      BY <1>2, NamedIsQueued
    <2>6. \A i \in DOMAIN queue' : \/ Named(queue'[i]) \subseteq {id}
                                   \/ /\ i \in DOMAIN queue
                                      /\ Named(queue'[i]) \subseteq Named(queue[i]) \cup {id}
      BY <2>2, <2>3, <2>4
    <2>7. \A i \in DOMAIN queue' : /\ IsInjective(queue'[i].coalesced)
                                   /\ queue'[i].id \notin ToSet(queue'[i].coalesced)
      BY <2>2, <2>3, <2>4 DEF VerdictInv, PendingIdsAreDistinct
    <2>8. ASSUME NEW i \in DOMAIN queue', NEW j \in DOMAIN queue', i # j
          PROVE  Named(queue'[i]) \cap Named(queue'[j]) \subseteq {0}
      <3>1. CASE i \in DOMAIN queue /\ j \in DOMAIN queue
        BY <2>3, <2>8, <3>1 DEF VerdictInv, PendingIdsAreDistinct
      <3>2. CASE i \notin DOMAIN queue \/ j \notin DOMAIN queue
        BY <2>2, <2>3, <2>4, <2>5, <2>8, <3>2
      <3> QED
        BY <3>1, <3>2
    <2> QED
      BY <1>4, <2>1, <2>6, <2>7, <2>8
  <1>6. CASE CoalesceStop(command, id) /\ id = 0
    BY <1>4, <1>6 DEF CoalesceStop, VerdictInv, PendingIdsAreDistinct
  <1>7. CASE CoalesceStop(command, id) /\ id # 0
    <2> DEFINE n == Len(queue)
               old == queue[n]
               longer == Append(old.coalesced, id)
               joined == Window(longer, CommandResultCapacity)
               entry == [old EXCEPT !.coalesced = joined]
    <2>1. n \in DOMAIN queue /\ old \in QueueEntries
      BY <1>1, <1>7 DEF CoalesceStop, TrailingStopIsPending
    <2>2. queue' = [queue EXCEPT ![n] = entry] /\ UNCHANGED results
      BY <1>7 DEF CoalesceStop
    <2>3. /\ old.coalesced \in Seq(CorrelationIds)
          /\ IsInjective(old.coalesced)
          /\ old.id \notin ToSet(old.coalesced)
          /\ id \notin Named(old)
      <3>1. id \notin Named(old)
        BY <1>2, <1>7, <2>1, NamedIsQueued
      <3> QED
        BY <2>1, <3>1 DEF QueueEntries, VerdictInv, PendingIdsAreDistinct
    <2>4. /\ longer \in Seq(CorrelationIds)
          /\ IsInjective(longer)
          /\ \A i \in DOMAIN longer : longer[i] \in ToSet(old.coalesced) \cup {id}
      <3> DEFINE c == old.coalesced
      <3>1. c \in Seq(CorrelationIds) /\ IsInjective(c) /\ id \in CorrelationIds
        BY <1>7, <2>3
      <3>2. \A i \in DOMAIN c : c[i] # id
        BY <2>3 DEF Named, ToSet
      <3> HIDE DEF c
      <3>3. /\ Append(c, id) \in Seq(CorrelationIds)
            /\ DOMAIN Append(c, id) = 1 .. Len(c) + 1 /\ DOMAIN c = 1 .. Len(c)
            /\ Len(c) \in Nat
            /\ Append(c, id)[Len(c) + 1] = id
            /\ \A i \in DOMAIN c : Append(c, id)[i] = c[i]
        BY <3>1
      <3>4. \A i \in DOMAIN Append(c, id) : i \in DOMAIN c \/ i = Len(c) + 1
        BY <3>3
      <3> QED
        BY <3>1, <3>2, <3>3, <3>4 DEF IsInjective, ToSet, c
    <2> HIDE DEF longer
    <2>5. CommandResultCapacity \in Nat \ {0}
      BY BoundAssumption
    <2>6. PICK off \in Nat : \A i \in DOMAIN joined :
              /\ i \in Nat /\ i + off \in DOMAIN longer
              /\ joined[i] = longer[i + off]
      BY <2>4, <2>5, WindowIsSuffix, Zenon
    <2> HIDE DEF joined
    <2>7. IsInjective(joined)
      <3> SUFFICES ASSUME NEW i \in DOMAIN joined, NEW j \in DOMAIN joined,
                          joined[i] = joined[j]
                   PROVE  i = j
        BY DEF IsInjective
      <3>1. i + off = j + off
        BY <2>4, <2>6 DEF IsInjective
      <3> QED
        BY <2>6, <3>1
    <2>8. ToSet(joined) \subseteq ToSet(old.coalesced) \cup {id}
      BY <2>4, <2>6 DEF ToSet
    <2>9. entry.id = old.id /\ entry.coalesced = joined
      BY <2>1 DEF QueueEntries
    <2>10. /\ Named(entry) \subseteq Named(old) \cup {id}
           /\ IsInjective(entry.coalesced) /\ entry.id \notin ToSet(entry.coalesced)
      BY <2>3, <2>7, <2>8, <2>9 DEF Named
    <2> HIDE DEF entry
    <2>11. /\ DOMAIN queue' = DOMAIN queue
           /\ queue'[n] = entry
           /\ \A i \in DOMAIN queue : i # n => queue'[i] = queue[i]
      BY <1>1, <2>1, <2>2
    <2>12. \A i \in DOMAIN queue : id \notin Named(queue[i])
      BY <1>2, <1>7, NamedIsQueued
    <2>13. \A i \in DOMAIN queue' : \/ Named(queue'[i]) \subseteq {id}
                                    \/ /\ i \in DOMAIN queue
                                       /\ Named(queue'[i]) \subseteq Named(queue[i]) \cup {id}
      BY <2>10, <2>11
    <2>14. \A i \in DOMAIN queue' : /\ IsInjective(queue'[i].coalesced)
                                    /\ queue'[i].id \notin ToSet(queue'[i].coalesced)
      BY <2>10, <2>11 DEF VerdictInv, PendingIdsAreDistinct
    <2>15. \A i, j \in DOMAIN queue' :
              i # j => Named(queue'[i]) \cap Named(queue'[j]) \subseteq {0}
      BY <2>1, <2>10, <2>11, <2>12 DEF VerdictInv, PendingIdsAreDistinct
    <2> QED
      BY <1>4, <2>2, <2>13, <2>14, <2>15
  <1>8. CASE RejectFullQueue(command, id)
    <2> DEFINE ids == Correlated(id)
    <2>1. /\ ids \in Seq(CorrelationIds) /\ IsInjective(ids)
          /\ \A j \in DOMAIN ids : ids[j] = id /\ id # 0
      BY DEF Correlated, IsInjective
    <2>2. RecordResults(ids, FALSE) /\ UNCHANGED queue
      BY <1>8 DEF RejectFullQueue
    <2> HIDE DEF ids
    <2>3. \A i, j \in DOMAIN results :
              results[i].id = results[j].id /\ i # j => results[i].id = InternalOtaCorrelationId
      BY DEF VerdictInv, OneVerdictPerCommand
    <2>4. \A i \in DOMAIN results, j \in DOMAIN ids :
              results[i].id = ids[j] => ids[j] = InternalOtaCorrelationId
      BY <1>2, <2>1
    <2>5. /\ \A i, j \in DOMAIN results' :
                 results'[i].id = results'[j].id /\ i # j
                    => results'[i].id = InternalOtaCorrelationId
          /\ \A i \in DOMAIN results' :
                 \/ \E j \in DOMAIN results : results'[i].id = results[j].id
                 \/ \E j \in DOMAIN ids : results'[i].id = ids[j]
      BY <2>1, <2>2, <2>3, <2>4, RecordedVerdicts
    <2>6. UNCHANGED QueuedIds /\ PendingIdsAreDistinct'
      BY <2>2 DEF QueuedIds, VerdictInv, PendingIdsAreDistinct
    <2>7. \A i \in DOMAIN results' :
              results'[i].id # InternalOtaCorrelationId => results'[i].id \notin QueuedIds
      BY <1>2, <2>1, <2>5 DEF VerdictInv, OneVerdictPerCommand
    <2> QED
      BY <2>5, <2>6, <2>7 DEF VerdictInv, OneVerdictPerCommand
  <1> QED
    BY <1>5, <1>6, <1>7, <1>8 DEF Submit

\* Every step keeps the verdicts distinct from one another and from what is pending.
LEMMA VerdictStep ==
    TypeOK /\ VerdictInv /\ [Next]_vars => VerdictInv'
  <1> SUFFICES ASSUME TypeOK, VerdictInv, [Next]_vars PROVE VerdictInv'
    OBVIOUS
  <1>1. ASSUME UNCHANGED <<queue, results>> PROVE VerdictInv'
    BY <1>1 DEF VerdictInv, OneVerdictPerCommand, PendingIdsAreDistinct, QueuedIds
  <1>2. CASE ProcessCommand
    <2>1. CASE RejectCommand
      BY <2>1, ConsumeVerdicts DEF RejectCommand
    <2>2. ASSUME NEW types, Accepting(types) PROVE VerdictInv'
      BY <2>2, ConsumeVerdicts DEF Accepting
    <2> QED
      BY <1>2, <2>1, <2>2 DEF ProcessCommand, AcceptStart, AcceptStop,
         AcceptSetChamberTarget, AcceptSetProbeTarget, AcceptSetProbeEnabled,
         AcceptSetProbeAlarmEnabled, AcceptAcknowledgeAlarm, AcceptClearResolvedFault,
         AcceptFirmwareInterlock
  <1>3. CASE Tick /\ ~ProcessCommand
    <2>1. UNCHANGED <<queue, results>>
      BY <1>3 DEF Tick, BeginTick, CommandsDone, EvaluateProbeStates, UpdateActiveTimer,
         RetryControllerReset, RequestDemand, RequestFails, QuiesceIneligible,
         EvaluateSafety, QuiesceAfterSafety, LatchControllerFailure, WriteHeater, commandVars
    <2> QED
      BY <1>1, <2>1
  <1>4. CASE UNCHANGED vars
    BY <1>1, <1>4 DEF vars, commandVars
  <1> QED
    BY <1>2, <1>3, <1>4, SubmitVerdicts DEF Next

\* A correlated command never has a verdict while it is pending and never has two, for
\* every capacity of the queue and of the window of results, and although Stops join one
\* another in the queue and the window drops the oldest ids of a joined Stop.
THEOREM VerdictsSafe == Spec => []OneVerdictPerCommand
  <1>1. Init => VerdictInv
    BY DEF Init, VerdictInv, OneVerdictPerCommand, PendingIdsAreDistinct
  <1>2. VerdictInv => OneVerdictPerCommand
    BY DEF VerdictInv
  <1> QED
    BY <1>1, <1>2, VerdictStep, TypeCorrect, PTL DEF Spec

=================================================================================
