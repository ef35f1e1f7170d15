--------------------------- MODULE SmokerApplication ---------------------------
(***************************************************************************)
(* The application object of the smoker controller                         *)
(* (smoker_app/src/smoker_application.cpp): the single owner of the        *)
(* session, the latched fault, the probe alarms, the firmware-update       *)
(* interlock and the bounded command queue, and the only writer of the     *)
(* heater.                                                                 *)
(*                                                                         *)
(* ControlTask alone calls submit() and tick(), so nothing interleaves     *)
(* with a tick.  A tick is nevertheless long: it is modelled as the forced *)
(* sequence of phases the method runs through, one action per phase and    *)
(* one action per command of the drain loop.  `phase` says which statement *)
(* comes next; no phase can be skipped, and only the phase "idle", between *)
(* two ticks, is visible outside ControlTask.                              *)
(*                                                                         *)
(* Left out: events (an append-only report of what the actions do), names, *)
(* recipe labels, the overflow counter and session wall-clock bookkeeping. *)
(* An alarm id is abstracted to the pair of the alarm's slot and the       *)
(* generation of that slot.                                                *)
(***************************************************************************)
EXTENDS StageTimer, SequencesExt

CONSTANTS
    ProbeIds,                   \* ids a caller may name
    Probes,                     \* configured food probes
    ProbeDefaults,              \* immutable per-probe configuration
    Temperatures,               \* readings, targets and thresholds
    MaximumChamberTemperature,  \* SafetyLimits
    Demands,                    \* heater demands in percent
    SessionIds,                 \* ids RuntimeIdGenerator hands out
    Commands,                   \* commands callers may submit
    CorrelationIds,             \* nonzero correlation ids
    InternalOtaCorrelationId,   \* id of a Prepare; a refused one is sent again
    CommandCapacity,            \* 16 in the code
    CommandResultCapacity,      \* 16 in the code
    AlarmGenerations,           \* 2^32 alarm ids in the code
    Elapses                     \* how far the clock may move between ticks

Readings == Temperatures \cup {None}

FaultCodes == {"ChamberSensorInvalid", "ChamberOverTemperature",
               "ControlLoopFailure", "ConfigurationInvalid"}

Timers == [duration : Int, start : {"Immediate", "Chamber", "Probe"},
           threshold : Readings, probe : ProbeIds \cup {None},
           action : {"Notify", "StopSession"}]

Recipes == [target : Readings, timer : Timers \cup {None}]

AlarmKeys == ({"ProbeTargetReached", "ProbeDisconnected"} \X Probes)
             \cup {<<"TimerCompleted", None>>}

CommandType ==
         [type : {"Start"}, session : SessionIds, recipe : Recipes]
    \cup [type : {"SetChamberTarget"}, target : Readings]
    \cup [type : {"SetProbeTarget"}, probe : ProbeIds, target : Readings]
    \cup [type : {"SetProbeEnabled", "SetProbeAlarmEnabled"},
          probe : ProbeIds, enabled : BOOLEAN]
    \cup [type : {"AcknowledgeAlarm"}, alarm : AlarmKeys, generation : Nat]
    \cup [type : {"Stop", "ClearResolvedFault",
                  "PrepareFirmwareUpdate", "FinishFirmwareUpdate"}]

ASSUME TemperatureAssumption ==
    /\ Temperatures \subseteq Int
    /\ MaximumChamberTemperature \in Int

ASSUME ConfigurationAssumption ==
    /\ ProbeDefaults \in [Probes -> [target : Readings,
                                     enabled : BOOLEAN, alarmEnabled : BOOLEAN]]
    /\ Probes \subseteq ProbeIds
    /\ None \notin SessionIds \cup ProbeIds \cup FaultCodes
    /\ Demands \subseteq 0 .. 100
    /\ 0 \in Demands

ASSUME CommandAssumption ==
    /\ Commands \subseteq CommandType
    /\ 0 \notin CorrelationIds

ASSUME BoundAssumption ==
    /\ CommandCapacity \in Nat \ {0, 1}
    /\ CommandResultCapacity \in Nat \ {0}
    /\ AlarmGenerations \in Nat \ {0}
    /\ Elapses \subseteq Nat

VARIABLES
    phase,                      \* next statement of ControlTask's tick
    queue,                      \* pending commands, oldest first
    results,                    \* window of correlated verdicts
    session,                    \* session_; status "Idle" when there is none
    activeFault,                \* latched fault code or None
    firmwareUpdateActive,       \* OTA holds the start interlock
    chamberTemperature,         \* reading of this tick
    probes,                     \* live probe configuration and readings
    alarms,                     \* one slot per alarm key
    controllerActive,           \* the last request succeeded
    controllerFaultResolved,    \* the last reset succeeded and no request since
    controllerFailurePending,   \* a failure that is not latched yet
    controllerMemory,           \* session the controller still remembers
    requestedDemand,            \* the controller's request of this tick
    heaterDemand,               \* last value written to the heater
    configurationValid,         \* probe ids are unique and there is one
    published                   \* the snapshot of the last completed tick

commandVars    == <<queue, results>>
lifecycleVars  == <<session, activeFault, firmwareUpdateActive>>
inputVars      == <<chamberTemperature, configurationValid>>
probeVars      == <<probes, alarms>>
controllerVars == <<controllerActive, controllerFaultResolved,
                    controllerFailurePending, controllerMemory>>
outputVars     == <<requestedDemand, heaterDemand, published>>
vars == <<phase, commandVars, lifecycleVars, inputVars, probeVars,
          controllerVars, outputVars>>

----------------------------------------------------------------------------
(* Sessions and timers.                                                     *)

NoSession == [status |-> "Idle", id |-> None, target |-> None,
              timerConfig |-> None, timer |-> NoTimer, stopReason |-> "None"]

IsRunning == session.status = "Running"

\* A latched fault is shown in place of whatever the session says.
CurrentSessionStatus ==
    IF activeFault # None THEN "Fault" ELSE session.status

RecipeIsValid(recipe) ==
    /\ recipe.target # None => recipe.target <= MaximumChamberTemperature
    /\ recipe.timer # None =>
         /\ IsValidTimerConfiguration(recipe.timer)
         /\ recipe.timer.start = "Probe" => recipe.timer.probe \in Probes

\* Mutant of ClampFrozenTimer: the frozen time is kept as it is.
ClampNothing(timer, config) == timer

\* Stop freezes before update_stage_timer had a chance to clamp.
ClampFrozenTimer(timer, config) ==
    IF config # None
    THEN [timer EXCEPT !.elapsed = AtMost(timer.elapsed, config.duration)]
    ELSE timer

StoppedSession(running, reason) ==
    [running EXCEPT !.status = "Stopped", !.stopReason = reason,
        !.timer = ClampFrozenTimer(FreezeStageTimer(running.timer), running.timerConfig)]

----------------------------------------------------------------------------
(* Alarms.                                                                  *)

Raised(alarm) ==
    [generation |-> (alarm.generation + 1) % AlarmGenerations,
     acknowledged |-> FALSE, resolved |-> FALSE]

Resolved(alarm) == [alarm EXCEPT !.resolved = TRUE]

ResolveAllAlarms == alarms' = [k \in AlarmKeys |-> Resolved(alarms[k])]

ResolveProbeAlarms(codes, p) ==
    alarms' = [k \in AlarmKeys |->
                 IF k \in codes \X {p} THEN Resolved(alarms[k]) ELSE alarms[k]]

StopRunningSession(running, reason) ==
    /\ session' = StoppedSession(running, reason)
    /\ ResolveAllAlarms

\* Callers have checked that no fault is latched: a latched one is never replaced.
RaiseFault(code) ==
    /\ activeFault' = code
    /\ ResolveAllAlarms
    /\ session' = IF IsRunning
                  THEN [session EXCEPT !.status = "Fault", !.stopReason = "Fault",
                                       !.timer = FreezeStageTimer(session.timer)]
                  ELSE session

----------------------------------------------------------------------------
(* The command queue (submit).                                              *)

IsStop(command) == command.type = "Stop"

TrailingStopIsPending == queue # <<>> /\ IsStop(Last(queue).command)

\* A trailing Stop keeps the ids of the Stops that joined it, newest last.
Window(sequence, capacity) ==
    IF Len(sequence) > capacity
    THEN SubSeq(sequence, Len(sequence) - capacity + 1, Len(sequence))
    ELSE sequence

\* Verdicts in the order they are recorded; id 0 asks for none.
RecordResults(ids, accepted) ==
    LET verdicts == [i \in 1 .. Len(ids) |-> [id |-> ids[i], accepted |-> accepted]]
    IN  results' = Window(results \o verdicts, CommandResultCapacity)

Correlated(id) == IF id = 0 THEN <<>> ELSE <<id>>

\* Only Stop may take the last slot.
AdmissionLimit(command) ==
    IF IsStop(command) THEN CommandCapacity ELSE CommandCapacity - 1

QueuedIds == UNION {{queue[i].id} \cup ToSet(queue[i].coalesced) : i \in DOMAIN queue}

\* What RuntimeIdGenerator guarantees of the ids callers pass: sessions and
\* commands are numbered afresh; only a Prepare that a full queue refused is
\* submitted again under its id (retry_prepare_request).
FreshIds(command, id) ==
    /\ command.type = "Start" =>
         /\ command.session # session.id
         /\ \A i \in DOMAIN queue : queue[i].command.type = "Start"
                                      => queue[i].command.session # command.session
    /\ id # 0 => id \notin QueuedIds
    /\ id = InternalOtaCorrelationId => command.type = "PrepareFirmwareUpdate"
    /\ id \notin {0, InternalOtaCorrelationId}
         => \A i \in DOMAIN results : results[i].id # id

\* Mutant of CoalesceStop: a coalesced Stop is also answered at once.
CoalesceAnswersAtOnce(command, id) ==
    /\ IsStop(command) /\ TrailingStopIsPending
    /\ queue' = IF id = 0 THEN queue
                ELSE [queue EXCEPT ![Len(queue)].coalesced =
                        Window(Append(@, id), CommandResultCapacity)]
    /\ RecordResults(Correlated(id), TRUE)

CoalesceStop(command, id) ==
    /\ IsStop(command) /\ TrailingStopIsPending
    /\ queue' = IF id = 0 THEN queue
                ELSE [queue EXCEPT ![Len(queue)].coalesced =
                        Window(Append(@, id), CommandResultCapacity)]
    /\ UNCHANGED results

AdmitCommand(command, id) ==
    /\ ~(IsStop(command) /\ TrailingStopIsPending)
    /\ Len(queue) < AdmissionLimit(command)
    /\ queue' = Append(queue, [command |-> command, id |-> id, coalesced |-> <<>>])
    /\ UNCHANGED results

RejectFullQueue(command, id) ==
    /\ ~(IsStop(command) /\ TrailingStopIsPending)
    /\ Len(queue) >= AdmissionLimit(command)
    /\ RecordResults(Correlated(id), FALSE)
    /\ UNCHANGED queue

Submit(command, id) ==
    /\ phase = "idle"
    /\ FreshIds(command, id)
    /\ \/ CoalesceStop(command, id)
       \/ AdmitCommand(command, id)
       \/ RejectFullQueue(command, id)
    /\ UNCHANGED <<phase, lifecycleVars, inputVars, probeVars, controllerVars,
                   outputVars>>

----------------------------------------------------------------------------
(* tick(): raw inputs.                                                      *)

\* A disabled probe is not read and loses the sample it had.
AcquireProbe(probe, reading) ==
    LET sample == IF probe.enabled THEN reading ELSE None
    IN  [probe EXCEPT !.temperature = sample, !.reading = sample,
                      !.sampled = probe.enabled]

BeginTick ==
    /\ phase = "idle"
    /\ phase' = "commands"
    /\ chamberTemperature' \in Readings
    /\ \E readings \in [Probes -> Readings] :
         probes' = [p \in Probes |-> AcquireProbe(probes[p], readings[p])]
    /\ \E elapse \in Elapses :
         session' = IF IsRunning
                    THEN [session EXCEPT !.timer = Aged(session.timer, elapse)]
                    ELSE session
    /\ UNCHANGED <<commandVars, activeFault, firmwareUpdateActive,
                   configurationValid, alarms, controllerVars, outputVars>>

----------------------------------------------------------------------------
(* tick(): the command loop.                                                *)

FaultConditionIsResolved(code) ==
    CASE code = "ChamberSensorInvalid"   -> chamberTemperature # None
      [] code = "ChamberOverTemperature" ->
            /\ chamberTemperature # None
            /\ chamberTemperature <= MaximumChamberTemperature
      [] code = "ControlLoopFailure"     -> controllerFaultResolved
      [] code = "ConfigurationInvalid"   -> FALSE

\* Mutant of StartIsAccepted: a running session may be replaced.
StartReplacesRunning(command) ==
    /\ activeFault = None
    /\ ~firmwareUpdateActive
    /\ RecipeIsValid(command.recipe)

StartIsAccepted(command) ==
    /\ activeFault = None
    /\ ~firmwareUpdateActive
    /\ ~IsRunning
    /\ RecipeIsValid(command.recipe)

SetChamberTargetIsAccepted(command) ==
    /\ IsRunning
    /\ command.target # None => command.target <= MaximumChamberTemperature

ProbeCommandIsAccepted(command) == IsRunning /\ command.probe \in Probes

AcknowledgeIsAccepted(command) ==
    LET alarm == alarms[command.alarm]
    IN  /\ alarm.generation = command.generation
        /\ ~alarm.resolved
        /\ ~alarm.acknowledged

ClearIsAccepted == activeFault # None /\ FaultConditionIsResolved(activeFault)

PrepareIsAccepted == ~firmwareUpdateActive /\ CurrentSessionStatus # "Running"

Accepts(command) ==
    CASE command.type = "Start"                 -> StartIsAccepted(command)
      [] command.type = "Stop"                  -> IsRunning
      [] command.type = "SetChamberTarget"      -> SetChamberTargetIsAccepted(command)
      [] command.type \in {"SetProbeTarget", "SetProbeEnabled", "SetProbeAlarmEnabled"}
                                                -> ProbeCommandIsAccepted(command)
      [] command.type = "AcknowledgeAlarm"      -> AcknowledgeIsAccepted(command)
      [] command.type = "ClearResolvedFault"    -> ClearIsAccepted
      [] command.type = "PrepareFirmwareUpdate" -> PrepareIsAccepted
      [] command.type = "FinishFirmwareUpdate"  -> firmwareUpdateActive

\* Mutant of IsManualStopBarrier: the loop always drains the whole queue.
NoStopBarrier(command) == FALSE

\* A Stop of a running session ends the loop: the rest waits for the next tick.
IsManualStopBarrier(command) == IsStop(command) /\ IsRunning

Consume(accepted) ==
    /\ queue' = Tail(queue)
    /\ RecordResults(Correlated(Head(queue).id) \o Head(queue).coalesced, accepted)
    /\ phase' = IF IsManualStopBarrier(Head(queue).command) THEN "probes" ELSE "commands"
    /\ UNCHANGED <<inputVars, controllerVars, outputVars>>

\* The command at the head of the queue is of one of these types and is accepted.
Accepting(types) ==
    /\ phase = "commands"
    /\ queue # <<>>
    /\ Head(queue).command.type \in types
    /\ Accepts(Head(queue).command)
    /\ Consume(TRUE)

RejectCommand ==
    /\ phase = "commands"
    /\ queue # <<>>
    /\ ~Accepts(Head(queue).command)
    /\ Consume(FALSE)
    /\ UNCHANGED <<lifecycleVars, probeVars>>

\* reset_probe_session_configuration: the defaults again, and no sample of a
\* probe they disable.
ProbeAtStart(p) ==
    LET default == ProbeDefaults[p]
    IN  [probes[p] EXCEPT
            !.target = default.target,
            !.enabled = default.enabled,
            !.alarmEnabled = default.alarmEnabled,
            !.temperature = IF default.enabled THEN @ ELSE None,
            !.reading = IF default.enabled THEN @ ELSE None,
            !.sampled = @ /\ default.enabled,
            !.targetAlarmEmitted = FALSE,
            !.disconnectedAlarmEmitted = FALSE]

AcceptStart ==
    /\ Accepting({"Start"})
    /\ LET command == Head(queue).command
       IN  session' = [status |-> "Running", id |-> command.session,
                       target |-> command.recipe.target,
                       timerConfig |-> command.recipe.timer,
                       timer |-> NoTimer, stopReason |-> "None"]
    /\ probes' = [p \in Probes |-> ProbeAtStart(p)]
    /\ ResolveAllAlarms
    /\ UNCHANGED <<activeFault, firmwareUpdateActive>>

AcceptStop ==
    /\ Accepting({"Stop"})
    /\ StopRunningSession(session, "User")
    /\ UNCHANGED <<activeFault, firmwareUpdateActive, probes>>

AcceptSetChamberTarget ==
    /\ Accepting({"SetChamberTarget"})
    /\ session' = [session EXCEPT !.target = Head(queue).command.target]
    /\ UNCHANGED <<activeFault, firmwareUpdateActive, probeVars>>

AcceptSetProbeTarget ==
    /\ Accepting({"SetProbeTarget"})
    /\ LET command == Head(queue).command
       IN  /\ probes' = [probes EXCEPT ![command.probe].target = command.target,
                                       ![command.probe].targetAlarmEmitted = FALSE]
           /\ ResolveProbeAlarms({"ProbeTargetReached"}, command.probe)
    /\ UNCHANGED lifecycleVars

\* Enabling forgets the connection history; disabling also drops the sample.
ProbeWithEnabled(probe, enabled) ==
    [probe EXCEPT !.enabled = enabled, !.sampled = FALSE,
                  !.temperature = IF enabled THEN @ ELSE None,
                  !.reading = IF enabled THEN @ ELSE None,
                  !.targetAlarmEmitted = FALSE,
                  !.disconnectedAlarmEmitted = FALSE]

\* Mutant of ProbeWithAlarmEnabled: the latches survive.
ProbeKeepsLatches(probe, enabled) == [probe EXCEPT !.alarmEnabled = enabled]

ProbeWithAlarmEnabled(probe, enabled) ==
    [probe EXCEPT !.alarmEnabled = enabled,
                  !.targetAlarmEmitted = FALSE,
                  !.disconnectedAlarmEmitted = FALSE]

\* Mutant of ResolveOnDisable: disabling leaves raised alarms alone.
ResolveNothing(command) == UNCHANGED alarms

\* Only a disabling command resolves what is raised.
ResolveOnDisable(command) ==
    IF command.enabled
    THEN UNCHANGED alarms
    ELSE ResolveProbeAlarms({"ProbeTargetReached", "ProbeDisconnected"}, command.probe)

AcceptSetProbeEnabled ==
    /\ Accepting({"SetProbeEnabled"})
    /\ LET command == Head(queue).command
       IN  /\ probes' = [probes EXCEPT ![command.probe] =
                            ProbeWithEnabled(@, command.enabled)]
           /\ ResolveOnDisable(command)
    /\ UNCHANGED lifecycleVars

AcceptSetProbeAlarmEnabled ==
    /\ Accepting({"SetProbeAlarmEnabled"})
    /\ LET command == Head(queue).command
       IN  /\ probes' = [probes EXCEPT ![command.probe] =
                            ProbeWithAlarmEnabled(@, command.enabled)]
           /\ ResolveOnDisable(command)
    /\ UNCHANGED lifecycleVars

AcceptAcknowledgeAlarm ==
    /\ Accepting({"AcknowledgeAlarm"})
    /\ alarms' = [alarms EXCEPT ![Head(queue).command.alarm].acknowledged = TRUE]
    /\ UNCHANGED <<lifecycleVars, probes>>

\* Acknowledging a fault ends its session; it never lets it run again.
AcceptClearResolvedFault ==
    /\ Accepting({"ClearResolvedFault"})
    /\ activeFault' = None
    /\ session' = IF session.status = "Fault"
                  THEN [session EXCEPT !.status = "Stopped", !.stopReason = "Fault"]
                  ELSE session
    /\ UNCHANGED <<firmwareUpdateActive, probeVars>>

AcceptFirmwareInterlock ==
    /\ Accepting({"PrepareFirmwareUpdate", "FinishFirmwareUpdate"})
    /\ firmwareUpdateActive' = (Head(queue).command.type = "PrepareFirmwareUpdate")
    /\ UNCHANGED <<session, activeFault, probeVars>>

CommandsDone ==
    /\ phase = "commands"
    /\ queue = <<>>
    /\ phase' = "probes"
    /\ UNCHANGED <<commandVars, lifecycleVars, inputVars, probeVars,
                   controllerVars, outputVars>>

----------------------------------------------------------------------------
(* tick(): probe states and the stage timer.                                *)

IsEvaluated(probe) == probe.enabled /\ probe.sampled

ReportsDisconnected(probe) ==
    /\ IsRunning
    /\ IsEvaluated(probe)
    /\ probe.temperature = None
    /\ probe.alarmEnabled
    /\ ~probe.disconnectedAlarmEmitted

ReportsTargetReached(probe) ==
    /\ IsRunning
    /\ IsEvaluated(probe)
    /\ probe.temperature # None
    /\ probe.alarmEnabled
    /\ probe.target # None
    /\ ~probe.targetAlarmEmitted
    /\ probe.temperature >= probe.target

IsReconnected(probe) == IsEvaluated(probe) /\ probe.temperature # None

EvaluatedProbe(probe) ==
    [probe EXCEPT
        !.disconnectedAlarmEmitted =
            (@ /\ ~IsReconnected(probe)) \/ ReportsDisconnected(probe),
        !.targetAlarmEmitted = @ \/ ReportsTargetReached(probe)]

EvaluatedAlarm(k) ==
    CASE k[1] = "ProbeDisconnected" /\ IsReconnected(probes[k[2]])
            -> Resolved(alarms[k])
      [] k[1] = "ProbeDisconnected" /\ ReportsDisconnected(probes[k[2]])
            -> Raised(alarms[k])
      [] k[1] = "ProbeTargetReached" /\ ReportsTargetReached(probes[k[2]])
            -> Raised(alarms[k])
      [] OTHER -> alarms[k]

EvaluateProbeStates ==
    /\ phase = "probes"
    /\ phase' = "timer"
    /\ probes' = [p \in Probes |-> EvaluatedProbe(probes[p])]
    /\ alarms' = [k \in AlarmKeys |-> EvaluatedAlarm(k)]
    /\ UNCHANGED <<commandVars, lifecycleVars, inputVars, controllerVars,
                   outputVars>>

\* probe_readings_, all the timer sees of the probes.
ProbeReadings == [p \in Probes |-> probes[p].reading]

\* What the timer's update does to the session and the alarms.
ApplyTimer(timer) ==
    LET updated      == [session EXCEPT !.timer = timer]
        completedNow == timer.completed /\ ~session.timer.completed
        timerAlarm   == <<"TimerCompleted", None>>
    IN  IF completedNow /\ session.timerConfig.action = "StopSession"
        THEN StopRunningSession(updated, "TimerCompleted")
        ELSE /\ session' = updated
             /\ alarms' = IF completedNow
                          THEN [alarms EXCEPT ![timerAlarm] = Raised(@)]
                          ELSE alarms

UpdateActiveTimer ==
    /\ phase = "timer"
    /\ phase' = "reset"
    /\ IF IsRunning /\ session.timerConfig # None
       THEN ApplyTimer(UpdateStageTimer(session.timerConfig, session.timer,
                                   chamberTemperature, ProbeReadings))
       ELSE UNCHANGED <<session, alarms>>
    /\ UNCHANGED <<commandVars, activeFault, firmwareUpdateActive, inputVars,
                   probes, controllerVars, outputVars>>

----------------------------------------------------------------------------
(* tick(): the chamber controller.  request() and reset() of the injected   *)
(* controller may succeed or fail at any call.                              *)

ControllerIsEligible ==
    /\ configurationValid
    /\ activeFault = None
    /\ ~controllerFailurePending
    /\ ~firmwareUpdateActive
    /\ IsRunning
    /\ chamberTemperature # None
    /\ session.target # None

\* controllerMemory stands for the state inside the controller (an integral
\* term): a successful reset clears it, a request or a failed reset keeps it.
ResetChamberController(succeeds) ==
    /\ controllerFaultResolved' = succeeds
    /\ controllerMemory' = IF succeeds THEN None ELSE controllerMemory

RetryControllerReset ==
    /\ phase = "reset"
    /\ phase' = "control"
    /\ IF /\ controllerFailurePending \/ activeFault = "ControlLoopFailure"
          /\ ~controllerFaultResolved
       THEN \E succeeds \in BOOLEAN : ResetChamberController(succeeds)
       ELSE UNCHANGED <<controllerFaultResolved, controllerMemory>>
    /\ UNCHANGED <<commandVars, lifecycleVars, inputVars, probeVars,
                   controllerActive, controllerFailurePending, outputVars>>

RequestDemand ==
    /\ phase = "control"
    /\ phase' = "safety"
    /\ ControllerIsEligible
    /\ requestedDemand' \in Demands
    /\ controllerActive' = TRUE
    /\ controllerFaultResolved' = FALSE
    /\ controllerMemory' = session.id
    /\ UNCHANGED <<commandVars, lifecycleVars, inputVars, probeVars,
                   controllerFailurePending, heaterDemand, published>>

\* A failed request may have changed the controller; the reset decides.
RequestFails ==
    /\ phase = "control"
    /\ phase' = "safety"
    /\ ControllerIsEligible
    /\ controllerActive' = FALSE
    /\ controllerFailurePending' = TRUE
    /\ \E succeeds \in BOOLEAN :
         /\ controllerFaultResolved' = succeeds
         /\ controllerMemory' = IF succeeds THEN None ELSE session.id
    /\ UNCHANGED <<commandVars, lifecycleVars, inputVars, probeVars, outputVars>>

\* Mutant of Quiesce: a failed reset is not remembered.
QuiesceForgetsFailure ==
    IF controllerActive /\ ~ControllerIsEligible
    THEN /\ controllerActive' = FALSE
         /\ \E succeeds \in BOOLEAN : ResetChamberController(succeeds)
         /\ UNCHANGED controllerFailurePending
    ELSE UNCHANGED controllerVars

\* A controller that worked and may not any more is reset before the OFF write.
Quiesce ==
    IF controllerActive /\ ~ControllerIsEligible
    THEN /\ controllerActive' = FALSE
         /\ \E succeeds \in BOOLEAN :
              /\ ResetChamberController(succeeds)
              /\ controllerFailurePending' = (controllerFailurePending \/ ~succeeds)
    ELSE UNCHANGED controllerVars

QuiesceIneligible ==
    /\ phase = "control"
    /\ phase' = "safety"
    /\ ~ControllerIsEligible
    /\ Quiesce
    /\ UNCHANGED <<commandVars, lifecycleVars, inputVars, probeVars, outputVars>>

----------------------------------------------------------------------------
(* tick(): safety, the sole heater write and the snapshot.                  *)

\* Mutant of SafetyFault: only a missing reading is a fault.
SafetyIgnoresTheLimit ==
    CASE ~configurationValid -> "ConfigurationInvalid"
      [] configurationValid /\ chamberTemperature = None -> "ChamberSensorInvalid"
      [] OTHER -> None

\* The fault evaluate_safety asks for, or None.
SafetyFault ==
    CASE ~configurationValid -> "ConfigurationInvalid"
      [] configurationValid /\ chamberTemperature = None -> "ChamberSensorInvalid"
      [] configurationValid /\ chamberTemperature # None
           /\ chamberTemperature > MaximumChamberTemperature -> "ChamberOverTemperature"
      [] OTHER -> None

EvaluateSafety ==
    /\ phase = "safety"
    /\ phase' = "quiesce"
    /\ IF activeFault = None /\ SafetyFault # None
       THEN RaiseFault(SafetyFault)
       ELSE UNCHANGED <<session, activeFault, alarms>>
    /\ UNCHANGED <<commandVars, firmwareUpdateActive, inputVars, probes,
                   controllerVars, outputVars>>

QuiesceAfterSafety ==
    /\ phase = "quiesce"
    /\ phase' = "latch"
    /\ Quiesce
    /\ UNCHANGED <<commandVars, lifecycleVars, inputVars, probeVars, outputVars>>

LatchControllerFailure ==
    /\ phase = "latch"
    /\ phase' = "output"
    /\ IF activeFault = None /\ controllerFailurePending
       THEN /\ RaiseFault("ControlLoopFailure")
            /\ controllerFailurePending' = FALSE
       ELSE UNCHANGED <<session, activeFault, alarms, controllerFailurePending>>
    /\ UNCHANGED <<commandVars, firmwareUpdateActive, inputVars, probes,
                   controllerActive, controllerFaultResolved, controllerMemory,
                   outputVars>>

ApplySafetyGate(demand, status, fault) ==
    IF status # "Running" \/ fault # None THEN 0 ELSE demand

\* The part of SmokerSnapshotView that other tasks decide on.
SnapshotView(demand) ==
    [status |-> CurrentSessionStatus, session |-> session.id,
     stopReason |-> session.stopReason, target |-> session.target,
     chamber |-> chamberTemperature, heater |-> demand, fault |-> activeFault,
     firmware |-> firmwareUpdateActive]

WriteHeater ==
    /\ phase = "output"
    /\ phase' = "idle"
    /\ heaterDemand' = ApplySafetyGate(requestedDemand, CurrentSessionStatus, activeFault)
    /\ published' = SnapshotView(heaterDemand')
    /\ requestedDemand' = 0      \* a local of tick()
    /\ UNCHANGED <<commandVars, lifecycleVars, inputVars, probeVars,
                   controllerVars>>

----------------------------------------------------------------------------
(* The specification.                                                       *)

ProbeAtBoot(p) ==
    [target |-> ProbeDefaults[p].target, enabled |-> ProbeDefaults[p].enabled,
     alarmEnabled |-> ProbeDefaults[p].alarmEnabled, temperature |-> None,
     reading |-> None, sampled |-> FALSE, targetAlarmEmitted |-> FALSE,
     disconnectedAlarmEmitted |-> FALSE]

\* The constructor: OFF is written before the controller is reset, and a
\* failed first reset is a pending controller failure.
Init ==
    /\ phase = "idle"
    /\ queue = <<>>
    /\ results = <<>>
    /\ session = NoSession
    /\ activeFault = None
    /\ firmwareUpdateActive = FALSE
    /\ chamberTemperature = None
    /\ probes = [p \in Probes |-> ProbeAtBoot(p)]
    /\ alarms = [k \in AlarmKeys |-> [generation |-> 0, acknowledged |-> FALSE,
                                      resolved |-> TRUE]]
    /\ heaterDemand = 0
    /\ requestedDemand = 0
    /\ controllerActive = FALSE
    /\ controllerMemory = None
    /\ controllerFaultResolved \in BOOLEAN
    /\ controllerFailurePending = ~controllerFaultResolved
    /\ configurationValid \in BOOLEAN
    /\ configurationValid => Probes # {}
    /\ published = SnapshotView(0)

ProcessCommand ==
    \/ RejectCommand
    \/ AcceptStart
    \/ AcceptStop
    \/ AcceptSetChamberTarget
    \/ AcceptSetProbeTarget
    \/ AcceptSetProbeEnabled
    \/ AcceptSetProbeAlarmEnabled
    \/ AcceptAcknowledgeAlarm
    \/ AcceptClearResolvedFault
    \/ AcceptFirmwareInterlock

Tick ==
    \/ BeginTick
    \/ ProcessCommand
    \/ CommandsDone
    \/ EvaluateProbeStates
    \/ UpdateActiveTimer
    \/ RetryControllerReset
    \/ RequestDemand
    \/ RequestFails
    \/ QuiesceIneligible
    \/ EvaluateSafety
    \/ QuiesceAfterSafety
    \/ LatchControllerFailure
    \/ WriteHeater

Next ==
    \/ Tick
    \/ \E command \in Commands, id \in CorrelationIds \cup {0} : Submit(command, id)

Spec == Init /\ [][Next]_vars

\* ControlTask calls tick() once a second and the task watchdog restarts the
\* device if it stops doing so.
FairSpec == Spec /\ WF_vars(Tick)

----------------------------------------------------------------------------
(* Properties.                                                              *)

ProbeType ==
    [target : Readings, enabled : BOOLEAN, alarmEnabled : BOOLEAN,
     temperature : Readings, reading : Readings, sampled : BOOLEAN,
     targetAlarmEmitted : BOOLEAN, disconnectedAlarmEmitted : BOOLEAN]

ValidTimers == {config \in Timers : IsValidTimerConfiguration(config)}

AlarmType == [generation : Nat, acknowledged : BOOLEAN, resolved : BOOLEAN]

TimerType == [started : BOOLEAN, completed : BOOLEAN, elapsed : Nat, sinceStart : Nat]

SessionType ==
    [status : {"Idle", "Running", "Stopped", "Fault"}, id : SessionIds \cup {None},
     target : Readings, timerConfig : ValidTimers \cup {None}, timer : TimerType,
     stopReason : {"None", "User", "TimerCompleted", "Fault"}]

QueueEntries ==
    [command : Commands, id : CorrelationIds \cup {0}, coalesced : Seq(CorrelationIds)]

SnapshotViews ==
    [status : {"Idle", "Running", "Stopped", "Fault"}, session : SessionIds \cup {None},
     stopReason : {"None", "User", "TimerCompleted", "Fault"}, target : Readings,
     chamber : Readings, heater : Demands, fault : FaultCodes \cup {None},
     firmware : BOOLEAN]

\* Every variable has the type its C++ member has.
TypeOK ==
    /\ phase \in {"idle", "commands", "probes", "timer", "reset", "control",
                  "safety", "quiesce", "latch", "output"}
    /\ queue \in Seq(QueueEntries)
    /\ results \in Seq([id : CorrelationIds, accepted : BOOLEAN])
    /\ session \in SessionType
    /\ activeFault \in FaultCodes \cup {None}
    /\ firmwareUpdateActive \in BOOLEAN
    /\ chamberTemperature \in Readings
    /\ probes \in [Probes -> ProbeType]
    /\ alarms \in [AlarmKeys -> AlarmType]
    /\ controllerActive \in BOOLEAN
    /\ controllerFaultResolved \in BOOLEAN
    /\ controllerFailurePending \in BOOLEAN
    /\ controllerMemory \in SessionIds \cup {None}
    /\ requestedDemand \in Demands
    /\ heaterDemand \in Demands
    /\ configurationValid \in BOOLEAN
    /\ published \in SnapshotViews

\* Between two ticks the heater is on only in a running session with a target,
\* without a latched fault, without the firmware interlock, and after a valid
\* chamber reading within the limit (SF-001, CR-002, CR-005): commands, timer,
\* controller and safety of the whole tick have been taken into account.
HeaterInterlock ==
    phase = "idle" /\ heaterDemand > 0 =>
        /\ CurrentSessionStatus = "Running"
        /\ configurationValid
        /\ ~firmwareUpdateActive
        /\ session.target # None
        /\ chamberTemperature # None
        /\ chamberTemperature <= MaximumChamberTemperature

\* Neither a latched fault nor the firmware interlock ever coexists with a
\* running session, at any point of a tick: Prepare is legal under a fault, and
\* clearing that fault must not let the session run under the interlock.
InterlocksExcludeRunning ==
    firmwareUpdateActive \/ activeFault # None => ~IsRunning

\* A controller that could not be reset is never forgotten: while its reset is
\* outstanding it works for a session, waits to be latched, or is latched, even
\* when another fault was raised first and cleared meanwhile.
FailedResetIsAccountedFor ==
    ~controllerFaultResolved /\ ~controllerActive =>
        controllerFailurePending \/ activeFault = "ControlLoopFailure"

\* The controller is never asked on behalf of a session while it still holds the
\* integral state of an earlier one; the Stop barrier is what keeps a same-batch
\* Stop and Start from sharing the controller.
ControllerServesOneSession ==
    phase = "control" /\ ControllerIsEligible => controllerMemory \in {None, session.id}

\* What the snapshot shows of a probe belongs to its settings.  An unresolved alarm
\* always belongs to a running session and, for a probe, to an enabled probe with
\* enabled alarms; a disconnection alarm does not outlive the evaluation of a valid
\* sample (EV-002), which a repeated enable postpones.  No sample of a disabled probe
\* survives a disable, a Start that restores a disabled default, or the next
\* acquisition, in the snapshot or for the timer.
AlarmsAreCurrent ==
    /\ \A k \in AlarmKeys : ~alarms[k].resolved =>
         /\ IsRunning
         /\ k[1] # "TimerCompleted" => probes[k[2]].enabled /\ probes[k[2]].alarmEnabled
         /\ k[1] = "ProbeTargetReached" => probes[k[2]].target # None
         /\ k[1] = "ProbeDisconnected" /\ phase = "idle" /\ probes[k[2]].sampled
              => probes[k[2]].temperature = None
    /\ \A p \in Probes : ~probes[p].enabled =>
         probes[p].temperature = None /\ probes[p].reading = None

\* No alarm is missed: after a tick of a running session, a sampled probe that is
\* disconnected or at its target has its alarm unresolved, whatever sequence of
\* enable, disable, target and start commands went before the latch.
ProbeAlarmsAreRaised ==
    phase = "idle" /\ IsRunning =>
        \A p \in Probes :
            LET probe == probes[p] IN
            IsEvaluated(probe) /\ probe.alarmEnabled =>
                /\ probe.temperature = None => ~alarms[<<"ProbeDisconnected", p>>].resolved
                /\ probe.temperature # None /\ probe.target # None
                     /\ probe.temperature >= probe.target
                     => ~alarms[<<"ProbeTargetReached", p>>].resolved

\* A timer that completed in a running session raised the alarm that says so and
\* nothing took it back; one that stops the session never leaves it running.  And
\* elapsed time never exceeds the configured duration, although freezing a timer does
\* not clamp it: a Stop or a fault may land on the tick that completes it.
TimerCompletionTakesEffect ==
    /\ phase = "idle" /\ IsRunning /\ session.timer.completed =>
         /\ session.timerConfig.action = "Notify"
         /\ ~alarms[<<"TimerCompleted", None>>].resolved
    /\ session.timerConfig # None => session.timer.elapsed <= session.timerConfig.duration

\* The last slot of the queue holds a Stop, and Stops are never adjacent: regular
\* commands alone cannot shut out a Stop, and repeated Stops cannot fill the queue.
StopIsNeverShutOut ==
    /\ Len(queue) <= CommandCapacity
    /\ Len(queue) = CommandCapacity => IsStop(Last(queue).command)
    /\ \A i \in 1 .. Len(queue) - 1 :
         ~(IsStop(queue[i].command) /\ IsStop(queue[i + 1].command))

\* A correlated command has one verdict: none while it is pending, and never two
\* (a Prepare that was refused and sent again excepted).
OneVerdictPerCommand ==
    /\ \A i \in DOMAIN results :
         results[i].id # InternalOtaCorrelationId => results[i].id \notin QueuedIds
    /\ \A i, j \in DOMAIN results :
         results[i].id = results[j].id /\ i # j => results[i].id = InternalOtaCorrelationId

\* Once raised, a target alarm is re-armed only by an explicit target change or
\* by a new session (BUSINESS_RULES.md BR-007).
TargetAlarmLatchesPerTarget ==
    [][\A p \in Probes :
         probes[p].targetAlarmEmitted /\ ~probes'[p].targetAlarmEmitted =>
             Head(queue).command.type \in {"Start", "SetProbeTarget"}]_vars

\* A Stop that waits while the heater is on turns it OFF (SR-003), whatever is
\* queued before or after it: a Start in the same batch must not keep it on.
StopTurnsHeaterOff ==
    heaterDemand > 0 /\ (\E i \in DOMAIN queue : IsStop(queue[i].command))
        ~> heaterDemand = 0

\* The snapshots of successive ticks obey the abstract session life cycle: no
\* reader of snapshots can miss the end of a session, see it run again, or see a
\* firmware reservation together with heat.
Lifecycle == INSTANCE SessionLifecycle WITH view <- published

ImplementsLifecycle == Lifecycle!Spec

=============================================================================
